----------------------------- MODULE TsSections -----------------------------
(***************************************************************************)
(* How the sections of one pid are cut from its TS packets                 *)
(* (cDvbapiFilter::Analyze, Collect).                                      *)
(*                                                                         *)
(* A byte is known by the section it belongs to and its offset there; the  *)
(* bytes of section 0 are stuffing.  The length of a section is in its     *)
(* header, so it is known once HeaderLen bytes are there.                  *)
(***************************************************************************)
EXTENDS Integers, Sequences

CONSTANTS
  PayloadLen,   \* the payload of a TS packet: 184 bytes
  HeaderLen,    \* of a section: 3 bytes
  CcMod,        \* continuity counters: 16
  Lengths       \* the lengths of sections, the header included

ASSUME TsSectionsAssumption ==
  /\ HeaderLen \in Nat \ {0} /\ PayloadLen \in Nat /\ PayloadLen > HeaderLen
  /\ CcMod \in Nat \ {0, 1} /\ Lengths \subseteq {l \in Nat : l >= HeaderLen}

Byte == [section : Nat, offset : Nat, len : Lengths \cup {0}]
Stuffing == [section |-> 0, offset |-> 0, len |-> 0]
Section(k, len) ==
  [i \in 1 .. len |-> [section |-> k, offset |-> i, len |-> len]]

IsSection(bytes) ==
  bytes # <<>> /\ bytes = Section(bytes[1].section, bytes[1].len)

\* What the header says; bytes that are no header give the longest section.
Longest == CHOOSE l \in Lengths : \A m \in Lengths : m <= l
LengthOf_HeaderTwice(bytes) == HeaderLen + bytes[1].len

LengthOf(bytes) ==
  IF \A i \in 1 .. HeaderLen : bytes[i].section # 0 /\ bytes[i].offset = i
    THEN bytes[1].len ELSE Longest

\* The assembly part of pidfilters; lastcc -1: no packet yet.
NoAssembly == [section |-> <<>>, sectionLen |-> 0, lastcc |-> -1]

Smaller(a, b) == IF a < b THEN a ELSE b
From(s, i) == SubSeq(s, i, Len(s))

\* A result: the assembly that goes on, and the sections that were cut.
Dropped(pf) == [section |-> <<>>, sectionLen |-> 0, lastcc |-> pf.lastcc]

Collect(pf, data) ==
  LET take == IF pf.sectionLen # 0
                THEN Smaller(Len(data), pf.sectionLen - Len(pf.section))
                ELSE Len(data)
      more == pf.section \o SubSeq(data, 1, take)
      len  == IF pf.sectionLen = 0 /\ Len(more) >= HeaderLen
                THEN LengthOf(more) ELSE pf.sectionLen
      kept == IF pf.sectionLen = 0 /\ Len(more) >= HeaderLen
                THEN SubSeq(more, 1, Smaller(len, Len(more))) ELSE more
  IN  IF len # 0 /\ Len(kept) = len
        THEN [pf |-> Dropped(pf), cut |-> << kept >>]
        ELSE [pf |-> [section |-> kept, sectionLen |-> len, lastcc |-> pf.lastcc],
              cut |-> <<>>]

\* A round of the loop over the sections that start in a packet: the next one
\* is taken, unless there is stuffing or it continues in the next packet.
Taken(w, payload) ==
  LET rest == From(payload, w.at)
  IN  IF rest # <<>> /\ rest[1] # Stuffing
           /\ Len(rest) >= HeaderLen /\ LengthOf(rest) <= Len(rest)
        THEN [at  |-> w.at + LengthOf(rest),
              cut |-> Append(w.cut, SubSeq(rest, 1, LengthOf(rest)))]
        ELSE w

CutFrom(pf, payload) ==
  LET walk[k \in 0 .. Len(payload)] ==
        IF k = 0 THEN [at |-> 1, cut |-> <<>>] ELSE Taken(walk[k - 1], payload)
      end  == walk[Len(payload)]
      rest == From(payload, end.at)
  IN  IF rest = <<>> \/ rest[1] = Stuffing
        THEN [pf |-> Dropped(pf), cut |-> end.cut]
        ELSE LET result == Collect(Dropped(pf), rest)
             IN  [pf |-> result.pf, cut |-> end.cut \o result.cut]

\* No packet was lost since the last one, nor is this one a repetition.
Continuous_Unchecked(pf, packet) == pf.lastcc >= 0
Continuous(pf, packet) == pf.lastcc >= 0 /\ packet.cc = (pf.lastcc + 1) % CcMod

\* A packet with payload: pusi, its pointer field if so, cc and payload.
Analyze(old, packet) ==
  LET pf == [old EXCEPT !.lastcc = packet.cc]
      goesOn == Continuous(old, packet) /\ pf.section # <<>>
  IN  IF ~packet.pusi
        THEN IF goesOn THEN Collect(pf, packet.payload)
                       ELSE [pf |-> Dropped(pf), cut |-> <<>>]
      ELSE IF packet.pointer > Len(packet.payload)
        THEN [pf |-> Dropped(pf), cut |-> <<>>]
      ELSE LET ended == IF goesOn
                          THEN Collect(pf, SubSeq(packet.payload, 1, packet.pointer)).cut
                          ELSE <<>>
               new == CutFrom(pf, From(packet.payload, packet.pointer + 1))
           IN  [pf |-> new.pf, cut |-> ended \o new.cut]
=============================================================================
