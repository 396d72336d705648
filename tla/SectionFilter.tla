--------------------------- MODULE SectionFilter ---------------------------
(***************************************************************************)
(* The filters of one adapter (cDvbapiFilter).  On one pid, this one,      *)
(* sections are cut from the TS packets that arrive, although packets get  *)
(* lost or come twice and OSCam sets and stops filters in the middle of a  *)
(* section, and each is sent to the filters it matches.  Of the ECMs, a    *)
(* filter keeps the mode (iCAM) until OSCam answers them with a CW, when   *)
(* it is looked for among the filters of all pids and demuxes.  Of the     *)
(* other pids only the filters and the ECMs that reach them are modelled.  *)
(*                                                                         *)
(* cDvbapiFilter::mutex is held by every operation, so that each is one    *)
(* step.  The broadcaster (external) packs sections into packets as        *)
(* ISO 13818-1 asks for.                                                   *)
(***************************************************************************)
EXTENDS TsSections, SequencesExt

CONSTANTS
  FilterIds,     \* <<demux, number>> of the filters OSCam may set on a pid
  Tables,        \* table ids
  EcmTables,     \* of ECMs: one of even, one of odd parity (0x80, 0x81)
  Tunes(_),      \* Tunes(f): the sets of tables that OSCam may set f to
  ThisPid,       \* the pid whose packets are modelled
  OtherPids,     \* the other pids of the adapter
  OtherModes,    \* the modes that the ECMs of these may have
  Setups,        \* filters, other pids and sections, one of which is tried
  MaxLost,       \* bound: the packets lost in a row
  MaxBatch       \* bound: the sections that start in one packet

\* Pid 0 is not looked at.
ASSUME FilterAssumption ==
  /\ EcmTables \subseteq Tables
  /\ \A f \in FilterIds : Tunes(f) \subseteq SUBSET Tables
  /\ ThisPid \in Nat \ {0} /\ OtherPids \subseteq Nat \ {0, ThisPid}
  /\ OtherModes \subseteq Nat

\* filters: of this pid; others: of the pids; sections: a bound, the sections
\* that are broadcast.
ASSUME SetupAssumption ==
  \A s \in Setups :
    /\ s.filters \subseteq FilterIds /\ s.others \subseteq FilterIds
    /\ s.pids \subseteq OtherPids /\ s.sections \in Nat

\* As many lost packets as there are continuity counters go unnoticed.
ASSUME LossAssumption ==
  MaxLost \in Nat /\ MaxLost < CcMod /\ MaxBatch \in Nat

VARIABLES
  setup,     \* the one that is tried
  filters,   \* pidmap of this pid: the filters that are set, in a list
  pf,        \* the assembly that they share
  lengths,   \* the length of each section broadcast so far
  table,     \* and its table id
  offset,    \* how much of the last one was broadcast
  cc,        \* the continuity counter of the last packet
  lost,      \* history: the packets lost in a row
  last,      \* the last packet, until it has come twice
  broken,    \* history: the sections that were not received whole
  due,       \* history: the sections received whole with the last packet
  cut,       \* the sections cut from the last packet
  delivered, \* the filters and sections that were sent to OSCam with it
  asked,     \* history: for each filter of this pid, the ECM of each parity
             \* that OSCam's next CW answers
  elsewhere  \* pidmap of the other pids: their filters, in a list

others == <<setup, elsewhere>>
vars == <<filters, pf, lengths, table, offset, cc, lost, last, broken, due,
          cut, delivered, asked, others>>

NoPacket == [pusi |-> FALSE, pointer |-> 0, cc |-> 0, payload |-> <<>>]
-----------------------------------------------------------------------------
\* A mode is known by the section it is of; dmxfilter starts with none.
NoMode == [t \in EcmTables |-> 0]

Init ==
  /\ filters = <<>> /\ pf = NoAssembly
  /\ lengths = <<>> /\ table = <<>> /\ offset = 0 /\ cc = 0
  /\ lost = 0 /\ last = NoPacket /\ broken = {}
  /\ due = {} /\ cut = <<>> /\ delivered = {}
  /\ asked = [f \in FilterIds |-> NoMode]
  /\ setup \in Setups /\ elsewhere = [pid \in OtherPids |-> <<>>]

(* The broadcaster.                                                        *)

Started == Len(lengths)
Remaining == IF Started = 0 THEN 0 ELSE lengths[Started] - offset

\* Sections of these lengths, back to back, the first one numbered "first".
Sections(first, lens) ==
  FlattenSeq([i \in DOMAIN lens |-> Section(first + i - 1, lens[i])])

Total(lens) == Len(Sections(Started + 1, lens))

\* The payload: what remains of the last section, the sections that start
\* here as far as there is room, and stuffing.
Payload(lens, room) ==
  LET tail == IF Started = 0 THEN <<>>
              ELSE From(Section(Started, lengths[Started]), offset + 1)
      all  == tail \o Sections(Started + 1, lens)
  IN  [i \in 1 .. room |-> IF i <= Len(all) THEN all[i] ELSE Stuffing]

\* The lengths of the sections that may start in the next packet.
Batches ==
  UNION {[1 .. n -> Lengths] : n \in 0 .. Smaller(MaxBatch, setup.sections - Started)}

\* All of them start there, none before the last section has ended.
Fits(lens) ==
  IF lens = <<>> THEN Remaining > 0
  ELSE Remaining + Total(lens) - lens[Len(lens)] < PayloadLen - 1

\* The pointer field takes a byte of the payload.
PacketWith(lens) ==
  [pusi |-> lens # <<>>, pointer |-> IF lens = <<>> THEN 0 ELSE Remaining,
   cc |-> (cc + 1) % CcMod,
   payload |-> Payload(lens, IF lens = <<>> THEN PayloadLen ELSE PayloadLen - 1)]

\* The sections of a packet, those that start in it, and those that end in it.
BytesOf(packet) == {packet.payload[i] : i \in DOMAIN packet.payload} \ {Stuffing}
SectionsIn(packet) == {b.section : b \in BytesOf(packet)}
StartIn(packet) == {b.section : b \in {c \in BytesOf(packet) : c.offset = 1}}
EndIn(packet)   == {b.section : b \in {c \in BytesOf(packet) : c.offset = c.len}}

Broadcasts(lens) ==
  /\ Fits(lens)
  /\ lengths' = lengths \o lens
  /\ \E t \in [DOMAIN lens -> Tables] : table' = table \o t
  /\ LET sent == Remaining + Total(lens)
         room == IF lens = <<>> THEN PayloadLen ELSE PayloadLen - 1
         missing == IF sent > room THEN sent - room ELSE 0
     IN  offset' = lengths'[Len(lengths')] - missing
  /\ cc' = (cc + 1) % CcMod
-----------------------------------------------------------------------------
(* Deliver: each section that was cut goes to the filters it matches.      *)
Numbers(fs) == {fs[i].id : i \in DOMAIN fs}
Cut(sections) == {sections[i] : i \in DOMAIN sections}

SentTo_First(fs, sections) ==
  {d \in {fs[i].id : i \in DOMAIN fs \cap {1}} \X Cut(sections) :
     \E i \in DOMAIN fs : fs[i].id = d[1] /\ table'[d[2][1].section] \in fs[i].tables}

SentTo(fs, sections) ==
  {d \in Numbers(fs) \X Cut(sections) :
     \E i \in DOMAIN fs : fs[i].id = d[1] /\ table'[d[2][1].section] \in fs[i].tables}

\* The last of these sections that is of the table, or else the one before.
LastOf(t, sections, before) ==
  LET found == {k \in sections \cap DOMAIN table' : table'[k] = t}
  IN  IF found = {} THEN before ELSE CHOOSE k \in found : \A m \in found : m <= k

\* An ECM leaves its mode in the filter it is sent to.
SetECM(entry, sections) ==
  LET sent == {s[1].section : s \in Cut(sections)}
  IN  [entry EXCEPT !.ecm =
         [t \in EcmTables |-> IF t \in entry.tables THEN LastOf(t, sent, entry.ecm[t])
                                                    ELSE entry.ecm[t]]]

Pids == OtherPids \cup {ThisPid}
List(pid) == IF pid = ThisPid THEN filters ELSE elsewhere[pid]

\* (filter[0] & 0xFE) == 0x80; its mask has the top bit when it matches ECMs.
IsForEcms(entry) == entry.tables \cap EcmTables # {}
EcmsOf(demux, entry) == entry.id[1] = demux /\ IsForEcms(entry)

Least(S) == CHOOSE i \in S : \A j \in S : i <= j

GetECM_AnyDemux(demux, t) ==
  LET at    == [pid \in Pids |-> {i \in DOMAIN List(pid) : IsForEcms(List(pid)[i])}]
      found == {pid \in Pids : at[pid] # {}}
      first == Least(found)
  IN  IF found = {} THEN 0 ELSE List(first)[Least(at[first])].ecm[t]

\* For the CW that OSCam sets for a demux: of all its filters for ECMs, the
\* first one of the lowest pid, whichever ECM the CW answers.
GetECM(demux, t) ==
  LET at    == [pid \in Pids |-> {i \in DOMAIN List(pid) : EcmsOf(demux, List(pid)[i])}]
      found == {pid \in Pids : at[pid] # {}}
      first == Least(found)
  IN  IF found = {} THEN 0 ELSE List(first)[Least(at[first])].ecm[t]

\* Analyze: without a filter for the pid the packet is not looked at.
Receive(packet) ==
  IF filters = <<>>
    THEN cut' = <<>> /\ delivered' = {} /\ UNCHANGED <<pf, filters>>
    ELSE LET result == Analyze(pf, packet)
         IN  /\ pf' = result.pf /\ cut' = result.cut
             /\ delivered' = SentTo(filters, result.cut)
             /\ filters' = [i \in DOMAIN filters |-> SetECM(filters[i], result.cut)]

\* OSCam answers the newest ECM of a parity that a filter should have got.
Asks ==
  asked' = [f \in FilterIds |-> [t \in EcmTables |->
    IF \E i \in DOMAIN filters : filters[i].id = f /\ t \in filters[i].tables
      THEN LastOf(t, due', asked[f][t]) ELSE asked[f][t]]]

PacketArrives ==
  \E lens \in Batches :
    LET packet == PacketWith(lens)
    IN  /\ Broadcasts(lens) /\ Receive(packet)
        /\ last' = packet /\ lost' = 0
        /\ broken' = broken \cup (IF filters = <<>> THEN SectionsIn(packet) ELSE {})
        /\ due' = EndIn(packet) \ broken'
        /\ Asks /\ UNCHANGED others

PacketLost ==
  \E lens \in Batches :
    /\ lost < MaxLost /\ lost' = lost + 1
    /\ Broadcasts(lens)
    /\ broken' = broken \cup SectionsIn(PacketWith(lens))
    /\ last' = NoPacket
    /\ cut' = <<>> /\ due' = {} /\ delivered' = {}
    /\ UNCHANGED <<filters, pf, asked, others>>

\* ISO 13818-1 allows a packet to come twice.  Its sections are cut again if
\* they start in it; one that goes on from before and has not ended is lost.
PacketRepeated ==
  /\ last # NoPacket /\ filters # <<>> /\ last' = NoPacket
  /\ UNCHANGED <<lengths, table, offset, cc, lost, others>>
  /\ Receive(last)
  /\ broken' = broken \cup (IF last.pusi THEN {} ELSE SectionsIn(last))
  /\ due' = (EndIn(last) \cap StartIn(last)) \ broken'
  /\ Asks
-----------------------------------------------------------------------------
(* OSCam's requests.                                                       *)

InProgress == IF Remaining > 0 THEN {Started} ELSE {}

Quiet == cut' = <<>> /\ due' = {} /\ delivered' = {} /\ last' = NoPacket

NewEntry(f, tables) == [id |-> f, tables |-> tables, ecm |-> NoMode]

\* A filter that is set already keeps its place and its modes.
WithFilter_Anew(fs, f, tables) ==
  IF f \in Numbers(fs)
    THEN [i \in DOMAIN fs |-> IF fs[i].id = f THEN NewEntry(f, tables) ELSE fs[i]]
    ELSE Append(fs, NewEntry(f, tables))

WithFilter(fs, f, tables) ==
  IF f \in Numbers(fs)
    THEN [i \in DOMAIN fs |-> IF fs[i].id = f THEN [fs[i] EXCEPT !.tables = tables]
                                               ELSE fs[i]]
    ELSE Append(fs, NewEntry(f, tables))

\* A first filter for the pid starts a new assembly, another one shares it.
SetFilter(f, tables) ==
  /\ filters' = WithFilter(filters, f, tables)
  /\ broken' = broken \cup (IF filters = <<>> THEN InProgress ELSE {})
  /\ Quiet
  /\ UNCHANGED <<pf, lengths, table, offset, cc, lost, asked, others>>

\* With the last filter of the pid its assembly goes.  Nothing is asked with
\* the ECMs of a filter that is stopped.
StopFilter(f) ==
  /\ \E i \in DOMAIN filters : filters[i].id = f /\ filters' = RemoveAt(filters, i)
  /\ pf' = (IF filters' = <<>> THEN NoAssembly ELSE pf)
  /\ broken' = broken \cup (IF filters' = <<>> THEN InProgress ELSE {})
  /\ asked' = [asked EXCEPT ![f] = NoMode] /\ Quiet
  /\ UNCHANGED <<lengths, table, offset, cc, lost, others>>

StopAllFilters ==
  /\ \E pid \in Pids : List(pid) # <<>>
  /\ filters' = <<>> /\ pf' = NoAssembly
  /\ elsewhere' = [pid \in OtherPids |-> <<>>]
  /\ broken' = broken \cup InProgress
  /\ asked' = [f \in FilterIds |-> NoMode] /\ Quiet
  /\ UNCHANGED <<lengths, table, offset, cc, lost, setup>>
-----------------------------------------------------------------------------
(* The other pids: what is broadcast on them arrives whole.                *)

ThisStays ==
  UNCHANGED <<filters, pf, lengths, table, offset, cc, lost, last, broken, due,
              cut, delivered, asked, setup>>

SetFilterElsewhere(pid, f, tables) ==
  /\ elsewhere' = [elsewhere EXCEPT ![pid] = WithFilter(@, f, tables)]
  /\ ThisStays

StopFilterElsewhere(pid, f) ==
  /\ \E i \in DOMAIN elsewhere[pid] :
       /\ elsewhere[pid][i].id = f
       /\ elsewhere' = [elsewhere EXCEPT ![pid] = RemoveAt(@, i)]
  /\ ThisStays

\* An ECM reaches all filters of its pid that match it.
WithEcm(entry, t, mode) ==
  IF t \in entry.tables THEN [entry EXCEPT !.ecm = [@ EXCEPT ![t] = mode]] ELSE entry

EcmElsewhere(pid, t, mode) ==
  /\ elsewhere[pid] # <<>>
  /\ elsewhere' = [elsewhere EXCEPT ![pid] =
                     [i \in DOMAIN @ |-> WithEcm(@[i], t, mode)]]
  /\ ThisStays
-----------------------------------------------------------------------------
Next ==
  \/ PacketArrives \/ PacketLost \/ PacketRepeated
  \/ \E f \in setup.filters :
       StopFilter(f) \/ \E tables \in Tunes(f) : SetFilter(f, tables)
  \/ StopAllFilters
  \/ \E pid \in setup.pids, f \in setup.others :
       \/ StopFilterElsewhere(pid, f)
       \/ \E tables \in Tunes(f) : SetFilterElsewhere(pid, f, tables)
  \/ \E pid \in setup.pids, t \in EcmTables, mode \in OtherModes :
       EcmElsewhere(pid, t, mode)

Spec == Init /\ [][Next]_vars
-----------------------------------------------------------------------------
TypeOK ==
  /\ filters \in Seq([id : FilterIds, tables : SUBSET Tables,
                        ecm : [EcmTables -> 0 .. Started]])
  /\ asked \in [FilterIds -> [EcmTables -> 0 .. Started]]
  /\ elsewhere \in [OtherPids -> Seq([id : FilterIds, tables : SUBSET Tables,
                                      ecm : [EcmTables -> Nat]])]
  /\ pf.section \in Seq(Byte) /\ pf.sectionLen \in Lengths \cup {0}
  /\ pf.lastcc \in -1 .. CcMod - 1
  /\ lengths \in Seq(Lengths) /\ table \in Seq(Tables) /\ offset \in Nat
  /\ cc \in 0 .. CcMod - 1 /\ lost \in 0 .. MaxLost
  /\ broken \subseteq 1 .. Started

(***************************************************************************)
(* A packet gives exactly the sections that it completes and that were     *)
(* received whole, in order: none is missed, mixed from two or cut short,  *)
(* wherever the packets divide it (its header too).                        *)
(***************************************************************************)
CutsWholeSections ==
  /\ \A i \in DOMAIN cut : IsSection(cut[i])
  /\ \A i, j \in DOMAIN cut : i < j => cut[i][1].section < cut[j][1].section
  /\ {cut[i][1].section : i \in DOMAIN cut} = due

(***************************************************************************)
(* Each of the filters set at that time gets each section it matches,      *)
(* however old the filter is, and none of another table.                   *)
(***************************************************************************)
EveryFilterServed ==
  {<<d[1], d[2][1].section>> : d \in delivered} =
  {d \in FilterIds \X due :
     \E j \in DOMAIN filters : filters[j].id = d[1] /\ table[d[2]] \in filters[j].tables}

\* What a CW for the demux may answer: an ECM that one of its filters got.
Demuxes == {f[1] : f \in FilterIds}
ModesAsked(demux, t) ==
  {asked[filters[i].id][t] : i \in {j \in DOMAIN filters : EcmsOf(demux, filters[j])}}
  \cup UNION {
    {elsewhere[pid][i].ecm[t] :
       i \in {j \in DOMAIN elsewhere[pid] : EcmsOf(demux, elsewhere[pid][j])}}
    : pid \in OtherPids}

(***************************************************************************)
(* The CW that OSCam answers an ECM with gets the mode of that ECM,        *)
(* although OSCam turns the filter to the other parity before it answers,  *)
(* although ECMs of other demuxes come with the same pid and with others,  *)
(* and although a filter that was stopped is set again: it has no mode of  *)
(* before.  Of several filters for ECMs that a demux has at a time the     *)
(* mode is that of one; without any it is none.                            *)
(***************************************************************************)
ModeOfItsEcm ==
  \A demux \in Demuxes, t \in EcmTables :
    GetECM(demux, t) \in
      IF ModesAsked(demux, t) = {} THEN {0} ELSE ModesAsked(demux, t)
=============================================================================
