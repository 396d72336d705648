------------------------------- MODULE CaPmt -------------------------------
(***************************************************************************)
(* The list of services the plugin asks OSCam to decrypt (CAPMT::pmt), as  *)
(* a sequence, and what one CA_PMT request of VDR does to it               *)
(* (CAPMT::ProcessSIDRequest, up to its call of SendAll).                  *)
(***************************************************************************)
EXTENDS Integers, Sequences

CONSTANTS
  Sids,       \* program numbers (sid 0 is none of them: see Request)
  Adapters,   \* card indexes; each has a CI adapter and a receive thread
  Contents,   \* what a CA_PMT may say beyond its sid: CAIDs, pids, ...
  NoData      \* a CA_PMT that has no CA descriptors, or a stop: len == 0

ASSUME ContentsAssumption == NoData \notin Contents

\* CA_PMT list management values VDR sends and the code tells apart.
LIST_ONLY   == 3
LIST_ADD    == 4
LIST_UPDATE == 5

\* An entry of the list (pmtobj) without the ECM info and the lengths.
PmtObj == [sid : Sids, adapter : Adapters, data : Contents]

\* A call of ProcessSIDRequest.  A CA_PMT of sid 0 returns at once; one that
\* is too short leaves on the same path as one without data.
Request == [sid : Sids, adapter : Adapters, lm : {LIST_ONLY, LIST_ADD, LIST_UPDATE},
            data : Contents \cup {NoData}]

PositionsOf_AnyAdapter(list, r) == {i \in DOMAIN list : list[i].sid = r.sid}

\* The positions of the service of request r in the list.
PositionsOf(list, r) ==
  {i \in DOMAIN list : list[i].sid = r.sid /\ list[i].adapter = r.adapter}

First(S) == CHOOSE i \in S : \A j \in S : i <= j

Erased_KeepsOld(list, r) == list

\* The list with its first entry for the service of r erased, if it has one.
Erased(list, r) ==
  IF PositionsOf(list, r) = {}
    THEN list
    ELSE LET i == First(PositionsOf(list, r))
         IN  SubSeq(list, 1, i - 1) \o SubSeq(list, i + 1, Len(list))

\* Only ADD and ONLY put the service (back) on the list; an UPDATE with data
\* takes it off, as a request to stop does.
Adds_EvenEmpty(r) == r.lm \in {LIST_ADD, LIST_ONLY}
Adds(r) == r.lm \in {LIST_ADD, LIST_ONLY} /\ r.data # NoData

Updated(list, r) ==
  IF Adds(r)
    THEN Append(Erased(list, r),
                [sid |-> r.sid, adapter |-> r.adapter, data |-> r.data])
    ELSE Erased(list, r)

\* Whether the request ends with SendAll: always, unless there was neither
\* an entry to take off nor one to put on.
Resends_OnlyIfData(list, r) == r.data # NoData
Resends(list, r) == PositionsOf(list, r) # {} \/ r.data # NoData

(***************************************************************************)
(* No two entries of the list are for the same service of the same         *)
(* adapter.  OSCam would see the service twice, and erasing one entry on a *)
(* stop would leave the other one to be decrypted for ever.                *)
(***************************************************************************)
UniqueServices(list) ==
  \A i, j \in DOMAIN list :
    list[i].sid = list[j].sid /\ list[i].adapter = list[j].adapter => i = j
=============================================================================
