---------------------------- MODULE ClusterCalls ----------------------------
(***************************************************************************)
(* A caller that gives decrypt_packets the cluster it returned, until it   *)
(* is empty (FFdecsa/docs/how_to_use.txt).                                 *)
(***************************************************************************)
EXTENDS FFdecsaCluster

CONSTANTS
  Kinds,        \* the packets that are tried
  MaxPackets    \* bound: the packets in memory

\* Nothing was done to a packet yet.
ASSUME ClusterCallsAssumption ==
  /\ Kinds \subseteq {p \in Packet : p.blocks = 0 /\ p.residueAt = 0}
  /\ MaxPackets \in Nat

VARIABLES
  memory,       \* the packets
  pending,      \* the ranges of the cluster
  given,        \* history: the packets before the first call
  returned      \* history: what the last call returned

callerVars == <<memory, pending, given, returned>>

Whole(k)   == << <<1, k + 1>> >>
Singles(k) == [i \in 1 .. k |-> <<i, i + 1>>]
Clusters(k) ==
  {Whole(k), Singles(k)} \cup
  {<< <<i, j>>, <<l, k + 1>> >> : i \in {1}, j \in {2}, l \in 2 .. k}

CallerInit ==
  /\ \E k \in 1 .. MaxPackets :
       /\ memory \in [1 .. k -> Kinds]
       /\ pending \in Clusters(k)
  /\ given = memory /\ returned = 0

Calls ==
  /\ pending # <<>>
  /\ LET result == DecryptPackets(memory, pending)
     IN  /\ memory' = result.mem /\ pending' = result.cluster
         /\ returned' = result.advanced
  /\ UNCHANGED given

CallerSpec == CallerInit /\ [][Calls]_callerVars

Covered(ranges) == {pos.at : pos \in ToSet(Positions(ranges))}
-----------------------------------------------------------------------------
(***************************************************************************)
(* A packet whose scrambling bits were cleared was decrypted with the key  *)
(* of its own parity, each block and the residue once, however the group   *)
(* was sorted; any other packet is as it was.  Packets without a whole     *)
(* block are the same when decrypted.                                      *)
(***************************************************************************)
EachBlockOnce ==
  \A at \in DOMAIN memory :
    LET was == given[at]  is == memory[at]
    IN  IF is.sc # was.sc /\ is.n > 0
          THEN /\ is.with = was.sc /\ is.blocks = is.n
               /\ is.residueAt = (IF is.n = Blocks THEN 0 ELSE is.n)
          ELSE is = [was EXCEPT !.sc = is.sc]

(***************************************************************************)
(* The number that is returned is that of the packets at the start of the  *)
(* cluster which are available, and the returned cluster has every packet  *)
(* that still needs to be given (how_to_use.txt:43-52).                    *)
(***************************************************************************)
ReturnsAvailable ==
  [][/\ \A i \in 1 .. returned' :
          memory'[Positions(pending)[i].at].sc \notin Parities
     /\ \A at \in Covered(pending) \ Covered(pending') :
          memory'[at].sc \notin Parities]_callerVars

(***************************************************************************)
(* "It guarantees that the first packet will be decrypted"                 *)
(* (how_to_use.txt:146): each call gets the caller at least one packet, so *)
(* that calling again and again comes to an end.                           *)
(***************************************************************************)
FirstServed ==
  [][pending # <<>> =>
       /\ memory'[pending[1][1]].sc \notin Parities
       /\ Cardinality(Covered(pending')) < Cardinality(Covered(pending))]_callerVars
=============================================================================
