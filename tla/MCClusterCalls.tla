--------------------------- MODULE MCClusterCalls ---------------------------
(* Small instance of ClusterCalls: clear packets, and scrambled ones of    *)
(* every length that is treated differently.                               *)
EXTENDS ClusterCalls

OfLength(sc, n) == [sc |-> sc, n |-> n, blocks |-> 0, residueAt |-> 0, with |-> "none"]
MCKinds == {OfLength("clear", Blocks), OfLength("reserved", Blocks)}
             \cup {OfLength("even", n) : n \in -1 .. Blocks}
             \cup {OfLength("odd", n) : n \in {0, 1, Blocks}}
=============================================================================
