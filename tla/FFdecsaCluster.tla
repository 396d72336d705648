--------------------------- MODULE FFdecsaCluster ---------------------------
(***************************************************************************)
(* decrypt_packets (FFdecsa.c): of the packets in a list of ranges, the    *)
(* cluster, it decrypts a group of one parity in parallel, and takes off   *)
(* the ranges what need not be given to it again.                          *)
(*                                                                         *)
(* The memory is a sequence of packets; a range <<first, end>> excludes    *)
(* its end.  A packet has its scrambling bits sc and the number n of whole *)
(* 8-byte blocks in its payload (-1: a broken one, without payload), and   *)
(* what was done to it: the blocks written, the iteration that decrypted   *)
(* the residue, the parity of the key.  The ciphers are left out.          *)
(***************************************************************************)
EXTENDS Integers, FiniteSets, Sequences, SequencesExt

CONSTANTS
  Parallelism,  \* GROUP_PARALLELISM
  Blocks        \* the blocks of a full payload: 23

ASSUME FFdecsaAssumption == Parallelism \in Nat \ {0} /\ Blocks \in Nat \ {0, 1}

Parities == {"even", "odd"}
Packet == [sc : {"clear", "reserved"} \cup Parities, n : -1 .. Blocks,
           blocks : Nat, residueAt : Nat, with : {"none"} \cup Parities]
-----------------------------------------------------------------------------
(* The group.                                                              *)

\* The packets of the ranges in order, each with the number of its range.
Positions(cluster) ==
  FlattenSeq([r \in DOMAIN cluster |->
    [i \in 1 .. cluster[r][2] - cluster[r][1] |->
       [range |-> r, at |-> cluster[r][1] + i - 1]]])

Joins_ParityUnset(scan, packet) == packet.sc = scan.parity
Joins(scan, packet) ==
  packet.sc \in Parities /\ (scan.group = <<>> \/ packet.sc = scan.parity)

\* The packets before the first one of the other parity are available.
Advances_PastOther(scan, packet) == scan.canAdvance
Advances(scan, packet) ==
  scan.canAdvance /\ (Joins(scan, packet) \/ packet.sc \notin Parities)

\* One packet.  The start of its range moves on up to the first packet of the
\* other parity.  A mini packet (n = 0) is taken for decrypted as it is.
Examine(mem, scan, pos) ==
  IF Len(scan.group) = Parallelism THEN scan
  ELSE LET packet  == mem[pos.at]
           joins   == Joins(scan, packet)
           advance == Advances(scan, packet)
       IN  [group      |-> IF joins /\ packet.n > 0
                             THEN Append(scan.group, pos.at) ELSE scan.group,
            parity     |-> IF joins THEN packet.sc ELSE scan.parity,
            marked     |-> IF joins THEN scan.marked \cup {pos.at} ELSE scan.marked,
            canAdvance |-> advance,
            advanced   |-> IF advance THEN scan.advanced + 1 ELSE scan.advanced,
            cluster    |-> IF advance
                             THEN [scan.cluster EXCEPT ![pos.range][1] = @ + 1]
                             ELSE scan.cluster]

Scan(mem, cluster) ==
  LET pos == Positions(cluster)
      scan[k \in 0 .. Len(pos)] ==
        IF k = 0
          THEN [group |-> <<>>, parity |-> "even", marked |-> {},
                canAdvance |-> TRUE, advanced |-> 0, cluster |-> cluster]
          ELSE Examine(mem, scan[k - 1], pos[k])
  IN  scan[Len(pos)]

NotEmpty(range) == range[1] < range[2]
Compacted(cluster) ==
  LET kept[r \in 0 .. Len(cluster)] ==
        IF r = 0 THEN <<>>
        ELSE IF NotEmpty(cluster[r]) THEN Append(kept[r - 1], cluster[r]) ELSE kept[r - 1]
  IN  kept[Len(cluster)]
-----------------------------------------------------------------------------
(* The order of the group: full packets first, then by falling n.          *)

Swap(s, i, j) == [s EXCEPT ![i] = s[j], ![j] = s[i]]

\* Where the searches for a packet that is not full, and for a full one, stop.
FirstSmall(n, order, from) ==
  CHOOSE i \in from .. Len(order) + 1 :
    /\ i = Len(order) + 1 \/ n[order[i]] # Blocks
    /\ \A j \in from .. i - 1 : n[order[j]] = Blocks
LastFull(n, order, from) ==
  CHOOSE i \in 0 .. from :
    /\ i = 0 \/ n[order[i]] = Blocks
    /\ \A j \in i + 1 .. from : n[order[j]] # Blocks

\* Step 1: one round of the search from both ends; it stays where they met.
SearchRound(n, st) ==
  LET t23   == FirstSmall(n, st.order, st.t23)
      small == LastFull(n, st.order, st.small)
  IN  IF small - t23 < 1
        THEN [order |-> st.order, t23 |-> t23, small |-> small]
        ELSE [order |-> Swap(st.order, t23, small), t23 |-> t23 + 1, small |-> small - 1]
FullFirst(n, group) ==
  LET round[k \in 0 .. Len(group) + 1] ==
        IF k = 0 THEN [order |-> group, t23 |-> 1, small |-> Len(group)]
                 ELSE SearchRound(n, round[k - 1])
  IN  round[Len(group) + 1]

\* Step 2: the others, by exchanges: the longest of those from i on comes to i.
ComparedTo(n, i, s, j) == IF n[s[j]] > n[s[i]] THEN Swap(s, i, j) ELSE s
LongestTo(n, i, s) ==
  LET inner[j \in 0 .. Len(s)] ==
        IF j <= i THEN s ELSE ComparedTo(n, i, inner[j - 1], j)
  IN  inner[Len(s)]
Ordered(n, group) ==
  LET split == FullFirst(n, group)
      outer[i \in 0 .. Len(group)] ==
        IF i < split.t23 THEN split.order ELSE LongestTo(n, i, outer[i - 1])
  IN  outer[Len(group)]
-----------------------------------------------------------------------------
(* The iterations: alive[i] packets have more than i blocks.               *)

Alive(n, order) ==
  LET count(i) == Cardinality({g \in DOMAIN order : n[order[g]] = i + 1})
      alive[i \in 0 .. Blocks] ==
        IF i = Blocks THEN 0 ELSE count(i) + alive[i + 1]
  IN  alive

\* Iteration i writes a block of the packets that were alive before it; for
\* those that are not any more it was the last one, and the residue follows.
\* A packet of full length has no residue.
Blocked_FromNext(alive, i) == 1 .. alive[i]
Blocked(alive, i) == 1 .. alive[i - 1]
Residues(alive, i) == IF i = Blocks THEN {} ELSE alive[i] + 1 .. alive[i - 1]

BlocksWritten(alive, g) == Cardinality({i \in 1 .. Blocks : g \in Blocked(alive, i)})
ResidueAt(alive, g) ==
  IF \E i \in 1 .. Blocks : g \in Residues(alive, i)
    THEN CHOOSE i \in 1 .. Blocks : g \in Residues(alive, i) ELSE 0
-----------------------------------------------------------------------------
\* What decrypt_packets returns, and the memory and cluster it leaves.
DecryptPackets(mem, cluster) ==
  LET scan  == Scan(mem, cluster)
      n     == [at \in DOMAIN mem |-> mem[at].n]
      order == Ordered(n, scan.group)
      alive == Alive(n, order)
      place(at) == CHOOSE g \in DOMAIN order : order[g] = at
      marked(at) == IF at \in scan.marked THEN [mem[at] EXCEPT !.sc = "clear"]
                                          ELSE mem[at]
  IN  [mem |-> [at \in DOMAIN mem |->
                  IF Contains(scan.group, at)
                    THEN [marked(at) EXCEPT
                            !.blocks = @ + BlocksWritten(alive, place(at)),
                            !.residueAt = @ + ResidueAt(alive, place(at)),
                            !.with = scan.parity]
                    ELSE marked(at)],
       cluster |-> Compacted(scan.cluster),
       group |-> ToSet(scan.group),
       advanced |-> scan.advanced]
=============================================================================
