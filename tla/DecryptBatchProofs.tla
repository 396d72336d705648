-------------------------- MODULE DecryptBatchProofs --------------------------
(***************************************************************************)
(* Proofs about decrypt_packets and its callers, for any memory, ranges,   *)
(* lengths of payload and degrees of parallelism: what the scan takes, how *)
(* the group is sorted, what the iterations write and what is left of the  *)
(* ranges (FFdecsaCluster); a caller that repeats it (ClusterCalls); and,  *)
(* for any streams and setups, Decrypt, which calls it on packets of VDR's *)
(* buffer (DecryptBatch).                                                  *)
(***************************************************************************)
EXTENDS DecryptBatch, ClusterCalls, NatRecursion, FiniteSetTheorems
-----------------------------------------------------------------------------
(* What the scan of the packets takes for the group.                       *)

Range2 == Nat \X Nat
Position == [range : Nat, at : Nat]
Scanned == [group : Seq(Nat), parity : Parities, marked : SUBSET Nat,
            canAdvance : BOOLEAN, advanced : Nat, cluster : Seq(Range2)]

\* The ranges are of packets in memory.
InMemory(mem, cluster) ==
  /\ cluster \in Seq(Range2)
  /\ \A r \in 1 .. Len(cluster) : \A at \in cluster[r][1] .. cluster[r][2] - 1 :
       at \in DOMAIN mem /\ mem[at].n \in Int

InRanges(cluster, at) ==
  \E r \in 1 .. Len(cluster) : at \in cluster[r][1] .. cluster[r][2] - 1

\* The positions of one range.
OfRange(cluster, r) ==
  [i \in 1 .. cluster[r][2] - cluster[r][1] |->
     [range |-> r, at |-> cluster[r][1] + i - 1]]

(* The positions of one range are as many as its packets.                  *)
LEMMA OfRangeType ==
  ASSUME NEW cluster \in Seq(Range2), NEW r \in 1 .. Len(cluster)
  PROVE  /\ cluster[r][1] \in Nat /\ cluster[r][2] \in Nat
         /\ OfRange(cluster, r) \in Seq(Position)
         /\ Len(OfRange(cluster, r)) =
              IF cluster[r][1] < cluster[r][2] THEN cluster[r][2] - cluster[r][1] ELSE 0
<1>1. cluster[r][1] \in Nat /\ cluster[r][2] \in Nat
  BY DEF Range2
<1>. DEFINE a == cluster[r][1]
            b == cluster[r][2]
<1>. HIDE DEF a, b
<1>2. a \in Nat /\ b \in Nat
  BY <1>1 DEF a, b
<1>. DEFINE s == [i \in 1 .. b - a |-> [range |-> r, at |-> a + i - 1]]
<1>3. \A i \in 1 .. b - a : [range |-> r, at |-> a + i - 1] \in Position
  BY <1>2 DEF Position
<1>4. s \in [1 .. b - a -> Position]
  BY <1>3
<1>5. s \in Seq(Position) /\ Len(s) = IF a < b THEN b - a ELSE 0
  <2>1. CASE a < b
    <3>1. b - a \in Nat
      BY <1>2, <2>1
    <3>. HIDE DEF s
    <3>2. s \in Seq(Position) /\ Len(s) = b - a
      BY <1>4, <3>1, FunctionIsSeq
    <3>. QED BY <2>1, <3>2
  <2>2. CASE ~(a < b)
    <3>1. 1 .. b - a = 1 .. 0
      BY <1>2, <2>2
    <3>. HIDE DEF s
    <3>2. s \in [1 .. 0 -> Position] /\ 0 \in Nat
      BY <1>4, <3>1
    <3>3. s \in Seq(Position) /\ Len(s) = 0
      BY <3>2, FunctionIsSeq
    <3>. QED BY <2>2, <3>3
  <2>. QED BY <2>1, <2>2
<1>. QED BY <1>1, <1>5 DEF OfRange, a, b

(* The positions are those of the packets in the ranges, the first packet  *)
(* of the first range is the first of them.                                *)
LEMMA PositionsType ==
  ASSUME NEW cluster \in Seq(Range2)
  PROVE  /\ Positions(cluster) \in Seq(Position)
         /\ \A k \in 1 .. Len(Positions(cluster)) :
              LET pos == Positions(cluster)[k]
              IN  /\ pos.range \in 1 .. Len(cluster)
                  /\ pos.at \in cluster[pos.range][1] .. cluster[pos.range][2] - 1
         /\ cluster # <<>> /\ cluster[1][1] < cluster[1][2] =>
              /\ Len(Positions(cluster)) > 0
              /\ Positions(cluster)[1].at = cluster[1][1]
<1>. DEFINE L == Len(cluster)
            seqs == [r \in 1 .. L |-> OfRange(cluster, r)]
<1>1. L \in Nat /\ DOMAIN cluster = 1 .. L
  OBVIOUS
<1>2. Positions(cluster) = FlattenSeq(seqs)
  BY <1>1, Zenon DEF Positions, OfRange
<1>3. CASE L = 0
  <2>1. seqs = <<>> /\ cluster = <<>>
    BY <1>3
  <2>2. Positions(cluster) = <<>>
    BY <1>2, <2>1 DEF FlattenSeq
  <2>3. <<>> \in Seq(Position) /\ Len(<<>>) = 0
    OBVIOUS
  <2>4. ~(\E k : k \in 1 .. Len(Positions(cluster)))
    BY <2>2, <2>3
  <2>. HIDE DEF seqs
  <2>. QED BY <2>1, <2>2, <2>3, <2>4, Zenon
<1>4. CASE L # 0
  <2>1. seqs \in Seq(Seq(Position)) /\ Len(seqs) = L
    BY <1>1, OfRangeType
  <2>. HIDE DEF seqs, L
  <2>2. PICK off \in [0 .. L -> Nat] :
          /\ off[0] = 0 /\ off[L] = Len(FlattenSeq(seqs))
          /\ \A r \in 1 .. L :
               /\ off[r] = off[r - 1] + Len(seqs[r])
               /\ off[r] <= Len(FlattenSeq(seqs))
               /\ \A i \in 1 .. Len(seqs[r]) :
                    FlattenSeq(seqs)[off[r - 1] + i] = seqs[r][i]
          /\ \A k \in 1 .. Len(FlattenSeq(seqs)) :
               \E r \in 1 .. L : k - off[r - 1] \in 1 .. Len(seqs[r])
    BY <1>4, <2>1, FlattenSegments, Zenon
  <2>3. FlattenSeq(seqs) \in Seq(Position)
    BY <1>4, <2>1, FlattenSegments, Zenon
  <2>4. ASSUME NEW k \in 1 .. Len(Positions(cluster))
        PROVE  LET pos == Positions(cluster)[k]
               IN  /\ pos.range \in 1 .. Len(cluster)
                   /\ pos.at \in cluster[pos.range][1] .. cluster[pos.range][2] - 1
    <3>1. PICK r \in 1 .. L : k - off[r - 1] \in 1 .. Len(seqs[r])
      BY <1>2, <2>2
    <3>2. off[r - 1] \in Nat
      BY <1>1
    <3>. DEFINE i == k - off[r - 1]
    <3>3. off[r - 1] + i = k
      BY <2>3, <3>1, <3>2, <1>2
    <3>. HIDE DEF i
    <3>4. Positions(cluster)[k] = seqs[r][i]
      BY <1>2, <2>2, <3>1, <3>3 DEF i
    <3>5. /\ cluster[r][1] \in Nat /\ cluster[r][2] \in Nat
          /\ Len(seqs[r]) =
               IF cluster[r][1] < cluster[r][2] THEN cluster[r][2] - cluster[r][1] ELSE 0
      BY OfRangeType DEF seqs, L
    <3>6. i \in 1 .. cluster[r][2] - cluster[r][1]
      BY <3>1, <3>5 DEF i
    <3>7. Positions(cluster)[k] = [range |-> r, at |-> cluster[r][1] + i - 1]
      BY <3>4, <3>6 DEF seqs, OfRange
    <3>. QED BY <3>5, <3>6, <3>7 DEF L
  <2>5. ASSUME cluster # <<>>, cluster[1][1] < cluster[1][2]
        PROVE  /\ Len(Positions(cluster)) > 0
               /\ Positions(cluster)[1].at = cluster[1][1]
    <3>1. 1 \in 1 .. L
      BY <1>1, <1>4
    <3>2. /\ cluster[1][1] \in Nat /\ cluster[1][2] \in Nat
          /\ Len(seqs[1]) = cluster[1][2] - cluster[1][1]
      BY <2>5, <3>1, OfRangeType DEF seqs, L
    <3>3. Len(seqs[1]) \in Nat \ {0} /\ 1 \in 1 .. Len(seqs[1])
      BY <2>5, <3>2
    <3>4. off[1 - 1] = 0 /\ off[1] = off[1 - 1] + Len(seqs[1])
      BY <2>2, <3>1
    <3>5. Positions(cluster)[1] = seqs[1][1]
      <4>1. FlattenSeq(seqs)[off[1 - 1] + 1] = seqs[1][1]
        BY <2>2, <3>1, <3>3
      <4>. QED BY <1>2, <3>4, <4>1
    <3>6. off[1] <= Len(Positions(cluster))
      BY <1>2, <2>2, <3>1
    <3>7. Len(Positions(cluster)) \in Nat
      BY <1>2, <2>3
    <3>8. Len(Positions(cluster)) > 0
      BY <3>3, <3>4, <3>6, <3>7
    <3>9. seqs[1][1] = [range |-> 1, at |-> cluster[1][1] + 1 - 1]
      BY <2>5, <3>1, <3>2 DEF seqs, OfRange
    <3>. QED BY <3>2, <3>5, <3>8, <3>9
  <2>. QED BY <1>2, <2>3, <2>4, <2>5
<1>. QED BY <1>3, <1>4

(* Every position is of a packet in memory, and in a range.                *)
LEMMA PositionsInMemory ==
  ASSUME NEW mem, NEW cluster, InMemory(mem, cluster)
  PROVE  \A k \in 1 .. Len(Positions(cluster)) :
           /\ Positions(cluster)[k] \in Position
           /\ mem[Positions(cluster)[k].at].n \in Int
           /\ InRanges(cluster, Positions(cluster)[k].at)
<1>1. cluster \in Seq(Range2)
  BY DEF InMemory
<1>. SUFFICES ASSUME NEW k \in 1 .. Len(Positions(cluster))
              PROVE  LET pos == Positions(cluster)[k]
                     IN  pos \in Position /\ mem[pos.at].n \in Int /\ InRanges(cluster, pos.at)
  OBVIOUS
<1>. DEFINE pos == Positions(cluster)[k]
<1>2. pos \in Position
  BY <1>1, PositionsType
<1>3. /\ pos.range \in 1 .. Len(cluster)
      /\ pos.at \in cluster[pos.range][1] .. cluster[pos.range][2] - 1
  BY <1>1, PositionsType
<1>. HIDE DEF pos
<1>4. mem[pos.at].n \in Int /\ InRanges(cluster, pos.at)
  BY <1>3 DEF InMemory, InRanges
<1>. QED BY <1>2, <1>4 DEF pos

(* The scan is the recursion that goes through the positions.              *)
LEMMA ExamineType ==
  ASSUME NEW mem, NEW scan \in Scanned, NEW pos \in Position,
         mem[pos.at].n \in Int
  PROVE  Examine(mem, scan, pos) \in Scanned
<1>. DEFINE packet == mem[pos.at]
            joins == Joins(scan, packet)
            advance == Advances(scan, packet)
            group == IF joins /\ packet.n > 0 THEN Append(scan.group, pos.at) ELSE scan.group
            parity == IF joins THEN packet.sc ELSE scan.parity
            marked == IF joins THEN scan.marked \cup {pos.at} ELSE scan.marked
            advanced == IF advance THEN scan.advanced + 1 ELSE scan.advanced
            cl == IF advance THEN [scan.cluster EXCEPT ![pos.range][1] = @ + 1]
                             ELSE scan.cluster
<1>0. /\ scan.group \in Seq(Nat) /\ scan.parity \in Parities /\ scan.marked \in SUBSET Nat
      /\ scan.canAdvance \in BOOLEAN /\ scan.advanced \in Nat
      /\ scan.cluster \in Seq(Range2) /\ pos.at \in Nat /\ pos.range \in Nat
  BY DEF Scanned, Position
<1>1. group \in Seq(Nat) /\ marked \in SUBSET Nat /\ advanced \in Nat
  BY <1>0
<1>2. parity \in Parities
  BY <1>0 DEF Joins
<1>3. advance \in BOOLEAN
  BY <1>0 DEF Advances
<1>4. cl \in Seq(Range2)
  <2>. DEFINE s == scan.cluster
  <2>1. [s EXCEPT ![pos.range][1] = @ + 1] \in Seq(Range2)
    <3>1. s \in Seq(Range2) /\ DOMAIN s = 1 .. Len(s)
      BY <1>0
    <3>. HIDE DEF s
    <3>2. CASE pos.range \in DOMAIN s
      <4>1. s[pos.range] \in Range2
        BY <3>1, <3>2
      <4>2. [s[pos.range] EXCEPT ![1] = @ + 1] \in Range2
        BY <4>1 DEF Range2
      <4>3. [s EXCEPT ![pos.range] = [s[pos.range] EXCEPT ![1] = @ + 1]] \in Seq(Range2)
        BY <3>1, <3>2, <4>2
      <4>. QED BY <4>3
    <3>3. CASE pos.range \notin DOMAIN s
      <4>1. [s EXCEPT ![pos.range][1] = @ + 1] = s
        BY <3>1, <3>3
      <4>. QED BY <3>1, <4>1
    <3>. QED BY <3>2, <3>3
  <2>. QED BY <1>0, <2>1
<1>. HIDE DEF joins, advance, group, parity, marked, advanced, cl
<1>5. [group |-> group, parity |-> parity, marked |-> marked, canAdvance |-> advance,
       advanced |-> advanced, cluster |-> cl] \in Scanned
  BY <1>1, <1>2, <1>3, <1>4 DEF Scanned
<1>. QED BY <1>5 DEF Examine, joins, advance, group, parity, marked, advanced, cl

\* The scan before the first packet.
Unscanned(cluster) ==
  [group |-> <<>>, parity |-> "even", marked |-> {},
   canAdvance |-> TRUE, advanced |-> 0, cluster |-> cluster]

IsScan(mem, cluster, scan) ==
  /\ scan \in [0 .. Len(Positions(cluster)) -> Scanned]
  /\ scan[0] = Unscanned(cluster)
  /\ \A k \in 1 .. Len(Positions(cluster)) :
       scan[k] = Examine(mem, scan[k - 1], Positions(cluster)[k])
  /\ Scan(mem, cluster) = scan[Len(Positions(cluster))]

(* Scan is what the recursive function in it gives for the last position;  *)
(* its values are one Examine apart.                                       *)
LEMMA ScanSteps ==
  ASSUME NEW mem, NEW cluster, InMemory(mem, cluster)
  PROVE  \E scan : IsScan(mem, cluster, scan)
<1>. DEFINE pos == Positions(cluster)
            L == Len(pos)
            base == Unscanned(cluster)
            IsIt(f) == f = [k \in 0 .. L |->
                              IF k = 0 THEN base ELSE Examine(mem, f[k - 1], pos[k])]
            step == [x \in Nat \X Scanned |->
                       IF x[1] + 1 \in 1 .. L THEN Examine(mem, x[2], pos[x[1] + 1])
                                              ELSE x[2]]
<1>1. cluster \in Seq(Range2)
  BY DEF InMemory
<1>2. pos \in Seq(Position) /\ L \in Nat
  BY <1>1, PositionsType
<1>3. \A k \in 1 .. L : pos[k] \in Position /\ mem[pos[k].at].n \in Int
  BY PositionsInMemory
<1>4. base \in Scanned
  BY <1>1 DEF Scanned, Unscanned, Parities
<1>5. Scan(mem, cluster) = (CHOOSE f : IsIt(f))[L]
  BY Zenon DEF Scan, Unscanned
<1>. HIDE DEF L, pos, base
<1>6. step \in Steps(Scanned)
  <2>. SUFFICES ASSUME NEW x \in Nat \X Scanned
                PROVE  (IF x[1] + 1 \in 1 .. L THEN Examine(mem, x[2], pos[x[1] + 1])
                                               ELSE x[2]) \in Scanned
    BY DEF Steps
  <2>. QED BY <1>3, ExamineType
<1>7. \A n \in Nat, s \in Scanned :
        n + 1 \in 1 .. L => step[<<n, s>>] = Examine(mem, s, pos[n + 1])
  OBVIOUS
<1>. HIDE DEF step
<1>8. PICK g \in [0 .. L -> Scanned] : IteratesUpTo(L, g, base, step)
  BY <1>2, <1>4, <1>6, RecursionUpTo
<1>9. g[0] = base
  BY <1>2, <1>8 DEF IteratesUpTo
<1>10. ASSUME NEW k \in 1 .. L PROVE g[k] = Examine(mem, g[k - 1], pos[k])
  <2>1. k \in 0 .. L /\ k # 0 /\ k - 1 \in 0 .. L /\ (k - 1) + 1 = k /\ k - 1 \in Nat
    BY <1>2
  <2>2. g[k] = step[<<k - 1, g[k - 1]>>]
    BY <1>8, <2>1 DEF IteratesUpTo
  <2>. QED BY <1>7, <2>1, <2>2
<1>11. IsIt(g)
  <2>1. \A k \in 0 .. L : k = 0 \/ k \in 1 .. L
    BY <1>2
  <2>2. \A k \in 0 .. L :
          g[k] = IF k = 0 THEN base ELSE Examine(mem, g[k - 1], pos[k])
    BY <1>9, <1>10, <2>1
  <2>. QED BY <2>2
<1>. DEFINE scan == CHOOSE f : IsIt(f)
<1>12. IsIt(scan)
  <2>. HIDE DEF IsIt
  <2>. QED BY <1>11
<1>13. scan = g
  <2>. HIDE DEF scan
  <2>. DEFINE T == {n \in Nat : n <= L => scan[n] = g[n]}
  <2>1. 0 \in T
    BY <1>2, <1>9, <1>12
  <2>2. ASSUME NEW n \in Nat, n \in T PROVE n + 1 \in T
    <3>. SUFFICES ASSUME n + 1 <= L PROVE scan[n + 1] = g[n + 1]
      OBVIOUS
    <3>1. /\ n + 1 \in 0 .. L /\ n + 1 # 0 /\ (n + 1) - 1 = n /\ n <= L
          /\ n + 1 \in 1 .. L
      BY <1>2
    <3>2. scan[n + 1] = Examine(mem, scan[(n + 1) - 1], pos[n + 1])
      BY <1>12, <3>1
    <3>3. g[n + 1] = Examine(mem, g[(n + 1) - 1], pos[n + 1])
      BY <1>10, <3>1
    <3>4. scan[n] = g[n]
      BY <2>2, <3>1
    <3>. QED BY <3>1, <3>2, <3>3, <3>4
  <2>3. Nat \subseteq T
    <3>. HIDE DEF T
    <3>. QED BY <2>1, <2>2, Induction
  <2>4. \A n \in 0 .. L : scan[n] = g[n]
    BY <1>2, <2>3
  <2>5. scan = [n \in 0 .. L |-> scan[n]] /\ g = [n \in 0 .. L |-> g[n]]
    BY <1>12
  <2>. HIDE DEF T
  <2>. QED BY <2>4, <2>5
<1>14. Scan(mem, cluster) = g[L]
  BY <1>5, <1>13 DEF scan
<1>. QED BY <1>9, <1>10, <1>14 DEF IsScan, L, pos, base

(***************************************************************************)
(* What the scan takes: packets of the ranges with a parity; those of them *)
(* with a whole block are the group, and are all of one parity, although   *)
(* mini packets of the other one may have been taken before the first.     *)
(***************************************************************************)
Grouped(scan) == {scan.group[i] : i \in 1 .. Len(scan.group)}
TakenOK(mem, cluster, scan) ==
  /\ \A at \in scan.marked : InRanges(cluster, at) /\ mem[at].sc \in Parities
  /\ Grouped(scan) = {at \in scan.marked : mem[at].n > 0}
  /\ \A at \in Grouped(scan) : mem[at].sc = scan.parity

(* The members of a group that one packet joins.                           *)
LEMMA GroupedAppend ==
  \A s \in Seq(Nat), at \in Nat :
    {Append(s, at)[i] : i \in 1 .. Len(Append(s, at))} = {s[i] : i \in 1 .. Len(s)} \cup {at}
<1>. SUFFICES ASSUME NEW s \in Seq(Nat), NEW at \in Nat
              PROVE  {Append(s, at)[i] : i \in 1 .. Len(Append(s, at))}
                       = {s[i] : i \in 1 .. Len(s)} \cup {at}
  OBVIOUS
<1>. DEFINE t == Append(s, at)
<1>1. /\ Len(s) \in Nat /\ Len(t) = Len(s) + 1 /\ t[Len(s) + 1] = at
      /\ \A i \in 1 .. Len(s) : t[i] = s[i]
  OBVIOUS
<1>. HIDE DEF t
<1>2. \A i \in 1 .. Len(t) : i = Len(s) + 1 \/ i \in 1 .. Len(s)
  BY <1>1
<1>3. Len(s) + 1 \in 1 .. Len(t) /\ \A i \in 1 .. Len(s) : i \in 1 .. Len(t)
  BY <1>1
<1>4. ASSUME NEW i \in 1 .. Len(t) PROVE t[i] \in {s[j] : j \in 1 .. Len(s)} \cup {at}
  BY <1>1, <1>2
<1>5. ASSUME NEW x \in {s[j] : j \in 1 .. Len(s)} \cup {at}
      PROVE  x \in {t[i] : i \in 1 .. Len(t)}
  BY <1>1, <1>3
<1>6. {t[i] : i \in 1 .. Len(t)} = {s[j] : j \in 1 .. Len(s)} \cup {at}
  BY <1>4, <1>5
<1>. QED BY <1>6 DEF t

(* One packet of the scan: what is taken stays as it has to be.            *)
LEMMA ExamineTakes ==
  ASSUME NEW mem, NEW cluster, NEW scan \in Scanned, NEW pos \in Position,
         InRanges(cluster, pos.at), mem[pos.at].n \in Int,
         TakenOK(mem, cluster, scan)
  PROVE  TakenOK(mem, cluster, Examine(mem, scan, pos))
<1>. DEFINE packet == mem[pos.at]
            s == Examine(mem, scan, pos)
<1>1. /\ scan.group \in Seq(Nat) /\ scan.marked \in SUBSET Nat /\ pos.at \in Nat
      /\ s \in Scanned
  BY ExamineType DEF Scanned, Position
<1>2. CASE Len(scan.group) = Parallelism
  BY <1>2 DEF Examine
<1>3. CASE Len(scan.group) # Parallelism /\ ~Joins(scan, packet)
  <2>1. s.group = scan.group /\ s.marked = scan.marked /\ s.parity = scan.parity
    BY <1>3 DEF Examine
  <2>. HIDE DEF s
  <2>2. TakenOK(mem, cluster, s)
    BY <2>1 DEF TakenOK, Grouped
  <2>. QED BY <2>2 DEF s
<1>4. CASE Len(scan.group) # Parallelism /\ Joins(scan, packet)
  <2>1. /\ s.group = IF packet.n > 0 THEN Append(scan.group, pos.at) ELSE scan.group
        /\ s.marked = scan.marked \cup {pos.at} /\ s.parity = packet.sc
    BY <1>4 DEF Examine
  <2>. HIDE DEF s
  <2>2. packet.sc \in Parities /\ (scan.group = <<>> \/ packet.sc = scan.parity)
    BY <1>4 DEF Joins
  <2>3. Grouped(s) = IF packet.n > 0 THEN Grouped(scan) \cup {pos.at} ELSE Grouped(scan)
    <3>. DEFINE old == scan.group
                longer == Append(old, pos.at)
    <3>1. {longer[i] : i \in 1 .. Len(longer)} = {old[i] : i \in 1 .. Len(old)} \cup {pos.at}
      BY <1>1, GroupedAppend
    <3>. HIDE DEF longer
    <3>2. ASSUME packet.n > 0 PROVE Grouped(s) = Grouped(scan) \cup {pos.at}
      <4>1. s.group = longer
        BY <2>1, <3>2 DEF longer
      <4>. QED BY <3>1, <4>1 DEF Grouped
    <3>3. ASSUME ~(packet.n > 0) PROVE Grouped(s) = Grouped(scan)
      <4>1. s.group = old
        BY <2>1, <3>3
      <4>. QED BY <4>1 DEF Grouped
    <3>. QED BY <3>2, <3>3
  <2>4. scan.group = <<>> => Grouped(scan) = {}
    BY DEF Grouped
  <2>5. \A at \in Grouped(scan) : mem[at].sc = packet.sc
    BY <2>2, <2>4 DEF TakenOK
  <2>6. Grouped(s) = {at \in s.marked : mem[at].n > 0}
    BY <2>1, <2>3 DEF TakenOK
  <2>7. \A at \in Grouped(s) : mem[at].sc = s.parity
    BY <2>1, <2>3, <2>5
  <2>8. \A at \in s.marked : InRanges(cluster, at) /\ mem[at].sc \in Parities
    BY <2>1, <2>2 DEF TakenOK
  <2>9. TakenOK(mem, cluster, s)
    BY <2>6, <2>7, <2>8 DEF TakenOK
  <2>. QED BY <2>9 DEF s
<1>. QED BY <1>2, <1>3, <1>4

(* The packet at the very start is taken whatever its parity is.           *)
LEMMA ScanTakes ==
  ASSUME NEW mem, NEW cluster, InMemory(mem, cluster)
  PROVE  /\ Scan(mem, cluster) \in Scanned
         /\ TakenOK(mem, cluster, Scan(mem, cluster))
         /\ /\ cluster # <<>> /\ cluster[1][1] < cluster[1][2]
            /\ mem[cluster[1][1]].sc \in Parities
            => cluster[1][1] \in Scan(mem, cluster).marked
<1>. DEFINE pos == Positions(cluster)
            L == Len(pos)
<1>1. PICK scan : IsScan(mem, cluster, scan)
  BY ScanSteps
<1>2. cluster \in Seq(Range2) /\ pos \in Seq(Position) /\ L \in Nat
  BY PositionsType DEF InMemory
<1>3. ASSUME NEW k \in 1 .. L
      PROVE  pos[k] \in Position /\ mem[pos[k].at].n \in Int /\ InRanges(cluster, pos[k].at)
  BY PositionsInMemory
<1>. HIDE DEF pos, L
<1>4. /\ scan \in [0 .. L -> Scanned] /\ scan[0] = Unscanned(cluster)
      /\ \A k \in 1 .. L : scan[k] = Examine(mem, scan[k - 1], pos[k])
      /\ Scan(mem, cluster) = scan[L]
  BY <1>1 DEF IsScan, L, pos
<1>5. \A k \in 0 .. L - 1 :
        /\ k + 1 \in 1 .. L /\ k \in 0 .. L /\ (k + 1) - 1 = k
        /\ scan[k] \in Scanned /\ scan[k + 1] = Examine(mem, scan[k], pos[k + 1])
  <2>1. ASSUME NEW k \in 0 .. L - 1
        PROVE  k + 1 \in 1 .. L /\ k \in 0 .. L /\ (k + 1) - 1 = k
    BY <1>2
  <2>. QED BY <1>4, <2>1
<1>6. L \in 0 .. L
  BY <1>2
<1>7. TakenOK(mem, cluster, scan[L])
  <2>. DEFINE T == {k \in 0 .. L : TakenOK(mem, cluster, scan[k])}
  <2>1. 0 \in T
    <3>1. Grouped(Unscanned(cluster)) = {}
      BY DEF Grouped, Unscanned
    <3>2. Unscanned(cluster).marked = {}
      BY DEF Unscanned
    <3>3. TakenOK(mem, cluster, Unscanned(cluster))
      BY <3>1, <3>2 DEF TakenOK
    <3>4. 0 \in 0 .. L
      BY <1>2
    <3>. QED BY <1>4, <3>3, <3>4
  <2>2. \A k \in 0 .. L - 1 : k \in T => k + 1 \in T
    <3>. SUFFICES ASSUME NEW k \in 0 .. L - 1, k \in T PROVE k + 1 \in T
      OBVIOUS
    <3>1. TakenOK(mem, cluster, scan[k + 1])
      BY <1>3, <1>5, ExamineTakes
    <3>2. k + 1 \in 0 .. L
      BY <1>2
    <3>. QED BY <3>1, <3>2
  <2>3. 0 .. L \subseteq T
    <3>. HIDE DEF T
    <3>. QED BY <1>2, <2>1, <2>2, InductionUpTo
  <2>. QED BY <1>6, <2>3
<1>8. ASSUME cluster # <<>>, cluster[1][1] < cluster[1][2],
             mem[cluster[1][1]].sc \in Parities
      PROVE  cluster[1][1] \in scan[L].marked
  <2>. DEFINE first == cluster[1][1]
              T == {k \in 0 .. L : k = 0 \/ first \in scan[k].marked}
  <2>1. L > 0 /\ pos[1].at = first
    BY <1>2, <1>8, PositionsType DEF L, pos
  <2>. HIDE DEF first
  <2>2. first \in scan[1].marked
    <3>1. 0 \in 0 .. L - 1 /\ 0 + 1 = 1
      BY <1>2, <2>1
    <3>2. scan[1] = Examine(mem, Unscanned(cluster), pos[1])
      BY <1>4, <1>5, <3>1
    <3>3. Len(Unscanned(cluster).group) # Parallelism
      BY FFdecsaAssumption DEF Unscanned
    <3>4. Joins(Unscanned(cluster), mem[pos[1].at])
      BY <1>8, <2>1 DEF Joins, Unscanned, first
    <3>. QED BY <2>1, <3>2, <3>3, <3>4 DEF Examine
  <2>3. \A k \in 0 .. L - 1 : k \in T => k + 1 \in T
    <3>. SUFFICES ASSUME NEW k \in 0 .. L - 1, k \in T PROVE first \in scan[k + 1].marked
      BY <1>2
    <3>1. CASE k = 0
      BY <2>2, <3>1
    <3>2. CASE k # 0
      <4>1. first \in scan[k].marked
        BY <3>2
      <4>2. scan[k].marked \subseteq scan[k + 1].marked
        <5>. DEFINE s == scan[k]
        <5>1. scan[k + 1] = Examine(mem, s, pos[k + 1])
          BY <1>5
        <5>. HIDE DEF s
        <5>2. s.marked \subseteq Examine(mem, s, pos[k + 1]).marked
          BY DEF Examine
        <5>. QED BY <5>1, <5>2 DEF s
      <4>. QED BY <4>1, <4>2
    <3>. QED BY <3>1, <3>2
  <2>4. 0 .. L \subseteq T
    <3>1. 0 \in T
      BY <1>2
    <3>. HIDE DEF T
    <3>. QED BY <1>2, <2>3, <3>1, InductionUpTo
  <2>5. L # 0
    BY <1>2, <2>1
  <2>. QED BY <1>6, <2>4, <2>5 DEF first
<1>. QED BY <1>4, <1>6, <1>7, <1>8

(* How much is added to the counts of a packet.                            *)
LEMMA CountsType ==
  \A alive, g : BlocksWritten(alive, g) \in Nat /\ ResidueAt(alive, g) \in Nat
<1>. SUFFICES ASSUME NEW alive, NEW g
              PROVE  BlocksWritten(alive, g) \in Nat /\ ResidueAt(alive, g) \in Nat
  OBVIOUS
<1>1. 1 \in Int /\ Blocks \in Int
  BY FFdecsaAssumption
<1>2. IsFiniteSet(1 .. Blocks)
  BY <1>1, FS_Interval
<1>3. IsFiniteSet({i \in 1 .. Blocks : g \in Blocked(alive, i)})
  BY <1>2, FS_Subset
<1>4. BlocksWritten(alive, g) \in Nat
  BY <1>3, FS_CardinalityType DEF BlocksWritten
<1>5. ResidueAt(alive, g) \in Nat
  BY FFdecsaAssumption DEF ResidueAt
<1>. QED BY <1>4, <1>5

\* What decrypt_packets does to one packet.
Marked(p) == [p EXCEPT !.sc = "clear"]
Written(p, b, r, w) ==
  [Marked(p) EXCEPT !.blocks = @ + b, !.residueAt = @ + r, !.with = w]
DecryptedFrom(mem, scan, result) ==
  /\ result.group = Grouped(scan)
  /\ DOMAIN result.mem = DOMAIN mem
  /\ \A at \in DOMAIN mem :
       /\ at \notin scan.marked => result.mem[at] = mem[at]
       /\ at \in scan.marked \ Grouped(scan) => result.mem[at] = Marked(mem[at])
       /\ at \in Grouped(scan) =>
            \E b, r \in Nat : result.mem[at] = Written(mem[at], b, r, scan.parity)

(* The packets that were taken are marked, those of the group decrypted.   *)
THEOREM Decrypted ==
  ASSUME NEW mem, NEW cluster, InMemory(mem, cluster)
  PROVE  DecryptedFrom(mem, Scan(mem, cluster), DecryptPackets(mem, cluster))
<1>. DEFINE scan   == Scan(mem, cluster)
            result == DecryptPackets(mem, cluster)
            n      == [at \in DOMAIN mem |-> mem[at].n]
            order  == Ordered(n, scan.group)
            alive  == Alive(n, order)
            place(at) == CHOOSE g \in DOMAIN order : order[g] = at
            marked(at) == IF at \in scan.marked THEN Marked(mem[at]) ELSE mem[at]
            new(at) == IF Contains(scan.group, at)
                         THEN [marked(at) EXCEPT
                                 !.blocks = @ + BlocksWritten(alive, place(at)),
                                 !.residueAt = @ + ResidueAt(alive, place(at)),
                                 !.with = scan.parity]
                         ELSE marked(at)
<1>1. result = [mem |-> [at \in DOMAIN mem |-> new(at)],
                cluster |-> Compacted(scan.cluster),
                group |-> ToSet(scan.group), advanced |-> scan.advanced]
  BY Zenon DEF DecryptPackets, Marked
<1>2. scan \in Scanned /\ TakenOK(mem, cluster, scan)
  BY ScanTakes
<1>. HIDE DEF scan, alive, place, marked, result
<1>3. scan.group \in Seq(Nat)
  BY <1>2 DEF Scanned
<1>4. DOMAIN scan.group = 1 .. Len(scan.group)
  BY <1>3
<1>5. \A at : Contains(scan.group, at) <=> at \in Grouped(scan)
  BY DEF Contains, Grouped
<1>6. result.group = Grouped(scan)
  <2>1. result.group = ToSet(scan.group)
    <3>. HIDE DEF new
    <3>. QED BY <1>1
  <2>. QED BY <1>4, <2>1 DEF ToSet, Grouped
<1>7. DOMAIN result.mem = DOMAIN mem /\ \A at \in DOMAIN mem : result.mem[at] = new(at)
  <2>. HIDE DEF new
  <2>. QED BY <1>1
<1>8. Grouped(scan) \subseteq scan.marked
  BY <1>2 DEF TakenOK
<1>9. ASSUME NEW at \in DOMAIN mem, at \notin scan.marked
      PROVE  result.mem[at] = mem[at]
  <2>1. marked(at) = mem[at]
    BY <1>9 DEF marked
  <2>2. new(at) = marked(at)
    BY <1>5, <1>8, <1>9, Zenon
  <2>. HIDE DEF new
  <2>. QED BY <1>7, <2>1, <2>2
<1>10. ASSUME NEW at \in DOMAIN mem, at \in scan.marked \ Grouped(scan)
       PROVE  result.mem[at] = Marked(mem[at])
  <2>1. marked(at) = Marked(mem[at])
    BY <1>10 DEF marked
  <2>2. new(at) = marked(at)
    BY <1>5, <1>10, Zenon
  <2>. HIDE DEF new
  <2>. QED BY <1>7, <2>1, <2>2
<1>11. ASSUME NEW at \in DOMAIN mem, at \in Grouped(scan)
       PROVE  \E b, r \in Nat : result.mem[at] = Written(mem[at], b, r, scan.parity)
  <2>1. marked(at) = Marked(mem[at])
    BY <1>8, <1>11 DEF marked
  <2>2. Contains(scan.group, at)
    BY <1>5, <1>11
  <2>. DEFINE b == BlocksWritten(alive, place(at))
              r == ResidueAt(alive, place(at))
              m == marked(at)
  <2>3. new(at) = [m EXCEPT !.blocks = @ + b, !.residueAt = @ + r, !.with = scan.parity]
    BY <2>2, Zenon
  <2>4. b \in Nat /\ r \in Nat
    BY CountsType
  <2>5. result.mem[at] = new(at)
    <3>. HIDE DEF new
    <3>. QED BY <1>7
  <2>6. m = Marked(mem[at])
    BY <2>1
  <2>. HIDE DEF b, r, m, new
  <2>7. result.mem[at] = [m EXCEPT !.blocks = @ + b, !.residueAt = @ + r,
                                   !.with = scan.parity]
    BY <2>3, <2>5
  <2>8. result.mem[at] = Written(mem[at], b, r, scan.parity)
    BY <2>6, <2>7, Zenon DEF Written
  <2>. QED BY <2>4, <2>8, Zenon
<1>12. DecryptedFrom(mem, scan, result)
  BY <1>6, <1>7, <1>9, <1>10, <1>11, Zenon DEF DecryptedFrom
<1>. QED BY <1>12 DEF scan, result
-----------------------------------------------------------------------------
(* The order of the group: the two sorts only exchange packets, and after  *)
(* them no packet is longer than one before it.                            *)

\* Sequences with the same elements, each once.
Rearranged(s) ==
  {t \in [1 .. Len(s) -> Nat] :
     /\ \A i, j \in 1 .. Len(s) : t[i] = t[j] => i = j
     /\ \A i \in 1 .. Len(s) : \E j \in 1 .. Len(s) : t[i] = s[j]
     /\ \A i \in 1 .. Len(s) : \E j \in 1 .. Len(s) : t[j] = s[i]}

Distinct(s) == \A i, j \in 1 .. Len(s) : s[i] = s[j] => i = j

LEMMA RearrangedSelf ==
  ASSUME NEW s \in Seq(Nat), Distinct(s)
  PROVE  s \in Rearranged(s)
BY DEF Rearranged, Distinct

LEMMA RearrangedType ==
  ASSUME NEW s \in Seq(Nat), NEW t \in Rearranged(s)
  PROVE  /\ t \in Seq(Nat) /\ Len(t) = Len(s) /\ DOMAIN t = 1 .. Len(s)
         /\ t \in [1 .. Len(s) -> Nat]
<1>1. t \in [1 .. Len(s) -> Nat] /\ Len(s) \in Nat
  BY DEF Rearranged
<1>. QED BY <1>1, FunctionIsSeq

LEMMA Swapped ==
  ASSUME NEW s \in Seq(Nat), NEW t \in Rearranged(s),
         NEW i \in 1 .. Len(s), NEW j \in 1 .. Len(s)
  PROVE  /\ Swap(t, i, j) \in Rearranged(s)
         /\ \A k \in 1 .. Len(s) :
              Swap(t, i, j)[k] = IF k = j THEN t[i] ELSE IF k = i THEN t[j] ELSE t[k]
<1>. DEFINE L == Len(s)
            u == Swap(t, i, j)
<1>1. t \in [1 .. L -> Nat]
  BY DEF Rearranged
<1>2. /\ u \in [1 .. L -> Nat]
      /\ \A k \in 1 .. L : u[k] = IF k = j THEN t[i] ELSE IF k = i THEN t[j] ELSE t[k]
  <2>1. u = [t EXCEPT ![i] = t[j], ![j] = t[i]]
    BY DEF Swap
  <2>2. t[i] \in Nat /\ t[j] \in Nat
    BY <1>1
  <2>. HIDE DEF u
  <2>. QED BY <1>1, <2>1, <2>2
<1>. HIDE DEF u
<1>3. ASSUME NEW k \in 1 .. L, NEW m \in 1 .. L, u[k] = u[m] PROVE k = m
  <2>1. \A a, b \in 1 .. L : t[a] = t[b] => a = b
    BY DEF Rearranged
  <2>. DEFINE p(a) == IF a = j THEN i ELSE IF a = i THEN j ELSE a
  <2>2. \A a \in 1 .. L : u[a] = t[p(a)] /\ p(a) \in 1 .. L
    BY <1>2
  <2>3. t[p(k)] = t[p(m)] /\ p(k) \in 1 .. L /\ p(m) \in 1 .. L
    BY <1>3, <2>2
  <2>4. p(k) = p(m)
    <3>. HIDE DEF p
    <3>. QED BY <2>1, <2>3
  <2>. QED BY <2>4
<1>4. ASSUME NEW k \in 1 .. L PROVE \E m \in 1 .. L : u[k] = s[m]
  <2>1. \E m \in 1 .. L : u[k] = t[m]
    BY <1>2
  <2>. QED BY <2>1 DEF Rearranged
<1>5. ASSUME NEW k \in 1 .. L PROVE \E m \in 1 .. L : u[m] = s[k]
  <2>1. PICK m \in 1 .. L : t[m] = s[k]
    BY DEF Rearranged
  <2>2. CASE m = i
    BY <1>2, <2>1, <2>2
  <2>3. CASE m = j
    BY <1>2, <2>1, <2>3
  <2>4. CASE m # i /\ m # j
    BY <1>2, <2>1, <2>4
  <2>. QED BY <2>2, <2>3, <2>4
<1>6. u \in Rearranged(s)
  BY <1>2, <1>3, <1>4, <1>5 DEF Rearranged
<1>. QED BY <1>2, <1>6 DEF u

LEMMA FirstSmallFound ==
  ASSUME NEW n, NEW order \in Seq(Nat), NEW from \in 1 .. Len(order) + 1
  PROVE  LET i == FirstSmall(n, order, from)
         IN  /\ i \in from .. Len(order) + 1
             /\ i = Len(order) + 1 \/ n[order[i]] # Blocks
             /\ \A j \in from .. i - 1 : n[order[j]] = Blocks
<1>. DEFINE L == Len(order)
            A == {i \in from .. L + 1 : i = L + 1 \/ n[order[i]] # Blocks}
<1>1. L \in Nat /\ A \in SUBSET Nat /\ L + 1 \in A
  OBVIOUS
<1>2. PICK m \in A : \A i \in A : m <= i
  <2>. HIDE DEF A
  <2>. QED BY <1>1, LeastNumber
<1>3. /\ m \in from .. L + 1 /\ (m = L + 1 \/ n[order[m]] # Blocks)
      /\ \A j \in from .. m - 1 : n[order[j]] = Blocks
  BY <1>1, <1>2
<1>. QED BY <1>3 DEF FirstSmall

LEMMA LastFullFound ==
  ASSUME NEW n, NEW order \in Seq(Nat), NEW from \in 0 .. Len(order)
  PROVE  LET i == LastFull(n, order, from)
         IN  /\ i \in 0 .. from
             /\ i = 0 \/ n[order[i]] = Blocks
             /\ \A j \in i + 1 .. from : n[order[j]] # Blocks
<1>. DEFINE A == {d \in 0 .. from : from - d = 0 \/ n[order[from - d]] = Blocks}
<1>1. A \in SUBSET Nat /\ from \in A
  OBVIOUS
<1>2. PICK d \in A : \A i \in A : d <= i
  <2>. HIDE DEF A
  <2>. QED BY <1>1, LeastNumber
<1>. DEFINE m == from - d
<1>3. m \in 0 .. from /\ (m = 0 \/ n[order[m]] = Blocks)
  BY <1>2
<1>4. ASSUME NEW j \in m + 1 .. from PROVE n[order[j]] # Blocks
  <2>1. /\ from - j \in 0 .. from /\ from - (from - j) = j /\ from - j < d
        /\ d \in Nat /\ from - j \in Nat
    BY <1>2
  <2>2. from - j \notin A
    <3>. HIDE DEF A
    <3>. QED BY <1>2, <2>1
  <2>. QED BY <2>1, <2>2
<1>. DEFINE P(i) == /\ i = 0 \/ n[order[i]] = Blocks
                    /\ \A j \in i + 1 .. from : n[order[j]] # Blocks
<1>5. P(m)
  BY <1>3, <1>4
<1>6. LastFull(n, order, from) = CHOOSE i \in 0 .. from : P(i)
  BY DEF LastFull
<1>. HIDE DEF P, m
<1>7. LastFull(n, order, from) \in 0 .. from /\ P(LastFull(n, order, from))
  BY <1>3, <1>5, <1>6
<1>. QED BY <1>7 DEF P

\* A state of the search for full packets.
Split(s) == [order : Rearranged(s), t23 : 1 .. Len(s) + 1, small : 0 .. Len(s)]
SplitOK(n, s, st) ==
  /\ \A i \in 1 .. st.t23 - 1 : n[st.order[i]] = Blocks
  /\ \A i \in st.small + 1 .. Len(s) : n[st.order[i]] # Blocks

(* One round brings the two ends together or leaves them where they met.   *)
LEMMA SearchRoundSplits ==
  ASSUME NEW n, NEW s \in Seq(Nat), NEW st \in Split(s), SplitOK(n, s, st)
  PROVE  LET next == SearchRound(n, st)
         IN  /\ next \in Split(s) /\ SplitOK(n, s, next)
             /\ next.small < next.t23 \/ next.small - next.t23 <= st.small - st.t23 - 2
             /\ st.small < st.t23 => next.small < next.t23
<1>. DEFINE L == Len(s)
            order == st.order
            t23 == FirstSmall(n, order, st.t23)
            small == LastFull(n, order, st.small)
<1>1. /\ order \in Rearranged(s) /\ st.t23 \in 1 .. L + 1 /\ st.small \in 0 .. L
      /\ order \in Seq(Nat) /\ Len(order) = L /\ L \in Nat
  BY RearrangedType DEF Split
<1>2. /\ t23 \in st.t23 .. L + 1
      /\ t23 = L + 1 \/ n[order[t23]] # Blocks
      /\ \A j \in st.t23 .. t23 - 1 : n[order[j]] = Blocks
  <2>1. /\ t23 \in st.t23 .. Len(order) + 1
        /\ t23 = Len(order) + 1 \/ n[order[t23]] # Blocks
        /\ \A j \in st.t23 .. t23 - 1 : n[order[j]] = Blocks
    <3>1. order \in Seq(Nat) /\ st.t23 \in 1 .. Len(order) + 1
      BY <1>1
    <3>. HIDE DEF order
    <3>. QED BY <3>1, FirstSmallFound
  <2>. HIDE DEF order, t23, L
  <2>. QED BY <1>1, <2>1
<1>3. /\ small \in 0 .. st.small
      /\ small = 0 \/ n[order[small]] = Blocks
      /\ \A j \in small + 1 .. st.small : n[order[j]] # Blocks
  <2>1. order \in Seq(Nat) /\ st.small \in 0 .. Len(order)
    BY <1>1
  <2>. HIDE DEF order
  <2>. QED BY <2>1, LastFullFound
<1>4. /\ \A i \in 1 .. st.t23 - 1 : n[order[i]] = Blocks
      /\ \A i \in st.small + 1 .. L : n[order[i]] # Blocks
  BY DEF SplitOK
<1>5. SearchRound(n, st) =
        IF small - t23 < 1
          THEN [order |-> order, t23 |-> t23, small |-> small]
          ELSE [order |-> Swap(order, t23, small), t23 |-> t23 + 1, small |-> small - 1]
  BY DEF SearchRound
<1>. DEFINE a == st.t23
            b == st.small
<1>. HIDE DEF order, t23, small, a, b, L
<1>6. /\ a \in 1 .. L + 1 /\ b \in 0 .. L /\ L \in Nat
      /\ t23 \in a .. L + 1 /\ small \in 0 .. b
      /\ \A i \in 1 .. t23 - 1 : n[order[i]] = Blocks
      /\ \A i \in small + 1 .. L : n[order[i]] # Blocks
  <2>1. /\ a \in 1 .. L + 1 /\ b \in 0 .. L /\ L \in Nat
        /\ t23 \in a .. L + 1 /\ small \in 0 .. b
    BY <1>1, <1>2, <1>3 DEF a, b
  <2>2. ASSUME NEW i \in 1 .. t23 - 1 PROVE n[order[i]] = Blocks
    <3>1. i \in 1 .. a - 1 \/ i \in a .. t23 - 1
      BY <2>1
    <3>. QED BY <3>1, <1>2, <1>4 DEF a
  <2>3. ASSUME NEW i \in small + 1 .. L PROVE n[order[i]] # Blocks
    <3>1. i \in small + 1 .. b \/ i \in b + 1 .. L
      BY <2>1
    <3>. QED BY <3>1, <1>3, <1>4 DEF b
  <2>. QED BY <2>1, <2>2, <2>3
<1>7. CASE small - t23 < 1
  <2>. DEFINE next == [order |-> order, t23 |-> t23, small |-> small]
  <2>1. SearchRound(n, st) = next
    BY <1>5, <1>7
  <2>2. small < t23
    <3>1. CASE small = t23
      <4>1. t23 # L + 1 /\ small # 0
        BY <1>6, <3>1
      <4>. QED BY <1>2, <1>3, <3>1, <4>1
    <3>. QED BY <1>6, <1>7, <3>1
  <2>3. next \in Split(s)
    BY <1>1, <1>6 DEF Split, L
  <2>4. SplitOK(n, s, next)
    BY <1>6 DEF SplitOK, L
  <2>5. next.small < next.t23
    BY <2>2
  <2>. HIDE DEF next
  <2>. QED BY <2>1, <2>3, <2>4, <2>5
<1>8. CASE ~(small - t23 < 1)
  <2>. DEFINE swapped == Swap(order, t23, small)
              next == [order |-> swapped, t23 |-> t23 + 1, small |-> small - 1]
  <2>1. SearchRound(n, st) = next
    BY <1>5, <1>8
  <2>2. /\ t23 \in 1 .. L /\ small \in 1 .. L /\ t23 < small
        /\ t23 + 1 \in 1 .. L + 1 /\ small - 1 \in 0 .. L
    BY <1>6, <1>8
  <2>3. /\ swapped \in Rearranged(s)
        /\ \A k \in 1 .. L :
             swapped[k] = IF k = small THEN order[t23] ELSE IF k = t23 THEN order[small]
                                                            ELSE order[k]
    BY <1>1, <2>2, Swapped DEF L
  <2>. HIDE DEF swapped
  <2>4. next \in Split(s)
    BY <2>2, <2>3 DEF Split, L
  <2>5. ASSUME NEW i \in 1 .. (t23 + 1) - 1 PROVE n[swapped[i]] = Blocks
    <3>1. i \in 1 .. L /\ i # small /\ (i = t23 \/ i \in 1 .. t23 - 1)
      BY <1>6, <2>2
    <3>2. small # 0
      BY <2>2
    <3>. QED BY <1>3, <1>6, <2>3, <3>1, <3>2
  <2>6. ASSUME NEW i \in (small - 1) + 1 .. L PROVE n[swapped[i]] # Blocks
    <3>1. i \in 1 .. L /\ i # t23 /\ (i = small \/ i \in small + 1 .. L) /\ t23 # L + 1
      BY <1>6, <2>2
    <3>. QED BY <1>2, <1>6, <2>3, <3>1
  <2>7. SplitOK(n, s, next)
    BY <2>5, <2>6 DEF SplitOK, L
  <2>8. next.small - next.t23 <= b - a - 2 /\ a <= b
    BY <1>6, <2>2
  <2>9. a = st.t23 /\ b = st.small
    BY DEF a, b
  <2>10. next.small - next.t23 <= st.small - st.t23 - 2 /\ ~(st.small < st.t23)
    BY <1>6, <2>8, <2>9
  <2>. HIDE DEF next
  <2>. QED BY <2>1, <2>4, <2>7, <2>10
<1>. QED BY <1>7, <1>8

(* The searches have met after the rounds: full packets are first.         *)
LEMMA FullFirstSplits ==
  ASSUME NEW n, NEW s \in Seq(Nat), Distinct(s)
  PROVE  LET split == FullFirst(n, s)
         IN  /\ split \in Split(s)
             /\ \A i \in 1 .. split.t23 - 1 : n[split.order[i]] = Blocks
             /\ \A i \in split.t23 .. Len(s) : n[split.order[i]] # Blocks
<1>. DEFINE L == Len(s)
            S == {st \in Split(s) : SplitOK(n, s, st)}
            base == [order |-> s, t23 |-> 1, small |-> L]
            T == [x \in (1 .. L + 1) \X S |-> SearchRound(n, x[2])]
            IsIt(f) == f = [k \in 0 .. L + 1 |->
                              IF k = 0 THEN base ELSE SearchRound(n, f[k - 1])]
<1>1. L \in Nat /\ L + 1 \in Nat
  OBVIOUS
<1>2. base \in S
  <2>1. s \in Rearranged(s)
    BY RearrangedSelf
  <2>2. base \in Split(s)
    BY <1>1, <2>1 DEF Split
  <2>3. SplitOK(n, s, base)
    BY <1>1 DEF SplitOK
  <2>. HIDE DEF base
  <2>. QED BY <2>2, <2>3
<1>3. \A st \in S : SearchRound(n, st) \in S
  BY SearchRoundSplits
<1>4. T \in StepsUpTo(L + 1, S)
  <2>. HIDE DEF S, L
  <2>. QED BY <1>3 DEF StepsUpTo
<1>5. \A k \in 1 .. L + 1, st \in S : T[<<k, st>>] = SearchRound(n, st)
  <2>. HIDE DEF S, L
  <2>. QED OBVIOUS
<1>6. FullFirst(n, s) = (CHOOSE f : IsIt(f))[L + 1]
  BY Zenon DEF FullFirst
<1>. HIDE DEF S, T, L, base
<1>7. PICK g \in [0 .. L + 1 -> S] : GoesUpTo(L + 1, g, base, T)
  BY <1>1, <1>2, <1>4, RecursionOf
<1>8. \A k \in 1 .. L + 1 : g[k] = SearchRound(n, g[k - 1])
  <2>. SUFFICES ASSUME NEW k \in 1 .. L + 1 PROVE g[k] = SearchRound(n, g[k - 1])
    OBVIOUS
  <2>1. k - 1 \in 0 .. L + 1
    BY <1>1
  <2>2. g[k] = T[<<k, g[k - 1]>>] /\ g[k - 1] \in S
    BY <1>7, <2>1 DEF GoesUpTo
  <2>. QED BY <1>5, <2>2
<1>9. IsIt(g)
  <2>1. \A k \in 0 .. L + 1 : k = 0 \/ k \in 1 .. L + 1
    BY <1>1
  <2>3. g[0] = base
    BY <1>7 DEF GoesUpTo
  <2>2. \A k \in 0 .. L + 1 : g[k] = IF k = 0 THEN base ELSE SearchRound(n, g[k - 1])
    BY <1>8, <2>1, <2>3
  <2>. QED BY <1>7, <2>2
<1>. DEFINE f == CHOOSE f : IsIt(f)
<1>10. IsIt(f)
  <2>. HIDE DEF IsIt
  <2>. QED BY <1>9
<1>. HIDE DEF f
<1>11. f[0] = base
  BY <1>1, <1>10
<1>12. ASSUME NEW k \in 0 .. L PROVE f[k + 1] = SearchRound(n, f[k])
  <2>1. k + 1 \in 0 .. L + 1 /\ k + 1 # 0 /\ (k + 1) - 1 = k
    BY <1>1
  <2>. QED BY <1>10, <2>1
<1>. DEFINE A == {k \in 0 .. L + 1 :
                    /\ f[k] \in S
                    /\ f[k].small < f[k].t23 \/ f[k].small - f[k].t23 <= L - 1 - 2 * k}
<1>13. 0 \in A
  <2>1. base.small = L /\ base.t23 = 1
    BY DEF base
  <2>. QED BY <1>1, <1>2, <1>11, <2>1
<1>14. \A k \in 0 .. (L + 1) - 1 : k \in A => k + 1 \in A
  <2>. SUFFICES ASSUME NEW k \in 0 .. (L + 1) - 1, k \in A PROVE k + 1 \in A
    OBVIOUS
  <2>1. k \in 0 .. L /\ k + 1 \in 0 .. L + 1
    BY <1>1
  <2>. DEFINE st == f[k]
              next == f[k + 1]
  <2>2. st \in S /\ (st.small < st.t23 \/ st.small - st.t23 <= L - 1 - 2 * k)
    OBVIOUS
  <2>3. next = SearchRound(n, st)
    BY <1>12, <2>1
  <2>. HIDE DEF st, next
  <2>4. st \in Split(s) /\ SplitOK(n, s, st)
    BY <2>2 DEF S
  <2>5. /\ next \in Split(s) /\ SplitOK(n, s, next)
        /\ next.small < next.t23 \/ next.small - next.t23 <= st.small - st.t23 - 2
        /\ st.small < st.t23 => next.small < next.t23
    BY <2>3, <2>4, SearchRoundSplits
  <2>6. /\ st.small \in Int /\ st.t23 \in Int /\ next.small \in Int /\ next.t23 \in Int
        /\ next \in S
    BY <1>1, <2>4, <2>5 DEF Split, S
  <2>. DEFINE low == st.t23
              high == st.small
              lowNext == next.t23
              highNext == next.small
  <2>7. /\ low \in Int /\ high \in Int /\ lowNext \in Int /\ highNext \in Int
        /\ high < low \/ high - low <= L - 1 - 2 * k
        /\ highNext < lowNext \/ highNext - lowNext <= high - low - 2
        /\ high < low => highNext < lowNext
    BY <2>2, <2>5, <2>6
  <2>8. highNext < lowNext \/ highNext - lowNext <= L - 1 - 2 * (k + 1)
    <3>. HIDE DEF low, high, lowNext, highNext
    <3>1. L \in Int /\ k \in Int
      BY <1>1, <2>1
    <3>2. CASE high < low
      BY <2>7, <3>2
    <3>3. CASE high - low <= L - 1 - 2 * k
      BY <2>7, <3>1, <3>3
    <3>. QED BY <2>7, <3>2, <3>3
  <2>. QED BY <2>1, <2>6, <2>8 DEF next
<1>15. L + 1 \in A
  <2>. HIDE DEF A
  <2>1. 0 .. L + 1 \subseteq A
    BY <1>1, <1>13, <1>14, InductionUpTo
  <2>. QED BY <1>1, <2>1
<1>. DEFINE split == f[L + 1]
<1>16. FullFirst(n, s) = split
  BY <1>6 DEF f
<1>17. split \in S /\ (split.small < split.t23 \/ split.small - split.t23 <= L - 1 - 2 * (L + 1))
  BY <1>15
<1>. HIDE DEF split
<1>18. split \in Split(s) /\ SplitOK(n, s, split)
  BY <1>17 DEF S
<1>19. split.small \in 0 .. L /\ split.t23 \in 1 .. L + 1
  BY <1>18 DEF Split, L
<1>20. split.small < split.t23
  BY <1>1, <1>17, <1>19
<1>21. \A i \in split.t23 .. L : i \in split.small + 1 .. L
  BY <1>1, <1>19, <1>20
<1>22. /\ \A i \in 1 .. split.t23 - 1 : n[split.order[i]] = Blocks
       /\ \A i \in split.t23 .. L : n[split.order[i]] # Blocks
  BY <1>18, <1>21 DEF SplitOK, L
<1>. QED BY <1>16, <1>18, <1>22 DEF L

\* All that are compared have a length.
HaveLengths(n, s) == \A i \in 1 .. Len(s) : n[s[i]] \in 1 .. Blocks

LEMMA RearrangedLengths ==
  ASSUME NEW n, NEW s \in Seq(Nat), HaveLengths(n, s), NEW t \in Rearranged(s)
  PROVE  \A k \in 1 .. Len(s) : n[t[k]] \in 1 .. Blocks /\ n[t[k]] \in Nat
<1>. SUFFICES ASSUME NEW k \in 1 .. Len(s)
              PROVE  n[t[k]] \in 1 .. Blocks /\ n[t[k]] \in Nat
  OBVIOUS
<1>1. PICK j \in 1 .. Len(s) : t[k] = s[j]
  BY DEF Rearranged
<1>2. n[t[k]] \in 1 .. Blocks
  BY <1>1 DEF HaveLengths
<1>. QED BY <1>2, FFdecsaAssumption

\* What the inner loop has done when it has looked at j.
Longest(n, s, i, t, j) ==
  /\ \A k \in 1 .. i - 1 : t[k] = s[k]
  /\ \A k \in i .. Len(s) : \E m \in i .. Len(s) : t[k] = s[m]
  /\ \A k \in i + 1 .. j : n[t[i]] >= n[t[k]]

LEMMA ComparedLongest ==
  ASSUME NEW n, NEW group \in Seq(Nat), HaveLengths(n, group),
         NEW s \in Rearranged(group), NEW t \in Rearranged(group),
         NEW i \in 1 .. Len(group), NEW j \in i + 1 .. Len(group),
         Longest(n, s, i, t, j - 1)
  PROVE  /\ ComparedTo(n, i, t, j) \in Rearranged(group)
         /\ Longest(n, s, i, ComparedTo(n, i, t, j), j)
<1>. DEFINE L == Len(group)
            u == ComparedTo(n, i, t, j)
<1>1. Len(s) = L /\ L \in Nat
  BY RearrangedType
<1>2. /\ \A k \in 1 .. i - 1 : t[k] = s[k]
      /\ \A k \in i .. L : \E m \in i .. L : t[k] = s[m]
      /\ \A k \in i + 1 .. j - 1 : n[t[i]] >= n[t[k]]
  BY <1>1 DEF Longest
<1>3. \A k \in 1 .. L : n[t[k]] \in Nat
  BY RearrangedLengths
<1>4. CASE ~(n[t[j]] > n[t[i]])
  <2>1. u = t
    BY <1>4 DEF ComparedTo
  <2>2. ASSUME NEW k \in i + 1 .. j PROVE n[t[i]] >= n[t[k]]
    <3>1. k \in i + 1 .. j - 1 \/ k = j
      BY <1>1
    <3>2. n[t[i]] \in Nat /\ n[t[j]] \in Nat
      BY <1>1, <1>3
    <3>3. CASE k \in i + 1 .. j - 1
      BY <1>2, <3>3
    <3>4. CASE k = j
      <4>. DEFINE longest == n[t[i]]
                  compared == n[t[j]]
      <4>1. longest \in Nat /\ compared \in Nat /\ ~(compared > longest)
        BY <1>4, <3>2
      <4>2. longest >= compared
        <5>. HIDE DEF longest, compared
        <5>. QED BY <4>1
      <4>. QED BY <3>4, <4>2
    <3>. QED BY <3>1, <3>3, <3>4
  <2>3. Longest(n, s, i, t, j)
    BY <1>1, <1>2, <2>2 DEF Longest
  <2>. QED BY <2>1, <2>3
<1>5. CASE n[t[j]] > n[t[i]]
  <2>1. u = Swap(t, i, j)
    BY <1>5 DEF ComparedTo
  <2>2. j \in 1 .. L /\ i # j
    BY <1>1
  <2>3. /\ u \in Rearranged(group)
        /\ \A k \in 1 .. L : u[k] = IF k = j THEN t[i] ELSE IF k = i THEN t[j] ELSE t[k]
    BY <2>1, <2>2, Swapped, SMTT(30)
  <2>. HIDE DEF u, L
  <2>4. ASSUME NEW k \in 1 .. i - 1 PROVE u[k] = s[k]
    <3>1. k \in 1 .. L /\ k # i /\ k # j
      BY <1>1, <2>2 DEF L
    <3>. QED BY <1>2, <2>3, <3>1
  <2>5. ASSUME NEW k \in i .. L PROVE \E m \in i .. L : u[k] = s[m]
    <3>1. k \in 1 .. L /\ i \in i .. L /\ j \in i .. L
      BY <1>1 DEF L
    <3>2. \E m \in i .. L : u[k] = t[m]
      BY <2>3, <3>1
    <3>. QED BY <1>2, <3>2
  <2>6. ASSUME NEW k \in i + 1 .. j PROVE n[u[i]] >= n[u[k]]
    <3>1. k \in 1 .. L /\ i \in 1 .. L /\ k # i /\ (k \in i + 1 .. j - 1 \/ k = j)
      BY <1>1, <2>2 DEF L
    <3>2. u[i] = t[j]
      BY <2>2, <2>3, <3>1
    <3>3. n[t[i]] \in Nat /\ n[t[j]] \in Nat /\ n[t[k]] \in Nat
      BY <1>3, <2>2, <3>1
    <3>4. CASE k = j
      <4>1. u[k] = t[i]
        BY <2>3, <3>1, <3>4
      <4>. QED BY <1>5, <3>2, <3>3, <4>1
    <3>5. CASE k # j
      <4>1. u[k] = t[k] /\ n[t[i]] >= n[t[k]]
        BY <1>2, <2>3, <3>1, <3>5
      <4>. QED BY <1>5, <3>2, <3>3, <4>1
    <3>. QED BY <3>4, <3>5
  <2>7. Longest(n, s, i, u, j)
    BY <1>1, <2>4, <2>5, <2>6 DEF Longest
  <2>. QED BY <2>3, <2>7 DEF u
<1>. QED BY <1>4, <1>5

(* The inner loop brings the longest of the packets from i on to i.        *)
LEMMA LongestComes ==
  ASSUME NEW n, NEW group \in Seq(Nat), HaveLengths(n, group),
         NEW s \in Rearranged(group), NEW i \in 1 .. Len(group)
  PROVE  /\ LongestTo(n, i, s) \in Rearranged(group)
         /\ Longest(n, s, i, LongestTo(n, i, s), Len(group))
<1>. DEFINE L == Len(group)
            S == Rearranged(group)
            T == [x \in (1 .. L) \X S |-> IF x[1] <= i THEN s ELSE ComparedTo(n, i, x[2], x[1])]
            IsIt(f) == f = [k \in 0 .. L |->
                              IF k <= i THEN s ELSE ComparedTo(n, i, f[k - 1], k)]
<1>1. Len(s) = L /\ L \in Nat
  BY RearrangedType
<1>2. ASSUME NEW k \in 1 .. L, NEW t \in S PROVE ComparedTo(n, i, t, k) \in S
  BY Swapped DEF ComparedTo
<1>3. LongestTo(n, i, s) = (CHOOSE f : IsIt(f))[L]
  BY <1>1, Zenon DEF LongestTo
<1>. HIDE DEF S, L
<1>4. T \in StepsUpTo(L, S)
  BY <1>2 DEF StepsUpTo, S
<1>5. \A k \in 1 .. L, t \in S :
        T[<<k, t>>] = IF k <= i THEN s ELSE ComparedTo(n, i, t, k)
  OBVIOUS
<1>. HIDE DEF T
<1>6. PICK g \in [0 .. L -> S] : GoesUpTo(L, g, s, T)
  <2>1. s \in S
    BY DEF S
  <2>. QED BY <1>1, <1>4, <2>1, RecursionOf
<1>7. \A k \in 0 .. L : g[k] = IF k <= i THEN s ELSE ComparedTo(n, i, g[k - 1], k)
  <2>. SUFFICES ASSUME NEW k \in 0 .. L
                PROVE  g[k] = IF k <= i THEN s ELSE ComparedTo(n, i, g[k - 1], k)
    OBVIOUS
  <2>1. CASE k = 0
    <3>1. g[0] = s /\ 0 <= i
      BY <1>1, <1>6 DEF GoesUpTo
    <3>. QED BY <2>1, <3>1
  <2>2. CASE k # 0
    <3>1. k \in 1 .. L /\ k - 1 \in 0 .. L
      BY <1>1, <2>2
    <3>2. g[k] = T[<<k, g[k - 1]>>] /\ g[k - 1] \in S
      BY <1>6, <3>1 DEF GoesUpTo
    <3>. QED BY <1>5, <3>1, <3>2
  <2>. QED BY <2>1, <2>2
<1>8. IsIt(g)
  BY <1>7
<1>. DEFINE f == CHOOSE f : IsIt(f)
<1>9. IsIt(f)
  <2>. HIDE DEF IsIt
  <2>. QED BY <1>8
<1>. HIDE DEF f
<1>. DEFINE A == {k \in 0 .. L : f[k] \in S /\ Longest(n, s, i, f[k], k)}
<1>10. ASSUME NEW k \in 0 .. L, k <= i PROVE k \in A
  <2>1. f[k] = s
    BY <1>9, <1>10
  <2>2. ~(\E m : m \in i + 1 .. k)
    BY <1>1, <1>10
  <2>3. Longest(n, s, i, s, k)
    BY <1>1, <2>2 DEF Longest
  <2>. QED BY <2>1, <2>3 DEF S
<1>11. 0 \in A
  BY <1>1, <1>10 DEF L
<1>12. ASSUME NEW k \in 0 .. L - 1, k \in A PROVE k + 1 \in A
  <2>1. k + 1 \in 0 .. L /\ (k + 1) - 1 = k
    BY <1>1
  <2>2. CASE k + 1 <= i
    BY <1>10, <2>1, <2>2
  <2>3. CASE ~(k + 1 <= i)
    <3>1. k + 1 \in i + 1 .. L
      BY <1>1, <2>1, <2>3 DEF L
    <3>2. f[k + 1] = ComparedTo(n, i, f[(k + 1) - 1], k + 1)
      BY <1>9, <2>1, <2>3
    <3>3. f[k] \in Rearranged(group) /\ Longest(n, s, i, f[k], (k + 1) - 1)
      BY <1>12, <2>1 DEF S
    <3>. DEFINE u == ComparedTo(n, i, f[k], k + 1)
    <3>4. u \in Rearranged(group) /\ Longest(n, s, i, u, k + 1)
      <4>. HIDE DEF A
      <4>. QED BY <3>1, <3>3, ComparedLongest DEF L
    <3>5. f[k + 1] = u
      BY <2>1, <3>2
    <3>. HIDE DEF u
    <3>. QED BY <2>1, <3>4, <3>5 DEF S
  <2>. QED BY <2>2, <2>3
<1>13. L \in A
  <2>. HIDE DEF A
  <2>1. 0 .. L \subseteq A
    BY <1>1, <1>11, <1>12, InductionUpTo
  <2>. QED BY <1>1, <2>1
<1>14. LongestTo(n, i, s) = f[L]
  BY <1>3 DEF f
<1>. QED BY <1>13, <1>14 DEF S, L

\* The packets up to i are in order and no later one is longer.
SortedUpTo(n, group, t, i) ==
  \A a \in 1 .. i : \A b \in a + 1 .. Len(group) : n[t[a]] >= n[t[b]]

LEMMA SortedOn ==
  ASSUME NEW n, NEW group \in Seq(Nat), HaveLengths(n, group),
         NEW s \in Rearranged(group), NEW i \in 1 .. Len(group),
         SortedUpTo(n, group, s, i - 1)
  PROVE  SortedUpTo(n, group, LongestTo(n, i, s), i)
<1>. DEFINE L == Len(group)
            t == LongestTo(n, i, s)
<1>1. Len(s) = L /\ L \in Nat
  BY RearrangedType
<1>2. /\ \A k \in 1 .. i - 1 : t[k] = s[k]
      /\ \A k \in i .. L : \E m \in i .. L : t[k] = s[m]
      /\ \A k \in i + 1 .. L : n[t[i]] >= n[t[k]]
  BY <1>1, LongestComes DEF Longest
<1>. HIDE DEF t, L
<1>3. ASSUME NEW a \in 1 .. i, NEW b \in a + 1 .. L PROVE n[t[a]] >= n[t[b]]
  <2>1. CASE a = i
    BY <1>2, <2>1
  <2>2. CASE a # i
    <3>1. a \in 1 .. i - 1 /\ t[a] = s[a]
      BY <1>2, <2>2
    <3>2. CASE b < i
      <4>1. b \in 1 .. i - 1
        BY <1>1, <3>2
      <4>2. b \in a + 1 .. Len(group)
        BY DEF L
      <4>. QED BY <1>2, <3>1, <4>1, <4>2 DEF SortedUpTo
    <3>3. CASE ~(b < i)
      <4>1. b \in i .. L
        BY <1>1, <3>3
      <4>2. PICK m \in i .. L : t[b] = s[m]
        BY <1>2, <4>1
      <4>3. m \in a + 1 .. Len(group)
        BY <1>1, <3>1 DEF L
      <4>. QED BY <3>1, <4>2, <4>3 DEF SortedUpTo
    <3>. QED BY <3>2, <3>3
  <2>. QED BY <2>1, <2>2
<1>. QED BY <1>3 DEF SortedUpTo, t, L

(* The two steps sort the group.                                           *)
LEMMA OrderedSorts ==
  ASSUME NEW n, NEW group \in Seq(Nat), Distinct(group), HaveLengths(n, group)
  PROVE  /\ Ordered(n, group) \in Rearranged(group)
         /\ SortedUpTo(n, group, Ordered(n, group), Len(group))
<1>. DEFINE L == Len(group)
            S == Rearranged(group)
            split == FullFirst(n, group)
            t23 == split.t23
            first == split.order
            T == [x \in (1 .. L) \X S |-> IF x[1] < t23 THEN first ELSE LongestTo(n, x[1], x[2])]
            IsIt(f) == f = [k \in 0 .. L |->
                              IF k < t23 THEN first ELSE LongestTo(n, k, f[k - 1])]
<1>1. /\ L \in Nat /\ t23 \in 1 .. L + 1 /\ first \in S
      /\ \A i \in 1 .. t23 - 1 : n[first[i]] = Blocks
  BY FullFirstSplits DEF Split
<1>2. ASSUME NEW k \in 1 .. L, NEW t \in S PROVE LongestTo(n, k, t) \in S
  BY LongestComes
<1>3. Ordered(n, group) = (CHOOSE f : IsIt(f))[L]
  BY Zenon DEF Ordered
<1>. HIDE DEF S, L, t23, first, split
<1>4. T \in StepsUpTo(L, S)
  BY <1>1, <1>2 DEF StepsUpTo
<1>5. \A k \in 1 .. L, t \in S :
        T[<<k, t>>] = IF k < t23 THEN first ELSE LongestTo(n, k, t)
  OBVIOUS
<1>. HIDE DEF T
<1>6. PICK g \in [0 .. L -> S] : GoesUpTo(L, g, first, T)
  BY <1>1, <1>4, RecursionOf
<1>7. \A k \in 0 .. L : g[k] = IF k < t23 THEN first ELSE LongestTo(n, k, g[k - 1])
  <2>. SUFFICES ASSUME NEW k \in 0 .. L
                PROVE  g[k] = IF k < t23 THEN first ELSE LongestTo(n, k, g[k - 1])
    OBVIOUS
  <2>1. CASE k = 0
    <3>1. g[0] = first /\ 0 < t23
      BY <1>1, <1>6 DEF GoesUpTo
    <3>. QED BY <2>1, <3>1
  <2>2. CASE k # 0
    <3>1. k \in 1 .. L /\ k - 1 \in 0 .. L
      BY <1>1, <2>2
    <3>2. g[k] = T[<<k, g[k - 1]>>] /\ g[k - 1] \in S
      BY <1>6, <3>1 DEF GoesUpTo
    <3>. QED BY <1>5, <3>1, <3>2
  <2>. QED BY <2>1, <2>2
<1>8. IsIt(g)
  BY <1>7
<1>. DEFINE f == CHOOSE f : IsIt(f)
<1>9. IsIt(f)
  <2>. HIDE DEF IsIt
  <2>. QED BY <1>8
<1>. HIDE DEF f
<1>. DEFINE A == {k \in 0 .. L : f[k] \in S /\ SortedUpTo(n, group, f[k], k)}
<1>10. ASSUME NEW k \in 0 .. L, k < t23 PROVE k \in A
  <2>1. f[k] = first
    BY <1>9, <1>10
  <2>2. SortedUpTo(n, group, first, k)
    <3>. SUFFICES ASSUME NEW a \in 1 .. k, NEW b \in a + 1 .. Len(group)
                  PROVE  n[first[a]] >= n[first[b]]
      BY DEF SortedUpTo
    <3>1. a \in 1 .. t23 - 1 /\ b \in 1 .. Len(group)
      BY <1>1, <1>10 DEF L
    <3>2. n[first[a]] = Blocks /\ n[first[b]] \in 1 .. Blocks
      BY <1>1, <3>1, RearrangedLengths DEF S
    <3>. QED BY <3>2, FFdecsaAssumption
  <2>. QED BY <1>1, <2>1, <2>2
<1>11. 0 \in A
  BY <1>1, <1>10
<1>12. ASSUME NEW k \in 0 .. L - 1, k \in A PROVE k + 1 \in A
  <2>1. k + 1 \in 0 .. L /\ (k + 1) - 1 = k
    BY <1>1
  <2>2. CASE k + 1 < t23
    BY <1>10, <2>1, <2>2
  <2>3. CASE ~(k + 1 < t23)
    <3>1. k + 1 \in 1 .. L
      BY <1>1, <2>1
    <3>2. f[k + 1] = LongestTo(n, k + 1, f[(k + 1) - 1])
      BY <1>9, <2>1, <2>3
    <3>. DEFINE s == f[k]
                u == LongestTo(n, k + 1, s)
    <3>3. s \in Rearranged(group) /\ SortedUpTo(n, group, s, (k + 1) - 1)
      BY <1>12, <2>1 DEF S
    <3>4. f[k + 1] = u
      BY <2>1, <3>2
    <3>. HIDE DEF s, A
    <3>5. u \in Rearranged(group) /\ SortedUpTo(n, group, u, k + 1)
      BY <3>1, <3>3, LongestComes, SortedOn DEF L
    <3>. HIDE DEF u
    <3>6. f[k + 1] \in S /\ SortedUpTo(n, group, f[k + 1], k + 1)
      BY <3>4, <3>5 DEF S
    <3>. QED BY <2>1, <3>6 DEF A
  <2>. QED BY <2>2, <2>3
<1>13. L \in A
  <2>. HIDE DEF A
  <2>1. 0 .. L \subseteq A
    BY <1>1, <1>11, <1>12, InductionUpTo
  <2>. QED BY <1>1, <2>1
<1>14. Ordered(n, group) = f[L]
  BY <1>3 DEF f
<1>. QED BY <1>13, <1>14 DEF S, L

-----------------------------------------------------------------------------
(* The iterations: which packets are in them, and what they write of each. *)

\* The packets with more than i blocks.
Longer(n, order, i) == {g \in 1 .. Len(order) : n[order[g]] > i}

(* alive[i] is the number of the packets with more than i blocks.          *)
LEMMA AliveCounts ==
  ASSUME NEW n, NEW group \in Seq(Nat), HaveLengths(n, group),
         NEW order \in Rearranged(group)
  PROVE  \A i \in 0 .. Blocks : Alive(n, order)[i] = Cardinality(Longer(n, order, i))
<1>. DEFINE L == Len(group)
            Of(i) == {g \in DOMAIN order : n[order[g]] = i + 1}
            IsIt(f) == f = [i \in 0 .. Blocks |->
                              IF i = Blocks THEN 0 ELSE Cardinality(Of(i)) + f[i + 1]]
            want == [i \in 0 .. Blocks |-> Cardinality(Longer(n, order, i))]
<1>1. /\ L \in Nat /\ Len(order) = L /\ DOMAIN order = 1 .. L
      /\ \A g \in 1 .. L : n[order[g]] \in 1 .. Blocks
      /\ Blocks \in Nat
  BY RearrangedType, RearrangedLengths, FFdecsaAssumption
<1>2. Alive(n, order) = CHOOSE f : IsIt(f)
  BY Zenon DEF Alive
<1>. HIDE DEF L
<1>3. Longer(n, order, Blocks) = {}
  BY <1>1 DEF Longer
<1>4. ASSUME NEW i \in 0 .. Blocks - 1
      PROVE  Cardinality(Longer(n, order, i)) =
               Cardinality(Of(i)) + Cardinality(Longer(n, order, i + 1))
  <2>. DEFINE A == Of(i)
              B == Longer(n, order, i + 1)
  <2>1. Longer(n, order, i) = A \cup B /\ A \cap B = {}
    BY <1>1 DEF Longer
  <2>2. A \in SUBSET (1 .. L) /\ B \in SUBSET (1 .. L)
    BY <1>1 DEF Longer
  <2>. HIDE DEF A, B
  <2>3. IsFiniteSet(1 .. L)
    BY <1>1, FS_Interval
  <2>4. IsFiniteSet(A) /\ IsFiniteSet(B)
    BY <2>2, <2>3, FS_Subset
  <2>5. Cardinality(A \cup B) = Cardinality(A) + Cardinality(B) - Cardinality(A \cap B)
    BY <2>4, FS_Union
  <2>6. Cardinality(A \cap B) = 0
    BY <2>1, FS_EmptySet
  <2>7. Cardinality(A) \in Nat /\ Cardinality(B) \in Nat
    BY <2>4, FS_CardinalityType
  <2>8. Cardinality(A \cup B) = Cardinality(A) + Cardinality(B)
    BY <2>5, <2>6, <2>7
  <2>. QED BY <2>1, <2>8 DEF A, B
<1>. HIDE DEF Of
<1>5. IsIt(want)
  <2>1. ASSUME NEW i \in 0 .. Blocks
        PROVE  want[i] = IF i = Blocks THEN 0 ELSE Cardinality(Of(i)) + want[i + 1]
    <3>1. CASE i = Blocks
      BY <1>3, <3>1, FS_EmptySet
    <3>2. CASE i # Blocks
      <4>1. i \in 0 .. Blocks - 1 /\ i + 1 \in 0 .. Blocks
        BY <1>1, <3>2
      <4>2. want[i] = Cardinality(Longer(n, order, i))
            /\ want[i + 1] = Cardinality(Longer(n, order, i + 1))
        BY <4>1
      <4>. QED BY <1>4, <3>2, <4>1, <4>2
    <3>. QED BY <3>1, <3>2
  <2>2. want = [i \in 0 .. Blocks |-> want[i]]
    OBVIOUS
  <2>. HIDE DEF want
  <2>3. want = [i \in 0 .. Blocks |-> IF i = Blocks THEN 0 ELSE Cardinality(Of(i)) + want[i + 1]]
    BY <2>1, <2>2
  <2>. QED BY <2>3
<1>. DEFINE alive == CHOOSE f : IsIt(f)
<1>6. IsIt(alive)
  <2>. HIDE DEF IsIt
  <2>. QED BY <1>5
<1>. HIDE DEF alive
<1>. DEFINE D == {d \in 0 .. Blocks : alive[Blocks - d] = Cardinality(Longer(n, order, Blocks - d))}
<1>7. 0 \in D
  <2>1. alive[Blocks] = 0
    BY <1>1, <1>6
  <2>2. Blocks - 0 = Blocks /\ 0 \in 0 .. Blocks
    BY <1>1
  <2>. QED BY <1>3, <2>1, <2>2, FS_EmptySet
<1>8. ASSUME NEW d \in 0 .. Blocks - 1, d \in D PROVE d + 1 \in D
  <2>. DEFINE i == Blocks - (d + 1)
  <2>1. /\ i \in 0 .. Blocks - 1 /\ i \in 0 .. Blocks /\ i # Blocks /\ i + 1 = Blocks - d
        /\ d + 1 \in 0 .. Blocks
    BY <1>1
  <2>2. alive[i + 1] = Cardinality(Longer(n, order, i + 1))
    BY <1>8, <2>1
  <2>. HIDE DEF i
  <2>3. alive[i] = Cardinality(Of(i)) + alive[i + 1]
    BY <1>6, <2>1
  <2>4. alive[i] = Cardinality(Longer(n, order, i))
    BY <1>4, <2>1, <2>2, <2>3
  <2>. QED BY <2>1, <2>4 DEF i
<1>9. 0 .. Blocks \subseteq D
  <2>. HIDE DEF D
  <2>. QED BY <1>1, <1>7, <1>8, InductionUpTo
<1>10. ASSUME NEW i \in 0 .. Blocks PROVE alive[i] = Cardinality(Longer(n, order, i))
  <2>1. Blocks - i \in 0 .. Blocks /\ Blocks - (Blocks - i) = i
    BY <1>1
  <2>2. Blocks - i \in D
    <3>. HIDE DEF D
    <3>. QED BY <1>9, <2>1
  <2>. QED BY <2>1, <2>2
<1>. QED BY <1>2, <1>10 DEF alive

(* Of a sorted group the first alive[i] packets have more than i blocks.   *)
LEMMA FirstAreAlive ==
  ASSUME NEW n, NEW group \in Seq(Nat), HaveLengths(n, group),
         NEW order \in Rearranged(group), SortedUpTo(n, group, order, Len(group))
  PROVE  \A i \in 0 .. Blocks : \A g \in 1 .. Len(group) :
           g \in 1 .. Alive(n, order)[i] <=> n[order[g]] > i
<1>. SUFFICES ASSUME NEW i \in 0 .. Blocks, NEW g \in 1 .. Len(group)
              PROVE  g \in 1 .. Alive(n, order)[i] <=> n[order[g]] > i
  OBVIOUS
<1>. DEFINE L == Len(group)
            S == Longer(n, order, i)
<1>1. L \in Nat /\ Len(order) = L /\ \A h \in 1 .. L : n[order[h]] \in Nat
  BY RearrangedType, RearrangedLengths
<1>2. S \in SUBSET (1 .. L)
  BY <1>1 DEF Longer
<1>3. ASSUME NEW k \in S, NEW h \in 1 .. k PROVE h \in S
  <2>1. k \in 1 .. L /\ h \in 1 .. L /\ n[order[k]] > i
    BY <1>1 DEF Longer
  <2>2. CASE h = k
    BY <2>2
  <2>3. CASE h # k
    <3>1. k \in h + 1 .. Len(group) /\ h \in 1 .. Len(group)
      BY <1>1, <2>1, <2>3
    <3>2. n[order[h]] >= n[order[k]]
      BY <3>1 DEF SortedUpTo
    <3>3. n[order[h]] > i
      BY <1>1, <2>1, <3>2
    <3>. QED BY <1>1, <2>1, <3>3 DEF Longer
  <2>. QED BY <2>2, <2>3
<1>4. S = 1 .. Cardinality(S)
  <2>. HIDE DEF S, L
  <2>. QED BY <1>1, <1>2, <1>3, WithoutGap
<1>5. Alive(n, order)[i] = Cardinality(S)
  BY AliveCounts
<1>6. g \in S <=> n[order[g]] > i
  BY <1>1 DEF Longer
<1>. HIDE DEF S
<1>. QED BY <1>4, <1>5, <1>6

\* The iteration that decrypts the residue; a full packet has none.
ResidueOf(len) == IF len = Blocks THEN 0 ELSE len

(* Each block is written once, and the residue after the last of them.     *)
LEMMA EachBlockWritten ==
  ASSUME NEW n, NEW group \in Seq(Nat), HaveLengths(n, group),
         NEW order \in Rearranged(group), SortedUpTo(n, group, order, Len(group)),
         NEW g \in 1 .. Len(group)
  PROVE  /\ BlocksWritten(Alive(n, order), g) = n[order[g]]
         /\ ResidueAt(Alive(n, order), g) = ResidueOf(n[order[g]])
<1>. DEFINE alive == Alive(n, order)
            len == n[order[g]]
<1>1. len \in 1 .. Blocks /\ Blocks \in Nat /\ len \in Nat
  BY RearrangedLengths, FFdecsaAssumption
<1>2. \A i \in 0 .. Blocks : g \in 1 .. alive[i] <=> len > i
  BY FirstAreAlive
<1>2a. \A i \in 0 .. Blocks : alive[i] \in Nat
  <2>. SUFFICES ASSUME NEW i \in 0 .. Blocks PROVE alive[i] \in Nat
    OBVIOUS
  <2>1. alive[i] = Cardinality(Longer(n, order, i))
    BY AliveCounts
  <2>2. Longer(n, order, i) \in SUBSET (1 .. Len(group)) /\ Len(group) \in Nat
    BY RearrangedType DEF Longer
  <2>3. IsFiniteSet(1 .. Len(group))
    BY <2>2, FS_Interval
  <2>. HIDE DEF alive
  <2>. QED BY <2>1, <2>2, <2>3, FS_Subset, FS_CardinalityType
<1>. HIDE DEF alive, len
<1>3. ASSUME NEW i \in 1 .. Blocks PROVE g \in Blocked(alive, i) <=> i <= len
  <2>1. i - 1 \in 0 .. Blocks
    BY <1>1
  <2>2. g \in 1 .. alive[i - 1] <=> len > i - 1
    BY <1>2, <2>1
  <2>. QED BY <1>1, <2>2 DEF Blocked
<1>4. BlocksWritten(alive, g) = len
  <2>1. {i \in 1 .. Blocks : g \in Blocked(alive, i)} = 1 .. len
    BY <1>1, <1>3
  <2>2. Cardinality(1 .. len) = len
    BY <1>1, FS_Interval
  <2>. QED BY <2>1, <2>2 DEF BlocksWritten
<1>5. ASSUME NEW i \in 1 .. Blocks
      PROVE  g \in Residues(alive, i) <=> i = len /\ i # Blocks
  <2>1. i - 1 \in 0 .. Blocks /\ i \in 0 .. Blocks
    BY <1>1
  <2>2. (g \in 1 .. alive[i - 1] <=> len > i - 1) /\ (g \in 1 .. alive[i] <=> len > i)
    BY <1>2, <2>1
  <2>3. alive[i] \in Nat /\ alive[i - 1] \in Nat /\ g \in Nat /\ g >= 1
    BY <1>2a, <2>1
  <2>4. g \in alive[i] + 1 .. alive[i - 1] <=> len = i
    BY <1>1, <2>2, <2>3
  <2>. QED BY <2>4 DEF Residues
<1>6. ResidueAt(alive, g) = ResidueOf(len)
  <2>1. CASE len = Blocks
    BY <1>5, <2>1 DEF ResidueAt, ResidueOf
  <2>2. CASE len # Blocks
    <3>1. \A i \in 1 .. Blocks : g \in Residues(alive, i) <=> i = len
      BY <1>5, <2>2
    <3>2. len \in 1 .. Blocks
      BY <1>1
    <3>. QED BY <2>2, <3>1, <3>2 DEF ResidueAt, ResidueOf
  <2>. QED BY <2>1, <2>2
<1>. QED BY <1>4, <1>6 DEF alive, len

-----------------------------------------------------------------------------
(* What the scan leaves of the ranges: no packet is in them twice, and     *)
(* what is taken off is available.                                         *)

\* The ranges lie behind each other.
Ascending(cluster) ==
  /\ \A r \in 1 .. Len(cluster) : cluster[r][1] <= cluster[r][2]
  /\ \A r \in 1 .. Len(cluster) : \A q \in r + 1 .. Len(cluster) :
       cluster[r][2] <= cluster[q][1]

(* A position follows the one before it in its range, or is the first of a *)
(* later range.                                                            *)
Follows(cluster, p, q) ==
  \/ q.range = p.range /\ q.at = p.at + 1
  \/ q.range > p.range /\ q.at = cluster[q.range][1]

(* The positions go through the ranges in order and through each packet.   *)
LEMMA PositionsFollow ==
  ASSUME NEW cluster \in Seq(Range2), Ascending(cluster)
  PROVE  /\ Len(Positions(cluster)) # 0 =>
              Positions(cluster)[1].at = cluster[Positions(cluster)[1].range][1]
         /\ \A k \in 1 .. Len(Positions(cluster)) - 1 :
              Follows(cluster, Positions(cluster)[k], Positions(cluster)[k + 1])
         /\ \A r \in 1 .. Len(cluster) : \A at \in cluster[r][1] .. cluster[r][2] - 1 :
              \E k \in 1 .. Len(Positions(cluster)) :
                Positions(cluster)[k] = [range |-> r, at |-> at]
<1>. DEFINE L == Len(cluster)
            seqs == [r \in 1 .. L |-> OfRange(cluster, r)]
            pos == Positions(cluster)
<1>1. L \in Nat /\ DOMAIN cluster = 1 .. L
  OBVIOUS
<1>2. pos = FlattenSeq(seqs)
  BY <1>1, Zenon DEF Positions, OfRange
<1>3. CASE L = 0
  <2>1. seqs = <<>> /\ cluster = <<>>
    BY <1>3
  <2>2. pos = <<>>
    BY <1>2, <2>1 DEF FlattenSeq
  <2>3. Len(pos) = 0
    BY <2>2
  <2>4. Len(cluster) = 0
    BY <1>3
  <2>. HIDE DEF pos
  <2>. QED BY <2>3, <2>4 DEF pos
<1>4. CASE L # 0
  <2>1. seqs \in Seq(Seq(Position)) /\ Len(seqs) = L
    BY <1>1, OfRangeType
  <2>1a. \A r \in 1 .. L : seqs[r] = OfRange(cluster, r)
    OBVIOUS
  <2>. HIDE DEF seqs, L
  <2>2. PICK off \in [0 .. L -> Nat] :
          /\ off[0] = 0 /\ off[L] = Len(FlattenSeq(seqs))
          /\ \A r \in 1 .. L :
               /\ off[r] = off[r - 1] + Len(seqs[r])
               /\ off[r] <= Len(FlattenSeq(seqs))
               /\ \A i \in 1 .. Len(seqs[r]) :
                    FlattenSeq(seqs)[off[r - 1] + i] = seqs[r][i]
          /\ \A k \in 1 .. Len(FlattenSeq(seqs)) :
               \E r \in 1 .. L : k - off[r - 1] \in 1 .. Len(seqs[r])
    BY <1>4, <2>1, FlattenSegments, Zenon
  <2>3. FlattenSeq(seqs) \in Seq(Position)
    BY <1>4, <2>1, FlattenSegments, Zenon
  <2>. HIDE DEF pos
  <2>4. /\ off[0] = 0 /\ off[L] = Len(pos) /\ Len(pos) \in Nat
        /\ \A r \in 1 .. L : off[r] = off[r - 1] + Len(seqs[r]) /\ off[r] <= Len(pos)
        /\ \A r \in 1 .. L : \A i \in 1 .. Len(seqs[r]) : pos[off[r - 1] + i] = seqs[r][i]
        /\ \A k \in 1 .. Len(pos) : \E r \in 1 .. L : k - off[r - 1] \in 1 .. Len(seqs[r])
    BY <1>2, <2>2, <2>3
  <2>5. ASSUME NEW r \in 1 .. L
        PROVE  /\ cluster[r][1] \in Nat /\ cluster[r][2] \in Nat
               /\ Len(seqs[r]) = cluster[r][2] - cluster[r][1] /\ Len(seqs[r]) \in Nat
               /\ \A i \in 1 .. Len(seqs[r]) :
                    seqs[r][i] = [range |-> r, at |-> cluster[r][1] + i - 1]
    <3>1. /\ cluster[r][1] \in Nat /\ cluster[r][2] \in Nat
          /\ Len(seqs[r]) =
               IF cluster[r][1] < cluster[r][2] THEN cluster[r][2] - cluster[r][1] ELSE 0
      BY <2>1a, OfRangeType DEF L
    <3>2. cluster[r][1] <= cluster[r][2]
      BY DEF Ascending, L
    <3>3. \A i \in 1 .. cluster[r][2] - cluster[r][1] :
            seqs[r][i] = [range |-> r, at |-> cluster[r][1] + i - 1]
      BY <2>1a DEF OfRange
    <3>4. Len(seqs[r]) = cluster[r][2] - cluster[r][1] /\ Len(seqs[r]) \in Nat
      BY <3>1, <3>2
    <3>. QED BY <3>1, <3>3, <3>4
  <2>. DEFINE len(r) == Len(seqs[r])
  <2>6. \A r \in 1 .. L : /\ r \in 0 .. L /\ r - 1 \in 0 .. L
                          /\ off[r] \in Nat /\ off[r - 1] \in Nat /\ len(r) \in Nat
                          /\ off[r] = off[r - 1] + len(r)
    BY <1>1, <2>2, <2>4, <2>5
  <2>. HIDE DEF len
  (* The segments ascend.                                                  *)
  <2>7. ASSUME NEW r \in 0 .. L PROVE \A q \in r .. L : off[r] <= off[q]
    <3>. DEFINE A == {d \in 0 .. L - r : off[r] <= off[r + d]}
    <3>1. 0 \in A /\ L - r \in Nat
      BY <1>1, <2>2
    <3>2. ASSUME NEW d \in 0 .. (L - r) - 1, d \in A PROVE d + 1 \in A
      <4>1. /\ r + (d + 1) \in 1 .. L /\ (r + (d + 1)) - 1 = r + d /\ d + 1 \in 0 .. L - r
            /\ r \in 0 .. L
        BY <1>1
      <4>2. off[r + (d + 1)] = off[r + d] + len(r + (d + 1)) /\ len(r + (d + 1)) \in Nat
            /\ off[r + d] \in Nat
        BY <2>6, <4>1
      <4>3. off[r] <= off[r + d] /\ off[r] \in Nat
        BY <2>2, <3>2, <4>1
      <4>4. off[r] <= off[r + (d + 1)]
        BY <4>2, <4>3
      <4>. QED BY <4>1, <4>4
    <3>3. 0 .. L - r \subseteq A
      <4>. HIDE DEF A
      <4>. QED BY <3>1, <3>2, InductionUpTo
    <3>. TAKE q \in r .. L
    <3>4. q - r \in 0 .. L - r /\ r + (q - r) = q
      BY <1>1
    <3>5. q - r \in A
      <4>. HIDE DEF A
      <4>. QED BY <3>3, <3>4
    <3>. QED BY <3>4, <3>5
  <2>8. ASSUME NEW k \in 1 .. Len(pos), NEW r \in 1 .. L, k - off[r - 1] \in 1 .. len(r)
        PROVE  pos[k] = [range |-> r, at |-> cluster[r][1] + (k - off[r - 1]) - 1]
    <3>. DEFINE i == k - off[r - 1]
    <3>1. off[r - 1] + i = k /\ i \in 1 .. Len(seqs[r])
      BY <2>4, <2>6, <2>8 DEF len
    <3>. HIDE DEF i
    <3>2. pos[k] = seqs[r][i]
      <4>1. pos[off[r - 1] + i] = seqs[r][i]
        BY <2>4, <3>1
      <4>. QED BY <3>1, <4>1
    <3>3. pos[k] = [range |-> r, at |-> cluster[r][1] + i - 1]
      BY <2>5, <3>1, <3>2
    <3>. QED BY <3>3 DEF i
  <2>9. ASSUME Len(pos) # 0 PROVE pos[1].at = cluster[pos[1].range][1]
    <3>1. 1 \in 1 .. Len(pos)
      BY <2>4, <2>9
    <3>2. PICK r \in 1 .. L : 1 - off[r - 1] \in 1 .. len(r)
      BY <2>4, <3>1 DEF len
    <3>3. off[r - 1] \in Nat /\ cluster[r][1] \in Nat
      BY <2>5, <2>6
    <3>4. 1 - off[r - 1] = 1
      BY <2>6, <3>2, <3>3
    <3>5. pos[1] = [range |-> r, at |-> cluster[r][1] + 1 - 1]
      BY <2>8, <3>1, <3>2, <3>4
    <3>. QED BY <3>3, <3>5
  <2>10. ASSUME NEW k \in 1 .. Len(pos) - 1
         PROVE  Follows(cluster, pos[k], pos[k + 1])
    <3>1. k \in 1 .. Len(pos) /\ k + 1 \in 1 .. Len(pos) /\ k \in Nat
      BY <2>4
    <3>2. PICK r \in 1 .. L : k - off[r - 1] \in 1 .. len(r)
      BY <2>4, <3>1 DEF len
    <3>3. PICK q \in 1 .. L : (k + 1) - off[q - 1] \in 1 .. len(q)
      BY <2>4, <3>1 DEF len
    <3>4. /\ pos[k] = [range |-> r, at |-> cluster[r][1] + (k - off[r - 1]) - 1]
          /\ pos[k + 1] = [range |-> q, at |-> cluster[q][1] + ((k + 1) - off[q - 1]) - 1]
      BY <2>8, <3>1, <3>2, <3>3
    <3>. DEFINE a == off[r - 1]
                b == off[q - 1]
                c == cluster[r][1]
                d == cluster[q][1]
    <3>5. /\ a \in Nat /\ b \in Nat /\ c \in Nat /\ d \in Nat
          /\ off[r] = a + len(r) /\ off[q] = b + len(q)
          /\ len(r) \in Nat /\ len(q) \in Nat
      BY <2>5, <2>6
    <3>6. q < r => off[q] <= a
      <4>1. q < r => q \in 0 .. L /\ r - 1 \in q .. L
        BY <1>1
      <4>. QED BY <2>7, <4>1
    <3>7. r < q => off[r] <= b
      <4>1. r < q => r \in 0 .. L /\ q - 1 \in r .. L
        BY <1>1
      <4>. QED BY <2>7, <4>1
    <3>8. k - a \in 1 .. len(r) /\ (k + 1) - b \in 1 .. len(q)
      BY <3>2, <3>3
    <3>9. /\ pos[k] = [range |-> r, at |-> c + (k - a) - 1]
          /\ pos[k + 1] = [range |-> q, at |-> d + ((k + 1) - b) - 1]
      BY <3>4
    <3>. DEFINE or == off[r]
                oq == off[q]
                lr == len(r)
                lq == len(q)
    <3>10. /\ or = a + lr /\ oq = b + lq /\ lr \in Nat /\ lq \in Nat
           /\ (q < r => oq <= a) /\ (r < q => or <= b)
           /\ k - a \in 1 .. lr /\ (k + 1) - b \in 1 .. lq
      BY <3>5, <3>6, <3>7, <3>8
    <3>11. a \in Nat /\ b \in Nat /\ c \in Nat /\ d \in Nat /\ r \in Nat /\ q \in Nat
      BY <1>1, <3>5
    <3>12. q = r => a = b /\ c = d
      OBVIOUS
    <3>13. d = cluster[q][1]
      OBVIOUS
    <3>. HIDE DEF a, b, c, d, or, oq, lr, lq
    <3>14. ~(q < r)
      BY <3>1, <3>10, <3>11
    <3>15. CASE q = r
      <4>1. d + ((k + 1) - b) - 1 = (c + (k - a) - 1) + 1
        BY <3>1, <3>11, <3>12, <3>15
      <4>. QED BY <3>9, <3>15, <4>1 DEF Follows
    <3>16. CASE q > r
      <4>1. (k + 1) - b = 1
        BY <3>1, <3>10, <3>11, <3>16
      <4>2. d + ((k + 1) - b) - 1 = d
        BY <3>11, <4>1
      <4>. QED BY <3>9, <3>13, <3>16, <4>2 DEF Follows
    <3>. QED BY <3>11, <3>14, <3>15, <3>16
  <2>11. ASSUME NEW r \in 1 .. L, NEW at \in cluster[r][1] .. cluster[r][2] - 1
         PROVE  \E k \in 1 .. Len(pos) : pos[k] = [range |-> r, at |-> at]
    <3>. DEFINE c == cluster[r][1]
                i == at - c + 1
                o == off[r - 1]
                k == o + i
    <3>1. /\ c \in Nat /\ cluster[r][2] \in Nat /\ Len(seqs[r]) = cluster[r][2] - c
          /\ o \in Nat /\ o + Len(seqs[r]) = off[r] /\ off[r] <= Len(pos) /\ Len(pos) \in Nat
          /\ off[r] \in Nat
      BY <2>4, <2>5, <2>6 DEF len
    <3>. DEFINE e == cluster[r][2]
                m == Len(seqs[r])
                u == off[r]
                v == Len(pos)
    <3>1a. /\ c \in Nat /\ e \in Nat /\ m = e - c /\ o \in Nat /\ o + m = u /\ u <= v
           /\ v \in Nat /\ u \in Nat /\ at \in c .. e - 1
      BY <3>1
    <3>. HIDE DEF c, o, e, m, u, v
    <3>2. at \in Int /\ c <= at /\ at <= e - 1
      BY <3>1a
    <3>2a. i \in Int /\ 1 <= i /\ i <= m /\ c + i - 1 = at
      BY <3>1a, <3>2
    <3>. HIDE DEF i
    <3>2b. k \in Int /\ 1 <= k /\ k <= v
      BY <3>1a, <3>2a
    <3>2c. i \in 1 .. m /\ k \in 1 .. v
      BY <3>1a, <3>2a, <3>2b
    <3>. HIDE DEF k
    <3>3. i \in 1 .. Len(seqs[r]) /\ k \in 1 .. Len(pos) /\ c + i - 1 = at
      BY <3>2a, <3>2c DEF m, v
    <3>. USE DEF k
    <3>4. pos[o + i] = seqs[r][i]
      BY <2>4, <3>3 DEF o
    <3>5. seqs[r][i] = [range |-> r, at |-> c + i - 1]
      BY <2>5, <3>3 DEF c
    <3>6. pos[k] = [range |-> r, at |-> at]
      BY <3>3, <3>4, <3>5
    <3>. QED BY <3>3, <3>6
  <2>. QED BY <2>9, <2>10, <2>11 DEF pos, L
<1>. QED BY <1>3, <1>4

(* What the scan goes through, as far as the proofs need it.               *)
Walk(cluster, pos) ==
  /\ pos \in Seq(Position)
  /\ \A k \in 1 .. Len(pos) :
       /\ pos[k].range \in 1 .. Len(cluster)
       /\ pos[k].at \in cluster[pos[k].range][1] .. cluster[pos[k].range][2] - 1
  /\ Len(pos) # 0 => pos[1].at = cluster[pos[1].range][1]
  /\ \A k \in 1 .. Len(pos) - 1 : Follows(cluster, pos[k], pos[k + 1])

\* A packet of the cluster need not be given again.
Available(mem, scan, at) == at \in scan.marked \/ mem[at].sc \notin Parities

\* The starts of the ranges move over available packets only.
Moved(mem, cluster, scan) ==
  /\ Len(scan.cluster) = Len(cluster)
  /\ \A r \in 1 .. Len(cluster) :
       /\ scan.cluster[r][2] = cluster[r][2]
       /\ cluster[r][1] <= scan.cluster[r][1] /\ scan.cluster[r][1] <= cluster[r][2]
       /\ \A at \in cluster[r][1] .. scan.cluster[r][1] - 1 : Available(mem, scan, at)

\* All the packets up to position k were passed by the starts.
AtFront(cluster, pos, k, scan) ==
  /\ scan.advanced = k
  /\ k # 0 => scan.cluster[pos[k].range][1] = pos[k].at + 1
  /\ \A r \in 1 .. Len(cluster) :
       k = 0 \/ pos[k].range < r => scan.cluster[r] = cluster[r]

Counted(mem, pos, k, scan) ==
  /\ scan.advanced \in 0 .. k
  /\ \A i \in 1 .. scan.advanced : Available(mem, scan, pos[i].at)

\* The group is in the order of the packets.
InOrder(pos, k, scan) ==
  /\ Distinct(scan.group)
  /\ \A at \in Grouped(scan) : k # 0 /\ at <= pos[k].at

\* The first packet was passed.
FirstPassed(cluster, pos, scan) ==
  /\ scan.advanced >= 1
  /\ scan.cluster[pos[1].range][1] > cluster[pos[1].range][1]

ScanOK(mem, cluster, pos, k, scan) ==
  /\ Moved(mem, cluster, scan)
  /\ scan.canAdvance /\ Len(scan.group) # Parallelism => AtFront(cluster, pos, k, scan)
  /\ Counted(mem, pos, k, scan)
  /\ InOrder(pos, k, scan)
  /\ k # 0 => FirstPassed(cluster, pos, scan)

(* The fields of the scan after one more packet.                           *)
LEMMA Examined ==
  ASSUME NEW mem, NEW scan, NEW pos, Len(scan.group) # Parallelism
  PROVE  LET s == Examine(mem, scan, pos)
         IN  /\ Advances(scan, mem[pos.at]) =>
                  /\ s.cluster = [scan.cluster EXCEPT ![pos.range][1] = @ + 1]
                  /\ s.advanced = scan.advanced + 1
             /\ ~Advances(scan, mem[pos.at]) =>
                  s.cluster = scan.cluster /\ s.advanced = scan.advanced /\ ~s.canAdvance
             /\ scan.marked \subseteq s.marked
             /\ Joins(scan, mem[pos.at]) => pos.at \in s.marked
             /\ s.group = scan.group \/ s.group = Append(scan.group, pos.at)
<1>. DEFINE s == Examine(mem, scan, pos)
            advance == Advances(scan, mem[pos.at])
            joins == Joins(scan, mem[pos.at])
            cl == [scan.cluster EXCEPT ![pos.range][1] = @ + 1]
            group == IF joins /\ mem[pos.at].n > 0
                       THEN Append(scan.group, pos.at) ELSE scan.group
            marked == IF joins THEN scan.marked \cup {pos.at} ELSE scan.marked
            parity == IF joins THEN mem[pos.at].sc ELSE scan.parity
            advanced == IF advance THEN scan.advanced + 1 ELSE scan.advanced
            cluster == IF advance THEN cl ELSE scan.cluster
<1>1. s = [group |-> group, parity |-> parity, marked |-> marked, canAdvance |-> advance,
           advanced |-> advanced, cluster |-> cluster]
  BY Zenon DEF Examine
<1>2. /\ group = scan.group \/ group = Append(scan.group, pos.at)
      /\ scan.marked \subseteq marked /\ (joins => pos.at \in marked)
  OBVIOUS
<1>3. /\ advance => advanced = scan.advanced + 1 /\ cluster = cl
      /\ ~advance => advanced = scan.advanced /\ cluster = scan.cluster
  BY Zenon
<1>. HIDE DEF s, advance, cl, group, marked, advanced, cluster, joins, parity
<1>4. s.group = group /\ s.marked = marked /\ s.advanced = advanced /\ s.cluster = cluster
  BY <1>1
<1>5. ~advance => ~s.canAdvance
  <2>1. s.canAdvance = advance
    BY <1>1, Zenon
  <2>. QED BY <2>1, Zenon
<1>6. /\ advance => s.cluster = cl /\ s.advanced = scan.advanced + 1
      /\ ~advance => s.cluster = scan.cluster /\ s.advanced = scan.advanced /\ ~s.canAdvance
  BY <1>3, <1>4, <1>5, Zenon
<1>7. scan.marked \subseteq s.marked /\ (joins => pos.at \in s.marked)
  BY <1>2, <1>4
<1>8. s.group = scan.group \/ s.group = Append(scan.group, pos.at)
  BY <1>2, <1>4
<1>. QED BY <1>6, <1>7, <1>8 DEF s, advance, cl, joins

(* A packet comes after the one before it.                                 *)
LEMMA WalkAscends ==
  ASSUME NEW cluster \in Seq(Range2), Ascending(cluster), NEW pos, Walk(cluster, pos),
         NEW k \in 1 .. Len(pos) - 1
  PROVE  pos[k].at < pos[k + 1].at
<1>1. k \in 1 .. Len(pos) /\ k + 1 \in 1 .. Len(pos)
  BY DEF Walk
<1>. DEFINE r == pos[k].range
            q == pos[k + 1].range
            a == pos[k].at
            b == pos[k + 1].at
<1>2. /\ r \in 1 .. Len(cluster) /\ q \in 1 .. Len(cluster)
      /\ a \in cluster[r][1] .. cluster[r][2] - 1
      /\ b \in cluster[q][1] .. cluster[q][2] - 1
      /\ Follows(cluster, pos[k], pos[k + 1]) /\ a \in Nat /\ b \in Nat
  <2>1. /\ r \in 1 .. Len(cluster) /\ q \in 1 .. Len(cluster)
        /\ a \in cluster[r][1] .. cluster[r][2] - 1
        /\ b \in cluster[q][1] .. cluster[q][2] - 1
        /\ Follows(cluster, pos[k], pos[k + 1])
    BY <1>1 DEF Walk
  <2>2. pos[k] \in Position /\ pos[k + 1] \in Position
    BY <1>1 DEF Walk
  <2>3. a \in Nat /\ b \in Nat
    BY <2>2 DEF Position
  <2>. HIDE DEF a, b, r, q
  <2>. QED BY <2>1, <2>3
<1>3. (q = r /\ b = a + 1) \/ (q > r /\ b = cluster[q][1])
  BY <1>2 DEF Follows
<1>. HIDE DEF r, q, a, b
<1>4. CASE q = r /\ b = a + 1
  <2>1. a < b
    BY <1>2, <1>4
  <2>. QED BY <2>1 DEF a, b
<1>5. CASE q > r /\ b = cluster[q][1]
  <2>1. q \in r + 1 .. Len(cluster)
    BY <1>2, <1>5
  <2>2. cluster[r][2] <= cluster[q][1]
    BY <1>2, <2>1 DEF Ascending
  <2>3. cluster[r][1] \in Nat /\ cluster[r][2] \in Nat
    BY <1>2, OfRangeType
  <2>. DEFINE e == cluster[r][2]
  <2>4. a <= e - 1 /\ e <= b /\ e \in Nat
    BY <1>2, <1>5, <2>2, <2>3
  <2>. HIDE DEF e
  <2>5. a < b
    BY <1>2, <2>4
  <2>. QED BY <2>5 DEF a, b
<1>. QED BY <1>3, <1>4, <1>5

(* One packet of the scan that is passed: the start of its range, which is *)
(* at it, moves on.                                                        *)
LEMMA PassedMoves ==
  ASSUME NEW mem, NEW cluster \in Seq(Range2), Ascending(cluster),
         NEW pos, Walk(cluster, pos), NEW k \in 1 .. Len(pos),
         NEW scan \in Scanned, NEW s \in Scanned,
         Moved(mem, cluster, scan), AtFront(cluster, pos, k - 1, scan),
         s.cluster = [scan.cluster EXCEPT ![pos[k].range][1] = @ + 1],
         s.advanced = scan.advanced + 1,
         scan.marked \subseteq s.marked, Available(mem, s, pos[k].at)
  PROVE  /\ scan.cluster[pos[k].range][1] = pos[k].at
         /\ s.cluster[pos[k].range][1] = pos[k].at + 1
         /\ Moved(mem, cluster, s) /\ AtFront(cluster, pos, k, s)
<1>. DEFINE r == pos[k].range
            a == pos[k].at
            c == scan.cluster
<1>0. k \in Nat /\ k # 0 /\ Len(pos) \in Nat
  BY DEF Walk
<1>1. /\ r \in 1 .. Len(cluster) /\ a \in cluster[r][1] .. cluster[r][2] - 1 /\ a \in Nat
  <2>1. pos[k] \in Position
    BY DEF Walk
  <2>. QED BY <2>1 DEF Walk, Position
<1>2. c \in Seq(Range2) /\ Len(c) = Len(cluster) /\ s.cluster \in Seq(Range2)
  BY DEF Scanned, Moved
<1>3. c[r][1] = a
  <2>1. CASE k = 1
    <3>1. a = cluster[r][1]
      BY <1>0, <2>1 DEF Walk
    <3>2. c[r] = cluster[r]
      BY <1>1, <2>1 DEF AtFront
    <3>. QED BY <3>1, <3>2
  <2>2. CASE k # 1
    <3>. DEFINE j == k - 1
    <3>1. j \in 1 .. Len(pos) - 1 /\ j + 1 = k /\ j # 0
      BY <1>0, <2>2
    <3>. HIDE DEF j
    <3>2. Follows(cluster, pos[j], pos[k])
      BY <3>1 DEF Walk
    <3>3. /\ c[pos[j].range][1] = pos[j].at + 1
          /\ \A q \in 1 .. Len(cluster) : pos[j].range < q => c[q] = cluster[q]
      BY <3>1 DEF AtFront, j
    <3>4. CASE r = pos[j].range /\ a = pos[j].at + 1
      BY <3>3, <3>4
    <3>5. CASE r > pos[j].range /\ a = cluster[r][1]
      <4>1. pos[j] \in Position
        BY <3>1 DEF Walk
      <4>2. pos[j].range < r
        BY <1>1, <3>5, <4>1 DEF Position
      <4>. QED BY <1>1, <3>3, <3>5, <4>2
    <3>. QED BY <3>2, <3>4, <3>5 DEF Follows
  <2>. QED BY <2>1, <2>2
<1>. HIDE DEF r, a, c
<1>4. /\ s.cluster[r][1] = a + 1 /\ s.cluster[r][2] = c[r][2] /\ Len(s.cluster) = Len(c)
      /\ \A q \in 1 .. Len(cluster) : q # r => s.cluster[q] = c[q]
  <2>1. DOMAIN c = 1 .. Len(c) /\ c[r] \in Range2 /\ r \in DOMAIN c
    BY <1>1, <1>2
  <2>2. s.cluster = [c EXCEPT ![r] = [c[r] EXCEPT ![1] = @ + 1]]
    BY DEF c, r
  <2>3. s.cluster[r] = [c[r] EXCEPT ![1] = @ + 1]
    BY <2>1, <2>2
  <2>4. s.cluster[r][1] = a + 1 /\ s.cluster[r][2] = c[r][2]
    <3>. DEFINE p == c[r]
    <3>1. 1 \in DOMAIN p /\ 2 \in DOMAIN p
      BY <2>1 DEF Range2
    <3>2. p[1] = a /\ s.cluster[r] = [p EXCEPT ![1] = a + 1]
      BY <1>3, <2>3
    <3>. HIDE DEF p
    <3>3. [p EXCEPT ![1] = a + 1][1] = a + 1 /\ [p EXCEPT ![1] = a + 1][2] = p[2]
      BY <3>1
    <3>. QED BY <3>2, <3>3 DEF p
  <2>5. \A q \in 1 .. Len(cluster) : q # r => s.cluster[q] = c[q]
    BY <1>2, <2>1, <2>2
  <2>6. Len(s.cluster) = Len(c)
    <3>1. DOMAIN s.cluster = DOMAIN c
      BY <2>2
    <3>2. 1 .. Len(s.cluster) = 1 .. Len(c) /\ Len(s.cluster) \in Nat /\ Len(c) \in Nat
      BY <1>2, <2>1, <3>1
    <3>. DEFINE m == Len(s.cluster)
                n == Len(c)
    <3>. HIDE DEF m, n
    <3>3. 1 .. m = 1 .. n /\ m \in Nat /\ n \in Nat => m = n
      OBVIOUS
    <3>. QED BY <3>2, <3>3 DEF m, n
  <2>. QED BY <2>4, <2>5, <2>6
<1>5. s.cluster[r][1] = a + 1 /\ s.cluster[r][2] = c[r][2]
  BY <1>4
<1>6. \A at : Available(mem, scan, at) => Available(mem, s, at)
  BY DEF Available
<1>7. Moved(mem, cluster, s)
  <2>1. Len(s.cluster) = Len(cluster)
    BY <1>2, <1>4
  <2>. SUFFICES ASSUME NEW q \in 1 .. Len(cluster)
                PROVE  /\ s.cluster[q][2] = cluster[q][2]
                       /\ cluster[q][1] <= s.cluster[q][1] /\ s.cluster[q][1] <= cluster[q][2]
                       /\ \A at \in cluster[q][1] .. s.cluster[q][1] - 1 : Available(mem, s, at)
    BY <2>1 DEF Moved
  <2>2. /\ c[q][2] = cluster[q][2] /\ cluster[q][1] <= c[q][1] /\ c[q][1] <= cluster[q][2]
        /\ \A at \in cluster[q][1] .. c[q][1] - 1 : Available(mem, scan, at)
    BY DEF Moved, c
  <2>3. CASE q # r
    <3>1. s.cluster[q] = c[q]
      BY <1>4, <2>3
    <3>. QED BY <1>6, <2>2, <3>1
  <2>4. CASE q = r
    <3>. DEFINE x == cluster[q][1]
                e == cluster[q][2]
    <3>1. x \in Nat /\ e \in Nat /\ a \in x .. e - 1 /\ a \in Nat
      BY <1>1, <2>4, OfRangeType
    <3>2. s.cluster[q][1] = a + 1 /\ c[q][1] = a /\ s.cluster[q][2] = c[q][2]
      BY <1>3, <1>5, <2>4
    <3>3. \A at \in x .. a - 1 : Available(mem, s, at)
      BY <1>6, <2>2, <3>2
    <3>4. Available(mem, s, a)
      BY DEF a
    <3>. HIDE DEF x, e
    <3>5. x <= a + 1 /\ a + 1 <= e
      BY <3>1
    <3>6. ASSUME NEW at \in x .. (a + 1) - 1 PROVE at = a \/ at \in x .. a - 1
      BY <3>1
    <3>7. \A at \in x .. (a + 1) - 1 : Available(mem, s, at)
      BY <3>3, <3>4, <3>6
    <3>. QED BY <2>2, <3>2, <3>5, <3>7 DEF x, e
  <2>. QED BY <2>3, <2>4
<1>8. AtFront(cluster, pos, k, s)
  <2>1. s.advanced = k
    BY <1>0 DEF AtFront
  <2>2. ASSUME NEW q \in 1 .. Len(cluster), r < q
        PROVE  s.cluster[q] = cluster[q]
    <3>1. q # r
      BY <1>1, <2>2
    <3>2. s.cluster[q] = c[q]
      BY <1>4, <3>1
    <3>3. CASE k = 1
      BY <3>2, <3>3 DEF AtFront, c
    <3>4. CASE k # 1
      <4>. DEFINE j == k - 1
      <4>1. j \in 1 .. Len(pos) - 1 /\ j + 1 = k /\ j # 0 /\ j \in 1 .. Len(pos)
        BY <1>0, <3>4
      <4>. HIDE DEF j
      <4>2. Follows(cluster, pos[j], pos[k]) /\ pos[j] \in Position
        BY <4>1 DEF Walk
      <4>3. pos[j].range <= r /\ pos[j].range \in Nat
        BY <1>1, <4>2 DEF Follows, r, Position
      <4>4. pos[j].range < q
        BY <1>1, <2>2, <4>3
      <4>5. c[q] = cluster[q]
        BY <4>1, <4>4 DEF AtFront, j, c
      <4>. QED BY <3>2, <4>5
    <3>. QED BY <3>3, <3>4
  <2>. QED BY <1>0, <1>5, <2>1, <2>2 DEF AtFront, r, a
<1>. QED BY <1>3, <1>5, <1>7, <1>8 DEF r, a, c

(* The group grows at its end, by a packet that comes later.               *)
LEMMA InOrderOn ==
  ASSUME NEW cluster \in Seq(Range2), Ascending(cluster),
         NEW pos, Walk(cluster, pos), NEW k \in 1 .. Len(pos),
         NEW scan \in Scanned, NEW s \in Scanned, InOrder(pos, k - 1, scan),
         s.group = scan.group \/ s.group = Append(scan.group, pos[k].at)
  PROVE  InOrder(pos, k, s)
<1>. DEFINE g == scan.group
            a == pos[k].at
<1>1. g \in Seq(Nat) /\ a \in Nat /\ Len(g) \in Nat /\ k # 0 /\ k \in Nat /\ Len(pos) \in Nat
  <2>1. pos \in Seq(Position) /\ pos[k] \in Position
    BY DEF Walk
  <2>2. g \in Seq(Nat)
    BY DEF Scanned
  <2>3. a \in Nat
    BY <2>1 DEF Position
  <2>4. Len(pos) \in Nat /\ Len(g) \in Nat
    <3>. HIDE DEF g
    <3>. QED BY <2>1, <2>2
  <2>5. k # 0 /\ k \in Nat
    BY <2>4
  <2>. QED BY <2>2, <2>3, <2>4, <2>5
<1>2. \A i \in 1 .. Len(g) : g[i] < a /\ g[i] \in Nat
  <2>. SUFFICES ASSUME NEW i \in 1 .. Len(g) PROVE g[i] < a /\ g[i] \in Nat
    OBVIOUS
  <2>1. g[i] \in Grouped(scan) /\ g[i] \in Nat
    BY <1>1 DEF Grouped
  <2>. DEFINE j == k - 1
  <2>2. j # 0 /\ g[i] <= pos[j].at
    BY <2>1 DEF InOrder
  <2>3. j \in 1 .. Len(pos) - 1 /\ j + 1 = k /\ j \in 1 .. Len(pos)
    BY <1>1, <2>2
  <2>. HIDE DEF j, g, a
  <2>4. pos[j].at < pos[k].at
    BY <2>3, WalkAscends
  <2>5. pos[j] \in Position
    BY <2>3 DEF Walk
  <2>6. pos[j].at \in Nat /\ pos[j].at < a
    BY <2>4, <2>5 DEF Position, a
  <2>. QED BY <1>1, <2>1, <2>2, <2>6
<1>3. Distinct(g)
  BY DEF InOrder
<1>. HIDE DEF g, a
<1>4. CASE s.group = g
  <2>1. \A at \in Grouped(s) : at <= a
    BY <1>1, <1>2, <1>4 DEF Grouped
  <2>. QED BY <1>1, <1>3, <1>4, <2>1 DEF InOrder, a
<1>5. CASE s.group = Append(g, a)
  <2>. DEFINE t == Append(g, a)
  <2>1. /\ Len(t) = Len(g) + 1 /\ t[Len(g) + 1] = a
        /\ \A i \in 1 .. Len(g) : t[i] = g[i]
    BY <1>1
  <2>. HIDE DEF t
  <2>2. \A i \in 1 .. Len(t) : (i = Len(g) + 1 /\ t[i] = a)
                                 \/ (i \in 1 .. Len(g) /\ t[i] = g[i] /\ t[i] < a /\ t[i] \in Nat)
    BY <1>1, <1>2, <2>1
  <2>3. Distinct(t)
    <3>. SUFFICES ASSUME NEW i \in 1 .. Len(t), NEW j \in 1 .. Len(t), t[i] = t[j] PROVE i = j
      BY DEF Distinct
    <3>1. CASE i = Len(g) + 1
      <4>1. ~(t[j] < a)
        BY <1>1, <2>1, <3>1
      <4>. QED BY <2>2, <3>1, <4>1
    <3>2. CASE j = Len(g) + 1
      <4>1. ~(t[i] < a)
        BY <1>1, <2>1, <3>2
      <4>. QED BY <2>2, <3>2, <4>1
    <3>3. CASE i # Len(g) + 1 /\ j # Len(g) + 1
      <4>1. i \in 1 .. Len(g) /\ j \in 1 .. Len(g) /\ g[i] = g[j]
        BY <2>2, <3>3
      <4>. QED BY <1>3, <4>1 DEF Distinct
    <3>. QED BY <3>1, <3>2, <3>3
  <2>4. ASSUME NEW i \in 1 .. Len(t) PROVE t[i] <= a
    <3>1. t[i] \in Nat /\ (t[i] = a \/ t[i] < a)
      BY <1>1, <2>2
    <3>. QED BY <1>1, <3>1
  <2>5. s.group = t
    BY <1>5 DEF t
  <2>. QED BY <1>1, <2>3, <2>4, <2>5 DEF InOrder, Grouped, a
<1>. QED BY <1>4, <1>5 DEF g, a

(* One packet of the scan.                                                 *)
LEMMA ExamineScans ==
  ASSUME NEW mem, NEW cluster \in Seq(Range2), Ascending(cluster),
         NEW pos, Walk(cluster, pos), NEW k \in 1 .. Len(pos),
         NEW scan \in Scanned, mem[pos[k].at].n \in Int,
         ScanOK(mem, cluster, pos, k - 1, scan),
         k = 1 => scan = Unscanned(cluster)
  PROVE  ScanOK(mem, cluster, pos, k, Examine(mem, scan, pos[k]))
<1>. DEFINE s == Examine(mem, scan, pos[k])
            p == pos[k]
            packet == mem[p.at]
<1>0. /\ k \in Nat /\ k # 0 /\ k - 1 \in Nat /\ k - 1 = 0 <=> k = 1
      /\ p \in Position /\ Len(pos) \in Nat
  BY DEF Walk
<1>1. s \in Scanned
  BY <1>0, ExamineType
<1>2. /\ Moved(mem, cluster, scan)
      /\ scan.canAdvance /\ Len(scan.group) # Parallelism
           => AtFront(cluster, pos, k - 1, scan)
      /\ Counted(mem, pos, k - 1, scan)
      /\ InOrder(pos, k - 1, scan)
      /\ k - 1 # 0 => FirstPassed(cluster, pos, scan)
  BY DEF ScanOK
<1>3. CASE Len(scan.group) = Parallelism
  <2>1. s = scan
    BY <1>3 DEF Examine
  <2>2. k # 1
    BY <1>3, FFdecsaAssumption DEF Unscanned
  <2>3. Counted(mem, pos, k, scan)
    BY <1>0, <1>2 DEF Counted
  <2>4. InOrder(pos, k, scan)
    BY <1>0, <1>1, <1>2, <2>1, InOrderOn
  <2>5. FirstPassed(cluster, pos, scan)
    BY <1>0, <1>2, <2>2
  <2>. HIDE DEF s
  <2>6. ScanOK(mem, cluster, pos, k, s)
    BY <1>2, <1>3, <2>1, <2>3, <2>4, <2>5 DEF ScanOK
  <2>. QED BY <2>6 DEF s
<1>4. CASE Len(scan.group) # Parallelism
  <2>1. /\ Advances(scan, packet) =>
             /\ s.cluster = [scan.cluster EXCEPT ![p.range][1] = @ + 1]
             /\ s.advanced = scan.advanced + 1
        /\ ~Advances(scan, packet) =>
             s.cluster = scan.cluster /\ s.advanced = scan.advanced /\ ~s.canAdvance
        /\ scan.marked \subseteq s.marked
        /\ Joins(scan, packet) => p.at \in s.marked
        /\ s.group = scan.group \/ s.group = Append(scan.group, p.at)
    BY <1>4, Examined
  <2>. HIDE DEF s
  <2>2. InOrder(pos, k, s)
    BY <1>1, <1>2, <2>1, InOrderOn
  <2>3. \A at : Available(mem, scan, at) => Available(mem, s, at)
    BY <2>1 DEF Available
  <2>4. ASSUME Advances(scan, packet) PROVE ScanOK(mem, cluster, pos, k, s)
    <3>1. scan.canAdvance /\ (Joins(scan, packet) \/ packet.sc \notin Parities)
      BY <2>4, Zenon DEF Advances
    <3>2. AtFront(cluster, pos, k - 1, scan)
      BY <1>2, <1>4, <3>1, Zenon
    <3>3. Available(mem, s, p.at)
      BY <2>1, <3>1, Zenon DEF Available
    <3>4. /\ s.cluster = [scan.cluster EXCEPT ![p.range][1] = @ + 1]
          /\ s.advanced = scan.advanced + 1
      BY <2>1, <2>4, Zenon
    <3>5. /\ scan.cluster[pos[k].range][1] = pos[k].at
          /\ s.cluster[pos[k].range][1] = pos[k].at + 1
          /\ Moved(mem, cluster, s) /\ AtFront(cluster, pos, k, s)
      BY <1>1, <1>2, <2>1, <3>2, <3>3, <3>4, PassedMoves
    <3>6. scan.advanced = k - 1 /\ s.advanced = k
      BY <3>2, <3>5 DEF AtFront
    <3>7. Counted(mem, pos, k, s)
      <4>1. \A i \in 1 .. k - 1 : Available(mem, s, pos[i].at)
        BY <1>2, <2>3, <3>6 DEF Counted
      <4>2. \A i \in 1 .. k : i = k \/ i \in 1 .. k - 1
        BY <1>0
      <4>3. \A i \in 1 .. k : Available(mem, s, pos[i].at)
        BY <3>3, <4>1, <4>2
      <4>. QED BY <1>0, <3>6, <4>3 DEF Counted
    <3>8. FirstPassed(cluster, pos, s)
      <4>. DEFINE f == pos[1].range
      <4>1. s.advanced >= 1
        BY <1>0, <3>6
      <4>2. f \in 1 .. Len(cluster) /\ pos[1].at = cluster[f][1]
        <5>1. 1 \in 1 .. Len(pos) /\ Len(pos) # 0
          BY <1>0
        <5>. QED BY <5>1 DEF Walk
      <4>3. cluster[f][1] \in Nat
        BY <4>2, OfRangeType
      <4>4. CASE k = 1
        <5>1. s.cluster[f][1] = cluster[f][1] + 1
          BY <3>5, <4>2, <4>4
        <5>. QED BY <4>1, <4>3, <5>1 DEF FirstPassed
      <4>5. CASE k # 1
        <5>1. scan.cluster[f][1] > cluster[f][1]
          BY <1>0, <1>2, <4>5 DEF FirstPassed
        <5>2. CASE p.range = f
          <6>1. scan.cluster[f][1] = p.at /\ s.cluster[f][1] = p.at + 1 /\ p.at \in Nat
            BY <1>0, <3>5, <5>2 DEF Position
          <6>2. s.cluster[f][1] > cluster[f][1]
            <7>. DEFINE x == cluster[f][1]
                        y == s.cluster[f][1]
                        z == p.at
            <7>1. z > x /\ y = z + 1 /\ z \in Nat /\ x \in Nat
              BY <4>3, <5>1, <6>1
            <7>. HIDE DEF x, y, z
            <7>2. y > x
              BY <7>1
            <7>. QED BY <7>2 DEF x, y
          <6>. QED BY <4>1, <6>2 DEF FirstPassed
        <5>3. CASE p.range # f
          <6>1. s.cluster[f] = scan.cluster[f]
            <7>1. scan.cluster \in Seq(Range2) /\ Len(scan.cluster) = Len(cluster)
              BY <1>2 DEF Scanned, Moved
            <7>2. f \in DOMAIN scan.cluster
              BY <4>2, <7>1
            <7>. DEFINE c == scan.cluster
                        v == [c[p.range] EXCEPT ![1] = @ + 1]
            <7>3. s.cluster = [c EXCEPT ![p.range] = v]
              BY <3>4
            <7>. HIDE DEF c, v, f, p
            <7>4. f \in DOMAIN c
              BY <7>2 DEF c
            <7>5. [c EXCEPT ![p.range] = v][f] = c[f]
              BY <5>3, <7>4
            <7>. QED BY <7>3, <7>5 DEF c
          <6>. QED BY <4>1, <5>1, <6>1 DEF FirstPassed
        <5>. QED BY <5>2, <5>3
      <4>. QED BY <4>4, <4>5
    <3>9. ScanOK(mem, cluster, pos, k, s)
      BY <2>2, <3>5, <3>7, <3>8 DEF ScanOK
    <3>. QED BY <3>9
  <2>5. ASSUME ~Advances(scan, packet) PROVE ScanOK(mem, cluster, pos, k, s)
    <3>1. s.cluster = scan.cluster /\ s.advanced = scan.advanced /\ ~s.canAdvance
      BY <2>1, <2>5, Zenon
    <3>2. Moved(mem, cluster, s)
      BY <1>2, <2>3, <3>1 DEF Moved
    <3>3. Counted(mem, pos, k, s)
      <4>1. scan.advanced \in 0 .. k
        BY <1>0, <1>2 DEF Counted
      <4>. QED BY <1>2, <2>3, <3>1, <4>1 DEF Counted
    <3>4. k # 1
      <4>. SUFFICES ASSUME k = 1 PROVE FALSE
        OBVIOUS
      <4>1. Advances(scan, packet)
        <5>1. scan.canAdvance /\ scan.group = <<>>
          <6>1. scan = Unscanned(cluster)
            BY <1>0
          <6>2. Unscanned(cluster).canAdvance /\ Unscanned(cluster).group = <<>>
            BY DEF Unscanned
          <6>. QED BY <6>1, <6>2
        <5>. QED BY <5>1, Zenon DEF Advances, Joins
      <4>. QED BY <2>5, <4>1, Zenon
    <3>5. FirstPassed(cluster, pos, s)
      BY <1>0, <1>2, <3>1, <3>4 DEF FirstPassed
    <3>6. ScanOK(mem, cluster, pos, k, s)
      BY <2>2, <3>1, <3>2, <3>3, <3>5, Zenon DEF ScanOK
    <3>. QED BY <3>6
  <2>6. ScanOK(mem, cluster, pos, k, s)
    BY <2>4, <2>5, Zenon
  <2>. QED BY <2>6 DEF s
<1>. QED BY <1>3, <1>4

(* The positions of ranges that lie behind each other.                     *)
LEMMA PositionsWalk ==
  ASSUME NEW cluster \in Seq(Range2), Ascending(cluster)
  PROVE  Walk(cluster, Positions(cluster))
<1>. DEFINE pos == Positions(cluster)
<1>1. /\ pos \in Seq(Position)
      /\ \A k \in 1 .. Len(pos) :
           /\ pos[k].range \in 1 .. Len(cluster)
           /\ pos[k].at \in cluster[pos[k].range][1] .. cluster[pos[k].range][2] - 1
  BY PositionsType
<1>2. /\ Len(pos) # 0 => pos[1].at = cluster[pos[1].range][1]
      /\ \A k \in 1 .. Len(pos) - 1 : Follows(cluster, pos[k], pos[k + 1])
  BY PositionsFollow
<1>. HIDE DEF pos
<1>3. Walk(cluster, pos)
  BY <1>1, <1>2 DEF Walk
<1>. QED BY <1>3 DEF pos

(* The whole scan.                                                         *)
LEMMA ScanReturns ==
  ASSUME NEW mem, NEW cluster, InMemory(mem, cluster), Ascending(cluster)
  PROVE  /\ Scan(mem, cluster) \in Scanned
         /\ ScanOK(mem, cluster, Positions(cluster), Len(Positions(cluster)),
                   Scan(mem, cluster))
<1>. DEFINE pos == Positions(cluster)
            L == Len(pos)
<1>1. PICK scan : IsScan(mem, cluster, scan)
  BY ScanSteps
<1>2. cluster \in Seq(Range2) /\ pos \in Seq(Position) /\ L \in Nat
  BY PositionsType DEF InMemory
<1>3. \A k \in 1 .. L : mem[pos[k].at].n \in Int
  BY PositionsInMemory
<1>4. Walk(cluster, pos)
  BY <1>2, PositionsWalk
<1>5. /\ scan \in [0 .. L -> Scanned] /\ scan[0] = Unscanned(cluster)
      /\ \A k \in 1 .. L : scan[k] = Examine(mem, scan[k - 1], pos[k])
      /\ Scan(mem, cluster) = scan[L]
  BY <1>1 DEF IsScan
<1>. HIDE DEF L, pos
<1>. DEFINE T == {k \in 0 .. L : ScanOK(mem, cluster, pos, k, scan[k])}
<1>6. 0 \in T
  <2>. DEFINE u == Unscanned(cluster)
  <2>1. /\ u.group = <<>> /\ u.marked = {} /\ u.advanced = 0 /\ u.cluster = cluster
    BY DEF Unscanned
  <2>. HIDE DEF u
  <2>2. Moved(mem, cluster, u)
    <3>. SUFFICES ASSUME NEW r \in 1 .. Len(cluster)
                  PROVE  /\ cluster[r][1] <= cluster[r][1] /\ cluster[r][1] <= cluster[r][2]
                         /\ \A at \in cluster[r][1] .. cluster[r][1] - 1 : FALSE
      BY <2>1 DEF Moved
    <3>1. cluster[r][1] \in Nat /\ cluster[r][1] <= cluster[r][2]
      BY <1>2, OfRangeType DEF Ascending
    <3>. QED BY <3>1
  <2>3. AtFront(cluster, pos, 0, u) /\ Counted(mem, pos, 0, u)
    BY <2>1 DEF AtFront, Counted
  <2>4. InOrder(pos, 0, u)
    <3>1. Len(u.group) = 0
      BY <2>1
    <3>. QED BY <3>1 DEF InOrder, Distinct, Grouped
  <2>5. ScanOK(mem, cluster, pos, 0, u)
    BY <2>2, <2>3, <2>4 DEF ScanOK
  <2>6. scan[0] = u /\ 0 \in 0 .. L
    BY <1>2, <1>5 DEF u
  <2>. QED BY <2>5, <2>6
<1>7. ASSUME NEW k \in 0 .. L - 1, k \in T PROVE k + 1 \in T
  <2>1. /\ k + 1 \in 1 .. L /\ k + 1 \in 0 .. L /\ k \in 0 .. L /\ (k + 1) - 1 = k
        /\ (k + 1 = 1 => k = 0)
    BY <1>2
  <2>. DEFINE j == k + 1
              s == scan[k]
  <2>2. /\ scan[j] = Examine(mem, s, pos[j]) /\ s \in Scanned
        /\ ScanOK(mem, cluster, pos, j - 1, s)
        /\ j = 1 => s = Unscanned(cluster)
        /\ j \in 1 .. Len(pos) /\ mem[pos[j].at].n \in Int
    BY <1>3, <1>5, <1>7, <2>1 DEF L
  <2>. HIDE DEF j, s, T
  <2>3. ScanOK(mem, cluster, pos, j, Examine(mem, s, pos[j]))
    BY <1>2, <1>4, <2>2, ExamineScans
  <2>4. ScanOK(mem, cluster, pos, j, scan[j]) /\ j \in 0 .. L
    BY <2>1, <2>2, <2>3 DEF j
  <2>. QED BY <2>4 DEF j, T
<1>8. 0 .. L \subseteq T
  <2>. HIDE DEF T
  <2>. QED BY <1>2, <1>6, <1>7, InductionUpTo
<1>9. L \in 0 .. L
  BY <1>2
<1>. QED BY <1>5, <1>8, <1>9 DEF L, pos
-----------------------------------------------------------------------------
(* The empty ranges are left out, the others keep their order.             *)
UpTo(cluster, r, at) == \E q \in 1 .. r : at \in cluster[q][1] .. cluster[q][2] - 1
KeptUpTo(cluster, r, kept) ==
  /\ kept \in Seq(Range2) /\ Ascending(kept)
  /\ \A i \in 1 .. Len(kept) : NotEmpty(kept[i])
  /\ \A i \in 1 .. Len(kept) : \A q \in r + 1 .. Len(cluster) :
       kept[i][2] <= cluster[q][1]
  /\ \A at : InRanges(kept, at) <=> UpTo(cluster, r, at)

LEMMA OneKept ==
  ASSUME NEW cluster \in Seq(Range2), Ascending(cluster),
         NEW r \in 1 .. Len(cluster), NEW kept, KeptUpTo(cluster, r - 1, kept)
  PROVE  KeptUpTo(cluster, r, IF NotEmpty(cluster[r]) THEN Append(kept, cluster[r]) ELSE kept)
<1>. DEFINE c == cluster[r]
            N == Len(kept)
<1>1. /\ c \in Range2 /\ c[1] \in Nat /\ c[2] \in Nat /\ c[1] <= c[2] /\ r \in Nat
      /\ Len(cluster) \in Nat
  BY DEF Range2, Ascending
<1>2. kept \in Seq(Range2) /\ N \in Nat /\ Ascending(kept)
      /\ (\A i \in 1 .. N : NotEmpty(kept[i]))
  BY DEF KeptUpTo
<1>3. \A i \in 1 .. N : \A q \in r .. Len(cluster) : kept[i][2] <= cluster[q][1]
  BY <1>1 DEF KeptUpTo
<1>4. \A at : InRanges(kept, at) <=> UpTo(cluster, r - 1, at)
  BY DEF KeptUpTo
<1>5. \A at : UpTo(cluster, r, at) <=> UpTo(cluster, r - 1, at) \/ at \in c[1] .. c[2] - 1
  <2>1. \A q \in 1 .. r : q = r \/ q \in 1 .. r - 1
    BY <1>1
  <2>2. r \in 1 .. r /\ \A q \in 1 .. r - 1 : q \in 1 .. r
    BY <1>1
  <2>. QED BY <2>1, <2>2 DEF UpTo
<1>6. \A q \in r + 1 .. Len(cluster) : c[2] <= cluster[q][1] /\ q \in r .. Len(cluster)
  BY <1>1 DEF Ascending
<1>. HIDE DEF c
<1>7. CASE ~NotEmpty(c)
  <2>1. \A at : at \notin c[1] .. c[2] - 1
    BY <1>1, <1>7 DEF NotEmpty
  <2>2. \A at : InRanges(kept, at) <=> UpTo(cluster, r, at)
    BY <1>4, <1>5, <2>1
  <2>3. KeptUpTo(cluster, r, kept)
    BY <1>2, <1>3, <1>6, <2>2 DEF KeptUpTo
  <2>. QED BY <1>7, <2>3 DEF c
<1>8. CASE NotEmpty(c)
  <2>. DEFINE t == Append(kept, c)
  <2>1. /\ t \in Seq(Range2) /\ Len(t) = N + 1 /\ t[N + 1] = c
        /\ \A i \in 1 .. N : t[i] = kept[i]
    BY <1>1, <1>2
  <2>. HIDE DEF t, N
  <2>2. /\ N + 1 \in 1 .. Len(t) /\ \A i \in 1 .. N : i \in 1 .. Len(t)
        /\ \A i \in 1 .. Len(t) : (i = N + 1 /\ t[i] = c) \/ (i \in 1 .. N /\ t[i] = kept[i])
    BY <1>2, <2>1
  <2>3. \A i \in 1 .. Len(t) : NotEmpty(t[i])
    BY <1>2, <1>8, <2>2
  <2>4. \A i \in 1 .. Len(t) : \A q \in r + 1 .. Len(cluster) : t[i][2] <= cluster[q][1]
    BY <1>3, <1>6, <2>2
  <2>5. ASSUME NEW at
        PROVE  InRanges(t, at) <=> InRanges(kept, at) \/ at \in c[1] .. c[2] - 1
    <3>1. ASSUME InRanges(t, at) PROVE InRanges(kept, at) \/ at \in c[1] .. c[2] - 1
      <4>1. PICK i \in 1 .. Len(t) : at \in t[i][1] .. t[i][2] - 1
        BY <3>1 DEF InRanges
      <4>. QED BY <2>2, <4>1 DEF InRanges, N
    <3>2. ASSUME InRanges(kept, at) PROVE InRanges(t, at)
      <4>1. PICK i \in 1 .. N : at \in kept[i][1] .. kept[i][2] - 1
        BY <3>2 DEF InRanges, N
      <4>2. i \in 1 .. Len(t) /\ t[i] = kept[i]
        BY <2>1, <2>2
      <4>. QED BY <4>1, <4>2 DEF InRanges
    <3>3. ASSUME at \in c[1] .. c[2] - 1 PROVE InRanges(t, at)
      BY <2>1, <2>2, <3>3 DEF InRanges
    <3>. QED BY <3>1, <3>2, <3>3
  <2>6. \A at : InRanges(t, at) <=> UpTo(cluster, r, at)
    BY <1>4, <1>5, <2>5
  <2>7. Ascending(t)
    <3>1. \A i \in 1 .. Len(t) : t[i][1] <= t[i][2]
      BY <1>1, <1>2, <2>2 DEF Ascending, N
    <3>2. ASSUME NEW i \in 1 .. Len(t), NEW j \in i + 1 .. Len(t) PROVE t[i][2] <= t[j][1]
      <4>1. i \in 1 .. N /\ t[i] = kept[i] /\ j \in 1 .. Len(t)
        BY <1>2, <2>1, <2>2
      <4>2. CASE j = N + 1
        <5>1. r \in r .. Len(cluster)
          BY <1>1
        <5>2. kept[i][2] <= c[1]
          BY <1>3, <4>1, <5>1 DEF c
        <5>. QED BY <2>1, <4>1, <4>2, <5>2
      <4>3. CASE j # N + 1
        <5>1. j \in i + 1 .. N /\ t[j] = kept[j]
          BY <1>2, <2>2, <4>1, <4>3
        <5>. QED BY <1>2, <4>1, <5>1 DEF Ascending, N
      <4>. QED BY <4>2, <4>3
    <3>. QED BY <3>1, <3>2 DEF Ascending
  <2>8. KeptUpTo(cluster, r, t)
    BY <2>1, <2>3, <2>4, <2>6, <2>7 DEF KeptUpTo
  <2>. QED BY <1>8, <2>8 DEF c, t
<1>. QED BY <1>7, <1>8

(* What is left of the ranges.                                             *)
LEMMA CompactedKeeps ==
  ASSUME NEW cluster \in Seq(Range2), Ascending(cluster)
  PROVE  KeptUpTo(cluster, Len(cluster), Compacted(cluster))
<1>. DEFINE L == Len(cluster)
            S == Seq(Range2)
            On(r, kept) == IF NotEmpty(cluster[r]) THEN Append(kept, cluster[r]) ELSE kept
            T == [x \in (1 .. L) \X S |-> On(x[1], x[2])]
            IsIt(f) == f = [r \in 0 .. L |->
                              IF r = 0 THEN <<>>
                              ELSE IF NotEmpty(cluster[r]) THEN Append(f[r - 1], cluster[r])
                                                           ELSE f[r - 1]]
<1>1. L \in Nat /\ <<>> \in S /\ Len(<<>>) = 0 /\ \A r \in 1 .. L : cluster[r] \in Range2
  OBVIOUS
<1>2. ASSUME NEW r \in 1 .. L, NEW kept \in S PROVE On(r, kept) \in S
  BY <1>1
<1>3. Compacted(cluster) = (CHOOSE f : IsIt(f))[L]
  BY Zenon DEF Compacted
<1>. HIDE DEF S, L, On
<1>4. T \in StepsUpTo(L, S)
  BY <1>2 DEF StepsUpTo
<1>5. \A r \in 1 .. L, kept \in S : T[<<r, kept>>] = On(r, kept)
  OBVIOUS
<1>. HIDE DEF T
<1>6. PICK g \in [0 .. L -> S] : GoesUpTo(L, g, <<>>, T)
  BY <1>1, <1>4, RecursionOf
<1>7. IsIt(g)
  <2>. SUFFICES ASSUME NEW r \in 0 .. L
                PROVE  g[r] = IF r = 0 THEN <<>> ELSE On(r, g[r - 1])
    BY DEF On
  <2>1. CASE r = 0
    BY <1>6, <2>1 DEF GoesUpTo
  <2>2. CASE r # 0
    <3>1. r \in 1 .. L /\ r - 1 \in 0 .. L
      BY <1>1, <2>2
    <3>2. g[r] = T[<<r, g[r - 1]>>] /\ g[r - 1] \in S
      BY <1>6, <3>1 DEF GoesUpTo
    <3>. QED BY <1>5, <2>2, <3>1, <3>2
  <2>. QED BY <2>1, <2>2
<1>. DEFINE f == CHOOSE f : IsIt(f)
<1>8. IsIt(f)
  <2>. HIDE DEF IsIt
  <2>. QED BY <1>7
<1>. HIDE DEF f
<1>9. f[0] = <<>> /\ \A r \in 1 .. L : f[r] = On(r, f[r - 1])
  <2>1. f[0] = <<>>
    <3>1. 0 \in 0 .. L
      BY <1>1
    <3>. QED BY <1>8, <3>1
  <2>2. ASSUME NEW r \in 1 .. L PROVE f[r] = On(r, f[r - 1])
    <3>1. r \in 0 .. L /\ r # 0
      BY <1>1
    <3>. QED BY <1>8, <3>1 DEF On
  <2>. QED BY <2>1, <2>2
<1>. HIDE DEF IsIt
<1>. DEFINE A == {r \in 0 .. L : KeptUpTo(cluster, r, f[r])}
<1>10. 0 \in A
  <2>1. \A at : ~InRanges(<<>>, at) /\ ~UpTo(cluster, 0, at)
    BY <1>1 DEF InRanges, UpTo
  <2>2. Ascending(<<>>)
    BY <1>1 DEF Ascending
  <2>3. KeptUpTo(cluster, 0, <<>>)
    BY <1>1, <2>1, <2>2 DEF KeptUpTo, S
  <2>. QED BY <1>1, <1>9, <2>3
<1>11. ASSUME NEW r \in 0 .. L - 1, r \in A PROVE r + 1 \in A
  <2>. DEFINE q == r + 1
  <2>1. q \in 1 .. L /\ q \in 0 .. L /\ q - 1 = r
    BY <1>1
  <2>2. KeptUpTo(cluster, q - 1, f[r]) /\ f[q] = On(q, f[r])
    BY <1>9, <1>11, <2>1
  <2>. HIDE DEF q
  <2>3. KeptUpTo(cluster, q, f[q])
    BY <2>1, <2>2, OneKept DEF On, L
  <2>. QED BY <2>1, <2>3 DEF q
<1>12. 0 .. L \subseteq A
  <2>. HIDE DEF A
  <2>. QED BY <1>1, <1>10, <1>11, InductionUpTo
<1>13. L \in 0 .. L
  BY <1>1
<1>14. KeptUpTo(cluster, L, f[L])
  BY <1>12, <1>13
<1>. QED BY <1>3, <1>14 DEF L, f

(* The packets that the positions name are those in the ranges.            *)
PacketsOf(cluster) == {Positions(cluster)[k].at : k \in 1 .. Len(Positions(cluster))}

LEMMA PacketsInRanges ==
  ASSUME NEW cluster \in Seq(Range2), Ascending(cluster)
  PROVE  PacketsOf(cluster) = {at \in Nat : InRanges(cluster, at)}
<1>. DEFINE pos == Positions(cluster)
<1>1. /\ pos \in Seq(Position)
      /\ \A k \in 1 .. Len(pos) :
           /\ pos[k].range \in 1 .. Len(cluster)
           /\ pos[k].at \in cluster[pos[k].range][1] .. cluster[pos[k].range][2] - 1
  BY PositionsType
<1>2. \A r \in 1 .. Len(cluster) : \A at \in cluster[r][1] .. cluster[r][2] - 1 :
        \E k \in 1 .. Len(pos) : pos[k] = [range |-> r, at |-> at]
  BY PositionsFollow
<1>. HIDE DEF pos
<1>3. ASSUME NEW k \in 1 .. Len(pos) PROVE pos[k].at \in Nat /\ InRanges(cluster, pos[k].at)
  <2>1. pos[k] \in Position
    BY <1>1
  <2>. QED BY <1>1, <2>1 DEF Position, InRanges
<1>4. ASSUME NEW at \in Nat, InRanges(cluster, at)
      PROVE  \E k \in 1 .. Len(pos) : pos[k].at = at
  <2>1. PICK r \in 1 .. Len(cluster) : at \in cluster[r][1] .. cluster[r][2] - 1
    BY <1>4 DEF InRanges
  <2>2. PICK k \in 1 .. Len(pos) : pos[k] = [range |-> r, at |-> at]
    BY <1>2, <2>1
  <2>. QED BY <2>2
<1>. QED BY <1>3, <1>4 DEF PacketsOf, pos

(* The ranges that are returned: those of the packets which need to be     *)
(* given again, and none is empty.                                         *)
LEMMA RangesReturned ==
  ASSUME NEW mem, NEW cluster \in Seq(Range2), Ascending(cluster),
         NEW scan \in Scanned, Moved(mem, cluster, scan)
  PROVE  /\ Compacted(scan.cluster) \in Seq(Range2)
         /\ Ascending(Compacted(scan.cluster))
         /\ \A r \in 1 .. Len(Compacted(scan.cluster)) :
              NotEmpty(Compacted(scan.cluster)[r])
         /\ \A at : InRanges(Compacted(scan.cluster), at) => InRanges(cluster, at)
         /\ \A at : InRanges(cluster, at) /\ ~InRanges(Compacted(scan.cluster), at)
                      => Available(mem, scan, at)
         /\ \A r \in 1 .. Len(cluster) :
              /\ cluster[r][1] < scan.cluster[r][1]
              => ~InRanges(Compacted(scan.cluster), cluster[r][1])
<1>. DEFINE c == scan.cluster
            N == Len(cluster)
            kept == Compacted(c)
<1>1. /\ c \in Seq(Range2) /\ Len(c) = N /\ N \in Nat
      /\ \A r \in 1 .. N :
           /\ c[r][2] = cluster[r][2]
           /\ cluster[r][1] <= c[r][1] /\ c[r][1] <= cluster[r][2]
           /\ \A at \in cluster[r][1] .. c[r][1] - 1 : Available(mem, scan, at)
  BY DEF Moved, Scanned
<1>. HIDE DEF c
<1>2. \A r \in 1 .. N : /\ c[r][1] \in Nat /\ c[r][2] \in Nat
                        /\ cluster[r][1] \in Nat /\ cluster[r][2] \in Nat
  BY <1>1, OfRangeType
<1>3. \A r \in 1 .. N : \A q \in r + 1 .. N :
        q \in 1 .. N /\ q \in Nat /\ q > r /\ cluster[r][2] <= cluster[q][1]
  BY <1>1 DEF Ascending
<1>4. Ascending(c)
  <2>1. \A r \in 1 .. N : \A q \in r + 1 .. N : c[r][2] <= c[q][1]
    <3>. SUFFICES ASSUME NEW r \in 1 .. N, NEW q \in r + 1 .. N PROVE c[r][2] <= c[q][1]
      OBVIOUS
    <3>1. q \in 1 .. N /\ cluster[r][2] <= cluster[q][1]
      BY <1>3
    <3>2. c[r][2] = cluster[r][2] /\ cluster[q][1] <= c[q][1]
      BY <1>1, <3>1
    <3>3. c[q][1] \in Nat /\ cluster[q][1] \in Nat /\ cluster[r][2] \in Nat
      BY <1>2, <3>1
    <3>. DEFINE x == c[q][1]
                y == cluster[q][1]
                z == cluster[r][2]
    <3>4. z <= y /\ y <= x /\ x \in Nat /\ y \in Nat /\ z \in Nat
      BY <3>1, <3>2, <3>3
    <3>. HIDE DEF x, y, z
    <3>5. z <= x
      BY <3>4
    <3>. QED BY <3>2, <3>5 DEF x, z
  <2>2. \A r \in 1 .. N : c[r][1] <= c[r][2]
    BY <1>1
  <2>. QED BY <1>1, <2>1, <2>2 DEF Ascending
<1>5. KeptUpTo(c, Len(c), kept)
  BY <1>1, <1>4, CompactedKeeps
<1>. HIDE DEF kept
<1>6. \A at : InRanges(kept, at) <=> \E r \in 1 .. N : at \in c[r][1] .. c[r][2] - 1
  BY <1>1, <1>5 DEF KeptUpTo, UpTo
<1>7. ASSUME NEW at, InRanges(kept, at) PROVE InRanges(cluster, at)
  <2>1. PICK r \in 1 .. N : at \in c[r][1] .. c[r][2] - 1
    BY <1>6, <1>7
  <2>2. at \in cluster[r][1] .. cluster[r][2] - 1
    BY <1>1, <1>2, <2>1
  <2>. QED BY <2>2 DEF InRanges
<1>8. ASSUME NEW at, InRanges(cluster, at), ~InRanges(kept, at)
      PROVE  Available(mem, scan, at)
  <2>1. PICK r \in 1 .. N : at \in cluster[r][1] .. cluster[r][2] - 1
    BY <1>8 DEF InRanges
  <2>2. at \notin c[r][1] .. c[r][2] - 1
    BY <1>6, <1>8
  <2>3. at \in cluster[r][1] .. c[r][1] - 1
    BY <1>1, <1>2, <2>1, <2>2
  <2>. QED BY <1>1, <2>3
<1>9. ASSUME NEW r \in 1 .. N, cluster[r][1] < c[r][1], InRanges(kept, cluster[r][1])
      PROVE  FALSE
  <2>. DEFINE a == cluster[r][1]
  <2>1. PICK q \in 1 .. N : a \in c[q][1] .. c[q][2] - 1
    BY <1>6, <1>9
  <2>2. a \in Nat /\ c[q][1] \in Nat /\ c[q][2] \in Nat /\ c[r][1] \in Nat
        /\ cluster[q][1] \in Nat /\ cluster[r][2] \in Nat
    BY <1>2
  <2>3. q # r
    BY <1>9, <2>1, <2>2
  <2>4. CASE q > r
    <3>1. q \in r + 1 .. N
      BY <1>1, <2>4
    <3>2. cluster[r][2] <= cluster[q][1] /\ cluster[q][1] <= c[q][1] /\ c[r][1] <= cluster[r][2]
      BY <1>1, <1>3, <3>1
    <3>. DEFINE x == cluster[r][2]
                y == cluster[q][1]
                z == c[q][1]
                w == c[r][1]
    <3>3. x <= y /\ y <= z /\ w <= x /\ a < w /\ z <= a
          /\ x \in Nat /\ y \in Nat /\ z \in Nat /\ w \in Nat /\ a \in Nat
      BY <1>9, <2>1, <2>2, <3>2
    <3>. HIDE DEF a, x, y, z, w
    <3>. QED BY <3>3
  <2>5. CASE q < r
    <3>1. r \in q + 1 .. N
      BY <1>1, <2>5
    <3>2. cluster[q][2] <= a /\ c[q][2] = cluster[q][2]
      BY <1>1, <1>3, <3>1
    <3>. DEFINE x == c[q][2]
    <3>3. x <= a /\ a <= x - 1 /\ x \in Nat /\ a \in Nat
      BY <2>1, <2>2, <3>2
    <3>. HIDE DEF a, x
    <3>. QED BY <3>3
  <2>. QED BY <1>1, <2>3, <2>4, <2>5
<1>. QED BY <1>5, <1>7, <1>8, <1>9 DEF KeptUpTo, kept, c

-----------------------------------------------------------------------------
(* A packet of the group is decrypted as a whole: each of its blocks and   *)
(* its residue are written once, whatever its place in the order is.       *)
THEOREM DecryptedWhole ==
  ASSUME NEW mem, NEW cluster, InMemory(mem, cluster), Ascending(cluster),
         \A at \in DOMAIN mem : mem[at].n \in -1 .. Blocks,
         NEW at \in Grouped(Scan(mem, cluster))
  PROVE  /\ at \in DOMAIN mem /\ mem[at].n \in 1 .. Blocks
         /\ DecryptPackets(mem, cluster).mem[at]
              = Written(mem[at], mem[at].n, ResidueOf(mem[at].n), Scan(mem, cluster).parity)
<1>. DEFINE scan   == Scan(mem, cluster)
            result == DecryptPackets(mem, cluster)
            n      == [x \in DOMAIN mem |-> mem[x].n]
            order  == Ordered(n, scan.group)
            alive  == Alive(n, order)
            place(x) == CHOOSE g \in DOMAIN order : order[g] = x
            marked(x) == IF x \in scan.marked THEN Marked(mem[x]) ELSE mem[x]
            new(x) == IF Contains(scan.group, x)
                        THEN [marked(x) EXCEPT
                                !.blocks = @ + BlocksWritten(alive, place(x)),
                                !.residueAt = @ + ResidueAt(alive, place(x)),
                                !.with = scan.parity]
                        ELSE marked(x)
<1>1. result = [mem |-> [x \in DOMAIN mem |-> new(x)],
                cluster |-> Compacted(scan.cluster),
                group |-> ToSet(scan.group), advanced |-> scan.advanced]
  BY Zenon DEF DecryptPackets, Marked
<1>2. scan \in Scanned /\ TakenOK(mem, cluster, scan)
  BY ScanTakes
<1>3. Distinct(scan.group)
  BY ScanReturns DEF ScanOK, InOrder
<1>. HIDE DEF scan, alive, place, marked, result, n, order
<1>4. scan.group \in Seq(Nat)
  BY <1>2 DEF Scanned
<1>5. \A x \in Grouped(scan) : /\ x \in DOMAIN mem /\ n[x] = mem[x].n
                               /\ n[x] \in 1 .. Blocks /\ x \in scan.marked
  <2>. SUFFICES ASSUME NEW x \in Grouped(scan)
                PROVE  /\ x \in DOMAIN mem /\ n[x] = mem[x].n
                       /\ n[x] \in 1 .. Blocks /\ x \in scan.marked
    OBVIOUS
  <2>1. x \in scan.marked /\ mem[x].n > 0
    BY <1>2 DEF TakenOK
  <2>2. x \in DOMAIN mem
    BY <1>2, <2>1 DEF TakenOK, InRanges, InMemory
  <2>3. n[x] = mem[x].n
    BY <2>2 DEF n
  <2>4. mem[x].n \in 1 .. Blocks
    BY <2>1, <2>2, FFdecsaAssumption
  <2>. QED BY <2>1, <2>2, <2>3, <2>4
<1>6. HaveLengths(n, scan.group)
  <2>. SUFFICES ASSUME NEW i \in 1 .. Len(scan.group) PROVE n[scan.group[i]] \in 1 .. Blocks
    BY DEF HaveLengths
  <2>1. scan.group[i] \in Grouped(scan)
    BY DEF Grouped
  <2>. QED BY <1>5, <2>1
<1>7. order \in Rearranged(scan.group) /\ SortedUpTo(n, scan.group, order, Len(scan.group))
  BY <1>3, <1>4, <1>6, OrderedSorts DEF order
<1>8. at \in Grouped(scan)
  BY DEF scan
<1>9. PICK i \in 1 .. Len(scan.group) : scan.group[i] = at
  BY <1>8 DEF Grouped
<1>10. DOMAIN order = 1 .. Len(scan.group)
  BY <1>4, <1>7, RearrangedType
<1>11. place(at) \in 1 .. Len(scan.group) /\ order[place(at)] = at
  <2>1. \E g \in DOMAIN order : order[g] = at
    BY <1>7, <1>9, <1>10 DEF Rearranged
  <2>. QED BY <1>10, <2>1 DEF place
<1>. DEFINE b == BlocksWritten(alive, place(at))
            r == ResidueAt(alive, place(at))
            m == marked(at)
            len == mem[at].n
<1>12. b = len /\ r = ResidueOf(len)
  <2>. DEFINE g == place(at)
  <2>1. g \in 1 .. Len(scan.group) /\ n[order[g]] = len
    BY <1>5, <1>8, <1>11
  <2>. HIDE DEF g, len
  <2>2. BlocksWritten(Alive(n, order), g) = len /\ ResidueAt(Alive(n, order), g) = ResidueOf(len)
    BY <1>4, <1>6, <1>7, <2>1, EachBlockWritten
  <2>. QED BY <2>2 DEF alive, g
<1>13. Contains(scan.group, at)
  BY <1>9 DEF Contains
<1>14. m = Marked(mem[at])
  BY <1>5, <1>8 DEF marked
<1>15. new(at) = [m EXCEPT !.blocks = @ + b, !.residueAt = @ + r, !.with = scan.parity]
  BY <1>13, Zenon
<1>16. result.mem[at] = new(at)
  <2>1. DOMAIN result.mem = DOMAIN mem /\ \A x \in DOMAIN mem : result.mem[x] = new(x)
    <3>. HIDE DEF new
    <3>. QED BY <1>1
  <2>. HIDE DEF new
  <2>. QED BY <1>5, <1>8, <2>1
<1>. HIDE DEF b, r, m, len, new
<1>17. result.mem[at] = [m EXCEPT !.blocks = @ + len, !.residueAt = @ + ResidueOf(len),
                                  !.with = scan.parity]
  BY <1>12, <1>15, <1>16, Zenon
<1>18. result.mem[at] = Written(mem[at], len, ResidueOf(len), scan.parity)
  BY <1>14, <1>17, Zenon DEF Written
<1>. QED BY <1>5, <1>8, <1>18 DEF scan, result, len

(* What happened to a packet since it was as given: nothing, or it was     *)
(* decrypted once, with the key of its parity.                             *)
DoneOrNot(was, is) ==
  \/ is = was
  \/ was.sc \in Parities /\ was.n <= 0 /\ is = Marked(was)
  \/ was.sc \in Parities /\ was.n > 0
       /\ is = Written(was, was.n, ResidueOf(was.n), was.sc)

(* The packets that were worked on.                                        *)
LEMMA WorkedOn ==
  ASSUME NEW p \in Packet, NEW b \in Nat, NEW r \in Nat, NEW w \in Parities
  PROVE  /\ p.n \in -1 .. Blocks /\ p.blocks \in Nat /\ p.residueAt \in Nat
         /\ Marked(p) \in Packet /\ Marked(p).sc = "clear" /\ Marked(p).n = p.n
         /\ Written(p, b, r, w) \in Packet
         /\ Written(p, b, r, w).sc = "clear" /\ Written(p, b, r, w).n = p.n
         /\ Written(p, b, r, w).with = w /\ Written(p, b, r, w).blocks = p.blocks + b
         /\ Written(p, b, r, w).residueAt = p.residueAt + r
<1>. DEFINE m == Marked(p)
<1>1. /\ m \in Packet /\ m.sc = "clear" /\ m.n = p.n /\ m.blocks = p.blocks
      /\ m.residueAt = p.residueAt
  BY DEF Marked, Packet
<1>. DEFINE u == [m EXCEPT !.blocks = @ + b]
            v == [u EXCEPT !.residueAt = @ + r]
            x == [v EXCEPT !.with = w]
<1>2. Written(p, b, r, w) = x
  BY DEF Written
<1>3. p.n \in -1 .. Blocks /\ p.blocks \in Nat /\ p.residueAt \in Nat
  BY DEF Packet
<1>. HIDE DEF m
<1>4. u \in Packet /\ u.sc = "clear" /\ u.n = p.n /\ u.blocks = p.blocks + b
      /\ u.residueAt = p.residueAt
  BY <1>1, <1>3 DEF Packet
<1>. HIDE DEF u
<1>5. /\ v \in Packet /\ v.sc = "clear" /\ v.n = p.n /\ v.blocks = p.blocks + b
      /\ v.residueAt = p.residueAt + r
  BY <1>3, <1>4 DEF Packet
<1>. HIDE DEF v
<1>6. /\ x \in Packet /\ x.sc = "clear" /\ x.n = p.n /\ x.with = w
      /\ x.blocks = p.blocks + b /\ x.residueAt = p.residueAt + r
  BY <1>5 DEF Packet
<1>. HIDE DEF x
<1>. QED BY <1>1, <1>2, <1>3, <1>6 DEF m

(* What is written in it is added to what was.                             *)
LEMMA WorkedFields ==
  \A p \in Packet : \A b \in Nat, r \in Nat : \A w \in Parities :
    /\ Written(p, b, r, w).with = w
    /\ Written(p, b, r, w).blocks = p.blocks + b
    /\ Written(p, b, r, w).residueAt = p.residueAt + r
<1>. SUFFICES ASSUME NEW p \in Packet, NEW b \in Nat, NEW r \in Nat, NEW w \in Parities
              PROVE  /\ Written(p, b, r, w).with = w
                     /\ Written(p, b, r, w).blocks = p.blocks + b
                     /\ Written(p, b, r, w).residueAt = p.residueAt + r
  OBVIOUS
<1>. DEFINE m == Marked(p)
            u == [m EXCEPT !.blocks = @ + b]
            v == [u EXCEPT !.residueAt = @ + r]
            x == [v EXCEPT !.with = w]
<1>1. m \in Packet /\ m.blocks = p.blocks /\ m.residueAt = p.residueAt
  BY DEF Marked, Packet
<1>2. Written(p, b, r, w) = x
  BY DEF Written
<1>3. p.blocks \in Nat /\ p.residueAt \in Nat
  BY DEF Packet
<1>. HIDE DEF m
<1>4. u \in Packet /\ u.blocks = p.blocks + b /\ u.residueAt = p.residueAt
  BY <1>1, <1>3 DEF Packet
<1>. HIDE DEF u
<1>5. v \in Packet /\ v.blocks = p.blocks + b /\ v.residueAt = p.residueAt + r
  BY <1>3, <1>4 DEF Packet
<1>. HIDE DEF v
<1>6. x.with = w /\ x.blocks = p.blocks + b /\ x.residueAt = p.residueAt + r
  BY <1>5 DEF Packet
<1>. HIDE DEF x
<1>. QED BY <1>2, <1>6

(* What decrypt_packets leaves of a packet, by its fields.                 *)
LEMMA DoneFields ==
  ASSUME NEW was \in Packet, NEW is, DoneOrNot(was, is)
  PROVE  /\ is \in Packet /\ is.n = was.n
         /\ is.sc \in Parities => is = was
         /\ is.sc # was.sc /\ is.n > 0 =>
              is = Written(was, was.n, ResidueOf(was.n), was.sc)
         /\ ~(is.sc # was.sc /\ is.n > 0) => is = [was EXCEPT !.sc = is.sc]
<1>1. was.n \in -1 .. Blocks /\ "clear" \notin Parities /\ "even" \in Parities
  BY DEF Packet, Parities
<1>2. CASE is = was
  <2>1. was = [was EXCEPT !.sc = was.sc]
    BY DEF Packet
  <2>. QED BY <1>1, <1>2, <2>1
<1>3. CASE was.sc \in Parities /\ was.n <= 0 /\ is = Marked(was)
  <2>1. is \in Packet /\ is.sc = "clear" /\ is.n = was.n
    BY <1>1, <1>3, WorkedOn
  <2>2. ~(is.n > 0)
    BY <1>1, <1>3, <2>1
  <2>3. is = [was EXCEPT !.sc = is.sc]
    BY <1>3, <2>1 DEF Marked
  <2>. QED BY <1>1, <2>1, <2>2, <2>3
<1>4. CASE /\ was.sc \in Parities /\ was.n > 0
           /\ is = Written(was, was.n, ResidueOf(was.n), was.sc)
  <2>. DEFINE b == was.n
              r == ResidueOf(b)
              w == was.sc
  <2>1. b \in Nat /\ r \in Nat /\ w \in Parities
    BY <1>1, <1>4, FFdecsaAssumption DEF ResidueOf
  <2>2. is = Written(was, b, r, w)
    BY <1>4
  <2>. HIDE DEF b, r, w
  <2>3. is \in Packet /\ is.sc = "clear" /\ is.n = was.n
    BY <2>1, <2>2, WorkedOn
  <2>4. is.sc # was.sc /\ is.n > 0 /\ is.sc \notin Parities
    BY <1>1, <1>4, <2>3
  <2>. QED BY <1>4, <2>3, <2>4
<1>. QED BY <1>2, <1>3, <1>4, Zenon DEF DoneOrNot

LEMMA DoneTwice ==
  ASSUME NEW was \in Packet, NEW is, NEW next, DoneOrNot(was, is), DoneOrNot(is, next)
  PROVE  DoneOrNot(was, next)
<1>1. is.sc \in Parities => is = was
  BY DoneFields
<1>2. CASE is = was
  BY <1>2
<1>3. CASE is # was
  <2>1. is.sc \notin Parities
    BY <1>1, <1>3
  <2>2. next = is
    BY <2>1, Zenon DEF DoneOrNot
  <2>. QED BY <2>2
<1>. QED BY <1>2, <1>3

(* One call: each packet is left or decrypted once, and those that were    *)
(* taken are not scrambled afterwards.                                     *)
LEMMA CallDecrypts ==
  ASSUME NEW mem, NEW cluster, InMemory(mem, cluster), Ascending(cluster),
         \A at \in DOMAIN mem : mem[at] \in Packet
  PROVE  /\ DOMAIN DecryptPackets(mem, cluster).mem = DOMAIN mem
         /\ \A at \in DOMAIN mem : DoneOrNot(mem[at], DecryptPackets(mem, cluster).mem[at])
         /\ \A at \in DOMAIN mem : Available(mem, Scan(mem, cluster), at) =>
              DecryptPackets(mem, cluster).mem[at].sc \notin Parities
<1>. DEFINE scan == Scan(mem, cluster)
            result == DecryptPackets(mem, cluster)
<1>1. DecryptedFrom(mem, scan, result)
  BY Decrypted
<1>2. TakenOK(mem, cluster, scan)
  BY ScanTakes
<1>0. \A at \in DOMAIN mem : mem[at].n \in -1 .. Blocks
  BY DEF Packet
<1>3. \A x \in Grouped(scan) :
        /\ x \in DOMAIN mem /\ mem[x].n \in 1 .. Blocks
        /\ result.mem[x] = Written(mem[x], mem[x].n, ResidueOf(mem[x].n), scan.parity)
  <2>. HIDE DEF scan, result
  <2>. SUFFICES ASSUME NEW x \in Grouped(Scan(mem, cluster))
                PROVE  /\ x \in DOMAIN mem /\ mem[x].n \in 1 .. Blocks
                       /\ DecryptPackets(mem, cluster).mem[x]
                            = Written(mem[x], mem[x].n, ResidueOf(mem[x].n),
                                      Scan(mem, cluster).parity)
    BY DEF scan, result
  <2>. QED BY <1>0, DecryptedWhole
<1>. HIDE DEF scan, result
<1>4. DOMAIN result.mem = DOMAIN mem
  BY <1>1 DEF DecryptedFrom
<1>5. "clear" \notin Parities
  BY DEF Parities
<1>6. ASSUME NEW at \in DOMAIN mem
      PROVE  /\ DoneOrNot(mem[at], result.mem[at])
             /\ Available(mem, scan, at) => result.mem[at].sc \notin Parities
  <2>. DEFINE p == mem[at]
              q == result.mem[at]
  <2>0. p \in Packet /\ p.n \in -1 .. Blocks
    BY <1>0
  <2>1. CASE at \notin scan.marked
    <3>1. q = p
      BY <1>1, <2>1 DEF DecryptedFrom
    <3>. QED BY <2>1, <3>1 DEF DoneOrNot, Available
  <2>2. CASE at \in scan.marked \ Grouped(scan)
    <3>1. q = Marked(p)
      BY <1>1, <2>2 DEF DecryptedFrom
    <3>2. p.sc \in Parities /\ p.n <= 0
      BY <1>2, <2>0, <2>2 DEF TakenOK
    <3>. HIDE DEF p, q
    <3>3. q.sc = "clear"
      BY <2>0, <3>1, <3>2, WorkedOn
    <3>4. DoneOrNot(p, q)
      BY <3>1, <3>2 DEF DoneOrNot
    <3>. QED BY <1>5, <3>3, <3>4 DEF p, q
  <2>3. CASE at \in Grouped(scan)
    <3>. DEFINE b == p.n
                r == ResidueOf(b)
                w == p.sc
    <3>1. p.n \in 1 .. Blocks /\ q = Written(p, p.n, ResidueOf(p.n), scan.parity)
      BY <1>3, <2>3
    <3>2. p.sc \in Parities /\ p.sc = scan.parity
      BY <1>2, <2>3 DEF TakenOK
    <3>3. b \in Nat /\ r \in Nat /\ w \in Parities /\ b > 0
      BY <3>1, <3>2, FFdecsaAssumption DEF ResidueOf
    <3>4. q = Written(p, b, r, w)
      BY <3>1, <3>2
    <3>. HIDE DEF p, q
    <3>5. DoneOrNot(p, q)
      BY <3>3, <3>4 DEF DoneOrNot
    <3>. HIDE DEF b, r, w
    <3>6. q.sc = "clear"
      BY <2>0, <3>3, <3>4, WorkedOn
    <3>. QED BY <1>5, <3>5, <3>6 DEF p, q
  <2>. QED BY <2>1, <2>2, <2>3
<1>. QED BY <1>4, <1>6 DEF scan, result

-----------------------------------------------------------------------------
(***************************************************************************)
(* The calls one after the other: the ranges that are still to be given    *)
(* lie behind each other, in memory, none is empty, and each packet was    *)
(* left as given or decrypted once.                                        *)
(***************************************************************************)
RangesPending ==
  /\ pending \in Seq(Range2) /\ Ascending(pending)
  /\ \A r \in 1 .. Len(pending) : NotEmpty(pending[r])
  /\ \A at : InRanges(pending, at) => at \in DOMAIN memory
MemoryDone ==
  /\ \E k \in Nat : DOMAIN memory = 1 .. k
  /\ DOMAIN given = DOMAIN memory
  /\ \A at \in DOMAIN memory :
       /\ given[at] \in Packet /\ given[at].blocks = 0 /\ given[at].residueAt = 0
       /\ DoneOrNot(given[at], memory[at])
CallerInv == RangesPending /\ MemoryDone

(* The clusters that are given first.                                      *)
LEMMA ClustersBehind ==
  ASSUME NEW k \in Nat \ {0}, NEW c \in Clusters(k)
  PROVE  /\ c \in Seq(Range2) /\ Ascending(c)
         /\ \A r \in 1 .. Len(c) : NotEmpty(c[r])
         /\ \A r \in 1 .. Len(c) : 1 <= c[r][1] /\ c[r][2] <= k + 1
<1>1. CASE c = Whole(k)
  <2>1. /\ c \in Seq(Range2) /\ Len(c) = 1 /\ c[1][1] = 1 /\ c[1][2] = k + 1
    BY <1>1 DEF Whole, Range2
  <2>2. \A r \in 1 .. Len(c) : r = 1
    BY <2>1
  <2>3. \A r \in 1 .. Len(c) : \A q \in r + 1 .. Len(c) : FALSE
    BY <2>1
  <2>. QED BY <2>1, <2>2, <2>3 DEF Ascending, NotEmpty
<1>2. CASE c = Singles(k)
  <2>1. \A i \in 1 .. k : <<i, i + 1>> \in Range2
    BY DEF Range2
  <2>2. c \in [1 .. k -> Range2] /\ \A r \in 1 .. k : c[r] = <<r, r + 1>>
    BY <1>2, <2>1 DEF Singles
  <2>3. c \in Seq(Range2) /\ Len(c) = k
    BY <2>2, FunctionIsSeq
  <2>4. \A r \in 1 .. k : c[r][1] = r /\ c[r][2] = r + 1
    BY <2>2
  <2>5. \A r \in 1 .. k : \A q \in r + 1 .. k : q \in 1 .. k /\ r + 1 <= q
    OBVIOUS
  <2>. QED BY <2>3, <2>4, <2>5 DEF Ascending, NotEmpty
<1>3. CASE \E l \in 2 .. k : c = << <<1, 2>>, <<l, k + 1>> >>
  <2>1. PICK l \in 2 .. k : c = << <<1, 2>>, <<l, k + 1>> >>
    BY <1>3
  <2>2. /\ c \in Seq(Range2) /\ Len(c) = 2
        /\ c[1] = <<1, 2>> /\ c[2] = <<l, k + 1>>
    BY <2>1 DEF Range2
  <2>3. c[1][1] = 1 /\ c[1][2] = 2 /\ c[2][1] = l /\ c[2][2] = k + 1
    BY <2>2
  <2>4. \A r \in 1 .. Len(c) : r = 1 \/ r = 2
    BY <2>2
  <2>5. \A r \in 1 .. Len(c) : \A q \in r + 1 .. Len(c) : r = 1 /\ q = 2
    BY <2>2
  <2>. HIDE DEF Ascending
  <2>6. Ascending(c)
    BY <2>3, <2>4, <2>5 DEF Ascending
  <2>7. \A r \in 1 .. Len(c) : NotEmpty(c[r]) /\ 1 <= c[r][1] /\ c[r][2] <= k + 1
    BY <2>3, <2>4 DEF NotEmpty
  <2>. QED BY <2>2, <2>6, <2>7
<1>. QED BY <1>1, <1>2, <1>3 DEF Clusters

(* The packets of the positions are those of the ranges.                   *)
LEMMA CoveredRanges ==
  ASSUME NEW c \in Seq(Range2), Ascending(c)
  PROVE  Covered(c) = PacketsOf(c) /\ Covered(c) = {at \in Nat : InRanges(c, at)}
<1>1. DOMAIN Positions(c) = 1 .. Len(Positions(c))
  BY PositionsType
<1>2. Covered(c) = PacketsOf(c)
  BY <1>1 DEF Covered, PacketsOf, ToSet
<1>. QED BY <1>2, PacketsInRanges

LEMMA CallerInitInv == CallerInit => CallerInv
<1>. SUFFICES ASSUME CallerInit PROVE CallerInv
  OBVIOUS
<1>1. PICK k \in 1 .. MaxPackets : memory \in [1 .. k -> Kinds] /\ pending \in Clusters(k)
  BY DEF CallerInit
<1>2. given = memory /\ k \in Nat \ {0} /\ DOMAIN memory = 1 .. k
  BY <1>1, ClusterCallsAssumption DEF CallerInit
<1>3. \A p \in Kinds : p \in Packet /\ p.blocks = 0 /\ p.residueAt = 0
  BY ClusterCallsAssumption
<1>4. MemoryDone
  BY <1>1, <1>2, <1>3 DEF MemoryDone, DoneOrNot
<1>5. /\ pending \in Seq(Range2) /\ Ascending(pending)
      /\ \A r \in 1 .. Len(pending) : NotEmpty(pending[r])
      /\ \A r \in 1 .. Len(pending) : 1 <= pending[r][1] /\ pending[r][2] <= k + 1
  BY <1>1, <1>2, ClustersBehind
<1>6. ASSUME NEW at, InRanges(pending, at) PROVE at \in DOMAIN memory
  <2>1. PICK r \in 1 .. Len(pending) : at \in pending[r][1] .. pending[r][2] - 1
    BY <1>6 DEF InRanges
  <2>2. 1 <= pending[r][1] /\ pending[r][2] <= k + 1
    BY <1>5
  <2>3. pending[r][1] \in Nat /\ pending[r][2] \in Nat
    BY <1>5, OfRangeType
  <2>4. at \in 1 .. k
    BY <1>2, <2>1, <2>2, <2>3
  <2>. QED BY <1>2, <2>4
<1>. QED BY <1>4, <1>5, <1>6 DEF CallerInv, RangesPending

(* What a call is given.                                                   *)
LEMMA CallerGives ==
  ASSUME CallerInv
  PROVE  /\ InMemory(memory, pending) /\ Ascending(pending) /\ pending \in Seq(Range2)
         /\ \A at \in DOMAIN memory : memory[at] \in Packet
<1>1. \A at \in DOMAIN memory : memory[at] \in Packet
  BY DoneFields DEF CallerInv, MemoryDone
<1>2. \A at \in DOMAIN memory : memory[at].n \in Int
  BY <1>1, FFdecsaAssumption DEF Packet
<1>3. \A r \in 1 .. Len(pending) : \A at \in pending[r][1] .. pending[r][2] - 1 :
        at \in DOMAIN memory
  BY DEF CallerInv, RangesPending, InRanges
<1>. QED BY <1>1, <1>2, <1>3 DEF CallerInv, RangesPending, InMemory

(* One call, seen from its caller.                                         *)
LEMMA CallReturns ==
  ASSUME CallerInv, Calls
  PROVE  /\ memory' = DecryptPackets(memory, pending).mem
         /\ pending' = Compacted(Scan(memory, pending).cluster)
         /\ returned' = Scan(memory, pending).advanced
         /\ pending # <<>> /\ given' = given
         /\ Scan(memory, pending) \in Scanned
         /\ ScanOK(memory, pending, Positions(pending), Len(Positions(pending)),
                   Scan(memory, pending))
<1>1. /\ memory' = DecryptPackets(memory, pending).mem
      /\ pending' = DecryptPackets(memory, pending).cluster
      /\ returned' = DecryptPackets(memory, pending).advanced
      /\ pending # <<>> /\ given' = given
  BY DEF Calls
<1>2. /\ DecryptPackets(memory, pending).cluster = Compacted(Scan(memory, pending).cluster)
      /\ DecryptPackets(memory, pending).advanced = Scan(memory, pending).advanced
  BY DEF DecryptPackets
<1>3. /\ Scan(memory, pending) \in Scanned
      /\ ScanOK(memory, pending, Positions(pending), Len(Positions(pending)),
                Scan(memory, pending))
  BY CallerGives, ScanReturns
<1>. QED BY <1>1, <1>2, <1>3

LEMMA CallerInvStep == CallerInv /\ [Calls]_callerVars => CallerInv'
<1>. SUFFICES ASSUME CallerInv, [Calls]_callerVars PROVE CallerInv'
  OBVIOUS
<1>1. CASE UNCHANGED callerVars
  <2>1. memory' = memory /\ pending' = pending /\ given' = given
    BY <1>1 DEF callerVars
  <2>. QED BY <2>1 DEF CallerInv, RangesPending, MemoryDone
<1>2. CASE Calls
  <2>. DEFINE next == DecryptPackets(memory, pending).mem
  <2>1. /\ memory' = next /\ pending' = Compacted(Scan(memory, pending).cluster)
        /\ given' = given /\ Scan(memory, pending) \in Scanned
        /\ Moved(memory, pending, Scan(memory, pending))
    BY <1>2, CallReturns DEF ScanOK
  <2>2. /\ InMemory(memory, pending) /\ Ascending(pending) /\ pending \in Seq(Range2)
        /\ \A at \in DOMAIN memory : memory[at] \in Packet
    BY CallerGives
  <2>3. /\ DOMAIN next = DOMAIN memory
        /\ \A at \in DOMAIN memory : DoneOrNot(memory[at], next[at])
    BY <2>2, CallDecrypts
  <2>. HIDE DEF next
  <2>4. \A at \in DOMAIN memory : DoneOrNot(given[at], next[at])
    BY <2>3, DoneTwice DEF CallerInv, MemoryDone
  <2>5. MemoryDone'
    BY <2>1, <2>3, <2>4 DEF CallerInv, MemoryDone
  <2>6. /\ pending' \in Seq(Range2) /\ Ascending(pending')
        /\ \A r \in 1 .. Len(pending') : NotEmpty(pending'[r])
        /\ \A at : InRanges(pending', at) => InRanges(pending, at)
    BY <2>1, <2>2, RangesReturned
  <2>7. RangesPending'
    BY <2>1, <2>3, <2>6 DEF CallerInv, RangesPending
  <2>. QED BY <2>5, <2>7 DEF CallerInv
<1>. QED BY <1>1, <1>2

THEOREM CallerInvHolds == CallerSpec => []CallerInv
<1>. QED BY CallerInitInv, CallerInvStep, PTL DEF CallerSpec

(* A packet that was decrypted.                                            *)
LEMMA DoneOnce ==
  ASSUME NEW was \in Packet, was.blocks = 0, was.residueAt = 0,
         NEW is, DoneOrNot(was, is), is.sc # was.sc, is.n > 0
  PROVE  /\ is.with = was.sc /\ is.blocks = is.n
         /\ is.residueAt = (IF is.n = Blocks THEN 0 ELSE is.n)
<1>. DEFINE b == was.n
            r == ResidueOf(b)
            w == was.sc
<1>1. is.n = was.n /\ is = Written(was, b, r, w)
  BY DoneFields
<1>2. was.sc \in Parities
  BY DEF DoneOrNot
<1>3. was.n \in -1 .. Blocks
  BY DEF Packet
<1>4. b \in Nat /\ r \in Nat /\ w \in Parities
  BY <1>1, <1>2, <1>3, FFdecsaAssumption DEF ResidueOf
<1>. HIDE DEF b, r, w
<1>5. is.with = w /\ is.blocks = was.blocks + b /\ is.residueAt = was.residueAt + r
  <2>1. /\ Written(was, b, r, w).with = w
        /\ Written(was, b, r, w).blocks = was.blocks + b
        /\ Written(was, b, r, w).residueAt = was.residueAt + r
    BY <1>4, WorkedFields
  <2>. QED BY <1>1, <2>1
<1>6. is.with = w /\ is.blocks = b /\ is.residueAt = r
  BY <1>4, <1>5
<1>. QED BY <1>1, <1>6 DEF b, r, w, ResidueOf

(* In every reachable state a packet that is not scrambled any more was    *)
(* decrypted as a whole, once, with the key of its own parity, and any     *)
(* other packet is as it was given.                                        *)
THEOREM EachBlockOnceHolds == CallerSpec => []EachBlockOnce
<1>1. CallerInv => EachBlockOnce
  <2>. SUFFICES ASSUME CallerInv, NEW at \in DOMAIN memory
                PROVE  LET was == given[at]  is == memory[at]
                       IN  IF is.sc # was.sc /\ is.n > 0
                             THEN /\ is.with = was.sc /\ is.blocks = is.n
                                  /\ is.residueAt = (IF is.n = Blocks THEN 0 ELSE is.n)
                             ELSE is = [was EXCEPT !.sc = is.sc]
    BY DEF EachBlockOnce
  <2>. DEFINE was == given[at]
              is == memory[at]
  <2>1. was \in Packet /\ was.blocks = 0 /\ was.residueAt = 0 /\ DoneOrNot(was, is)
    BY DEF CallerInv, MemoryDone
  <2>. HIDE DEF was, is
  <2>2. CASE is.sc # was.sc /\ is.n > 0
    BY <2>1, <2>2, DoneOnce DEF was, is
  <2>3. CASE ~(is.sc # was.sc /\ is.n > 0)
    <3>1. is = [was EXCEPT !.sc = is.sc]
      BY <2>1, <2>3, DoneFields
    <3>. QED BY <2>3, <3>1 DEF was, is
  <2>. QED BY <2>2, <2>3
<1>. QED BY <1>1, CallerInvHolds, PTL

(* A call counts packets at the start of the cluster that are not          *)
(* scrambled when it returns, and drops none that still is.                *)
THEOREM ReturnsAvailableHolds == CallerSpec => ReturnsAvailable
<1>. DEFINE Step == /\ \A i \in 1 .. returned' :
                         memory'[Positions(pending)[i].at].sc \notin Parities
                    /\ \A at \in Covered(pending) \ Covered(pending') :
                         memory'[at].sc \notin Parities
<1>1. CallerInv /\ [Calls]_callerVars => [Step]_callerVars
  <2>. SUFFICES ASSUME CallerInv, Calls PROVE Step
    OBVIOUS
  <2>. DEFINE scan == Scan(memory, pending)
  <2>1. /\ memory' = DecryptPackets(memory, pending).mem
        /\ pending' = Compacted(scan.cluster) /\ returned' = scan.advanced
        /\ Moved(memory, pending, scan) /\ scan \in Scanned
        /\ Counted(memory, Positions(pending), Len(Positions(pending)), scan)
    BY CallReturns DEF ScanOK
  <2>2. /\ InMemory(memory, pending) /\ Ascending(pending) /\ pending \in Seq(Range2)
        /\ \A at \in DOMAIN memory : memory[at] \in Packet
    BY CallerGives
  <2>3. \A at \in DOMAIN memory : Available(memory, scan, at) => memory'[at].sc \notin Parities
    BY <2>1, <2>2, CallDecrypts
  <2>. HIDE DEF scan
  <2>4. \A at \in Covered(pending) : at \in DOMAIN memory /\ InRanges(pending, at)
    BY CoveredRanges DEF CallerInv, RangesPending
  <2>5. ASSUME NEW i \in 1 .. returned'
        PROVE  memory'[Positions(pending)[i].at].sc \notin Parities
    <3>1. i \in 1 .. Len(Positions(pending)) /\ Available(memory, scan, Positions(pending)[i].at)
      <4>1. Len(Positions(pending)) \in Nat
        BY <2>2, PositionsType
      <4>. QED BY <2>1, <4>1 DEF Counted
    <3>2. Positions(pending)[i].at \in PacketsOf(pending)
      BY <3>1 DEF PacketsOf
    <3>3. Positions(pending)[i].at \in DOMAIN memory
      BY <2>4, <3>2, CoveredRanges DEF CallerInv, RangesPending
    <3>. QED BY <2>3, <3>1, <3>3
  <2>6. ASSUME NEW at \in Covered(pending) \ Covered(pending')
        PROVE  memory'[at].sc \notin Parities
    <3>1. ~InRanges(Compacted(scan.cluster), at)
      <4>1. /\ Compacted(scan.cluster) \in Seq(Range2) /\ Ascending(Compacted(scan.cluster))
        BY <2>1, <2>2, RangesReturned
      <4>2. at \in Nat /\ at \notin Covered(Compacted(scan.cluster))
        BY <2>1, <2>2, <2>6, CoveredRanges
      <4>. QED BY <4>1, <4>2, CoveredRanges
    <3>2. Available(memory, scan, at)
      BY <2>1, <2>2, <2>4, <3>1, RangesReturned
    <3>. QED BY <2>3, <2>4, <3>2
  <2>. QED BY <2>5, <2>6
<1>2. CallerSpec => [][Step]_callerVars
  BY <1>1, CallerInvHolds, PTL DEF CallerSpec
<1>. QED BY <1>2 DEF ReturnsAvailable

(* A call decrypts the first packet, and leaves fewer packets to be given: *)
(* a caller that repeats the call with what it returned comes to an end.   *)
THEOREM FirstServedHolds == CallerSpec => FirstServed
<1>. DEFINE Step == pending # <<>> =>
                      /\ memory'[pending[1][1]].sc \notin Parities
                      /\ Cardinality(Covered(pending')) < Cardinality(Covered(pending))
<1>1. CallerInv /\ [Calls]_callerVars => [Step]_callerVars
  <2>. SUFFICES ASSUME CallerInv, Calls, pending # <<>>
                PROVE  /\ memory'[pending[1][1]].sc \notin Parities
                       /\ Cardinality(Covered(pending')) < Cardinality(Covered(pending))
    OBVIOUS
  <2>. DEFINE scan == Scan(memory, pending)
              pos == Positions(pending)
              left == Compacted(scan.cluster)
              first == pending[1][1]
              f == pos[1].range
  <2>1. /\ memory' = DecryptPackets(memory, pending).mem
        /\ pending' = left /\ scan \in Scanned
        /\ ScanOK(memory, pending, pos, Len(pos), scan)
    BY CallReturns
  <2>2. /\ InMemory(memory, pending) /\ Ascending(pending) /\ pending \in Seq(Range2)
        /\ \A at \in DOMAIN memory : memory[at] \in Packet
    BY CallerGives
  <2>3. \A at \in DOMAIN memory : Available(memory, scan, at) => memory'[at].sc \notin Parities
    BY <2>1, <2>2, CallDecrypts
  <2>4. 1 \in 1 .. Len(pending) /\ pending[1][1] < pending[1][2]
    BY <2>2 DEF CallerInv, RangesPending, NotEmpty
  <2>5. Len(pos) > 0 /\ pos[1].at = first /\ Len(pos) \in Nat
    BY <2>2, <2>4, PositionsType
  <2>6. Walk(pending, pos)
    BY <2>2, PositionsWalk
  <2>. HIDE DEF scan, pos, first, left, f
  <2>7. 1 \in 1 .. Len(pos) /\ Len(pos) # 0
    BY <2>5
  <2>8. /\ Moved(memory, pending, scan) /\ FirstPassed(pending, pos, scan)
        /\ Counted(memory, pos, Len(pos), scan)
    BY <2>1, <2>7 DEF ScanOK
  <2>9. f \in 1 .. Len(pending) /\ first = pending[f][1]
        /\ first \in pending[f][1] .. pending[f][2] - 1
    BY <2>5, <2>6, <2>7 DEF Walk, f
  <2>10. /\ left \in Seq(Range2) /\ Ascending(left)
         /\ \A at : InRanges(left, at) => InRanges(pending, at)
         /\ pending[f][1] < scan.cluster[f][1] => ~InRanges(left, pending[f][1])
    BY <2>1, <2>2, <2>8, <2>9, RangesReturned DEF left
  <2>11. InRanges(pending, first) /\ first \in Nat
    <3>1. pending[f][1] \in Nat
      BY <2>2, <2>9, OfRangeType
    <3>. QED BY <2>9, <3>1 DEF InRanges
  <2>12. ~InRanges(left, first)
    <3>1. pending[f][1] < scan.cluster[f][1]
      <4>1. scan.cluster[f][1] > pending[f][1]
        BY <2>8 DEF FirstPassed, f
      <4>. QED BY <4>1
    <3>. QED BY <2>9, <2>10, <3>1
  <2>13. memory'[first].sc \notin Parities
    <3>1. 1 \in 1 .. scan.advanced
      BY <2>5, <2>8 DEF FirstPassed, Counted
    <3>2. Available(memory, scan, first)
      BY <2>5, <2>8, <3>1 DEF Counted
    <3>3. first \in DOMAIN memory
      BY <2>11 DEF CallerInv, RangesPending
    <3>. QED BY <2>3, <3>2, <3>3
  <2>14. Cardinality(Covered(pending')) < Cardinality(Covered(pending))
    <3>. DEFINE A == Covered(pending)
                B == Covered(left)
    <3>1. A = {at \in Nat : InRanges(pending, at)} /\ B = {at \in Nat : InRanges(left, at)}
      BY <2>2, <2>10, CoveredRanges
    <3>2. PICK k \in Nat : DOMAIN memory = 1 .. k
      BY DEF CallerInv, MemoryDone
    <3>. HIDE DEF A, B
    <3>3. A \subseteq 1 .. k
      BY <3>1, <3>2 DEF CallerInv, RangesPending
    <3>4. IsFiniteSet(A)
      <4>1. IsFiniteSet(1 .. k)
        BY FS_Interval
      <4>. QED BY <3>3, <4>1, FS_Subset
    <3>5. B \subseteq A /\ first \in A /\ first \notin B
      BY <2>10, <2>11, <2>12, <3>1
    <3>6. /\ IsFiniteSet(B) /\ Cardinality(B) <= Cardinality(A)
          /\ (Cardinality(A) = Cardinality(B) => A = B)
      BY <3>4, <3>5, FS_Subset
    <3>7. Cardinality(A) \in Nat /\ Cardinality(B) \in Nat
      BY <3>4, <3>6, FS_CardinalityType
    <3>8. Cardinality(B) < Cardinality(A)
      BY <3>5, <3>6, <3>7
    <3>. QED BY <2>1, <3>8 DEF A, B
  <2>. QED BY <2>13, <2>14 DEF first
<1>2. CallerSpec => [][Step]_callerVars
  BY <1>1, CallerInvHolds, PTL DEF CallerSpec
<1>. QED BY <1>2 DEF FirstServed
-----------------------------------------------------------------------------
(* DecryptBatch.                                                           *)

BlockCiphers == {"des", "aes"}
AllCiphers   == {"csa"} \cup BlockCiphers
Scrambling   == {"clear", "reserved", "lost"} \cup Parities
Reasons      == {"none", "refused", "block cipher", "nothing", "aborted", "decrypted"}

TsPacket ==
  [pid : Pids, sc : Scrambling, was : Scrambling, offset : BOOLEAN, n : -1 .. Blocks,
   blocks : Nat, residueAt : Nat, with : {"none"} \cup Parities,
   ran : Seq(AllCiphers), key : Keys \cup {NoKey}]

Call ==
  [pc : {"idle", "scanning", "waiting", "decrypting", "returned"},
   l : Nat \ {0}, cur : Keys \cup {NoKey},
   ranges : Seq(Range2), newRange : BOOLEAN, ccs : Nat, why : Reasons,
   waited : BOOLEAN, excused : BOOLEAN]

\* What the variables hold, which TypeOK says of the packets in part only.
StreamType == pidMap \in [Pids -> Keys \cup {NoKey}]
CipherType == /\ algo \in [Keys -> setup.modes \cup {"csa"}]
              /\ aes \subseteq Keys /\ aesKey \subseteq Keys
              /\ \/ request = NoRequest
                 \/ request \in [kind : setup.kinds, key : Keys]
BufferType == buffer \in Seq(TsPacket) /\ Len(buffer) <= setup.max
CallType == call \in Call

\* A call looks at packets that are there; the ranges lie before them.
CallInBuffer ==
  /\ call.pc = "idle" => call = NoCall
  /\ call.pc # "idle" => buffer # <<>>
  /\ call.l <= Len(buffer) + 1
  /\ \A r \in 1 .. Len(call.ranges) :
       1 <= call.ranges[r][1] /\ call.ranges[r][1] < call.ranges[r][2]
       /\ call.ranges[r][2] <= call.l
  /\ ~call.newRange => call.ranges # <<>>
  /\ call.ranges # <<>> => call.cur # NoKey
  /\ call.pc = "waiting" => call.waited
  /\ call.pc = "scanning" /\ call.l = 1 => call.ranges = <<>> /\ call.cur = NoKey /\ call.ccs = 0

\* A cipher ran on the packets that are not scrambled any more, once.
Once(p) ==
  /\ p.sc \in Parities => p.sc = p.was /\ p.ran = <<>>
  /\ p.ran = <<>> /\ p.sc # p.was => p.n <= 0
  /\ p.ran # <<>> => /\ Len(p.ran) = 1 /\ p.with = p.was
                     /\ p.sc = "clear" /\ p.was \in Parities
OnceEach == \A at \in 1 .. Len(buffer) : Once(buffer[at])

\* A packet in the batch that is still scrambled is of the key of the call.
Mine(at) == buffer[at].sc \in Parities => pidMap[buffer[at].pid] = call.cur
BatchOfKey ==
  call.pc \in {"scanning", "decrypting"} /\ ~call.waited =>
    /\ \A r \in 1 .. Len(call.ranges) :
         \A at \in call.ranges[r][1] .. call.ranges[r][2] - 1 : Mine(at)
    /\ ~call.newRange =>
         \A at \in call.ranges[Len(call.ranges)][2] .. call.l - 1 : Mine(at)

\* A head that can be decrypted is the first packet of the first range.
HeadWaits ==
  call.pc # "idle" /\ buffer[1].sc \in Parities /\ buffer[1].offset /\ ~call.excused =>
    /\ call.pc \in {"waiting", "decrypting"} \/ (call.pc = "scanning" /\ call.l > 1) =>
         /\ call.ranges # <<>> /\ call.ranges[1][1] = 1
    /\ call.pc = "scanning" /\ call.l > 1 =>
         call.cur # NoKey /\ Cipher(call.cur) = "csa"
    /\ call.pc = "returned" => call.why \in {"refused", "aborted"}

\* What a call does to the packets, and the strengthening of them all.
Batch == /\ BufferType /\ CallType /\ CallInBuffer
         /\ OnceEach /\ BatchOfKey /\ HeadWaits
Inv == setup \in Setups /\ StreamType /\ CipherType /\ Batch
-----------------------------------------------------------------------------
(* Types.                                                                  *)

(* The call that has not begun has the type of a call.                     *)
LEMMA NoCallType == NoCall \in Call
<1>1. <<>> \in Seq(Range2)
  OBVIOUS
<1>. QED BY <1>1 DEF NoCall, Call, NoKey, Reasons, Parities

(* The invariant holds at the start.                                       *)
LEMMA InitInv == Init => Inv
<1>. SUFFICES ASSUME Init PROVE Inv
  OBVIOUS
<1>1. setup.max \in Nat \ {0} /\ Len(<<>>) = 0 /\ <<>> \in Seq(TsPacket)
  BY DecryptBatchAssumption DEF Init
<1>2. setup \in Setups /\ StreamType /\ CipherType
  BY DEF Init, StreamType, CipherType, NoRequest, Parities
<1>3. BufferType
  BY <1>1 DEF Init, BufferType
<1>4. CallType
  BY NoCallType DEF Init, CallType
<1>5. CallInBuffer
  BY <1>1 DEF Init, CallInBuffer, NoCall
<1>6. OnceEach /\ BatchOfKey /\ HeadWaits
  BY <1>1 DEF Init, OnceEach, BatchOfKey, HeadWaits, NoCall
<1>. QED BY <1>2, <1>3, <1>4, <1>5, <1>6 DEF Inv, Batch

\* The steps of the socket thread.
Outside ==
  \/ \E pid \in Pids, key \in Keys \cup {NoKey} : SetCaPid(pid, key)
  \/ \E kind \in setup.kinds, key \in Keys : Asks(kind, key)
  \/ SetsCw \/ SetsAesKey
  \/ \E key \in Keys, mode \in setup.modes : SetsMode(key, mode)

(* They leave the packets alone, and the call but for its excuse, which it *)
(* has if the cipher of a key changes in the middle of it.                 *)
LEMMA OutsideKeeps ==
  ASSUME CallType, Outside
  PROVE  /\ setup' = setup /\ buffer' = buffer
         /\ call.pc \in {"scanning", "decrypting"} => pidMap' = pidMap
         /\ \E b \in BOOLEAN :
              /\ call' = [call EXCEPT !.excused = b]
              /\ call.excused => b
              /\ call.pc = "idle" => call' = call
              /\ call.pc # "idle" /\ ~b =>
                   \A key \in Keys : Cipher(key)' = Cipher(key)
<1>. DEFINE Kept == call' = call /\ algo' = algo /\ aes' = aes
            Excused(b) == /\ call' = [call EXCEPT !.excused = b]
                          /\ call.excused => b
                          /\ call.pc = "idle" => call' = call
                          /\ call.pc # "idle" /\ ~b =>
                               \A key \in Keys : Cipher(key)' = Cipher(key)
<1>0. call \in Call /\ call.excused \in BOOLEAN /\ call = [call EXCEPT !.excused = call.excused]
  BY DEF CallType, Call
<1>1. Kept => Excused(call.excused)
  BY <1>0 DEF Cipher
<1>2. ASSUME NEW key \in Keys, Excuses(key),
             \A k \in Keys \ {key} : Cipher(k)' = Cipher(k)
      PROVE  \E b \in BOOLEAN : Excused(b)
  <2>. DEFINE b == call.excused \/ (call.pc # "idle" /\ Cipher(key)' # Cipher(key))
  <2>1. b \in BOOLEAN /\ call' = [call EXCEPT !.excused = b]
    BY <1>2, Zenon DEF Excuses
  <2>2. call.excused => b
    OBVIOUS
  <2>3. call.pc = "idle" => b = call.excused
    BY <1>0
  <2>4. call.pc # "idle" /\ ~b => \A k \in Keys : Cipher(k)' = Cipher(k)
    BY <1>2
  <2>. HIDE DEF b
  <2>5. call.pc = "idle" => call' = call
    BY <1>0, <2>1, <2>3
  <2>. QED BY <2>1, <2>2, <2>4, <2>5
<1>. HIDE DEF Kept, Excused
<1>3. ASSUME NEW pid \in Pids, NEW key \in Keys \cup {NoKey}, SetCaPid(pid, key)
      PROVE  /\ setup' = setup /\ buffer' = buffer /\ Kept
             /\ call.pc \notin {"scanning", "decrypting"}
  BY <1>3 DEF SetCaPid, Kept, ciphers
<1>4. ASSUME NEW kind \in setup.kinds, NEW key \in Keys, Asks(kind, key)
      PROVE  /\ setup' = setup /\ buffer' = buffer /\ pidMap' = pidMap
             /\ \E b \in BOOLEAN : Excused(b)
  <2>1. \A k \in Keys \ {key} : Cipher(k)' = Cipher(k)
    BY <1>4 DEF Asks, Cipher
  <2>. QED BY <1>2, <1>4, <2>1 DEF Asks
<1>5. ASSUME NEW key \in Keys, NEW mode \in setup.modes, SetsMode(key, mode)
      PROVE  /\ setup' = setup /\ buffer' = buffer /\ pidMap' = pidMap
             /\ \E b \in BOOLEAN : Excused(b)
  <2>1. \A k \in Keys \ {key} : Cipher(k)' = Cipher(k)
    BY <1>5 DEF SetsMode, Cipher
  <2>. QED BY <1>2, <1>5, <2>1 DEF SetsMode
<1>6. CASE SetsCw
  <2>1. /\ setup' = setup /\ buffer' = buffer /\ Kept /\ pidMap' = pidMap
    BY <1>6 DEF SetsCw, Kept
  <2>. QED BY <1>0, <1>1, <2>1 DEF Excused
<1>7. CASE SetsAesKey
  <2>1. setup' = setup /\ buffer' = buffer /\ Kept /\ pidMap' = pidMap
    BY <1>7 DEF SetsAesKey, Kept
  <2>. QED BY <1>0, <1>1, <2>1 DEF Excused
<1>8. CASE \E pid \in Pids, key \in Keys \cup {NoKey} : SetCaPid(pid, key)
  BY <1>0, <1>1, <1>3, <1>8 DEF Excused
<1>9. CASE \E kind \in setup.kinds, key \in Keys : Asks(kind, key)
  BY <1>4, <1>9 DEF Excused
<1>10. CASE \E key \in Keys, mode \in setup.modes : SetsMode(key, mode)
  BY <1>5, <1>10 DEF Excused
<1>. QED BY <1>6, <1>7, <1>8, <1>9, <1>10 DEF Outside
-----------------------------------------------------------------------------
(* decrypt_packets.                                                        *)

\* The parts of a packet nothing changes.
Same(p, q) == q.pid = p.pid /\ q.was = p.was /\ q.offset = p.offset /\ q.n = p.n

\* The packet p at a place of the batch becomes q.
Leaves(p, q)   == q = p
Clears(p, q)   == p.sc \in Parities /\ p.n <= 0 /\ q.sc = "clear" /\ q.ran = p.ran
DecryptsIt(p, q) ==
  /\ p.sc \in Parities /\ q.sc = "clear" /\ q.ran = Append(p.ran, "csa")
  /\ q.with = p.sc /\ q.key = call.cur

(* Where the ranges lie.                                                   *)
LEMMA RangeBounds ==
  ASSUME CallType, CallInBuffer
  PROVE  /\ call.ranges \in Seq(Range2) /\ call.l \in Nat \ {0}
         /\ \A r \in 1 .. Len(call.ranges) :
              /\ call.ranges # <<>>
              /\ call.ranges[r][1] \in Nat \ {0} /\ call.ranges[r][2] \in Nat \ {0}
              /\ call.ranges[r][1] < call.ranges[r][2] /\ call.ranges[r][2] <= call.l
         /\ ~call.newRange => Len(call.ranges) \in 1 .. Len(call.ranges)
<1>1. call.ranges \in Seq(Range2) /\ call.l \in Nat \ {0}
  BY DEF CallType, Call
<1>2. \A r \in 1 .. Len(call.ranges) : /\ call.ranges[r] \in Range2
                                      /\ call.ranges[r][1] \in Nat
                                      /\ call.ranges[r][2] \in Nat
  BY <1>1 DEF Range2
<1>3. \A r \in 1 .. Len(call.ranges) :
         /\ call.ranges[r][1] \in Nat \ {0} /\ call.ranges[r][2] \in Nat \ {0}
         /\ call.ranges[r][1] < call.ranges[r][2] /\ call.ranges[r][2] <= call.l
  BY <1>2 DEF CallInBuffer
<1>4. \A r \in 1 .. Len(call.ranges) : call.ranges # <<>>
  BY <1>1
<1>5. ~call.newRange => Len(call.ranges) \in 1 .. Len(call.ranges)
  BY <1>1 DEF CallInBuffer
<1>. QED BY <1>1, <1>3, <1>4, <1>5

(* The ranges decrypt_packets is given are of packets in the buffer.       *)
LEMMA BatchInMemory ==
  ASSUME BufferType, CallType, CallInBuffer
  PROVE  InMemory(buffer, call.ranges)
<1>1. call.ranges \in Seq(Range2)
  BY DEF CallType, Call
<1>2. ASSUME NEW r \in 1 .. Len(call.ranges),
             NEW at \in call.ranges[r][1] .. call.ranges[r][2] - 1
      PROVE  at \in DOMAIN buffer /\ buffer[at].n \in Int
  <2>1. /\ call.ranges[r][1] \in Nat /\ call.ranges[r][2] \in Nat
        /\ 1 <= call.ranges[r][1] /\ call.ranges[r][2] <= call.l
    BY <1>1 DEF CallInBuffer, Range2
  <2>2. call.l \in Nat /\ call.l <= Len(buffer) + 1 /\ Len(buffer) \in Nat
    BY DEF CallType, Call, CallInBuffer, BufferType
  <2>3. at \in 1 .. Len(buffer)
    BY <2>1, <2>2
  <2>4. buffer[at] \in TsPacket /\ DOMAIN buffer = 1 .. Len(buffer)
    BY <2>3 DEF BufferType
  <2>. QED BY <2>3, <2>4, FFdecsaAssumption DEF TsPacket
<1>. QED BY <1>1, <1>2 DEF InMemory

(* What the fields of a packet are after it was marked, or decrypted.      *)
LEMMA MarkedPacket ==
  \A p \in TsPacket :
    LET q == Marked(p)
    IN  q \in TsPacket /\ Same(p, q) /\ q.sc = "clear" /\ q.ran = p.ran
BY DEF Marked, TsPacket, Same, Scrambling, Parities

(* The same when its blocks were written too.                              *)
LEMMA WrittenPacket ==
  \A p \in TsPacket, b \in Nat, r \in Nat, w \in Parities :
    LET q == Written(p, b, r, w)
    IN  q \in TsPacket /\ Same(p, q) /\ q.sc = "clear" /\ q.ran = p.ran /\ q.with = w
<1>. SUFFICES ASSUME NEW p \in TsPacket, NEW b \in Nat, NEW r \in Nat, NEW w \in Parities
              PROVE  LET q == Written(p, b, r, w)
                     IN  /\ q \in TsPacket /\ Same(p, q) /\ q.sc = "clear"
                         /\ q.ran = p.ran /\ q.with = w
  OBVIOUS
<1>1. p.blocks + b \in Nat /\ p.residueAt + r \in Nat
  BY DEF TsPacket
<1>. QED BY <1>1 DEF Marked, Written, TsPacket, Same, Scrambling, Parities

\* A packet a cipher ran on, with a key.
AnyKey == Keys \cup {NoKey}
RanOn(p, c, k) == [p EXCEPT !.ran = Append(@, c), !.key = k]

IsRanOn(p, c, k, q) ==
  /\ q \in TsPacket /\ Same(p, q) /\ q.sc = p.sc
  /\ q.ran = Append(p.ran, c) /\ q.with = p.with /\ q.key = k

(* The same when the cipher is noted.                                      *)
LEMMA RanPacket ==
  \A p \in TsPacket, c \in AllCiphers, k \in AnyKey :
    IsRanOn(p, c, k, RanOn(p, c, k))
<1>. SUFFICES ASSUME NEW p \in TsPacket, NEW c \in AllCiphers, NEW k \in AnyKey
              PROVE  IsRanOn(p, c, k, RanOn(p, c, k))
  OBVIOUS
<1>1. Append(p.ran, c) \in Seq(AllCiphers)
  BY DEF TsPacket
<1>. QED BY <1>1 DEF RanOn, IsRanOn, TsPacket, Same, AnyKey

(* What Decrypts does to each packet of the buffer: it leaves it alone,    *)
(* clears the bits of one without a whole block, or decrypts one that is   *)
(* in the ranges; a head in the first range is not scrambled any more.     *)
LEMMA DecryptsEffect ==
  ASSUME BufferType, CallType, CallInBuffer, Decrypts
  PROVE  /\ buffer' \in Seq(TsPacket) /\ Len(buffer') = Len(buffer)
         /\ \A at \in 1 .. Len(buffer) :
              LET p == buffer[at]  q == buffer'[at]
              IN  /\ Same(p, q)
                  /\ \/ Leaves(p, q) \/ Clears(p, q)
                     \/ DecryptsIt(p, q) /\ InRanges(call.ranges, at)
         /\ /\ call.ranges # <<>> /\ call.ranges[1][1] = 1
            /\ buffer[1].sc \in Parities
            => buffer'[1].sc = "clear"
<1>. DEFINE scan   == Scan(buffer, call.ranges)
            result == DecryptPackets(buffer, call.ranges)
            L      == Len(buffer)
            new(at) == [result.mem[at] EXCEPT !.ran = Append(@, "csa"), !.key = call.cur]
<1>1. InMemory(buffer, call.ranges)
  BY BatchInMemory
<1>2. /\ scan \in Scanned /\ TakenOK(buffer, call.ranges, scan)
      /\ (/\ call.ranges # <<>> /\ call.ranges[1][1] < call.ranges[1][2]
          /\ buffer[call.ranges[1][1]].sc \in Parities
          => call.ranges[1][1] \in scan.marked)
  BY <1>1, ScanTakes
<1>3. DecryptedFrom(buffer, scan, result)
  BY <1>1, Decrypted
<1>4. buffer' = [at \in DOMAIN buffer |-> IF at \in result.group THEN new(at)
                                                                 ELSE result.mem[at]]
  BY Zenon DEF Decrypts
<1>5. /\ L \in Nat /\ DOMAIN buffer = 1 .. L
      /\ \A at \in 1 .. L : buffer[at] \in TsPacket /\ buffer[at].n \in Int
  <2>1. L \in Nat /\ DOMAIN buffer = 1 .. L /\ \A at \in 1 .. L : buffer[at] \in TsPacket
    BY DEF BufferType
  <2>2. \A p \in TsPacket : p.n \in Int
    BY FFdecsaAssumption DEF TsPacket
  <2>. QED BY <2>1, <2>2
<1>6. call.cur \in Keys \cup {NoKey} /\ scan.parity \in Parities
  BY <1>2 DEF CallType, Call, Scanned
<1>. HIDE DEF scan, result, L
<1>7. ASSUME NEW at \in 1 .. L
      PROVE  /\ buffer'[at] \in TsPacket
             /\ Same(buffer[at], buffer'[at])
             /\ \/ Leaves(buffer[at], buffer'[at]) \/ Clears(buffer[at], buffer'[at])
                \/ DecryptsIt(buffer[at], buffer'[at]) /\ InRanges(call.ranges, at)
             /\ at \in scan.marked => buffer'[at].sc = "clear"
  <2>. DEFINE p == buffer[at]
              q == buffer'[at]
              m == result.mem[at]
  <2>1. p \in TsPacket /\ p.n \in Int /\ at \in DOMAIN buffer
    BY <1>5
  <2>2. CASE at \notin scan.marked
    <3>1. at \notin Grouped(scan)
      BY <1>2, <2>2 DEF TakenOK
    <3>2. q = p
      BY <1>3, <1>4, <2>1, <2>2, <3>1 DEF DecryptedFrom
    <3>. HIDE DEF p, q
    <3>. QED BY <2>1, <2>2, <3>2 DEF Same, Leaves, p, q
  <2>3. CASE at \in scan.marked \ Grouped(scan)
    <3>1. q = Marked(p)
      BY <1>3, <1>4, <2>1, <2>3, Zenon DEF DecryptedFrom
    <3>2. p.sc \in Parities /\ p.n <= 0
      BY <1>2, <2>1, <2>3 DEF TakenOK
    <3>. HIDE DEF p, q
    <3>3. q \in TsPacket /\ Same(p, q) /\ q.sc = "clear" /\ q.ran = p.ran
      BY <2>1, <3>1, MarkedPacket
    <3>. QED BY <3>2, <3>3 DEF Clears, p, q
  <2>4. CASE at \in Grouped(scan)
    <3>1. PICK b \in Nat, r \in Nat :
            m = Written(p, b, r, scan.parity)
      BY <1>3, <2>1, <2>4, Zenon DEF DecryptedFrom
    <3>2. q = new(at)
      BY <1>3, <1>4, <2>1, <2>4, Zenon DEF DecryptedFrom
    <3>3. p.sc = scan.parity /\ at \in scan.marked /\ InRanges(call.ranges, at)
      BY <1>2, <2>4 DEF TakenOK
    <3>4. q = RanOn(m, "csa", call.cur)
      BY <3>2, Zenon DEF RanOn
    <3>. HIDE DEF p, q, m, new
    <3>6. m \in TsPacket /\ Same(p, m) /\ m.sc = "clear" /\ m.ran = p.ran /\ m.with = scan.parity
      BY <1>6, <2>1, <3>1, WrittenPacket
    <3>7. "csa" \in AllCiphers
      BY DEF AllCiphers
    <3>8. /\ q \in TsPacket /\ Same(m, q) /\ q.sc = m.sc
          /\ q.ran = Append(m.ran, "csa") /\ q.with = m.with /\ q.key = call.cur
      <4>1. m \in TsPacket /\ call.cur \in AnyKey
        BY <1>6, <3>6 DEF AnyKey
      <4>2. IsRanOn(m, "csa", call.cur, RanOn(m, "csa", call.cur))
        BY <3>7, <4>1, RanPacket, Zenon
      <4>. QED BY <3>4, <4>2, Zenon DEF IsRanOn
    <3>9. Same(p, q)
      BY <3>6, <3>8 DEF Same
    <3>10. DecryptsIt(p, q)
      BY <1>6, <3>3, <3>4, <3>6, <3>8 DEF DecryptsIt
    <3>. QED BY <3>3, <3>6, <3>8, <3>9, <3>10 DEF p, q
  <2>. QED BY <2>2, <2>3, <2>4
<1>8. buffer' \in Seq(TsPacket) /\ Len(buffer') = L
  <2>1. buffer' \in [1 .. L -> TsPacket]
    <3>1. buffer' = [at \in 1 .. L |-> buffer'[at]]
      BY <1>4, <1>5
    <3>. QED BY <1>7, <3>1
  <2>. QED BY <1>5, <2>1, FunctionIsSeq
<1>9. ASSUME call.ranges # <<>>, call.ranges[1][1] = 1, buffer[1].sc \in Parities
      PROVE  buffer'[1].sc = "clear"
  <2>1. 1 \in 1 .. Len(call.ranges)
    BY <1>9 DEF CallType, Call
  <2>2. call.ranges[1][1] < call.ranges[1][2]
    BY <2>1 DEF CallInBuffer
  <2>3. 1 \in scan.marked
    BY <1>2, <1>9, <2>2
  <2>4. 1 \in DOMAIN buffer
    <3>1. 1 \in call.ranges[1][1] .. call.ranges[1][2] - 1
      BY <1>9, <2>1, <2>2 DEF CallType, Call, Range2
    <3>. QED BY <1>1, <2>1, <3>1 DEF InMemory
  <2>. QED BY <1>5, <1>7, <2>3, <2>4
<1>. QED BY <1>7, <1>8, <1>9 DEF L
-----------------------------------------------------------------------------
(* Each step keeps what is said of the batch.                              *)

(* The types of packets and calls stay the same.                           *)
LEMMA PacketSetSame == setup' = setup => TsPacket' = TsPacket /\ Call' = Call
BY DEF TsPacket, Call, Pids, Keys

(* The steps of the socket thread keep what is said of the                 *)
(* batch: a cipher that changes under the call excuses it.                 *)
LEMMA OutsideBatch ==
  ASSUME Inv, Outside
  PROVE  Batch'
<1>1. /\ setup' = setup /\ buffer' = buffer
      /\ call.pc \in {"scanning", "decrypting"} => pidMap' = pidMap
  BY OutsideKeeps DEF Inv, Batch
<1>2. PICK b \in BOOLEAN :
        /\ call' = [call EXCEPT !.excused = b]
        /\ call.excused => b
        /\ call.pc = "idle" => call' = call
        /\ call.pc # "idle" /\ ~b => \A key \in Keys : Cipher(key)' = Cipher(key)
  BY OutsideKeeps, Zenon DEF Inv, Batch
<1>3. call \in Call /\ call' \in Call
  BY <1>2 DEF Inv, Batch, CallType, Call
<1>4. /\ call'.pc = call.pc /\ call'.l = call.l /\ call'.cur = call.cur
      /\ call'.ranges = call.ranges
      /\ call'.newRange = call.newRange /\ call'.ccs = call.ccs /\ call'.why = call.why
      /\ call'.waited = call.waited /\ call'.excused = b
  BY <1>2, <1>3 DEF Call
<1>5. BufferType' /\ CallType'
  BY <1>1, <1>3, PacketSetSame DEF Inv, Batch, BufferType, CallType
<1>6. CallInBuffer'
  <2>1. call.pc = "idle" => call' = NoCall
    BY <1>2 DEF Inv, Batch, CallInBuffer
  <2>. QED BY <1>1, <1>4, <2>1 DEF Inv, Batch, CallInBuffer
<1>7. OnceEach'
  BY <1>1 DEF Inv, Batch, OnceEach, Once
<1>8. BatchOfKey'
  BY <1>1, <1>4 DEF Inv, Batch, BatchOfKey, Mine
<1>9. HeadWaits'
  <2>. SUFFICES ASSUME call.pc # "idle", buffer[1].sc \in Parities, buffer[1].offset, ~b
                PROVE  /\ call.pc \in {"waiting", "decrypting"}
                            \/ (call.pc = "scanning" /\ call.l > 1) =>
                            call.ranges # <<>> /\ call.ranges[1][1] = 1
                       /\ call.pc = "scanning" /\ call.l > 1 =>
                            call.cur # NoKey /\ Cipher(call.cur)' = "csa"
                       /\ call.pc = "returned" => call.why \in {"refused", "aborted"}
    BY <1>1, <1>4 DEF HeadWaits, Cipher
  <2>1. ~call.excused
    BY <1>2
  <2>2. call.cur \in Keys \cup {NoKey}
    BY <1>3 DEF Call
  <2>. QED BY <1>2, <2>1, <2>2 DEF Inv, Batch, HeadWaits
<1>. QED BY <1>5, <1>6, <1>7, <1>8, <1>9 DEF Batch

(* The first packet leaves the buffer, or one comes in.                    *)
LEMMA TailOfBuffer ==
  ASSUME Inv, buffer # <<>>
  PROVE  /\ Tail(buffer) \in Seq(TsPacket) /\ Len(Tail(buffer)) <= setup.max
         /\ \A at \in 1 .. Len(Tail(buffer)) : Once(Tail(buffer)[at])
<1>1. buffer \in Seq(TsPacket) /\ Len(buffer) <= setup.max /\ Len(buffer) \in Nat
  BY DEF Inv, Batch, BufferType
<1>2. /\ Tail(buffer) \in Seq(TsPacket) /\ Len(Tail(buffer)) = Len(buffer) - 1
      /\ \A at \in 1 .. Len(Tail(buffer)) : Tail(buffer)[at] = buffer[at + 1]
  BY <1>1, HeadTailProperties
<1>3. setup.max \in Nat
  BY DecryptBatchAssumption DEF Inv
<1>4. \A at \in 1 .. Len(Tail(buffer)) : at + 1 \in 1 .. Len(buffer)
  BY <1>1, <1>2
<1>. QED BY <1>1, <1>2, <1>3, <1>4 DEF Inv, Batch, OnceEach

(* A packet that arrives is a packet no cipher ran on.                     *)
LEMMA NewPacketType ==
  ASSUME setup \in Setups, NEW packet \in NewPacket
  PROVE  packet \in TsPacket /\ Once(packet)
<1>1. AnyPid \in Pids /\ Lengths \subseteq -1 .. Blocks /\ 0 \in -1 .. Blocks /\ Blocks \in -1 .. Blocks
  BY DecryptBatchAssumption, FFdecsaAssumption DEF AnyPid, Pids
<1>2. <<>> \in Seq(AllCiphers)
  OBVIOUS
<1>3. CASE packet \in {Arrived(pid, sc, TRUE, n) :
                         pid \in Pids, sc \in Parities, n \in Lengths}
  <2>1. PICK pid \in Pids, sc \in Parities, n \in Lengths :
        packet = [pid |-> pid, sc |-> sc, was |-> sc, offset |-> TRUE, n |-> n,
                   blocks |-> 0, residueAt |-> 0, with |-> "none",
                   ran |-> <<>>, key |-> 0]
    BY <1>3 DEF Arrived, NoKey
  <2>2. sc \in Scrambling /\ n \in -1 .. Blocks
    BY <1>1 DEF Scrambling
  <2>3. packet \in TsPacket
    BY <1>1, <1>2, <2>1, <2>2 DEF TsPacket, NoKey
  <2>4. Once(packet)
    BY <2>1, <2>2 DEF Once, Parities
  <2>. QED BY <2>3, <2>4
<1>4. CASE packet \in {Arrived(pid, sc, FALSE, 0) : pid \in Pids, sc \in Parities}
  <2>1. PICK pid \in Pids, sc \in Parities :
        packet = [pid |-> pid, sc |-> sc, was |-> sc, offset |-> FALSE, n |-> 0,
                   blocks |-> 0, residueAt |-> 0, with |-> "none",
                   ran |-> <<>>, key |-> 0]
    BY <1>4 DEF Arrived, NoKey
  <2>2. sc \in Scrambling
    BY <1>1 DEF Scrambling
  <2>3. packet \in TsPacket
    BY <1>1, <1>2, <2>1, <2>2 DEF TsPacket, NoKey
  <2>4. Once(packet)
    BY <2>1, <2>2 DEF Once, Parities
  <2>. QED BY <2>3, <2>4
<1>5. CASE packet \in {Arrived(AnyPid, sc, TRUE, Blocks) :
                         sc \in {"clear", "reserved", "lost"}}
  <2>1. PICK sc \in {"clear", "reserved", "lost"} :
        packet = [pid |-> AnyPid, sc |-> sc, was |-> sc, offset |-> TRUE, n |-> Blocks,
                   blocks |-> 0, residueAt |-> 0, with |-> "none",
                   ran |-> <<>>, key |-> 0]
    BY <1>5 DEF Arrived, NoKey
  <2>2. sc \in Scrambling
    BY <1>1 DEF Scrambling
  <2>3. packet \in TsPacket
    BY <1>1, <1>2, <2>1, <2>2 DEF TsPacket, NoKey
  <2>4. Once(packet)
    BY <2>1, <2>2 DEF Once, Parities
  <2>. QED BY <2>3, <2>4
<1>. QED BY <1>3, <1>4, <1>5 DEF NewPacket, Arrived

(* While no call is made, all that matters is the packets.                 *)
LEMMA IdleBatch ==
  ASSUME Inv, call.pc = "idle", call' = call, setup' = setup,
         buffer' \in Seq(TsPacket), Len(buffer') <= setup.max,
         \A at \in 1 .. Len(buffer') : Once(buffer'[at])
  PROVE  Batch'
<1>1. call = NoCall /\ call' = NoCall
  BY DEF Inv, Batch, CallInBuffer
<1>2. BufferType' /\ CallType'
  BY PacketSetSame DEF Inv, Batch, BufferType, CallType
<1>3. CallInBuffer'
  <2>1. Len(buffer') \in Nat
    OBVIOUS
  <2>. QED BY <1>1, <2>1 DEF CallInBuffer, NoCall
<1>4. OnceEach'
  BY DEF OnceEach, Once
<1>5. BatchOfKey' /\ HeadWaits'
  BY <1>1 DEF BatchOfKey, HeadWaits, NoCall
<1>. QED BY <1>2, <1>3, <1>4, <1>5 DEF Batch

(* The steps that change the buffer then.                                  *)
LEMMA IdleSteps ==
  ASSUME Inv, DeliversClear \/ VdrSkips \/ \E packet \in NewPacket : PacketArrives(packet)
  PROVE  Batch'
<1>1. CASE DeliversClear \/ VdrSkips
  <2>1. /\ call.pc = "idle" /\ buffer # <<>> /\ buffer' = Tail(buffer)
        /\ call' = call /\ setup' = setup
    BY <1>1 DEF DeliversClear, VdrSkips
  <2>. QED BY <2>1, IdleBatch, TailOfBuffer
<1>2. ASSUME NEW packet \in NewPacket, PacketArrives(packet)
      PROVE  Batch'
  <2>1. /\ call.pc = "idle" /\ Len(buffer) < setup.max /\ buffer' = Append(buffer, packet)
        /\ call' = call /\ setup' = setup
    BY <1>2 DEF PacketArrives
  <2>2. packet \in TsPacket /\ Once(packet)
    BY NewPacketType DEF Inv
  <2>3. /\ buffer \in Seq(TsPacket) /\ Len(buffer) \in Nat
        /\ \A at \in 1 .. Len(buffer) : Once(buffer[at])
    BY DEF Inv, Batch, BufferType, OnceEach
  <2>4. setup.max \in Nat
    BY DecryptBatchAssumption DEF Inv
  <2>5. /\ buffer' \in Seq(TsPacket) /\ Len(buffer') = Len(buffer) + 1
        /\ buffer'[Len(buffer) + 1] = packet
        /\ \A at \in 1 .. Len(buffer) : buffer'[at] = buffer[at]
    BY <2>1, <2>2, <2>3
  <2>6. \A at \in 1 .. Len(buffer') : at = Len(buffer) + 1 \/ at \in 1 .. Len(buffer)
    BY <2>3, <2>5
  <2>7. \A at \in 1 .. Len(buffer') : Once(buffer'[at])
    BY <2>2, <2>3, <2>5, <2>6
  <2>8. Len(buffer') <= setup.max
    BY <2>1, <2>3, <2>4, <2>5
  <2>. QED BY <2>1, <2>5, <2>7, <2>8, IdleBatch
<1>. QED BY <1>1, <1>2

(* The head was delivered: the next call begins with nothing.              *)
LEMMA DeliversBatch == ASSUME Inv, Delivers PROVE Batch'
<1>1. call.pc # "idle" /\ buffer' = Tail(buffer) /\ call' = NoCall /\ setup' = setup
  BY DEF Delivers
<1>2. buffer # <<>>
  BY <1>1 DEF Inv, Batch, CallInBuffer
<1>3. /\ buffer' \in Seq(TsPacket) /\ Len(buffer') <= setup.max
      /\ \A at \in 1 .. Len(buffer') : Once(buffer'[at])
  BY <1>1, <1>2, TailOfBuffer
<1>4. BufferType' /\ CallType'
  BY <1>1, <1>3, NoCallType, PacketSetSame DEF BufferType, CallType
<1>5. CallInBuffer'
  <2>1. Len(buffer') \in Nat
    BY <1>3
  <2>. QED BY <1>1, <2>1 DEF CallInBuffer, NoCall
<1>6. OnceEach'
  BY <1>3 DEF OnceEach, Once
<1>7. BatchOfKey' /\ HeadWaits'
  BY <1>1 DEF BatchOfKey, HeadWaits, NoCall
<1>. QED BY <1>4, <1>5, <1>6, <1>7 DEF Batch

(* A call begins at the head with nothing.                                 *)
LEMMA DecryptStartsBatch == ASSUME Inv, DecryptStarts PROVE Batch'
<1>1. /\ call = NoCall /\ buffer # <<>> /\ buffer' = buffer /\ setup' = setup
      /\ call' = [NoCall EXCEPT !.pc = "scanning"]
  BY DEF DecryptStarts, Inv, Batch, CallInBuffer
<1>2. Len(buffer) \in Nat \ {0} /\ Len(buffer') = Len(buffer)
  BY <1>1 DEF Inv, Batch, BufferType
<1>3. /\ call'.pc = "scanning" /\ call'.l = 1 /\ call'.cur = NoKey /\ call'.ranges = <<>>
      /\ call'.newRange = TRUE /\ call'.ccs = 0 /\ call'.waited = FALSE
  BY <1>1 DEF NoCall
<1>4. call' \in Call
  BY <1>1, NoCallType DEF Call
<1>5. BufferType' /\ CallType'
  BY <1>1, <1>4, PacketSetSame DEF Inv, Batch, BufferType, CallType
<1>6. CallInBuffer' /\ BatchOfKey' /\ HeadWaits'
  BY <1>1, <1>2, <1>3 DEF CallInBuffer, BatchOfKey, HeadWaits
<1>7. OnceEach'
  BY <1>1 DEF Inv, Batch, OnceEach, Once
<1>. QED BY <1>5, <1>6, <1>7 DEF Batch

(* The call returns, and the packets have been decrypted at most once.     *)
LEMMA ReturnsBatch ==
  ASSUME Inv, NEW why \in Reasons, call.pc # "idle", call' = Returned(why), setup' = setup,
         buffer' \in Seq(TsPacket), Len(buffer') = Len(buffer),
         \A at \in 1 .. Len(buffer') : Once(buffer'[at]),
         buffer'[1].sc \in Parities /\ buffer'[1].offset /\ ~call.excused
           => why \in {"refused", "aborted"}
  PROVE  Batch'
<1>1. call \in Call /\ buffer # <<>> /\ Len(buffer) \in Nat
  BY DEF Inv, Batch, CallType, CallInBuffer, BufferType
<1>2. /\ call' \in Call /\ call'.pc = "returned" /\ call'.l = call.l
      /\ call'.ranges = call.ranges /\ call'.newRange = call.newRange
      /\ call'.cur = call.cur /\ call'.why = why /\ call'.excused = call.excused
  BY <1>1 DEF Returned, Call
<1>3. BufferType' /\ CallType'
  BY <1>2, PacketSetSame DEF Inv, Batch, BufferType, CallType
<1>4. CallInBuffer'
  <2>1. buffer' # <<>>
    BY <1>1
  <2>. QED BY <1>1, <1>2, <2>1 DEF Inv, Batch, CallInBuffer
<1>5. OnceEach'
  BY DEF OnceEach, Once
<1>6. BatchOfKey' /\ HeadWaits'
  BY <1>2 DEF BatchOfKey, HeadWaits
<1>. QED BY <1>3, <1>4, <1>5, <1>6 DEF Batch

(* The call refuses the head.                                              *)
LEMMA RefusesHeadBatch == ASSUME Inv, RefusesHead PROVE Batch'
<1>1. call.pc # "idle" /\ call' = Returned("refused") /\ buffer' = buffer /\ setup' = setup
  BY DEF RefusesHead
<1>2. "refused" \in Reasons /\ "refused" \in {"refused", "aborted"}
  BY DEF Reasons
<1>. QED BY <1>1, <1>2, ReturnsBatch DEF Inv, Batch, BufferType, OnceEach

(* The packet that is looked at; a head that can be decrypted has been     *)
(* taken when the call is beyond it.                                       *)
LEMMA LooksAt ==
  ASSUME Inv, call.pc = "scanning"
  PROVE  /\ call \in Call /\ call.l \in Nat \ {0} /\ Len(buffer) \in Nat \ {0}
         /\ Head(buffer) = buffer[1] /\ setup.cluster \in Nat \ {0}
         /\ Scanning => call.l \in 1 .. Len(buffer) /\ Here \in TsPacket /\ Once(Here)
         /\ buffer[1].sc \in Parities /\ ~Scanning => call.l > 1
<1>1. /\ call \in Call /\ buffer \in Seq(TsPacket) /\ buffer # <<>>
      /\ setup.cluster \in Nat \ {0}
  BY DecryptBatchAssumption DEF Inv, Batch, BufferType, CallType, CallInBuffer
<1>2. call.l \in Nat \ {0} /\ Len(buffer) \in Nat \ {0} /\ Head(buffer) = buffer[1]
  BY <1>1 DEF Call
<1>3. Scanning => call.l \in 1 .. Len(buffer)
  BY <1>2 DEF Scanning
<1>4. Scanning => Here \in TsPacket /\ Once(Here)
  BY <1>1, <1>3 DEF Here, Inv, Batch, OnceEach
<1>5. ASSUME buffer[1].sc \in Parities, call.l = 1 PROVE Scanning
  <2>1. call.ccs = 0 /\ Here = buffer[1]
    BY <1>5 DEF Inv, Batch, CallInBuffer, Here
  <2>. QED BY <1>1, <1>2, <1>5, <2>1 DEF Scanning, Parities
<1>. QED BY <1>1, <1>2, <1>3, <1>4, <1>5

(* The next packet.                                                        *)
LEMMA BeyondType ==
  ASSUME call \in Call
  PROVE  /\ Beyond \in Call /\ NextRange \in Call
         /\ \A c \in {Beyond, NextRange} :
              /\ c.pc = call.pc /\ c.l = call.l + 1 /\ c.ranges = call.ranges
              /\ c.cur = call.cur /\ c.excused = call.excused /\ c.waited = call.waited
         /\ Beyond.newRange = call.newRange /\ NextRange.newRange
<1>1. call.l + 1 \in Nat \ {0}
  BY DEF Call
<1>2. /\ Beyond \in Call /\ Beyond.pc = call.pc /\ Beyond.l = call.l + 1
      /\ Beyond.ranges = call.ranges /\ Beyond.cur = call.cur
      /\ Beyond.excused = call.excused /\ Beyond.waited = call.waited
      /\ Beyond.newRange = call.newRange
  BY <1>1 DEF Beyond, Call
<1>3. /\ NextRange \in Call /\ NextRange.pc = Beyond.pc /\ NextRange.l = Beyond.l
      /\ NextRange.ranges = Beyond.ranges /\ NextRange.cur = Beyond.cur
      /\ NextRange.excused = Beyond.excused /\ NextRange.waited = Beyond.waited
      /\ NextRange.newRange
  BY <1>2 DEF NextRange, Call
<1>. QED BY <1>2, <1>3

(* A packet that is passed ends the range, or is in the middle of it and   *)
(* not scrambled.                                                          *)
LEMMA PassesBatch == ASSUME Inv, Passes PROVE Batch'
<1>1. /\ call.pc = "scanning" /\ Scanning /\ buffer' = buffer /\ setup' = setup
      /\ pidMap' = pidMap
      /\ algo' = algo /\ aes' = aes
      /\ call.l = 1 => ~Head(buffer).offset
      /\ \/ Here.sc \notin Parities /\ call' = Beyond
         \/ call' = NextRange
  BY DEF Passes, Scanning, ciphers
<1>2. /\ call \in Call /\ call.l \in Nat \ {0} /\ Len(buffer) \in Nat
      /\ Head(buffer) = buffer[1] /\ call.l \in 1 .. Len(buffer)
  BY <1>1, LooksAt
<1>3. /\ call' \in Call /\ call'.pc = "scanning" /\ call'.l = call.l + 1
      /\ call'.ranges = call.ranges /\ call'.cur = call.cur /\ call'.excused = call.excused
      /\ call'.waited = call.waited
      /\ call'.newRange \/ (Here.sc \notin Parities /\ call'.newRange = call.newRange)
  BY <1>1, <1>2, BeyondType
<1>4. BufferType' /\ CallType'
  BY <1>1, <1>3, PacketSetSame DEF Inv, Batch, BufferType, CallType
<1>5. CallInBuffer'
  <2>1. \A r \in 1 .. Len(call.ranges) : call.ranges[r][2] \in Nat
    BY <1>2 DEF Call, Range2
  <2>. QED BY <1>1, <1>2, <1>3, <2>1 DEF Inv, Batch, CallInBuffer
<1>6. OnceEach'
  BY <1>1 DEF Inv, Batch, OnceEach, Once
<1>7. BatchOfKey'
  <2>. SUFFICES ASSUME ~call.waited
                PROVE  /\ \A r \in 1 .. Len(call.ranges) :
                            \A at \in call.ranges[r][1] .. call.ranges[r][2] - 1 : Mine(at)
                       /\ ~call'.newRange =>
                            \A at \in call.ranges[Len(call.ranges)][2] .. call.l : Mine(at)
    BY <1>1, <1>2, <1>3 DEF BatchOfKey, Mine
  <2>1. /\ \A r \in 1 .. Len(call.ranges) :
             \A at \in call.ranges[r][1] .. call.ranges[r][2] - 1 : Mine(at)
        /\ ~call.newRange =>
             \A at \in call.ranges[Len(call.ranges)][2] .. call.l - 1 : Mine(at)
    BY <1>1 DEF Inv, Batch, BatchOfKey
  <2>2. ASSUME ~call'.newRange, NEW at \in call.ranges[Len(call.ranges)][2] .. call.l
        PROVE  Mine(at)
    <3>1. ~call.newRange /\ Mine(call.l)
      BY <1>3, <2>2 DEF Mine, Here
    <3>2. at = call.l \/ at \in call.ranges[Len(call.ranges)][2] .. call.l - 1
      BY <1>2
    <3>. QED BY <2>1, <3>1, <3>2
  <2>. QED BY <2>1, <2>2
<1>8. HeadWaits'
  BY <1>1, <1>2, <1>3 DEF Inv, Batch, HeadWaits, Cipher
<1>. QED BY <1>4, <1>5, <1>6, <1>7, <1>8 DEF Batch

(* DES and AES decrypt the packet at once, unless the AES key is missing.  *)
LEMMA BlockCipherEffect ==
  ASSUME Inv, TakesBlockCipher
  PROVE  /\ Scanning /\ Here.sc \in Parities /\ Ours
         /\ Cipher(pidMap[Here.pid]) \in BlockCiphers
         /\ Len(buffer') = Len(buffer) /\ buffer' \in Seq(TsPacket)
         /\ \A at \in 1 .. Len(buffer) : at # call.l => buffer'[at] = buffer[at]
         /\ \/ /\ buffer'[call.l].sc = "clear" /\ buffer'[call.l].ran # <<>>
               /\ buffer'[call.l].key = pidMap[Here.pid] /\ call' = Taken
            \/ buffer' = buffer /\ call' = [Taken EXCEPT !.excused = TRUE]
         /\ \A at \in 1 .. Len(buffer) : Once(buffer'[at])
<1>. DEFINE c == Cipher(pidMap[Here.pid])
            l == call.l
            new == Ran(buffer[l], c)
<1>1. /\ Scanning /\ Here.sc \in Parities /\ Ours /\ c \in BlockCiphers
      /\ \/ buffer' = [buffer EXCEPT ![l] = new] /\ call' = Taken
         \/ buffer' = buffer /\ call' = [Taken EXCEPT !.excused = TRUE]
  BY Zenon DEF TakesBlockCipher, BlockCiphers
<1>2. l \in 1 .. Len(buffer) /\ buffer[l] = Here /\ Here \in TsPacket /\ Once(Here)
  BY <1>1, LooksAt, Zenon DEF Scanning, Here
<1>3. buffer \in Seq(TsPacket) /\ \A at \in 1 .. Len(buffer) : Once(buffer[at])
  BY DEF Inv, Batch, BufferType, OnceEach
<1>. HIDE DEF c, l
<1>4. pidMap[Here.pid] \in AnyKey /\ c \in AllCiphers
  <2>1. Here.pid \in Pids
    BY <1>2 DEF TsPacket
  <2>. QED BY <1>1, <2>1 DEF Inv, StreamType, AnyKey, AllCiphers
<1>5. /\ new \in TsPacket /\ new.sc = "clear" /\ new.was = Here.was
      /\ new.ran = Append(Here.ran, c) /\ new.with = Here.sc /\ new.key = pidMap[Here.pid]
  <2>1. Append(Here.ran, c) \in Seq(AllCiphers)
    BY <1>2, <1>4 DEF TsPacket
  <2>2. new = [Here EXCEPT !.sc = "clear", !.ran = Append(@, c), !.with = Here.sc,
                           !.key = pidMap[Here.pid]]
    BY <1>2, Zenon DEF Ran
  <2>. HIDE DEF new
  <2>. QED BY <1>1, <1>2, <1>4, <2>1, <2>2 DEF TsPacket, Scrambling, AnyKey
<1>. HIDE DEF new
<1>6. new.ran = <<c>> /\ Once(new)
  <2>1. Here.ran = <<>> /\ Here.sc = Here.was
    BY <1>1, <1>2 DEF Once
  <2>. QED BY <1>1, <1>5, <2>1 DEF Once, Parities
<1>7. CASE buffer' = [buffer EXCEPT ![l] = new] /\ call' = Taken
  <2>1. /\ buffer' \in Seq(TsPacket) /\ Len(buffer') = Len(buffer) /\ buffer'[l] = new
        /\ \A at \in 1 .. Len(buffer) : at # l => buffer'[at] = buffer[at]
    BY <1>2, <1>3, <1>5, <1>7
  <2>2. \A at \in 1 .. Len(buffer) : Once(buffer'[at])
    BY <1>3, <1>6, <2>1
  <2>3. new.ran # <<>>
    BY <1>6
  <2>. QED BY <1>1, <1>5, <1>7, <2>1, <2>2, <2>3 DEF c, l
<1>8. CASE buffer' = buffer /\ call' = [Taken EXCEPT !.excused = TRUE]
  BY <1>1, <1>3, <1>8 DEF c, l
<1>. QED BY <1>1, <1>7, <1>8

(* The call once a packet is taken.                                        *)
LEMMA TakenType ==
  ASSUME call \in Call, pidMap[Here.pid] \in AnyKey, Here.sc \in Parities
  PROVE  /\ Taken \in Call /\ [Taken EXCEPT !.excused = TRUE] \in Call
         /\ \A t \in {Taken, [Taken EXCEPT !.excused = TRUE]} :
              /\ t.pc = call.pc /\ t.l = call.l + 1 /\ t.cur = pidMap[Here.pid]
              /\ t.ranges = call.ranges /\ t.newRange = call.newRange
              /\ t.waited = call.waited /\ t.ccs = call.ccs
         /\ Taken.excused = call.excused /\ [Taken EXCEPT !.excused = TRUE].excused
<1>1. call.l + 1 \in Nat \ {0}
  BY DEF Call
<1>2. Taken = [call EXCEPT !.l = call.l + 1, !.cur = pidMap[Here.pid]]
  BY DEF Taken, Beyond, Call
<1>3. /\ Taken \in Call /\ Taken.pc = call.pc /\ Taken.l = call.l + 1
      /\ Taken.cur = pidMap[Here.pid] /\ Taken.ranges = call.ranges
      /\ Taken.newRange = call.newRange /\ Taken.waited = call.waited
      /\ Taken.ccs = call.ccs
      /\ Taken.excused = call.excused
  BY <1>1, <1>2 DEF Call, AnyKey
<1>. DEFINE t == [Taken EXCEPT !.excused = TRUE]
<1>4. /\ t \in Call /\ t.pc = Taken.pc /\ t.l = Taken.l /\ t.cur = Taken.cur
      /\ t.ranges = Taken.ranges /\ t.newRange = Taken.newRange
      /\ t.waited = Taken.waited /\ t.ccs = Taken.ccs
      /\ t.excused
  BY <1>3 DEF Call
<1>. HIDE DEF t
<1>5. \A x \in {Taken, t} :
        /\ x.pc = call.pc /\ x.l = call.l + 1 /\ x.cur = pidMap[Here.pid]
        /\ x.ranges = call.ranges /\ x.newRange = call.newRange
        /\ x.waited = call.waited /\ x.ccs = call.ccs
  BY <1>3, <1>4
<1>. QED BY <1>3, <1>4, <1>5 DEF t

(* DES and AES: a packet done at once may lie in a range, but is not       *)
(* scrambled any more; a head that waits is of a CSA key.                  *)
LEMMA TakesBlockCipherBatch == ASSUME Inv, TakesBlockCipher PROVE Batch'
<1>1. /\ Scanning /\ call.pc = "scanning" /\ setup' = setup /\ pidMap' = pidMap
      /\ algo' = algo /\ aes' = aes
  BY DEF TakesBlockCipher, Scanning, ciphers
<1>2. /\ call \in Call /\ call.l \in Nat \ {0} /\ Len(buffer) \in Nat
      /\ call.l \in 1 .. Len(buffer) /\ Here \in TsPacket
  BY <1>1, LooksAt
<1>3. /\ Here.sc \in Parities /\ Ours /\ Cipher(pidMap[Here.pid]) \in BlockCiphers
      /\ Len(buffer') = Len(buffer) /\ buffer' \in Seq(TsPacket)
      /\ \A at \in 1 .. Len(buffer) : at # call.l => buffer'[at] = buffer[at]
      /\ \/ buffer'[call.l].sc = "clear" /\ call' = Taken
         \/ buffer' = buffer /\ call' = [Taken EXCEPT !.excused = TRUE]
      /\ \A at \in 1 .. Len(buffer) : Once(buffer'[at])
  BY BlockCipherEffect, Zenon
<1>4. pidMap[Here.pid] \in AnyKey
  <2>1. Here.pid \in Pids
    BY <1>2 DEF TsPacket
  <2>. QED BY <2>1 DEF Inv, StreamType, AnyKey
<1>5. /\ call' \in Call /\ call'.pc = "scanning" /\ call'.l = call.l + 1
      /\ call'.cur = pidMap[Here.pid]
      /\ call'.ranges = call.ranges /\ call'.newRange = call.newRange
      /\ call'.waited = call.waited
      /\ \/ buffer'[call.l].sc = "clear" /\ call'.excused = call.excused
         \/ buffer' = buffer /\ call'.excused
  BY <1>1, <1>2, <1>3, <1>4, TakenType
<1>6. call.ranges # <<>> => call'.cur = call.cur
  BY <1>3, <1>5 DEF Inv, Batch, CallInBuffer, Ours
<1>7. BufferType' /\ CallType'
  BY <1>1, <1>3, <1>5, PacketSetSame DEF Inv, Batch, BufferType, CallType
<1>8. CallInBuffer'
  <2>1. \A r \in 1 .. Len(call.ranges) : call.ranges[r][2] \in Nat
    BY <1>2 DEF Call, Range2
  <2>2. buffer' # <<>>
    BY <1>2, <1>3
  <2>. QED BY <1>1, <1>2, <1>3, <1>5, <1>6, <2>1, <2>2 DEF Inv, Batch, CallInBuffer
<1>9. OnceEach'
  BY <1>3 DEF OnceEach, Once
<1>10. BatchOfKey'
  <2>. DEFINE New(at) == buffer'[at].sc \in Parities => pidMap[buffer'[at].pid] = call'.cur
              end == call.ranges[Len(call.ranges)][2]
  <2>. SUFFICES ASSUME ~call.waited
                PROVE  /\ \A r \in 1 .. Len(call.ranges) :
                            \A at \in call.ranges[r][1] .. call.ranges[r][2] - 1 : New(at)
                       /\ ~call.newRange => \A at \in end .. call.l : New(at)
    BY <1>1, <1>2, <1>5 DEF BatchOfKey, Mine
  <2>1. /\ \A r \in 1 .. Len(call.ranges) :
             \A at \in call.ranges[r][1] .. call.ranges[r][2] - 1 : Mine(at)
        /\ ~call.newRange => \A at \in end .. call.l - 1 : Mine(at)
    BY <1>1 DEF Inv, Batch, BatchOfKey
  <2>2. New(call.l)
    <3>1. buffer' = buffer => buffer'[call.l] = Here
      BY DEF Here
    <3>. QED BY <1>5, <3>1 DEF Parities
  <2>3. \A at \in 1 .. Len(buffer) : at # call.l /\ call.ranges # <<>> /\ Mine(at) => New(at)
    BY <1>1, <1>3, <1>5, <1>6 DEF Mine
  <2>4. CallType /\ CallInBuffer
    BY DEF Inv, Batch
  <2>. HIDE DEF New
  <2>5. ASSUME NEW r \in 1 .. Len(call.ranges),
               NEW at \in call.ranges[r][1] .. call.ranges[r][2] - 1
        PROVE  New(at)
    <3>1. at \in 1 .. Len(buffer) /\ at # call.l /\ call.ranges # <<>>
      BY <1>2, <2>4, RangeBounds
    <3>. QED BY <2>1, <2>3, <3>1
  <2>6. ASSUME ~call.newRange, NEW at \in end .. call.l
        PROVE  New(at)
    <3>1. end \in Nat \ {0} /\ call.ranges # <<>>
      BY <2>4, <2>6, RangeBounds
    <3>. HIDE DEF end
    <3>2. CASE at = call.l
      BY <2>2, <3>2
    <3>3. CASE at # call.l
      <4>1. at \in end .. call.l - 1 /\ at \in 1 .. Len(buffer)
        BY <1>2, <3>1, <3>3
      <4>. QED BY <2>1, <2>3, <2>6, <3>1, <3>3, <4>1
    <3>. QED BY <3>2, <3>3
  <2>. QED BY <2>5, <2>6
<1>11. HeadWaits'
  <2>1. CASE call'.excused
    BY <2>1 DEF HeadWaits
  <2>2. CASE ~call'.excused /\ call.l = 1
    BY <1>5, <2>2 DEF HeadWaits, Parities
  <2>3. CASE ~call'.excused /\ call.l # 1
    <3>1. call.l > 1 /\ buffer'[1] = buffer[1] /\ ~call.excused
      BY <1>2, <1>3, <1>5, <2>3
    <3>2. ~(buffer[1].sc \in Parities /\ buffer[1].offset)
      <4>. SUFFICES ASSUME buffer[1].sc \in Parities, buffer[1].offset PROVE FALSE
        OBVIOUS
      <4>1. call.cur # NoKey /\ Cipher(call.cur) = "csa"
        BY <1>1, <3>1 DEF Inv, Batch, HeadWaits
      <4>2. pidMap[Here.pid] = call.cur
        BY <1>3, <4>1 DEF Ours
      <4>. QED BY <1>3, <4>1, <4>2 DEF BlockCiphers
    <3>. QED BY <3>1, <3>2 DEF HeadWaits
  <2>. QED BY <1>2, <2>1, <2>2, <2>3
<1>. QED BY <1>7, <1>8, <1>9, <1>10, <1>11 DEF Batch

(* A CSA packet is the new end of the last range, or a range of its own.   *)
LEMMA CsaRanges ==
  ASSUME Inv, TakesCsa
  PROVE  /\ call' \in Call /\ call'.pc = "scanning" /\ call'.l = call.l + 1
         /\ call'.cur = pidMap[Here.pid] /\ call'.newRange = FALSE
         /\ call'.excused = call.excused /\ call'.waited = call.waited
         /\ call'.ranges # <<>>
         /\ \A r \in 1 .. Len(call'.ranges) :
              /\ call'.ranges[r][1] \in Nat \ {0} /\ call'.ranges[r][2] \in Nat
              /\ call'.ranges[r][1] < call'.ranges[r][2] /\ call'.ranges[r][2] <= call'.l
              /\ \/ r \in 1 .. Len(call.ranges) /\ call'.ranges[r] = call.ranges[r]
                 \/ /\ call'.ranges[r][2] = call'.l
                    /\ \/ call'.ranges[r][1] = call.l
                       \/ /\ ~call.newRange /\ r = Len(call.ranges)
                          /\ call'.ranges[r][1] = call.ranges[r][1]
         /\ call'.ranges[Len(call'.ranges)][2] = call'.l
         /\ call.ranges # <<>> => call'.ranges[1][1] = call.ranges[1][1]
         /\ call.l = 1 => call'.ranges[1][1] = 1
<1>. DEFINE l == call.l
            old == call.ranges
            L == Len(old)
            new == call'.ranges
<1>1. /\ Scanning /\ Here.sc \in Parities /\ Ours /\ call.pc = "scanning"
      /\ call' = [Taken EXCEPT
                    !.ccs = @ + 1, !.newRange = FALSE,
                    !.ranges = IF call.newRange
                                 THEN Append(@, <<call.l, call.l + 1>>)
                                 ELSE [@ EXCEPT ![Len(@)][2] = call.l + 1]]
  BY DEF TakesCsa, Scanning
<1>2. CallType /\ CallInBuffer /\ call \in Call /\ l \in Nat \ {0} /\ Here \in TsPacket
  BY <1>1, LooksAt DEF Inv, Batch
<1>3. pidMap[Here.pid] \in AnyKey
  <2>1. Here.pid \in Pids
    BY <1>2 DEF TsPacket
  <2>. QED BY <2>1 DEF Inv, StreamType, AnyKey
<1>4. /\ Taken \in Call /\ Taken.pc = "scanning" /\ Taken.l = l + 1
      /\ Taken.cur = pidMap[Here.pid] /\ Taken.ranges = old /\ Taken.waited = call.waited
      /\ Taken.excused = call.excused
  BY <1>1, <1>2, <1>3, TakenType
<1>5. old \in Seq(Range2) /\ L \in Nat
  BY <1>2, RangeBounds
<1>6. /\ new = IF call.newRange THEN Append(old, <<l, l + 1>>)
                                 ELSE [old EXCEPT ![L][2] = l + 1]
      /\ call'.pc = "scanning" /\ call'.l = l + 1 /\ call'.cur = pidMap[Here.pid]
      /\ call'.newRange = FALSE /\ call'.excused = call.excused
      /\ call'.waited = call.waited
      /\ call' = [Taken EXCEPT !.ccs = Taken.ccs + 1, !.newRange = FALSE, !.ranges = new]
      /\ Taken.ccs + 1 \in Nat
  BY <1>1, <1>4 DEF Call
<1>7. \A r \in 1 .. L :
        /\ old[r][1] \in Nat \ {0} /\ old[r][2] \in Nat \ {0}
        /\ old[r][1] < old[r][2] /\ old[r][2] <= l /\ old[r] = <<old[r][1], old[r][2]>>
  <2>1. \A r \in 1 .. L : old[r] = <<old[r][1], old[r][2]>>
    BY <1>5 DEF Range2
  <2>. QED BY <1>2, <2>1, RangeBounds
<1>8. ~call.newRange => L \in 1 .. L
  BY <1>2, RangeBounds
<1>9. l = 1 => old = <<>>
  BY <1>1 DEF Inv, Batch, CallInBuffer
<1>. HIDE DEF l, old, L, new
<1>10. CASE call.newRange
  <2>1. <<l, l + 1>> \in Range2
    BY <1>2 DEF Range2
  <2>2. /\ new \in Seq(Range2) /\ Len(new) = L + 1 /\ new[L + 1] = <<l, l + 1>>
        /\ \A r \in 1 .. L : new[r] = old[r]
    BY <1>5, <1>6, <1>10, <2>1 DEF L
  <2>3. \A r \in 1 .. Len(new) : r = L + 1 \/ r \in 1 .. L
    BY <1>5, <2>2
  <2>4. new # <<>> /\ new[Len(new)][2] = l + 1
    BY <1>5, <2>2
  <2>5. \A r \in 1 .. Len(new) :
          /\ new[r][1] \in Nat \ {0} /\ new[r][2] \in Nat
          /\ new[r][1] < new[r][2] /\ new[r][2] <= l + 1
          /\ \/ r \in 1 .. L /\ new[r] = old[r]
             \/ new[r][2] = l + 1 /\ new[r][1] = l
    BY <1>2, <1>7, <2>2, <2>3 DEF l
  <2>6. old # <<>> => new[1][1] = old[1][1]
    <3>1. old # <<>> => 1 \in 1 .. L
      BY <1>5 DEF L
    <3>. QED BY <2>2, <3>1
  <2>7. l = 1 => new[1][1] = 1
    <3>1. old = <<>> => L = 0
      BY DEF L
    <3>. QED BY <1>9, <2>2, <3>1
  <2>8. call' \in Call
    BY <1>4, <1>6, <2>2 DEF Call
  <2>. QED BY <1>6, <2>4, <2>5, <2>6, <2>7, <2>8 DEF l, old, L, new
<1>11. CASE ~call.newRange
  <2>. DEFINE last == old[L]
  <2>1. L \in 1 .. L /\ last = <<last[1], last[2]>> /\ last[1] \in Nat
    BY <1>7, <1>8, <1>11
  <2>. HIDE DEF last
  <2>2. new = [old EXCEPT ![L] = <<last[1], l + 1>>]
    <3>1. new = [old EXCEPT ![L] = [last EXCEPT ![2] = l + 1]]
      BY <1>6, <1>11 DEF last
    <3>2. [last EXCEPT ![2] = l + 1] = <<last[1], l + 1>>
      BY <2>1
    <3>. QED BY <3>1, <3>2
  <2>3. <<last[1], l + 1>> \in Range2
    BY <1>2, <2>1 DEF Range2, l
  <2>4. /\ new \in Seq(Range2) /\ Len(new) = L /\ new[L] = <<last[1], l + 1>>
        /\ \A r \in 1 .. L : r # L => new[r] = old[r]
    BY <1>5, <2>1, <2>2, <2>3 DEF L
  <2>5. new # <<>> /\ new[Len(new)][2] = l + 1
    BY <2>1, <2>4
  <2>6. \A r \in 1 .. Len(new) :
          /\ new[r][1] \in Nat \ {0} /\ new[r][2] \in Nat
          /\ new[r][1] < new[r][2] /\ new[r][2] <= l + 1
          /\ \/ r \in 1 .. L /\ new[r] = old[r]
             \/ new[r][2] = l + 1 /\ r = L /\ new[r][1] = old[r][1]
    <3>. SUFFICES ASSUME NEW r \in 1 .. L
                  PROVE  /\ new[r][1] \in Nat \ {0} /\ new[r][2] \in Nat
                         /\ new[r][1] < new[r][2] /\ new[r][2] <= l + 1
                         /\ \/ r \in 1 .. L /\ new[r] = old[r]
                            \/ new[r][2] = l + 1 /\ r = L /\ new[r][1] = old[r][1]
      BY <2>4
    <3>1. CASE r = L
      <4>1. new[r][1] = last[1] /\ new[r][2] = l + 1 /\ old[r] = last
        BY <2>4, <3>1 DEF last
      <4>. QED BY <1>2, <1>7, <3>1, <4>1 DEF l
    <3>2. CASE r # L
      BY <1>2, <1>7, <2>4, <3>2 DEF l
    <3>. QED BY <3>1, <3>2
  <2>7. new[1][1] = old[1][1]
    <3>1. 1 \in 1 .. L
      BY <1>5, <2>1
    <3>2. CASE L = 1
      BY <2>4, <3>2 DEF last
    <3>3. CASE L # 1
      BY <2>4, <3>1, <3>3
    <3>. QED BY <3>2, <3>3
  <2>9. old # <<>>
    <3>1. L # 0
      BY <1>5, <2>1
    <3>. QED BY <3>1 DEF L
  <2>8. call' \in Call
    BY <1>4, <1>6, <2>4 DEF Call
  <2>. QED BY <1>6, <1>9, <1>11, <2>5, <2>6, <2>7, <2>8, <2>9 DEF l, old, L, new
<1>. QED BY <1>1, <1>10, <1>11, <1>2 DEF Call

(* CSA: the packet is of the key of the call, and the range that it ends   *)
(* has no packet of another key.                                           *)
LEMMA TakesCsaBatch == ASSUME Inv, TakesCsa PROVE Batch'
<1>1. /\ Scanning /\ call.pc = "scanning" /\ Ours /\ Here.sc \in Parities
      /\ Cipher(pidMap[Here.pid]) = "csa"
      /\ setup' = setup /\ buffer' = buffer /\ pidMap' = pidMap
      /\ algo' = algo /\ aes' = aes
  BY DEF TakesCsa, Scanning, ciphers
<1>2. /\ call.l \in Nat \ {0} /\ Len(buffer) \in Nat \ {0} /\ call.l \in 1 .. Len(buffer)
      /\ CallType /\ CallInBuffer
  BY <1>1, LooksAt DEF Inv, Batch
<1>. DEFINE new == call'.ranges
<1>3. /\ call' \in Call /\ call'.pc = "scanning" /\ call'.l = call.l + 1
      /\ call'.cur = pidMap[Here.pid] /\ call'.newRange = FALSE
      /\ call'.excused = call.excused /\ call'.waited = call.waited
      /\ new # <<>>
      /\ \A r \in 1 .. Len(new) :
           /\ new[r][1] \in Nat \ {0} /\ new[r][2] \in Nat
           /\ new[r][1] < new[r][2] /\ new[r][2] <= call'.l
           /\ \/ r \in 1 .. Len(call.ranges) /\ new[r] = call.ranges[r]
              \/ /\ new[r][2] = call'.l
                 /\ \/ new[r][1] = call.l
                    \/ /\ ~call.newRange /\ r = Len(call.ranges)
                       /\ new[r][1] = call.ranges[r][1]
      /\ new[Len(new)][2] = call'.l
      /\ call.ranges # <<>> => new[1][1] = call.ranges[1][1]
      /\ call.l = 1 => new[1][1] = 1
  BY CsaRanges, Zenon
<1>. HIDE DEF new
<1>4. BufferType' /\ CallType'
  BY <1>1, <1>3, PacketSetSame DEF Inv, Batch, BufferType, CallType
<1>5. CallInBuffer'
  BY <1>1, <1>2, <1>3 DEF CallInBuffer, Ours, new
<1>6. OnceEach'
  BY <1>1 DEF Inv, Batch, OnceEach, Once
<1>7. BatchOfKey'
  <2>. DEFINE New(at) == buffer[at].sc \in Parities => pidMap[buffer[at].pid] = call'.cur
              end == call.ranges[Len(call.ranges)][2]
  <2>. SUFFICES ASSUME ~call.waited, NEW r \in 1 .. Len(new),
                       NEW at \in new[r][1] .. new[r][2] - 1
                PROVE  New(at)
    BY <1>1, <1>2, <1>3 DEF BatchOfKey, Mine, new
  <2>1. /\ \A q \in 1 .. Len(call.ranges) :
             \A k \in call.ranges[q][1] .. call.ranges[q][2] - 1 : Mine(k)
        /\ ~call.newRange => \A k \in end .. call.l - 1 : Mine(k)
    BY <1>1 DEF Inv, Batch, BatchOfKey
  <2>2. New(call.l)
    BY <1>3 DEF Here
  <2>3. call.ranges # <<>> => call'.cur = call.cur
    BY <1>1, <1>2, <1>3 DEF CallInBuffer, Ours
  <2>4. \A k : call.ranges # <<>> /\ Mine(k) => New(k)
    BY <2>3 DEF Mine
  <2>5. \A q \in 1 .. Len(call.ranges) :
          /\ call.ranges # <<>>
          /\ call.ranges[q][1] \in Nat \ {0} /\ call.ranges[q][2] \in Nat \ {0}
    BY <1>2, RangeBounds
  <2>6. ~call.newRange => Len(call.ranges) \in 1 .. Len(call.ranges)
    BY <1>2, RangeBounds
  <2>7. /\ new[r][1] \in Nat \ {0} /\ new[r][2] \in Nat
        /\ \/ r \in 1 .. Len(call.ranges) /\ new[r] = call.ranges[r]
           \/ /\ new[r][2] = call.l + 1
              /\ \/ new[r][1] = call.l
                 \/ /\ ~call.newRange /\ r = Len(call.ranges)
                    /\ new[r][1] = call.ranges[r][1]
    BY <1>3
  <2>. HIDE DEF New
  <2>8. CASE r \in 1 .. Len(call.ranges) /\ new[r] = call.ranges[r]
    BY <2>1, <2>4, <2>5, <2>8
  <2>9. CASE new[r][2] = call.l + 1 /\ new[r][1] = call.l
    <3>1. at = call.l
      BY <1>2, <2>9
    <3>. QED BY <2>2, <3>1
  <2>10. CASE /\ new[r][2] = call.l + 1
              /\ ~call.newRange /\ r = Len(call.ranges) /\ new[r][1] = call.ranges[r][1]
    <3>1. r \in 1 .. Len(call.ranges) /\ end = call.ranges[r][2] /\ end \in Nat
      BY <2>5, <2>6, <2>10
    <3>. HIDE DEF end
    <3>2. \/ at = call.l
          \/ at \in end .. call.l - 1
          \/ at \in call.ranges[r][1] .. end - 1
      <4>1. /\ new[r][1] \in Nat /\ call.l \in Nat /\ end \in Nat
            /\ new[r][2] = call.l + 1 /\ new[r][1] = call.ranges[r][1]
        BY <1>2, <2>7, <2>10, <3>1
      <4>2. at \in new[r][1] .. call.l
        BY <4>1
      <4>. QED BY <4>1, <4>2
    <3>. QED BY <2>1, <2>2, <2>4, <2>5, <2>10, <3>1, <3>2
  <2>. QED BY <2>7, <2>8, <2>9, <2>10
<1>8. HeadWaits'
  <2>. SUFFICES ASSUME buffer[1].sc \in Parities, buffer[1].offset, ~call.excused
                PROVE  /\ new # <<>> /\ new[1][1] = 1
                       /\ call'.cur # NoKey /\ Cipher(call'.cur) = "csa"
    BY <1>1, <1>3 DEF HeadWaits, Cipher, new
  <2>1. call'.cur # NoKey /\ Cipher(call'.cur) = "csa"
    BY <1>1, <1>3 DEF Ours
  <2>2. CASE call.l = 1
    BY <1>3, <2>1, <2>2
  <2>3. CASE call.l # 1
    <3>1. call.l > 1
      BY <1>2, <2>3
    <3>2. call.ranges # <<>> /\ call.ranges[1][1] = 1
      BY <1>1, <3>1 DEF Inv, Batch, HeadWaits
    <3>. QED BY <1>3, <2>1, <3>2
  <2>. QED BY <2>2, <2>3
<1>. QED BY <1>4, <1>5, <1>6, <1>7, <1>8 DEF Batch

(* The scan ends: a head that can be decrypted is in the batch, which is   *)
(* decrypted or has to wait.                                               *)
LEMMA ScanEndsBatch == ASSUME Inv, ScanEnds PROVE Batch'
<1>1. /\ call.pc = "scanning" /\ ~Scanning
      /\ setup' = setup /\ buffer' = buffer /\ pidMap' = pidMap
      /\ algo' = algo /\ aes' = aes
  BY DEF ScanEnds, ciphers
<1>2. call \in Call /\ buffer \in Seq(TsPacket) /\ CallType /\ CallInBuffer
  BY <1>1, LooksAt DEF Inv, Batch, BufferType
<1>3. buffer[1].sc \in Parities /\ buffer[1].offset /\ ~call.excused =>
        /\ call.ranges # <<>> /\ call.ranges[1][1] = 1
        /\ call.cur # NoKey /\ Cipher(call.cur) = "csa"
  BY <1>1, LooksAt DEF Inv, Batch, HeadWaits
<1>4. \/ /\ call' = Returned("block cipher") /\ Cipher(call.cur) \in {"des", "aes"}
      \/ call' = Returned("nothing") /\ call.ranges = <<>>
      \/ call.ranges # <<>> /\ call' = [call EXCEPT !.pc = "decrypting"]
      \/ call.ranges # <<>> /\ call' = [call EXCEPT !.pc = "waiting", !.waited = TRUE]
  BY Zenon DEF ScanEnds
<1>5. ASSUME NEW why \in {"block cipher", "nothing"}, call' = Returned(why),
             ~(buffer[1].sc \in Parities /\ buffer[1].offset /\ ~call.excused)
      PROVE  Batch'
  BY <1>1, <1>5, ReturnsBatch DEF Reasons, Inv, Batch, BufferType, OnceEach
<1>6. CASE call' = Returned("block cipher") /\ Cipher(call.cur) \in {"des", "aes"}
  BY <1>3, <1>5, <1>6
<1>7. CASE call' = Returned("nothing") /\ call.ranges = <<>>
  BY <1>3, <1>5, <1>7
<1>8. ASSUME NEW pc \in {"waiting", "decrypting"}, NEW waited \in BOOLEAN,
             call' = [call EXCEPT !.pc = pc, !.waited = waited],
             pc = "waiting" => waited,
             pc = "decrypting" => waited = call.waited
      PROVE  Batch'
  <2>1. /\ call' \in Call /\ call'.pc = pc /\ call'.waited = waited /\ call'.l = call.l
        /\ call'.ranges = call.ranges /\ call'.newRange = call.newRange
        /\ call'.cur = call.cur /\ call'.excused = call.excused
    BY <1>2, <1>8 DEF Call
  <2>2. BufferType' /\ CallType'
    BY <1>1, <2>1, PacketSetSame DEF Inv, Batch, BufferType, CallType
  <2>3. CallInBuffer'
    BY <1>1, <1>2, <1>8, <2>1 DEF CallInBuffer
  <2>4. OnceEach'
    BY <1>1 DEF Inv, Batch, OnceEach, Once
  <2>5. BatchOfKey'
    BY <1>1, <1>8, <2>1 DEF Inv, Batch, BatchOfKey, Mine
  <2>6. HeadWaits'
    BY <1>1, <1>3, <1>8, <2>1 DEF HeadWaits
  <2>. QED BY <2>2, <2>3, <2>4, <2>5, <2>6 DEF Batch
<1>9. CASE call.ranges # <<>> /\ call' = [call EXCEPT !.pc = "decrypting"]
  <2>1. call.waited \in BOOLEAN
           /\ call' = [call EXCEPT !.pc = "decrypting", !.waited = call.waited]
    BY <1>2, <1>9 DEF Call
  <2>. QED BY <1>8, <1>9, <2>1
<1>10. CASE call.ranges # <<>> /\ call' = [call EXCEPT !.pc = "waiting", !.waited = TRUE]
  BY <1>8, <1>10
<1>. QED BY <1>4, <1>6, <1>7, <1>9, <1>10

(* The wait ends: the batch is decrypted, or the call returns.             *)
LEMMA WaitEndsBatch == ASSUME Inv, WaitEnds PROVE Batch'
<1>1. /\ call.pc = "waiting"
      /\ setup' = setup /\ buffer' = buffer /\ pidMap' = pidMap
      /\ algo' = algo /\ aes' = aes
  BY DEF WaitEnds, ciphers
<1>2. call \in Call /\ call.waited /\ CallInBuffer
  BY <1>1 DEF Inv, Batch, CallType, CallInBuffer
<1>3. \/ call' = Returned("aborted")
      \/ call' = [call EXCEPT !.pc = "decrypting"]
  BY DEF WaitEnds
<1>4. CASE call' = Returned("aborted")
  <2>1. "aborted" \in Reasons
    BY DEF Reasons
  <2>. QED BY <1>1, <1>4, <2>1, ReturnsBatch DEF Inv, Batch, BufferType, OnceEach
<1>5. CASE call' = [call EXCEPT !.pc = "decrypting"]
  <2>1. /\ call' \in Call /\ call'.pc = "decrypting" /\ call'.waited /\ call'.l = call.l
        /\ call'.ranges = call.ranges /\ call'.newRange = call.newRange
        /\ call'.cur = call.cur /\ call'.excused = call.excused
    BY <1>2, <1>5 DEF Call
  <2>2. BufferType' /\ CallType'
    BY <1>1, <2>1, PacketSetSame DEF Inv, Batch, BufferType, CallType
  <2>3. CallInBuffer'
    BY <1>1, <1>2, <2>1 DEF CallInBuffer
  <2>4. OnceEach'
    BY <1>1 DEF Inv, Batch, OnceEach, Once
  <2>5. BatchOfKey'
    BY <1>1, <2>1 DEF BatchOfKey
  <2>6. HeadWaits'
    BY <1>1, <2>1 DEF Inv, Batch, HeadWaits
  <2>. QED BY <2>2, <2>3, <2>4, <2>5, <2>6 DEF Batch
<1>. QED BY <1>3, <1>4, <1>5

(* decrypt_packets only decrypts what is scrambled.                        *)
LEMMA StillOnce ==
  \A p \in TsPacket : \A q :
    /\ Same(p, q) /\ Once(p)
    /\ Leaves(p, q) \/ Clears(p, q) \/ DecryptsIt(p, q)
    => Once(q)
<1>. SUFFICES ASSUME NEW p \in TsPacket, NEW q, Same(p, q), Once(p),
                     Leaves(p, q) \/ Clears(p, q) \/ DecryptsIt(p, q)
              PROVE  Once(q)
  OBVIOUS
<1>1. CASE Leaves(p, q)
  BY <1>1 DEF Leaves
<1>2. CASE Clears(p, q)
  BY <1>2 DEF Clears, Same, Once, Parities
<1>3. CASE DecryptsIt(p, q)
  <2>1. p.ran = <<>> /\ q.ran = Append(p.ran, "csa")
    BY <1>3 DEF DecryptsIt, Once
  <2>2. q.ran = <<"csa">> /\ q.ran # <<>> /\ Len(q.ran) = 1
    BY <2>1
  <2>. QED BY <1>3, <2>1, <2>2 DEF DecryptsIt, Same, Once, Parities
<1>. QED BY <1>1, <1>2, <1>3

(* decrypt_packets: the call returns.                                      *)
LEMMA DecryptsBatch == ASSUME Inv, Decrypts PROVE Batch'
<1>1. /\ call.pc = "decrypting" /\ call' = Returned("decrypted") /\ setup' = setup
      /\ BufferType /\ CallType /\ CallInBuffer
  BY DEF Decrypts, Inv, Batch
<1>2. /\ buffer' \in Seq(TsPacket) /\ Len(buffer') = Len(buffer)
      /\ \A at \in 1 .. Len(buffer) :
           /\ Same(buffer[at], buffer'[at])
           /\ \/ Leaves(buffer[at], buffer'[at]) \/ Clears(buffer[at], buffer'[at])
              \/ DecryptsIt(buffer[at], buffer'[at])
      /\ /\ call.ranges # <<>> /\ call.ranges[1][1] = 1
         /\ buffer[1].sc \in Parities
         => buffer'[1].sc = "clear"
  BY <1>1, DecryptsEffect
<1>3. buffer # <<>> /\ Len(buffer) \in Nat /\ buffer \in Seq(TsPacket)
  BY <1>1 DEF CallInBuffer, BufferType
<1>4. ASSUME NEW at \in 1 .. Len(buffer) PROVE Once(buffer'[at])
  <2>1. Same(buffer[at], buffer'[at]) /\ Once(buffer[at]) /\ buffer[at] \in TsPacket
    BY <1>2, <1>3 DEF Inv, Batch, OnceEach
  <2>. QED BY <1>2, <2>1, StillOnce
<1>5. ~(buffer'[1].sc \in Parities /\ buffer'[1].offset /\ ~call.excused)
  <2>. SUFFICES ASSUME buffer'[1].sc \in Parities, buffer'[1].offset, ~call.excused
                PROVE  FALSE
    OBVIOUS
  <2>1. 1 \in 1 .. Len(buffer)
    BY <1>3
  <2>2. buffer'[1] = buffer[1]
    BY <1>2, <2>1 DEF Leaves, Clears, DecryptsIt, Parities
  <2>3. call.ranges # <<>> /\ call.ranges[1][1] = 1
    BY <1>1, <2>2 DEF Inv, Batch, HeadWaits
  <2>. QED BY <1>2, <2>2, <2>3 DEF Parities
<1>6. "decrypted" \in Reasons /\ call.pc # "idle"
  BY <1>1 DEF Reasons
<1>. QED BY <1>1, <1>2, <1>4, <1>5, <1>6, ReturnsBatch

(* The pid map and the ciphers keep their types.                           *)
LEMMA StreamAndCiphers ==
  ASSUME Inv, [Next]_vars
  PROVE  setup' = setup /\ StreamType' /\ CipherType'
<1>1. setup \in Setups /\ StreamType /\ CipherType
  BY DEF Inv
<1>2. ASSUME setup' = setup, pidMap' = pidMap, algo' = algo, aes' = aes, aesKey' = aesKey, request' = request
      PROVE  StreamType' /\ CipherType'
  BY <1>1, <1>2 DEF StreamType, CipherType, Pids, Keys
<1>3. CASE \/ UNCHANGED vars \/ DeliversClear \/ DecryptStarts \/ RefusesHead \/ Passes
           \/ TakesBlockCipher \/ TakesCsa \/ ScanEnds \/ WaitEnds \/ Decrypts
           \/ Delivers \/ VdrSkips
           \/ \E packet \in NewPacket : PacketArrives(packet)
  <2>1. CASE UNCHANGED vars \/ DeliversClear \/ DecryptStarts \/ RefusesHead \/ Passes
    BY <1>2, <2>1 DEF vars, ciphers, DeliversClear, DecryptStarts, RefusesHead, Passes
  <2>2. CASE TakesBlockCipher \/ TakesCsa \/ ScanEnds \/ WaitEnds
    BY <1>2, <2>2 DEF ciphers, TakesBlockCipher, TakesCsa, ScanEnds, WaitEnds
  <2>3. CASE Decrypts \/ Delivers \/ VdrSkips
    BY <1>2, <2>3 DEF ciphers, Decrypts, Delivers, VdrSkips
  <2>4. CASE \E packet \in NewPacket : PacketArrives(packet)
    BY <1>2, <2>4 DEF ciphers, PacketArrives
  <2>. QED BY <1>3, <2>1, <2>2, <2>3, <2>4
<1>4. ASSUME NEW pid \in Pids, NEW key \in Keys \cup {NoKey}, SetCaPid(pid, key)
      PROVE  setup' = setup /\ StreamType' /\ CipherType'
  BY <1>1, <1>4 DEF SetCaPid, StreamType, CipherType, ciphers, Pids, Keys
<1>5. ASSUME NEW kind \in setup.kinds, NEW key \in Keys, Asks(kind, key)
      PROVE  setup' = setup /\ StreamType' /\ CipherType'
  BY <1>1, <1>5 DEF Asks, StreamType, CipherType, Pids, Keys
<1>6. "none" \notin setup.kinds /\ NoRequest.kind = "none"
  BY DecryptBatchAssumption DEF Inv, NoRequest
<1>7. CASE SetsCw
  BY <1>1, <1>7 DEF SetsCw, StreamType, CipherType, Pids, Keys
<1>8. CASE SetsAesKey
  <2>1. request.key \in Keys
    BY <1>1, <1>6, <1>8 DEF SetsAesKey, CipherType
  <2>. QED BY <1>1, <1>8, <2>1 DEF SetsAesKey, StreamType, CipherType, Pids, Keys
<1>9. ASSUME NEW key \in Keys, NEW mode \in setup.modes, SetsMode(key, mode)
      PROVE  setup' = setup /\ StreamType' /\ CipherType'
  BY <1>1, <1>9 DEF SetsMode, StreamType, CipherType, Pids, Keys
<1>. QED BY <1>3, <1>4, <1>5, <1>7, <1>8, <1>9 DEF Next

(* Every step keeps the invariant.                                         *)
LEMMA StepInv == Inv /\ [Next]_vars => Inv'
<1>. SUFFICES ASSUME Inv, [Next]_vars PROVE Inv'
  OBVIOUS
<1>1. setup' \in Setups /\ StreamType' /\ CipherType'
  BY StreamAndCiphers DEF Inv
<1>2. Batch'
  <2>1. CASE Outside
    BY <2>1, OutsideBatch
  <2>2. CASE DeliversClear \/ VdrSkips \/ \E packet \in NewPacket : PacketArrives(packet)
    BY <2>2, IdleSteps
  <2>3. CASE DecryptStarts
    BY <2>3, DecryptStartsBatch
  <2>4. CASE RefusesHead
    BY <2>4, RefusesHeadBatch
  <2>5. CASE Passes
    BY <2>5, PassesBatch
  <2>6. CASE TakesBlockCipher
    BY <2>6, TakesBlockCipherBatch
  <2>7. CASE TakesCsa
    BY <2>7, TakesCsaBatch
  <2>8. CASE ScanEnds
    BY <2>8, ScanEndsBatch
  <2>9. CASE WaitEnds
    BY <2>9, WaitEndsBatch
  <2>10. CASE Decrypts
    BY <2>10, DecryptsBatch
  <2>11. CASE Delivers
    BY <2>11, DeliversBatch
  <2>12. CASE UNCHANGED vars
    BY <2>12, PacketSetSame
       DEF vars, ciphers, Inv, Batch, BufferType, CallType, CallInBuffer, OnceEach,
           Once, BatchOfKey, Mine, HeadWaits, Cipher
  <2>. QED BY <2>1, <2>2, <2>3, <2>4, <2>5, <2>6, <2>7, <2>8, <2>9, <2>10, <2>11, <2>12
           DEF Next, Outside
<1>. QED BY <1>1, <1>2 DEF Inv

(***************************************************************************)
(* The invariant, for any streams, ways OSCam uses the keys, lengths of    *)
(* payload, sizes of the batch and degrees of parallelism: what a call has *)
(* collected and what ran on each packet.                                  *)
(***************************************************************************)
THEOREM BatchInvariant == Spec => []Inv
<1>1. Init => Inv
  BY InitInv
<1>2. Inv /\ [Next]_vars => Inv'
  BY StepInv
<1>. QED BY <1>1, <1>2, PTL DEF Spec
-----------------------------------------------------------------------------
(* What it says of the properties the run checks.                          *)

(***************************************************************************)
(* TypeOK of DecryptBatch: the buffer, the pid map, the ciphers and the    *)
(* ranges of the call of DeCSAAdapter::Decrypt have their types.           *)
(***************************************************************************)
THEOREM TypeCorrect == Spec => []TypeOK
<1>1. Inv => TypeOK
  <2>. SUFFICES ASSUME Inv PROVE TypeOK
    OBVIOUS
  <2>1. /\ buffer \in Seq(TsPacket) /\ Len(buffer) \in Nat /\ Len(buffer) <= setup.max
        /\ setup.max \in Nat /\ DOMAIN buffer = 1 .. Len(buffer)
        /\ CallType /\ CallInBuffer /\ call \in Call /\ call.l <= Len(buffer) + 1
    BY DecryptBatchAssumption DEF Inv, Batch, BufferType, CallType, CallInBuffer
  <2>2. \A at \in DOMAIN buffer :
          /\ buffer[at].pid \in Pids /\ buffer[at].key \in Keys \cup {NoKey}
          /\ buffer[at].ran \in Seq({"csa", "des", "aes"})
    <3>1. AllCiphers = {"csa", "des", "aes"}
      BY DEF AllCiphers, BlockCiphers
    <3>2. \A at \in DOMAIN buffer : buffer[at] \in TsPacket
      BY <2>1
    <3>. QED BY <3>1, <3>2 DEF TsPacket
  <2>3. /\ request.kind \in setup.kinds \cup {"none"} /\ request.key \in Keys \cup {NoKey}
    BY DEF Inv, CipherType, NoRequest
  <2>4. call.l \in 1 .. setup.max + 1
    BY <2>1 DEF Call
  <2>5. call.ranges \in Seq((1 .. setup.max) \X (2 .. setup.max + 1))
    <3>1. call.ranges \in Seq(Range2) /\ Len(call.ranges) \in Nat
      BY <2>1, RangeBounds
    <3>2. ASSUME NEW r \in 1 .. Len(call.ranges)
          PROVE  call.ranges[r] \in (1 .. setup.max) \X (2 .. setup.max + 1)
      <4>1. call.ranges[r] = <<call.ranges[r][1], call.ranges[r][2]>>
        BY <3>1 DEF Range2
      <4>. DEFINE from == call.ranges[r][1]
                  to == call.ranges[r][2]
                  bound == call.l
                  max == setup.max
      <4>3. from \in Nat /\ to \in Nat /\ 1 <= from /\ from < to /\ to <= bound
        BY <2>1, RangeBounds
      <4>4. bound \in 1 .. max + 1 /\ max \in Nat
        BY <2>1, <2>4
      <4>2. from \in 1 .. max /\ to \in 2 .. max + 1
        <5>. HIDE DEF from, to, bound, max
        <5>. QED BY <4>3, <4>4
      <4>. QED BY <4>1, <4>2
    <3>. DEFINE ranges == call.ranges
                Bounds == (1 .. setup.max) \X (2 .. setup.max + 1)
    <3>3. ranges = [r \in 1 .. Len(ranges) |-> ranges[r]]
      BY <3>1
    <3>4. \A r \in 1 .. Len(ranges) : ranges[r] \in Bounds
      BY <3>2
    <3>5. Len(ranges) \in Nat
      BY <3>1
    <3>. HIDE DEF ranges, Bounds
    <3>6. ranges \in [1 .. Len(ranges) -> Bounds]
      BY <3>3, <3>4
    <3>7. ranges \in Seq(Bounds)
      BY <3>5, <3>6, FunctionIsSeq
    <3>. QED BY <3>7 DEF ranges, Bounds
  <2>. QED BY <2>1, <2>2, <2>3, <2>4, <2>5 DEF TypeOK, Inv, StreamType, CipherType, Call
<1>. QED BY <1>1, BatchInvariant, PTL

(***************************************************************************)
(* DecryptedOnce: no packet in VDR's buffer is decrypted twice, by the     *)
(* call that takes it or by a later one, although the socket thread        *)
(* changes the cipher of its key while the batch is collected.             *)
(***************************************************************************)
THEOREM NoPacketTwice == Spec => []DecryptedOnce
<1>1. Inv => DecryptedOnce
  <2>. SUFFICES ASSUME Inv, NEW at \in DOMAIN buffer
                PROVE  LET p == buffer[at]
                       IN  /\ Len(p.ran) <= 1
                           /\ p.n > 0 /\ p.offset => (p.sc # p.was <=> Len(p.ran) = 1)
                           /\ Len(p.ran) = 1 => p.with = p.was
    BY DEF DecryptedOnce
  <2>. DEFINE p == buffer[at]
  <2>1. p \in TsPacket /\ Once(p)
    BY DEF Inv, Batch, BufferType, OnceEach
  <2>. HIDE DEF p
  <2>2. p.ran \in Seq(AllCiphers) /\ p.n \in Int
    BY <2>1, FFdecsaAssumption DEF TsPacket
  <2>3. p.ran = <<>> <=> Len(p.ran) = 0
    BY <2>2
  <2>4. /\ Len(p.ran) <= 1
        /\ p.n > 0 /\ p.offset => (p.sc # p.was <=> Len(p.ran) = 1)
        /\ Len(p.ran) = 1 => p.with = p.was
    <3>1. CASE p.ran = <<>>
      BY <2>1, <2>2, <2>3, <3>1 DEF Once
    <3>2. CASE p.ran # <<>>
      <4>1. Len(p.ran) = 1 /\ p.with = p.was /\ p.sc = "clear" /\ p.was \in Parities
        BY <2>1, <3>2 DEF Once
      <4>2. p.sc # p.was
        BY <4>1 DEF Parities
      <4>. QED BY <4>1, <4>2
    <3>. QED BY <3>1, <3>2
  <2>. QED BY <2>4 DEF p
<1>. QED BY <1>1, BatchInvariant, PTL

(***************************************************************************)
(* HeadServed: SCCAMSlot::Decrypt gives VDR a packet that is scrambled     *)
(* with a key only when Decrypt refused it, its wait was cancelled, or the *)
(* cipher was changed or had no AES key in the middle of the call.         *)
(***************************************************************************)
THEOREM HeadIsServed == Spec => []HeadServed
<1>1. Inv => HeadServed
  <2>. SUFFICES ASSUME Inv, call.pc = "returned", Head(buffer).sc \in Parities,
                       Head(buffer).offset, ~call.excused
                PROVE  call.why \in {"refused", "aborted"}
    BY DEF HeadServed
  <2>1. Head(buffer) = buffer[1]
    BY DEF Inv, Batch, CallInBuffer, BufferType
  <2>. QED BY <2>1 DEF Inv, Batch, HeadWaits
<1>. QED BY <1>1, BatchInvariant, PTL

(* Two actions write the packets that stay where they are.                 *)
LEMMA StepWrites ==
  ASSUME Inv, [Next]_vars, NEW at \in DOMAIN buffer,
         Len(buffer') = Len(buffer), buffer'[at].ran # buffer[at].ran
  PROVE  TakesBlockCipher \/ Decrypts
<1>1. buffer' # buffer
  OBVIOUS
<1>2. buffer \in Seq(TsPacket) /\ Len(buffer) \in Nat
  BY DEF Inv, Batch, BufferType
<1>3. CASE DeliversClear \/ VdrSkips \/ Delivers
  <2>1. buffer # <<>> /\ buffer' = Tail(buffer)
    BY <1>3 DEF DeliversClear, VdrSkips, Delivers, Inv, Batch, CallInBuffer
  <2>2. Len(Tail(buffer)) = Len(buffer) - 1
    BY <1>2, <2>1
  <2>. QED BY <1>2, <2>1, <2>2
<1>4. CASE \E packet \in NewPacket : PacketArrives(packet)
  <2>1. PICK packet \in NewPacket : buffer' = Append(buffer, packet)
    BY <1>4 DEF PacketArrives
  <2>2. packet \in TsPacket
    BY NewPacketType DEF Inv
  <2>3. Len(buffer') = Len(buffer) + 1
    BY <1>2, <2>1, <2>2
  <2>. QED BY <1>2, <2>3
<1>5. CASE Outside
  BY <1>1, <1>5, OutsideKeeps DEF Inv, Batch
<1>6. CASE \/ UNCHANGED vars \/ DecryptStarts \/ RefusesHead \/ Passes \/ TakesCsa
           \/ ScanEnds \/ WaitEnds
  BY <1>1, <1>6 DEF vars, DecryptStarts, RefusesHead, Passes, TakesCsa, ScanEnds, WaitEnds
<1>. QED BY <1>3, <1>4, <1>5, <1>6 DEF Next, Outside

(***************************************************************************)
(* WithOwnKey: a call that did not wait decrypts each packet with the key  *)
(* its pid has in the pid map.                                             *)
(***************************************************************************)
THEOREM OwnKey == Spec => WithOwnKey
<1>. DEFINE Step == ~call.waited =>
              \A at \in DOMAIN buffer :
                Len(buffer') = Len(buffer) /\ buffer'[at].ran # buffer[at].ran
                  => buffer'[at].key = pidMap[buffer[at].pid]
<1>1. Inv /\ [Next]_vars => Step
  <2>. SUFFICES ASSUME Inv, [Next]_vars, ~call.waited, NEW at \in DOMAIN buffer,
                       Len(buffer') = Len(buffer), buffer'[at].ran # buffer[at].ran
                PROVE  buffer'[at].key = pidMap[buffer[at].pid]
    OBVIOUS
  <2>1. TakesBlockCipher \/ Decrypts
    BY StepWrites
  <2>2. at \in 1 .. Len(buffer) /\ buffer[at] \in TsPacket
    BY DEF Inv, Batch, BufferType
  <2>3. CASE TakesBlockCipher
    <3>1. at = call.l /\ buffer'[call.l].key = pidMap[Here.pid]
      BY <2>2, <2>3, BlockCipherEffect
    <3>. QED BY <3>1 DEF Here
  <2>4. CASE Decrypts
    <3>1. /\ call.pc = "decrypting" /\ BufferType /\ CallType /\ CallInBuffer
      BY <2>4 DEF Decrypts, Inv, Batch
    <3>2. DecryptsIt(buffer[at], buffer'[at]) /\ InRanges(call.ranges, at)
      BY <2>2, <2>4, <3>1, DecryptsEffect DEF Leaves, Clears
    <3>3. Mine(at)
      BY <3>1, <3>2 DEF Inv, Batch, BatchOfKey, InRanges
    <3>. QED BY <3>2, <3>3 DEF DecryptsIt, Mine
  <2>. QED BY <2>1, <2>3, <2>4
<1>2. Inv /\ [Next]_vars => [Step]_vars
  BY <1>1
<1>. QED BY <1>2, BatchInvariant, PTL DEF Spec, WithOwnKey
=============================================================================
