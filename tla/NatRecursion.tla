---------------------------- MODULE NatRecursion ----------------------------
(***************************************************************************)
(* Induction and recursion over natural numbers, stated of sets and        *)
(* functions, so that the lemmas can be used with any of them: the set of  *)
(* the numbers that have a property stands for the property.  And what     *)
(* sequences are that are put together from others.                        *)
(***************************************************************************)
EXTENDS Integers, Sequences, SequencesExt, SequenceTheorems,
        FiniteSetTheorems, WellFoundedInduction, TLAPS

(* A set of natural numbers has a least one.                               *)
LEMMA LeastNumber ==
  \A S \in SUBSET Nat : S # {} => \E m \in S : \A n \in S : m <= n
<1>. SUFFICES ASSUME NEW S \in SUBSET Nat, S # {}
              PROVE  \E m \in S : \A n \in S : m <= n
  OBVIOUS
<1>. DEFINE Less == OpToRel(<, Nat)
<1>1. IsWellFoundedOn(Less, Nat)
  BY NatLessThanWellFounded
<1>2. \A x, y \in Nat : x < y => <<x, y>> \in Less
  BY DEF OpToRel
<1>. HIDE DEF Less
<1>3. PICK m \in S : \A n \in S : ~(<<n, m>> \in Less)
  BY <1>1, WFMin
<1>4. \A n \in S : ~(n < m)
  BY <1>2, <1>3
<1>. QED BY <1>4

(* What holds of 0, and of n + 1 if it holds of n, holds of every number.  *)
LEMMA Induction ==
  \A S : 0 \in S /\ (\A n \in Nat : n \in S => n + 1 \in S) => Nat \subseteq S
<1>. SUFFICES ASSUME NEW S, 0 \in S, \A n \in Nat : n \in S => n + 1 \in S,
                     ~(Nat \subseteq S)
              PROVE  FALSE
  OBVIOUS
<1>1. PICK m \in Nat \ S : \A n \in Nat \ S : m <= n
  BY LeastNumber
<1>2. m # 0 /\ m - 1 \in Nat
  OBVIOUS
<1>3. m - 1 \in S
  BY <1>1, <1>2
<1>4. (m - 1) + 1 = m
  OBVIOUS
<1>. QED BY <1>2, <1>3, <1>4

(* The same up to a number.                                                *)
LEMMA InductionUpTo ==
  ASSUME NEW n \in Nat, NEW S, 0 \in S,
         \A k \in 0 .. n - 1 : k \in S => k + 1 \in S
  PROVE  0 .. n \subseteq S
<1>. DEFINE T == {k \in Nat : k <= n => k \in S}
<1>1. 0 \in T
  OBVIOUS
<1>2. \A k \in Nat : k \in T => k + 1 \in T
  OBVIOUS
<1>3. Nat \subseteq T
  <2>. HIDE DEF T
  <2>. QED BY <1>1, <1>2, Induction
<1>. QED BY <1>3

(* A function on 1 .. n is a sequence.                                     *)
LEMMA FunctionIsSeq ==
  ASSUME NEW S, NEW n \in Nat, NEW f \in [1 .. n -> S]
  PROVE  f \in Seq(S) /\ Len(f) = n
OBVIOUS

\* A step makes the value at n + 1 of n and the value there.
Steps(S) == [Nat \X S -> S]
Iterates(f, base, step) ==
  f[0] = base /\ \A n \in Nat : f[n + 1] = step[<<n, f[n]>>]
IteratesUpTo(L, f, base, step) ==
  f = [k \in 0 .. L |-> IF k = 0 THEN base ELSE step[<<k - 1, f[k - 1]>>]]

(* A first value and a step define a function on the natural numbers.      *)
LEMMA Recursion ==
  \A S : \A base \in S : \A step \in Steps(S) :
    \E f \in [Nat -> S] : Iterates(f, base, step)
<1>. SUFFICES ASSUME NEW S, NEW base \in S, NEW step \in [Nat \X S -> S]
              PROVE  \E f \in [Nat -> S] : Iterates(f, base, step)
  BY DEF Steps
<1>. DEFINE UpTo(n) == {g \in [Nat -> S] :
                          /\ g[0] = base
                          /\ \A i \in 0 .. n - 1 : g[i + 1] = step[<<i, g[i]>>]}
            Defined == {n \in Nat : UpTo(n) # {}}
            Unique  == {n \in Nat : \A g, h \in UpTo(n) : g[n] = h[n]}
<1>1. 0 \in Defined
  <2>1. [n \in Nat |-> base] \in UpTo(0)
    OBVIOUS
  <2>. QED BY <2>1
<1>2. \A n \in Nat : n \in Defined => n + 1 \in Defined
  <2>. SUFFICES ASSUME NEW n \in Nat, n \in Defined PROVE n + 1 \in Defined
    OBVIOUS
  <2>. PICK g \in UpTo(n) : TRUE
    OBVIOUS
  <2>. DEFINE h == [g EXCEPT ![n + 1] = step[<<n, g[n]>>]]
  <2>1. g \in [Nat -> S] /\ step[<<n, g[n]>>] \in S
    OBVIOUS
  <2>2. /\ h \in [Nat -> S] /\ h[n + 1] = step[<<n, g[n]>>]
        /\ \A i \in 0 .. n : h[i] = g[i]
    BY <2>1
  <2>3. ASSUME NEW i \in 0 .. (n + 1) - 1 PROVE h[i + 1] = step[<<i, h[i]>>]
    <3>1. CASE i = n
      BY <3>1, <2>2
    <3>2. CASE i \in 0 .. n - 1
      BY <3>2, <2>2
    <3>. QED BY <3>1, <3>2
  <2>4. h \in UpTo(n + 1)
    BY <2>2, <2>3
  <2>5. n + 1 \in Nat
    OBVIOUS
  <2>. HIDE DEF UpTo
  <2>. QED BY <2>4, <2>5
<1>3. \A n \in Nat : UpTo(n) # {}
  <2>. HIDE DEF UpTo
  <2>1. Nat \subseteq Defined
    BY <1>1, <1>2, Induction
  <2>. QED BY <2>1
<1>4. \A n \in Nat : UpTo(n + 1) \subseteq UpTo(n)
  OBVIOUS
<1>5. 0 \in Unique
  OBVIOUS
<1>6. \A n \in Nat : n \in Unique => n + 1 \in Unique
  <2>. SUFFICES ASSUME NEW n \in Nat, n \in Unique,
                       NEW g \in UpTo(n + 1), NEW h \in UpTo(n + 1)
                PROVE  g[n + 1] = h[n + 1]
    OBVIOUS
  <2>1. g[n] = h[n]
    BY <1>4
  <2>2. g[n + 1] = step[<<n, g[n]>>] /\ h[n + 1] = step[<<n, h[n]>>]
    OBVIOUS
  <2>. QED BY <2>1, <2>2
<1>7. \A n \in Nat : \A g, h \in UpTo(n) : g[n] = h[n]
  <2>. HIDE DEF UpTo
  <2>1. Nat \subseteq Unique
    BY <1>5, <1>6, Induction
  <2>. QED BY <2>1
<1>. DEFINE f == [n \in Nat |-> (CHOOSE g \in UpTo(n) : TRUE)[n]]
<1>8. \A n \in Nat : \A g \in UpTo(n) : f[n] = g[n]
  <2>. HIDE DEF UpTo
  <2>. QED BY <1>3, <1>7
<1>9. ASSUME NEW n \in Nat
      PROVE  \E g \in UpTo(n + 1) : f[n] = g[n] /\ f[n + 1] = g[n + 1]
  <2>. HIDE DEF UpTo, f
  <2>1. n + 1 \in Nat
    OBVIOUS
  <2>2. PICK g \in UpTo(n + 1) : TRUE
    BY <1>3, <2>1
  <2>3. g \in UpTo(n)
    BY <1>4
  <2>. QED BY <1>8, <2>1, <2>2, <2>3
<1>10. f \in [Nat -> S]
  <2>1. \A n \in Nat : f[n] \in S
    BY <1>9
  <2>. QED BY <2>1
<1>11. f[0] = base
  <2>1. \E g \in UpTo(0 + 1) : f[0] = g[0]
    <3>. HIDE DEF UpTo, f
    <3>. QED BY <1>9
  <2>. HIDE DEF f
  <2>. QED BY <2>1
<1>12. ASSUME NEW n \in Nat PROVE f[n + 1] = step[<<n, f[n]>>]
  <2>1. PICK g \in UpTo(n + 1) : f[n] = g[n] /\ f[n + 1] = g[n + 1]
    BY <1>9
  <2>2. g[n + 1] = step[<<n, g[n]>>]
    OBVIOUS
  <2>. QED BY <2>1, <2>2
<1>. HIDE DEF f
<1>. QED BY <1>10, <1>11, <1>12 DEF Iterates

(* The same for a function on 0 .. L, as a recursive definition has it.    *)
LEMMA RecursionUpTo ==
  \A L \in Nat : \A S : \A base \in S : \A step \in Steps(S) :
    \E f \in [0 .. L -> S] : IteratesUpTo(L, f, base, step)
<1>. SUFFICES ASSUME NEW L \in Nat, NEW S, NEW base \in S, NEW step \in Steps(S)
              PROVE  \E f \in [0 .. L -> S] : IteratesUpTo(L, f, base, step)
  OBVIOUS
<1>1. PICK g \in [Nat -> S] : Iterates(g, base, step)
  BY Recursion
<1>. DEFINE f == [k \in 0 .. L |-> g[k]]
<1>2. f \in [0 .. L -> S]
  OBVIOUS
<1>3. ASSUME NEW k \in 0 .. L
      PROVE  f[k] = IF k = 0 THEN base ELSE step[<<k - 1, f[k - 1]>>]
  <2>1. CASE k = 0
    BY <1>1, <2>1 DEF Iterates
  <2>2. CASE k # 0
    <3>1. k - 1 \in Nat /\ (k - 1) + 1 = k /\ k - 1 \in 0 .. L
      BY <2>2
    <3>2. g[(k - 1) + 1] = step[<<k - 1, g[k - 1]>>]
      BY <1>1, <3>1 DEF Iterates
    <3>. QED BY <2>2, <3>1, <3>2
  <2>. QED BY <2>1, <2>2
<1>4. f = [k \in 0 .. L |-> IF k = 0 THEN base ELSE step[<<k - 1, f[k - 1]>>]]
  <2>1. f = [k \in 0 .. L |-> f[k]]
    OBVIOUS
  <2>. HIDE DEF f
  <2>. QED BY <1>3, <2>1
<1>. HIDE DEF f
<1>. QED BY <1>2, <1>4 DEF IteratesUpTo

(* The same with a step for each value of k.                               *)
StepsUpTo(L, S) == [(1 .. L) \X S -> S]
GoesUpTo(L, f, base, T) ==
  f[0] = base /\ \A k \in 1 .. L : f[k] = T[<<k, f[k - 1]>>]

LEMMA RecursionOf ==
  \A L \in Nat : \A S : \A base \in S : \A T \in StepsUpTo(L, S) :
    \E f \in [0 .. L -> S] : GoesUpTo(L, f, base, T)
<1>. SUFFICES ASSUME NEW L \in Nat, NEW S, NEW base \in S, NEW T \in [(1 .. L) \X S -> S]
              PROVE  \E f \in [0 .. L -> S] : GoesUpTo(L, f, base, T)
  BY DEF StepsUpTo
<1>. DEFINE step == [x \in Nat \X S |-> IF x[1] + 1 \in 1 .. L THEN T[<<x[1] + 1, x[2]>>]
                                                              ELSE x[2]]
<1>1. step \in Steps(S)
  <2>. SUFFICES ASSUME NEW x \in Nat \X S
                PROVE  (IF x[1] + 1 \in 1 .. L THEN T[<<x[1] + 1, x[2]>>] ELSE x[2]) \in S
    BY DEF Steps
  <2>. QED OBVIOUS
<1>2. \A n \in Nat, s \in S : n + 1 \in 1 .. L => step[<<n, s>>] = T[<<n + 1, s>>]
  OBVIOUS
<1>. HIDE DEF step
<1>3. PICK f \in [0 .. L -> S] : IteratesUpTo(L, f, base, step)
  BY <1>1, RecursionUpTo
<1>4. f[0] = base
  BY <1>3 DEF IteratesUpTo
<1>5. ASSUME NEW k \in 1 .. L PROVE f[k] = T[<<k, f[k - 1]>>]
  <2>1. k \in 0 .. L /\ k # 0 /\ k - 1 \in 0 .. L /\ (k - 1) + 1 = k /\ k - 1 \in Nat
    OBVIOUS
  <2>2. f[k] = step[<<k - 1, f[k - 1]>>] /\ f[k - 1] \in S
    BY <1>3, <2>1 DEF IteratesUpTo
  <2>. QED BY <1>2, <2>1, <2>2
<1>. QED BY <1>4, <1>5 DEF GoesUpTo

(* A set of numbers from 1 on without a gap is known by its size.          *)
LEMMA WithoutGap ==
  ASSUME NEW L \in Nat, NEW S \in SUBSET (1 .. L),
         \A g \in S : \A h \in 1 .. g : h \in S
  PROVE  S = 1 .. Cardinality(S) /\ Cardinality(S) \in Nat
<1>. DEFINE M == {m \in Nat : m + 1 \notin S}
<1>1. L \in M
  OBVIOUS
<1>2. PICK m \in M : \A k \in M : m <= k
  <2>. HIDE DEF M
  <2>1. M \in SUBSET Nat
    BY DEF M
  <2>. QED BY <1>1, <2>1, LeastNumber
<1>3. m \in Nat /\ m + 1 \notin S
  OBVIOUS
<1>4. ASSUME NEW k \in 1 .. m PROVE k \in S
  <2>1. k - 1 \in Nat /\ (k - 1) + 1 = k /\ ~(m <= k - 1)
    BY <1>3
  <2>2. k - 1 \notin M
    <3>. HIDE DEF M
    <3>. QED BY <1>2, <2>1
  <2>. QED BY <2>1, <2>2
<1>5. ASSUME NEW k \in S PROVE k \in 1 .. m
  <2>1. CASE k > m
    <3>1. m + 1 \in 1 .. k
      BY <1>3, <2>1
    <3>. QED BY <1>3, <3>1
  <2>. QED BY <1>3, <2>1
<1>6. S = 1 .. m
  BY <1>4, <1>5
<1>7. Cardinality(1 .. m) = m
  BY <1>3, FS_Interval
<1>. QED BY <1>3, <1>6, <1>7

(* The recursive function that FlattenSeq is defined with exists.          *)
LEMMA FlattenRecursion ==
  ASSUME NEW S, NEW seqs \in Seq(Seq(S)), Len(seqs) # 0
  PROVE  \E flat : /\ flat[1] = seqs[1] /\ FlattenSeq(seqs) = flat[Len(seqs)]
                   /\ \A i \in 2 .. Len(seqs) : flat[i] = flat[i - 1] \o seqs[i]
<1>. DEFINE L == Len(seqs)
            IsFlat(f) == f = [i \in 1 .. L |-> IF i = 1 THEN seqs[i]
                                               ELSE f[i - 1] \o seqs[i]]
            step == [x \in Nat \X Seq(S) |->
                       IF x[1] + 1 \in 1 .. L THEN x[2] \o seqs[x[1] + 1] ELSE x[2]]
<1>1. L \in Nat \ {0} /\ \A r \in 1 .. L : seqs[r] \in Seq(S)
  OBVIOUS
<1>2. FlattenSeq(seqs) = (CHOOSE f : IsFlat(f))[L]
  BY Zenon DEF FlattenSeq
<1>. HIDE DEF L
<1>3. step \in Steps(Seq(S))
  <2>. SUFFICES ASSUME NEW x \in Nat \X Seq(S)
                PROVE  (IF x[1] + 1 \in 1 .. L THEN x[2] \o seqs[x[1] + 1] ELSE x[2]) \in Seq(S)
    BY DEF Steps
  <2>1. CASE x[1] + 1 \in 1 .. L
    BY <1>1, <2>1
  <2>2. CASE x[1] + 1 \notin 1 .. L
    BY <2>2
  <2>. QED BY <2>1, <2>2
<1>4. \A n \in Nat, s \in Seq(S) :
        n + 1 \in 1 .. L => step[<<n, s>>] = s \o seqs[n + 1]
  OBVIOUS
<1>5. <<>> \in Seq(S)
  OBVIOUS
<1>. HIDE DEF step
<1>6. PICK g \in [0 .. L -> Seq(S)] : IteratesUpTo(L, g, <<>>, step)
  <2>1. L \in Nat
    BY <1>1
  <2>. QED BY <1>3, <1>5, <2>1, RecursionUpTo
<1>. DEFINE h == [i \in 1 .. L |-> g[i]]
<1>7. ASSUME NEW i \in 1 .. L PROVE g[i] = g[i - 1] \o seqs[i]
  <2>1. i \in 0 .. L /\ i # 0 /\ i - 1 \in 0 .. L /\ (i - 1) + 1 = i /\ i - 1 \in Nat
    BY <1>1
  <2>2. g[i] = step[<<i - 1, g[i - 1]>>]
    BY <1>6, <2>1 DEF IteratesUpTo
  <2>. QED BY <1>4, <2>1, <2>2
<1>8. g[0] = <<>>
  BY <1>1, <1>6 DEF IteratesUpTo
<1>9. ASSUME NEW i \in 1 .. L
      PROVE  h[i] = IF i = 1 THEN seqs[i] ELSE h[i - 1] \o seqs[i]
  <2>1. CASE i = 1
    <3>1. g[1] = g[0] \o seqs[1] /\ seqs[1] \in Seq(S)
      <4>1. 1 - 1 = 0
        OBVIOUS
      <4>. QED BY <1>1, <1>7, <2>1, <4>1
    <3>2. g[1] = seqs[1]
      BY <1>8, <3>1, ConcatEmptySeq
    <3>. QED BY <2>1, <3>2
  <2>2. CASE i # 1
    <3>1. i - 1 \in 1 .. L
      BY <1>1, <2>2
    <3>2. h[i] = g[i] /\ h[i - 1] = g[i - 1]
      BY <3>1
    <3>. HIDE DEF h
    <3>. QED BY <1>7, <2>2, <3>2
  <2>. QED BY <2>1, <2>2
<1>10. IsFlat(h)
  <2>1. h = [i \in 1 .. L |-> h[i]]
    OBVIOUS
  <2>. HIDE DEF h
  <2>. QED BY <1>9, <2>1
<1>. DEFINE flat == CHOOSE f : IsFlat(f)
<1>11. IsFlat(flat)
  <2>. HIDE DEF IsFlat, h
  <2>. QED BY <1>10
<1>. HIDE DEF flat
<1>12. flat[1] = seqs[1] /\ \A i \in 2 .. L : flat[i] = flat[i - 1] \o seqs[i]
  <2>1. 1 \in 1 .. L /\ \A i \in 2 .. L : i \in 1 .. L /\ i # 1
    BY <1>1
  <2>2. \A i \in 1 .. L : flat[i] = IF i = 1 THEN seqs[i] ELSE flat[i - 1] \o seqs[i]
    BY <1>11
  <2>. QED BY <2>1, <2>2
<1>13. FlattenSeq(seqs) = flat[L]
  BY <1>2 DEF flat
<1>. QED BY <1>12, <1>13 DEF L

(***************************************************************************)
(* FlattenSeq puts its sequences one behind the other: off[r] is where the *)
(* sequence r + 1 begins, and every place belongs to one of them.          *)
(***************************************************************************)
LEMMA FlattenSegments ==
  ASSUME NEW S, NEW seqs \in Seq(Seq(S)), Len(seqs) # 0
  PROVE  /\ FlattenSeq(seqs) \in Seq(S)
         /\ \E off \in [0 .. Len(seqs) -> Nat] :
              /\ off[0] = 0 /\ off[Len(seqs)] = Len(FlattenSeq(seqs))
              /\ \A r \in 1 .. Len(seqs) :
                   /\ off[r] = off[r - 1] + Len(seqs[r])
                   /\ off[r] <= Len(FlattenSeq(seqs))
                   /\ \A i \in 1 .. Len(seqs[r]) :
                        FlattenSeq(seqs)[off[r - 1] + i] = seqs[r][i]
              /\ \A k \in 1 .. Len(FlattenSeq(seqs)) :
                   \E r \in 1 .. Len(seqs) : k - off[r - 1] \in 1 .. Len(seqs[r])
<1>. DEFINE L == Len(seqs)
<1>1. L \in Nat \ {0} /\ \A r \in 1 .. L : seqs[r] \in Seq(S) /\ Len(seqs[r]) \in Nat
  OBVIOUS
<1>2. PICK flat : /\ flat[1] = seqs[1] /\ FlattenSeq(seqs) = flat[L]
                  /\ \A i \in 2 .. L : flat[i] = flat[i - 1] \o seqs[i]
  BY FlattenRecursion
<1>. HIDE DEF L
<1>3. \A r \in 1 .. L - 1 : flat[r + 1] = flat[r] \o seqs[r + 1] /\ r + 1 \in 1 .. L
  <2>. SUFFICES ASSUME NEW r \in 1 .. L - 1
                PROVE  flat[r + 1] = flat[r] \o seqs[r + 1] /\ r + 1 \in 1 .. L
    OBVIOUS
  <2>1. r + 1 \in 2 .. L /\ (r + 1) - 1 = r /\ r + 1 \in 1 .. L
    BY <1>1
  <2>2. flat[r + 1] = flat[(r + 1) - 1] \o seqs[r + 1]
    BY <1>2, <2>1
  <2>. QED BY <2>1, <2>2
<1>. DEFINE off == [r \in 0 .. L |-> IF r = 0 THEN 0 ELSE Len(flat[r])]
<1>4. off[0] = 0 /\ \A r \in 1 .. L : off[r] = Len(flat[r])
  BY <1>1
<1>. DEFINE Segment(r, q) == /\ off[q] = off[q - 1] + Len(seqs[q])
                             /\ off[q] <= Len(flat[r]) /\ off[q - 1] \in Nat
                             /\ \A i \in 1 .. Len(seqs[q]) :
                                  flat[r][off[q - 1] + i] = seqs[q][i]
            Within(q, k) == k - off[q - 1] \in 1 .. Len(seqs[q])
            Good(r) == /\ flat[r] \in Seq(S)
                       /\ \A q \in 1 .. r : Segment(r, q)
                       /\ \A k \in 1 .. Len(flat[r]) : \E q \in 1 .. r : Within(q, k)
            offIsFcn == off = [r \in 0 .. L |-> off[r]]
<1>5. offIsFcn
  OBVIOUS
<1>. HIDE DEF off
<1>6. Good(1)
  <2>1. flat[1] = seqs[1] /\ seqs[1] \in Seq(S) /\ off[1] = Len(seqs[1]) /\ off[1 - 1] = 0
    BY <1>1, <1>2, <1>4
  <2>2. Segment(1, 1) /\ \A k \in 1 .. Len(flat[1]) : Within(1, k)
    BY <2>1
  <2>. HIDE DEF Segment, Within
  <2>. QED BY <2>1, <2>2
<1>7. ASSUME NEW r \in 1 .. L - 1, Good(r) PROVE Good(r + 1)
  <2>. DEFINE n == r + 1
              s == flat[r]
              t == seqs[n]
              u == flat[n]
  <2>1. r \in Nat /\ n \in 1 .. L /\ n - 1 = r /\ r \in 1 .. L /\ n = r + 1
    BY <1>1
  <2>2. s \in Seq(S) /\ t \in Seq(S) /\ u = s \o t
    <3>1. s \in Seq(S)
      BY <1>7
    <3>2. t \in Seq(S)
      BY <1>1, <2>1
    <3>3. u = s \o t
      BY <1>3
    <3>. QED BY <3>1, <3>2, <3>3
  <2>3. off[r] = Len(s) /\ off[n] = Len(u)
    BY <1>4, <2>1
  <2>4. \A q \in 1 .. r : Segment(r, q) /\ Len(seqs[q]) \in Nat
    <3>. HIDE DEF Segment, Within
    <3>1. \A q \in 1 .. r : q \in 1 .. L
      BY <1>1, <2>1
    <3>2. \A q \in 1 .. r : Segment(r, q)
      BY <1>7
    <3>. QED BY <1>1, <3>1, <3>2
  <2>5. \A k \in 1 .. Len(s) : \E q \in 1 .. r : Within(q, k)
    <3>. HIDE DEF Segment, Within
    <3>. QED BY <1>7
  <2>6. \A q \in 1 .. n : q = n \/ q \in 1 .. r
    BY <2>1
  <2>7. \A q \in 1 .. r : q \in 1 .. n
    BY <2>1
  <2>. HIDE DEF n, s, t, Good
  <2>8. /\ Len(s) \in Nat /\ Len(t) \in Nat /\ u \in Seq(S)
        /\ Len(u) = Len(s) + Len(t)
        /\ \A k \in 1 .. Len(s) : u[k] = s[k]
        /\ \A k \in 1 .. Len(t) : u[Len(s) + k] = t[k]
    <3>. HIDE DEF u
    <3>. QED BY <2>2
  <2>. HIDE DEF u
  <2>9. ASSUME NEW q \in 1 .. n PROVE Segment(n, q)
    <3>1. CASE q = n
      <4>1. off[n] = off[n - 1] + Len(seqs[n]) /\ off[n] <= Len(flat[n]) /\ off[n - 1] \in Nat
        <5>1. off[n - 1] = Len(s) /\ off[n] = Len(u)
          BY <2>1, <2>3
        <5>2. off[n] = off[n - 1] + Len(t) /\ off[n] <= Len(u) /\ off[n - 1] \in Nat
          BY <2>8, <5>1
        <5>. QED BY <5>2 DEF t, u
      <4>2. \A i \in 1 .. Len(seqs[n]) : flat[n][off[n - 1] + i] = seqs[n][i]
        BY <2>1, <2>3, <2>8 DEF t, u
      <4>. QED BY <3>1, <4>1, <4>2
    <3>2. CASE q \in 1 .. r
      <4>. DEFINE o == off[q - 1]
                  w == seqs[q]
      <4>1. /\ off[q] = o + Len(w) /\ off[q] <= Len(s) /\ o \in Nat /\ Len(w) \in Nat
            /\ \A i \in 1 .. Len(w) : s[o + i] = w[i]
        BY <2>4, <3>2 DEF s
      <4>. HIDE DEF o, w
      <4>2. \A i \in 1 .. Len(w) : o + i \in 1 .. Len(s)
        BY <2>8, <4>1
      <4>3. \A i \in 1 .. Len(w) : u[o + i] = w[i]
        BY <2>8, <4>1, <4>2
      <4>4. off[q] <= Len(u)
        BY <2>8, <4>1
      <4>. QED BY <4>1, <4>3, <4>4 DEF o, w, u
    <3>. QED BY <2>6, <3>1, <3>2
  <2>10. ASSUME NEW k \in 1 .. Len(u) PROVE \E q \in 1 .. n : Within(q, k)
    <3>1. CASE k \in 1 .. Len(s)
      <4>. HIDE DEF Within
      <4>. QED BY <2>5, <2>7, <3>1
    <3>2. CASE k \notin 1 .. Len(s)
      <4>1. k - Len(s) \in 1 .. Len(t)
        BY <2>8, <3>2
      <4>2. Within(n, k)
        BY <2>1, <2>3, <4>1 DEF t
      <4>3. n \in 1 .. n
        BY <2>1
      <4>. HIDE DEF Within
      <4>. QED BY <4>2, <4>3
    <3>. QED BY <3>1, <3>2
  <2>. HIDE DEF Segment, Within
  <2>11. Good(n)
    BY <2>8, <2>9, <2>10 DEF Good, u
  <2>. QED BY <2>11 DEF n
<1>8. Good(L)
  <2>. HIDE DEF Good
  <2>. DEFINE T == {n \in Nat : Good(n + 1)}
  <2>1. 0 \in T
    BY <1>6
  <2>2. L - 1 \in Nat /\ (L - 1) + 1 = L /\ L - 1 \in 0 .. L - 1
    BY <1>1
  <2>3. \A k \in 0 .. (L - 1) - 1 : k \in T => k + 1 \in T
    <3>. SUFFICES ASSUME NEW k \in 0 .. (L - 1) - 1, k \in T PROVE k + 1 \in T
      OBVIOUS
    <3>1. k + 1 \in 1 .. L - 1 /\ k + 1 \in Nat
      BY <1>1
    <3>. QED BY <1>7, <3>1
  <2>4. 0 .. L - 1 \subseteq T
    <3>. HIDE DEF T
    <3>. QED BY <2>1, <2>2, <2>3, InductionUpTo
  <2>. QED BY <2>2, <2>4
<1>9. /\ flat[L] \in Seq(S) /\ \A q \in 1 .. L : Segment(L, q)
      /\ \A k \in 1 .. Len(flat[L]) : \E q \in 1 .. L : Within(q, k)
  <2>. HIDE DEF Segment, Within
  <2>. QED BY <1>8
<1>10. off \in [0 .. L -> Nat]
  <2>1. ASSUME NEW r \in 0 .. L PROVE off[r] \in Nat
    <3>1. CASE r = L
      BY <1>1, <1>4, <1>9, <3>1
    <3>2. CASE r # L
      <4>1. r + 1 \in 1 .. L /\ (r + 1) - 1 = r
        BY <1>1, <3>2
      <4>. QED BY <1>9, <4>1
    <3>. QED BY <3>1, <3>2
  <2>. QED BY <1>5, <2>1
<1>11. off[L] = Len(flat[L])
  BY <1>1, <1>4
<1>12. /\ off[0] = 0 /\ off[L] = Len(FlattenSeq(seqs))
       /\ \A r \in 1 .. L :
            /\ off[r] = off[r - 1] + Len(seqs[r])
            /\ off[r] <= Len(FlattenSeq(seqs))
            /\ \A i \in 1 .. Len(seqs[r]) :
                 FlattenSeq(seqs)[off[r - 1] + i] = seqs[r][i]
       /\ \A k \in 1 .. Len(FlattenSeq(seqs)) :
            \E r \in 1 .. L : k - off[r - 1] \in 1 .. Len(seqs[r])
  BY <1>2, <1>4, <1>9, <1>11
<1>13. FlattenSeq(seqs) \in Seq(S)
  BY <1>2, <1>9
<1>. HIDE DEF Segment, Within, Good, offIsFcn
<1>. QED BY <1>10, <1>12, <1>13 DEF L

(* One sequence behind another.                                            *)
LEMMA JoinedSequences ==
  ASSUME NEW S, NEW s \in Seq(S), NEW t \in Seq(S)
  PROVE  /\ s \o t \in Seq(S) /\ Len(s \o t) = Len(s) + Len(t)
         /\ \A i \in 1 .. Len(s) : (s \o t)[i] = s[i]
         /\ \A i \in 1 .. Len(t) : (s \o t)[Len(s) + i] = t[i]
OBVIOUS

(* The sequence without its element i.                                     *)
LEMMA RemovedElement ==
  ASSUME NEW S, NEW s \in Seq(S), NEW i \in 1 .. Len(s)
  PROVE  /\ RemoveAt(s, i) \in Seq(S) /\ Len(RemoveAt(s, i)) = Len(s) - 1
         /\ \A j \in 1 .. Len(s) - 1 : RemoveAt(s, i)[j] = IF j < i THEN s[j] ELSE s[j + 1]
<1>. DEFINE head == SubSeq(s, 1, i - 1)
            tail == SubSeq(s, i + 1, Len(s))
            all  == head \o tail
<1>1. /\ head \in Seq(S) /\ Len(head) = i - 1
      /\ \A j \in 1 .. i - 1 : head[j] = s[j]
  BY SubSeqProperties
<1>2. /\ tail \in Seq(S) /\ Len(tail) = Len(s) - i
      /\ \A j \in 1 .. Len(s) - i : tail[j] = s[i + j]
  BY SubSeqProperties
<1>3. RemoveAt(s, i) = all
  BY DEF RemoveAt
<1>. HIDE DEF head, tail
<1>4. /\ all \in Seq(S) /\ Len(all) = Len(head) + Len(tail)
      /\ \A j \in 1 .. Len(head) : all[j] = head[j]
      /\ \A j \in 1 .. Len(tail) : all[Len(head) + j] = tail[j]
  <2>1. head \in Seq(S) /\ tail \in Seq(S)
    BY <1>1, <1>2
  <2>. QED BY <2>1, JoinedSequences
<1>. HIDE DEF all
<1>5. ASSUME NEW j \in 1 .. Len(s) - 1
      PROVE  all[j] = IF j < i THEN s[j] ELSE s[j + 1]
  <2>1. CASE j < i
    BY <1>1, <1>4, <2>1
  <2>2. CASE ~(j < i)
    <3>1. j - (i - 1) \in 1 .. Len(s) - i /\ (i - 1) + (j - (i - 1)) = j /\ i + (j - (i - 1)) = j + 1
      BY <2>2
    <3>2. all[(i - 1) + (j - (i - 1))] = tail[j - (i - 1)]
      BY <1>1, <1>2, <1>4, <3>1
    <3>. QED BY <1>2, <2>2, <3>1, <3>2
  <2>. QED BY <2>1, <2>2
<1>6. Len(all) = Len(s) - 1
  BY <1>1, <1>2, <1>4
<1>. QED BY <1>3, <1>4, <1>5, <1>6
=============================================================================
