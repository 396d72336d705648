------------------------- MODULE SectionFilterProofs -------------------------
(***************************************************************************)
(* The section filter, for every payload and header length, continuity     *)
(* counter, section length, filter and table, and bound.                   *)
(***************************************************************************)
EXTENDS SectionFilter, NatRecursion

-----------------------------------------------------------------------------
(* Cutting sections from packets.                                          *)

ByteAt(k, i, l) == [section |-> k, offset |-> i, len |-> l]

\* The first q bytes of section k of length l, and the assembly of them.
Prefix(k, l, q) == [i \in 1 .. q |-> ByteAt(k, i, l)]
Assembly(k, l, q, c) ==
  [section |-> Prefix(k, l, q), sectionLen |-> IF q >= HeaderLen THEN l ELSE 0,
   lastcc |-> c]
Idle(c) == [section |-> <<>>, sectionLen |-> 0, lastcc |-> c]

(* Two sequences of the same length and the same elements are equal.       *)
LEMMA SameSeq ==
  ASSUME NEW S, NEW T, NEW s \in Seq(S), NEW t \in Seq(T), Len(s) = Len(t),
         \A i \in 1 .. Len(s) : s[i] = t[i]
  PROVE  s = t
BY SeqEqual

(* A slice of a sequence.                                                  *)
LEMMA Slice ==
  ASSUME NEW S, NEW s \in Seq(S), NEW a \in 1 .. Len(s) + 1, NEW b \in a - 1 .. Len(s)
  PROVE  /\ SubSeq(s, a, b) \in Seq(S) /\ Len(SubSeq(s, a, b)) = b - a + 1
         /\ \A i \in 1 .. b - a + 1 : SubSeq(s, a, b)[i] = s[a + i - 1]
BY SubSeqProperties

(* What a byte of a section says.                                          *)
LEMMA ByteFields ==
  \A k, i, l : /\ ByteAt(k, i, l).section = k /\ ByteAt(k, i, l).offset = i
               /\ ByteAt(k, i, l).len = l
BY DEF ByteAt

(* The bytes of a section are bytes.                                       *)
LEMMA PrefixType ==
  ASSUME NEW k \in Nat, NEW l \in Lengths, NEW q \in Nat
  PROVE  /\ Prefix(k, l, q) \in Seq(Byte) /\ Len(Prefix(k, l, q)) = q
         /\ \A i \in 1 .. q : Prefix(k, l, q)[i] = ByteAt(k, i, l)
<1>1. \A i \in 1 .. q : ByteAt(k, i, l) \in Byte
  BY DEF ByteAt, Byte
<1>. QED BY <1>1 DEF Prefix

(* All the bytes of a section are the section.                             *)
LEMMA PrefixIsSection ==
  ASSUME NEW k \in Nat, NEW l \in Lengths
  PROVE  Prefix(k, l, l) = Section(k, l)
BY DEF Prefix, Section, ByteAt

(* A section is its bytes.                                                 *)
LEMMA SectionType ==
  ASSUME NEW k \in Nat, NEW l \in Lengths
  PROVE  /\ Section(k, l) \in Seq(Byte) /\ Len(Section(k, l)) = l
         /\ \A i \in 1 .. l : Section(k, l)[i] = ByteAt(k, i, l)
<1>1. l \in Nat
  BY TsSectionsAssumption
<1>. QED BY <1>1, PrefixType, PrefixIsSection

(* Nothing of a section is no assembly.                                    *)
LEMMA NoPrefix ==
  ASSUME NEW k, NEW l, NEW c
  PROVE  Assembly(k, l, 0, c) = Idle(c)
<1>1. Prefix(k, l, 0) = <<>>
  BY DEF Prefix
<1>2. ~(0 >= HeaderLen)
  BY TsSectionsAssumption
<1>. QED BY <1>1, <1>2 DEF Assembly, Idle

(* Bytes that are those of a section are its prefix.                       *)
LEMMA BytesOfPrefix ==
  ASSUME NEW k \in Nat, NEW l \in Lengths, NEW q \in Nat, NEW s \in Seq(Byte),
         Len(s) = q, \A i \in 1 .. q : s[i] = ByteAt(k, i, l)
  PROVE  s = Prefix(k, l, q)
<1>. DEFINE t == Prefix(k, l, q)
<1>1. t \in Seq(Byte) /\ Len(t) = Len(s)
  BY PrefixType
<1>2. \A i \in 1 .. Len(s) : s[i] = t[i]
  BY PrefixType
<1>. HIDE DEF t
<1>3. s = t
  BY <1>1, <1>2, SeqEqual
<1>. QED BY <1>3 DEF t

(* The header says how long the section is.                                *)
LEMMA LengthOfHeader ==
  ASSUME NEW k \in Nat \ {0}, NEW l \in Lengths, NEW s \in Seq(Byte),
         Len(s) >= HeaderLen, \A i \in 1 .. HeaderLen : s[i] = ByteAt(k, i, l)
  PROVE  LengthOf(s) = l
<1>1. HeaderLen \in Nat \ {0}
  BY TsSectionsAssumption
<1>2. \A i \in 1 .. HeaderLen : s[i].section # 0 /\ s[i].offset = i
  BY ByteFields
<1>3. s[1].len = l
  BY <1>1, ByteFields
<1>. QED BY <1>2, <1>3 DEF LengthOf

(***************************************************************************)
(* Collect goes on with a section wherever it was divided, in its header   *)
(* too, and cuts it when its last byte is there; what follows is stuffing. *)
(***************************************************************************)
LEMMA CollectsSection ==
  ASSUME NEW k \in Nat \ {0}, NEW l \in Lengths, NEW q \in 0 .. l - 1, NEW c,
         NEW data \in Seq(Byte),
         \A i \in 1 .. Len(data) : q + i <= l => data[i] = ByteAt(k, q + i, l)
  PROVE  Collect(Assembly(k, l, q, c), data) =
           IF q + Len(data) >= l
             THEN [pf |-> Idle(c), cut |-> << Section(k, l) >>]
             ELSE [pf |-> Assembly(k, l, q + Len(data), c), cut |-> <<>>]
<1>. DEFINE d    == Len(data)
            h    == HeaderLen
            take == IF q >= h THEN Smaller(d, l - q) ELSE d
            part == SubSeq(data, 1, take)
            more == Prefix(k, l, q) \o part
            len  == IF ~(q >= h) /\ Len(more) >= h THEN LengthOf(more)
                    ELSE IF q >= h THEN l ELSE 0
            kept == IF ~(q >= h) /\ Len(more) >= h
                      THEN SubSeq(more, 1, Smaller(len, Len(more))) ELSE more
<1>1. h \in Nat \ {0} /\ l \in Nat /\ l >= h /\ q \in Nat /\ q < l /\ d \in Nat
  BY TsSectionsAssumption
<1>2. Collect(Assembly(k, l, q, c), data) =
        IF len # 0 /\ Len(kept) = len
          THEN [pf |-> Idle(c), cut |-> << kept >>]
          ELSE [pf |-> [section |-> kept, sectionLen |-> len, lastcc |-> c], cut |-> <<>>]
  <2>1. /\ Assembly(k, l, q, c).section = Prefix(k, l, q)
        /\ Assembly(k, l, q, c).sectionLen = IF q >= h THEN l ELSE 0
        /\ Len(Prefix(k, l, q)) = q
    BY <1>1, PrefixType DEF Assembly
  <2>2. Assembly(k, l, q, c).lastcc = c
    BY DEF Assembly
  <2>3. Dropped(Assembly(k, l, q, c)) = Idle(c)
    BY DEF Dropped, Assembly, Idle
  <2>4. (IF q >= h THEN l ELSE 0) = 0 <=> ~(q >= h)
    BY <1>1
  <2>. QED BY <2>1, <2>2, <2>3, <2>4 DEF Collect
<1>3. take \in 0 .. d /\ take = (IF q >= h THEN Smaller(d, l - q) ELSE d)
  BY <1>1 DEF Smaller
<1>4. part \in Seq(Byte) /\ Len(part) = take /\ \A i \in 1 .. take : part[i] = data[i]
  <2>1. 1 \in 1 .. Len(data) + 1 /\ take \in 1 - 1 .. Len(data)
    BY <1>1, <1>3
  <2>. HIDE DEF take
  <2>. QED BY <1>1, <1>3, <2>1, Slice
<1>. HIDE DEF part
<1>5. /\ more \in Seq(Byte) /\ Len(more) = q + take
      /\ \A i \in 1 .. q + take : i <= l => more[i] = ByteAt(k, i, l)
  <2>1. /\ Prefix(k, l, q) \in Seq(Byte) /\ Len(Prefix(k, l, q)) = q
        /\ \A i \in 1 .. q : Prefix(k, l, q)[i] = ByteAt(k, i, l)
    BY <1>1, PrefixType
  <2>. HIDE DEF take
  <2>2. /\ more \in Seq(Byte) /\ Len(more) = q + take
        /\ \A i \in 1 .. q : more[i] = Prefix(k, l, q)[i]
        /\ \A i \in 1 .. take : more[q + i] = part[i]
    <3>. DEFINE pre == Prefix(k, l, q)
    <3>1. pre \in Seq(Byte) /\ part \in Seq(Byte) /\ Len(pre) = q /\ Len(part) = take
          /\ q \in Nat /\ take \in Nat
      BY <1>1, <1>3, <1>4, <2>1
    <3>. HIDE DEF pre
    <3>2. /\ pre \o part \in Seq(Byte) /\ Len(pre \o part) = q + take
          /\ \A i \in 1 .. q : (pre \o part)[i] = pre[i]
          /\ \A i \in 1 .. take : (pre \o part)[q + i] = part[i]
      <4>1. /\ pre \o part \in Seq(Byte) /\ Len(pre \o part) = Len(pre) + Len(part)
            /\ \A i \in 1 .. Len(pre) : (pre \o part)[i] = pre[i]
            /\ \A i \in 1 .. Len(part) : (pre \o part)[Len(pre) + i] = part[i]
        <5>1. pre \in Seq(Byte) /\ part \in Seq(Byte)
          BY <3>1
        <5>. QED BY <5>1, JoinedSequences
      <4>. QED BY <3>1, <4>1
    <3>. QED BY <3>2 DEF pre
  <2>3. ASSUME NEW i \in 1 .. q + take, i <= l PROVE more[i] = ByteAt(k, i, l)
    <3>1. CASE i <= q
      BY <1>1, <2>1, <2>2, <2>3, <3>1
    <3>2. CASE i > q
      <4>1. i - q \in 1 .. take /\ i - q \in 1 .. Len(data) /\ q + (i - q) = i
        BY <1>1, <1>3, <2>3, <3>2
      <4>2. more[q + (i - q)] = part[i - q] /\ part[i - q] = data[i - q]
        BY <1>4, <2>2, <4>1
      <4>3. data[i - q] = ByteAt(k, q + (i - q), l)
        BY <2>3, <4>1
      <4>. QED BY <4>1, <4>2, <4>3
    <3>3. i <= q \/ i > q
      BY <1>1
    <3>. QED BY <3>1, <3>2, <3>3
  <2>. QED BY <2>2, <2>3
<1>. HIDE DEF more
<1>6. CASE q >= h
  <2>1. len = l /\ kept = more
    BY <1>6
  <2>2. more = Prefix(k, l, q + take)
    <3>1. q + take <= l /\ q + take \in Nat
      BY <1>1, <1>3, <1>6 DEF Smaller
    <3>2. \A i \in 1 .. q + take : more[i] = ByteAt(k, i, l)
      BY <1>1, <1>3, <1>5, <3>1
    <3>. HIDE DEF take
    <3>. QED BY <1>5, <3>1, <3>2, BytesOfPrefix
  <2>3. CASE q + d >= l
    <3>1. q + take = l
      BY <1>1, <1>3, <1>6, <2>3 DEF Smaller
    <3>2. kept = Section(k, l) /\ Len(kept) = l
      BY <1>5, <2>1, <2>2, <3>1, PrefixIsSection
    <3>. HIDE DEF len, kept
    <3>. QED BY <1>1, <1>2, <2>1, <2>3, <3>2
  <2>4. CASE ~(q + d >= l)
    <3>1. q + take = q + d /\ q + d # l /\ q + d >= h
      BY <1>1, <1>3, <1>6, <2>4 DEF Smaller
    <3>2. kept = Prefix(k, l, q + d) /\ Len(kept) # len
      BY <1>5, <2>1, <2>2, <3>1
    <3>. HIDE DEF len, kept
    <3>. QED BY <1>1, <1>2, <2>1, <2>4, <3>1, <3>2 DEF Assembly
  <2>. QED BY <2>3, <2>4
<1>7. CASE ~(q >= h) /\ q + d >= h
  <2>1. take = d /\ Len(more) = q + d
    BY <1>3, <1>5, <1>7
  <2>2. LengthOf(more) = l
    <3>1. \A i \in 1 .. HeaderLen : more[i] = ByteAt(k, i, l)
      BY <1>1, <1>5, <1>7, <2>1
    <3>. QED BY <1>1, <1>5, <1>7, <2>1, <3>1, LengthOfHeader
  <2>3. len = l /\ kept = SubSeq(more, 1, Smaller(l, q + d))
    BY <1>7, <2>1, <2>2
  <2>4. Smaller(l, q + d) \in 0 .. q + d /\ Smaller(l, q + d) <= l
    BY <1>1 DEF Smaller
  <2>5. /\ kept \in Seq(Byte) /\ Len(kept) = Smaller(l, q + d)
        /\ \A i \in 1 .. Smaller(l, q + d) : kept[i] = more[i]
    <3>1. 1 \in 1 .. Len(more) + 1 /\ Smaller(l, q + d) \in 1 - 1 .. Len(more)
      BY <1>1, <2>1, <2>4
    <3>. HIDE DEF kept, len, take
    <3>. QED BY <1>5, <2>3, <2>4, <3>1, Slice
  <2>6. kept = Prefix(k, l, Smaller(l, q + d))
    <3>1. \A i \in 1 .. Smaller(l, q + d) : kept[i] = ByteAt(k, i, l)
      BY <1>1, <1>5, <2>1, <2>4, <2>5
    <3>2. Smaller(l, q + d) \in Nat
      BY <1>1, <2>4
    <3>. HIDE DEF kept
    <3>. QED BY <2>5, <3>1, <3>2, BytesOfPrefix
  <2>. HIDE DEF kept, len
  <2>7. CASE q + d >= l
    <3>1. Smaller(l, q + d) = l
      BY <1>1, <2>7 DEF Smaller
    <3>2. kept = Section(k, l) /\ Len(kept) = l
      BY <2>5, <2>6, <3>1, PrefixIsSection
    <3>3. len # 0 /\ Len(kept) = len
      <4>1. l # 0
        BY <1>1
      <4>2. len = l
        BY <2>3
      <4>. QED BY <3>2, <4>1, <4>2
    <3>. QED BY <1>2, <2>7, <3>2, <3>3
  <2>8. CASE ~(q + d >= l)
    <3>1. Smaller(l, q + d) = q + d /\ q + d # l
      BY <1>1, <2>8 DEF Smaller
    <3>2. kept = Prefix(k, l, q + d) /\ Len(kept) # len
      BY <2>3, <2>5, <2>6, <3>1
    <3>. QED BY <1>1, <1>2, <1>7, <2>3, <2>8, <3>1, <3>2 DEF Assembly
  <2>. QED BY <2>7, <2>8
<1>8. CASE ~(q >= h) /\ ~(q + d >= h)
  <2>1. take = d /\ Len(more) = q + d /\ q + d < l /\ q + d \in Nat
    BY <1>1, <1>3, <1>5, <1>8
  <2>2. len = 0 /\ kept = more
    BY <1>8, <2>1
  <2>3. more = Prefix(k, l, q + d)
    <3>1. \A i \in 1 .. q + d : more[i] = ByteAt(k, i, l)
      BY <1>1, <1>5, <2>1
    <3>. QED BY <1>5, <2>1, <3>1, BytesOfPrefix
  <2>. HIDE DEF kept, len
  <2>. QED BY <1>1, <1>2, <1>8, <2>1, <2>2, <2>3 DEF Assembly
<1>. QED BY <1>6, <1>7, <1>8

\* Where sections of these lengths end, one behind the other.
Offsets(off, lens) ==
  /\ off \in [0 .. Len(lens) -> Nat] /\ off[0] = 0
  /\ \A r \in 1 .. Len(lens) : off[r] = off[r - 1] + lens[r]

\* Bytes that are the sections after the section "first", as far as there is
\* room; the last one starts in them, and stuffing follows it.
Packed(body, first, lens, off) ==
  /\ Offsets(off, lens)
  /\ \A r \in 1 .. Len(lens) : \A i \in 1 .. lens[r] :
       off[r - 1] + i <= Len(body) => body[off[r - 1] + i] = ByteAt(first + r, i, lens[r])
  /\ \A k \in 1 .. Len(body) : k > off[Len(lens)] => body[k] = Stuffing
  /\ \A k \in 1 .. off[Len(lens)] : \E r \in 1 .. Len(lens) : k - off[r - 1] \in 1 .. lens[r]
  /\ off[Len(lens) - 1] < Len(body)

\* How many of the sections end in the first m bytes.
Whole(lens, off, m) == IF off[Len(lens)] <= m THEN Len(lens) ELSE Len(lens) - 1

\* The result of the first m bytes: these sections, and the start of the last.
Gives(first, lens, off, m, c) ==
  LET n == Len(lens)
      g == Whole(lens, off, m)
  IN  [pf  |-> IF g = n THEN Idle(c) ELSE Assembly(first + n, lens[n], m - off[n - 1], c),
       cut |-> [r \in 1 .. g |-> Section(first + r, lens[r])]]

(* A later section ends later.                                             *)
LEMMA OffsetsGrow ==
  ASSUME NEW lens \in Seq(Lengths), NEW off, Offsets(off, lens)
  PROVE  \A j \in 0 .. Len(lens) : off[j] \in Nat /\ off[j] >= j
                                   /\ \A i \in 0 .. j : off[i] <= off[j]
<1>. DEFINE n == Len(lens)
            Grown(j) == off[j] >= j /\ \A i \in 0 .. j : off[i] <= off[j]
            T == {j \in Nat : j <= n => Grown(j)}
<1>1. n \in Nat /\ \A r \in 1 .. n : lens[r] \in Nat /\ lens[r] >= 1
  <2>1. \A r \in 1 .. n : lens[r] \in Lengths
    OBVIOUS
  <2>2. \A l \in Lengths : l \in Nat /\ l >= 1
    BY TsSectionsAssumption
  <2>. QED BY <2>1, <2>2
<1>2. /\ off \in [0 .. n -> Nat] /\ off[0] = 0
      /\ \A r \in 1 .. n : off[r] = off[r - 1] + lens[r]
  BY DEF Offsets
<1>. HIDE DEF n
<1>3. 0 \in T
  BY <1>2
<1>4. \A j \in 0 .. n - 1 : j \in T => j + 1 \in T
  <2>. SUFFICES ASSUME NEW j \in 0 .. n - 1, Grown(j) PROVE Grown(j + 1)
    BY <1>1
  <2>1. j + 1 \in 1 .. n /\ (j + 1) - 1 = j /\ j \in 0 .. n
    BY <1>1
  <2>2. off[j + 1] = off[j] + lens[j + 1] /\ lens[j + 1] \in Nat /\ lens[j + 1] >= 1
    BY <1>1, <1>2, <2>1
  <2>3. off[j] \in Nat /\ off[j + 1] >= j + 1 /\ off[j] <= off[j + 1]
    BY <1>2, <2>1, <2>2
  <2>4. \A i \in 0 .. j + 1 : i \in 0 .. j \/ i = j + 1
    BY <1>1
  <2>5. \A i \in 0 .. j : off[i] \in Nat
    BY <1>1, <1>2
  <2>6. off[j + 1] \in Nat
    BY <1>2, <2>1
  <2>. QED BY <2>3, <2>4, <2>5, <2>6
<1>5. 0 .. n \subseteq T
  <2>. HIDE DEF T
  <2>. QED BY <1>1, <1>3, <1>4, InductionUpTo
<1>6. \A j \in 0 .. n : Grown(j) /\ off[j] \in Nat
  BY <1>1, <1>2, <1>5
<1>. QED BY <1>6 DEF n

(***************************************************************************)
(* From the sections that are packed in a payload, CutFrom takes all that  *)
(* end in it, in order; what there is of the last one goes on.             *)
(***************************************************************************)
LEMMA CutsPacked ==
  ASSUME NEW first \in Nat, NEW lens \in Seq(Lengths), Len(lens) # 0,
         NEW body \in Seq(Byte), NEW off, Packed(body, first, lens, off), NEW old
  PROVE  CutFrom(old, body) = Gives(first, lens, off, Len(body), old.lastcc)
<1>. SUFFICES ASSUME NEW n, n = Len(lens),
                     NEW g, g = IF off[n] <= Len(body) THEN n ELSE n - 1
     PROVE  CutFrom(old, body) =
              [pf  |-> IF g = n THEN Idle(old.lastcc)
                       ELSE Assembly(first + n, lens[n], Len(body) - off[n - 1], old.lastcc),
               cut |-> [r \in 1 .. g |-> Section(first + r, lens[r])]]
  BY DEF Gives, Whole
<1>. DEFINE m    == Len(body)
            Cuts(k) == [r \in 1 .. k |-> Section(first + r, lens[r])]
            W(k) == [at |-> off[k] + 1, cut |-> Cuts(k)]
            V(k) == W(IF k <= g THEN k ELSE g)
<1>1. /\ n \in Nat \ {0} /\ m \in Nat /\ HeaderLen \in Nat \ {0}
      /\ \A r \in 1 .. n : lens[r] \in Lengths /\ lens[r] \in Nat /\ lens[r] >= HeaderLen
  <2>1. n \in Nat \ {0} /\ \A r \in 1 .. n : lens[r] \in Lengths
    OBVIOUS
  <2>2. HeaderLen \in Nat \ {0} /\ \A l \in Lengths : l \in Nat /\ l >= HeaderLen
    BY TsSectionsAssumption
  <2>. QED BY <2>1, <2>2
<1>2. /\ off \in [0 .. n -> Nat] /\ off[0] = 0
      /\ \A r \in 1 .. n : off[r] = off[r - 1] + lens[r]
      /\ \A r \in 1 .. n : \A i \in 1 .. lens[r] :
           off[r - 1] + i <= m => body[off[r - 1] + i] = ByteAt(first + r, i, lens[r])
      /\ \A k \in 1 .. m : k > off[n] => body[k] = Stuffing
      /\ off[n - 1] < m
  BY DEF Packed, Offsets
<1>3. \A j \in 0 .. n : off[j] \in Nat /\ off[j] >= j /\ \A i \in 0 .. j : off[i] <= off[j]
  BY OffsetsGrow DEF Packed
<1>. HIDE DEF m
<1>4. /\ g \in 0 .. n /\ g \in 0 .. m /\ g \in Nat
      /\ \A k \in 0 .. g : off[k] <= m /\ off[k] \in Nat
      /\ g # n => g = n - 1 /\ off[n] > m
  <2>1. CASE off[n] <= m
    <3>1. g = n /\ off[n] \in Nat /\ off[n] >= n
      BY <1>1, <1>3, <2>1 DEF m
    <3>2. \A k \in 0 .. g : off[k] <= off[n] /\ off[k] \in Nat
      BY <1>1, <1>3, <3>1
    <3>. QED BY <1>1, <2>1, <3>1, <3>2
  <2>2. CASE ~(off[n] <= m)
    <3>1. g = n - 1 /\ off[n - 1] \in Nat /\ off[n - 1] >= n - 1 /\ off[n] \in Nat
      BY <1>1, <1>3, <2>2 DEF m
    <3>2. \A k \in 0 .. g : off[k] <= off[n - 1] /\ off[k] \in Nat
      BY <1>1, <1>3, <3>1
    <3>3. off[n - 1] <= m /\ off[n] > m
      BY <1>1, <1>2, <2>2, <3>1
    <3>4. g \in 0 .. n /\ g \in 0 .. m /\ g \in Nat
      BY <1>1, <3>1, <3>3
    <3>5. \A k \in 0 .. g : off[k] <= m /\ off[k] \in Nat
      BY <1>1, <3>1, <3>2, <3>3
    <3>. QED BY <3>1, <3>3, <3>4, <3>5
  <2>. QED BY <2>1, <2>2
<1>. DEFINE Rest(k) == From(body, off[k] + 1)
<1>5. ASSUME NEW k \in 0 .. g
      PROVE  /\ Rest(k) \in Seq(Byte) /\ Len(Rest(k)) = m - off[k]
             /\ \A i \in 1 .. m - off[k] : Rest(k)[i] = body[off[k] + i]
  <2>1. off[k] \in Nat /\ off[k] <= m
    BY <1>4
  <2>2. off[k] + 1 \in 1 .. m + 1 /\ m \in (off[k] + 1) - 1 .. m
    BY <1>1, <2>1
  <2>. DEFINE a == off[k] + 1
  <2>3. a \in 1 .. Len(body) + 1 /\ Len(body) \in a - 1 .. Len(body)
    BY <2>2 DEF m
  <2>. HIDE DEF a
  <2>4. /\ From(body, a) \in Seq(Byte) /\ Len(From(body, a)) = Len(body) - a + 1
        /\ \A i \in 1 .. Len(body) - a + 1 : From(body, a)[i] = body[a + i - 1]
    BY <2>3, Slice DEF From
  <2>5. Len(body) - a + 1 = m - off[k] /\ \A i \in Nat : a + i - 1 = off[k] + i
    BY <1>1, <2>1 DEF a, m
  <2>6. /\ Rest(k) = From(body, a) /\ m - off[k] \in Nat
        /\ \A i \in 1 .. m - off[k] : i \in Nat
    BY <1>1, <2>1 DEF a
  <2>. HIDE DEF Rest
  <2>7. ASSUME NEW i \in 1 .. m - off[k] PROVE Rest(k)[i] = body[off[k] + i]
    <3>1. i \in 1 .. Len(body) - a + 1 /\ a + i - 1 = off[k] + i
      BY <2>5, <2>6
    <3>. QED BY <2>4, <2>6, <3>1
  <2>. QED BY <2>4, <2>5, <2>6, <2>7
<1>. HIDE DEF Rest
<1>6. ASSUME NEW k \in 0 .. g, k < n, NEW i \in 1 .. Len(Rest(k)), i <= lens[k + 1]
      PROVE  Rest(k)[i] = ByteAt(first + (k + 1), i, lens[k + 1])
  <2>1. k + 1 \in 1 .. n /\ (k + 1) - 1 = k /\ off[k] \in Nat /\ off[k] <= m
    BY <1>1, <1>4, <1>6
  <2>2. i \in 1 .. m - off[k] /\ i \in 1 .. lens[k + 1] /\ off[k] + i <= m
    <3>1. Len(Rest(k)) = m - off[k]
      BY <1>5
    <3>2. i \in 1 .. m - off[k]
      BY <1>6, <3>1
    <3>. QED BY <1>1, <1>6, <2>1, <3>2
  <2>3. Rest(k)[i] = body[off[k] + i]
    BY <1>5, <2>2
  <2>4. body[off[(k + 1) - 1] + i] = ByteAt(first + (k + 1), i, lens[k + 1])
    <3>1. off[(k + 1) - 1] + i <= m
      BY <2>1, <2>2
    <3>. QED BY <1>2, <2>1, <2>2, <3>1
  <2>. QED BY <2>1, <2>3, <2>4
<1>9. ASSUME NEW k \in 0 .. n
      PROVE  /\ Cuts(k) \in Seq(Seq(Byte)) /\ Len(Cuts(k)) = k
             /\ \A r \in 1 .. k : Cuts(k)[r] = Section(first + r, lens[r])
  <2>1. k \in Nat /\ \A r \in 1 .. k : first + r \in Nat /\ r \in 1 .. n
    BY <1>1
  <2>2. ASSUME NEW r \in 1 .. k PROVE Section(first + r, lens[r]) \in Seq(Byte)
    <3>1. first + r \in Nat /\ lens[r] \in Lengths /\ lens[r] \in Nat
      BY <1>1, <2>1
    <3>. QED BY <3>1, SectionType
  <2>. QED BY <2>1, <2>2
<1>. HIDE DEF Cuts
<1>7. ASSUME NEW k \in 0 .. g, k < g PROVE Taken(W(k), body) = W(k + 1)
  <2>. DEFINE rest == Rest(k)
              l    == lens[k + 1]
              j    == first + (k + 1)
  <2>1. /\ k + 1 \in 1 .. n /\ k < n /\ k + 1 \in 0 .. g /\ (k + 1) - 1 = k /\ k \in Nat
        /\ j \in Nat \ {0} /\ l \in Lengths /\ l \in Nat /\ l >= HeaderLen
        /\ off[k + 1] = off[k] + l /\ off[k] \in Nat /\ off[k + 1] <= m
    <3>1. k + 1 \in 1 .. n /\ k < n /\ k + 1 \in 0 .. g /\ (k + 1) - 1 = k /\ k \in Nat
      BY <1>1, <1>4, <1>7
    <3>2. j \in Nat \ {0}
      BY <3>1
    <3>. QED BY <1>1, <1>2, <1>4, <3>1, <3>2
  <2>2. rest \in Seq(Byte) /\ Len(rest) = m - off[k] /\ l <= Len(rest)
    <3>1. rest \in Seq(Byte) /\ Len(rest) = m - off[k]
      BY <1>5
    <3>. QED BY <1>1, <2>1, <3>1
  <2>3. ASSUME NEW i \in 1 .. l PROVE rest[i] = ByteAt(j, i, l)
    <3>1. k < n /\ i \in 1 .. Len(Rest(k)) /\ i <= lens[k + 1]
      BY <1>1, <2>1, <2>2
    <3>. QED BY <1>6, <3>1
  <2>. HIDE DEF rest, l, j
  <2>4. rest # <<>> /\ rest[1] # Stuffing
    <3>1. rest[1] = ByteAt(j, 1, l) /\ Len(rest) # 0
      BY <1>1, <2>1, <2>2, <2>3
    <3>2. rest[1].section # 0
      BY <2>1, <3>1, ByteFields
    <3>. QED BY <3>1, <3>2 DEF Stuffing
  <2>5. LengthOf(rest) = l /\ Len(rest) >= HeaderLen
    <3>1. Len(rest) >= HeaderLen /\ \A i \in 1 .. HeaderLen : rest[i] = ByteAt(j, i, l)
      BY <1>1, <2>1, <2>2, <2>3
    <3>. QED BY <2>1, <2>2, <3>1, LengthOfHeader
  <2>6. SubSeq(rest, 1, l) = Section(j, l)
    <3>. DEFINE part == SubSeq(rest, 1, l)
    <3>1. /\ part \in Seq(Byte) /\ Len(part) = l
          /\ \A i \in 1 .. l : part[i] = rest[i]
      <4>1. 1 \in 1 .. Len(rest) + 1 /\ l \in 1 - 1 .. Len(rest)
        BY <2>1, <2>2
      <4>2. /\ part \in Seq(Byte) /\ Len(part) = l - 1 + 1
            /\ \A i \in 1 .. l - 1 + 1 : part[i] = rest[1 + i - 1]
        BY <2>2, <4>1, Slice
      <4>. HIDE DEF part
      <4>. QED BY <2>1, <4>2
    <3>. HIDE DEF part
    <3>2. \A i \in 1 .. l : part[i] = ByteAt(j, i, l)
      BY <2>3, <3>1
    <3>3. part = Prefix(j, l, l)
      BY <2>1, <3>1, <3>2, BytesOfPrefix
    <3>. QED BY <2>1, <3>3, PrefixIsSection DEF part
  <2>7. Append(Cuts(k), Section(j, l)) = Cuts(k + 1)
    <3>1. /\ Cuts(k) \in Seq(Seq(Byte)) /\ Cuts(k + 1) \in Seq(Seq(Byte))
          /\ Len(Cuts(k)) = k /\ Len(Cuts(k + 1)) = k + 1
          /\ \A r \in 1 .. k : Cuts(k)[r] = Cuts(k + 1)[r]
          /\ Cuts(k + 1)[k + 1] = Section(j, l)
      <4>1. k + 1 \in 0 .. n /\ k \in 0 .. n /\ k + 1 \in 1 .. k + 1
        BY <2>1
      <4>2. /\ Cuts(k) \in Seq(Seq(Byte)) /\ Len(Cuts(k)) = k
            /\ \A r \in 1 .. k : Cuts(k)[r] = Section(first + r, lens[r])
        BY <1>9, <4>1
      <4>3. /\ Cuts(k + 1) \in Seq(Seq(Byte)) /\ Len(Cuts(k + 1)) = k + 1
            /\ \A r \in 1 .. k + 1 : Cuts(k + 1)[r] = Section(first + r, lens[r])
        BY <1>9, <4>1
      <4>4. \A r \in 1 .. k : r \in 1 .. k + 1
        BY <2>1
      <4>5. \A r \in 1 .. k : Cuts(k)[r] = Cuts(k + 1)[r]
        BY <4>2, <4>3, <4>4
      <4>6. Cuts(k + 1)[k + 1] = Section(j, l)
        BY <4>1, <4>3 DEF j, l
      <4>. QED BY <4>2, <4>3, <4>5, <4>6
    <3>2. Section(j, l) \in Seq(Byte)
      BY <2>1, SectionType
    <3>. DEFINE a == Cuts(k)  b == Cuts(k + 1)  x == Section(j, l)  c == Append(a, x)
    <3>3. /\ a \in Seq(Seq(Byte)) /\ Len(a) = k /\ x \in Seq(Byte)
          /\ b \in Seq(Seq(Byte)) /\ Len(b) = k + 1 /\ b[k + 1] = x
          /\ \A r \in 1 .. k : a[r] = b[r]
      <4>1. a \in Seq(Seq(Byte)) /\ Len(a) = k /\ x \in Seq(Byte)
        BY <3>1, <3>2
      <4>2. b \in Seq(Seq(Byte)) /\ Len(b) = k + 1 /\ b[k + 1] = x
        BY <3>1
      <4>3. \A r \in 1 .. k : a[r] = b[r]
        BY <3>1
      <4>. QED BY <4>1, <4>2, <4>3
    <3>. HIDE DEF a, b, x
    <3>4. /\ c \in Seq(Seq(Byte)) /\ Len(c) = k + 1 /\ c[k + 1] = x
          /\ \A r \in 1 .. k : c[r] = a[r]
      BY <2>1, <3>3, AppendProperties
    <3>. HIDE DEF c
    <3>5. \A r \in 1 .. k + 1 : c[r] = b[r]
      <4>1. \A r \in 1 .. k + 1 : r \in 1 .. k \/ r = k + 1
        BY <2>1
      <4>. QED BY <3>3, <3>4, <4>1
    <3>6. c = b
      BY <3>3, <3>4, <3>5, SeqEqual
    <3>. QED BY <3>6 DEF a, b, x, c
  <2>. QED
    <3>1. W(k).at = off[k] + 1 /\ W(k).cut = Cuts(k) /\ From(body, W(k).at) = rest
      BY DEF rest, Rest
    <3>2. Taken(W(k), body) = [at |-> W(k).at + l, cut |-> Append(Cuts(k), Section(j, l))]
      <4>. HIDE DEF W
      <4>. QED BY <2>2, <2>4, <2>5, <2>6, <3>1 DEF Taken
    <3>3. off[k] + 1 + l = off[k + 1] + 1
      BY <2>1
    <3>. QED BY <2>7, <3>1, <3>2, <3>3
<1>8. /\ Taken(W(g), body) = W(g)
      /\ g = n <=> (Rest(g) = <<>> \/ Rest(g)[1] = Stuffing)
  <2>. DEFINE rest == Rest(g)
  <2>1. rest \in Seq(Byte) /\ Len(rest) = m - off[g] /\ off[g] \in Nat /\ off[g] <= m
    BY <1>4, <1>5
  <2>2. W(g).at = off[g] + 1 /\ From(body, W(g).at) = rest
    BY DEF rest, Rest
  <2>3. CASE g = n
    <3>1. rest = <<>> \/ rest[1] = Stuffing
      <4>1. CASE off[g] = m
        <5>. HIDE DEF rest
        <5>. QED BY <1>1, <2>1, <4>1
      <4>2. CASE off[g] < m
        <5>1. rest[1] = body[off[g] + 1]
          <6>1. 1 \in 1 .. m - off[g] /\ g \in 0 .. g
            BY <1>1, <1>4, <2>1, <4>2
          <6>2. Rest(g)[1] = body[off[g] + 1]
            BY <1>5, <6>1
          <6>. QED BY <6>2
        <5>2. off[g] + 1 \in 1 .. m /\ off[g] + 1 > off[n]
          BY <1>1, <2>1, <2>3, <4>2
        <5>. QED BY <1>2, <5>1, <5>2
      <4>. QED BY <1>1, <2>1, <4>1, <4>2
    <3>. HIDE DEF rest, W
    <3>2. Taken(W(g), body) = W(g)
      BY <2>2, <3>1 DEF Taken
    <3>. QED BY <2>3, <3>1, <3>2 DEF rest
  <2>4. CASE g # n
    <3>. DEFINE l == lens[n]
                j == first + n
    <3>1. /\ g + 1 = n /\ g < n /\ off[n] > m /\ off[n] = off[g] + l /\ off[g] < m
          /\ l \in Lengths /\ l \in Nat /\ l >= HeaderLen /\ j \in Nat \ {0}
      <4>1. g = n - 1 /\ off[n] > m /\ n \in 1 .. n
        BY <1>1, <1>4, <2>4
      <4>2. off[n] = off[n - 1] + lens[n] /\ off[n - 1] < m
        BY <1>2, <4>1
      <4>. QED BY <1>1, <4>1, <4>2
    <3>2. \A i \in 1 .. Len(rest) : i <= l => rest[i] = ByteAt(j, i, l)
      <4>1. g \in 0 .. g /\ g < n /\ first + (g + 1) = first + n
        BY <1>4, <3>1
      <4>. QED BY <1>6, <3>1, <4>1
    <3>. HIDE DEF rest, l, j
    <3>3. Len(rest) < l /\ Len(rest) # 0 /\ 1 \in 1 .. Len(rest) /\ 1 <= l
      BY <1>1, <2>1, <3>1
    <3>4. rest # <<>> /\ rest[1] # Stuffing
      <4>1. rest[1] = ByteAt(j, 1, l)
        BY <3>2, <3>3
      <4>2. rest[1].section # 0
        BY <3>1, <4>1, ByteFields
      <4>. QED BY <3>3, <4>2 DEF Stuffing
    <3>5. Len(rest) >= HeaderLen => LengthOf(rest) = l
      <4>. SUFFICES ASSUME Len(rest) >= HeaderLen PROVE LengthOf(rest) = l
        OBVIOUS
      <4>1. \A i \in 1 .. HeaderLen : rest[i] = ByteAt(j, i, l)
        BY <1>1, <2>1, <3>1, <3>2
      <4>. QED BY <2>1, <3>1, <4>1, LengthOfHeader
    <3>6. ~(Len(rest) >= HeaderLen /\ LengthOf(rest) <= Len(rest))
      <4>1. Len(rest) \in Nat
        BY <2>1
      <4>. QED BY <3>1, <3>3, <3>5, <4>1
    <3>7. Taken(W(g), body) = W(g)
      <4>. HIDE DEF W
      <4>. QED BY <2>2, <3>6 DEF Taken
    <3>. QED BY <2>4, <3>4, <3>7 DEF rest
  <2>. QED BY <2>3, <2>4
<1>. DEFINE start      == [at |-> 1, cut |-> <<>>]
            IsWalk(f)  == f = [k \in 0 .. m |-> IF k = 0 THEN start ELSE Taken(f[k - 1], body)]
            walk       == CHOOSE f : IsWalk(f)
<1>10. V(0) = start /\ \A k \in 0 .. m - 1 : Taken(V(k), body) = V(k + 1)
  <2>1. Cuts(0) = <<>>
    <3>1. Cuts(0) \in Seq(Seq(Byte)) /\ Len(Cuts(0)) = 0
      BY <1>1, <1>9
    <3>. QED BY <3>1
  <2>2. V(0) = start
    BY <1>2, <1>4, <2>1
  <2>3. ASSUME NEW k \in 0 .. m - 1 PROVE Taken(V(k), body) = V(k + 1)
    <3>. HIDE DEF W
    <3>1. CASE k < g
      <4>1. k \in 0 .. g /\ V(k) = W(k) /\ V(k + 1) = W(k + 1)
        BY <1>1, <1>4, <3>1
      <4>. QED BY <1>7, <3>1, <4>1
    <3>2. CASE ~(k < g)
      <4>1. V(k) = W(g) /\ V(k + 1) = W(g)
        BY <1>1, <1>4, <3>2
      <4>. QED BY <1>8, <4>1
    <3>. QED BY <3>1, <3>2
  <2>. QED BY <2>2, <2>3
<1>11. IsWalk(walk)
  <2>. DEFINE f == [k \in 0 .. m |-> V(k)]
  <2>1. ASSUME NEW k \in 0 .. m
        PROVE  f[k] = IF k = 0 THEN start ELSE Taken(f[k - 1], body)
    <3>. HIDE DEF V, start
    <3>1. CASE k = 0
      BY <1>10, <3>1
    <3>2. CASE k # 0
      <4>1. k - 1 \in 0 .. m - 1 /\ k - 1 \in 0 .. m /\ (k - 1) + 1 = k
        BY <1>1, <3>2
      <4>2. f[k - 1] = V(k - 1) /\ f[k] = V(k)
        BY <4>1
      <4>. QED BY <1>10, <3>2, <4>1, <4>2
    <3>. QED BY <3>1, <3>2
  <2>2. f = [k \in 0 .. m |-> f[k]]
    OBVIOUS
  <2>. HIDE DEF f
  <2>3. IsWalk(f)
    BY <2>1, <2>2
  <2>. HIDE DEF IsWalk
  <2>. QED BY <2>3
<1>12. walk[m] = W(g)
  <2>. DEFINE T == {k \in Nat : k <= m => walk[k] = V(k)}
  <2>1. 0 \in T
    <3>. HIDE DEF V, walk, start
    <3>1. walk[0] = start
      BY <1>1, <1>11
    <3>. QED BY <1>10, <3>1
  <2>2. \A k \in 0 .. m - 1 : k \in T => k + 1 \in T
    <3>. SUFFICES ASSUME NEW k \in 0 .. m - 1, walk[k] = V(k) PROVE walk[k + 1] = V(k + 1)
      <4>. HIDE DEF walk, V
      <4>. QED BY <1>1
    <3>. HIDE DEF V, walk, start
    <3>1. k + 1 \in 0 .. m /\ k + 1 # 0 /\ (k + 1) - 1 = k
      BY <1>1
    <3>2. walk[k + 1] = Taken(walk[(k + 1) - 1], body)
      BY <1>11, <3>1
    <3>. QED BY <1>10, <3>1, <3>2
  <2>3. 0 .. m \subseteq T
    <3>. HIDE DEF T
    <3>. QED BY <1>1, <2>1, <2>2, InductionUpTo
  <2>4. walk[m] = V(m)
    <3>. HIDE DEF walk, V
    <3>. QED BY <1>1, <2>3
  <2>5. V(m) = W(g)
    <3>. HIDE DEF W
    <3>. QED BY <1>1, <1>4
  <2>. QED BY <2>4, <2>5
<1>. HIDE DEF walk
<1>13. CutFrom(old, body) =
         LET end  == walk[m]
             rest == From(body, end.at)
         IN  IF rest = <<>> \/ rest[1] = Stuffing
               THEN [pf |-> Dropped(old), cut |-> end.cut]
               ELSE LET result == Collect(Dropped(old), rest)
                    IN  [pf |-> result.pf, cut |-> end.cut \o result.cut]
  BY Zenon DEF CutFrom, walk, IsWalk, m, start
<1>14. Dropped(old) = Idle(old.lastcc)
  BY DEF Dropped, Idle
<1>15. W(g).at = off[g] + 1 /\ W(g).cut = Cuts(g) /\ From(body, W(g).at) = Rest(g)
  BY DEF Rest
<1>. HIDE DEF W
<1>16. CASE g = n
  <2>1. CutFrom(old, body) = [pf |-> Idle(old.lastcc), cut |-> Cuts(g)]
    BY <1>8, <1>12, <1>13, <1>14, <1>15, <1>16
  <2>. QED BY <1>16, <2>1 DEF Cuts
<1>17. CASE g # n
  <2>. DEFINE rest == Rest(g)
              l    == lens[n]
              j    == first + n
              c    == old.lastcc
  <2>1. /\ g = n - 1 /\ g + 1 = n /\ g < n /\ off[n] > m /\ off[n] = off[g] + l
        /\ off[g] \in Nat /\ off[g] < m
        /\ l \in Lengths /\ l \in Nat /\ j \in Nat \ {0} /\ first + (g + 1) = j
    <3>1. g = n - 1 /\ off[n] > m /\ n \in 1 .. n
      BY <1>1, <1>4, <1>17
    <3>2. off[n] = off[n - 1] + lens[n] /\ off[n - 1] < m /\ off[n - 1] \in Nat
      <4>1. n - 1 \in 0 .. n
        BY <1>1
      <4>. QED BY <1>2, <1>3, <3>1, <4>1
    <3>. QED BY <1>1, <3>1, <3>2
  <2>2. /\ rest \in Seq(Byte) /\ Len(rest) = m - off[g] /\ Len(rest) < l
        /\ \A i \in 1 .. Len(rest) : 0 + i <= l => rest[i] = ByteAt(j, 0 + i, l)
    <3>1. rest \in Seq(Byte) /\ Len(rest) = m - off[g]
      BY <1>4, <1>5
    <3>2. Len(rest) < l
      BY <1>1, <2>1, <3>1
    <3>3. ASSUME NEW i \in 1 .. Len(rest), i <= l PROVE rest[i] = ByteAt(j, i, l)
      <4>1. g \in 0 .. g /\ g + 1 = n
        BY <1>4, <2>1
      <4>. QED BY <1>6, <2>1, <3>3, <4>1
    <3>4. \A i \in 1 .. Len(rest) : 0 + i = i
      OBVIOUS
    <3>. QED BY <3>1, <3>2, <3>3, <3>4
  <2>3. ~(rest = <<>> \/ rest[1] = Stuffing)
    BY <1>8, <1>17
  <2>. HIDE DEF rest, l, j
  <2>4. Collect(Dropped(old), rest) = [pf |-> Assembly(j, l, Len(rest), c), cut |-> <<>>]
    <3>1. Dropped(old) = Assembly(j, l, 0, c) /\ 0 \in 0 .. l - 1
      BY <1>14, <2>1, <2>2, NoPrefix
    <3>2. Collect(Assembly(j, l, 0, c), rest) =
            IF 0 + Len(rest) >= l
              THEN [pf |-> Idle(c), cut |-> << Section(j, l) >>]
              ELSE [pf |-> Assembly(j, l, 0 + Len(rest), c), cut |-> <<>>]
      <4>. HIDE DEF c
      <4>. QED BY <2>1, <2>2, <3>1, CollectsSection
    <3>3. 0 + Len(rest) = Len(rest) /\ ~(0 + Len(rest) >= l)
      BY <2>1, <2>2
    <3>. QED BY <3>1, <3>2, <3>3
  <2>5. Cuts(g) \o <<>> = Cuts(g)
    <3>1. g \in 0 .. n
      BY <1>4
    <3>. QED BY <1>9, <3>1, ConcatEmptySeq
  <2>6. From(body, walk[m].at) = rest /\ walk[m].cut = Cuts(g)
    BY <1>12, <1>15 DEF rest
  <2>7. CutFrom(old, body) = [pf |-> Assembly(j, l, Len(rest), c), cut |-> Cuts(g)]
    <3>. DEFINE result == Collect(Dropped(old), rest)
    <3>1. result.pf = Assembly(j, l, Len(rest), c) /\ result.cut = <<>>
      BY <2>4
    <3>. HIDE DEF c, result
    <3>2. CutFrom(old, body) = [pf |-> result.pf, cut |-> walk[m].cut \o result.cut]
      BY <1>13, <2>3, <2>6, Zenon DEF result
    <3>. QED BY <2>5, <2>6, <3>1, <3>2
  <2>8. Len(rest) = m - off[n - 1]
    BY <2>1, <2>2
  <2>. QED BY <1>17, <2>7, <2>8 DEF Cuts, l, j, m
<1>. QED BY <1>16, <1>17

-----------------------------------------------------------------------------
(* What the broadcaster packs.                                             *)

StreamOK ==
  /\ lengths \in Seq(Lengths) /\ table \in Seq(Tables) /\ Len(table) = Len(lengths)
  /\ Started = 0 => offset = 0
  /\ Started # 0 => offset \in 1 .. lengths[Started]
  /\ cc \in 0 .. CcMod - 1 /\ lost \in 0 .. MaxLost
  /\ broken \subseteq 1 .. Started

\* The n sections after the section "first".
After(first, n) == {first + r : r \in 1 .. n}

\* A packet with the end of the section "first" and the start of others.
Holds(p, first, lens, off) ==
  /\ p.payload \in Seq(Byte) /\ p.pointer \in 0 .. Len(p.payload)
  /\ Packed(From(p.payload, p.pointer + 1), first, lens, off)
  /\ p.pointer > 0 => first # 0
  /\ \A i \in 1 .. p.pointer :
       /\ p.payload[i].section = first /\ p.payload[i].offset # 1
       /\ p.payload[i].offset = p.payload[i].len <=> i = p.pointer

(* The sections of a batch have lengths of sections.                       *)
LEMMA BatchType ==
  ASSUME NEW lens \in Batches
  PROVE  lens \in Seq(Lengths)
BY DEF Batches

(* Sections back to back.                                                  *)
LEMMA SectionsType ==
  ASSUME NEW first \in Nat, NEW lens \in Seq(Lengths)
  PROVE  /\ Sections(first + 1, lens) \in Seq(Byte)
         /\ lens = <<>> => Sections(first + 1, lens) = <<>>
         /\ lens # <<>> =>
              \E off : /\ Offsets(off, lens) /\ off[Len(lens)] = Len(Sections(first + 1, lens))
                       /\ \A r \in 1 .. Len(lens) :
                            /\ off[r] <= Len(Sections(first + 1, lens))
                            /\ \A i \in 1 .. lens[r] :
                                 Sections(first + 1, lens)[off[r - 1] + i] = ByteAt(first + r, i, lens[r])
                       /\ \A k \in 1 .. off[Len(lens)] :
                            \E r \in 1 .. Len(lens) : k - off[r - 1] \in 1 .. lens[r]
<1>. DEFINE n    == Len(lens)
            seqs == [i \in DOMAIN lens |-> Section((first + 1) + i - 1, lens[i])]
            all  == Sections(first + 1, lens)
<1>1. n \in Nat /\ DOMAIN lens = 1 .. n /\ \A r \in 1 .. n : lens[r] \in Lengths
  OBVIOUS
<1>2. all = FlattenSeq(seqs)
  BY DEF Sections
<1>3. ASSUME NEW r \in 1 .. n
      PROVE  /\ seqs[r] = Section(first + r, lens[r]) /\ seqs[r] \in Seq(Byte)
             /\ Len(seqs[r]) = lens[r]
             /\ \A i \in 1 .. lens[r] : seqs[r][i] = ByteAt(first + r, i, lens[r])
  <2>1. first + r \in Nat /\ (first + 1) + r - 1 = first + r /\ lens[r] \in Lengths
    BY <1>1
  <2>2. seqs[r] = Section(first + r, lens[r])
    BY <1>1, <2>1
  <2>. HIDE DEF seqs
  <2>. QED BY <2>1, <2>2, SectionType
<1>4. seqs \in Seq(Seq(Byte)) /\ Len(seqs) = n
  <2>1. seqs = [i \in 1 .. n |-> seqs[i]]
    BY <1>1
  <2>. HIDE DEF seqs, n
  <2>2. \A i \in 1 .. n : seqs[i] \in Seq(Byte)
    BY <1>3
  <2>. QED BY <1>1, <2>1, <2>2
<1>. HIDE DEF all, seqs
<1>5. CASE lens = <<>>
  <2>1. n = 0 /\ Len(seqs) = 0 /\ seqs = <<>>
    BY <1>4, <1>5
  <2>2. FlattenSeq(seqs) = seqs
    BY <2>1 DEF FlattenSeq
  <2>3. all = <<>>
    BY <1>2, <2>1, <2>2
  <2>4. <<>> \in Seq(Byte)
    OBVIOUS
  <2>. QED BY <1>5, <2>3, <2>4 DEF all
<1>6. CASE lens # <<>>
  <2>1. n # 0
    BY <1>1, <1>6
  <2>2. all = FlattenSeq(seqs) /\ n = Len(seqs) /\ Len(seqs) # 0
    BY <1>2, <1>4, <2>1
  <2>3. PICK off \in [0 .. Len(seqs) -> Nat] :
          /\ off[0] = 0 /\ off[Len(seqs)] = Len(FlattenSeq(seqs))
          /\ \A r \in 1 .. Len(seqs) :
               /\ off[r] = off[r - 1] + Len(seqs[r])
               /\ off[r] <= Len(FlattenSeq(seqs))
               /\ \A i \in 1 .. Len(seqs[r]) : FlattenSeq(seqs)[off[r - 1] + i] = seqs[r][i]
          /\ \A k \in 1 .. Len(FlattenSeq(seqs)) :
               \E r \in 1 .. Len(seqs) : k - off[r - 1] \in 1 .. Len(seqs[r])
    BY <1>4, <2>2, FlattenSegments, Zenon
  <2>7. all \in Seq(Byte)
    BY <1>4, <2>2, FlattenSegments, Zenon
  <2>. HIDE DEF n
  <2>8. /\ off \in [0 .. n -> Nat] /\ off[0] = 0 /\ off[n] = Len(all)
        /\ \A r \in 1 .. n : off[r] = off[r - 1] + Len(seqs[r]) /\ off[r] <= Len(all)
    BY <2>2, <2>3
  <2>9. \A r \in 1 .. n : \A i \in 1 .. Len(seqs[r]) : all[off[r - 1] + i] = seqs[r][i]
    BY <2>2, <2>3
  <2>10. \A k \in 1 .. off[n] : \E r \in 1 .. n : k - off[r - 1] \in 1 .. Len(seqs[r])
    BY <2>2, <2>3
  <2>4. Offsets(off, lens)
    BY <1>3, <2>8 DEF Offsets, n
  <2>5. \A r \in 1 .. n : off[r] <= Len(all) /\ \A i \in 1 .. lens[r] :
          all[off[r - 1] + i] = ByteAt(first + r, i, lens[r])
    BY <1>3, <2>8, <2>9
  <2>6. \A k \in 1 .. off[n] : \E r \in 1 .. n : k - off[r - 1] \in 1 .. lens[r]
    BY <1>3, <2>10
  <2>. QED BY <1>6, <2>4, <2>5, <2>6, <2>7, <2>8 DEF all, n
<1>. QED BY <1>5, <1>6

(* How much of the last section is to come.                                *)
LEMMA RemainingType ==
  ASSUME StreamOK
  PROVE  /\ Started \in Nat /\ offset \in Nat /\ Remaining \in Nat
         /\ Started = 0 => Remaining = 0 /\ offset = 0
         /\ Started # 0 => /\ lengths[Started] \in Lengths /\ lengths[Started] \in Nat
                           /\ offset >= 1 /\ Remaining = lengths[Started] - offset
<1>1. Started \in Nat
  BY DEF StreamOK, Started
<1>2. CASE Started = 0
  BY <1>2 DEF StreamOK, Remaining
<1>3. CASE Started # 0
  <2>1. lengths[Started] \in Lengths
    BY <1>1, <1>3 DEF StreamOK, Started
  <2>2. lengths[Started] \in Nat
    BY <2>1, TsSectionsAssumption
  <2>3. offset \in 1 .. lengths[Started]
    BY <1>3 DEF StreamOK
  <2>4. Remaining = lengths[Started] - offset
    BY <1>3 DEF Remaining
  <2>. QED BY <1>1, <1>3, <2>1, <2>2, <2>3, <2>4
<1>. QED BY <1>1, <1>2, <1>3

(* What a payload has first, then and last.                                *)
LEMMA PayloadBytes ==
  ASSUME StreamOK, NEW lens \in Seq(Lengths), NEW room \in Nat
  PROVE  LET p == Payload(lens, room)
             s == Sections(Started + 1, lens)
         IN  /\ p \in Seq(Byte) /\ Len(p) = room
             /\ \A i \in 1 .. room :
                  /\ i <= Remaining => p[i] = ByteAt(Started, offset + i, lengths[Started])
                  /\ i - Remaining \in 1 .. Len(s) => p[i] = s[i - Remaining]
                  /\ i > Remaining + Len(s) => p[i] = Stuffing
<1>. DEFINE p    == Payload(lens, room)
            s    == Sections(Started + 1, lens)
            R    == Remaining
            L    == lengths[Started]
            tail == IF Started = 0 THEN <<>> ELSE From(Section(Started, L), offset + 1)
            all  == tail \o s
<1>1. /\ Started \in Nat /\ offset \in Nat /\ R \in Nat
      /\ Started = 0 => R = 0
      /\ Started # 0 => L \in Lengths /\ L \in Nat /\ offset >= 1 /\ R = L - offset
  BY RemainingType
<1>2. s \in Seq(Byte) /\ Len(s) \in Nat
  BY <1>1, SectionsType
<1>. HIDE DEF s
<1>3. /\ tail \in Seq(Byte) /\ Len(tail) = R
      /\ \A i \in 1 .. R : tail[i] = ByteAt(Started, offset + i, L)
  <2>1. CASE Started = 0
    <3>1. tail = <<>> /\ R = 0 /\ <<>> \in Seq(Byte) /\ Len(<<>>) = 0
      BY <1>1, <2>1
    <3>. HIDE DEF tail, R
    <3>. QED BY <3>1
  <2>2. CASE Started # 0
    <3>. DEFINE sec == Section(Started, L)
                a   == offset + 1
    <3>1. sec \in Seq(Byte) /\ Len(sec) = L /\ \A i \in 1 .. L : sec[i] = ByteAt(Started, i, L)
      BY <1>1, <2>2, SectionType
    <3>2. tail = SubSeq(sec, a, Len(sec))
      BY <2>2 DEF From
    <3>3. a \in 1 .. Len(sec) + 1 /\ Len(sec) \in a - 1 .. Len(sec) /\ Len(sec) - a + 1 = R
      BY <1>1, <2>2, <3>1
    <3>. HIDE DEF sec, a, tail
    <3>4. /\ tail \in Seq(Byte) /\ Len(tail) = R
          /\ \A i \in 1 .. R : tail[i] = sec[a + i - 1]
      BY <3>1, <3>2, <3>3, Slice
    <3>5. \A i \in 1 .. R : a + i - 1 = offset + i /\ offset + i \in 1 .. L
      BY <1>1, <2>2 DEF a
    <3>. QED BY <3>1, <3>4, <3>5
  <2>. QED BY <2>1, <2>2
<1>. HIDE DEF R, L, tail
<1>4. /\ all \in Seq(Byte) /\ Len(all) = R + Len(s)
      /\ \A i \in 1 .. R : all[i] = tail[i]
      /\ \A i \in 1 .. Len(s) : all[R + i] = s[i]
  <2>1. /\ all \in Seq(Byte) /\ Len(all) = Len(tail) + Len(s)
        /\ \A i \in 1 .. Len(tail) : all[i] = tail[i]
        /\ \A i \in 1 .. Len(s) : all[Len(tail) + i] = s[i]
    <3>1. tail \in Seq(Byte) /\ s \in Seq(Byte)
      BY <1>2, <1>3
    <3>. QED BY <3>1, JoinedSequences
  <2>. HIDE DEF all
  <2>. QED BY <1>3, <2>1
<1>5. p = [i \in 1 .. room |-> IF i <= Len(all) THEN all[i] ELSE Stuffing]
  BY DEF Payload, L, tail, s
<1>. HIDE DEF all, p
<1>6. Stuffing \in Byte
  BY DEF Stuffing, Byte
<1>7. p \in Seq(Byte) /\ Len(p) = room
  <2>1. \A i \in 1 .. room : (IF i <= Len(all) THEN all[i] ELSE Stuffing) \in Byte
    BY <1>4, <1>6
  <2>. QED BY <1>5, <2>1
<1>8. ASSUME NEW i \in 1 .. room
      PROVE  /\ i <= R => p[i] = ByteAt(Started, offset + i, L)
             /\ i - R \in 1 .. Len(s) => p[i] = s[i - R]
             /\ i > R + Len(s) => p[i] = Stuffing
  <2>1. CASE i <= R
    <3>1. i \in 1 .. R /\ i <= Len(all) /\ ~(i - R \in 1 .. Len(s)) /\ ~(i > R + Len(s))
      BY <1>1, <1>2, <1>4, <2>1
    <3>. QED BY <1>3, <1>4, <1>5, <3>1
  <2>2. CASE i > R /\ i <= R + Len(s)
    <3>1. /\ i - R \in 1 .. Len(s) /\ R + (i - R) = i /\ i <= Len(all) /\ ~(i <= R)
          /\ ~(i > R + Len(s))
      BY <1>1, <1>2, <1>4, <2>2
    <3>2. p[i] = all[i] /\ all[R + (i - R)] = s[i - R]
      BY <1>4, <1>5, <3>1
    <3>. QED BY <3>1, <3>2
  <2>3. CASE i > R + Len(s)
    <3>1. ~(i <= Len(all)) /\ ~(i <= R) /\ ~(i - R \in 1 .. Len(s))
      BY <1>1, <1>2, <1>4, <2>3
    <3>. QED BY <1>5, <3>1
  <2>4. i <= R \/ (i > R /\ i <= R + Len(s)) \/ i > R + Len(s)
    BY <1>1, <1>2
  <2>. QED BY <2>1, <2>2, <2>3, <2>4
<1>. QED BY <1>7, <1>8 DEF R, L, p, s

(* A packet adds its sections to those that were broadcast.                *)
LEMMA SectionsAdded ==
  ASSUME StreamOK, NEW lens \in Seq(Lengths), Broadcasts(lens)
  PROVE  /\ lengths' \in Seq(Lengths) /\ table' \in Seq(Tables)
         /\ Len(table') = Len(lengths') /\ Started' = Started + Len(lens)
         /\ \A k \in 1 .. Started : lengths'[k] = lengths[k] /\ table'[k] = table[k]
         /\ \A r \in 1 .. Len(lens) : lengths'[Started + r] = lens[r]
         /\ cc' = (cc + 1) % CcMod /\ cc' \in 0 .. CcMod - 1
         /\ lens = <<>> => lengths' = lengths /\ table' = table
<1>1. /\ lengths \in Seq(Lengths) /\ table \in Seq(Tables) /\ Len(table) = Len(lengths)
      /\ Started = Len(lengths) /\ Started \in Nat /\ Len(lens) \in Nat
  BY DEF StreamOK, Started
<1>2. /\ lengths' = lengths \o lens /\ cc' = (cc + 1) % CcMod
      /\ \E t \in [DOMAIN lens -> Tables] : table' = table \o t
  BY DEF Broadcasts
<1>3. PICK t \in [DOMAIN lens -> Tables] : table' = table \o t
  BY <1>2
<1>4. t \in Seq(Tables) /\ Len(t) = Len(lens)
  BY <1>1
<1>5. /\ lengths' \in Seq(Lengths) /\ Len(lengths') = Started + Len(lens)
      /\ \A k \in 1 .. Started : lengths'[k] = lengths[k]
      /\ \A r \in 1 .. Len(lens) : lengths'[Started + r] = lens[r]
  <2>1. /\ lengths \o lens \in Seq(Lengths) /\ Len(lengths \o lens) = Len(lengths) + Len(lens)
        /\ \A i \in 1 .. Len(lengths) : (lengths \o lens)[i] = lengths[i]
        /\ \A i \in 1 .. Len(lens) : (lengths \o lens)[Len(lengths) + i] = lens[i]
    <3>1. lengths \in Seq(Lengths)
      BY <1>1
    <3>. QED BY <3>1, JoinedSequences
  <2>. QED BY <1>1, <1>2, <2>1
<1>6. /\ table' \in Seq(Tables) /\ Len(table') = Started + Len(lens)
      /\ \A k \in 1 .. Started : table'[k] = table[k]
  <2>1. /\ table \o t \in Seq(Tables) /\ Len(table \o t) = Len(table) + Len(t)
        /\ \A i \in 1 .. Len(table) : (table \o t)[i] = table[i]
    <3>1. table \in Seq(Tables) /\ t \in Seq(Tables)
      BY <1>1, <1>4
    <3>. QED BY <3>1, JoinedSequences
  <2>. QED BY <1>1, <1>3, <1>4, <2>1
<1>7. cc' \in 0 .. CcMod - 1
  <2>1. CcMod \in Nat \ {0} /\ cc + 1 \in Nat
    BY TsSectionsAssumption DEF StreamOK
  <2>. QED BY <1>2, <2>1
<1>8. Started' = Len(lengths')
  BY DEF Started
<1>9. lens = <<>> => lengths' = lengths /\ table' = table
  <2>. SUFFICES ASSUME lens = <<>> PROVE lengths' = lengths /\ table' = table
    OBVIOUS
  <2>1. Len(lens) = 0 /\ Len(t) = 0 /\ t = <<>>
    <3>1. Len(lens) = 0
      OBVIOUS
    <3>2. Len(t) = 0
      BY <1>4, <3>1
    <3>. QED BY <1>4, <3>1, <3>2
  <2>2. lengths \o <<>> = lengths /\ table \o <<>> = table
    BY <1>1, ConcatEmptySeq
  <2>. QED BY <1>2, <1>3, <2>1, <2>2
<1>. QED BY <1>1, <1>2, <1>5, <1>6, <1>7, <1>8, <1>9

(* A packet in which no section starts goes on with the last one.          *)
LEMMA NoneStarts ==
  ASSUME StreamOK, Broadcasts(<<>>), NEW p, p = PacketWith(<<>>),
         NEW k, k = Started, NEW l, l = lengths[Started]
  PROVE  /\ k \in Nat \ {0} /\ Remaining > 0 /\ l \in Lengths
         /\ ~p.pusi /\ p.cc = cc' /\ p.payload \in Seq(Byte) /\ Len(p.payload) = PayloadLen
         /\ \A i \in 1 .. PayloadLen :
              p.payload[i] = IF i <= Remaining THEN ByteAt(k, offset + i, l) ELSE Stuffing
         /\ offset' = IF Remaining <= PayloadLen THEN l ELSE offset + PayloadLen
         /\ Remaining' = l - offset'
<1>. DEFINE R == Remaining
<1>1. /\ <<>> \in Seq(Lengths) /\ Len(<<>>) = 0 /\ PayloadLen \in Nat
  BY TsSectionsAssumption
<1>2. R > 0
  BY DEF Broadcasts, Fits
<1>3. /\ k \in Nat \ {0} /\ l \in Lengths /\ l \in Nat /\ offset \in Nat /\ R \in Nat
      /\ R = l - offset
  BY <1>2, RemainingType
<1>. HIDE DEF R
<1>4. Sections(Started + 1, <<>>) = <<>>
  BY <1>1, <1>3, SectionsType
<1>5. /\ p.pusi = FALSE /\ p.cc = (cc + 1) % CcMod /\ p.payload = Payload(<<>>, PayloadLen)
  BY DEF PacketWith
<1>6. /\ p.payload \in Seq(Byte) /\ Len(p.payload) = PayloadLen
      /\ \A i \in 1 .. PayloadLen :
              /\ i <= R => p.payload[i] = ByteAt(k, offset + i, l)
              /\ i > R + Len(<<>>) => p.payload[i] = Stuffing
  <2>. DEFINE q == Payload(<<>>, PayloadLen)
              s == Sections(Started + 1, <<>>)
  <2>1. /\ q \in Seq(Byte) /\ Len(q) = PayloadLen
        /\ \A i \in 1 .. PayloadLen :
             /\ i <= Remaining => q[i] = ByteAt(Started, offset + i, lengths[Started])
             /\ i > Remaining + Len(s) => q[i] = Stuffing
    BY <1>1, PayloadBytes
  <2>. HIDE DEF q
  <2>2. p.payload = q
    BY <1>5 DEF q
  <2>. QED BY <1>4, <2>1, <2>2 DEF R
<1>7. \A i \in 1 .. PayloadLen :
        p.payload[i] = IF i <= R THEN ByteAt(k, offset + i, l) ELSE Stuffing
  <2>1. \A i \in 1 .. PayloadLen : i <= R \/ i > R + Len(<<>>)
    BY <1>1, <1>3
  <2>2. \A i \in 1 .. PayloadLen : i > R + Len(<<>>) => ~(i <= R)
    BY <1>1, <1>3
  <2>. QED BY <1>6, <2>1, <2>2
<1>8. lengths' = lengths /\ cc' = (cc + 1) % CcMod
  BY <1>1, SectionsAdded
<1>9. offset' = IF R <= PayloadLen THEN l ELSE offset + PayloadLen
  <2>1. Total(<<>>) = 0
    BY <1>4 DEF Total
  <2>2. lengths'[Len(lengths')] = l
    BY <1>8 DEF Started
  <2>3. offset' = l - (IF R + 0 > PayloadLen THEN (R + 0) - PayloadLen ELSE 0)
    BY <2>1, <2>2 DEF Broadcasts, R
  <2>4. R \in Nat /\ PayloadLen \in Nat /\ offset \in Nat /\ l \in Nat /\ R = l - offset
    BY <1>1, <1>3
  <2>. HIDE DEF R
  <2>5. R <= PayloadLen => offset' = l
    BY <2>3, <2>4
  <2>6. ~(R <= PayloadLen) => offset' = offset + PayloadLen
    BY <2>3, <2>4
  <2>. QED BY <2>5, <2>6
<1>10. Remaining' = l - offset'
  BY <1>3, <1>8 DEF Remaining, Started
<1>. QED BY <1>2, <1>3, <1>5, <1>6, <1>7, <1>8, <1>9, <1>10 DEF R

(* A packet in which sections start ends the last one before.              *)
LEMMA SomeStart ==
  ASSUME StreamOK, NEW lens \in Seq(Lengths), lens # <<>>, Broadcasts(lens),
         NEW p, p = PacketWith(lens), NEW n, n = Len(lens),
         NEW m, m = PayloadLen - 1 - Remaining
  PROVE  /\ p.pusi /\ p.cc = cc' /\ p.payload \in Seq(Byte) /\ p.pointer = Remaining
         /\ n \in Nat \ {0} /\ m \in Nat /\ Len(p.payload) = Remaining + m
         /\ \A i \in 1 .. Remaining : p.payload[i] = ByteAt(Started, offset + i, lengths[Started])
         /\ \E off : /\ Holds(p, Started, lens, off)
                     /\ offset' = IF off[n] <= m THEN lens[n] ELSE m - off[n - 1]
<1>. DEFINE R    == Remaining
            k    == Started
            l    == lengths[Started]
            s    == Sections(Started + 1, lens)
            room == PayloadLen - 1
            body == From(p.payload, R + 1)
<1>1. /\ Started \in Nat /\ offset \in Nat /\ R \in Nat
      /\ Started = 0 => R = 0
      /\ Started # 0 => l \in Lengths /\ l \in Nat /\ offset >= 1 /\ R = l - offset
  BY RemainingType
<1>2. /\ n \in Nat \ {0} /\ room \in Nat /\ PayloadLen \in Nat
      /\ \A r \in 1 .. n : lens[r] \in Lengths /\ lens[r] \in Nat /\ lens[r] >= 1
  <2>1. n \in Nat \ {0} /\ \A r \in 1 .. n : lens[r] \in Lengths
    OBVIOUS
  <2>2. /\ PayloadLen \in Nat /\ PayloadLen - 1 \in Nat
        /\ \A x \in Lengths : x \in Nat /\ x >= 1
    BY TsSectionsAssumption
  <2>. QED BY <2>1, <2>2
<1>3. PICK off : /\ Offsets(off, lens) /\ off[n] = Len(s)
                 /\ \A r \in 1 .. n :
                      /\ off[r] <= Len(s)
                      /\ \A i \in 1 .. lens[r] : s[off[r - 1] + i] = ByteAt(k + r, i, lens[r])
                 /\ \A j \in 1 .. off[n] : \E r \in 1 .. n : j - off[r - 1] \in 1 .. lens[r]
  BY <1>1, SectionsType
<1>4. s \in Seq(Byte)
  BY <1>1, SectionsType
<1>5. \A j \in 0 .. n : off[j] \in Nat
  BY <1>3, OffsetsGrow
<1>6. off[n] = off[n - 1] + lens[n] /\ off[n - 1] \in Nat /\ off[n] \in Nat
  <2>1. n \in 1 .. n /\ n - 1 \in 0 .. n /\ n \in 0 .. n
    BY <1>2
  <2>. QED BY <1>3, <1>5, <2>1 DEF Offsets
<1>7. R + off[n - 1] < room
  <2>1. R + Total(lens) - lens[n] < PayloadLen - 1
    BY DEF Broadcasts, Fits, R
  <2>2. Total(lens) = off[n]
    BY <1>3 DEF Total
  <2>. QED BY <1>1, <1>2, <1>6, <2>1, <2>2
<1>8. /\ p.pusi = TRUE /\ p.cc = (cc + 1) % CcMod /\ p.pointer = R
      /\ p.payload = Payload(lens, room)
  BY DEF PacketWith
<1>. HIDE DEF R, k, l, s, room, body
<1>9. /\ p.payload \in Seq(Byte) /\ Len(p.payload) = room
      /\ \A i \in 1 .. room :
           /\ i <= R => p.payload[i] = ByteAt(k, offset + i, l)
           /\ i - R \in 1 .. Len(s) => p.payload[i] = s[i - R]
           /\ i > R + Len(s) => p.payload[i] = Stuffing
  <2>1. s = Sections(Started + 1, lens)
    BY DEF s
  <2>2. /\ p.payload \in Seq(Byte) /\ Len(p.payload) = room
        /\ \A i \in 1 .. room :
             /\ i <= Remaining => p.payload[i] = ByteAt(Started, offset + i, lengths[Started])
             /\ i - Remaining \in 1 .. Len(s) => p.payload[i] = s[i - Remaining]
             /\ i > Remaining + Len(s) => p.payload[i] = Stuffing
    <3>. DEFINE q == p.payload
    <3>1. q = Payload(lens, room) /\ room \in Nat
      BY <1>2, <1>8
    <3>. HIDE DEF q
    <3>2. /\ q \in Seq(Byte) /\ Len(q) = room
          /\ \A i \in 1 .. room :
             /\ i <= Remaining => q[i] = ByteAt(Started, offset + i, lengths[Started])
             /\ i - Remaining \in 1 .. Len(s) => q[i] = s[i - Remaining]
             /\ i > Remaining + Len(s) => q[i] = Stuffing
      BY <2>1, <3>1, PayloadBytes
    <3>. QED BY <3>2 DEF q
  <2>. QED BY <2>2 DEF R, k, l
<1>10. m = room - R /\ m \in Nat /\ room = R + m /\ off[n - 1] < m
  BY <1>1, <1>2, <1>6, <1>7 DEF R, room
<1>11. /\ body \in Seq(Byte) /\ Len(body) = m
       /\ \A i \in 1 .. m : body[i] = p.payload[R + i]
  <2>. DEFINE a == R + 1
  <2>1. a \in 1 .. Len(p.payload) + 1 /\ Len(p.payload) \in a - 1 .. Len(p.payload)
    <3>1. R \in Nat /\ m \in Nat /\ Len(p.payload) = R + m
      BY <1>1, <1>9, <1>10
    <3>. QED BY <3>1
  <2>2. Len(p.payload) - a + 1 = m /\ \A i \in 1 .. m : a + i - 1 = R + i
    BY <1>1, <1>9, <1>10
  <2>3. body = SubSeq(p.payload, a, Len(p.payload))
    BY DEF body, From
  <2>. HIDE DEF a
  <2>4. /\ body \in Seq(Byte) /\ Len(body) = Len(p.payload) - a + 1
        /\ \A i \in 1 .. Len(p.payload) - a + 1 : body[i] = p.payload[a + i - 1]
    <3>. DEFINE q == p.payload
    <3>1. q \in Seq(Byte)
      BY <1>9
    <3>. HIDE DEF q, body
    <3>. QED BY <2>1, <2>3, <3>1, Slice DEF q
  <2>. QED BY <2>2, <2>4
<1>12. Packed(body, k, lens, off)
  <2>1. ASSUME NEW r \in 1 .. n, NEW i \in 1 .. lens[r], off[r - 1] + i <= m
        PROVE  body[off[r - 1] + i] = ByteAt(k + r, i, lens[r])
    <3>1. r - 1 \in 0 .. n /\ off[r - 1] \in Nat /\ lens[r] \in Nat
      BY <1>2, <1>5
    <3>. DEFINE j == off[r - 1] + i
    <3>2. off[r] = off[r - 1] + lens[r]
      BY <1>3 DEF Offsets
    <3>3. j \in Nat /\ j >= 1 /\ j <= Len(s) /\ j \in 1 .. m /\ R + j \in 1 .. room
          /\ (R + j) - R = j
      <4>1. Len(s) \in Nat /\ off[r] <= Len(s)
        BY <1>3, <1>4
      <4>2. j \in Nat /\ j >= 1 /\ j <= off[r] /\ j <= m
        BY <2>1, <3>1, <3>2
      <4>3. off[r] \in Nat /\ j <= Len(s)
        BY <3>1, <3>2, <4>1, <4>2
      <4>4. R \in Nat /\ m \in Nat /\ room = R + m
        BY <1>1, <1>10
      <4>. HIDE DEF j
      <4>. QED BY <4>2, <4>3, <4>4
    <3>4. s[j] = ByteAt(k + r, i, lens[r])
      BY <1>3
    <3>. HIDE DEF j
    <3>5. body[j] = p.payload[R + j]
      BY <1>11, <3>3
    <3>6. p.payload[R + j] = s[(R + j) - R]
      <4>1. (R + j) - R \in 1 .. Len(s)
        BY <1>4, <3>3
      <4>. QED BY <1>9, <3>3, <4>1
    <3>. QED BY <3>3, <3>4, <3>5, <3>6 DEF j
  <2>2. ASSUME NEW j \in 1 .. m, j > off[n] PROVE body[j] = Stuffing
    <3>1. R + j \in 1 .. room /\ R + j > R + Len(s)
      BY <1>1, <1>3, <1>4, <1>10, <2>2
    <3>. QED BY <1>9, <1>11, <3>1
  <2>. QED BY <1>3, <1>10, <1>11, <2>1, <2>2 DEF Packed
<1>13. ASSUME NEW i \in 1 .. R
       PROVE  /\ p.payload[i] = ByteAt(k, offset + i, l)
              /\ p.payload[i].section = k /\ p.payload[i].offset # 1
              /\ p.payload[i].offset = p.payload[i].len <=> i = R
              /\ k # 0
  <2>1. k # 0 /\ offset >= 1 /\ R = l - offset /\ l \in Nat /\ i \in 1 .. room
    BY <1>1, <1>10 DEF k
  <2>2. p.payload[i] = ByteAt(k, offset + i, l)
    BY <1>1, <1>9, <2>1
  <2>3. offset + i # 1 /\ (offset + i = l <=> i = R)
    BY <1>1, <2>1
  <2>. QED BY <2>1, <2>2, <2>3, ByteFields
<1>14. Holds(p, Started, lens, off)
  <2>1. R \in 0 .. Len(p.payload)
    BY <1>1, <1>9, <1>10
  <2>2. R > 0 => k # 0
    BY <1>1 DEF k
  <2>. QED BY <1>8, <1>9, <1>12, <1>13, <2>1, <2>2 DEF Holds, body, k
<1>15. offset' = IF off[n] <= m THEN lens[n] ELSE m - off[n - 1]
  <2>1. lengths'[Len(lengths')] = lens[n]
    <3>1. Started' = Started + n /\ n \in 1 .. n /\ lengths'[Started + n] = lens[n]
      BY <1>2, SectionsAdded
    <3>. QED BY <3>1 DEF Started
  <2>2. Total(lens) = off[n]
    BY <1>3 DEF Total, s
  <2>3. offset' = lens[n] - (IF R + off[n] > room THEN (R + off[n]) - room ELSE 0)
    BY <2>1, <2>2 DEF Broadcasts, R, room
  <2>4. lens[n] \in Nat
    BY <1>2
  <2>5. R \in Nat /\ m \in Nat /\ room = R + m
    BY <1>1, <1>10
  <2>6. R + off[n] > room <=> ~(off[n] <= m)
    BY <1>6, <2>5
  <2>7. ~(off[n] <= m) => lens[n] - ((R + off[n]) - room) = m - off[n - 1]
    <3>. DEFINE o == off[n - 1]
                z == lens[n]
    <3>1. off[n] = o + z /\ o \in Nat /\ z \in Nat
      BY <1>6, <2>4
    <3>. HIDE DEF o, z, R, room
    <3>2. z - ((R + (o + z)) - (R + m)) = m - o
      BY <2>5, <3>1
    <3>. QED BY <2>5, <3>1, <3>2 DEF o, z
  <2>8. lens[n] - 0 = lens[n]
    BY <2>4
  <2>. QED BY <2>3, <2>6, <2>7, <2>8
<1>16. p.cc = cc'
  BY <1>8, SectionsAdded
<1>. QED
  BY <1>2, <1>8, <1>9, <1>10, <1>13, <1>14, <1>15, <1>16 DEF R, k, l, room

(* The bytes of a packet that goes on with a section are of that one.      *)
LEMMA TailSections ==
  ASSUME NEW k \in Nat \ {0}, NEW l \in Lengths, NEW q \in 1 .. l - 1, NEW p,
         p.payload \in Seq(Byte), Len(p.payload) = PayloadLen,
         \A i \in 1 .. PayloadLen :
           p.payload[i] = IF i <= l - q THEN ByteAt(k, q + i, l) ELSE Stuffing
  PROVE  /\ SectionsIn(p) = {k}
         /\ EndIn(p) = IF l - q <= PayloadLen THEN {k} ELSE {}
<1>1. /\ PayloadLen \in Nat /\ 1 \in 1 .. PayloadLen /\ l \in Nat /\ q \in Nat /\ q < l
      /\ DOMAIN p.payload = 1 .. PayloadLen
  BY TsSectionsAssumption
<1>2. \A b \in BytesOf(p) : \E i \in 1 .. PayloadLen : i <= l - q /\ b = ByteAt(k, q + i, l)
  BY <1>1 DEF BytesOf
<1>3. ASSUME NEW i \in 1 .. PayloadLen, i <= l - q PROVE ByteAt(k, q + i, l) \in BytesOf(p)
  <2>1. p.payload[i] = ByteAt(k, q + i, l)
    BY <1>3
  <2>2. p.payload[i].section # 0
    BY <2>1, ByteFields
  <2>3. p.payload[i] # Stuffing
    BY <2>2 DEF Stuffing
  <2>. QED BY <1>1, <2>1, <2>3 DEF BytesOf
<1>4. SectionsIn(p) = {k}
  <2>1. \A b \in BytesOf(p) : b.section = k
    BY <1>2, ByteFields
  <2>2. ByteAt(k, q + 1, l) \in BytesOf(p)
    BY <1>1, <1>3
  <2>3. k \in SectionsIn(p)
    BY <2>2, ByteFields DEF SectionsIn
  <2>. QED BY <2>1, <2>3 DEF SectionsIn
<1>5. CASE l - q <= PayloadLen
  <2>1. ByteAt(k, q + (l - q), l) \in BytesOf(p) /\ q + (l - q) = l
    BY <1>1, <1>3, <1>5
  <2>2. k \in EndIn(p)
    BY <2>1, ByteFields DEF EndIn
  <2>3. EndIn(p) \subseteq SectionsIn(p)
    BY DEF EndIn, SectionsIn
  <2>. QED BY <1>4, <1>5, <2>2, <2>3
<1>6. CASE ~(l - q <= PayloadLen)
  <2>1. ASSUME NEW b \in BytesOf(p) PROVE b.offset # b.len
    <3>1. PICK i \in 1 .. PayloadLen : i <= l - q /\ b = ByteAt(k, q + i, l)
      BY <1>2
    <3>2. q + i # l
      BY <1>1, <1>6
    <3>. QED BY <3>1, <3>2, ByteFields
  <2>2. EndIn(p) = {}
    BY <2>1 DEF EndIn
  <2>. QED BY <1>4, <1>6, <2>2
<1>. QED BY <1>4, <1>5, <1>6

(* The sections of a packet, those that start and those that end in it.    *)
LEMMA HeldSections ==
  ASSUME NEW first \in Nat, NEW lens \in Seq(Lengths), Len(lens) # 0,
         NEW p, NEW off, Holds(p, first, lens, off)
  PROVE  LET n == Len(lens)
             g == Whole(lens, off, Len(p.payload) - p.pointer)
         IN  /\ SectionsIn(p) = (IF p.pointer > 0 THEN {first} ELSE {}) \cup After(first, n)
             /\ StartIn(p) = After(first, n)
             /\ EndIn(p) = (IF p.pointer > 0 THEN {first} ELSE {}) \cup After(first, g)
             /\ g \in 0 .. n /\ (g # n => g = n - 1)
<1>. SUFFICES ASSUME NEW n \in Nat \ {0}, n = Len(lens),
                     NEW g, g = Whole(lens, off, Len(p.payload) - p.pointer)
     PROVE  /\ SectionsIn(p) = (IF p.pointer > 0 THEN {first} ELSE {}) \cup After(first, n)
            /\ StartIn(p) = After(first, n)
            /\ EndIn(p) = (IF p.pointer > 0 THEN {first} ELSE {}) \cup After(first, g)
            /\ g \in 0 .. n /\ (g # n => g = n - 1)
  <2>1. Len(lens) \in Nat \ {0}
    OBVIOUS
  <2>. QED BY <2>1
<1>. DEFINE P    == p.pointer
            load == p.payload
            m    == Len(load) - P
            body == From(load, P + 1)
<1>1. /\ load \in Seq(Byte) /\ P \in 0 .. Len(load) /\ P \in Nat /\ m \in Nat
      /\ Len(load) = P + m /\ DOMAIN load = 1 .. P + m
  BY DEF Holds
<1>2. /\ P > 0 => first # 0
      /\ \A i \in 1 .. P : /\ load[i].section = first /\ load[i].offset # 1
                           /\ load[i].offset = load[i].len <=> i = P
  BY DEF Holds
<1>3. /\ Len(body) = m /\ \A i \in 1 .. m : body[i] = load[P + i]
  <2>. DEFINE a == P + 1
  <2>1. a \in 1 .. Len(load) + 1 /\ Len(load) \in a - 1 .. Len(load)
    BY <1>1
  <2>2. Len(load) - a + 1 = m /\ \A i \in 1 .. m : a + i - 1 = P + i
    BY <1>1
  <2>3. body = SubSeq(load, a, Len(load)) /\ load \in Seq(Byte)
    BY <1>1 DEF From
  <2>. HIDE DEF a, load, P, m, body
  <2>4. /\ Len(body) = Len(load) - a + 1
        /\ \A i \in 1 .. Len(load) - a + 1 : body[i] = load[a + i - 1]
    BY <2>1, <2>3, Slice
  <2>. QED BY <2>2, <2>4
<1>4. Packed(body, first, lens, off)
  BY DEF Holds
<1>5. g = IF off[n] <= m THEN n ELSE n - 1
  BY DEF Whole
<1>. HIDE DEF m, body, load, P
<1>6. /\ Offsets(off, lens) /\ off[n - 1] < m
      /\ \A r \in 1 .. n : \A i \in 1 .. lens[r] :
           off[r - 1] + i <= m => body[off[r - 1] + i] = ByteAt(first + r, i, lens[r])
      /\ \A k \in 1 .. m : k > off[n] => body[k] = Stuffing
      /\ \A k \in 1 .. off[n] : \E r \in 1 .. n : k - off[r - 1] \in 1 .. lens[r]
  BY <1>3, <1>4 DEF Packed
<1>7. /\ \A r \in 1 .. n : /\ lens[r] \in Nat /\ lens[r] >= 1 /\ r - 1 \in 0 .. n
                           /\ off[r - 1] \in Nat /\ off[r] \in Nat
                           /\ off[r] = off[r - 1] + lens[r] /\ off[r - 1] <= off[n - 1]
                           /\ r # n => off[r] <= off[n - 1]
      /\ off[n] \in Nat /\ off[n - 1] \in Nat
  <2>1. \A j \in 0 .. n : off[j] \in Nat /\ \A i \in 0 .. j : off[i] <= off[j]
    BY <1>6, OffsetsGrow
  <2>2. \A l \in Lengths : l \in Nat /\ l >= 1
    BY TsSectionsAssumption
  <2>3. n - 1 \in 0 .. n /\ n \in 0 .. n
    OBVIOUS
  <2>4. ASSUME NEW r \in 1 .. n
        PROVE  /\ r - 1 \in 0 .. n /\ r \in 0 .. n /\ r - 1 \in 0 .. n - 1
               /\ r # n => r \in 0 .. n - 1
               /\ lens[r] \in Lengths
    OBVIOUS
  <2>5. \A r \in 1 .. n : off[r] = off[r - 1] + lens[r]
    BY <1>6 DEF Offsets
  <2>. QED BY <2>1, <2>2, <2>3, <2>4, <2>5
<1>8. /\ g \in 0 .. n /\ (g # n => g = n - 1)
      /\ \A r \in 1 .. n : r \in 1 .. g <=> off[r] <= m
  <2>1. \A r \in 1 .. n : r # n => off[r] <= m /\ r \in 1 .. n - 1
    <3>. SUFFICES ASSUME NEW r \in 1 .. n, r # n
                  PROVE  off[r] <= m /\ r \in 1 .. n - 1
      OBVIOUS
    <3>1. r \in 0 .. n - 1 /\ n \in Nat
      BY <1>1, <1>7
    <3>2. off[r] <= off[n - 1] /\ off[r] \in Nat /\ off[n - 1] \in Nat /\ off[n - 1] < m
      BY <1>6, <1>7, <3>1
    <3>. QED BY <1>1, <3>1, <3>2
  <2>. QED BY <1>1, <1>5, <2>1
<1>9. ASSUME NEW b \in BytesOf(p)
      PROVE  \/ P > 0 /\ b.section = first /\ b.offset # 1
             \/ \E r \in 1 .. n : \E i \in 1 .. lens[r] :
                  b = ByteAt(first + r, i, lens[r]) /\ off[r - 1] + i <= m
  <2>1. PICK x \in 1 .. P + m : b = load[x] /\ b # Stuffing
    BY <1>1 DEF BytesOf, load
  <2>2. CASE x <= P
    BY <1>1, <1>2, <2>1, <2>2
  <2>3. CASE x > P
    <3>1. x - P \in 1 .. m /\ P + (x - P) = x
      BY <1>1, <2>3
    <3>2. body[x - P] = b
      BY <1>3, <2>1, <3>1
    <3>3. x - P \in 1 .. off[n]
      BY <1>1, <1>6, <1>7, <2>1, <3>1, <3>2
    <3>4. PICK r \in 1 .. n : (x - P) - off[r - 1] \in 1 .. lens[r]
      BY <1>6, <3>3
    <3>. DEFINE i == (x - P) - off[r - 1]
    <3>5. i \in 1 .. lens[r] /\ off[r - 1] + i = x - P /\ off[r - 1] + i <= m
      <4>1. off[r - 1] \in Nat /\ x \in Nat /\ P \in Nat /\ m \in Nat
        BY <1>1, <1>7
      <4>2. i \in 1 .. lens[r]
        BY <3>4
      <4>. QED BY <3>1, <4>1, <4>2
    <3>. HIDE DEF i
    <3>6. b = ByteAt(first + r, i, lens[r])
      BY <1>6, <3>2, <3>5
    <3>. QED BY <3>5, <3>6
  <2>. QED BY <1>1, <2>2, <2>3
<1>10. ASSUME NEW r \in 1 .. n, NEW i \in 1 .. lens[r], off[r - 1] + i <= m
       PROVE  ByteAt(first + r, i, lens[r]) \in BytesOf(p)
  <2>1. off[r - 1] + i \in 1 .. m /\ P + (off[r - 1] + i) \in 1 .. P + m
    <3>1. off[r - 1] \in Nat /\ i \in Nat /\ i >= 1 /\ m \in Nat /\ P \in Nat
      BY <1>1, <1>7
    <3>. QED BY <1>10, <3>1
  <2>. DEFINE b == ByteAt(first + r, i, lens[r])
  <2>2. load[P + (off[r - 1] + i)] = b
    BY <1>3, <1>6, <1>10, <2>1
  <2>3. b.section # 0
    BY ByteFields
  <2>. HIDE DEF b
  <2>4. b # Stuffing
    BY <2>3 DEF Stuffing
  <2>. QED BY <1>1, <2>1, <2>2, <2>4 DEF BytesOf, load, b
<1>11. ASSUME P > 0
       PROVE  load[P] \in BytesOf(p) /\ load[P].section = first /\ load[P].offset = load[P].len
  <2>1. P \in 1 .. P /\ P \in 1 .. P + m
    BY <1>1, <1>11
  <2>2. load[P].section = first /\ load[P].offset = load[P].len /\ first # 0
    BY <1>2, <1>11, <2>1
  <2>3. load[P] # Stuffing
    BY <2>2 DEF Stuffing
  <2>. QED BY <1>1, <2>1, <2>2, <2>3 DEF BytesOf, load
<1>12. ASSUME NEW r \in 1 .. n
       PROVE  /\ ByteAt(first + r, 1, lens[r]) \in BytesOf(p)
              /\ off[r] <= m => ByteAt(first + r, lens[r], lens[r]) \in BytesOf(p)
  <2>1. 1 \in 1 .. lens[r] /\ off[r - 1] + 1 <= m /\ lens[r] \in 1 .. lens[r]
    <3>1. lens[r] \in Nat /\ lens[r] >= 1 /\ off[r - 1] \in Nat /\ off[r - 1] < m
      BY <1>1, <1>6, <1>7
    <3>. QED BY <1>1, <3>1
  <2>. QED BY <1>7, <1>10, <2>1
<1>13. \A r \in 1 .. n : first + r \in StartIn(p)
  BY <1>12, ByteFields DEF StartIn
<1>14. ASSUME NEW b \in BytesOf(p)
       PROVE  /\ b.section \in (IF P > 0 THEN {first} ELSE {}) \cup {first + r : r \in 1 .. n}
              /\ b.offset = 1 => b.section \in {first + r : r \in 1 .. n}
              /\ b.offset = b.len =>
                   b.section \in (IF P > 0 THEN {first} ELSE {}) \cup {first + r : r \in 1 .. g}
  <2>1. CASE P > 0 /\ b.section = first /\ b.offset # 1
    BY <2>1
  <2>2. CASE \E r \in 1 .. n : \E i \in 1 .. lens[r] :
               b = ByteAt(first + r, i, lens[r]) /\ off[r - 1] + i <= m
    <3>0. PICK r \in 1 .. n : \E i \in 1 .. lens[r] :
            b = ByteAt(first + r, i, lens[r]) /\ off[r - 1] + i <= m
      BY <2>2
    <3>1. PICK i \in 1 .. lens[r] : b = ByteAt(first + r, i, lens[r]) /\ off[r - 1] + i <= m
      BY <3>0
    <3>2. b.section = first + r /\ b.offset = i /\ b.len = lens[r]
      BY <3>1, ByteFields
    <3>3. i = lens[r] => r \in 1 .. g
      BY <1>7, <1>8, <3>1
    <3>. QED BY <3>2, <3>3
  <2>. QED BY <1>9, <2>1, <2>2
<1>15. SectionsIn(p) = (IF P > 0 THEN {first} ELSE {}) \cup {first + r : r \in 1 .. n}
  <2>1. StartIn(p) \subseteq SectionsIn(p)
    BY DEF StartIn, SectionsIn
  <2>2. P > 0 => first \in SectionsIn(p)
    BY <1>11 DEF SectionsIn
  <2>3. \A s \in SectionsIn(p) : s \in (IF P > 0 THEN {first} ELSE {}) \cup {first + r : r \in 1 .. n}
    BY <1>14 DEF SectionsIn
  <2>. QED BY <1>13, <2>1, <2>2, <2>3
<1>16. StartIn(p) = {first + r : r \in 1 .. n}
  BY <1>13, <1>14 DEF StartIn
<1>17. EndIn(p) = (IF P > 0 THEN {first} ELSE {}) \cup {first + r : r \in 1 .. g}
  <2>1. P > 0 => first \in EndIn(p)
    BY <1>11 DEF EndIn
  <2>2. ASSUME NEW r \in 1 .. g PROVE first + r \in EndIn(p)
    <3>1. r \in 1 .. n
      <4>1. g \in 0 .. n
        BY <1>8
      <4>. QED BY <4>1
    <3>2. ByteAt(first + r, lens[r], lens[r]) \in BytesOf(p)
      BY <1>8, <1>12, <3>1
    <3>. QED BY <3>2, ByteFields DEF EndIn
  <2>3. \A s \in EndIn(p) : s \in (IF P > 0 THEN {first} ELSE {}) \cup {first + r : r \in 1 .. g}
    BY <1>14 DEF EndIn
  <2>. QED BY <2>1, <2>2, <2>3
<1>. QED BY <1>8, <1>15, <1>16, <1>17 DEF P, After

-----------------------------------------------------------------------------
(* The continuity counter.                                                 *)

(* A sum that is less than twice the modulus.                              *)
LEMMA ModOnce ==
  ASSUME NEW M \in Nat \ {0}, NEW x \in Nat, x < M + M
  PROVE  x % M = IF x < M THEN x ELSE x - M
OBVIOUS

(* The next packet goes on from the last one that was received exactly if  *)
(* none was lost in between.                                               *)
LEMMA NextCounter ==
  ASSUME NEW a \in 0 .. CcMod - 1, NEW n \in 0 .. MaxLost
  PROVE  /\ (a + n) % CcMod \in 0 .. CcMod - 1
         /\ (((a + n) % CcMod) + 1) % CcMod = (a + (n + 1)) % CcMod
         /\ (((a + n) % CcMod) + 1) % CcMod = (a + 1) % CcMod <=> n = 0
         /\ n = 0 => (a + n) % CcMod = a
         /\ (a + 1) % CcMod # a
<1>. DEFINE M == CcMod
            x == a + n
            y == x % M
<1>1. M \in Nat \ {0} /\ M >= 2 /\ n \in Nat /\ n < M /\ a \in Nat /\ a < M /\ x \in Nat
  BY TsSectionsAssumption, LossAssumption
<1>2. y = IF x < M THEN x ELSE x - M
  <2>1. x < M + M
    BY <1>1
  <2>. HIDE DEF x, M
  <2>. QED BY <1>1, <2>1, ModOnce
<1>3. (y + 1) % M = IF y + 1 < M THEN y + 1 ELSE y + 1 - M
  <2>. DEFINE z == y + 1
  <2>1. z \in Nat /\ z < M + M
    BY <1>1, <1>2
  <2>. HIDE DEF z, M, y
  <2>2. z % M = IF z < M THEN z ELSE z - M
    BY <1>1, <2>1, ModOnce
  <2>. QED BY <1>1, <1>2, <2>1, <2>2 DEF z
<1>4. (a + 1) % M = IF a + 1 < M THEN a + 1 ELSE a + 1 - M
  <2>. DEFINE z == a + 1
  <2>1. z \in Nat /\ z < M + M
    BY <1>1
  <2>. HIDE DEF z, M, y
  <2>2. z % M = IF z < M THEN z ELSE z - M
    BY <1>1, <2>1, ModOnce
  <2>. QED BY <1>1, <1>2, <2>1, <2>2 DEF z
<1>5. (x + 1) % M = IF x + 1 < M THEN x + 1 ELSE x + 1 - M
  <2>. DEFINE z == x + 1
  <2>1. z \in Nat /\ z < M + M
    BY <1>1
  <2>. HIDE DEF z, M, y
  <2>2. z % M = IF z < M THEN z ELSE z - M
    BY <1>1, <2>1, ModOnce
  <2>. QED BY <1>1, <1>2, <2>1, <2>2 DEF z
<1>6. a + (n + 1) = x + 1
  BY <1>1
<1>. DEFINE u == (y + 1) % M
            v == (a + 1) % M
            w == (x + 1) % M
<1>7. /\ y \in 0 .. M - 1 /\ u = w /\ (u = v <=> n = 0) /\ (n = 0 => y = a) /\ v # a
  <2>1. /\ u = IF y + 1 < M THEN y + 1 ELSE y + 1 - M
        /\ v = IF a + 1 < M THEN a + 1 ELSE a + 1 - M
        /\ w = IF x + 1 < M THEN x + 1 ELSE x + 1 - M
    BY <1>3, <1>4, <1>5
  <2>2. x = a + n
    OBVIOUS
  <2>. HIDE DEF u, v, w, y, x, M
  <2>. QED BY <1>1, <1>2, <2>1, <2>2
<1>. QED BY <1>6, <1>7
-----------------------------------------------------------------------------
(* What a packet gives.                                                    *)

(* From a packet in which sections start, those are cut that end in it,    *)
(* after the one that went on to its pointer.                              *)
LEMMA AnalyzesStart ==
  ASSUME NEW first \in Nat, NEW lens \in Seq(Lengths), Len(lens) # 0,
         NEW p, p.pusi, NEW off, Holds(p, first, lens, off), NEW old
  PROVE  LET before == IF Continuous(old, p) /\ old.section # <<>>
                         THEN Collect([old EXCEPT !.lastcc = p.cc],
                                      SubSeq(p.payload, 1, p.pointer)).cut
                         ELSE <<>>
             new == Gives(first, lens, off, Len(p.payload) - p.pointer, p.cc)
         IN  Analyze(old, p) = [pf |-> new.pf, cut |-> before \o new.cut]
<1>. DEFINE kept == [old EXCEPT !.lastcc = p.cc]
            body == From(p.payload, p.pointer + 1)
            m    == Len(p.payload) - p.pointer
            new  == CutFrom(kept, body)
            before == IF Continuous(old, p) /\ old.section # <<>>
                        THEN Collect(kept, SubSeq(p.payload, 1, p.pointer)).cut
                        ELSE <<>>
<1>1. /\ p.payload \in Seq(Byte) /\ p.pointer \in 0 .. Len(p.payload)
      /\ Packed(body, first, lens, off)
  BY DEF Holds
<1>2. body \in Seq(Byte) /\ Len(body) = m
  <2>. DEFINE a == p.pointer + 1
              load == p.payload
  <2>1. /\ load \in Seq(Byte) /\ a \in 1 .. Len(load) + 1 /\ Len(load) \in a - 1 .. Len(load)
        /\ Len(load) - a + 1 = m /\ body = SubSeq(load, a, Len(load))
    BY <1>1 DEF From
  <2>. HIDE DEF a, load, body, m
  <2>. QED BY <2>1, Slice
<1>3. kept.lastcc = p.cc /\ kept.section = old.section
  OBVIOUS
<1>. HIDE DEF body, kept, m
<1>4. new = Gives(first, lens, off, m, p.cc)
  <2>1. /\ first \in Nat /\ lens \in Seq(Lengths) /\ Len(lens) # 0
        /\ body \in Seq(Byte) /\ Packed(body, first, lens, off)
    BY <1>1, <1>2
  <2>2. CutFrom(kept, body) = Gives(first, lens, off, Len(body), kept.lastcc)
    BY <2>1, CutsPacked
  <2>. QED BY <1>2, <1>3, <2>2
<1>5. Analyze(old, p) = [pf |-> new.pf, cut |-> before \o new.cut]
  <2>1. ~(p.pointer > Len(p.payload))
    BY <1>1
  <2>2. (Continuous(old, p) /\ kept.section # <<>>) = (Continuous(old, p) /\ old.section # <<>>)
    BY <1>3
  <2>. QED BY <2>1, <2>2 DEF Analyze, kept, body
<1>. HIDE DEF new, before
<1>6. Analyze(old, p) = [pf  |-> Gives(first, lens, off, m, p.cc).pf,
                         cut |-> before \o Gives(first, lens, off, m, p.cc).cut]
  BY <1>4, <1>5
<1>. QED BY <1>6 DEF before, kept, m

\* Sections with these numbers, in order.
CutsExactly(sections, numbers) ==
  /\ \A i \in DOMAIN sections : IsSection(sections[i])
  /\ \A i, j \in DOMAIN sections : i < j => sections[i][1].section < sections[j][1].section
  /\ {sections[i][1].section : i \in DOMAIN sections} = numbers

(* A section is known by its first byte.                                   *)
LEMMA FirstByte ==
  ASSUME NEW k \in Nat, NEW l \in Lengths
  PROVE  IsSection(Section(k, l)) /\ Section(k, l)[1].section = k
<1>1. /\ Section(k, l) \in Seq(Byte) /\ Len(Section(k, l)) = l
      /\ \A i \in 1 .. l : Section(k, l)[i] = ByteAt(k, i, l)
  BY SectionType
<1>2. 1 \in 1 .. l
  BY TsSectionsAssumption
<1>3. Section(k, l)[1].section = k /\ Section(k, l)[1].len = l
  BY <1>1, <1>2, ByteFields
<1>4. Section(k, l) # <<>>
  <2>. DEFINE s == Section(k, l)
  <2>1. s \in Seq(Byte) /\ Len(s) # 0
    BY <1>1, <1>2
  <2>. HIDE DEF s
  <2>2. s # <<>>
    BY <2>1
  <2>. QED BY <2>2 DEF s
<1>. QED BY <1>3, <1>4 DEF IsSection

(* No section gives no number.                                             *)
LEMMA CutsNone ==
  CutsExactly(<<>>, {})
BY DEF CutsExactly

(* Sections that follow each other, after the one before them or not.      *)
LEMMA CutsInOrder ==
  ASSUME NEW first \in Nat, NEW lens \in Seq(Lengths), NEW g \in 0 .. Len(lens),
         NEW l \in Lengths
  PROVE  LET c == [r \in 1 .. g |-> Section(first + r, lens[r])]
         IN  /\ CutsExactly(<<>> \o c, After(first, g))
             /\ CutsExactly(<< Section(first, l) >> \o c, {first} \cup After(first, g))
<1>. DEFINE c == [r \in 1 .. g |-> Section(first + r, lens[r])]
            numbers == {first + r : r \in 1 .. g}
            S == Section(first, l)
            e == << S >> \o c
<1>1. g \in Nat /\ \A r \in 1 .. g : lens[r] \in Lengths
  <2>1. \A r \in 1 .. g : r \in 1 .. Len(lens)
    OBVIOUS
  <2>. QED BY <2>1
<1>2. ASSUME NEW r \in 1 .. g
      PROVE  Section(first + r, lens[r]) \in Seq(Byte)
  <2>1. first + r \in Nat
    BY <1>1
  <2>. QED BY <1>1, <2>1, SectionType
<1>3. ASSUME NEW r \in 1 .. g
      PROVE  IsSection(c[r]) /\ c[r][1].section = first + r
  <2>1. first + r \in Nat
    BY <1>1
  <2>2. c[r] = Section(first + r, lens[r])
    OBVIOUS
  <2>. QED BY <1>1, <2>1, <2>2, FirstByte
<1>4. c \in Seq(Seq(Byte)) /\ Len(c) = g /\ DOMAIN c = 1 .. g
  BY <1>1, <1>2
<1>5. S \in Seq(Byte) /\ IsSection(S) /\ S[1].section = first
  BY SectionType, FirstByte
<1>. HIDE DEF c, S
<1>6. CutsExactly(c, numbers)
  <2>1. {c[i][1].section : i \in 1 .. g} = {first + i : i \in 1 .. g}
    BY <1>3
  <2>2. \A i, j \in 1 .. g : i < j => c[i][1].section < c[j][1].section
    BY <1>1, <1>3
  <2>. QED BY <1>3, <1>4, <2>1, <2>2 DEF CutsExactly
<1>7. <<>> \o c = c
  BY <1>4, ConcatEmptySeq
<1>8. /\ DOMAIN e = 1 .. g + 1 /\ e[1] = S
      /\ \A i \in 1 .. g : e[1 + i] = c[i]
  <2>. DEFINE one == << S >>
  <2>1. one \in Seq(Seq(Byte)) /\ Len(one) = 1 /\ one[1] = S
    BY <1>5
  <2>. HIDE DEF one
  <2>2. /\ one \o c \in Seq(Seq(Byte)) /\ Len(one \o c) = Len(one) + Len(c)
        /\ \A i \in 1 .. Len(one) : (one \o c)[i] = one[i]
        /\ \A i \in 1 .. Len(c) : (one \o c)[Len(one) + i] = c[i]
    <3>1. one \in Seq(Seq(Byte)) /\ c \in Seq(Seq(Byte))
      BY <1>4, <2>1
    <3>. QED BY <3>1, JoinedSequences
  <2>3. e = one \o c
    BY DEF one
  <2>. HIDE DEF e
  <2>4. 1 \in 1 .. Len(one) /\ Len(e) = g + 1 /\ DOMAIN e = 1 .. Len(e)
    BY <1>1, <1>4, <2>1, <2>2, <2>3
  <2>. QED BY <1>4, <2>1, <2>2, <2>3, <2>4
<1>. HIDE DEF e
<1>9. CutsExactly(e, {first} \cup numbers)
  <2>1. ASSUME NEW i \in 1 .. g + 1
        PROVE  IsSection(e[i]) /\ e[i][1].section = first + i - 1
    <3>1. CASE i = 1
      BY <1>5, <1>8, <3>1
    <3>2. CASE i # 1
      <4>1. i - 1 \in 1 .. g /\ 1 + (i - 1) = i
        BY <1>1, <3>2
      <4>2. e[i] = c[i - 1]
        BY <1>8, <4>1
      <4>3. c[i - 1][1].section = first + (i - 1) /\ first + (i - 1) = first + i - 1
        BY <1>3, <4>1
      <4>. QED BY <1>3, <4>1, <4>2, <4>3
    <3>. QED BY <3>1, <3>2
  <2>2. \A i, j \in 1 .. g + 1 : i < j => e[i][1].section < e[j][1].section
    BY <1>1, <2>1
  <2>3. {e[i][1].section : i \in 1 .. g + 1} = {first} \cup {first + r : r \in 1 .. g}
    <3>1. ASSUME NEW i \in 1 .. g + 1
          PROVE  e[i][1].section \in {first} \cup {first + r : r \in 1 .. g}
      <4>1. e[i][1].section = first + i - 1
        BY <2>1
      <4>2. i = 1 \/ (i - 1 \in 1 .. g /\ first + i - 1 = first + (i - 1))
        BY <1>1
      <4>3. i = 1 => first + i - 1 = first
        OBVIOUS
      <4>. QED BY <4>1, <4>2, <4>3
    <3>2. 1 \in 1 .. g + 1 /\ e[1][1].section = first
      BY <1>1, <1>5, <1>8
    <3>3. ASSUME NEW r \in 1 .. g
          PROVE  \E i \in 1 .. g + 1 : first + r = e[i][1].section
      <4>1. r + 1 \in 1 .. g + 1 /\ first + (r + 1) - 1 = first + r
        BY <1>1
      <4>. QED BY <2>1, <4>1
    <3>. QED BY <3>1, <3>2, <3>3
  <2>. QED BY <1>8, <2>1, <2>2, <2>3 DEF CutsExactly
<1>. QED BY <1>6, <1>7, <1>9 DEF c, e, S, After

-----------------------------------------------------------------------------
(* The inductive invariant.                                                *)

\* The filters are to get the last section, as soon as it is whole.
Receiving == Remaining > 0 /\ Started \notin broken

\* What there is of that section is in the assembly, unless a packet was lost.
AssemblyOK ==
  /\ pf \in [section : Seq(Byte), sectionLen : Lengths \cup {0}, lastcc : -1 .. CcMod - 1]
  /\ filters = <<>> => pf = NoAssembly
  /\ (filters = <<>> \/ pf.lastcc = -1 \/ lost > 0) => ~Receiving
  /\ (filters # <<>> /\ pf.lastcc # -1) =>
       /\ cc = (pf.lastcc + lost) % CcMod
       /\ lost = 0 => pf = IF Receiving THEN Assembly(Started, lengths[Started], offset, cc)
                           ELSE Idle(cc)

\* Each filter is in the list once.
FiltersOK ==
  /\ filters \in Seq([id : FilterIds, tables : SUBSET Tables, ecm : [EcmTables -> 0 .. Started]])
  /\ \A i, j \in DOMAIN filters : filters[i].id = filters[j].id => i = j

\* Each filter has the modes of the ECMs that OSCam answers.
AskOK ==
  /\ asked \in [FilterIds -> [EcmTables -> 0 .. Started]]
  /\ \A i \in DOMAIN filters : filters[i].ecm = asked[filters[i].id]
  /\ \A f \in FilterIds : (\A i \in DOMAIN filters : filters[i].id # f) => asked[f] = NoMode

\* The sections that start in the last packet are the last ones broadcast.
Newest(first, lens, off) ==
  LET n == Len(lens)
      m == Len(last.payload) - last.pointer
  IN  /\ n # 0 /\ Started = first + n
      /\ \A r \in 1 .. n : lengths[first + r] = lens[r] /\ first + r \notin broken
      /\ offset = IF off[n] <= m THEN lens[n] ELSE m - off[n - 1]
      /\ Holds(last, first, lens, off)

LastOK ==
  (last # NoPacket /\ filters # <<>>) =>
    /\ pf.lastcc = cc /\ last.cc = cc /\ lost = 0
    /\ ~last.pusi => Started # 0 /\ SectionsIn(last) = {Started}
    /\ last.pusi => \E first \in Nat : \E lens \in Seq(Lengths) :
                      \E off \in [0 .. Len(lens) -> Nat] : Newest(first, lens, off)

(* The next packet goes on with a section exactly if the filters are to    *)
(* get it; then the assembly is its beginning.                             *)
LEMMA GoesOn ==
  ASSUME StreamOK, AssemblyOK, filters # <<>>, NEW p, p.cc = (cc + 1) % CcMod
  PROVE  /\ (Continuous(pf, p) /\ pf.section # <<>>) <=> Receiving
         /\ Receiving =>
              /\ Started \in Nat \ {0} /\ lengths[Started] \in Lengths
              /\ offset \in 1 .. lengths[Started] - 1
              /\ [pf EXCEPT !.lastcc = p.cc] = Assembly(Started, lengths[Started], offset, p.cc)
<1>. DEFINE k == Started
            l == lengths[Started]
<1>1. /\ pf \in [section : Seq(Byte), sectionLen : Lengths \cup {0}, lastcc : -1 .. CcMod - 1]
      /\ (pf.lastcc = -1 \/ lost > 0) => ~Receiving
      /\ pf.lastcc # -1 =>
           /\ cc = (pf.lastcc + lost) % CcMod
           /\ lost = 0 => pf = IF Receiving THEN Assembly(k, l, offset, cc) ELSE Idle(cc)
  BY DEF AssemblyOK
<1>2. lost \in 0 .. MaxLost /\ MaxLost \in Nat
  BY LossAssumption DEF StreamOK
<1>3. Receiving => k \in Nat \ {0} /\ l \in Lengths /\ l \in Nat /\ offset \in 1 .. l - 1
  BY RemainingType DEF Receiving
<1>4. CASE pf.lastcc = -1
  <2>1. ~Continuous(pf, p)
    BY <1>4 DEF Continuous
  <2>. QED BY <1>1, <1>4, <2>1
<1>5. CASE pf.lastcc # -1
  <2>1. pf.lastcc \in 0 .. CcMod - 1 /\ pf.lastcc >= 0
    BY <1>1, <1>5
  <2>2. Continuous(pf, p) <=> lost = 0
    <3>1. (((pf.lastcc + lost) % CcMod) + 1) % CcMod = (pf.lastcc + 1) % CcMod <=> lost = 0
      BY <1>2, <2>1, NextCounter
    <3>. QED BY <1>1, <1>5, <2>1, <3>1 DEF Continuous
  <2>3. CASE lost # 0
    <3>1. lost > 0
      BY <1>2, <2>3
    <3>. QED BY <1>1, <2>2, <2>3, <3>1
  <2>4. CASE lost = 0 /\ ~Receiving
    BY <1>1, <1>5, <2>4 DEF Idle
  <2>5. CASE lost = 0 /\ Receiving
    <3>1. pf = Assembly(k, l, offset, cc)
      BY <1>1, <1>5, <2>5
    <3>2. /\ Assembly(k, l, offset, cc).section = Prefix(k, l, offset)
          /\ [Assembly(k, l, offset, cc) EXCEPT !.lastcc = p.cc] = Assembly(k, l, offset, p.cc)
      BY DEF Assembly
    <3>3. Prefix(k, l, offset) # <<>>
      <4>. DEFINE s == Prefix(k, l, offset)
      <4>1. s \in Seq(Byte) /\ Len(s) = offset /\ offset # 0
        <5>1. k \in Nat /\ l \in Lengths /\ offset \in Nat /\ offset # 0
          BY <1>3, <2>5
        <5>. HIDE DEF k, l
        <5>. QED BY <5>1, PrefixType
      <4>. HIDE DEF s
      <4>2. s # <<>>
        BY <4>1
      <4>. QED BY <4>2 DEF s
    <3>. QED BY <1>3, <2>2, <2>5, <3>1, <3>2, <3>3
  <2>. QED BY <2>3, <2>4, <2>5
<1>. QED BY <1>4, <1>5

(* What a packet gives in which no section starts.                         *)
LEMMA ArrivesNone ==
  ASSUME StreamOK, AssemblyOK, filters # <<>>, Broadcasts(<<>>)
  PROVE  Analyze(pf, PacketWith(<<>>)) =
           IF ~Receiving THEN [pf |-> Idle(cc'), cut |-> <<>>]
           ELSE IF Remaining <= PayloadLen
             THEN [pf |-> Idle(cc'), cut |-> << Section(Started, lengths[Started]) >>]
             ELSE [pf  |-> Assembly(Started, lengths[Started], offset + PayloadLen, cc'),
                   cut |-> <<>>]
<1>. DEFINE p == PacketWith(<<>>)
            k == Started
            l == lengths[Started]
            kept == [pf EXCEPT !.lastcc = p.cc]
<1>1. /\ ~p.pusi /\ p.cc = cc' /\ p.payload \in Seq(Byte) /\ Len(p.payload) = PayloadLen
      /\ \A i \in 1 .. PayloadLen :
           p.payload[i] = IF i <= Remaining THEN ByteAt(k, offset + i, l) ELSE Stuffing
  BY NoneStarts
<1>2. p.cc = (cc + 1) % CcMod
  BY DEF PacketWith
<1>. HIDE DEF p
<1>3. /\ (Continuous(pf, p) /\ pf.section # <<>>) <=> Receiving
      /\ Receiving => /\ k \in Nat \ {0} /\ l \in Lengths /\ offset \in 1 .. l - 1
                      /\ kept = Assembly(k, l, offset, cc')
  BY <1>1, <1>2, GoesOn
<1>4. kept.section = pf.section /\ Dropped(kept) = Idle(cc')
  <2>1. pf \in [section : Seq(Byte), sectionLen : Lengths \cup {0}, lastcc : -1 .. CcMod - 1]
    BY DEF AssemblyOK
  <2>2. kept.section = pf.section /\ kept.lastcc = p.cc
    BY <2>1
  <2>. HIDE DEF kept
  <2>. QED BY <1>1, <2>2 DEF Dropped, Idle
<1>5. Analyze(pf, p) = IF Receiving THEN Collect(kept, p.payload)
                       ELSE [pf |-> Idle(cc'), cut |-> <<>>]
  BY <1>1, <1>3, <1>4 DEF Analyze
<1>. HIDE DEF kept
<1>6. CASE ~Receiving
  BY <1>5, <1>6 DEF p
<1>7. CASE Receiving
  <2>1. /\ k \in Nat \ {0} /\ l \in Lengths /\ l \in Nat /\ offset \in 1 .. l - 1
        /\ offset \in 0 .. l - 1 /\ PayloadLen \in Nat /\ Remaining = l - offset
    BY <1>3, <1>7, TsSectionsAssumption, RemainingType
  <2>2. \A i \in 1 .. Len(p.payload) : offset + i <= l => p.payload[i] = ByteAt(k, offset + i, l)
    <3>1. \A i \in 1 .. PayloadLen : offset + i <= l => i <= Remaining
      BY <2>1
    <3>. QED BY <1>1, <3>1
  <2>. HIDE DEF k, l
  <2>3. Collect(Assembly(k, l, offset, cc'), p.payload) =
          IF offset + Len(p.payload) >= l
            THEN [pf |-> Idle(cc'), cut |-> << Section(k, l) >>]
            ELSE [pf |-> Assembly(k, l, offset + Len(p.payload), cc'), cut |-> <<>>]
    <3>. DEFINE data == p.payload
    <3>1. /\ k \in Nat \ {0} /\ l \in Lengths /\ offset \in 0 .. l - 1 /\ data \in Seq(Byte)
          /\ \A i \in 1 .. Len(data) : offset + i <= l => data[i] = ByteAt(k, offset + i, l)
      BY <1>1, <2>1, <2>2
    <3>. HIDE DEF data
    <3>2. Collect(Assembly(k, l, offset, cc'), data) =
            IF offset + Len(data) >= l
              THEN [pf |-> Idle(cc'), cut |-> << Section(k, l) >>]
              ELSE [pf |-> Assembly(k, l, offset + Len(data), cc'), cut |-> <<>>]
      BY <3>1, CollectsSection
    <3>. QED BY <3>2 DEF data
  <2>4. offset + Len(p.payload) >= l <=> Remaining <= PayloadLen
    BY <1>1, <2>1
  <2>. QED BY <1>1, <1>3, <1>5, <1>7, <2>3, <2>4 DEF p, k, l
<1>. QED BY <1>6, <1>7

(* One section is cut.                                                     *)
LEMMA CutsOne ==
  ASSUME NEW k \in Nat, NEW l \in Lengths
  PROVE  CutsExactly(<< Section(k, l) >>, {k})
<1>. DEFINE S == Section(k, l)
            one == << S >>
<1>1. IsSection(S) /\ S[1].section = k
  BY FirstByte
<1>. HIDE DEF S
<1>2. DOMAIN one = {1} /\ one[1] = S
  OBVIOUS
<1>. HIDE DEF one
<1>3. \A i, j \in {1} : ~(i < j)
  OBVIOUS
<1>4. CutsExactly(one, {k})
  BY <1>1, <1>2, <1>3 DEF CutsExactly
<1>. QED BY <1>4 DEF one, S

(* What ends in a packet is of a section in it.                            *)
LEMMA EndsAreIn ==
  ASSUME NEW p
  PROVE  EndIn(p) \subseteq SectionsIn(p) /\ StartIn(p) \subseteq SectionsIn(p)
BY DEF EndIn, StartIn, SectionsIn

(* However much a packet has of the sections, the stream goes on.          *)
LEMMA StreamGrows ==
  ASSUME StreamOK, NEW lens \in Batches, Broadcasts(lens)
  PROVE  /\ Started' \in Nat \ {0} /\ Started \in Nat /\ Started <= Started'
         /\ offset' \in 1 .. lengths'[Started']
         /\ SectionsIn(PacketWith(lens)) \subseteq 1 .. Started'
         /\ Started' \in SectionsIn(PacketWith(lens))
         /\ PacketWith(lens).cc = cc'
<1>. DEFINE p == PacketWith(lens)
            n == Len(lens)
<1>1. /\ lens \in Seq(Lengths) /\ n \in Nat /\ PayloadLen \in Nat /\ PayloadLen >= 1
      /\ Started \in Nat /\ offset \in Nat /\ Remaining \in Nat
  BY BatchType, RemainingType, TsSectionsAssumption
<1>2. /\ Started' = Started + n /\ \A r \in 1 .. n : lengths'[Started + r] = lens[r]
      /\ lens = <<>> => lengths' = lengths
  BY <1>1, SectionsAdded
<1>3. CASE lens = <<>>
  <2>. DEFINE k == Started
              l == lengths[Started]
  <2>0. Broadcasts(<<>>) /\ p = PacketWith(<<>>) /\ n = 0
    BY <1>3
  <2>. HIDE DEF p
  <2>1. /\ k \in Nat \ {0} /\ Remaining > 0 /\ l \in Lengths
        /\ p.cc = cc' /\ p.payload \in Seq(Byte) /\ Len(p.payload) = PayloadLen
        /\ \A i \in 1 .. PayloadLen :
             p.payload[i] = IF i <= Remaining THEN ByteAt(k, offset + i, l) ELSE Stuffing
        /\ offset' = IF Remaining <= PayloadLen THEN l ELSE offset + PayloadLen
    BY <2>0, NoneStarts
  <2>2. offset \in 1 .. l - 1 /\ Remaining = l - offset /\ l \in Nat
    BY <1>1, <2>1, RemainingType
  <2>3. k' = k /\ l = lengths'[k']
    BY <1>1, <1>2, <1>3, <2>0
  <2>. HIDE DEF k, l
  <2>4. SectionsIn(p) = {k}
    <3>1. \A i \in 1 .. PayloadLen :
            p.payload[i] = IF i <= l - offset THEN ByteAt(k, offset + i, l) ELSE Stuffing
      BY <2>1, <2>2
    <3>2. /\ k \in Nat \ {0} /\ l \in Lengths /\ offset \in 1 .. l - 1
          /\ p.payload \in Seq(Byte) /\ Len(p.payload) = PayloadLen
      BY <2>1, <2>2
    <3>. QED BY <3>1, <3>2, TailSections
  <2>5. offset' \in 1 .. l
    BY <1>1, <2>1, <2>2
  <2>6. k' \in Nat \ {0} /\ k <= k' /\ SectionsIn(p) \subseteq 1 .. k' /\ k' \in SectionsIn(p)
    BY <2>1, <2>3, <2>4
  <2>. QED BY <1>1, <2>1, <2>3, <2>5, <2>6 DEF k, p
<1>4. CASE lens # <<>>
  <2>. DEFINE m == PayloadLen - 1 - Remaining
  <2>. HIDE DEF p
  <2>1. /\ p.cc = cc' /\ p.pointer = Remaining /\ n \in Nat \ {0} /\ m \in Nat
        /\ Len(p.payload) = Remaining + m
        /\ \E off : /\ Holds(p, Started, lens, off)
                    /\ offset' = IF off[n] <= m THEN lens[n] ELSE m - off[n - 1]
    <3>1. /\ lens \in Seq(Lengths) /\ lens # <<>> /\ p = PacketWith(lens) /\ n = Len(lens)
          /\ m = PayloadLen - 1 - Remaining
      BY <1>1, <1>4 DEF p
    <3>. HIDE DEF n, m
    <3>. QED BY <3>1, SomeStart
  <2>2. PICK off : /\ Holds(p, Started, lens, off)
                   /\ offset' = IF off[n] <= m THEN lens[n] ELSE m - off[n - 1]
    BY <2>1
  <2>3. SectionsIn(p) = (IF p.pointer > 0 THEN {Started} ELSE {}) \cup After(Started, n)
    <3>1. /\ Started \in Nat /\ lens \in Seq(Lengths) /\ Len(lens) # 0
          /\ Holds(p, Started, lens, off)
      BY <1>1, <2>1, <2>2
    <3>. QED BY <3>1, HeldSections
  <2>4. Started' \in Nat \ {0} /\ Started <= Started' /\ n \in 1 .. n
    BY <1>1, <1>2, <2>1
  <2>5. p.pointer > 0 => Started # 0
    BY <2>1, RemainingType
  <2>6. SectionsIn(p) \subseteq 1 .. Started'
    BY <1>1, <1>2, <2>3, <2>4, <2>5 DEF After
  <2>7. Started' \in SectionsIn(p)
    BY <1>2, <2>3, <2>4 DEF After
  <2>8. offset' \in 1 .. lengths'[Started']
    <3>1. lengths'[Started'] = lens[n]
      BY <1>2, <2>4
    <3>2. lens[n] \in Nat /\ lens[n] >= 1
      <4>1. lens[n] \in Lengths
        BY <1>1, <2>4
      <4>2. \A x \in Lengths : x \in Nat /\ x >= 1
        BY TsSectionsAssumption
      <4>. QED BY <4>1, <4>2
    <3>3. Packed(From(p.payload, p.pointer + 1), Started, lens, off)
      BY <2>2 DEF Holds
    <3>4. Len(From(p.payload, p.pointer + 1)) = m
      <4>. DEFINE a == p.pointer + 1
                  load == p.payload
      <4>1. /\ load \in Seq(Byte) /\ p.pointer \in 0 .. Len(load)
        BY <2>2 DEF Holds
      <4>2. /\ a \in 1 .. Len(load) + 1 /\ Len(load) \in a - 1 .. Len(load)
            /\ Len(load) - a + 1 = m
        BY <1>1, <2>1, <4>1
      <4>. HIDE DEF a, load, m
      <4>3. Len(SubSeq(load, a, Len(load))) = m
        BY <4>1, <4>2, Slice
      <4>. QED BY <4>3 DEF a, load, From
    <3>5. /\ off[n] = off[n - 1] + lens[n] /\ off[n - 1] < m
          /\ off[n - 1] \in Nat /\ off[n] \in Nat
      <4>1. n - 1 \in 0 .. n /\ n \in 0 .. n
        BY <2>1
      <4>2. Offsets(off, lens) /\ off[n - 1] < m
        BY <3>3, <3>4 DEF Packed
      <4>3. off \in [0 .. n -> Nat] /\ off[n] = off[n - 1] + lens[n]
        BY <2>4, <4>2 DEF Offsets
      <4>. QED BY <4>1, <4>2, <4>3
    <3>6. m \in Nat
      BY <2>1
    <3>. HIDE DEF m
    <3>7. offset' \in 1 .. lens[n]
      BY <2>2, <3>2, <3>5, <3>6
    <3>. QED BY <3>1, <3>7
  <2>. QED BY <1>1, <2>1, <2>4, <2>6, <2>7, <2>8 DEF p
<1>. QED BY <1>3, <1>4

(* A packet in which no section starts: the assembly grows, or it is whole *)
(* and cut.                                                                *)
LEMMA GivesNone ==
  ASSUME StreamOK, AssemblyOK, filters # <<>>, Broadcasts(<<>>), broken' = broken
  PROVE  LET p == PacketWith(<<>>)
             result == Analyze(pf, p)
         IN  /\ result.pf = IF Receiving'
                              THEN Assembly(Started', lengths'[Started'], offset', cc')
                              ELSE Idle(cc')
             /\ CutsExactly(result.cut, EndIn(p) \ broken)
             /\ ~p.pusi /\ SectionsIn(p) = {Started'}
<1>. DEFINE p == PacketWith(<<>>)
            k == Started
            l == lengths[Started]
            result == Analyze(pf, p)
<1>1. /\ k \in Nat \ {0} /\ Remaining > 0 /\ l \in Lengths /\ ~p.pusi
      /\ p.payload \in Seq(Byte) /\ Len(p.payload) = PayloadLen
      /\ \A i \in 1 .. PayloadLen :
           p.payload[i] = IF i <= Remaining THEN ByteAt(k, offset + i, l) ELSE Stuffing
      /\ offset' = IF Remaining <= PayloadLen THEN l ELSE offset + PayloadLen
      /\ Remaining' = l - offset'
  BY NoneStarts
<1>2. /\ offset \in 1 .. l - 1 /\ Remaining = l - offset /\ l \in Nat /\ k \in Nat
      /\ PayloadLen \in Nat /\ PayloadLen >= 1
  BY <1>1, RemainingType, TsSectionsAssumption
<1>3. Started' = k /\ lengths' = lengths
  <2>1. <<>> \in Seq(Lengths)
    OBVIOUS
  <2>2. lengths' = lengths
    BY <2>1, SectionsAdded
  <2>. QED BY <2>2 DEF Started
<1>4. result = IF ~Receiving THEN [pf |-> Idle(cc'), cut |-> <<>>]
               ELSE IF Remaining <= PayloadLen
                 THEN [pf |-> Idle(cc'), cut |-> << Section(k, l) >>]
                 ELSE [pf |-> Assembly(k, l, offset + PayloadLen, cc'), cut |-> <<>>]
  BY ArrivesNone
<1>. HIDE DEF p
<1>5. /\ SectionsIn(p) = {k}
      /\ EndIn(p) = IF l - offset <= PayloadLen THEN {k} ELSE {}
  <2>. HIDE DEF k, l
  <2>1. \A i \in 1 .. PayloadLen :
          p.payload[i] = IF i <= l - offset THEN ByteAt(k, offset + i, l) ELSE Stuffing
    BY <1>1, <1>2
  <2>2. /\ k \in Nat \ {0} /\ l \in Lengths /\ offset \in 1 .. l - 1
        /\ p.payload \in Seq(Byte) /\ Len(p.payload) = PayloadLen
    BY <1>1, <1>2
  <2>. QED BY <2>1, <2>2, TailSections
<1>6. Receiving <=> k \notin broken
  BY <1>1 DEF Receiving
<1>7. Receiving' <=> (~(Remaining <= PayloadLen) /\ k \notin broken)
  <2>1. Receiving' <=> (Remaining' > 0 /\ k \notin broken)
    BY <1>3 DEF Receiving
  <2>2. Remaining' > 0 <=> ~(Remaining <= PayloadLen)
    BY <1>1, <1>2
  <2>. QED BY <2>1, <2>2
<1>8. lengths'[Started'] = l
  BY <1>3
<1>. HIDE DEF k, l, result
<1>9. result.pf = IF Receiving' THEN Assembly(Started', lengths'[Started'], offset', cc')
                  ELSE Idle(cc')
  <2>1. Receiving' => offset' = offset + PayloadLen
    BY <1>1, <1>7
  <2>. QED BY <1>3, <1>4, <1>6, <1>7, <1>8, <2>1
<1>10. CutsExactly(result.cut, EndIn(p) \ broken)
  <2>1. CASE Receiving /\ Remaining <= PayloadLen
    <3>1. result.cut = << Section(k, l) >> /\ EndIn(p) \ broken = {k}
      BY <1>2, <1>4, <1>5, <1>6, <2>1
    <3>. QED BY <1>1, <1>2, <3>1, CutsOne
  <2>2. CASE ~(Receiving /\ Remaining <= PayloadLen)
    <3>1. result.cut = <<>> /\ EndIn(p) \ broken = {}
      BY <1>2, <1>4, <1>5, <1>6, <2>2
    <3>. QED BY <3>1, CutsNone
  <2>. QED BY <2>1, <2>2
<1>. QED BY <1>1, <1>3, <1>5, <1>9, <1>10 DEF p, result

(* A packet in which sections start, of which the filters were getting the *)
(* one before or not: what ends in it is cut, the last one may go on.      *)
LEMMA GivesSome ==
  ASSUME StreamOK, AssemblyOK, filters # <<>>, NEW lens \in Seq(Lengths), Len(lens) # 0,
         Broadcasts(lens), broken' = broken
  PROVE  LET p == PacketWith(lens)
             result == Analyze(pf, p)
         IN  /\ result.pf = IF Receiving'
                              THEN Assembly(Started', lengths'[Started'], offset', cc')
                              ELSE Idle(cc')
             /\ CutsExactly(result.cut, EndIn(p) \ broken)
             /\ p.pusi
             /\ \E off \in [0 .. Len(lens) -> Nat] :
                  LET m == Len(p.payload) - p.pointer
                  IN  /\ Holds(p, Started, lens, off)
                      /\ offset' = IF off[Len(lens)] <= m THEN lens[Len(lens)]
                                   ELSE m - off[Len(lens) - 1]
<1>. DEFINE p == PacketWith(lens)
            k == Started
            l == lengths[Started]
            n == Len(lens)
            m == PayloadLen - 1 - Remaining
            result == Analyze(pf, p)
<1>1. /\ Started \in Nat /\ offset \in Nat /\ Remaining \in Nat /\ n \in Nat \ {0}
      /\ Remaining > 0 => k \in Nat \ {0} /\ l \in Lengths /\ l \in Nat
                          /\ Remaining = l - offset /\ offset >= 1
  BY RemainingType
<1>2. /\ p.pusi /\ p.cc = cc' /\ p.payload \in Seq(Byte) /\ p.pointer = Remaining
      /\ m \in Nat /\ Len(p.payload) = Remaining + m
      /\ \A i \in 1 .. Remaining : p.payload[i] = ByteAt(k, offset + i, l)
      /\ \E off : /\ Holds(p, Started, lens, off)
                  /\ offset' = IF off[n] <= m THEN lens[n] ELSE m - off[n - 1]
  <2>1. /\ lens # <<>> /\ p = PacketWith(lens) /\ n = Len(lens)
        /\ m = PayloadLen - 1 - Remaining
    OBVIOUS
  <2>. HIDE DEF p, n, m
  <2>. QED BY <2>1, SomeStart
<1>3. p.cc = (cc + 1) % CcMod
  BY DEF PacketWith
<1>. HIDE DEF p, n, m
<1>4. PICK off : /\ Holds(p, Started, lens, off)
                 /\ offset' = IF off[n] <= m THEN lens[n] ELSE m - off[n - 1]
  BY <1>2
<1>5. m = Len(p.payload) - p.pointer
  BY <1>1, <1>2
<1>. DEFINE g == Whole(lens, off, m)
            new == Gives(k, lens, off, m, cc')
            kept == [pf EXCEPT !.lastcc = p.cc]
            data == SubSeq(p.payload, 1, p.pointer)
            before == IF Receiving THEN Collect(kept, data).cut ELSE <<>>
<1>6. /\ (Continuous(pf, p) /\ pf.section # <<>>) <=> Receiving
      /\ Receiving => /\ k \in Nat \ {0} /\ l \in Lengths /\ offset \in 1 .. l - 1
                      /\ kept = Assembly(k, l, offset, p.cc)
  BY <1>3, GoesOn
<1>7. result = [pf |-> new.pf, cut |-> before \o new.cut]
  <2>1. k \in Nat /\ lens \in Seq(Lengths) /\ Len(lens) # 0 /\ p.pusi /\ Holds(p, k, lens, off)
    BY <1>1, <1>2, <1>4
  <2>. DEFINE was == IF Continuous(pf, p) /\ pf.section # <<>> THEN Collect(kept, data).cut
                     ELSE <<>>
  <2>. HIDE DEF k
  <2>2. Analyze(pf, p) = [pf  |-> Gives(k, lens, off, Len(p.payload) - p.pointer, p.cc).pf,
                          cut |-> was \o Gives(k, lens, off, Len(p.payload) - p.pointer, p.cc).cut]
    BY <2>1, AnalyzesStart
  <2>3. was = before
    BY <1>6
  <2>. HIDE DEF was, before
  <2>. QED BY <1>2, <1>5, <2>2, <2>3
<1>8. before = IF Receiving THEN << Section(k, l) >> ELSE <<>>
  <2>. SUFFICES ASSUME Receiving PROVE Collect(kept, data).cut = << Section(k, l) >>
    OBVIOUS
  <2>1. Remaining > 0
    BY DEF Receiving
  <2>2. data \in Seq(Byte) /\ Len(data) = Remaining /\ \A i \in 1 .. Remaining : data[i] = p.payload[i]
    <3>. DEFINE load == p.payload
                b == p.pointer
    <3>1. load \in Seq(Byte) /\ 1 \in 1 .. Len(load) + 1 /\ b \in 1 - 1 .. Len(load)
          /\ b - 1 + 1 = Remaining /\ \A i \in 1 .. Remaining : 1 + i - 1 = i
      BY <1>1, <1>2
    <3>. HIDE DEF load, b
    <3>2. /\ SubSeq(load, 1, b) \in Seq(Byte) /\ Len(SubSeq(load, 1, b)) = b - 1 + 1
          /\ \A i \in 1 .. b - 1 + 1 : SubSeq(load, 1, b)[i] = load[1 + i - 1]
      BY <3>1, Slice
    <3>3. \A i \in 1 .. Remaining : SubSeq(load, 1, b)[i] = load[i]
      BY <3>1, <3>2
    <3>. QED BY <3>1, <3>2, <3>3 DEF load, b
  <2>. HIDE DEF data, k, l
  <2>3. \A i \in 1 .. Len(data) : offset + i <= l => data[i] = ByteAt(k, offset + i, l)
    BY <1>2, <2>2
  <2>4. k \in Nat \ {0} /\ l \in Lengths /\ offset \in 0 .. l - 1 /\ data \in Seq(Byte)
        /\ offset + Len(data) >= l
    <3>1. k \in Nat \ {0} /\ l \in Lengths /\ offset \in 0 .. l - 1
      BY <1>1, <1>6, <2>1
    <3>2. offset + Len(data) = l
      BY <1>1, <2>1, <2>2
    <3>. QED BY <1>1, <2>1, <2>2, <3>1, <3>2
  <2>5. Collect(Assembly(k, l, offset, p.cc), data) =
          IF offset + Len(data) >= l
            THEN [pf |-> Idle(p.cc), cut |-> << Section(k, l) >>]
            ELSE [pf |-> Assembly(k, l, offset + Len(data), p.cc), cut |-> <<>>]
    <3>1. k \in Nat \ {0} /\ l \in Lengths /\ offset \in 0 .. l - 1 /\ data \in Seq(Byte)
      BY <2>4
    <3>. QED BY <2>3, <3>1, CollectsSection
  <2>6. kept = Assembly(k, l, offset, p.cc)
    BY <1>6 DEF k, l
  <2>. HIDE DEF kept
  <2>. QED BY <2>4, <2>5, <2>6
<1>. HIDE DEF before, result
<1>9. /\ new.pf = IF g = n THEN Idle(cc') ELSE Assembly(k + n, lens[n], m - off[n - 1], cc')
      /\ new.cut = [r \in 1 .. g |-> Section(k + r, lens[r])]
  BY DEF Gives, n
<1>. HIDE DEF new
<1>10. /\ EndIn(p) = (IF Remaining > 0 THEN {k} ELSE {}) \cup After(k, g)
       /\ g \in 0 .. n /\ (g # n => g = n - 1)
  <2>1. k \in Nat /\ lens \in Seq(Lengths) /\ Len(lens) # 0 /\ Holds(p, k, lens, off)
    BY <1>1, <1>4
  <2>. HIDE DEF k
  <2>2. LET x == Whole(lens, off, Len(p.payload) - p.pointer)
        IN  /\ EndIn(p) = (IF p.pointer > 0 THEN {k} ELSE {}) \cup After(k, x)
            /\ x \in 0 .. Len(lens) /\ (x # Len(lens) => x = Len(lens) - 1)
    BY <2>1, HeldSections
  <2>. QED BY <1>2, <1>5, <2>2 DEF n, g
<1>11. /\ Started' = k + n /\ lengths'[k + n] = lens[n] /\ lens[n] \in Nat
       /\ off[n] = off[n - 1] + lens[n] /\ off[n - 1] \in Nat /\ off[n - 1] < m
       /\ off \in [0 .. n -> Nat]
  <2>1. n \in 1 .. n /\ n - 1 \in 0 .. n /\ lens[n] \in Lengths
    BY <1>1 DEF n
  <2>2. Started' = k + n /\ lengths'[k + n] = lens[n]
    BY <2>1, SectionsAdded DEF n
  <2>3. lens[n] \in Nat
    BY <2>1, TsSectionsAssumption
  <2>4. Packed(From(p.payload, p.pointer + 1), k, lens, off)
    BY <1>4 DEF Holds
  <2>5. off \in [0 .. n -> Nat] /\ off[n] = off[n - 1] + lens[n]
    BY <2>1, <2>4 DEF Packed, Offsets, n
  <2>6. Len(From(p.payload, p.pointer + 1)) = m
    <3>. DEFINE a == p.pointer + 1
                load == p.payload
    <3>0. load \in Seq(Byte) /\ p.pointer \in 0 .. Len(load) /\ m = Len(load) - p.pointer
      BY <1>4, <1>5 DEF Holds
    <3>1. /\ load \in Seq(Byte) /\ a \in 1 .. Len(load) + 1 /\ Len(load) \in a - 1 .. Len(load)
          /\ Len(load) - a + 1 = m
      BY <3>0
    <3>. HIDE DEF a, load
    <3>2. Len(SubSeq(load, a, Len(load))) = m
      BY <3>1, Slice
    <3>. QED BY <3>2 DEF a, load, From
  <2>7. off[n - 1] < m
    BY <2>4, <2>6 DEF Packed, n
  <2>. QED BY <2>1, <2>2, <2>3, <2>5, <2>7
<1>12. Receiving' <=> g # n
  <2>1. broken \subseteq 1 .. k
    BY DEF StreamOK
  <2>2. k + n \notin broken
    BY <1>1, <2>1
  <2>3. Receiving' <=> Remaining' > 0
    BY <1>11, <2>2 DEF Receiving
  <2>4. Remaining' = lens[n] - offset'
    <3>1. Started' # 0
      BY <1>1, <1>11
    <3>. QED BY <1>11, <3>1 DEF Remaining
  <2>5. g = IF off[n] <= m THEN n ELSE n - 1
    BY DEF Whole, n
  <2>. DEFINE o == off[n - 1]
              z == lens[n]
  <2>6. /\ o \in Nat /\ z \in Nat /\ n \in Nat /\ m \in Nat /\ o < m
        /\ off[n] = o + z /\ Remaining' = z - offset'
        /\ offset' = IF off[n] <= m THEN z ELSE m - o
    BY <1>1, <1>2, <1>4, <1>11, <2>4
  <2>. HIDE DEF o, z
  <2>7. Remaining' > 0 <=> ~(off[n] <= m)
    BY <2>6
  <2>. QED BY <2>3, <2>5, <2>6, <2>7
<1>13. result.pf = IF Receiving' THEN Assembly(Started', lengths'[Started'], offset', cc')
                   ELSE Idle(cc')
  <2>1. result.pf = new.pf
    BY <1>7 DEF result
  <2>2. g = IF off[n] <= m THEN n ELSE n - 1
    BY DEF Whole, n
  <2>3. g # n => offset' = m - off[n - 1]
    BY <1>4, <2>2
  <2>. QED BY <1>9, <1>11, <1>12, <2>1, <2>3
<1>14. CutsExactly(result.cut, EndIn(p) \ broken)
  <2>. DEFINE c == [r \in 1 .. g |-> Section(k + r, lens[r])]
  <2>1. result.cut = before \o c
    <3>. HIDE DEF c
    <3>1. new.cut = c
      BY <1>9 DEF c
    <3>2. result.cut = before \o new.cut
      BY <1>7
    <3>. QED BY <3>1, <3>2
  <2>2. After(k, g) \cap broken = {}
    <3>1. broken \subseteq 1 .. k
      BY DEF StreamOK
    <3>2. \A r \in 1 .. g : k + r \notin 1 .. k
      BY <1>1, <1>10
    <3>. QED BY <3>1, <3>2 DEF After
  <2>3. \A x \in Lengths : /\ CutsExactly(<<>> \o c, After(k, g))
                           /\ CutsExactly(<< Section(k, x) >> \o c, {k} \cup After(k, g))
    <3>1. k \in Nat /\ lens \in Seq(Lengths) /\ g \in 0 .. Len(lens)
      BY <1>1, <1>10 DEF n
    <3>. HIDE DEF k, g
    <3>. QED BY <3>1, CutsInOrder
  <2>. HIDE DEF c
  <2>4. CASE Receiving
    <3>1. l \in Lengths /\ Remaining > 0 /\ k \notin broken
      BY <1>6, <2>4 DEF Receiving
    <3>2. EndIn(p) \ broken = {k} \cup After(k, g)
      BY <1>10, <2>2, <3>1
    <3>. QED BY <1>8, <2>1, <2>3, <2>4, <3>1, <3>2
  <2>5. CASE ~Receiving
    <3>1. EndIn(p) \ broken = After(k, g)
      BY <1>10, <2>2, <2>5 DEF Receiving
    <3>2. lens[n] \in Lengths
      BY <1>1 DEF n
    <3>. QED BY <1>8, <2>1, <2>3, <2>5, <3>1, <3>2
  <2>. QED BY <2>4, <2>5
<1>15. \E o \in [0 .. n -> Nat] :
         LET x == Len(p.payload) - p.pointer
         IN  /\ Holds(p, Started, lens, o)
             /\ offset' = IF o[n] <= x THEN lens[n] ELSE x - o[n - 1]
  BY <1>4, <1>5, <1>11
<1>. QED BY <1>2, <1>13, <1>14, <1>15 DEF p, n, result
-----------------------------------------------------------------------------
(* Whom the sections are sent to, and what an ECM leaves.                  *)

(* The last section of a table is one that was broadcast, or the one       *)
(* before.                                                                 *)
LEMMA LastOfType ==
  ASSUME NEW n \in Nat, table' \in Seq(Tables), Len(table') = n,
         NEW t, NEW sections, NEW before \in 0 .. n
  PROVE  LastOf(t, sections, before) \in 0 .. n
<1>. DEFINE found == {k \in sections \cap DOMAIN table' : table'[k] = t}
<1>1. found \subseteq 1 .. n
  OBVIOUS
<1>2. ASSUME found # {} PROVE \E k \in found : \A m \in found : m <= k
  <2>. DEFINE S == {j \in Nat : n - j \in found}
  <2>. HIDE DEF found
  <2>1. PICK k \in found : k \in 1 .. n
    BY <1>1, <1>2
  <2>2. n - k \in S
    <3>1. n - k \in Nat /\ n - (n - k) = k
      BY <2>1
    <3>. QED BY <2>1, <3>1
  <2>3. \E j \in S : \A i \in S : j <= i
    <3>1. S \subseteq Nat /\ S # {}
      BY <2>2
    <3>. HIDE DEF S
    <3>. QED BY <3>1, LeastNumber
  <2>4. PICK j \in S : \A i \in S : j <= i
    BY <2>3
  <2>5. n - j \in found /\ j \in Nat
    BY <2>4
  <2>6. ASSUME NEW m \in found PROVE m <= n - j
    <3>1. m \in 1 .. n /\ n - m \in Nat /\ n - (n - m) = m
      BY <1>1
    <3>2. n - m \in S
      BY <3>1
    <3>. HIDE DEF S
    <3>3. j <= n - m
      BY <2>4, <3>2
    <3>. QED BY <2>5, <3>1, <3>3
  <2>. QED BY <2>5, <2>6
<1>. DEFINE max == CHOOSE k \in found : \A m \in found : m <= k
<1>3. LastOf(t, sections, before) = IF found = {} THEN before ELSE max
  BY DEF LastOf
<1>. HIDE DEF found
<1>4. found # {} => max \in found
  BY <1>2
<1>. HIDE DEF max
<1>5. CASE found = {}
  BY <1>3, <1>5
<1>6. CASE found # {}
  <2>1. max \in 1 .. n
    BY <1>1, <1>4, <1>6
  <2>2. LastOf(t, sections, before) = max
    BY <1>3, <1>6
  <2>. QED BY <2>1, <2>2
<1>. QED BY <1>5, <1>6

(* An entry of the filters.                                                *)
LEMMA EntryType ==
  ASSUME FiltersOK, NEW i \in DOMAIN filters
  PROVE  /\ filters[i].id \in FilterIds /\ filters[i].tables \in SUBSET Tables
         /\ filters[i].ecm \in [EcmTables -> 0 .. Started]
<1>. DEFINE E == [id : FilterIds, tables : SUBSET Tables, ecm : [EcmTables -> 0 .. Started]]
<1>1. filters \in Seq(E)
  BY DEF FiltersOK
<1>2. filters[i] \in E
  <2>. HIDE DEF E
  <2>. QED BY <1>1
<1>. QED BY <1>1, <1>2

\* What the ECMs among these sections leave of the modes of before.
Left(tables, sections, ecm) ==
  [t \in EcmTables |-> IF t \in tables THEN LastOf(t, sections, ecm[t]) ELSE ecm[t]]

(* Each filter stays what it is, and takes the modes of its ECMs.          *)
LEMMA FilterKeeps ==
  ASSUME StreamOK, FiltersOK, Started' \in Nat, Started <= Started',
         table' \in Seq(Tables), Len(table') = Started',
         filters # <<>>, NEW p, Receive(p), CutsExactly(cut', due')
  PROVE  /\ DOMAIN filters' = DOMAIN filters
         /\ \A i \in DOMAIN filters :
              /\ filters'[i].id = filters[i].id /\ filters'[i].tables = filters[i].tables
              /\ filters'[i].ecm = Left(filters[i].tables, due', filters[i].ecm)
         /\ FiltersOK'
<1>. DEFINE Entry(n) == [id : FilterIds, tables : SUBSET Tables, ecm : [EcmTables -> 0 .. n]]
            sent == {s[1].section : s \in Cut(cut')}
<1>1. /\ cut' = Analyze(pf, p).cut
      /\ filters' = [i \in DOMAIN filters |-> SetECM(filters[i], cut')]
  BY DEF Receive
<1>2. sent = due'
  BY DEF CutsExactly, Cut
<1>3. /\ filters \in Seq(Entry(Started)) /\ Started \in Nat
      /\ \A i, j \in DOMAIN filters : filters[i].id = filters[j].id => i = j
  BY DEF FiltersOK, StreamOK, Started
<1>4. ASSUME NEW i \in DOMAIN filters
      PROVE  /\ filters'[i].id = filters[i].id /\ filters'[i].tables = filters[i].tables
             /\ filters'[i].ecm = Left(filters[i].tables, due', filters[i].ecm)
             /\ filters'[i] \in Entry(Started')
  <2>. DEFINE e == filters[i]
              modes == Left(e.tables, due', e.ecm)
  <2>1. e \in Entry(Started)
    <3>. HIDE DEF Entry
    <3>. QED BY <1>3
  <2>2. filters'[i] = [e EXCEPT !.ecm = modes]
    <3>1. filters'[i] = SetECM(e, cut')
      BY <1>1
    <3>. QED BY <1>2, <3>1 DEF SetECM, Left
  <2>3. modes \in [EcmTables -> 0 .. Started']
    <3>1. ASSUME NEW t \in EcmTables
          PROVE  (IF t \in e.tables THEN LastOf(t, due', e.ecm[t]) ELSE e.ecm[t]) \in 0 .. Started'
      <4>1. e.ecm[t] \in 0 .. Started
        <5>. HIDE DEF e
        <5>. QED BY <2>1
      <4>2. e.ecm[t] \in 0 .. Started'
        BY <1>3, <4>1
      <4>. DEFINE b == e.ecm[t]
      <4>. HIDE DEF b
      <4>3. b \in 0 .. Started'
        BY <4>2 DEF b
      <4>4. LastOf(t, due', b) \in 0 .. Started'
        BY <4>3, LastOfType
      <4>. QED BY <4>2, <4>4 DEF b
    <3>. QED BY <3>1 DEF Left
  <2>. HIDE DEF e, modes
  <2>4. /\ filters'[i].id = e.id /\ filters'[i].tables = e.tables /\ filters'[i].ecm = modes
        /\ filters'[i] \in Entry(Started')
    BY <2>1, <2>2, <2>3
  <2>. QED BY <2>4 DEF e, modes
<1>5. filters' \in Seq(Entry(Started')) /\ DOMAIN filters' = DOMAIN filters
  <2>1. DOMAIN filters = 1 .. Len(filters) /\ Len(filters) \in Nat
    BY <1>3
  <2>2. DOMAIN filters' = DOMAIN filters /\ filters' = [i \in DOMAIN filters |-> filters'[i]]
    BY <1>1
  <2>. HIDE DEF Entry
  <2>3. filters' \in [1 .. Len(filters) -> Entry(Started')]
    BY <1>4, <2>1, <2>2
  <2>. QED BY <2>1, <2>2, <2>3
<1>6. FiltersOK'
  BY <1>3, <1>4, <1>5 DEF FiltersOK
<1>. QED BY <1>4, <1>5, <1>6

(* Each section that is cut is sent to each filter that it matches.        *)
LEMMA FilterServed ==
  ASSUME StreamOK, FiltersOK, Started' \in Nat, Started <= Started',
         table' \in Seq(Tables), Len(table') = Started',
         filters # <<>>, NEW p, Receive(p), CutsExactly(cut', due')
  PROVE  EveryFilterServed'
<1>1. /\ DOMAIN filters' = DOMAIN filters
      /\ \A i \in DOMAIN filters :
           filters'[i].id = filters[i].id /\ filters'[i].tables = filters[i].tables
  BY FilterKeeps
<1>2. delivered' = SentTo(filters, cut')
  BY DEF Receive
<1>3. \A i \in DOMAIN filters : filters[i].id \in FilterIds
  BY EntryType
<1>4. {s[1].section : s \in Cut(cut')} = due'
  BY DEF CutsExactly, Cut
<1>. DEFINE Matches(a, k) ==
              \E i \in DOMAIN filters : filters[i].id = a /\ table'[k] \in filters[i].tables
            Pairs == {d \in FilterIds \X due' : Matches(d[1], d[2])}
            Sent == {<<d[1], d[2][1].section>> : d \in delivered'}
<1>5. \A d : d \in delivered' <=> /\ d \in Numbers(filters) \X Cut(cut')
                                  /\ Matches(d[1], d[2][1].section)
  BY <1>2 DEF SentTo
<1>6. Numbers(filters) \subseteq FilterIds /\ \A a, k : Matches(a, k) => a \in Numbers(filters)
  BY <1>3 DEF Numbers
<1>7. ASSUME NEW d \in delivered' PROVE <<d[1], d[2][1].section>> \in Pairs
  <2>1. d[1] \in Numbers(filters) /\ d[2] \in Cut(cut') /\ Matches(d[1], d[2][1].section)
    BY <1>5
  <2>. DEFINE a == d[1]
              k == d[2][1].section
  <2>2. a \in FilterIds /\ k \in due' /\ Matches(a, k)
    BY <1>4, <1>6, <2>1
  <2>. HIDE DEF Matches, a, k
  <2>3. <<a, k>> \in Pairs
    BY <2>2
  <2>. QED BY <2>3 DEF a, k
<1>8. ASSUME NEW e \in Pairs PROVE e \in Sent
  <2>. HIDE DEF Matches
  <2>1. e[1] \in FilterIds /\ e[2] \in due' /\ Matches(e[1], e[2]) /\ e = <<e[1], e[2]>>
    BY <1>8
  <2>2. PICK s \in Cut(cut') : s[1].section = e[2]
    BY <1>4, <2>1
  <2>. DEFINE d == <<e[1], s>>
  <2>3. d[1] = e[1] /\ d[2] = s /\ d \in Numbers(filters) \X Cut(cut')
    BY <1>6, <2>1, <2>2
  <2>. HIDE DEF d
  <2>4. d \in delivered'
    BY <1>5, <2>1, <2>2, <2>3
  <2>5. e = <<d[1], d[2][1].section>>
    BY <2>1, <2>2, <2>3
  <2>. QED BY <2>4, <2>5
<1>9. Sent = Pairs
  <2>. HIDE DEF Pairs
  <2>1. Sent \subseteq Pairs
    BY <1>7
  <2>. HIDE DEF Sent
  <2>. QED BY <1>8, <2>1
<1>10. Pairs = {d \in FilterIds \X due' :
                  \E j \in DOMAIN filters' : filters'[j].id = d[1] /\ table'[d[2]] \in filters'[j].tables}
  BY <1>1
<1>11. Sent = {d \in FilterIds \X due' :
                  \E j \in DOMAIN filters' : filters'[j].id = d[1] /\ table'[d[2]] \in filters'[j].tables}
  BY <1>9, <1>10
<1>. QED BY <1>11 DEF EveryFilterServed

(* The modes that the ECMs leave are those of the ECMs that OSCam answers. *)
LEMMA FilterAsked ==
  ASSUME StreamOK, FiltersOK, AskOK, Started' \in Nat, Started <= Started',
         table' \in Seq(Tables), Len(table') = Started',
         filters # <<>>, NEW p, Receive(p), CutsExactly(cut', due'), Asks
  PROVE  AskOK'
<1>1. /\ DOMAIN filters' = DOMAIN filters
      /\ \A i \in DOMAIN filters :
           /\ filters'[i].tables = filters[i].tables
           /\ filters'[i].ecm = Left(filters[i].tables, due', filters[i].ecm)
  BY FilterKeeps
<1>. DEFINE D == DOMAIN filters
            Some(f, t) == \E i \in D : filters[i].id = f /\ t \in filters[i].tables
            Answer(f) == [t \in EcmTables |-> IF Some(f, t) THEN LastOf(t, due', asked[f][t])
                                              ELSE asked[f][t]]
<1>2. /\ asked \in [FilterIds -> [EcmTables -> 0 .. Started]]
      /\ \A i \in D : filters[i].ecm = asked[filters[i].id]
      /\ \A f \in FilterIds : (\A i \in D : filters[i].id # f) => asked[f] = NoMode
  BY DEF AskOK
<1>3. /\ \A i \in D : filters[i].id \in FilterIds /\ filters'[i].id = filters[i].id
      /\ \A i, j \in D : filters[i].id = filters[j].id => i = j
  BY EntryType, FilterKeeps DEF FiltersOK
<1>4. asked' = [f \in FilterIds |-> Answer(f)]
  BY DEF Asks
<1>5. ASSUME NEW i \in D PROVE filters'[i].ecm = asked'[filters'[i].id]
  <2>. DEFINE f == filters[i].id
  <2>1. f \in FilterIds /\ filters'[i].id = f /\ filters[i].ecm = asked[f]
    BY <1>2, <1>3
  <2>2. \A t \in EcmTables : Some(f, t) <=> t \in filters[i].tables
    BY <1>3
  <2>3. filters'[i].ecm = Left(filters[i].tables, due', asked[f])
    BY <1>1, <2>1
  <2>. HIDE DEF Some, f
  <2>4. Left(filters[i].tables, due', asked[f]) = Answer(f)
    BY <2>2 DEF Left
  <2>. HIDE DEF Answer
  <2>. QED BY <1>4, <2>1, <2>3, <2>4
<1>6. ASSUME NEW f \in FilterIds, \A i \in D : filters[i].id # f PROVE asked'[f] = NoMode
  <2>1. \A t \in EcmTables : ~Some(f, t)
    BY <1>6
  <2>2. asked[f] = NoMode
    BY <1>2, <1>6
  <2>. HIDE DEF Some
  <2>3. Answer(f) = [t \in EcmTables |-> NoMode[t]]
    BY <2>1, <2>2
  <2>4. [t \in EcmTables |-> NoMode[t]] = NoMode
    BY DEF NoMode
  <2>. HIDE DEF Answer
  <2>. QED BY <1>4, <2>3, <2>4
<1>7. asked' \in [FilterIds -> [EcmTables -> 0 .. Started']]
  <2>1. ASSUME NEW f \in FilterIds PROVE Answer(f) \in [EcmTables -> 0 .. Started']
    <3>1. ASSUME NEW t \in EcmTables
          PROVE  (IF Some(f, t) THEN LastOf(t, due', asked[f][t]) ELSE asked[f][t])
                   \in 0 .. Started'
      <4>. DEFINE b == asked[f][t]
      <4>1. b \in 0 .. Started'
        <5>1. Started \in Nat
          BY DEF StreamOK, Started
        <5>2. asked[f] \in [EcmTables -> 0 .. Started]
          BY <1>2
        <5>3. b \in 0 .. Started
          BY <5>2
        <5>. HIDE DEF b
        <5>. QED BY <5>1, <5>3
      <4>. HIDE DEF b, Some
      <4>2. LastOf(t, due', b) \in 0 .. Started'
        BY <4>1, LastOfType
      <4>3. (IF Some(f, t) THEN LastOf(t, due', b) ELSE b) \in 0 .. Started'
        BY <4>1, <4>2
      <4>. QED BY <4>3 DEF b
    <3>. HIDE DEF Some
    <3>. QED BY <3>1
  <2>. HIDE DEF Answer
  <2>. QED BY <1>4, <2>1
<1>8. \A f \in FilterIds : (\A i \in DOMAIN filters' : filters'[i].id # f) => asked'[f] = NoMode
  BY <1>1, <1>3, <1>6
<1>. QED BY <1>1, <1>5, <1>7, <1>8 DEF AskOK
-----------------------------------------------------------------------------
(* Init and the steps that keep the invariant.                             *)

\* What a packet may cut is settled before it arrives; the two properties of
\* the step before are kept for the steps that leave them alone.
Inv ==
  /\ StreamOK /\ AssemblyOK /\ FiltersOK /\ AskOK /\ LastOK
  /\ CutsWholeSections /\ EveryFilterServed

(* Nothing is set, nothing was received.                                   *)
LEMMA InitInv == Init => Inv
<1>. SUFFICES ASSUME Init PROVE Inv
  OBVIOUS
<1>1. Started = 0 /\ Remaining = 0 /\ ~Receiving
  BY DEF Init, Started, Remaining, Receiving
<1>2. StreamOK
  <2>1. 0 \in 0 .. CcMod - 1 /\ 0 \in 0 .. MaxLost
    BY TsSectionsAssumption, LossAssumption
  <2>. QED BY <1>1, <2>1 DEF Init, StreamOK, Started
<1>3. AssemblyOK
  <2>1. NoAssembly \in [section : Seq(Byte), sectionLen : Lengths \cup {0}, lastcc : -1 .. CcMod - 1]
    BY TsSectionsAssumption DEF NoAssembly
  <2>. QED BY <1>1, <2>1 DEF Init, AssemblyOK
<1>4. FiltersOK
  BY DEF Init, FiltersOK
<1>5. AskOK
  <2>1. /\ asked = [f \in FilterIds |-> NoMode]
        /\ NoMode \in [EcmTables -> 0 .. Started]
    BY <1>1 DEF Init, NoMode
  <2>. QED BY <2>1 DEF Init, AskOK
<1>6. LastOK
  BY DEF Init, LastOK
<1>7. CutsWholeSections
  BY DEF Init, CutsWholeSections
<1>8. EveryFilterServed
  BY DEF Init, EveryFilterServed
<1>. QED BY <1>2, <1>3, <1>4, <1>5, <1>6, <1>7, <1>8 DEF Inv

(* The property is that of the helper.                                     *)
LEMMA CutsWhole ==
  /\ CutsWholeSections <=> CutsExactly(cut, due)
  /\ CutsWholeSections' <=> CutsExactly(cut', due')
BY DEF CutsWholeSections, CutsExactly

(* A step with which nothing is cut.                                       *)
LEMMA NothingCut ==
  ASSUME cut' = <<>>, due' = {}, delivered' = {}
  PROVE  CutsWholeSections' /\ EveryFilterServed'
BY DEF CutsWholeSections, EveryFilterServed

(* Filters and modes stay what they are while sections are broadcast.      *)
LEMMA FiltersStay ==
  ASSUME FiltersOK, AskOK, Started \in Nat, Started' \in Nat, Started <= Started',
         filters' = filters, asked' = asked
  PROVE  FiltersOK' /\ AskOK'
<1>. DEFINE E(n) == [id : FilterIds, tables : SUBSET Tables, ecm : [EcmTables -> 0 .. n]]
<1>1. 0 .. Started \subseteq 0 .. Started'
  OBVIOUS
<1>2. [EcmTables -> 0 .. Started] \subseteq [EcmTables -> 0 .. Started']
  BY <1>1
<1>3. E(Started) \subseteq E(Started')
  <2>. DEFINE A == [EcmTables -> 0 .. Started]
              B == [EcmTables -> 0 .. Started']
  <2>. HIDE DEF A, B
  <2>1. A \subseteq B
    BY <1>2 DEF A, B
  <2>2. [id : FilterIds, tables : SUBSET Tables, ecm : A] \subseteq
          [id : FilterIds, tables : SUBSET Tables, ecm : B]
    BY <2>1
  <2>. QED BY <2>2 DEF A, B
<1>4. filters \in Seq(E(Started))
  BY DEF FiltersOK
<1>. HIDE DEF E
<1>5. filters' \in Seq(E(Started'))
  BY <1>3, <1>4
<1>6. FiltersOK'
  BY <1>5 DEF FiltersOK, E
<1>7. AskOK'
  <2>1. asked' \in [FilterIds -> [EcmTables -> 0 .. Started']]
    <3>. DEFINE A == [EcmTables -> 0 .. Started]
                B == [EcmTables -> 0 .. Started']
    <3>1. asked' \in [FilterIds -> A] /\ A \subseteq B
      BY <1>2 DEF AskOK
    <3>. HIDE DEF A, B
    <3>2. asked' \in [FilterIds -> B]
      BY <3>1
    <3>. QED BY <3>2 DEF B
  <2>. QED BY <2>1 DEF AskOK
<1>. QED BY <1>6, <1>7

(* The stream goes on.                                                     *)
LEMMA StreamStays ==
  ASSUME StreamOK, NEW lens \in Batches, Broadcasts(lens),
         broken' \subseteq 1 .. Started', lost' \in 0 .. MaxLost
  PROVE  StreamOK'
<1>1. Started' \in Nat \ {0} /\ offset' \in 1 .. lengths'[Started']
  BY StreamGrows
<1>2. /\ lengths' \in Seq(Lengths) /\ table' \in Seq(Tables) /\ Len(table') = Len(lengths')
      /\ cc' \in 0 .. CcMod - 1
  BY BatchType, SectionsAdded
<1>. QED BY <1>1, <1>2 DEF StreamOK

(* A packet that no filter is there for: its sections are not received.    *)
LEMMA ArrivesUnheard ==
  ASSUME Inv, filters = <<>>, PacketArrives
  PROVE  Inv'
<1>1. PICK lens \in Batches :
        LET packet == PacketWith(lens)
        IN  /\ Broadcasts(lens) /\ Receive(packet)
            /\ last' = packet /\ lost' = 0
            /\ broken' = broken \cup (IF filters = <<>> THEN SectionsIn(packet) ELSE {})
            /\ due' = EndIn(packet) \ broken'
            /\ Asks
  BY DEF PacketArrives
<1>. DEFINE p == PacketWith(lens)
<1>. USE DEF Inv
<1>2. /\ Broadcasts(lens) /\ lost' = 0 /\ broken' = broken \cup SectionsIn(p)
      /\ cut' = <<>> /\ delivered' = {} /\ pf' = pf /\ filters' = <<>>
      /\ due' = EndIn(p) \ broken' /\ Asks
  BY <1>1 DEF Receive
<1>3. /\ Started' \in Nat \ {0} /\ Started \in Nat /\ Started <= Started'
      /\ SectionsIn(p) \subseteq 1 .. Started' /\ Started' \in SectionsIn(p)
  BY <1>2, StreamGrows
<1>. HIDE DEF p
<1>4. due' = {}
  BY <1>2, EndsAreIn
<1>5. StreamOK'
  <2>1. broken \subseteq 1 .. Started
    BY DEF StreamOK
  <2>2. broken' \subseteq 1 .. Started'
    <3>1. 1 .. Started \subseteq 1 .. Started'
      BY <1>3
    <3>. QED BY <1>2, <1>3, <2>1, <3>1
  <2>3. lost' \in 0 .. MaxLost
    BY <1>2, LossAssumption
  <2>. QED BY <1>2, <2>2, <2>3, StreamStays
<1>6. AssemblyOK'
  <2>1. ~Receiving'
    BY <1>2, <1>3 DEF Receiving
  <2>2. /\ pf \in [section : Seq(Byte), sectionLen : Lengths \cup {0}, lastcc : -1 .. CcMod - 1]
        /\ pf = NoAssembly
    BY DEF AssemblyOK
  <2>. QED BY <1>2, <2>1, <2>2 DEF AssemblyOK
<1>7. asked' = asked
  <2>1. asked' = [f \in FilterIds |-> [t \in EcmTables |-> asked[f][t]]]
    <3>1. ~(\E i \in DOMAIN filters : TRUE)
      OBVIOUS
    <3>. QED BY <1>2, <3>1 DEF Asks
  <2>2. asked \in [FilterIds -> [EcmTables -> 0 .. Started]]
    BY DEF AskOK
  <2>3. \A f \in FilterIds : [t \in EcmTables |-> asked[f][t]] = asked[f]
    BY <2>2
  <2>4. asked' = [f \in FilterIds |-> asked[f]]
    BY <2>1, <2>3
  <2>. QED BY <2>2, <2>4
<1>8. FiltersOK' /\ AskOK'
  BY <1>2, <1>3, <1>7, FiltersStay
<1>9. LastOK'
  BY <1>2 DEF LastOK
<1>10. CutsWholeSections' /\ EveryFilterServed'
  BY <1>2, <1>4, NothingCut
<1>. QED BY <1>5, <1>6, <1>8, <1>9, <1>10

(* A packet that is lost, with it all of its sections.                     *)
LEMMA LostInv ==
  ASSUME Inv, PacketLost
  PROVE  Inv'
<1>1. PICK lens \in Batches :
        /\ lost < MaxLost /\ lost' = lost + 1
        /\ Broadcasts(lens)
        /\ broken' = broken \cup SectionsIn(PacketWith(lens))
        /\ last' = NoPacket
        /\ cut' = <<>> /\ due' = {} /\ delivered' = {}
        /\ UNCHANGED <<filters, pf, asked>>
  BY DEF PacketLost
<1>. DEFINE p == PacketWith(lens)
<1>. USE DEF Inv
<1>2. /\ Started' \in Nat \ {0} /\ Started \in Nat /\ Started <= Started'
      /\ SectionsIn(p) \subseteq 1 .. Started' /\ Started' \in SectionsIn(p)
  BY <1>1, StreamGrows
<1>. HIDE DEF p
<1>3. lost \in Nat /\ lost \in 0 .. MaxLost /\ lost' \in 0 .. MaxLost /\ lost' = lost + 1
  BY <1>1, LossAssumption DEF StreamOK
<1>4. StreamOK'
  <2>1. broken \subseteq 1 .. Started
    BY DEF StreamOK
  <2>2. broken' \subseteq 1 .. Started'
    <3>1. 1 .. Started \subseteq 1 .. Started'
      BY <1>2
    <3>. QED BY <1>1, <1>2, <2>1, <3>1 DEF p
  <2>. QED BY <1>1, <1>3, <2>2, StreamStays
<1>5. AssemblyOK'
  <2>1. ~Receiving'
    BY <1>1, <1>2 DEF Receiving, p
  <2>2. /\ pf \in [section : Seq(Byte), sectionLen : Lengths \cup {0}, lastcc : -1 .. CcMod - 1]
        /\ filters = <<>> => pf = NoAssembly
        /\ (filters # <<>> /\ pf.lastcc # -1) => cc = (pf.lastcc + lost) % CcMod
    BY DEF AssemblyOK
  <2>3. ASSUME pf.lastcc # -1, filters # <<>> PROVE cc' = (pf.lastcc + lost') % CcMod
    <3>1. pf.lastcc \in 0 .. CcMod - 1
      BY <2>2, <2>3
    <3>2. (((pf.lastcc + lost) % CcMod) + 1) % CcMod = (pf.lastcc + (lost + 1)) % CcMod
      BY <1>3, <3>1, NextCounter
    <3>3. cc' = (cc + 1) % CcMod
      BY <1>1 DEF Broadcasts
    <3>4. cc' = (((pf.lastcc + lost) % CcMod) + 1) % CcMod
      BY <2>2, <2>3, <3>3
    <3>. QED BY <1>3, <3>2, <3>4
  <2>4. lost' # 0
    BY <1>3
  <2>. QED BY <1>1, <2>1, <2>2, <2>3, <2>4 DEF AssemblyOK
<1>6. FiltersOK' /\ AskOK'
  BY <1>1, <1>2, FiltersStay
<1>7. LastOK'
  BY <1>1 DEF LastOK
<1>8. CutsWholeSections' /\ EveryFilterServed'
  BY <1>1, NothingCut
<1>. QED BY <1>4, <1>5, <1>6, <1>7, <1>8

(* The beginning of the last section, or no assembly, is as it should be.  *)
LEMMA AssemblyFits ==
  ASSUME StreamOK', lost' = 0, filters' # <<>>,
         pf' = IF Receiving' THEN Assembly(Started', lengths'[Started'], offset', cc')
               ELSE Idle(cc')
  PROVE  AssemblyOK' /\ pf'.lastcc = cc'
<1>. DEFINE T == [section : Seq(Byte), sectionLen : Lengths \cup {0}, lastcc : -1 .. CcMod - 1]
<1>1. cc' \in 0 .. CcMod - 1 /\ CcMod \in Nat /\ cc' \in -1 .. CcMod - 1 /\ cc' # -1
  <2>1. cc' \in 0 .. CcMod - 1 /\ CcMod \in Nat
    BY TsSectionsAssumption DEF StreamOK
  <2>. QED BY <2>1
<1>2. Receiving' => /\ Started' \in Nat /\ lengths'[Started'] \in Lengths /\ offset' \in Nat
  <2>. SUFFICES ASSUME Receiving'
       PROVE  Started' \in Nat /\ lengths'[Started'] \in Lengths /\ offset' \in Nat
    OBVIOUS
  <2>1. Started' \in Nat /\ Started' = Len(lengths') /\ lengths' \in Seq(Lengths)
    BY DEF StreamOK, Started
  <2>2. Started' # 0
    BY <2>1 DEF Receiving, Remaining
  <2>3. lengths'[Started'] \in Lengths
    BY <2>1, <2>2
  <2>4. offset' \in 1 .. lengths'[Started']
    BY <2>2 DEF StreamOK
  <2>. QED BY <2>1, <2>3, <2>4
<1>3. pf' \in T /\ pf'.lastcc = cc'
  <2>1. CASE Receiving'
    <3>. DEFINE k == Started'
                l == lengths'[Started']
                s == Prefix(k, l, offset')
    <3>1. k \in Nat /\ l \in Lengths /\ offset' \in Nat
      BY <1>2, <2>1
    <3>2. pf' = [section |-> s, sectionLen |-> IF offset' >= HeaderLen THEN l ELSE 0,
                 lastcc |-> cc']
      BY <2>1 DEF Assembly
    <3>. HIDE DEF k, l
    <3>3. s \in Seq(Byte)
      BY <3>1, PrefixType
    <3>. HIDE DEF s
    <3>. QED BY <1>1, <3>1, <3>2, <3>3
  <2>2. CASE ~Receiving'
    <3>. DEFINE s == <<>>
    <3>1. pf' = [section |-> s, sectionLen |-> 0, lastcc |-> cc']
      BY <2>2 DEF Idle
    <3>2. s \in Seq(Byte)
      OBVIOUS
    <3>. HIDE DEF s
    <3>. QED BY <1>1, <3>1, <3>2
  <2>. QED BY <2>1, <2>2
<1>4. (cc' + 0) % CcMod = cc'
  <2>. DEFINE a == cc'
              n == 0
  <2>1. a \in 0 .. CcMod - 1 /\ n \in 0 .. MaxLost /\ n = 0
    BY <1>1, LossAssumption
  <2>. HIDE DEF a, n
  <2>2. (a + n) % CcMod = a
    BY <2>1, NextCounter
  <2>. QED BY <2>1, <2>2 DEF a
<1>. HIDE DEF T
<1>5. ~(0 > 0)
  OBVIOUS
<1>. QED BY <1>1, <1>3, <1>4, <1>5 DEF AssemblyOK, T

(* There are filters as long as one is listed.                             *)
LEMMA FiltersDomain ==
  ASSUME FiltersOK
  PROVE  /\ DOMAIN filters = 1 .. Len(filters) /\ Len(filters) \in Nat
         /\ filters # <<>> => DOMAIN filters # {} /\ \A s : DOMAIN s = DOMAIN filters => s # <<>>
<1>. DEFINE E == [id : FilterIds, tables : SUBSET Tables, ecm : [EcmTables -> 0 .. Started]]
<1>1. filters \in Seq(E)
  BY DEF FiltersOK
<1>. HIDE DEF E
<1>2. DOMAIN filters = 1 .. Len(filters) /\ Len(filters) \in Nat
  BY <1>1
<1>3. filters # <<>> => Len(filters) # 0
  BY <1>1
<1>4. Len(filters) # 0 => 1 \in DOMAIN filters
  BY <1>2
<1>5. DOMAIN <<>> = {}
  OBVIOUS
<1>. QED BY <1>2, <1>3, <1>4, <1>5

(* A packet that the filters get.                                          *)
LEMMA ArrivesHeard ==
  ASSUME Inv, filters # <<>>, PacketArrives
  PROVE  Inv'
<1>1. PICK lens \in Batches :
        LET packet == PacketWith(lens)
        IN  /\ Broadcasts(lens) /\ Receive(packet)
            /\ last' = packet /\ lost' = 0
            /\ broken' = broken \cup (IF filters = <<>> THEN SectionsIn(packet) ELSE {})
            /\ due' = EndIn(packet) \ broken'
            /\ Asks
  BY DEF PacketArrives
<1>. DEFINE p == PacketWith(lens)
            result == Analyze(pf, p)
<1>. USE DEF Inv
<1>2. /\ Broadcasts(lens) /\ lost' = 0 /\ broken' = broken /\ last' = p
      /\ pf' = result.pf /\ cut' = result.cut
      /\ filters' = [i \in DOMAIN filters |-> SetECM(filters[i], result.cut)]
      /\ due' = EndIn(p) \ broken /\ Asks /\ Receive(p)
  BY <1>1 DEF Receive
<1>3. /\ Started' \in Nat \ {0} /\ Started \in Nat /\ Started <= Started'
      /\ p.cc = cc' /\ lens \in Seq(Lengths)
  BY <1>2, StreamGrows, BatchType
<1>4. table' \in Seq(Tables) /\ Len(table') = Started'
  BY <1>2, <1>3, SectionsAdded DEF Started
<1>5. StreamOK'
  <2>1. broken \subseteq 1 .. Started
    BY DEF StreamOK
  <2>2. 1 .. Started \subseteq 1 .. Started'
    BY <1>3
  <2>3. lost' \in 0 .. MaxLost
    BY <1>2, LossAssumption
  <2>. QED BY <1>2, <2>1, <2>2, <2>3, StreamStays
<1>6. /\ result.pf = IF Receiving' THEN Assembly(Started', lengths'[Started'], offset', cc')
                     ELSE Idle(cc')
      /\ CutsExactly(result.cut, EndIn(p) \ broken)
      /\ Len(lens) = 0 => ~p.pusi /\ SectionsIn(p) = {Started'}
      /\ Len(lens) # 0 =>
           /\ p.pusi
           /\ \E off \in [0 .. Len(lens) -> Nat] :
                LET m == Len(p.payload) - p.pointer
                IN  /\ Holds(p, Started, lens, off)
                    /\ offset' = IF off[Len(lens)] <= m THEN lens[Len(lens)]
                                 ELSE m - off[Len(lens) - 1]
  <2>1. CASE Len(lens) = 0
    <3>1. lens = <<>>
      BY <1>3, <2>1
    <3>. QED BY <1>2, <2>1, <3>1, GivesNone
  <2>2. CASE Len(lens) # 0
    BY <1>2, <1>3, <2>2, GivesSome
  <2>. QED BY <2>1, <2>2
<1>. HIDE DEF p, result
<1>7. filters' # <<>>
  BY <1>2, FiltersDomain
<1>8. AssemblyOK' /\ pf'.lastcc = cc'
  BY <1>2, <1>5, <1>6, <1>7, AssemblyFits
<1>9. CutsExactly(cut', due')
  BY <1>2, <1>6
<1>10. FiltersOK' /\ AskOK' /\ EveryFilterServed' /\ CutsWholeSections'
  BY <1>2, <1>3, <1>4, <1>9, FilterKeeps, FilterServed, FilterAsked, CutsWhole
<1>11. LastOK'
  <2>1. CASE Len(lens) = 0
    BY <1>2, <1>3, <1>6, <1>8, <2>1 DEF LastOK
  <2>2. CASE Len(lens) # 0
    <3>1. PICK k \in Nat : k = Started
      BY <1>3
    <3>2. PICK off \in [0 .. Len(lens) -> Nat] :
            LET m == Len(p.payload) - p.pointer
            IN  /\ Holds(p, k, lens, off)
                /\ offset' = IF off[Len(lens)] <= m THEN lens[Len(lens)]
                             ELSE m - off[Len(lens) - 1]
      BY <1>6, <2>2, <3>1
    <3>3. /\ Started' = k + Len(lens)
          /\ \A r \in 1 .. Len(lens) : lengths'[k + r] = lens[r] /\ k + r \notin broken'
      <4>1. /\ Started' = k + Len(lens)
            /\ \A r \in 1 .. Len(lens) : lengths'[k + r] = lens[r]
        BY <1>2, <1>3, <3>1, SectionsAdded
      <4>2. broken' \subseteq 1 .. k
        BY <1>2, <3>1 DEF StreamOK
      <4>3. \A r \in 1 .. Len(lens) : k + r \notin 1 .. k
        OBVIOUS
      <4>. QED BY <4>1, <4>2, <4>3
    <3>4. Newest(k, lens, off)'
      BY <1>2, <2>2, <3>2, <3>3 DEF Newest
    <3>. QED BY <1>2, <1>3, <1>6, <1>8, <2>2, <3>4 DEF LastOK
  <2>. QED BY <2>1, <2>2
<1>. QED BY <1>5, <1>8, <1>10, <1>11

(* The last packet comes again: what starts in it is cut again, and a      *)
(* section that goes on from before and has not ended is lost.             *)
LEMMA RepeatedInv ==
  ASSUME Inv, PacketRepeated
  PROVE  Inv'
<1>. USE DEF Inv
<1>. DEFINE p == last
            result == Analyze(pf, p)
<1>1. /\ filters # <<>> /\ last' = NoPacket
      /\ UNCHANGED <<lengths, table, offset, cc, lost>>
      /\ Receive(p)
      /\ broken' = broken \cup (IF p.pusi THEN {} ELSE SectionsIn(p))
      /\ due' = (EndIn(p) \cap StartIn(p)) \ broken'
      /\ Asks
      /\ pf' = result.pf /\ cut' = result.cut
      /\ filters' = [i \in DOMAIN filters |-> SetECM(filters[i], result.cut)]
  BY DEF PacketRepeated, Receive
<1>2. /\ pf.lastcc = cc /\ p.cc = cc /\ lost = 0
      /\ ~p.pusi => Started # 0 /\ SectionsIn(p) = {Started}
      /\ p.pusi => \E first \in Nat : \E lens \in Seq(Lengths) :
                     \E off \in [0 .. Len(lens) -> Nat] : Newest(first, lens, off)
  BY DEF LastOK, PacketRepeated
<1>3. /\ Started' = Started /\ Started \in Nat /\ Started <= Started' /\ Remaining' = Remaining
      /\ table' \in Seq(Tables) /\ Len(table') = Started'
  BY <1>1 DEF StreamOK, Started, Remaining
<1>4. ~Continuous(pf, p)
  <2>1. cc \in 0 .. CcMod - 1 /\ 0 \in 0 .. MaxLost
    BY LossAssumption DEF StreamOK
  <2>2. (cc + 1) % CcMod # cc
    BY <2>1, NextCounter
  <2>. QED BY <1>2, <2>2 DEF Continuous
<1>5. filters' # <<>>
  BY <1>1, FiltersDomain
<1>6. broken' \subseteq 1 .. Started
  <2>1. broken \subseteq 1 .. Started
    BY DEF StreamOK
  <2>2. ~p.pusi => SectionsIn(p) \subseteq 1 .. Started
    BY <1>2, <1>3
  <2>. HIDE DEF p
  <2>. QED BY <1>1, <2>1, <2>2
<1>7. StreamOK'
  BY <1>1, <1>3, <1>6 DEF StreamOK, Started
<1>8. /\ result.pf = IF Receiving' THEN Assembly(Started', lengths'[Started'], offset', cc')
                     ELSE Idle(cc')
      /\ CutsExactly(result.cut, due')
  <2>1. CASE ~p.pusi
    <3>1. ~Receiving'
      BY <1>1, <1>2, <1>3, <2>1 DEF Receiving
    <3>2. due' = {}
      BY <1>1, <2>1, EndsAreIn
    <3>3. result = [pf |-> Dropped([pf EXCEPT !.lastcc = p.cc]), cut |-> <<>>]
      BY <1>4, <2>1 DEF Analyze
    <3>4. Dropped([pf EXCEPT !.lastcc = p.cc]) = Idle(cc')
      <4>. DEFINE kept == [pf EXCEPT !.lastcc = p.cc]
      <4>1. pf \in [section : Seq(Byte), sectionLen : Lengths \cup {0}, lastcc : -1 .. CcMod - 1]
        BY DEF AssemblyOK
      <4>2. kept.lastcc = cc'
        BY <1>1, <1>2, <4>1
      <4>. HIDE DEF kept
      <4>3. Dropped(kept) = Idle(cc')
        BY <4>2 DEF Dropped, Idle
      <4>. QED BY <4>3 DEF kept
    <3>. HIDE DEF result
    <3>. QED BY <3>1, <3>2, <3>3, <3>4, CutsNone
  <2>2. CASE p.pusi
    <3>1. PICK first \in Nat : \E lens \in Seq(Lengths) :
            \E off \in [0 .. Len(lens) -> Nat] : Newest(first, lens, off)
      BY <1>2, <2>2
    <3>2. PICK lens \in Seq(Lengths) : \E off \in [0 .. Len(lens) -> Nat] : Newest(first, lens, off)
      BY <3>1
    <3>3. PICK off \in [0 .. Len(lens) -> Nat] : Newest(first, lens, off)
      BY <3>2
    <3>. DEFINE n == Len(lens)
                m == Len(p.payload) - p.pointer
                g == Whole(lens, off, m)
                new == Gives(first, lens, off, m, p.cc)
                c == [r \in 1 .. g |-> Section(first + r, lens[r])]
    <3>4. /\ n # 0 /\ n \in Nat /\ Started = first + n
          /\ \A r \in 1 .. n : lengths[first + r] = lens[r] /\ first + r \notin broken
          /\ offset = IF off[n] <= m THEN lens[n] ELSE m - off[n - 1]
          /\ Holds(p, first, lens, off)
      BY <3>3 DEF Newest
    <3>. HIDE DEF p, m
    <3>5. Analyze(pf, p) = [pf |-> new.pf, cut |-> <<>> \o new.cut]
      <4>1. first \in Nat /\ lens \in Seq(Lengths) /\ Len(lens) # 0 /\ p.pusi /\ Holds(p, first, lens, off)
        BY <2>2, <3>4
      <4>. DEFINE before == IF Continuous(pf, p) /\ pf.section # <<>>
                              THEN Collect([pf EXCEPT !.lastcc = p.cc],
                                           SubSeq(p.payload, 1, p.pointer)).cut
                              ELSE <<>>
                  y == Gives(first, lens, off, Len(p.payload) - p.pointer, p.cc)
      <4>2. Analyze(pf, p) = [pf |-> y.pf, cut |-> before \o y.cut]
        BY <4>1, AnalyzesStart
      <4>3. before = <<>>
        BY <1>4
      <4>4. y = new
        BY DEF m
      <4>. HIDE DEF before, y, new
      <4>. QED BY <4>2, <4>3, <4>4
    <3>6. /\ new.pf = IF g = n THEN Idle(cc) ELSE Assembly(first + n, lens[n], m - off[n - 1], cc)
          /\ new.cut = c
      BY <1>2 DEF Gives
    <3>7. /\ EndIn(p) = (IF p.pointer > 0 THEN {first} ELSE {}) \cup After(first, g)
          /\ StartIn(p) = After(first, n) /\ g \in 0 .. n /\ (g # n => g = n - 1)
      <4>1. first \in Nat /\ lens \in Seq(Lengths) /\ Len(lens) # 0 /\ Holds(p, first, lens, off)
        BY <3>4
      <4>2. LET x == Whole(lens, off, Len(p.payload) - p.pointer)
            IN  /\ StartIn(p) = After(first, Len(lens))
                /\ EndIn(p) = (IF p.pointer > 0 THEN {first} ELSE {}) \cup After(first, x)
                /\ x \in 0 .. Len(lens) /\ (x # Len(lens) => x = Len(lens) - 1)
        BY <4>1, HeldSections
      <4>. QED BY <4>2 DEF m
    <3>. HIDE DEF new
    <3>8. due' = After(first, g)
      <4>1. broken' = broken
        BY <1>1, <2>2 DEF p
      <4>2. \A r \in 1 .. g : r \in 1 .. n
        BY <3>7
      <4>3. After(first, g) \subseteq After(first, n) /\ After(first, n) \cap broken = {}
        BY <3>4, <4>2 DEF After
      <4>4. first \notin After(first, n)
        <5>1. \A r \in 1 .. n : first # first + r
          BY <3>4
        <5>. QED BY <5>1 DEF After
      <4>5. due' = (EndIn(p) \cap StartIn(p)) \ broken
        BY <1>1, <4>1 DEF p
      <4>. QED BY <3>7, <4>3, <4>4, <4>5
    <3>9. CutsExactly(result.cut, due')
      <4>1. first \in Nat /\ lens \in Seq(Lengths) /\ g \in 0 .. Len(lens) /\ lens[n] \in Lengths
        BY <3>4, <3>7
      <4>2. CutsExactly(<<>> \o c, After(first, g))
        <5>. HIDE DEF g
        <5>. QED BY <4>1, CutsInOrder
      <4>3. result.cut = <<>> \o new.cut
        BY <3>5
      <4>. HIDE DEF c, result
      <4>. QED BY <3>6, <3>8, <4>2, <4>3
    <3>10. lens[n] \in Nat /\ off[n] = off[n - 1] + lens[n] /\ off[n - 1] \in Nat /\ off[n - 1] < m
           /\ m \in Nat
      <4>1. n \in 1 .. n /\ n - 1 \in 0 .. n /\ lens[n] \in Lengths
        BY <3>4
      <4>2. lens[n] \in Nat
        BY <4>1, TsSectionsAssumption
      <4>3. Packed(From(p.payload, p.pointer + 1), first, lens, off)
        BY <3>4 DEF Holds
      <4>4. off[n] = off[n - 1] + lens[n]
        BY <4>1, <4>3 DEF Packed, Offsets
      <4>5. Len(From(p.payload, p.pointer + 1)) = m /\ m \in Nat
        <5>. DEFINE a == p.pointer + 1
                    load == p.payload
        <5>1. load \in Seq(Byte) /\ p.pointer \in 0 .. Len(load) /\ m = Len(load) - p.pointer
          BY <3>4 DEF Holds, m
        <5>2. /\ load \in Seq(Byte) /\ a \in 1 .. Len(load) + 1 /\ Len(load) \in a - 1 .. Len(load)
              /\ Len(load) - a + 1 = m /\ m \in Nat
          BY <5>1
        <5>. HIDE DEF a, load
        <5>3. Len(SubSeq(load, a, Len(load))) = m
          BY <5>2, Slice
        <5>. QED BY <5>2, <5>3 DEF a, load, From
      <4>6. off[n - 1] < m
        BY <4>3, <4>5 DEF Packed
      <4>. QED BY <4>1, <4>2, <4>4, <4>5, <4>6
    <3>11. g = IF off[n] <= m THEN n ELSE n - 1
      BY DEF Whole
    <3>. HIDE DEF g, n
    <3>12. Receiving' <=> g # n
      <4>1. Started \notin broken' /\ Started' # 0
        <5>1. n \in 1 .. n
          BY <3>4
        <5>2. first + n \notin broken
          BY <3>4, <5>1
        <5>. QED BY <1>1, <1>3, <2>2, <3>4, <5>2 DEF p
      <4>2. lengths[Started] = lens[n] /\ Started # 0
        <5>1. n \in 1 .. n
          BY <3>4
        <5>. QED BY <3>4, <5>1
      <4>3. Remaining' = lens[n] - offset
        BY <1>3, <4>2 DEF Remaining
      <4>4. Receiving' <=> lens[n] - offset > 0
        BY <1>3, <4>1, <4>3 DEF Receiving
      <4>. QED BY <3>4, <3>10, <3>11, <4>4
    <3>13. result.pf = IF Receiving' THEN Assembly(Started', lengths'[Started'], offset', cc')
                       ELSE Idle(cc')
      <4>1. result.pf = new.pf
        BY <3>5
      <4>2. g # n => offset = m - off[n - 1]
        BY <3>4, <3>11
      <4>3. n \in 1 .. n
        BY <3>4
      <4>4. lengths'[Started'] = lens[n] /\ Started' = first + n /\ offset' = offset /\ cc' = cc
        BY <1>1, <1>3, <3>4, <4>3
      <4>. HIDE DEF result
      <4>. QED BY <3>6, <3>12, <4>1, <4>2, <4>4
    <3>. QED BY <3>9, <3>13
  <2>. QED BY <2>1, <2>2
<1>. HIDE DEF result
<1>9. AssemblyOK'
  <2>1. lost' = 0
    BY <1>1, <1>2
  <2>2. pf' = IF Receiving' THEN Assembly(Started', lengths'[Started'], offset', cc') ELSE Idle(cc')
    BY <1>1, <1>8
  <2>. QED BY <1>5, <1>7, <2>1, <2>2, AssemblyFits
<1>10. CutsExactly(cut', due')
  BY <1>1, <1>8
<1>11. FiltersOK' /\ AskOK' /\ EveryFilterServed' /\ CutsWholeSections'
  BY <1>1, <1>3, <1>10, FilterKeeps, FilterServed, FilterAsked, CutsWhole
<1>12. LastOK'
  BY <1>1 DEF LastOK
<1>. QED BY <1>7, <1>9, <1>11, <1>12
-----------------------------------------------------------------------------
(* OSCam's requests.                                                       *)

(* A request leaves the stream alone; a section in progress may be lost.   *)
LEMMA RequestKeeps ==
  ASSUME StreamOK, UNCHANGED <<lengths, table, offset, cc, lost>>, NEW b \in BOOLEAN,
         broken' = broken \cup (IF b THEN InProgress ELSE {}), Quiet
  PROVE  /\ StreamOK' /\ Started' = Started /\ Started \in Nat
         /\ b => ~Receiving'
         /\ ~b => (Receiving' <=> Receiving)
         /\ LastOK' /\ CutsWholeSections' /\ EveryFilterServed'
<1>1. Started' = Started /\ Remaining' = Remaining /\ Started \in Nat
  BY RemainingType DEF Started, Remaining
<1>2. InProgress \subseteq 1 .. Started /\ (Remaining > 0 => Started \in InProgress)
  <2>1. Remaining > 0 => Started # 0
    BY RemainingType
  <2>. QED BY <1>1, <2>1 DEF InProgress
<1>3. broken' \subseteq 1 .. Started
  <2>1. broken \subseteq 1 .. Started
    BY DEF StreamOK
  <2>. QED BY <1>2, <2>1
<1>4. StreamOK'
  BY <1>1, <1>3 DEF StreamOK, Started
<1>5. b => ~Receiving'
  BY <1>1, <1>2 DEF Receiving
<1>6. ~b => (Receiving' <=> Receiving)
  BY <1>1 DEF Receiving
<1>7. LastOK'
  BY DEF Quiet, LastOK
<1>8. CutsWholeSections' /\ EveryFilterServed'
  BY NothingCut DEF Quiet
<1>. QED BY <1>1, <1>4, <1>5, <1>6, <1>7, <1>8

(* A filter is set, or set to other tables: it stays what it is for.       *)
LEMMA SetFilterInv ==
  ASSUME Inv, NEW f \in FilterIds, NEW tables \in Tunes(f), SetFilter(f, tables)
  PROVE  Inv'
<1>. USE DEF Inv
<1>. DEFINE E == [id : FilterIds, tables : SUBSET Tables, ecm : [EcmTables -> 0 .. Started]]
            D == DOMAIN filters
            new == NewEntry(f, tables)
<1>1. /\ filters' = WithFilter(filters, f, tables)
      /\ broken' = broken \cup (IF filters = <<>> THEN InProgress ELSE {})
      /\ Quiet
      /\ UNCHANGED <<pf, lengths, table, offset, cc, lost, asked>>
  BY DEF SetFilter
<1>2. /\ StreamOK' /\ Started' = Started /\ Started \in Nat
      /\ filters = <<>> => ~Receiving'
      /\ filters # <<>> => (Receiving' <=> Receiving)
      /\ LastOK' /\ CutsWholeSections' /\ EveryFilterServed'
  <2>. DEFINE b == filters = <<>>
  <2>1. b \in BOOLEAN /\ broken' = broken \cup (IF b THEN InProgress ELSE {})
        /\ UNCHANGED <<lengths, table, offset, cc, lost>>
    BY <1>1
  <2>. HIDE DEF b
  <2>2. /\ StreamOK' /\ Started' = Started /\ Started \in Nat
        /\ b => ~Receiving'
        /\ ~b => (Receiving' <=> Receiving)
        /\ LastOK' /\ CutsWholeSections' /\ EveryFilterServed'
    BY <1>1, <2>1, RequestKeeps
  <2>. QED BY <2>2 DEF b
<1>3. /\ filters \in Seq(E) /\ D = 1 .. Len(filters) /\ Len(filters) \in Nat
      /\ \A i, j \in D : filters[i].id = filters[j].id => i = j
      /\ \A i \in D : filters[i] \in E /\ filters[i].id \in FilterIds
  <2>1. filters \in Seq(E)
    BY DEF FiltersOK
  <2>2. D = 1 .. Len(filters) /\ Len(filters) \in Nat
    BY FiltersDomain
  <2>3. \A i \in D : filters[i] \in E
    <3>. HIDE DEF E
    <3>. QED BY <2>1, <2>2
  <2>. QED BY <2>1, <2>2, <2>3, EntryType DEF FiltersOK
<1>4. tables \in SUBSET Tables
  BY FilterAssumption
<1>5. NoMode \in [EcmTables -> 0 .. Started]
  BY <1>2 DEF NoMode
<1>6. new \in E /\ new.id = f /\ new.tables = tables /\ new.ecm = NoMode
  BY <1>4, <1>5 DEF NewEntry
<1>7. /\ asked \in [FilterIds -> [EcmTables -> 0 .. Started]]
      /\ \A i \in D : filters[i].ecm = asked[filters[i].id]
      /\ \A g \in FilterIds : (\A i \in D : filters[i].id # g) => asked[g] = NoMode
  BY DEF AskOK
<1>8. CASE f \in Numbers(filters)
  <2>1. filters' = [i \in D |-> IF filters[i].id = f THEN [filters[i] EXCEPT !.tables = tables]
                                ELSE filters[i]]
    BY <1>1, <1>8 DEF WithFilter
  <2>2. ASSUME NEW i \in D
        PROVE  /\ filters'[i] \in E /\ filters'[i].id = filters[i].id
               /\ filters'[i].ecm = filters[i].ecm
    <3>. DEFINE e == filters[i]
    <3>1. e \in E /\ e.id \in FilterIds
      BY <1>3
    <3>2. CASE e.id = f
      <4>1. filters'[i] = [e EXCEPT !.tables = tables]
        BY <2>1, <3>2
      <4>. HIDE DEF e
      <4>2. filters'[i] \in E /\ filters'[i].id = e.id /\ filters'[i].ecm = e.ecm
        BY <1>4, <3>1, <4>1
      <4>. HIDE DEF E
      <4>. QED BY <4>2 DEF e
    <3>3. CASE e.id # f
      <4>1. filters'[i] = e
        BY <2>1, <3>3
      <4>. HIDE DEF E
      <4>. QED BY <3>1, <4>1
    <3>. QED BY <3>2, <3>3
  <2>3. filters' \in Seq(E) /\ DOMAIN filters' = D
    <3>. HIDE DEF E
    <3>1. DOMAIN filters' = D /\ filters' = [i \in D |-> filters'[i]]
      BY <2>1
    <3>2. filters' \in [1 .. Len(filters) -> E]
      BY <1>3, <2>2, <3>1
    <3>. QED BY <1>3, <3>1, <3>2
  <2>4. FiltersOK'
    BY <1>2, <1>3, <2>2, <2>3 DEF FiltersOK
  <2>5. AskOK'
    <3>. HIDE DEF E, new
    <3>1. asked' = asked /\ DOMAIN filters' = D
      BY <1>1, <2>3
    <3>2. \A i \in D : filters'[i].id = filters[i].id /\ filters'[i].ecm = filters[i].ecm
      BY <2>2
    <3>. QED BY <1>2, <1>7, <3>1, <3>2 DEF AskOK
  <2>6. filters # <<>>
    <3>1. D # {}
      BY <1>8 DEF Numbers
    <3>. QED BY <3>1
  <2>7. filters' # <<>>
    BY <2>3, <2>6, FiltersDomain
  <2>8. AssemblyOK'
    BY <1>1, <1>2, <2>6, <2>7 DEF AssemblyOK
  <2>. QED BY <1>2, <2>4, <2>5, <2>8
<1>9. CASE f \notin Numbers(filters)
  <2>. DEFINE n == Len(filters)
  <2>1. filters' = Append(filters, new)
    BY <1>1, <1>9 DEF WithFilter
  <2>. HIDE DEF new
  <2>2. /\ filters' \in Seq(E) /\ Len(filters') = n + 1 /\ filters'[n + 1] = new
        /\ \A i \in 1 .. n : filters'[i] = filters[i]
    <3>. HIDE DEF E
    <3>. QED BY <1>3, <1>6, <2>1, AppendProperties
  <2>3. DOMAIN filters' = 1 .. n + 1 /\ filters' # <<>>
    <3>. HIDE DEF E
    <3>. QED BY <1>3, <2>2
  <2>4. \A i \in 1 .. n + 1 : i \in 1 .. n \/ i = n + 1
    BY <1>3
  <2>5. \A i \in 1 .. n : filters[i].id # f
    BY <1>3, <1>9 DEF Numbers
  <2>6. FiltersOK'
    <3>1. \A i, j \in 1 .. n + 1 : filters'[i].id = filters'[j].id => i = j
      BY <1>3, <1>6, <2>2, <2>4, <2>5
    <3>. QED BY <1>2, <2>2, <2>3, <3>1 DEF FiltersOK
  <2>7. AskOK'
    <3>1. asked[f] = NoMode
      BY <1>3, <1>7, <2>5
    <3>2. ASSUME NEW i \in 1 .. n + 1 PROVE filters'[i].ecm = asked[filters'[i].id]
      <4>1. CASE i \in 1 .. n
        BY <1>3, <1>7, <2>2, <4>1
      <4>2. CASE i = n + 1
        BY <1>6, <2>2, <3>1, <4>2
      <4>. QED BY <2>4, <4>1, <4>2
    <3>3. ASSUME NEW g \in FilterIds, \A i \in 1 .. n + 1 : filters'[i].id # g
          PROVE  asked[g] = NoMode
      <4>1. \A i \in 1 .. n : i \in 1 .. n + 1
        BY <1>3
      <4>2. \A i \in D : filters[i].id # g
        BY <1>3, <2>2, <3>3, <4>1
      <4>. QED BY <1>7, <4>2
    <3>. QED BY <1>1, <1>2, <1>7, <2>3, <3>2, <3>3 DEF AskOK
  <2>8. AssemblyOK'
    <3>1. CASE filters = <<>>
      <4>1. pf = NoAssembly /\ NoAssembly.lastcc = -1
        BY <3>1 DEF AssemblyOK, NoAssembly
      <4>. QED BY <1>1, <1>2, <2>3, <3>1, <4>1 DEF AssemblyOK
    <3>2. CASE filters # <<>>
      BY <1>1, <1>2, <2>3, <3>2 DEF AssemblyOK
    <3>. QED BY <3>1, <3>2
  <2>. QED BY <1>2, <2>6, <2>7, <2>8
<1>. QED BY <1>8, <1>9

(* A filter is stopped: what was asked for it goes, and with the last one  *)
(* the assembly.                                                           *)
LEMMA StopFilterInv ==
  ASSUME Inv, NEW f \in FilterIds, StopFilter(f)
  PROVE  Inv'
<1>. USE DEF Inv
<1>. DEFINE E == [id : FilterIds, tables : SUBSET Tables, ecm : [EcmTables -> 0 .. Started]]
            D == DOMAIN filters
            n == Len(filters)
<1>1. /\ \E i \in D : filters[i].id = f /\ filters' = RemoveAt(filters, i)
      /\ pf' = (IF filters' = <<>> THEN NoAssembly ELSE pf)
      /\ broken' = broken \cup (IF filters' = <<>> THEN InProgress ELSE {})
      /\ asked' = [asked EXCEPT ![f] = NoMode] /\ Quiet
      /\ UNCHANGED <<lengths, table, offset, cc, lost>>
  BY DEF StopFilter
<1>2. PICK i \in D : filters[i].id = f /\ filters' = RemoveAt(filters, i)
  BY <1>1
<1>3. /\ StreamOK' /\ Started' = Started /\ Started \in Nat
      /\ filters' = <<>> => ~Receiving'
      /\ filters' # <<>> => (Receiving' <=> Receiving)
      /\ LastOK' /\ CutsWholeSections' /\ EveryFilterServed'
  <2>. DEFINE b == filters' = <<>>
  <2>1. b \in BOOLEAN /\ broken' = broken \cup (IF b THEN InProgress ELSE {})
        /\ UNCHANGED <<lengths, table, offset, cc, lost>>
    BY <1>1
  <2>. HIDE DEF b
  <2>2. /\ StreamOK' /\ Started' = Started /\ Started \in Nat
        /\ b => ~Receiving'
        /\ ~b => (Receiving' <=> Receiving)
        /\ LastOK' /\ CutsWholeSections' /\ EveryFilterServed'
    BY <1>1, <2>1, RequestKeeps
  <2>. QED BY <2>2 DEF b
<1>4. /\ filters \in Seq(E) /\ D = 1 .. n /\ n \in Nat
      /\ \A k, j \in D : filters[k].id = filters[j].id => k = j
      /\ \A k \in D : filters[k].id \in FilterIds
  <2>1. filters \in Seq(E)
    BY DEF FiltersOK
  <2>2. D = 1 .. n /\ n \in Nat
    BY FiltersDomain
  <2>. QED BY <2>1, <2>2, EntryType DEF FiltersOK
<1>5. /\ filters' \in Seq(E) /\ Len(filters') = n - 1
      /\ \A j \in 1 .. n - 1 : filters'[j] = IF j < i THEN filters[j] ELSE filters[j + 1]
  <2>1. filters \in Seq(E) /\ i \in 1 .. Len(filters)
    BY <1>4
  <2>. HIDE DEF E
  <2>2. /\ RemoveAt(filters, i) \in Seq(E) /\ Len(RemoveAt(filters, i)) = Len(filters) - 1
        /\ \A j \in 1 .. Len(filters) - 1 :
             RemoveAt(filters, i)[j] = IF j < i THEN filters[j] ELSE filters[j + 1]
    BY <2>1, RemovedElement
  <2>. QED BY <1>2, <2>2
<1>. HIDE DEF n
<1>. DEFINE At(j) == IF j < i THEN j ELSE j + 1
<1>6. /\ DOMAIN filters' = 1 .. n - 1
      /\ \A j \in 1 .. n - 1 : At(j) \in D /\ At(j) # i /\ filters'[j] = filters[At(j)]
      /\ \A j, k \in 1 .. n - 1 : At(j) = At(k) => j = k
      /\ \A k \in D : k # i => \E j \in 1 .. n - 1 : At(j) = k
  <2>1. DOMAIN filters' = 1 .. n - 1
    <3>. HIDE DEF E
    <3>. QED BY <1>4, <1>5
  <2>2. \A j \in 1 .. n - 1 : At(j) \in D /\ At(j) # i /\ filters'[j] = filters[At(j)]
    BY <1>4, <1>5
  <2>3. \A j, k \in 1 .. n - 1 : At(j) = At(k) => j = k
    BY <1>4
  <2>4. ASSUME NEW k \in D, k # i PROVE \E j \in 1 .. n - 1 : At(j) = k
    <3>1. CASE k < i
      <4>1. k \in 1 .. n - 1 /\ At(k) = k
        BY <1>4, <3>1
      <4>. QED BY <4>1
    <3>2. CASE ~(k < i)
      <4>1. k - 1 \in 1 .. n - 1 /\ At(k - 1) = k
        BY <1>4, <2>4, <3>2
      <4>. QED BY <4>1
    <3>. QED BY <3>1, <3>2
  <2>. QED BY <2>1, <2>2, <2>3, <2>4
<1>. HIDE DEF At
<1>7. FiltersOK'
  <2>1. \A j, k \in 1 .. n - 1 : filters'[j].id = filters'[k].id => j = k
    BY <1>4, <1>6
  <2>. QED BY <1>3, <1>5, <1>6, <2>1 DEF FiltersOK
<1>8. /\ asked \in [FilterIds -> [EcmTables -> 0 .. Started]]
      /\ \A k \in D : filters[k].ecm = asked[filters[k].id]
      /\ \A g \in FilterIds : (\A k \in D : filters[k].id # g) => asked[g] = NoMode
  BY DEF AskOK
<1>9. \A g \in FilterIds : asked'[g] = IF g = f THEN NoMode ELSE asked[g]
  BY <1>1, <1>8
<1>11. AskOK'
  <2>1. NoMode \in [EcmTables -> 0 .. Started]
    BY <1>3 DEF NoMode
  <2>2. asked' \in [FilterIds -> [EcmTables -> 0 .. Started']]
    <3>. DEFINE A == [EcmTables -> 0 .. Started]
    <3>1. asked \in [FilterIds -> A] /\ NoMode \in A
      BY <1>8, <2>1
    <3>. HIDE DEF A
    <3>2. asked' \in [FilterIds -> A]
      BY <1>1, <3>1
    <3>. QED BY <1>3, <3>2 DEF A
  <2>3. ASSUME NEW j \in 1 .. n - 1 PROVE filters'[j].ecm = asked'[filters'[j].id]
    <3>1. At(j) \in D /\ At(j) # i /\ filters'[j] = filters[At(j)]
      BY <1>6
    <3>2. filters[At(j)].id # f /\ filters[At(j)].id \in FilterIds
      BY <1>2, <1>4, <3>1
    <3>. QED BY <1>8, <1>9, <3>1, <3>2
  <2>4. ASSUME NEW g \in FilterIds, \A j \in 1 .. n - 1 : filters'[j].id # g
        PROVE  asked'[g] = NoMode
    <3>1. g # f => \A k \in D : filters[k].id # g
      BY <1>2, <1>6, <2>4
    <3>. QED BY <1>8, <1>9, <3>1
  <2>. QED BY <1>6, <2>2, <2>3, <2>4 DEF AskOK
<1>12. AssemblyOK'
  <2>1. filters # <<>>
    <3>1. D # {}
      BY <1>2
    <3>. QED BY <3>1
  <2>2. CASE filters' = <<>>
    <3>1. NoAssembly \in [section : Seq(Byte), sectionLen : Lengths \cup {0}, lastcc : -1 .. CcMod - 1]
      BY TsSectionsAssumption DEF NoAssembly
    <3>. QED BY <1>1, <1>3, <2>2, <3>1 DEF AssemblyOK
  <2>3. CASE filters' # <<>>
    BY <1>1, <1>3, <2>1, <2>3 DEF AssemblyOK
  <2>. QED BY <2>2, <2>3
<1>. QED BY <1>3, <1>7, <1>11, <1>12

(* All filters are stopped.                                                *)
LEMMA StopAllFiltersInv ==
  ASSUME Inv, StopAllFilters
  PROVE  Inv'
<1>. USE DEF Inv
<1>1. /\ filters' = <<>> /\ pf' = NoAssembly /\ asked' = [f \in FilterIds |-> NoMode] /\ Quiet
      /\ broken' = broken \cup (IF TRUE THEN InProgress ELSE {})
      /\ UNCHANGED <<lengths, table, offset, cc, lost>>
  BY DEF StopAllFilters
<1>2. /\ StreamOK' /\ Started' = Started /\ Started \in Nat /\ ~Receiving'
      /\ LastOK' /\ CutsWholeSections' /\ EveryFilterServed'
  <2>. DEFINE b == TRUE
  <2>1. b \in BOOLEAN /\ broken' = broken \cup (IF b THEN InProgress ELSE {})
        /\ UNCHANGED <<lengths, table, offset, cc, lost>>
    BY <1>1
  <2>. HIDE DEF b
  <2>2. /\ StreamOK' /\ Started' = Started /\ Started \in Nat
        /\ b => ~Receiving'
        /\ LastOK' /\ CutsWholeSections' /\ EveryFilterServed'
    BY <1>1, <2>1, RequestKeeps
  <2>. QED BY <2>2 DEF b
<1>3. AssemblyOK'
  <2>1. NoAssembly \in [section : Seq(Byte), sectionLen : Lengths \cup {0}, lastcc : -1 .. CcMod - 1]
    BY TsSectionsAssumption DEF NoAssembly
  <2>. QED BY <1>1, <1>2, <2>1 DEF AssemblyOK
<1>4. FiltersOK'
  BY <1>1 DEF FiltersOK
<1>5. AskOK'
  <2>1. NoMode \in [EcmTables -> 0 .. Started']
    BY <1>2 DEF NoMode
  <2>. QED BY <1>1, <2>1 DEF AskOK
<1>. QED BY <1>2, <1>3, <1>4, <1>5

(* Nothing of this pid changes.                                            *)
LEMMA StutterInv ==
  ASSUME Inv, ThisStays
  PROVE  Inv'
<1>. USE DEF Inv, ThisStays
<1>1. StreamOK'
  BY DEF StreamOK, Started
<1>2. AssemblyOK'
  BY DEF AssemblyOK, Receiving, Remaining, Started
<1>3. FiltersOK'
  BY DEF FiltersOK, Started
<1>4. AskOK'
  BY DEF AskOK, Started
<1>5. LastOK'
  BY DEF LastOK, Newest, Started
<1>6. CutsWholeSections'
  BY DEF CutsWholeSections
<1>7. EveryFilterServed'
  BY DEF EveryFilterServed
<1>. QED BY <1>1, <1>2, <1>3, <1>4, <1>5, <1>6, <1>7
-----------------------------------------------------------------------------
(* The other pids.                                                         *)

Entries == [id : FilterIds, tables : SUBSET Tables, ecm : [EcmTables -> Nat]]

\* The filters of the other pids are filters.
OthersOK == setup \in Setups /\ elsewhere \in [OtherPids -> Seq(Entries)]

(* A filter that is set on another pid.                                    *)
LEMMA SetElsewhere ==
  ASSUME OthersOK, NEW pid \in OtherPids, NEW f \in FilterIds, NEW tables \in Tunes(f),
         SetFilterElsewhere(pid, f, tables)
  PROVE  OthersOK'
<1>. DEFINE fs == elsewhere[pid]
            new == WithFilter(fs, f, tables)
<1>1. elsewhere' = [elsewhere EXCEPT ![pid] = new] /\ setup' = setup
  BY DEF SetFilterElsewhere, ThisStays
<1>2. tables \in SUBSET Tables
  BY FilterAssumption
<1>3. NewEntry(f, tables) \in Entries
  <2>1. NoMode \in [EcmTables -> Nat]
    BY DEF NoMode
  <2>. QED BY <1>2, <2>1 DEF NewEntry, Entries
<1>4. fs \in Seq(Entries)
  BY DEF OthersOK
<1>. HIDE DEF fs
<1>5. new \in Seq(Entries)
  <2>1. CASE f \in Numbers(fs)
    <3>1. new = [i \in DOMAIN fs |-> IF fs[i].id = f THEN [fs[i] EXCEPT !.tables = tables]
                                     ELSE fs[i]]
      BY <2>1 DEF WithFilter
    <3>2. ASSUME NEW e \in Entries PROVE [e EXCEPT !.tables = tables] \in Entries
      BY <1>2 DEF Entries
    <3>3. DOMAIN fs = 1 .. Len(fs) /\ Len(fs) \in Nat /\ \A i \in DOMAIN fs : fs[i] \in Entries
      BY <1>4
    <3>. HIDE DEF new
    <3>4. \A i \in 1 .. Len(fs) : new[i] \in Entries
      BY <3>1, <3>2, <3>3
    <3>5. new = [i \in 1 .. Len(fs) |-> new[i]]
      BY <3>1, <3>3
    <3>. QED BY <3>3, <3>4, <3>5
  <2>2. CASE f \notin Numbers(fs)
    BY <1>3, <1>4, <2>2 DEF WithFilter
  <2>. QED BY <2>1, <2>2
<1>. HIDE DEF new
<1>. QED BY <1>1, <1>5 DEF OthersOK

(* One that is stopped.                                                    *)
LEMMA StopElsewhere ==
  ASSUME OthersOK, NEW pid \in OtherPids, NEW f, StopFilterElsewhere(pid, f)
  PROVE  OthersOK'
<1>1. PICK i \in DOMAIN elsewhere[pid] :
        elsewhere' = [elsewhere EXCEPT ![pid] = RemoveAt(elsewhere[pid], i)]
  BY DEF StopFilterElsewhere
<1>2. elsewhere[pid] \in Seq(Entries)
  BY DEF OthersOK
<1>3. i \in 1 .. Len(elsewhere[pid])
  BY <1>2
<1>4. RemoveAt(elsewhere[pid], i) \in Seq(Entries)
  BY <1>2, <1>3, RemovedElement
<1>5. setup' = setup
  BY DEF StopFilterElsewhere, ThisStays
<1>. QED BY <1>1, <1>4, <1>5 DEF OthersOK

(* An ECM of another pid.                                                  *)
LEMMA EcmOfOther ==
  ASSUME OthersOK, NEW pid \in OtherPids, NEW t \in EcmTables, NEW mode \in OtherModes,
         EcmElsewhere(pid, t, mode)
  PROVE  OthersOK'
<1>. DEFINE fs == elsewhere[pid]
            new == [i \in DOMAIN fs |-> WithEcm(fs[i], t, mode)]
<1>1. elsewhere' = [elsewhere EXCEPT ![pid] = new] /\ setup' = setup
  BY DEF EcmElsewhere, ThisStays
<1>2. ASSUME NEW e \in Entries PROVE WithEcm(e, t, mode) \in Entries
  <2>. DEFINE ecm == [e.ecm EXCEPT ![t] = mode]
  <2>1. e.ecm \in [EcmTables -> Nat] /\ mode \in Nat
    BY FilterAssumption DEF Entries
  <2>2. ecm \in [EcmTables -> Nat]
    BY <2>1
  <2>3. WithEcm(e, t, mode) = IF t \in e.tables THEN [e EXCEPT !.ecm = ecm] ELSE e
    BY DEF WithEcm
  <2>. HIDE DEF ecm
  <2>. QED BY <2>2, <2>3 DEF Entries
<1>3. fs \in Seq(Entries)
  BY DEF OthersOK
<1>. HIDE DEF fs
<1>4. new \in Seq(Entries)
  <2>1. DOMAIN fs = 1 .. Len(fs) /\ Len(fs) \in Nat /\ \A i \in DOMAIN fs : fs[i] \in Entries
    BY <1>3
  <2>. QED BY <1>2, <2>1
<1>. HIDE DEF new
<1>. QED BY <1>1, <1>4 DEF OthersOK

(* The filters of the other pids keep their types.                         *)
LEMMA OthersAlways == Spec => []OthersOK
<1>1. Init => OthersOK
  <2>. SUFFICES ASSUME Init PROVE OthersOK
    OBVIOUS
  <2>1. <<>> \in Seq(Entries)
    OBVIOUS
  <2>. QED BY <2>1 DEF Init, OthersOK
<1>2. OthersOK /\ [Next]_vars => OthersOK'
  <2>. SUFFICES ASSUME OthersOK, [Next]_vars PROVE OthersOK'
    OBVIOUS
  <2>. setup.filters \subseteq FilterIds /\ setup.others \subseteq FilterIds
       /\ setup.pids \subseteq OtherPids
    BY SetupAssumption DEF OthersOK
  <2>1. CASE UNCHANGED others
    BY <2>1 DEF others, OthersOK
  <2>2. CASE PacketArrives
    BY <2>1, <2>2 DEF PacketArrives
  <2>3. CASE PacketLost
    BY <2>1, <2>3 DEF PacketLost, others
  <2>4. CASE PacketRepeated
    BY <2>1, <2>4 DEF PacketRepeated, others
  <2>5. ASSUME NEW f, StopFilter(f) PROVE OthersOK'
    BY <2>1, <2>5 DEF StopFilter, others
  <2>6. ASSUME NEW f, NEW tables, SetFilter(f, tables) PROVE OthersOK'
    BY <2>1, <2>6 DEF SetFilter, others
  <2>7. CASE StopAllFilters
    <3>1. elsewhere' = [pid \in OtherPids |-> <<>>] /\ setup' = setup
      BY <2>7 DEF StopAllFilters
    <3>2. <<>> \in Seq(Entries)
      OBVIOUS
    <3>. QED BY <3>1, <3>2 DEF OthersOK
  <2>8. ASSUME NEW pid \in setup.pids, NEW f \in setup.others, StopFilterElsewhere(pid, f)
        PROVE  OthersOK'
    BY <2>8, StopElsewhere
  <2>9. ASSUME NEW pid \in setup.pids, NEW f \in setup.others, NEW tables \in Tunes(f),
               SetFilterElsewhere(pid, f, tables)
        PROVE  OthersOK'
    BY <2>9, SetElsewhere
  <2>10. ASSUME NEW pid \in setup.pids, NEW t \in EcmTables, NEW mode \in OtherModes,
                EcmElsewhere(pid, t, mode)
         PROVE  OthersOK'
    BY <2>10, EcmOfOther
  <2>11. CASE UNCHANGED vars
    BY <2>1, <2>11 DEF vars
  <2>. QED
    BY <2>2, <2>3, <2>4, <2>5, <2>6, <2>7, <2>8, <2>9, <2>10, <2>11 DEF Next
<1>. QED BY <1>1, <1>2, PTL DEF Spec
-----------------------------------------------------------------------------
(* The theorems.                                                           *)

(***************************************************************************)
(* The threads keep the invariant: whatever the broadcaster packs, loses   *)
(* and repeats, and whatever OSCam asks for in between, the assembly of    *)
(* Collect is the beginning of the section that is being broadcast, as     *)
(* long as the filters have missed nothing of it.                          *)
(***************************************************************************)
THEOREM SafeSections == Spec => []Inv
<1>1. Inv /\ OthersOK /\ [Next]_vars => Inv'
  <2>. SUFFICES ASSUME Inv, OthersOK, [Next]_vars PROVE Inv'
    OBVIOUS
  <2>. setup.filters \subseteq FilterIds
    BY SetupAssumption DEF OthersOK
  <2>1. CASE PacketArrives
    BY <2>1, ArrivesUnheard, ArrivesHeard
  <2>2. CASE PacketLost
    BY <2>2, LostInv
  <2>3. CASE PacketRepeated
    BY <2>3, RepeatedInv
  <2>4. ASSUME NEW f \in setup.filters, StopFilter(f) PROVE Inv'
    BY <2>4, StopFilterInv
  <2>5. ASSUME NEW f \in setup.filters, NEW tables \in Tunes(f), SetFilter(f, tables)
        PROVE  Inv'
    BY <2>5, SetFilterInv
  <2>6. CASE StopAllFilters
    BY <2>6, StopAllFiltersInv
  <2>7. CASE ThisStays
    BY <2>7, StutterInv
  <2>8. ASSUME NEW pid, NEW f, StopFilterElsewhere(pid, f) PROVE ThisStays
    BY <2>8 DEF StopFilterElsewhere
  <2>9. ASSUME NEW pid, NEW f, NEW tables, SetFilterElsewhere(pid, f, tables)
        PROVE  ThisStays
    BY <2>9 DEF SetFilterElsewhere
  <2>10. ASSUME NEW pid, NEW t, NEW mode, EcmElsewhere(pid, t, mode) PROVE ThisStays
    BY <2>10 DEF EcmElsewhere
  <2>11. CASE UNCHANGED vars
    BY <2>7, <2>11 DEF vars, others, ThisStays
  <2>. QED
    BY <2>1, <2>2, <2>3, <2>4, <2>5, <2>6, <2>7, <2>8, <2>9, <2>10, <2>11 DEF Next
<1>. QED BY <1>1, InitInv, OthersAlways, PTL DEF Spec

(* section, sectionLen and lastcc of cPidFilter, the list of filters and   *)
(* what was cut keep their types, for every length of a section.           *)
THEOREM TypeCorrect == Spec => []TypeOK
<1>1. Inv /\ OthersOK => TypeOK
  <2>. SUFFICES ASSUME Inv, OthersOK PROVE TypeOK
    OBVIOUS
  <2>1. elsewhere \in [OtherPids -> Seq([id : FilterIds, tables : SUBSET Tables,
                                        ecm : [EcmTables -> Nat]])]
    BY DEF OthersOK, Entries
  <2>2. /\ filters \in Seq([id : FilterIds, tables : SUBSET Tables,
                            ecm : [EcmTables -> 0 .. Started]])
        /\ asked \in [FilterIds -> [EcmTables -> 0 .. Started]]
    BY DEF Inv, FiltersOK, AskOK
  <2>3. /\ pf.section \in Seq(Byte) /\ pf.sectionLen \in Lengths \cup {0}
        /\ pf.lastcc \in -1 .. CcMod - 1
    BY DEF Inv, AssemblyOK
  <2>4. /\ lengths \in Seq(Lengths) /\ table \in Seq(Tables) /\ offset \in Nat
        /\ cc \in 0 .. CcMod - 1 /\ lost \in 0 .. MaxLost
        /\ broken \subseteq 1 .. Started
    BY DEF Inv, StreamOK
  <2>. QED BY <2>1, <2>2, <2>3, <2>4 DEF TypeOK
<1>. QED BY <1>1, SafeSections, OthersAlways, PTL

(* Analyze cuts exactly the sections that end with the packet and of which *)
(* no packet was lost, each of them whole, once and in order: a lost       *)
(* packet, a repeated one and a request never make it deliver bytes of two *)
(* sections as one.                                                        *)
THEOREM CutsWholeAlways == Spec => []CutsWholeSections
<1>1. Inv => CutsWholeSections
  BY DEF Inv
<1>. QED BY <1>1, SafeSections, PTL

(* Each filter whose tables include that of a section gets it with the     *)
(* packet that ends it, as ProcessData goes through all the filters.       *)
THEOREM ServedAlways == Spec => []EveryFilterServed
<1>1. Inv => EveryFilterServed
  BY DEF Inv
<1>. QED BY <1>1, SafeSections, PTL

(* The least of the elements of a list that are wanted is one of them.     *)
LEMMA LeastIsOne ==
  ASSUME NEW S \in SUBSET Nat, S # {}
  PROVE  Least(S) \in S
<1>1. \E i \in S : \A j \in S : i <= j
  BY LeastNumber
<1>. QED BY <1>1 DEF Least

(* The filter of which GetECM returns the mode is one of those of the      *)
(* demux, and has the modes of the ECMs that it was sent.                  *)
LEMMA ModeIsAsked ==
  Inv /\ OthersOK => ModeOfItsEcm
<1>. SUFFICES ASSUME Inv, OthersOK, NEW demux \in Demuxes, NEW t \in EcmTables
     PROVE  GetECM(demux, t) \in
              IF ModesAsked(demux, t) = {} THEN {0} ELSE ModesAsked(demux, t)
  BY DEF ModeOfItsEcm
<1>. DEFINE Ecms(pid) == {i \in DOMAIN List(pid) : EcmsOf(demux, List(pid)[i])}
            at    == [pid \in Pids |-> Ecms(pid)]
            found == {pid \in Pids : at[pid] # {}}
            first == Least(found)
            Mode(pid, i) == List(pid)[i].ecm[t]
<1>1. GetECM(demux, t) = IF found = {} THEN 0 ELSE Mode(first, Least(at[first]))
  BY DEF GetECM
<1>2. found \subseteq Nat
  BY FilterAssumption DEF Pids
<1>3. \A pid \in Pids : Ecms(pid) \subseteq Nat
  <2>1. DOMAIN filters \subseteq Nat
    BY FiltersDomain DEF Inv
  <2>2. \A pid \in OtherPids : DOMAIN elsewhere[pid] \subseteq Nat
    <3>1. ASSUME NEW pid \in OtherPids PROVE elsewhere[pid] \in Seq(Entries)
      BY DEF OthersOK
    <3>. QED BY <3>1
  <2>. QED BY <2>1, <2>2 DEF List, Pids
<1>4. ASSUME NEW pid \in Pids, NEW i \in Ecms(pid) PROVE Mode(pid, i) \in ModesAsked(demux, t)
  <2>1. CASE pid = ThisPid
    <3>1. i \in DOMAIN filters /\ EcmsOf(demux, filters[i]) /\ Mode(pid, i) = filters[i].ecm[t]
      BY <2>1 DEF List
    <3>2. filters[i].ecm[t] = asked[filters[i].id][t]
      BY <3>1 DEF Inv, AskOK
    <3>. HIDE DEF Mode
    <3>. QED BY <3>1, <3>2 DEF ModesAsked
  <2>2. CASE pid # ThisPid
    <3>1. /\ pid \in OtherPids /\ i \in DOMAIN elsewhere[pid] /\ EcmsOf(demux, elsewhere[pid][i])
          /\ Mode(pid, i) = elsewhere[pid][i].ecm[t]
      BY <2>2 DEF List, Pids
    <3>. HIDE DEF Mode
    <3>. QED BY <3>1 DEF ModesAsked
  <2>. QED BY <2>1, <2>2
<1>5. CASE found = {}
  <2>1. \A pid \in Pids : Ecms(pid) = {}
    BY <1>5
  <2>2. \A i \in DOMAIN filters : ~EcmsOf(demux, filters[i])
    BY <2>1 DEF List, Pids
  <2>3. \A pid \in OtherPids : \A i \in DOMAIN elsewhere[pid] :
          ~EcmsOf(demux, elsewhere[pid][i])
    BY <2>1, FilterAssumption DEF List, Pids
  <2>4. ModesAsked(demux, t) = {}
    BY <2>2, <2>3 DEF ModesAsked
  <2>. HIDE DEF found
  <2>. QED BY <1>1, <1>5, <2>4
<1>6. CASE found # {}
  <2>1. first \in found
    <3>. HIDE DEF found
    <3>. QED BY <1>2, <1>6, LeastIsOne
  <2>. HIDE DEF first
  <2>2. first \in Pids /\ at[first] = Ecms(first) /\ Ecms(first) # {}
    BY <2>1
  <2>3. Least(Ecms(first)) \in Ecms(first)
    <3>. HIDE DEF Ecms
    <3>. QED BY <1>3, <2>2, LeastIsOne
  <2>4. Mode(first, Least(at[first])) \in ModesAsked(demux, t)
    <3>. HIDE DEF Ecms, at, Mode
    <3>. QED BY <1>4, <2>2, <2>3
  <2>. HIDE DEF found, Mode, at
  <2>. QED BY <1>1, <1>6, <2>4
<1>. QED BY <1>5, <1>6

(* The mode that GetECM has of a parity for a demux is that of the last    *)
(* ECM of it that a filter of this demux was sent since OSCam set it,      *)
(* whatever filters and ECMs of other demuxes there are on the same pid    *)
(* and on others; with several filters for ECMs it is that of one of them. *)
THEOREM ModeAlways == Spec => []ModeOfItsEcm
BY SafeSections, OthersAlways, ModeIsAsked, PTL
=============================================================================
