----------------------------- MODULE StreamTable -----------------------------
(***************************************************************************)
(* The CSA stream cypher of one packet, on nibbles and with tables: what   *)
(* stream.c says, in its comments, that its bit slices compute.            *)
(***************************************************************************)
EXTENDS Integers, Sequences

VARIABLES
  ck,       \* the control word: 16 nibbles
  sb,       \* the first block of the packet: <<high, low>> nibbles of its bytes
  st,       \* the registers
  n,        \* how often the registers moved
  out       \* the bits of the keystream block, as far as it is made

vars == <<ck, sb, st, n, out>>

Nibble == 0 .. 15
Bit(v, k) == (v \div 2 ^ k) % 2
FromBits(b) == b[0] + 2 * b[1] + 4 * b[2] + 8 * b[3]
XorOf == [v \in Nibble \X Nibble |->
            FromBits([k \in 0 .. 3 |-> (Bit(v[1], k) + Bit(v[2], k)) % 2])]
Xor(v, w) == XorOf[<<v, w>>]
-----------------------------------------------------------------------------
SBox == <<
  <<2,0,1,1,2,3,3,0, 3,2,2,0,1,1,0,3, 0,3,3,0,2,2,1,1, 2,2,0,3,1,1,3,0>>,
  <<3,1,0,2,2,3,3,0, 1,3,2,1,0,0,1,2, 3,1,0,3,3,2,0,2, 0,0,1,2,2,1,3,1>>,
  <<2,0,1,2,2,3,3,1, 1,1,0,3,3,0,2,0, 1,3,0,1,3,0,2,2, 2,0,1,2,0,3,3,1>>,
  <<3,1,2,3,0,2,1,2, 1,2,0,1,3,0,0,3, 1,0,3,1,2,3,0,3, 0,3,2,0,1,2,2,1>>,
  <<2,0,0,1,3,2,3,2, 0,1,3,3,1,0,2,1, 2,3,2,0,0,3,1,1, 1,0,3,2,3,1,0,2>>,
  <<0,1,2,3,1,2,2,0, 0,1,3,0,2,3,1,3, 2,3,0,2,3,0,1,1, 2,1,1,2,0,3,3,0>>,
  <<0,3,2,2,3,0,0,1, 3,0,1,3,1,2,2,1, 1,0,3,3,0,1,1,2, 2,3,1,0,2,3,0,2>> >>

\* The register and bit of A that each of the five inputs of an S-box is.
SBoxInputs == <<
  << <<3,0>>, <<0,2>>, <<5,1>>, <<6,3>>, <<8,0>> >>,
  << <<1,1>>, <<2,2>>, <<5,3>>, <<6,0>>, <<8,1>> >>,
  << <<0,3>>, <<1,0>>, <<4,1>>, <<4,3>>, <<5,2>> >>,
  << <<2,3>>, <<0,1>>, <<1,3>>, <<3,2>>, <<7,0>> >>,
  << <<4,2>>, <<3,3>>, <<5,0>>, <<7,1>>, <<8,2>> >>,
  << <<2,1>>, <<3,1>>, <<4,0>>, <<6,2>>, <<8,3>> >>,
  << <<1,2>>, <<2,0>>, <<6,1>>, <<7,2>>, <<7,3>> >> >>

\* What S-box i makes of the registers; bit 1 is its output "a", bit 0 "b".
Looked(A, i) ==
  LET in(k) == Bit(A[SBoxInputs[i][k][1]], SBoxInputs[i][k][2])
  IN  SBox[i][1 + 16 * in(1) + 8 * in(2) + 4 * in(3) + 2 * in(4) + in(5)]

\* The nibble of the bits w of S-boxes i, j and of the bits w2 of k, l.
Chosen(A, i, j, w, k, l, w2) ==
  FromBits([b \in 0 .. 3 |-> CASE b = 0 -> Bit(Looked(A, i), w)
                               [] b = 1 -> Bit(Looked(A, j), w)
                               [] b = 2 -> Bit(Looked(A, k), w2)
                               [] OTHER -> Bit(Looked(A, l), w2)])

\* The four bits of B that are added to make each bit of the extra nibble.
ExtraInputs == <<
  << <<8,2>>, <<5,3>>, <<2,1>>, <<7,0>> >>,
  << <<4,3>>, <<7,2>>, <<3,0>>, <<4,1>> >>,
  << <<5,0>>, <<7,1>>, <<2,3>>, <<3,2>> >>,
  << <<2,0>>, <<5,1>>, <<6,2>>, <<8,3>> >> >>
Extra(B) ==
  LET bit(b, k) == Bit(B[ExtraInputs[b + 1][k][1]], ExtraInputs[b + 1][k][2])
  IN  FromBits([b \in 0 .. 3 |-> (bit(b, 1) + bit(b, 2) + bit(b, 3) + bit(b, 4)) % 2])

RotatedLeft(v) == ((2 * v) % 16) + (v \div 8)
-----------------------------------------------------------------------------
Load(key) ==
  [A |-> [k \in 0 .. 9 |-> IF k < 8 THEN key[k + 1] ELSE 0],
   B |-> [k \in 0 .. 9 |-> IF k < 8 THEN key[k + 9] ELSE 0],
   X |-> 0, Y |-> 0, Z |-> 0, D |-> 0, E |-> 0, F |-> 0,
   p |-> 0, q |-> 0, r |-> 0]

Shifted(R, new) == [k \in 0 .. 9 |-> IF k = 0 THEN new ELSE R[k - 1]]

\* The registers move: T1, T2, T3 and T4, then the S-boxes.
Moved(s, intoA, intoB) ==
  LET t1  == Xor(Xor(s.A[9], s.X), intoA)
      t2  == Xor(Xor(Xor(s.B[6], s.B[9]), s.Y), intoB)
      sum == s.Z + s.E + s.r
  IN  [A |-> Shifted(s.A, t1),
       B |-> Shifted(s.B, IF s.p = 1 THEN RotatedLeft(t2) ELSE t2),
       D |-> Xor(Xor(s.E, s.Z), Extra(s.B)),
       E |-> s.F,
       F |-> IF s.q = 1 THEN sum % 16 ELSE s.E,
       r |-> IF s.q = 1 THEN sum \div 16 ELSE s.r,
       X |-> Chosen(s.A, 1, 2, 1, 3, 4, 0),
       Y |-> Chosen(s.A, 3, 4, 1, 5, 6, 0),
       Z |-> Chosen(s.A, 5, 6, 1, 1, 2, 0),
       p |-> Bit(Looked(s.A, 7), 1),
       q |-> Bit(Looked(s.A, 7), 0)]

\* The move adds two bits to the keystream, from the top of each byte down.
WithPair(bits, k, D) ==
  LET low == 8 * (k \div 4) + 6 - 2 * (k % 4)
  IN  (bits \ {low, low + 1})
        \cup (IF Bit(D, 0) # Bit(D, 1) THEN {low} ELSE {})
        \cup (IF Bit(D, 2) # Bit(D, 3) THEN {low + 1} ELSE {})

Init == st = Load(ck) /\ n = 0 /\ out = {}

\* The first 32 moves take in the block, with D, and make no keystream: of a
\* byte the two nibbles go by turns to A and to B.
Takes ==
  /\ n < 32
  /\ LET byte == sb[n \div 4 + 1]
         into(reg) == IF (n % 2 = 0) = (reg = "A") THEN byte[1] ELSE byte[2]
     IN  st' = Moved(st, Xor(into("A"), st.D), into("B"))
  /\ n' = n + 1 /\ UNCHANGED <<ck, sb, out>>

Makes ==
  /\ n >= 32
  /\ st' = Moved(st, 0, 0)
  /\ out' = WithPair(out, n % 32, st'.D)
  /\ n' = n + 1 /\ UNCHANGED <<ck, sb>>

Next == Takes \/ Makes
Spec == Init /\ [][Next]_vars
=============================================================================
