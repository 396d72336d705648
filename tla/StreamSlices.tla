---------------------------- MODULE StreamSlices ----------------------------
(***************************************************************************)
(* The CSA stream cypher of many packets at once (stream.c): the bits that *)
(* the packets have at one place of a register are a group, here the set   *)
(* of the packets' lanes whose bit is 1, and each operation on groups is   *)
(* done for all the lanes.                                                 *)
(***************************************************************************)
EXTENDS Integers

\* FFXOR; FFAND and FFOR are \cap and \cup, FF0 is {}.  FF1, all the lanes, is
\* the argument "all" of what needs it.
a ^^ b == (a \cup b) \ (a \cap b)

\* FFNOT
Not(a, all) == all \ a
-----------------------------------------------------------------------------
(* The S-boxes as circuits: their outputs a and b.                         *)

SBox1(fe, fa, fb, fc, fd, all) ==
  LET tmp0 == fa ^^ (fb ^^ ((((fa \cup fb) ^^ fc) \cup (fc ^^ fd)) ^^ all))
      tmp1 == (fa \cup fb) ^^ ((fc \cap (fa \cup (fb ^^ fd))) ^^ all)
      tmp2 == fa ^^ ((fb \cap fd) ^^ ((fa \cap fd) \cup fc))
      tmp3 == (fa \cap fc) ^^ (fa ^^ ((fa \cap fb) \cup fd))
  IN  [a |-> tmp0 ^^ (fe \cap tmp1), b |-> tmp2 ^^ (fe \cap tmp3)]

SBox2(fe, fa, fb, fc, fd, all) ==
  LET tmp0 == fa ^^ ((fb \cap (fc \cup fd)) ^^ (fc ^^ (fd ^^ all)))
      tmp1 == (fa \cap (fb ^^ fd)) \cup ((fa \cup fb) \cap fc)
      tmp2 == (fb \cap fd) ^^ ((fa \cap fd) \cup (fb ^^ (fc ^^ all)))
      tmp3 == (fa \cap fd) \cup (fa ^^ (fb ^^ (fc \cap fd)))
  IN  [a |-> tmp0 ^^ (fe \cap tmp1), b |-> tmp2 ^^ (fe \cap tmp3)]

SBox3(fe, fa, fb, fc, fd, all) ==
  LET tmp0 == fa ^^ (fb ^^ ((fc \cap (fa \cup fd)) ^^ fd))
      tmp1 == (fa \cap fc) ^^ ((fa ^^ fd) \cup ((fb \cup fc) ^^ (fd ^^ all)))
      tmp2 == fa ^^ (((fb ^^ fc) \cap fd) ^^ fc)
  IN  [a |-> tmp0 ^^ (Not(fe, all) \cap tmp1), b |-> tmp2 ^^ (fe \cap all)]

SBox4(fe, fa, fb, fc, fd, all) ==
  LET tmp0 == fa ^^ ((fc \cap (fa ^^ fd)) \cup (fb ^^ (fc \cup (fd ^^ all))))
      tmp1 == (fa \cap fb) ^^ (fb ^^ (((fa \cup fc) \cap fd) ^^ fc))
      tmp2 == fa ^^ ((fb \cap fc) \cup (((fa \cap (fb ^^ fd)) \cup fc) ^^ fd))
      s4a  == tmp0 ^^ (fe \cap (tmp1 ^^ tmp0))
  IN  [a |-> s4a, b |-> (s4a ^^ tmp2) ^^ (fe \cap all)]

SBox5(fe, fa, fb, fc, fd, all) ==
  LET tmp0 == ((fa \cap (fb \cup fc)) ^^ fb) \cup (((fa ^^ fc) \cup fd) ^^ all)
      tmp1 == fb ^^ ((fc ^^ fd) \cap (fc ^^ (fb \cup (fa ^^ fd))))
      tmp2 == (fa \cap fc) ^^ (fb ^^ ((fb \cup (fa ^^ fc)) \cap fd))
      tmp3 == ((fa ^^ fb) \cap (fc ^^ all)) \cup fd
  IN  [a |-> tmp0 ^^ (fe \cap tmp1), b |-> tmp2 ^^ (fe \cap tmp3)]

SBox6(fe, fa, fb, fc, fd, all) ==
  LET tmp0 == ((fa \cap fc) \cap fd) ^^ ((fb \cap (fa \cup fd)) ^^ fc)
      tmp1 == ((fa ^^ fc) \cap fd) ^^ all
      tmp2 == (fa \cap (fb \cup fc)) ^^ (fb ^^ ((fb \cap fc) \cup fd))
      tmp3 == fc \cap ((fa \cap (fb ^^ fd)) ^^ (fb \cup fd))
  IN  [a |-> tmp0 ^^ (fe \cap tmp1), b |-> tmp2 ^^ (fe \cap tmp3)]

SBox7(fe, fa, fb, fc, fd, all) ==
  LET tmp0 == fb ^^ ((fc \cap fd) \cup (fa ^^ (fc ^^ fd)))
      tmp1 == (fb \cup fd) \cap ((fa \cap fc) \cup (fb ^^ (fc ^^ fd)))
      tmp2 == (fa \cup fb) ^^ ((fc \cap (fb \cup fd)) ^^ fd)
      tmp3 == fd \cup ((fa \cap fc) ^^ all)
  IN  [a |-> tmp0 ^^ (fe \cap tmp1), b |-> tmp2 ^^ (fe \cap tmp3)]

\* The bits of A that the S-boxes take.
SBoxes(A, all) ==
  << SBox1(A[3][0], A[0][2], A[5][1], A[6][3], A[8][0], all),
     SBox2(A[1][1], A[2][2], A[5][3], A[6][0], A[8][1], all),
     SBox3(A[0][3], A[1][0], A[4][1], A[4][3], A[5][2], all),
     SBox4(A[2][3], A[0][1], A[1][3], A[3][2], A[7][0], all),
     SBox5(A[4][2], A[3][3], A[5][0], A[7][1], A[8][2], all),
     SBox6(A[2][1], A[3][1], A[4][0], A[6][2], A[8][3], all),
     SBox7(A[1][2], A[2][0], A[6][1], A[7][2], A[7][3], all) >>
-----------------------------------------------------------------------------
Four(b0, b1, b2, b3) == [b \in 0 .. 3 |-> CASE b = 0 -> b0 [] b = 1 -> b1
                                            [] b = 2 -> b2 [] OTHER -> b3]
Zero == [b \in 0 .. 3 |-> {}]
Plus(v, w) == [b \in 0 .. 3 |-> v[b] ^^ w[b]]

\* The key fills the lower eight nibbles of A and B, all else is zero.
Loaded(iA, iB) ==
  [A |-> [k \in 0 .. 9 |-> IF k < 8 THEN iA[k] ELSE Zero],
   B |-> [k \in 0 .. 9 |-> IF k < 8 THEN iB[k] ELSE Zero],
   X |-> Zero, Y |-> Zero, Z |-> Zero, D |-> Zero, E |-> Zero, F |-> Zero,
   p |-> {}, q |-> {}, r |-> {}]

\* The extra nibble for T3.
ExtraB(B) ==
  Four(((B[8][2] ^^ B[5][3]) ^^ B[2][1]) ^^ B[7][0],
       ((B[4][3] ^^ B[7][2]) ^^ B[3][0]) ^^ B[4][1],
       ((B[5][0] ^^ B[7][1]) ^^ B[2][3]) ^^ B[3][2],
       ((B[2][0] ^^ B[5][1]) ^^ B[6][2]) ^^ B[8][3])

\* Rotated left where p is set, by exchanging each bit for its lower one.
RotatedWhere_Right(v, p) ==
  [b \in 0 .. 3 |-> v[b] ^^ ((v[b] ^^ v[(b + 1) % 4]) \cap p)]
RotatedWhere(v, p) ==
  [b \in 0 .. 3 |-> v[b] ^^ ((v[b] ^^ v[(b + 3) % 4]) \cap p)]

\* Z + E + r, bit by bit; the carry into bit 4 is the new r.
Carries(Z, E, r) ==
  LET carry[b \in 0 .. 4] ==
        IF b = 0 THEN r
        ELSE (Z[b - 1] \cap E[b - 1]) \cup ((Z[b - 1] ^^ E[b - 1]) \cap carry[b - 1])
  IN  carry

ShiftedIn(R, new) == [k \in 0 .. 9 |-> IF k = 0 THEN new ELSE R[k - 1]]

\* One pass through the internal loop; intoA and intoB is what T1 and T2 have
\* on top of the registers.
Turned(g, intoA, intoB, all) ==
  LET s     == SBoxes(g.A, all)
      carry == Carries(g.Z, g.E, g.r)
      t2    == Plus(Plus(Plus(g.B[6], g.B[9]), g.Y), intoB)
  IN  [A |-> ShiftedIn(g.A, Plus(Plus(g.A[9], g.X), intoA)),
       B |-> ShiftedIn(g.B, RotatedWhere(t2, g.p)),
       D |-> Plus(Plus(g.E, g.Z), ExtraB(g.B)),
       E |-> g.F,
       F |-> [b \in 0 .. 3 |-> g.E[b] ^^ (g.q \cap (g.Z[b] ^^ carry[b]))],
       r |-> g.r ^^ (g.q \cap (carry[4] ^^ g.r)),
       X |-> Four(s[1].a, s[2].a, s[3].b, s[4].b),
       Y |-> Four(s[3].a, s[4].a, s[5].b, s[6].b),
       Z |-> Four(s[5].a, s[6].a, s[1].b, s[2].b),
       p |-> s[7].a, q |-> s[7].b]

\* In stream_cypher_group_init T1 takes D and one nibble of a byte of the
\* packets' first blocks, T2 the other one; in1 is the high nibble.
TurnedIn(g, row, turn, all) ==
  LET i   == turn \div 4
      in1 == [b \in 0 .. 3 |-> row[8 * i + 4 + b]]
      in2 == [b \in 0 .. 3 |-> row[8 * i + b]]
  IN  IF turn % 2 = 1 THEN Turned(g, Plus(g.D, in2), in1, all)
                      ELSE Turned(g, Plus(g.D, in1), in2, all)

\* In stream_cypher_group_normal a turn makes two rows of the output.
RowsMade(turn, D) ==
  LET high == 8 * (turn \div 4) + 7 - 2 * (turn % 4)
  IN  [r \in {high, high - 1} |-> IF r = high THEN D[2] ^^ D[3] ELSE D[0] ^^ D[1]]
=============================================================================
