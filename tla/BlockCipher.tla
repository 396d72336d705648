----------------------------- MODULE BlockCipher -----------------------------
(***************************************************************************)
(* The CSA block decypher of FFdecsa.c: its key schedule, and its rounds   *)
(* for a group of packets, with eight registers of a byte for each packet. *)
(* As in CsaTables, bytes and memory are the sets of their bits.           *)
(***************************************************************************)
EXTENDS CsaTables

BitsOf == [v \in 0 .. 255 |-> {k \in 0 .. 7 : (v \div 2 ^ k) % 2 = 1}]
Number(byte) ==
  LET of(k) == IF k \in byte THEN 2 ^ k ELSE 0
  IN  of(0) + of(1) + of(2) + of(3) + of(4) + of(5) + of(6) + of(7)

Added(a, b) == (a \cup b) \ (a \cap b)
-----------------------------------------------------------------------------
KeyPerm == <<
  18, 36,  9,  7, 42, 49, 29, 21, 28, 54, 62, 50, 19, 33, 59, 64,
  24, 20, 37, 39,  2, 53, 27,  1, 34,  4, 13, 14, 57, 40, 26, 41,
  51, 35, 52, 12, 22, 48, 30, 58, 45, 31,  8, 25, 23, 47, 61, 17,
  60,  5, 56, 43, 11,  6, 10, 44, 32, 63, 46, 15,  3, 38, 16, 55 >>

\* csa_block_perm: where the bits of a byte go when the ECM's nibble is 4.
IcamPerm == <<1, 7, 5, 2, 6, 0, 3, 4>>
IcamBytes == {0, 4}

\* A step of the schedule moves all 64 bits, counted from the top of byte 0.
FromTop(x) == (8 * (x \div 8)) + 7 - (x % 8)
Permuted(kb) == {FromTop(KeyPerm[FromTop(x) + 1] - 1) : x \in kb}

\* Two bytes of an iCAM control word are permuted first.
Icam(ck, ecm) ==
  IF ecm = 4
    THEN {IF x \div 8 \in IcamBytes THEN (8 * (x \div 8)) + IcamPerm[(x % 8) + 1] ELSE x : x \in ck}
    ELSE ck
KeySchedule_IcamAlways(ck, ecm) ==
  LET kb[i \in 0 .. 6] == IF i = 6 THEN Icam(ck, 4) ELSE Permuted(kb[i + 1])
  IN  [k \in 0 .. 55 |-> Added(Byte(kb[k \div 8], k % 8), BitsOf[k \div 8])]

\* key_schedule_block: 56 bytes from the control word.
KeySchedule(ck, ecm) ==
  LET kb[i \in 0 .. 6] == IF i = 6 THEN Icam(ck, ecm) ELSE Permuted(kb[i + 1])
  IN  [k \in 0 .. 55 |-> Added(Byte(kb[k \div 8], k % 8), BitsOf[k \div 8])]
-----------------------------------------------------------------------------
BlockSBox == <<
   58, 234, 104, 254,  51, 233, 136,  26, 131, 207, 225, 127, 186, 226,  56,  18,
  232,  39,  97, 149,  12,  54, 229, 112, 162,   6, 130, 124,  23, 163,  38,  73,
  190, 122, 109,  71, 193,  81, 143, 243, 204,  91, 103, 189, 205,  24,   8, 201,
  255, 105, 239,   3,  78,  72,  74, 132,  63, 180,  16,   4, 220, 245,  92, 198,
   22, 171, 172,  76, 241, 106,  47,  60,  59, 212, 213, 148, 208, 196,  99,  98,
  113, 161, 249,  79,  46, 170, 197,  86, 227,  57, 147, 206, 101, 100, 228,  88,
  108,  25,  66, 121, 221, 238, 150, 246, 138, 236,  30, 133,  83,  69, 222, 187,
  126,  10, 154,  19,  42, 157, 194,  94,  90,  31,  50,  53, 156, 168, 115,  48,
   41,  61, 231, 146, 135,  27,  43,  75, 165,  87, 151,  64,  21, 230, 188,  14,
  235, 195,  52,  45, 184,  68,  37, 164,  28, 199,  35, 237, 144, 110,  80,   0,
  153, 158,  77, 217, 218, 141, 111,  95,  62, 215,  33, 116, 134, 223, 107,   5,
  142,  93,  55,  17, 210,  40, 117, 214, 167, 119,  36, 191, 240, 176,   2, 183,
  248, 252, 129,   9, 177,   1, 118, 145, 125,  15, 200, 160, 242, 203, 120,  96,
  209, 247, 224, 181, 152,  34, 179,  32,  29, 166, 219, 123,  89, 159, 174,  49,
  251, 211, 182, 202,  67, 114,   7, 244, 216,  65,  20,  85,  13,  84, 139, 185,
  173,  70,  11, 175, 128,  82,  44, 250, 140, 137, 102, 253, 178, 169, 155, 192 >>
Substituted(byte) == BitsOf[BlockSBox[Number(byte) + 1]]

\* The bits are permuted in a batch of bytes at once, in words of so many bits:
\* what would be shifted over the edge of a byte is masked before.
WordBits(w) == IF w = 32 THEN 32 ELSE 64
Shifted(w, row, mask, k) ==
  {x + k : x \in {x \in row : /\ x % 8 \in mask
                              /\ (x + k) \div WordBits(w) = x \div WordBits(w)}}
BatchPermuted(w, row) ==
  Shifted(w, row, {0, 3, 5}, 1) \cup Shifted(w, row, {1}, 6)
    \cup Shifted(w, row, {2}, 3) \cup Shifted(w, row, {4}, -2)
    \cup Shifted(w, row, {6}, -6) \cup Shifted(w, row, {7}, -4)

\* One of the 56 rounds: the registers shift, and the new register 0 and the
\* permuted output of the S-box are added to some of them.
Round(w, r, k) ==
  LET sboxOut == UNION {{8 * g + b : b \in Substituted(Added(k, Byte(r[7], g)))} :
                          g \in 0 .. w - 1}
      new     == Added(r[8], sboxOut)
  IN  <<new, r[1], Added(r[2], new), Added(r[3], new), Added(r[4], new), r[5],
        Added(r[6], BatchPermuted(w, sboxOut)), r[7]>>

\* block_decypher_group: rounds kk[55] to kk[0].
Registers(w, kk, blocks, count, stack) ==
  LET mem   == trasp_N_8(w, blocks, count, stack)
      after[i \in 0 .. 56] ==
        IF i = 56
          THEN <<Row(8 * w, mem, 0), Row(8 * w, mem, 1), Row(8 * w, mem, 2),
                 Row(8 * w, mem, 3), Row(8 * w, mem, 4), Row(8 * w, mem, 5),
                 Row(8 * w, mem, 6), Row(8 * w, mem, 7)>>
          ELSE Round(w, after[i + 1], kk[i])
  IN  after[0]
block_decypher_group(w, kk, blocks, count, stack) ==
  LET r == Registers(w, kk, blocks, count, stack)
  IN  trasp_8_N(w, UNION {{8 * w * (j - 1) + x : x \in r[j]} : j \in 1 .. 8}, count)
-----------------------------------------------------------------------------
(* The same for one packet, as the loops that are switched off in          *)
(* FFdecsa.c have it, one byte by one.                                     *)

PermutedByte(byte) == {(<<1, 7, 5, 4, 2, 6, 0, 3>>)[k + 1] : k \in byte}

OneRound(r, k) ==
  LET s   == Substituted(Added(k, r[7]))
      new == Added(r[8], s)
  IN  <<new, r[1], Added(r[2], new), Added(r[3], new), Added(r[4], new), r[5],
        Added(r[6], PermutedByte(s)), r[7]>>

DecypheredAlone(kk, block) ==
  LET after[i \in 0 .. 56] ==
        IF i = 56 THEN <<Byte(block, 0), Byte(block, 1), Byte(block, 2), Byte(block, 3),
                         Byte(block, 4), Byte(block, 5), Byte(block, 6), Byte(block, 7)>>
                  ELSE OneRound(after[i + 1], kk[i])
      r == after[0]
  IN  UNION {{8 * (j - 1) + b : b \in r[j]} : j \in 1 .. 8}
=============================================================================
