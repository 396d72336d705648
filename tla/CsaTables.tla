------------------------------ MODULE CsaTables ------------------------------
(***************************************************************************)
(* The memory layouts of FFdecsa: how the blocks of w packets become the   *)
(* rows of the bit slices and of the byte registers, and back.             *)
(*                                                                         *)
(* Memory is the set of its bits that are 1; bit b of byte k is 8k + b, on *)
(* a little-endian machine of a row of w bits as of one of bytes.  A block *)
(* has 64 bits, a table of the slices 64 rows.                             *)
(***************************************************************************)
EXTENDS Integers, Sequences

Widths == {32, 64, 128}        \* GROUP_PARALLELISM of the builds

Row(w, table, r) == {x \in 0 .. w - 1 : r * w + x \in table}
Byte(block, k)   == Row(8, block, k)

Has(v, d) == (v \div d) % 2 = 1
With(v, d, set) == v + (IF set THEN d ELSE 0) - (IF Has(v, d) THEN d ELSE 0)
-----------------------------------------------------------------------------
(* A stage of distance d works on the rows r and r + d in pairs, and in    *)
(* them on the columns x and x + d: the four cells of each such square     *)
(* are exchanged across, or turned.                                        *)

Exchange(w, d, table) ==
  {LET r == at \div w  x == at % w
   IN  w * With(r, d, Has(x, d)) + With(x, d, Has(r, d)) : at \in table}

TurnCcw(w, d, table) ==
  {LET r == at \div w  x == at % w
   IN  w * With(r, d, Has(x, d)) + With(x, d, ~Has(r, d)) : at \in table}

TurnCw(w, d, table) ==
  {LET r == at \div w  x == at % w
   IN  w * With(r, d, ~Has(x, d)) + With(x, d, Has(r, d)) : at \in table}

\* The bytes are transposed, then squares of 8 by 8 bits are turned.  With 32
\* columns the halves of the rows stay apart.
BytesTransposed(w, table) ==
  LET halves == IF w = 32 THEN table ELSE Exchange(w, 32, table)
  IN  Exchange(w, 8, Exchange(w, 16, halves))

trasp64_88ccw(w, table) ==
  TurnCcw(w, 1, TurnCcw(w, 2, TurnCcw(w, 4, BytesTransposed(w, table))))
trasp64_88cw_Ccw(w, table) == trasp64_88ccw(w, table)
trasp64_88cw(w, table) ==
  TurnCw(w, 1, TurnCw(w, 2, TurnCw(w, 4, BytesTransposed(w, table))))

\* Where byte k of packet g is in a table: 32 packets are in two halves.
TableByte(w, g, k) ==
  IF w = 32 THEN (4 * (g + 32 * (k \div 4))) + (k % 4) ELSE 8 * g + k

\* FFTABLEIN for the packets, FFTABLEOUT for one.
TableIn(w, blocks) ==
  UNION {{8 * TableByte(w, g, x \div 8) + (x % 8) : x \in blocks[g]} : g \in DOMAIN blocks}
TableOut(w, table, g) ==
  {x \in 0 .. 63 : 8 * TableByte(w, g, x \div 8) + (x % 8) \in table}
-----------------------------------------------------------------------------
(* The registers of the block cypher: eight rows of one byte per packet.   *)

\* The same exchange, of bytes.
ExchangeBytes(w, d, mem) ==
  {LET byte == at \div 8  r == byte \div w  x == byte % w
   IN  8 * (w * With(r, d, Has(x, d)) + With(x, d, Has(r, d))) + (at % 8) : at \in mem}

\* The first four bytes of the packets fill the upper rows one after the other,
\* the last four bytes the lower rows.
Filled(w, g, x) == 32 * (g + w * (x \div 32)) + (x % 32)

\* Only "count" packets are copied: the others' bytes are what the stack had.
trasp_N_8(w, blocks, count, stack) ==
  LET block(g) == IF g < count THEN blocks[g] ELSE stack
  IN  ExchangeBytes(w, 1, ExchangeBytes(w, 2,
        UNION {{Filled(w, g, x) : x \in block(g)} : g \in 0 .. w - 1}))

trasp_8_N(w, mem, count) ==
  LET rows == ExchangeBytes(w, 2, ExchangeBytes(w, 1, mem))
  IN  [g \in 0 .. count - 1 |-> {x \in 0 .. 63 : Filled(w, g, x) \in rows}]
=============================================================================
