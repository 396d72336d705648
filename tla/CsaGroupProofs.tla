---------------------------- MODULE CsaGroupProofs ----------------------------
(***************************************************************************)
(* Proofs about CsaGroup, for every group of packets, every key and every  *)
(* width of the build: decrypt_packets decrypts each packet as if it were  *)
(* alone, and its stream cypher does in the lane of each packet what the   *)
(* tables of the cypher do for that packet.                                *)
(*                                                                         *)
(* The bits of a packet are followed through the transpositions into the   *)
(* slices and the registers and back; the block cypher of a group is shown *)
(* to do for each packet what it does for one; and an inductive invariant  *)
(* of decrypt_packets puts the iterations together.  For the stream cypher *)
(* a turn of the slices is compared, lane by lane, with a move of the      *)
(* table form: each circuit of an S-box with its table, the carries with a *)
(* sum, the rotation and the shifts with those of a nibble.                *)
(***************************************************************************)
EXTENDS CsaGroup, NatRecursion, FiniteSetTheorems, TLAPS

-----------------------------------------------------------------------------
(* Cells of the table and the stages of a transposition.                   *)

Distances == {1, 2, 4, 8, 16, 32}
Bit == {0, 1}

\* A number by its bit of value d, and what is above and below it.
Split(d, h, c, l) == 2 * d * h + d * c + l

(* A cell is in its row and column.                                        *)
LEMMA CellParts ==
  ASSUME NEW w \in Widths, NEW r \in Nat, NEW x \in 0 .. w - 1
  PROVE  (w * r + x) \div w = r /\ (w * r + x) % w = x
<1>1. CASE w = 32
  BY <1>1
<1>2. CASE w = 64
  BY <1>2
<1>3. CASE w = 128
  BY <1>3
<1>. QED BY <1>1, <1>2, <1>3 DEF Widths

(* The bit of a number, and the number with another one.                   *)
LEMMA SplitHas ==
  ASSUME NEW d \in Distances, NEW h \in Nat, NEW c \in Bit, NEW l \in 0 .. d - 1
  PROVE  Has(Split(d, h, c, l), d) <=> c = 1
<1>1. CASE d = 1
  BY <1>1 DEF Has, Split, Bit
<1>2. CASE d = 2
  BY <1>2 DEF Has, Split, Bit
<1>3. CASE d = 4
  BY <1>3 DEF Has, Split, Bit
<1>4. CASE d = 8
  BY <1>4 DEF Has, Split, Bit
<1>5. CASE d = 16
  BY <1>5 DEF Has, Split, Bit
<1>6. CASE d = 32
  BY <1>6 DEF Has, Split, Bit
<1>. QED BY <1>1, <1>2, <1>3, <1>4, <1>5, <1>6 DEF Distances

(* Every number is taken apart at a bit.                                   *)
LEMMA SplitOf ==
  ASSUME NEW d \in Distances, NEW v \in Nat
  PROVE  \E h \in Nat, c \in Bit, l \in 0 .. d - 1 : v = Split(d, h, c, l)
<1>. DEFINE h == v \div (2 * d)
            c == (v \div d) % 2
            l == v % d
<1>. SUFFICES h \in Nat /\ c \in Bit /\ l \in 0 .. d - 1 /\ v = Split(d, h, c, l)
  OBVIOUS
<1>1. CASE d = 1
  BY <1>1 DEF Split, Bit
<1>2. CASE d = 2
  BY <1>2 DEF Split, Bit
<1>3. CASE d = 4
  BY <1>3 DEF Split, Bit
<1>4. CASE d = 8
  BY <1>4 DEF Split, Bit
<1>5. CASE d = 16
  BY <1>5 DEF Split, Bit
<1>6. CASE d = 32
  BY <1>6 DEF Split, Bit
<1>. QED BY <1>1, <1>2, <1>3, <1>4, <1>5, <1>6 DEF Distances

\* A stage of distance d works on n columns.
Fits(n, d) == d \in Distances /\ n \in Widths /\ (n = 32 => d # 32)

(* Another bit does not lead out of the rows or columns.                   *)
LEMMA SplitBound ==
  ASSUME NEW n, NEW d, Fits(n, d), NEW h \in Nat, NEW c \in Bit, NEW l \in 0 .. d - 1,
         NEW b \in Bit, Split(d, h, c, l) < n
  PROVE  Split(d, h, b, l) \in 0 .. n - 1
<1>. USE DEF Split, Bit, Widths
<1>0. d \in Distances /\ n \in {32, 64, 128} /\ (n = 32 => d # 32)
  BY DEF Fits
<1>1. CASE d = 1
  BY <1>1, <1>0 DEF Split
<1>2. CASE d = 2
  BY <1>2, <1>0 DEF Split
<1>3. CASE d = 4
  BY <1>3, <1>0 DEF Split
<1>4. CASE d = 8
  BY <1>4, <1>0 DEF Split
<1>5. CASE d = 16
  BY <1>5, <1>0 DEF Split
<1>6. CASE d = 32
  BY <1>6, <1>0 DEF Split
<1>. QED BY <1>0, <1>1, <1>2, <1>3, <1>4, <1>5, <1>6 DEF Distances

(* Another value of the bit.                                               *)
LEMMA SplitChanged ==
  ASSUME NEW d \in Distances, NEW h \in Nat, NEW c \in Bit, NEW l \in 0 .. d - 1,
         NEW b \in Bit
  PROVE  /\ Split(d, h, c, l) + (IF b = 1 THEN d ELSE 0) - (IF c = 1 THEN d ELSE 0)
              = Split(d, h, b, l)
         /\ Split(d, h, c, l) + (IF b = 1 THEN 0 ELSE d) - (IF c = 1 THEN d ELSE 0)
              = Split(d, h, 1 - b, l)
<1>1. CASE d = 1
  BY <1>1 DEF Split, Bit
<1>2. CASE d = 2
  BY <1>2 DEF Split, Bit
<1>3. CASE d = 4
  BY <1>3 DEF Split, Bit
<1>4. CASE d = 8
  BY <1>4 DEF Split, Bit
<1>5. CASE d = 16
  BY <1>5 DEF Split, Bit
<1>6. CASE d = 32
  BY <1>6 DEF Split, Bit
<1>. QED BY <1>1, <1>2, <1>3, <1>4, <1>5, <1>6 DEF Distances

\* Where a stage moves a cell.
Exchanged(w, d, at) ==
  LET r == at \div w  x == at % w
  IN  w * With(r, d, Has(x, d)) + With(x, d, Has(r, d))
TurnedCcw(w, d, at) ==
  LET r == at \div w  x == at % w
  IN  w * With(r, d, Has(x, d)) + With(x, d, ~Has(r, d))
TurnedCw(w, d, at) ==
  LET r == at \div w  x == at % w
  IN  w * With(r, d, ~Has(x, d)) + With(x, d, Has(r, d))

(* A cell whose row and column are taken apart.                            *)
LEMMA CellMoves ==
  ASSUME NEW w \in Widths, NEW d, Fits(w, d),
         NEW h \in Nat, NEW c \in Bit, NEW l \in 0 .. d - 1,
         NEW i \in Nat, NEW e \in Bit, NEW m \in 0 .. d - 1, Split(d, i, e, m) < w
  PROVE  LET at == w * Split(d, h, c, l) + Split(d, i, e, m)
         IN  /\ Exchanged(w, d, at) = w * Split(d, h, e, l) + Split(d, i, c, m)
             /\ TurnedCcw(w, d, at) = w * Split(d, h, e, l) + Split(d, i, 1 - c, m)
             /\ TurnedCw(w, d, at)  = w * Split(d, h, 1 - e, l) + Split(d, i, c, m)
<1>. DEFINE r == Split(d, h, c, l)
            x == Split(d, i, e, m)
            at == w * r + x
<1>0. d \in Distances
  BY DEF Fits
<1>1. r \in Nat /\ x \in 0 .. w - 1
  <2>1. r \in Nat /\ x \in Nat
    <3>1. CASE d = 1
      BY <3>1 DEF Split, Bit
    <3>2. CASE d = 2
      BY <3>2 DEF Split, Bit
    <3>3. CASE d = 4
      BY <3>3 DEF Split, Bit
    <3>4. CASE d = 8
      BY <3>4 DEF Split, Bit
    <3>5. CASE d = 16
      BY <3>5 DEF Split, Bit
    <3>6. CASE d = 32
      BY <3>6 DEF Split, Bit
    <3>. QED BY <1>0, <3>1, <3>2, <3>3, <3>4, <3>5, <3>6 DEF Distances
  <2>. HIDE DEF r
  <2>. QED BY <2>1 DEF Widths
<1>2. (Has(r, d) <=> c = 1) /\ (Has(x, d) <=> e = 1)
  BY <1>0, SplitHas
<1>3. /\ r + (IF e = 1 THEN d ELSE 0) - (IF c = 1 THEN d ELSE 0) = Split(d, h, e, l)
      /\ r + (IF e = 1 THEN 0 ELSE d) - (IF c = 1 THEN d ELSE 0) = Split(d, h, 1 - e, l)
      /\ x + (IF c = 1 THEN d ELSE 0) - (IF e = 1 THEN d ELSE 0) = Split(d, i, c, m)
      /\ x + (IF c = 1 THEN 0 ELSE d) - (IF e = 1 THEN d ELSE 0) = Split(d, i, 1 - c, m)
  BY <1>0, SplitChanged
<1>. HIDE DEF r, x
<1>4. at \div w = r /\ at % w = x
  BY <1>1, CellParts
<1>. HIDE DEF at
<1>5. /\ With(r, d, Has(x, d)) = Split(d, h, e, l)
      /\ With(r, d, ~Has(x, d)) = Split(d, h, 1 - e, l)
      /\ With(x, d, Has(r, d)) = Split(d, i, c, m)
      /\ With(x, d, ~Has(r, d)) = Split(d, i, 1 - c, m)
  BY <1>2, <1>3 DEF With
<1>6. /\ Exchanged(w, d, at) = w * Split(d, h, e, l) + Split(d, i, c, m)
      /\ TurnedCcw(w, d, at) = w * Split(d, h, e, l) + Split(d, i, 1 - c, m)
      /\ TurnedCw(w, d, at)  = w * Split(d, h, 1 - e, l) + Split(d, i, c, m)
  BY <1>4, <1>5 DEF Exchanged, TurnedCcw, TurnedCw
<1>. QED BY <1>6 DEF at, r, x

Cells(w) == 0 .. 64 * w - 1

(* Every cell has a row and a column.                                      *)
LEMMA CellOf ==
  ASSUME NEW w \in Widths, NEW at \in Cells(w)
  PROVE  \E r \in 0 .. 63, x \in 0 .. w - 1 : at = w * r + x
<1>1. CASE w = 32
  <2>1. at \div 32 \in 0 .. 63 /\ at % 32 \in 0 .. 31 /\ at = 32 * (at \div 32) + (at % 32)
    BY <1>1 DEF Cells
  <2>. QED BY <1>1, <2>1
<1>2. CASE w = 64
  <2>1. at \div 64 \in 0 .. 63 /\ at % 64 \in 0 .. 63 /\ at = 64 * (at \div 64) + (at % 64)
    BY <1>2 DEF Cells
  <2>. QED BY <1>2, <2>1
<1>3. CASE w = 128
  <2>1. at \in 0 .. 8191
    BY <1>3 DEF Cells
  <2>2. at \div 128 \in 0 .. 63
    BY <2>1
  <2>3. at % 128 \in 0 .. 127
    BY <2>1
  <2>4. at = 128 * (at \div 128) + (at % 128)
    BY <2>1
  <2>. QED BY <1>3, <2>2, <2>3, <2>4
<1>. QED BY <1>1, <1>2, <1>3 DEF Widths

(* Every row and column has a cell.                                        *)
LEMMA CellIn ==
  ASSUME NEW w \in Widths, NEW r \in 0 .. 63, NEW x \in 0 .. w - 1
  PROVE  w * r + x \in Cells(w)
BY DEF Widths, Cells

(* A stage and its inverse.                                                *)
LEMMA CellsMoveBack ==
  ASSUME NEW w \in Widths, NEW d, Fits(w, d), NEW at \in Cells(w)
  PROVE  /\ Exchanged(w, d, at) \in Cells(w) /\ Exchanged(w, d, Exchanged(w, d, at)) = at
         /\ TurnedCcw(w, d, at) \in Cells(w) /\ TurnedCw(w, d, TurnedCcw(w, d, at)) = at
         /\ TurnedCw(w, d, at) \in Cells(w) /\ TurnedCcw(w, d, TurnedCw(w, d, at)) = at
<1>0. d \in Distances /\ Fits(64, d)
  BY DEF Fits, Widths
<1>1. PICK r \in 0 .. 63, x \in 0 .. w - 1 : at = w * r + x
  BY CellOf
<1>2. r \in Nat /\ x \in Nat
  BY <1>1 DEF Widths
<1>3. PICK h \in Nat, c \in Bit, l \in 0 .. d - 1 : r = Split(d, h, c, l)
  BY <1>0, <1>2, SplitOf
<1>4. PICK i \in Nat, e \in Bit, m \in 0 .. d - 1 : x = Split(d, i, e, m)
  BY <1>0, <1>2, SplitOf
<1>5. /\ Split(d, h, c, l) < 64 /\ Split(d, i, e, m) < w
  <2>1. r < 64 /\ x < w
    BY <1>1 DEF Widths
  <2>. QED BY <1>3, <1>4, <2>1
<1>6. \A b \in Bit : Split(d, h, b, l) \in 0 .. 63 /\ Split(d, i, b, m) \in 0 .. w - 1
  <2>. SUFFICES ASSUME NEW b \in Bit
                PROVE  Split(d, h, b, l) \in 0 .. 63 /\ Split(d, i, b, m) \in 0 .. w - 1
    OBVIOUS
  <2>1. Split(d, h, b, l) \in 0 .. 64 - 1
    BY <1>0, <1>5, SplitBound
  <2>2. Split(d, i, b, m) \in 0 .. w - 1
    BY <1>0, <1>5, SplitBound
  <2>. QED BY <2>1, <2>2
<1>7. \A a \in Bit, b \in Bit :
        LET cell == w * Split(d, h, a, l) + Split(d, i, b, m)
        IN  /\ Exchanged(w, d, cell) = w * Split(d, h, b, l) + Split(d, i, a, m)
            /\ TurnedCcw(w, d, cell) = w * Split(d, h, b, l) + Split(d, i, 1 - a, m)
            /\ TurnedCw(w, d, cell)  = w * Split(d, h, 1 - b, l) + Split(d, i, a, m)
  <2>1. \A b \in Bit : Split(d, i, b, m) < w
    BY <1>6 DEF Widths
  <2>. QED BY <2>1, CellMoves
<1>8. \A a \in Bit : 1 - a \in Bit /\ 1 - (1 - a) = a
  BY DEF Bit
<1>. DEFINE cell(a, b) == w * Split(d, h, a, l) + Split(d, i, b, m)
<1>9. \A a \in Bit, b \in Bit :
        /\ Exchanged(w, d, cell(a, b)) = cell(b, a)
        /\ TurnedCcw(w, d, cell(a, b)) = cell(b, 1 - a)
        /\ TurnedCw(w, d, cell(a, b)) = cell(1 - b, a)
  BY <1>7
<1>10. \A a \in Bit, b \in Bit : cell(a, b) \in Cells(w)
  BY <1>6, CellIn
<1>11. at = cell(c, e)
  BY <1>1, <1>3, <1>4
<1>. HIDE DEF cell
<1>12. /\ Exchanged(w, d, at) = cell(e, c) /\ TurnedCcw(w, d, at) = cell(e, 1 - c)
       /\ TurnedCw(w, d, at) = cell(1 - e, c)
  BY <1>9, <1>11
<1>13. /\ Exchanged(w, d, cell(e, c)) = at
       /\ TurnedCw(w, d, cell(e, 1 - c)) = at
       /\ TurnedCcw(w, d, cell(1 - e, c)) = at
  BY <1>8, <1>9, <1>11
<1>. QED BY <1>8, <1>10, <1>12, <1>13

(* A cell is in the table after a stage if the cell it came from was in it. *)
LEMMA TableMoves ==
  ASSUME NEW w \in Widths, NEW d, Fits(w, d), NEW table \in SUBSET Cells(w)
  PROVE  /\ Exchange(w, d, table) \in SUBSET Cells(w)
         /\ TurnCcw(w, d, table) \in SUBSET Cells(w)
         /\ TurnCw(w, d, table) \in SUBSET Cells(w)
         /\ \A at \in Cells(w) :
              /\ at \in Exchange(w, d, table) <=> Exchanged(w, d, at) \in table
              /\ at \in TurnCcw(w, d, table) <=> TurnedCw(w, d, at) \in table
              /\ at \in TurnCw(w, d, table) <=> TurnedCcw(w, d, at) \in table
<1>1. /\ Exchange(w, d, table) = {Exchanged(w, d, at) : at \in table}
      /\ TurnCcw(w, d, table) = {TurnedCcw(w, d, at) : at \in table}
      /\ TurnCw(w, d, table) = {TurnedCw(w, d, at) : at \in table}
  BY DEF Exchange, TurnCcw, TurnCw, Exchanged, TurnedCcw, TurnedCw
<1>2. \A at \in table : at \in Cells(w)
  OBVIOUS
<1>3. /\ Exchange(w, d, table) \in SUBSET Cells(w)
      /\ \A at \in Cells(w) : at \in Exchange(w, d, table) <=> Exchanged(w, d, at) \in table
  <2>1. \A at \in Cells(w) :
          Exchanged(w, d, at) \in Cells(w) /\ Exchanged(w, d, Exchanged(w, d, at)) = at
    BY CellsMoveBack
  <2>. QED BY <1>1, <1>2, <2>1
<1>4. /\ TurnCcw(w, d, table) \in SUBSET Cells(w)
      /\ \A at \in Cells(w) : at \in TurnCcw(w, d, table) <=> TurnedCw(w, d, at) \in table
  <2>1. \A at \in Cells(w) :
          /\ TurnedCcw(w, d, at) \in Cells(w) /\ TurnedCw(w, d, TurnedCcw(w, d, at)) = at
          /\ TurnedCcw(w, d, TurnedCw(w, d, at)) = at
    BY CellsMoveBack
  <2>. QED BY <1>1, <1>2, <2>1
<1>5. /\ TurnCw(w, d, table) \in SUBSET Cells(w)
      /\ \A at \in Cells(w) : at \in TurnCw(w, d, table) <=> TurnedCcw(w, d, at) \in table
  <2>1. \A at \in Cells(w) :
          /\ TurnedCw(w, d, at) \in Cells(w) /\ TurnedCcw(w, d, TurnedCw(w, d, at)) = at
          /\ TurnedCw(w, d, TurnedCcw(w, d, at)) = at
    BY CellsMoveBack
  <2>. QED BY <1>1, <1>2, <2>1
<1>. QED BY <1>3, <1>4, <1>5

\* Cells by their rows and columns.
At(w, r, x) == w * r + x

Bits(a6, a5, a4, a3, a2, a1, a0) ==
  64 * a6 + 32 * a5 + 16 * a4 + 8 * a3 + 4 * a2 + 2 * a1 + a0
-----------------------------------------------------------------------------
(* trasp64_88cw after trasp64_88ccw: where a bit of a packet is in the     *)
(* slices.                                                                 *)

\* Bit x of the block of packet g in a table, and the lane of the packet.
TableCell(w, g, x) == 8 * TableByte(w, g, x \div 8) + (x % 8)
LaneIn(w, g) ==
  LET x == IF w = 128 THEN g \div 2 ELSE g
  IN  8 * (x \div 8) + 7 - (x % 8) + (IF w = 128 THEN 64 * (g % 2) ELSE 0)

\* Where trasp64_88ccw moves a cell, and from where trasp64_88cw moves one.
Forth(w, at) ==
  LET half  == IF w = 32 THEN at ELSE Exchanged(w, 32, at)
      bytes == Exchanged(w, 8, Exchanged(w, 16, half))
  IN  TurnedCcw(w, 1, TurnedCcw(w, 2, TurnedCcw(w, 4, bytes)))
Back(w, at) ==
  LET turned == TurnedCcw(w, 4, TurnedCcw(w, 2, TurnedCcw(w, 1, at)))
      bytes  == Exchanged(w, 16, Exchanged(w, 8, turned))
  IN  IF w = 32 THEN bytes ELSE Exchanged(w, 32, bytes)

(* What is below 64 * w is a cell, without counting them up.               *)
LEMMA CellIs == \A w \in Widths : \A c \in Nat : c < 64 * w => c \in Cells(w)
BY DEF Cells, Widths

(* Groups of 32.                                                          *)
LEMMA SliceOf32 ==
  ASSUME NEW g \in 0 .. 31, NEW x \in 0 .. 63
  PROVE  /\ TableCell(32, g, x) \in Cells(32) /\ LaneIn(32, g) \in 0 .. 31
         /\ Back(32, TableCell(32, g, x)) = 32 * x + LaneIn(32, g)
         /\ Forth(32, TableCell(32, g, x)) = 32 * x + LaneIn(32, g)
<1>. DEFINE g4 == (g \div 16) % 2
            g3 == (g \div 8) % 2
            g2 == (g \div 4) % 2
            g1 == (g \div 2) % 2
            g0 == g % 2
            x5 == (x \div 32) % 2
            x4 == (x \div 16) % 2
            x3 == (x \div 8) % 2
            x2 == (x \div 4) % 2
            x1 == (x \div 2) % 2
            x0 == x % 2
<1>1. /\ g = Bits(0, 0, g4, g3, g2, g1, g0)
      /\ g4 \in Bit /\ g3 \in Bit /\ g2 \in Bit /\ g1 \in Bit /\ g0 \in Bit
  BY DEF Bits, Bit
<1>2. /\ x = Bits(0, x5, x4, x3, x2, x1, x0)
      /\ x5 \in Bit /\ x4 \in Bit /\ x3 \in Bit /\ x2 \in Bit /\ x1 \in Bit /\ x0 \in Bit
  BY DEF Bits, Bit
<1>. HIDE DEF g4, g3, g2, g1, g0, x5, x4, x3, x2, x1, x0
<1>3. TableCell(32, g, x) = At(32, Bits(0, x5, g4, g3, g2, g1, g0), Bits(0, 0, x4, x3, x2, x1, x0))
  BY <1>1, <1>2 DEF At, Bits, Bit, TableCell, TableByte
<1>4. LaneIn(32, g) = Bits(0, 0, g4, g3, 1 - g2, 1 - g1, 1 - g0)
  BY <1>1 DEF Bits, Bit, LaneIn
<1>5. TurnedCcw(32, 1, At(32, Bits(0, x5, g4, g3, g2, g1, g0), Bits(0, 0, x4, x3, x2, x1, x0)))
       = At(32, Bits(0, x5, g4, g3, g2, g1, x0), Bits(0, 0, x4, x3, x2, x1, 1 - g0))
  BY <1>1, <1>2 DEF TurnedCcw, At, With, Has, Bits, Bit
<1>6. TurnedCcw(32, 2, At(32, Bits(0, x5, g4, g3, g2, g1, x0), Bits(0, 0, x4, x3, x2, x1, 1 - g0)))
       = At(32, Bits(0, x5, g4, g3, g2, x1, x0), Bits(0, 0, x4, x3, x2, 1 - g1, 1 - g0))
  BY <1>1, <1>2 DEF TurnedCcw, At, With, Has, Bits, Bit
<1>7. TurnedCcw(32, 4, At(32, Bits(0, x5, g4, g3, g2, x1, x0), Bits(0, 0, x4, x3, x2, 1 - g1, 1 - g0)))
       = At(32, Bits(0, x5, g4, g3, x2, x1, x0), Bits(0, 0, x4, x3, 1 - g2, 1 - g1, 1 - g0))
  BY <1>1, <1>2 DEF TurnedCcw, At, With, Has, Bits, Bit
<1>8. Exchanged(32, 8, At(32, Bits(0, x5, g4, g3, x2, x1, x0), Bits(0, 0, x4, x3, 1 - g2, 1 - g1, 1 - g0)))
       = At(32, Bits(0, x5, g4, x3, x2, x1, x0), Bits(0, 0, x4, g3, 1 - g2, 1 - g1, 1 - g0))
  BY <1>1, <1>2 DEF Exchanged, At, With, Has, Bits, Bit
<1>9. Exchanged(32, 16, At(32, Bits(0, x5, g4, x3, x2, x1, x0), Bits(0, 0, x4, g3, 1 - g2, 1 - g1, 1 - g0)))
       = At(32, Bits(0, x5, x4, x3, x2, x1, x0), Bits(0, 0, g4, g3, 1 - g2, 1 - g1, 1 - g0))
  BY <1>1, <1>2 DEF Exchanged, At, With, Has, Bits, Bit
<1>10. Back(32, TableCell(32, g, x)) = 32 * x + LaneIn(32, g)
  BY <1>2, <1>3, <1>4, <1>5, <1>6, <1>7, <1>8, <1>9 DEF Back, At
<1>11. Exchanged(32, 16, At(32, Bits(0, x5, g4, g3, g2, g1, g0), Bits(0, 0, x4, x3, x2, x1, x0)))
       = At(32, Bits(0, x5, x4, g3, g2, g1, g0), Bits(0, 0, g4, x3, x2, x1, x0))
  BY <1>1, <1>2 DEF Exchanged, At, With, Has, Bits, Bit
<1>12. Exchanged(32, 8, At(32, Bits(0, x5, x4, g3, g2, g1, g0), Bits(0, 0, g4, x3, x2, x1, x0)))
       = At(32, Bits(0, x5, x4, x3, g2, g1, g0), Bits(0, 0, g4, g3, x2, x1, x0))
  BY <1>1, <1>2 DEF Exchanged, At, With, Has, Bits, Bit
<1>13. TurnedCcw(32, 4, At(32, Bits(0, x5, x4, x3, g2, g1, g0), Bits(0, 0, g4, g3, x2, x1, x0)))
       = At(32, Bits(0, x5, x4, x3, x2, g1, g0), Bits(0, 0, g4, g3, 1 - g2, x1, x0))
  BY <1>1, <1>2 DEF TurnedCcw, At, With, Has, Bits, Bit
<1>14. TurnedCcw(32, 2, At(32, Bits(0, x5, x4, x3, x2, g1, g0), Bits(0, 0, g4, g3, 1 - g2, x1, x0)))
       = At(32, Bits(0, x5, x4, x3, x2, x1, g0), Bits(0, 0, g4, g3, 1 - g2, 1 - g1, x0))
  BY <1>1, <1>2 DEF TurnedCcw, At, With, Has, Bits, Bit
<1>15. TurnedCcw(32, 1, At(32, Bits(0, x5, x4, x3, x2, x1, g0), Bits(0, 0, g4, g3, 1 - g2, 1 - g1, x0)))
       = At(32, Bits(0, x5, x4, x3, x2, x1, x0), Bits(0, 0, g4, g3, 1 - g2, 1 - g1, 1 - g0))
  BY <1>1, <1>2 DEF TurnedCcw, At, With, Has, Bits, Bit
<1>16. Forth(32, TableCell(32, g, x)) = 32 * x + LaneIn(32, g)
  BY <1>2, <1>3, <1>4, <1>11, <1>12, <1>13, <1>14, <1>15 DEF Forth, At
<1>17. LaneIn(32, g) \in 0 .. 31 /\ TableCell(32, g, x) \in Cells(32)
  <2>1. LaneIn(32, g) \in 0 .. 31
    BY <1>1 DEF Bits, Bit, LaneIn
  <2>2. TableCell(32, g, x) \in Nat /\ TableCell(32, g, x) < 64 * 32
    BY <1>1, <1>2, <1>3 DEF Bits, Bit, At
  <2>3. 32 \in Widths
    BY DEF Widths
  <2>. QED BY <2>1, <2>2, <2>3, CellIs
<1>. QED BY <1>10, <1>16, <1>17

(* Groups of 64.                                                          *)
LEMMA SliceOf64 ==
  ASSUME NEW g \in 0 .. 63, NEW x \in 0 .. 63
  PROVE  /\ TableCell(64, g, x) \in Cells(64) /\ LaneIn(64, g) \in 0 .. 63
         /\ Back(64, TableCell(64, g, x)) = 64 * x + LaneIn(64, g)
         /\ Forth(64, TableCell(64, g, x)) = 64 * x + LaneIn(64, g)
<1>. DEFINE g5 == (g \div 32) % 2
            g4 == (g \div 16) % 2
            g3 == (g \div 8) % 2
            g2 == (g \div 4) % 2
            g1 == (g \div 2) % 2
            g0 == g % 2
            x5 == (x \div 32) % 2
            x4 == (x \div 16) % 2
            x3 == (x \div 8) % 2
            x2 == (x \div 4) % 2
            x1 == (x \div 2) % 2
            x0 == x % 2
<1>1. /\ g = Bits(0, g5, g4, g3, g2, g1, g0)
      /\ g5 \in Bit /\ g4 \in Bit /\ g3 \in Bit /\ g2 \in Bit /\ g1 \in Bit /\ g0 \in Bit
  BY DEF Bits, Bit
<1>2. /\ x = Bits(0, x5, x4, x3, x2, x1, x0)
      /\ x5 \in Bit /\ x4 \in Bit /\ x3 \in Bit /\ x2 \in Bit /\ x1 \in Bit /\ x0 \in Bit
  BY DEF Bits, Bit
<1>. HIDE DEF g5, g4, g3, g2, g1, g0, x5, x4, x3, x2, x1, x0
<1>3. TableCell(64, g, x) = At(64, Bits(0, g5, g4, g3, g2, g1, g0), Bits(0, x5, x4, x3, x2, x1, x0))
  BY <1>1, <1>2 DEF At, Bits, Bit, TableCell, TableByte
<1>4. LaneIn(64, g) = Bits(0, g5, g4, g3, 1 - g2, 1 - g1, 1 - g0)
  BY <1>1 DEF Bits, Bit, LaneIn
<1>5. TurnedCcw(64, 1, At(64, Bits(0, g5, g4, g3, g2, g1, g0), Bits(0, x5, x4, x3, x2, x1, x0)))
       = At(64, Bits(0, g5, g4, g3, g2, g1, x0), Bits(0, x5, x4, x3, x2, x1, 1 - g0))
  BY <1>1, <1>2, SMTT(30) DEF TurnedCcw, At, With, Has, Bits, Bit
<1>6. TurnedCcw(64, 2, At(64, Bits(0, g5, g4, g3, g2, g1, x0), Bits(0, x5, x4, x3, x2, x1, 1 - g0)))
       = At(64, Bits(0, g5, g4, g3, g2, x1, x0), Bits(0, x5, x4, x3, x2, 1 - g1, 1 - g0))
  BY <1>1, <1>2, SMTT(30) DEF TurnedCcw, At, With, Has, Bits, Bit
<1>7. TurnedCcw(64, 4, At(64, Bits(0, g5, g4, g3, g2, x1, x0), Bits(0, x5, x4, x3, x2, 1 - g1, 1 - g0)))
       = At(64, Bits(0, g5, g4, g3, x2, x1, x0), Bits(0, x5, x4, x3, 1 - g2, 1 - g1, 1 - g0))
  BY <1>1, <1>2, SMTT(30) DEF TurnedCcw, At, With, Has, Bits, Bit
<1>8. Exchanged(64, 8, At(64, Bits(0, g5, g4, g3, x2, x1, x0), Bits(0, x5, x4, x3, 1 - g2, 1 - g1, 1 - g0)))
       = At(64, Bits(0, g5, g4, x3, x2, x1, x0), Bits(0, x5, x4, g3, 1 - g2, 1 - g1, 1 - g0))
  BY <1>1, <1>2 DEF Exchanged, At, With, Has, Bits, Bit
<1>9. Exchanged(64, 16, At(64, Bits(0, g5, g4, x3, x2, x1, x0), Bits(0, x5, x4, g3, 1 - g2, 1 - g1, 1 - g0)))
       = At(64, Bits(0, g5, x4, x3, x2, x1, x0), Bits(0, x5, g4, g3, 1 - g2, 1 - g1, 1 - g0))
  BY <1>1, <1>2 DEF Exchanged, At, With, Has, Bits, Bit
<1>10. Exchanged(64, 32, At(64, Bits(0, g5, x4, x3, x2, x1, x0), Bits(0, x5, g4, g3, 1 - g2, 1 - g1, 1 - g0)))
       = At(64, Bits(0, x5, x4, x3, x2, x1, x0), Bits(0, g5, g4, g3, 1 - g2, 1 - g1, 1 - g0))
  BY <1>1, <1>2 DEF Exchanged, At, With, Has, Bits, Bit
<1>11. Back(64, TableCell(64, g, x)) = 64 * x + LaneIn(64, g)
  BY <1>2, <1>3, <1>4, <1>5, <1>6, <1>7, <1>8, <1>9, <1>10 DEF Back, At
<1>12. Exchanged(64, 32, At(64, Bits(0, g5, g4, g3, g2, g1, g0), Bits(0, x5, x4, x3, x2, x1, x0)))
       = At(64, Bits(0, x5, g4, g3, g2, g1, g0), Bits(0, g5, x4, x3, x2, x1, x0))
  BY <1>1, <1>2 DEF Exchanged, At, With, Has, Bits, Bit
<1>13. Exchanged(64, 16, At(64, Bits(0, x5, g4, g3, g2, g1, g0), Bits(0, g5, x4, x3, x2, x1, x0)))
       = At(64, Bits(0, x5, x4, g3, g2, g1, g0), Bits(0, g5, g4, x3, x2, x1, x0))
  BY <1>1, <1>2 DEF Exchanged, At, With, Has, Bits, Bit
<1>14. Exchanged(64, 8, At(64, Bits(0, x5, x4, g3, g2, g1, g0), Bits(0, g5, g4, x3, x2, x1, x0)))
       = At(64, Bits(0, x5, x4, x3, g2, g1, g0), Bits(0, g5, g4, g3, x2, x1, x0))
  BY <1>1, <1>2 DEF Exchanged, At, With, Has, Bits, Bit
<1>15. TurnedCcw(64, 4, At(64, Bits(0, x5, x4, x3, g2, g1, g0), Bits(0, g5, g4, g3, x2, x1, x0)))
       = At(64, Bits(0, x5, x4, x3, x2, g1, g0), Bits(0, g5, g4, g3, 1 - g2, x1, x0))
  BY <1>1, <1>2, SMTT(30) DEF TurnedCcw, At, With, Has, Bits, Bit
<1>16. TurnedCcw(64, 2, At(64, Bits(0, x5, x4, x3, x2, g1, g0), Bits(0, g5, g4, g3, 1 - g2, x1, x0)))
       = At(64, Bits(0, x5, x4, x3, x2, x1, g0), Bits(0, g5, g4, g3, 1 - g2, 1 - g1, x0))
  BY <1>1, <1>2, SMTT(30) DEF TurnedCcw, At, With, Has, Bits, Bit
<1>17. TurnedCcw(64, 1, At(64, Bits(0, x5, x4, x3, x2, x1, g0), Bits(0, g5, g4, g3, 1 - g2, 1 - g1, x0)))
       = At(64, Bits(0, x5, x4, x3, x2, x1, x0), Bits(0, g5, g4, g3, 1 - g2, 1 - g1, 1 - g0))
  BY <1>1, <1>2, SMTT(30) DEF TurnedCcw, At, With, Has, Bits, Bit
<1>18. Forth(64, TableCell(64, g, x)) = 64 * x + LaneIn(64, g)
  BY <1>2, <1>3, <1>4, <1>12, <1>13, <1>14, <1>15, <1>16, <1>17 DEF Forth, At
<1>19. LaneIn(64, g) \in 0 .. 63 /\ TableCell(64, g, x) \in Cells(64)
  <2>1. LaneIn(64, g) \in 0 .. 63
    BY <1>1 DEF Bits, Bit, LaneIn
  <2>2. TableCell(64, g, x) \in Nat /\ TableCell(64, g, x) < 64 * 64
    BY <1>1, <1>2, <1>3 DEF Bits, Bit, At
  <2>3. 64 \in Widths
    BY DEF Widths
  <2>. QED BY <2>1, <2>2, <2>3, CellIs
<1>. QED BY <1>11, <1>18, <1>19

(* Groups of 128.                                                          *)
LEMMA SliceOf128 ==
  ASSUME NEW g \in 0 .. 127, NEW x \in 0 .. 63
  PROVE  /\ TableCell(128, g, x) \in Cells(128) /\ LaneIn(128, g) \in 0 .. 127
         /\ Back(128, TableCell(128, g, x)) = 128 * x + LaneIn(128, g)
         /\ Forth(128, TableCell(128, g, x)) = 128 * x + LaneIn(128, g)
<1>. DEFINE g6 == (g \div 64) % 2
            g5 == (g \div 32) % 2
            g4 == (g \div 16) % 2
            g3 == (g \div 8) % 2
            g2 == (g \div 4) % 2
            g1 == (g \div 2) % 2
            g0 == g % 2
            x5 == (x \div 32) % 2
            x4 == (x \div 16) % 2
            x3 == (x \div 8) % 2
            x2 == (x \div 4) % 2
            x1 == (x \div 2) % 2
            x0 == x % 2
<1>1. /\ g = Bits(g6, g5, g4, g3, g2, g1, g0)
      /\ g6 \in Bit /\ g5 \in Bit /\ g4 \in Bit /\ g3 \in Bit /\ g2 \in Bit /\ g1 \in Bit /\ g0 \in Bit
  BY DEF Bits, Bit
<1>2. /\ x = Bits(0, x5, x4, x3, x2, x1, x0)
      /\ x5 \in Bit /\ x4 \in Bit /\ x3 \in Bit /\ x2 \in Bit /\ x1 \in Bit /\ x0 \in Bit
  BY DEF Bits, Bit
<1>. HIDE DEF g6, g5, g4, g3, g2, g1, g0, x5, x4, x3, x2, x1, x0
<1>3. TableCell(128, g, x) = At(128, Bits(0, g6, g5, g4, g3, g2, g1), Bits(g0, x5, x4, x3, x2, x1, x0))
  BY <1>1, <1>2 DEF At, Bits, Bit, TableCell, TableByte
<1>4. LaneIn(128, g) = Bits(g0, g6, g5, g4, 1 - g3, 1 - g2, 1 - g1)
  BY <1>1 DEF Bits, Bit, LaneIn
<1>5. TurnedCcw(128, 1, At(128, Bits(0, g6, g5, g4, g3, g2, g1), Bits(g0, x5, x4, x3, x2, x1, x0)))
       = At(128, Bits(0, g6, g5, g4, g3, g2, x0), Bits(g0, x5, x4, x3, x2, x1, 1 - g1))
  BY <1>1, <1>2, SMTT(30) DEF TurnedCcw, At, With, Has, Bits, Bit
<1>6. TurnedCcw(128, 2, At(128, Bits(0, g6, g5, g4, g3, g2, x0), Bits(g0, x5, x4, x3, x2, x1, 1 - g1)))
       = At(128, Bits(0, g6, g5, g4, g3, x1, x0), Bits(g0, x5, x4, x3, x2, 1 - g2, 1 - g1))
  BY <1>1, <1>2, SMTT(30) DEF TurnedCcw, At, With, Has, Bits, Bit
<1>7. TurnedCcw(128, 4, At(128, Bits(0, g6, g5, g4, g3, x1, x0), Bits(g0, x5, x4, x3, x2, 1 - g2, 1 - g1)))
       = At(128, Bits(0, g6, g5, g4, x2, x1, x0), Bits(g0, x5, x4, x3, 1 - g3, 1 - g2, 1 - g1))
  BY <1>1, <1>2, SMTT(30) DEF TurnedCcw, At, With, Has, Bits, Bit
<1>8. Exchanged(128, 8, At(128, Bits(0, g6, g5, g4, x2, x1, x0), Bits(g0, x5, x4, x3, 1 - g3, 1 - g2, 1 - g1)))
       = At(128, Bits(0, g6, g5, x3, x2, x1, x0), Bits(g0, x5, x4, g4, 1 - g3, 1 - g2, 1 - g1))
  BY <1>1, <1>2 DEF Exchanged, At, With, Has, Bits, Bit
<1>9. Exchanged(128, 16, At(128, Bits(0, g6, g5, x3, x2, x1, x0), Bits(g0, x5, x4, g4, 1 - g3, 1 - g2, 1 - g1)))
       = At(128, Bits(0, g6, x4, x3, x2, x1, x0), Bits(g0, x5, g5, g4, 1 - g3, 1 - g2, 1 - g1))
  BY <1>1, <1>2 DEF Exchanged, At, With, Has, Bits, Bit
<1>10. Exchanged(128, 32, At(128, Bits(0, g6, x4, x3, x2, x1, x0), Bits(g0, x5, g5, g4, 1 - g3, 1 - g2, 1 - g1)))
       = At(128, Bits(0, x5, x4, x3, x2, x1, x0), Bits(g0, g6, g5, g4, 1 - g3, 1 - g2, 1 - g1))
  BY <1>1, <1>2 DEF Exchanged, At, With, Has, Bits, Bit
<1>11. Back(128, TableCell(128, g, x)) = 128 * x + LaneIn(128, g)
  BY <1>2, <1>3, <1>4, <1>5, <1>6, <1>7, <1>8, <1>9, <1>10 DEF Back, At
<1>12. Exchanged(128, 32, At(128, Bits(0, g6, g5, g4, g3, g2, g1), Bits(g0, x5, x4, x3, x2, x1, x0)))
       = At(128, Bits(0, x5, g5, g4, g3, g2, g1), Bits(g0, g6, x4, x3, x2, x1, x0))
  BY <1>1, <1>2 DEF Exchanged, At, With, Has, Bits, Bit
<1>13. Exchanged(128, 16, At(128, Bits(0, x5, g5, g4, g3, g2, g1), Bits(g0, g6, x4, x3, x2, x1, x0)))
       = At(128, Bits(0, x5, x4, g4, g3, g2, g1), Bits(g0, g6, g5, x3, x2, x1, x0))
  BY <1>1, <1>2 DEF Exchanged, At, With, Has, Bits, Bit
<1>14. Exchanged(128, 8, At(128, Bits(0, x5, x4, g4, g3, g2, g1), Bits(g0, g6, g5, x3, x2, x1, x0)))
       = At(128, Bits(0, x5, x4, x3, g3, g2, g1), Bits(g0, g6, g5, g4, x2, x1, x0))
  BY <1>1, <1>2 DEF Exchanged, At, With, Has, Bits, Bit
<1>15. TurnedCcw(128, 4, At(128, Bits(0, x5, x4, x3, g3, g2, g1), Bits(g0, g6, g5, g4, x2, x1, x0)))
       = At(128, Bits(0, x5, x4, x3, x2, g2, g1), Bits(g0, g6, g5, g4, 1 - g3, x1, x0))
  BY <1>1, <1>2, SMTT(30) DEF TurnedCcw, At, With, Has, Bits, Bit
<1>16. TurnedCcw(128, 2, At(128, Bits(0, x5, x4, x3, x2, g2, g1), Bits(g0, g6, g5, g4, 1 - g3, x1, x0)))
       = At(128, Bits(0, x5, x4, x3, x2, x1, g1), Bits(g0, g6, g5, g4, 1 - g3, 1 - g2, x0))
  BY <1>1, <1>2, SMTT(30) DEF TurnedCcw, At, With, Has, Bits, Bit
<1>17. TurnedCcw(128, 1, At(128, Bits(0, x5, x4, x3, x2, x1, g1), Bits(g0, g6, g5, g4, 1 - g3, 1 - g2, x0)))
       = At(128, Bits(0, x5, x4, x3, x2, x1, x0), Bits(g0, g6, g5, g4, 1 - g3, 1 - g2, 1 - g1))
  BY <1>1, <1>2, SMTT(30) DEF TurnedCcw, At, With, Has, Bits, Bit
<1>18. Forth(128, TableCell(128, g, x)) = 128 * x + LaneIn(128, g)
  BY <1>2, <1>3, <1>4, <1>12, <1>13, <1>14, <1>15, <1>16, <1>17 DEF Forth, At
<1>19. LaneIn(128, g) \in 0 .. 127 /\ TableCell(128, g, x) \in Cells(128)
  <2>1. LaneIn(128, g) \in 0 .. 127
    BY <1>1 DEF Bits, Bit, LaneIn
  <2>2. TableCell(128, g, x) \in Nat /\ TableCell(128, g, x) < 64 * 128
    BY <1>1, <1>2, <1>3 DEF Bits, Bit, At
  <2>3. 128 \in Widths
    BY DEF Widths
  <2>. QED BY <2>1, <2>2, <2>3, CellIs
<1>. QED BY <1>11, <1>18, <1>19

(* The same for every width.                                               *)
LEMMA SliceOf ==
  ASSUME NEW w \in Widths, NEW g \in 0 .. w - 1, NEW x \in 0 .. 63
  PROVE  /\ TableCell(w, g, x) \in Cells(w) /\ LaneIn(w, g) \in 0 .. w - 1
         /\ w * x + LaneIn(w, g) \in Cells(w)
         /\ Back(w, TableCell(w, g, x)) = w * x + LaneIn(w, g)
         /\ Forth(w, TableCell(w, g, x)) = w * x + LaneIn(w, g)
<1>1. CASE w = 32
  <2>1. g \in 0 .. 31
    BY <1>1
  <2>2. /\ TableCell(32, g, x) \in Cells(32) /\ LaneIn(32, g) \in 0 .. 31
        /\ Back(32, TableCell(32, g, x)) = 32 * x + LaneIn(32, g)
        /\ Forth(32, TableCell(32, g, x)) = 32 * x + LaneIn(32, g)
    BY <2>1, SliceOf32, Zenon
  <2>3. 32 * x + LaneIn(32, g) \in Nat /\ 32 * x + LaneIn(32, g) < 64 * 32
    BY <2>2
  <2>4. 32 * x + LaneIn(32, g) \in Cells(32)
    <3>1. 32 \in Widths
      BY DEF Widths
    <3>. QED BY <2>3, <3>1, CellIs
  <2>. QED BY <1>1, <2>2, <2>4
<1>2. CASE w = 64
  <2>1. g \in 0 .. 63
    BY <1>2
  <2>2. /\ TableCell(64, g, x) \in Cells(64) /\ LaneIn(64, g) \in 0 .. 63
        /\ Back(64, TableCell(64, g, x)) = 64 * x + LaneIn(64, g)
        /\ Forth(64, TableCell(64, g, x)) = 64 * x + LaneIn(64, g)
    BY <2>1, SliceOf64, Zenon
  <2>3. 64 * x + LaneIn(64, g) \in Nat /\ 64 * x + LaneIn(64, g) < 64 * 64
    BY <2>2
  <2>4. 64 * x + LaneIn(64, g) \in Cells(64)
    <3>1. 64 \in Widths
      BY DEF Widths
    <3>. QED BY <2>3, <3>1, CellIs
  <2>. QED BY <1>2, <2>2, <2>4
<1>3. CASE w = 128
  <2>1. g \in 0 .. 127
    BY <1>3
  <2>2. /\ TableCell(128, g, x) \in Cells(128) /\ LaneIn(128, g) \in 0 .. 127
        /\ Back(128, TableCell(128, g, x)) = 128 * x + LaneIn(128, g)
        /\ Forth(128, TableCell(128, g, x)) = 128 * x + LaneIn(128, g)
    BY <2>1, SliceOf128, Zenon
  <2>3. 128 * x + LaneIn(128, g) \in Nat /\ 128 * x + LaneIn(128, g) < 64 * 128
    BY <2>2
  <2>4. 128 * x + LaneIn(128, g) \in Cells(128)
    <3>1. 128 \in Widths
      BY DEF Widths
    <3>. QED BY <2>3, <3>1, CellIs
  <2>. QED BY <1>3, <2>2, <2>4
<1>. QED BY <1>1, <1>2, <1>3 DEF Widths

(* The stages that a build of width w goes through fit its table.          *)
LEMMA StagesFit ==
  ASSUME NEW w \in Widths
  PROVE  /\ Fits(w, 1) /\ Fits(w, 2) /\ Fits(w, 4) /\ Fits(w, 8) /\ Fits(w, 16)
         /\ w # 32 => Fits(w, 32)
BY DEF Fits, Distances

(* What is in a table after a stage, and what is after its moves.           *)
LEMMA StageMoves ==
  ASSUME NEW w \in Widths, NEW d, Fits(w, d), NEW table \in SUBSET Cells(w)
  PROVE  /\ Exchange(w, d, table) \in SUBSET Cells(w)
         /\ TurnCcw(w, d, table) \in SUBSET Cells(w)
         /\ TurnCw(w, d, table) \in SUBSET Cells(w)
         /\ \A at \in Cells(w) :
              /\ Exchanged(w, d, at) \in Cells(w) /\ TurnedCcw(w, d, at) \in Cells(w)
              /\ at \in Exchange(w, d, table) <=> Exchanged(w, d, at) \in table
              /\ at \in TurnCw(w, d, table) <=> TurnedCcw(w, d, at) \in table
              /\ Exchanged(w, d, at) \in Exchange(w, d, table) <=> at \in table
              /\ TurnedCcw(w, d, at) \in TurnCcw(w, d, table) <=> at \in table
<1>1. \A at \in Cells(w) :
        /\ Exchanged(w, d, at) \in Cells(w) /\ Exchanged(w, d, Exchanged(w, d, at)) = at
        /\ TurnedCcw(w, d, at) \in Cells(w) /\ TurnedCw(w, d, TurnedCcw(w, d, at)) = at
  BY CellsMoveBack
<1>2. /\ Exchange(w, d, table) \in SUBSET Cells(w)
      /\ TurnCcw(w, d, table) \in SUBSET Cells(w)
      /\ TurnCw(w, d, table) \in SUBSET Cells(w)
  BY TableMoves
<1>3. \A at \in Cells(w) :
        /\ at \in Exchange(w, d, table) <=> Exchanged(w, d, at) \in table
        /\ at \in TurnCcw(w, d, table) <=> TurnedCw(w, d, at) \in table
        /\ at \in TurnCw(w, d, table) <=> TurnedCcw(w, d, at) \in table
  BY TableMoves
<1>. QED BY <1>1, <1>2, <1>3

(* The bytes are transposed.                                               *)
BytesTo(w, at)   == Exchanged(w, 8, Exchanged(w, 16, IF w = 32 THEN at ELSE Exchanged(w, 32, at)))
BytesFrom(w, at) ==
  LET e == Exchanged(w, 16, Exchanged(w, 8, at)) IN IF w = 32 THEN e ELSE Exchanged(w, 32, e)

(* The table after its bytes were transposed.                              *)
LEMMA BytesMove ==
  ASSUME NEW w \in Widths, NEW table \in SUBSET Cells(w)
  PROVE  /\ BytesTransposed(w, table) \in SUBSET Cells(w)
         /\ \A at \in Cells(w) :
              /\ BytesFrom(w, at) \in Cells(w) /\ BytesTo(w, at) \in Cells(w)
              /\ at \in BytesTransposed(w, table) <=> BytesFrom(w, at) \in table
              /\ BytesTo(w, at) \in BytesTransposed(w, table) <=> at \in table
<1>. DEFINE halves == IF w = 32 THEN table ELSE Exchange(w, 32, table)
            half(at) == IF w = 32 THEN at ELSE Exchanged(w, 32, at)
            s16 == Exchange(w, 16, halves)
            s8  == Exchange(w, 8, s16)
<1>0. Fits(w, 8) /\ Fits(w, 16) /\ (w # 32 => Fits(w, 32))
  BY StagesFit
<1>1. /\ halves \in SUBSET Cells(w)
      /\ \A at \in Cells(w) : /\ half(at) \in Cells(w)
                              /\ at \in halves <=> half(at) \in table
                              /\ half(at) \in halves <=> at \in table
  <2>1. CASE w = 32
    BY <2>1
  <2>2. CASE w # 32
    <3>1. Fits(w, 32)
      BY <1>0, <2>2
    <3>2. halves = Exchange(w, 32, table) /\ \A at : half(at) = Exchanged(w, 32, at)
      BY <2>2
    <3>. HIDE DEF halves, half
    <3>3. /\ Exchange(w, 32, table) \in SUBSET Cells(w)
          /\ \A at \in Cells(w) :
               /\ Exchanged(w, 32, at) \in Cells(w)
               /\ at \in Exchange(w, 32, table) <=> Exchanged(w, 32, at) \in table
               /\ Exchanged(w, 32, at) \in Exchange(w, 32, table) <=> at \in table
      BY <3>1, StageMoves
    <3>. QED BY <3>2, <3>3
  <2>. QED BY <2>1, <2>2
<1>2. BytesTransposed(w, table) = s8
  BY DEF BytesTransposed
<1>3. \A at : /\ BytesTo(w, at) = Exchanged(w, 8, Exchanged(w, 16, half(at)))
              /\ BytesFrom(w, at) = half(Exchanged(w, 16, Exchanged(w, 8, at)))
  BY DEF BytesTo, BytesFrom
<1>. HIDE DEF halves, half
<1>4. /\ s16 \in SUBSET Cells(w)
      /\ \A at \in Cells(w) : /\ Exchanged(w, 16, at) \in Cells(w)
                              /\ at \in s16 <=> Exchanged(w, 16, at) \in halves
                              /\ Exchanged(w, 16, at) \in s16 <=> at \in halves
  BY <1>0, <1>1, StageMoves
<1>. HIDE DEF s16
<1>5. /\ s8 \in SUBSET Cells(w)
      /\ \A at \in Cells(w) : /\ Exchanged(w, 8, at) \in Cells(w)
                              /\ at \in s8 <=> Exchanged(w, 8, at) \in s16
                              /\ Exchanged(w, 8, at) \in s8 <=> at \in s16
  BY <1>0, <1>4, StageMoves
<1>. HIDE DEF s8
<1>6. ASSUME NEW at \in Cells(w)
      PROVE  /\ BytesFrom(w, at) \in Cells(w) /\ BytesTo(w, at) \in Cells(w)
             /\ at \in s8 <=> BytesFrom(w, at) \in table
             /\ BytesTo(w, at) \in s8 <=> at \in table
  BY <1>1, <1>3, <1>4, <1>5
<1>. QED BY <1>2, <1>5, <1>6

(* FFTABLEOUT after trasp64_88cw gives a packet the bits of its lane.      *)
LEMMA OutOfSlices ==
  ASSUME NEW w \in Widths, NEW table \in SUBSET Cells(w), NEW g \in 0 .. w - 1
  PROVE  TableOut(w, trasp64_88cw(w, table), g) = {x \in 0 .. 63 : w * x + LaneIn(w, g) \in table}
<1>. DEFINE bytes == BytesTransposed(w, table)
            s4 == TurnCw(w, 4, bytes)
            s2 == TurnCw(w, 2, s4)
            s1 == TurnCw(w, 1, s2)
<1>0. Fits(w, 1) /\ Fits(w, 2) /\ Fits(w, 4)
  BY StagesFit
<1>1. trasp64_88cw(w, table) = s1
  BY DEF trasp64_88cw
<1>2. /\ bytes \in SUBSET Cells(w)
      /\ \A at \in Cells(w) : at \in bytes <=> BytesFrom(w, at) \in table
  BY BytesMove
<1>. HIDE DEF bytes
<1>3. /\ s4 \in SUBSET Cells(w)
      /\ \A at \in Cells(w) : /\ TurnedCcw(w, 4, at) \in Cells(w)
                              /\ at \in s4 <=> TurnedCcw(w, 4, at) \in bytes
  BY <1>0, <1>2, StageMoves
<1>. HIDE DEF s4
<1>4. /\ s2 \in SUBSET Cells(w)
      /\ \A at \in Cells(w) : /\ TurnedCcw(w, 2, at) \in Cells(w)
                              /\ at \in s2 <=> TurnedCcw(w, 2, at) \in s4
  BY <1>0, <1>3, StageMoves
<1>. HIDE DEF s2
<1>5. \A at \in Cells(w) : /\ TurnedCcw(w, 1, at) \in Cells(w)
                           /\ at \in s1 <=> TurnedCcw(w, 1, at) \in s2
  BY <1>0, <1>4, StageMoves
<1>. HIDE DEF s1
<1>6. \A at : Back(w, at) = BytesFrom(w, TurnedCcw(w, 4, TurnedCcw(w, 2, TurnedCcw(w, 1, at))))
  BY DEF Back, BytesFrom
<1>7. \A at \in Cells(w) : at \in s1 <=> Back(w, at) \in table
  <2>. SUFFICES ASSUME NEW c \in Cells(w) PROVE c \in s1 <=> Back(w, c) \in table
    OBVIOUS
  <2>. DEFINE a1 == TurnedCcw(w, 1, c)
              a2 == TurnedCcw(w, 2, a1)
              a4 == TurnedCcw(w, 4, a2)
  <2>1. a1 \in Cells(w) /\ (c \in s1 <=> a1 \in s2)
    BY <1>5
  <2>2. Back(w, c) = BytesFrom(w, TurnedCcw(w, 4, TurnedCcw(w, 2, a1)))
    BY <1>6
  <2>. HIDE DEF a1
  <2>3. a2 \in Cells(w) /\ (a1 \in s2 <=> a2 \in s4)
    BY <1>4, <2>1
  <2>. HIDE DEF a2
  <2>4. a4 \in Cells(w) /\ (a2 \in s4 <=> a4 \in bytes) 
    BY <1>3, <2>3
  <2>5. Back(w, c) = BytesFrom(w, a4)
    BY <2>2 DEF a2
  <2>. HIDE DEF a4
  <2>6. a4 \in bytes <=> BytesFrom(w, a4) \in table
    BY <1>2, <2>4
  <2>. QED BY <2>1, <2>3, <2>4, <2>5, <2>6
<1>8. \A x \in 0 .. 63 : TableCell(w, g, x) \in s1 <=> w * x + LaneIn(w, g) \in table
  BY <1>7, SliceOf
<1>. QED BY <1>1, <1>8 DEF TableOut, TableCell
-----------------------------------------------------------------------------
(* The registers of the block cypher.                                      *)

\* The bits of the registers' memory, in bytes at the places of a table.
RegBits(w) == 0 .. 512 * w - 1
BitAt(c, b) == 8 * c + b

(* A bit of the registers is in its cell.                                  *)
LEMMA BitParts ==
  ASSUME NEW c \in Nat, NEW b \in 0 .. 7
  PROVE  BitAt(c, b) \div 8 = c /\ BitAt(c, b) % 8 = b
BY DEF BitAt

(* Every bit of the registers is in a cell, and every cell has its bits.   *)
LEMMA BitOf ==
  ASSUME NEW w \in Widths
  PROVE  /\ \A at \in RegBits(w) : \E c \in Cells(w), b \in 0 .. 7 : at = BitAt(c, b)
         /\ \A c \in Cells(w), b \in 0 .. 7 : BitAt(c, b) \in RegBits(w)
<1>1. ASSUME NEW at \in RegBits(w)
      PROVE  \E c \in Cells(w), b \in 0 .. 7 : at = BitAt(c, b)
  <2>1. at \div 8 \in Cells(w) /\ at % 8 \in 0 .. 7 /\ at = BitAt(at \div 8, at % 8)
    BY DEF Widths, Cells, RegBits, BitAt
  <2>. QED BY <2>1
<1>2. \A c \in Cells(w), b \in 0 .. 7 : BitAt(c, b) \in RegBits(w)
  BY DEF Widths, Cells, RegBits, BitAt
<1>. QED BY <1>1, <1>2

\* Where an exchange of bytes moves a bit.
ByteExchanged(w, d, at) == BitAt(Exchanged(w, d, at \div 8), at % 8)

(* An exchange of the bytes of the registers is its own inverse.           *)
LEMMA BytesExchange ==
  ASSUME NEW w \in Widths, NEW d \in {1, 2}, NEW mem \in SUBSET RegBits(w)
  PROVE  /\ ExchangeBytes(w, d, mem) \in SUBSET RegBits(w)
         /\ \A at \in RegBits(w) :
              /\ ByteExchanged(w, d, at) \in RegBits(w)
              /\ ByteExchanged(w, d, ByteExchanged(w, d, at)) = at
              /\ at \in ExchangeBytes(w, d, mem) <=> ByteExchanged(w, d, at) \in mem
              /\ ByteExchanged(w, d, at) \in ExchangeBytes(w, d, mem) <=> at \in mem
<1>1. Fits(w, d)
  BY StagesFit
<1>2. ExchangeBytes(w, d, mem) = {ByteExchanged(w, d, at) : at \in mem}
  BY DEF ExchangeBytes, ByteExchanged, Exchanged, BitAt
<1>3. \A at \in RegBits(w) :
        /\ ByteExchanged(w, d, at) \in RegBits(w)
        /\ ByteExchanged(w, d, ByteExchanged(w, d, at)) = at
  <2>. SUFFICES ASSUME NEW at \in RegBits(w)
                PROVE  /\ ByteExchanged(w, d, at) \in RegBits(w)
                       /\ ByteExchanged(w, d, ByteExchanged(w, d, at)) = at
    OBVIOUS
  <2>1. PICK c \in Cells(w), b \in 0 .. 7 : at = BitAt(c, b)
    BY BitOf
  <2>2. Exchanged(w, d, c) \in Cells(w) /\ Exchanged(w, d, Exchanged(w, d, c)) = c
    BY <1>1, CellsMoveBack
  <2>3. \A e \in Cells(w) : e \in Nat
    BY DEF Cells, Widths
  <2>4. ByteExchanged(w, d, at) = BitAt(Exchanged(w, d, c), b)
    BY <2>1, <2>3, BitParts DEF ByteExchanged
  <2>5. ByteExchanged(w, d, BitAt(Exchanged(w, d, c), b)) = BitAt(Exchanged(w, d, Exchanged(w, d, c)), b)
    BY <2>2, <2>3, BitParts DEF ByteExchanged
  <2>. QED BY <2>1, <2>2, <2>4, <2>5, BitOf
<1>4. \A at \in mem : at \in RegBits(w)
  OBVIOUS
<1>. QED BY <1>2, <1>3, <1>4

\* The place of a packet's bytes in the registers.
PlaceIn(w, g) == 4 * (g % (w \div 4)) + (g \div (w \div 4))

(* The exchanges bring the bytes of a packet one below the other.          *)
LEMMA BytesPlaced32 ==
  ASSUME NEW g \in 0 .. 31, NEW k \in 0 .. 7
  PROVE  /\ Exchanged(32, 1, Exchanged(32, 2, 4 * (g + 32 * (k \div 4)) + (k % 4)))
              = 32 * k + PlaceIn(32, g)
         /\ PlaceIn(32, g) \in 0 .. 31
<1>. DEFINE g4 == (g \div 16) % 2
            g3 == (g \div 8) % 2
            g2 == (g \div 4) % 2
            g1 == (g \div 2) % 2
            g0 == g % 2
            k2 == (k \div 4) % 2
            k1 == (k \div 2) % 2
            k0 == k % 2
<1>1. /\ g = Bits(0, 0, g4, g3, g2, g1, g0)
      /\ g4 \in Bit /\ g3 \in Bit /\ g2 \in Bit /\ g1 \in Bit /\ g0 \in Bit
  BY DEF Bits, Bit
<1>2. k = Bits(0, 0, 0, 0, k2, k1, k0) /\ k2 \in Bit /\ k1 \in Bit /\ k0 \in Bit
  BY DEF Bits, Bit
<1>. HIDE DEF g4, g3, g2, g1, g0, k2, k1, k0
<1>3. 4 * (g + 32 * (k \div 4)) + (k % 4)
        = At(32, Bits(0, 0, 0, 0, k2, g4, g3), Bits(0, 0, g2, g1, g0, k1, k0))
  BY <1>1, <1>2 DEF At, Bits, Bit
<1>4. PlaceIn(32, g) = Bits(0, 0, g2, g1, g0, g4, g3)
  BY <1>1 DEF Bits, Bit, PlaceIn
<1>5. Exchanged(32, 2, At(32, Bits(0, 0, 0, 0, k2, g4, g3), Bits(0, 0, g2, g1, g0, k1, k0)))
        = At(32, Bits(0, 0, 0, 0, k2, k1, g3), Bits(0, 0, g2, g1, g0, g4, k0))
  BY <1>1, <1>2 DEF Exchanged, At, With, Has, Bits, Bit
<1>6. Exchanged(32, 1, At(32, Bits(0, 0, 0, 0, k2, k1, g3), Bits(0, 0, g2, g1, g0, g4, k0)))
        = At(32, Bits(0, 0, 0, 0, k2, k1, k0), Bits(0, 0, g2, g1, g0, g4, g3))
  BY <1>1, <1>2 DEF Exchanged, At, With, Has, Bits, Bit
<1>7. PlaceIn(32, g) \in 0 .. 31
  BY <1>1, <1>4 DEF Bits, Bit
<1>. QED BY <1>2, <1>3, <1>4, <1>5, <1>6, <1>7 DEF At

(* The same for groups of 64.                                              *)
LEMMA BytesPlaced64 ==
  ASSUME NEW g \in 0 .. 63, NEW k \in 0 .. 7
  PROVE  /\ Exchanged(64, 1, Exchanged(64, 2, 4 * (g + 64 * (k \div 4)) + (k % 4)))
              = 64 * k + PlaceIn(64, g)
         /\ PlaceIn(64, g) \in 0 .. 63
<1>. DEFINE g5 == (g \div 32) % 2
            g4 == (g \div 16) % 2
            g3 == (g \div 8) % 2
            g2 == (g \div 4) % 2
            g1 == (g \div 2) % 2
            g0 == g % 2
            k2 == (k \div 4) % 2
            k1 == (k \div 2) % 2
            k0 == k % 2
<1>1. /\ g = Bits(0, g5, g4, g3, g2, g1, g0)
      /\ g5 \in Bit /\ g4 \in Bit /\ g3 \in Bit /\ g2 \in Bit /\ g1 \in Bit /\ g0 \in Bit
  BY DEF Bits, Bit
<1>2. k = Bits(0, 0, 0, 0, k2, k1, k0) /\ k2 \in Bit /\ k1 \in Bit /\ k0 \in Bit
  BY DEF Bits, Bit
<1>. HIDE DEF g5, g4, g3, g2, g1, g0, k2, k1, k0
<1>3. 4 * (g + 64 * (k \div 4)) + (k % 4)
        = At(64, Bits(0, 0, 0, 0, k2, g5, g4), Bits(0, g3, g2, g1, g0, k1, k0))
  BY <1>1, <1>2 DEF At, Bits, Bit
<1>4. PlaceIn(64, g) = Bits(0, g3, g2, g1, g0, g5, g4)
  BY <1>1 DEF Bits, Bit, PlaceIn
<1>5. Exchanged(64, 2, At(64, Bits(0, 0, 0, 0, k2, g5, g4), Bits(0, g3, g2, g1, g0, k1, k0)))
        = At(64, Bits(0, 0, 0, 0, k2, k1, g4), Bits(0, g3, g2, g1, g0, g5, k0))
  BY <1>1, <1>2 DEF Exchanged, At, With, Has, Bits, Bit
<1>6. Exchanged(64, 1, At(64, Bits(0, 0, 0, 0, k2, k1, g4), Bits(0, g3, g2, g1, g0, g5, k0)))
        = At(64, Bits(0, 0, 0, 0, k2, k1, k0), Bits(0, g3, g2, g1, g0, g5, g4))
  BY <1>1, <1>2 DEF Exchanged, At, With, Has, Bits, Bit
<1>7. PlaceIn(64, g) \in 0 .. 63
  BY <1>1, <1>4 DEF Bits, Bit
<1>. QED BY <1>2, <1>3, <1>4, <1>5, <1>6, <1>7 DEF At

(* The same for groups of 128.                                             *)
LEMMA BytesPlaced128 ==
  ASSUME NEW g \in 0 .. 127, NEW k \in 0 .. 7
  PROVE  /\ Exchanged(128, 1, Exchanged(128, 2, 4 * (g + 128 * (k \div 4)) + (k % 4)))
              = 128 * k + PlaceIn(128, g)
         /\ PlaceIn(128, g) \in 0 .. 127
<1>. DEFINE g6 == (g \div 64) % 2
            g5 == (g \div 32) % 2
            g4 == (g \div 16) % 2
            g3 == (g \div 8) % 2
            g2 == (g \div 4) % 2
            g1 == (g \div 2) % 2
            g0 == g % 2
            k2 == (k \div 4) % 2
            k1 == (k \div 2) % 2
            k0 == k % 2
<1>1. /\ g = Bits(g6, g5, g4, g3, g2, g1, g0)
      /\ g6 \in Bit /\ g5 \in Bit /\ g4 \in Bit /\ g3 \in Bit /\ g2 \in Bit /\ g1 \in Bit /\ g0 \in Bit
  BY DEF Bits, Bit
<1>2. k = Bits(0, 0, 0, 0, k2, k1, k0) /\ k2 \in Bit /\ k1 \in Bit /\ k0 \in Bit
  BY DEF Bits, Bit
<1>. HIDE DEF g6, g5, g4, g3, g2, g1, g0, k2, k1, k0
<1>3. 4 * (g + 128 * (k \div 4)) + (k % 4)
        = At(128, Bits(0, 0, 0, 0, k2, g6, g5), Bits(g4, g3, g2, g1, g0, k1, k0))
  BY <1>1, <1>2 DEF At, Bits, Bit
<1>4. PlaceIn(128, g) = Bits(g4, g3, g2, g1, g0, g6, g5)
  BY <1>1 DEF Bits, Bit, PlaceIn
<1>5. Exchanged(128, 2, At(128, Bits(0, 0, 0, 0, k2, g6, g5), Bits(g4, g3, g2, g1, g0, k1, k0)))
        = At(128, Bits(0, 0, 0, 0, k2, k1, g5), Bits(g4, g3, g2, g1, g0, g6, k0))
  BY <1>1, <1>2 DEF Exchanged, At, With, Has, Bits, Bit
<1>6. Exchanged(128, 1, At(128, Bits(0, 0, 0, 0, k2, k1, g5), Bits(g4, g3, g2, g1, g0, g6, k0)))
        = At(128, Bits(0, 0, 0, 0, k2, k1, k0), Bits(g4, g3, g2, g1, g0, g6, g5))
  BY <1>1, <1>2 DEF Exchanged, At, With, Has, Bits, Bit
<1>7. PlaceIn(128, g) \in 0 .. 127
  BY <1>1, <1>4 DEF Bits, Bit
<1>. QED BY <1>2, <1>3, <1>4, <1>5, <1>6, <1>7 DEF At

\* Bit x of a block in the registers, and where it is put at first.
PlacedBit(w, g, x) == BitAt(w * (x \div 8) + PlaceIn(w, g), x % 8)

(* Where the bits of a block are before and after the two exchanges.       *)
LEMMA BlockPlaced ==
  ASSUME NEW w \in Widths, NEW g \in 0 .. w - 1
  PROVE  /\ PlaceIn(w, g) \in 0 .. w - 1
         /\ \A x \in 0 .. 63 :
              /\ Filled(w, g, x) \in RegBits(w) /\ PlacedBit(w, g, x) \in RegBits(w)
              /\ ByteExchanged(w, 1, ByteExchanged(w, 2, Filled(w, g, x))) = PlacedBit(w, g, x)
              /\ ByteExchanged(w, 2, ByteExchanged(w, 1, PlacedBit(w, g, x))) = Filled(w, g, x)
<1>. DEFINE first(k) == 4 * (g + w * (k \div 4)) + (k % 4)
<1>1. /\ PlaceIn(w, g) \in 0 .. w - 1
      /\ \A k \in 0 .. 7 : /\ Exchanged(w, 1, Exchanged(w, 2, first(k))) = w * k + PlaceIn(w, g)
                           /\ first(k) \in Cells(w)
  <2>1. CASE w = 32
    <3>1. g \in 0 .. 31 /\ 7 \in 0 .. 7
      BY <2>1
    <3>2. \A k \in 0 .. 7 : /\ 4 * (g + 32 * (k \div 4)) + (k % 4) \in Nat
                            /\ 4 * (g + 32 * (k \div 4)) + (k % 4) < 64 * 32
      BY <3>1
    <3>3. 32 \in Widths
      BY DEF Widths
    <3>4. ASSUME NEW k \in 0 .. 7 PROVE 4 * (g + 32 * (k \div 4)) + (k % 4) \in Cells(32)
      <4>. DEFINE n == 4 * (g + 32 * (k \div 4)) + (k % 4)
      <4>1. n \in Nat /\ n < 64 * 32
        BY <3>2
      <4>. HIDE DEF n
      <4>2. n \in Cells(32)
        BY <3>3, <4>1, CellIs, Zenon
      <4>. QED BY <4>2 DEF n
    <3>5. \A k \in 0 .. 7 : /\ Exchanged(32, 1, Exchanged(32, 2, 4 * (g + 32 * (k \div 4)) + (k % 4)))
                                = 32 * k + PlaceIn(32, g)
                            /\ PlaceIn(32, g) \in 0 .. 31
      BY <3>1, BytesPlaced32
    <3>6. PlaceIn(32, g) \in 0 .. 31
      BY <3>1, <3>5, Zenon
    <3>7. PlaceIn(w, g) \in 0 .. w - 1
      BY <3>6, <2>1
    <3>8. \A k \in 0 .. 7 : /\ Exchanged(w, 1, Exchanged(w, 2, first(k))) = w * k + PlaceIn(w, g)
                            /\ first(k) \in Cells(w)
      BY <2>1, <3>4, <3>5, Zenon
    <3>. QED BY <3>7, <3>8, Zenon
  <2>2. CASE w = 64
    <3>1. g \in 0 .. 63 /\ 7 \in 0 .. 7
      BY <2>2
    <3>2. \A k \in 0 .. 7 : /\ 4 * (g + 64 * (k \div 4)) + (k % 4) \in Nat
                            /\ 4 * (g + 64 * (k \div 4)) + (k % 4) < 64 * 64
      BY <3>1
    <3>3. 64 \in Widths
      BY DEF Widths
    <3>4. ASSUME NEW k \in 0 .. 7 PROVE 4 * (g + 64 * (k \div 4)) + (k % 4) \in Cells(64)
      <4>. DEFINE n == 4 * (g + 64 * (k \div 4)) + (k % 4)
      <4>1. n \in Nat /\ n < 64 * 64
        BY <3>2
      <4>. HIDE DEF n
      <4>2. n \in Cells(64)
        BY <3>3, <4>1, CellIs, Zenon
      <4>. QED BY <4>2 DEF n
    <3>5. \A k \in 0 .. 7 : /\ Exchanged(64, 1, Exchanged(64, 2, 4 * (g + 64 * (k \div 4)) + (k % 4)))
                                = 64 * k + PlaceIn(64, g)
                            /\ PlaceIn(64, g) \in 0 .. 63
      BY <3>1, BytesPlaced64
    <3>6. PlaceIn(64, g) \in 0 .. 63
      BY <3>1, <3>5, Zenon
    <3>7. PlaceIn(w, g) \in 0 .. w - 1
      BY <3>6, <2>2
    <3>8. \A k \in 0 .. 7 : /\ Exchanged(w, 1, Exchanged(w, 2, first(k))) = w * k + PlaceIn(w, g)
                            /\ first(k) \in Cells(w)
      BY <2>2, <3>4, <3>5, Zenon
    <3>. QED BY <3>7, <3>8, Zenon
  <2>3. CASE w = 128
    <3>1. g \in 0 .. 127 /\ 7 \in 0 .. 7
      BY <2>3
    <3>2. \A k \in 0 .. 7 : /\ 4 * (g + 128 * (k \div 4)) + (k % 4) \in Nat
                            /\ 4 * (g + 128 * (k \div 4)) + (k % 4) < 64 * 128
      BY <3>1
    <3>3. 128 \in Widths
      BY DEF Widths
    <3>4. ASSUME NEW k \in 0 .. 7 PROVE 4 * (g + 128 * (k \div 4)) + (k % 4) \in Cells(128)
      <4>. DEFINE n == 4 * (g + 128 * (k \div 4)) + (k % 4)
      <4>1. n \in Nat /\ n < 64 * 128
        BY <3>2
      <4>. HIDE DEF n
      <4>2. n \in Cells(128)
        BY <3>3, <4>1, CellIs, Zenon
      <4>. QED BY <4>2 DEF n
    <3>5. \A k \in 0 .. 7 : /\ Exchanged(128, 1, Exchanged(128, 2, 4 * (g + 128 * (k \div 4)) + (k % 4)))
                                = 128 * k + PlaceIn(128, g)
                            /\ PlaceIn(128, g) \in 0 .. 127
      BY <3>1, BytesPlaced128, Zenon
    <3>6. PlaceIn(128, g) \in 0 .. 127
      BY <3>1, <3>5, Zenon
    <3>7. PlaceIn(w, g) \in 0 .. w - 1
      BY <3>6, <2>3
    <3>8. \A k \in 0 .. 7 : /\ Exchanged(w, 1, Exchanged(w, 2, first(k))) = w * k + PlaceIn(w, g)
                            /\ first(k) \in Cells(w)
      BY <2>3, <3>4, <3>5, Zenon
    <3>. QED BY <3>7, <3>8, Zenon
  <2>. QED BY <2>1, <2>2, <2>3 DEF Widths
<1>. SUFFICES ASSUME NEW x \in 0 .. 63
              PROVE  /\ Filled(w, g, x) \in RegBits(w) /\ PlacedBit(w, g, x) \in RegBits(w)
                     /\ ByteExchanged(w, 1, ByteExchanged(w, 2, Filled(w, g, x))) = PlacedBit(w, g, x)
                     /\ ByteExchanged(w, 2, ByteExchanged(w, 1, PlacedBit(w, g, x))) = Filled(w, g, x)
  BY <1>1
<1>. DEFINE k == x \div 8
            b == x % 8
            c == first(k)
<1>2. k \in 0 .. 7 /\ b \in 0 .. 7 /\ x % 32 = 8 * (k % 4) + b /\ x \div 32 = k \div 4
  OBVIOUS
<1>3. Filled(w, g, x) = BitAt(c, b)
  <2>. HIDE DEF k, b
  <2>1. CASE w = 32
    BY <1>2, <2>1 DEF Filled, BitAt
  <2>2. CASE w = 64
    BY <1>2, <2>2 DEF Filled, BitAt
  <2>3. CASE w = 128
    BY <1>2, <2>3 DEF Filled, BitAt
  <2>. QED BY <2>1, <2>2, <2>3 DEF Widths
<1>4. PlacedBit(w, g, x) = BitAt(w * k + PlaceIn(w, g), b)
  BY DEF PlacedBit
<1>5. c \in Cells(w) /\ Exchanged(w, 1, Exchanged(w, 2, c)) = w * k + PlaceIn(w, g)
  <2>. HIDE DEF k
  <2>. QED BY <1>1, <1>2
<1>. HIDE DEF k, b, c
<1>6. Fits(w, 1) /\ Fits(w, 2)
  BY StagesFit
<1>7. /\ Exchanged(w, 2, c) \in Cells(w)
      /\ Exchanged(w, 1, Exchanged(w, 2, c)) \in Cells(w)
  BY <1>5, <1>6, CellsMoveBack
<1>8. \A e \in Cells(w) : e \in Nat
  BY DEF Cells, Widths
<1>9. /\ ByteExchanged(w, 2, BitAt(c, b)) = BitAt(Exchanged(w, 2, c), b)
      /\ ByteExchanged(w, 1, BitAt(Exchanged(w, 2, c), b))
           = BitAt(Exchanged(w, 1, Exchanged(w, 2, c)), b)
  BY <1>2, <1>5, <1>7, <1>8, BitParts DEF ByteExchanged
<1>10. /\ BitAt(c, b) \in RegBits(w) /\ BitAt(Exchanged(w, 2, c), b) \in RegBits(w)
       /\ BitAt(Exchanged(w, 1, Exchanged(w, 2, c)), b) \in RegBits(w)
  BY <1>2, <1>5, <1>7, BitOf
<1>11. \A d \in {1, 2} : \A at \in RegBits(w) : ByteExchanged(w, d, ByteExchanged(w, d, at)) = at
  <2>1. {} \in SUBSET RegBits(w)
    OBVIOUS
  <2>. QED BY <2>1, BytesExchange
<1>12. /\ ByteExchanged(w, 1, BitAt(Exchanged(w, 1, Exchanged(w, 2, c)), b)) = BitAt(Exchanged(w, 2, c), b)
       /\ ByteExchanged(w, 2, BitAt(Exchanged(w, 2, c), b)) = BitAt(c, b)
  BY <1>9, <1>10, <1>11
<1>. QED BY <1>3, <1>4, <1>5, <1>9, <1>10, <1>12

\* Bit x of packet g and bit y of packet h are not put at the same place.
FilledOnce(w, g, x, h, y) == Filled(w, g, x) = Filled(w, h, y) => g = h /\ x = y

(* No two bits are.                                                        *)
LEMMA FilledApart ==
  ASSUME NEW w \in Widths, NEW g \in 0 .. w - 1, NEW h \in 0 .. w - 1,
         NEW x \in 0 .. 63, NEW y \in 0 .. 63
  PROVE  FilledOnce(w, g, x, h, y)
<1>1. CASE w = 32
  BY <1>1 DEF Filled, FilledOnce
<1>2. CASE w = 64
  BY <1>2 DEF Filled, FilledOnce
<1>3. CASE w = 128
  BY <1>3 DEF Filled, FilledOnce
<1>. QED BY <1>1, <1>2, <1>3 DEF Widths

(* trasp_N_8 puts the block of each packet below the place of the packet.  *)
LEMMA IntoRegisters ==
  ASSUME NEW w \in Widths, NEW blocks, NEW count \in 0 .. w, NEW stack \in SUBSET (0 .. 63),
         \A g \in 0 .. count - 1 : blocks[g] \in SUBSET (0 .. 63)
  PROVE  /\ trasp_N_8(w, blocks, count, stack) \in SUBSET RegBits(w)
         /\ \A g \in 0 .. count - 1 : \A x \in 0 .. 63 :
              PlacedBit(w, g, x) \in trasp_N_8(w, blocks, count, stack) <=> x \in blocks[g]
<1>. DEFINE block(g) == IF g < count THEN blocks[g] ELSE stack
            filled == UNION {{Filled(w, g, x) : x \in block(g)} : g \in 0 .. w - 1}
            s2 == ExchangeBytes(w, 2, filled)
            s1 == ExchangeBytes(w, 1, s2)
<1>1. trasp_N_8(w, blocks, count, stack) = s1
  BY DEF trasp_N_8
<1>2. \A g \in 0 .. w - 1 : block(g) \in SUBSET (0 .. 63)
  <2>. SUFFICES ASSUME NEW g \in 0 .. w - 1 PROVE block(g) \in SUBSET (0 .. 63)
    OBVIOUS
  <2>1. CASE g < count
    <3>1. g \in 0 .. count - 1
      BY <2>1 DEF Widths
    <3>. QED BY <2>1, <3>1
  <2>2. CASE ~(g < count)
    BY <2>2
  <2>. QED BY <2>1, <2>2
<1>3. \A g \in 0 .. count - 1 : g \in 0 .. w - 1 /\ block(g) = blocks[g]
  BY DEF Widths
<1>. HIDE DEF block
<1>4. \A at : at \in filled <=> \E g \in 0 .. w - 1 : \E x \in block(g) : at = Filled(w, g, x)
  OBVIOUS
<1>. HIDE DEF filled
<1>5. \A g \in 0 .. w - 1 : \A x \in 0 .. 63 : Filled(w, g, x) \in RegBits(w)
  BY BlockPlaced
<1>6. filled \in SUBSET RegBits(w)
  BY <1>2, <1>4, <1>5
<1>7. /\ s2 \in SUBSET RegBits(w)
      /\ \A at \in RegBits(w) : /\ ByteExchanged(w, 2, at) \in RegBits(w)
                                /\ ByteExchanged(w, 2, at) \in s2 <=> at \in filled
  BY <1>6, BytesExchange
<1>. HIDE DEF s2
<1>8. /\ s1 \in SUBSET RegBits(w)
      /\ \A at \in RegBits(w) : ByteExchanged(w, 1, at) \in s1 <=> at \in s2
  BY <1>7, BytesExchange
<1>. HIDE DEF s1
<1>9. ASSUME NEW g \in 0 .. count - 1, NEW x \in 0 .. 63
      PROVE  PlacedBit(w, g, x) \in s1 <=> x \in blocks[g]
  <2>1. g \in 0 .. w - 1
    BY <1>3
  <2>. DEFINE at == Filled(w, g, x)
  <2>2. at \in RegBits(w) /\ PlacedBit(w, g, x) = ByteExchanged(w, 1, ByteExchanged(w, 2, at))
    BY <2>1, BlockPlaced
  <2>3. PlacedBit(w, g, x) \in s1 <=> at \in filled
    <3>. HIDE DEF at
    <3>. QED BY <1>7, <1>8, <2>2
  <2>4. ASSUME at \in filled PROVE x \in blocks[g]
    <3>1. PICK h \in 0 .. w - 1, y \in 0 .. 63 : y \in block(h) /\ at = Filled(w, h, y)
      <4>. HIDE DEF at
      <4>. QED BY <1>2, <1>4, <2>4
    <3>2. Filled(w, g, x) = Filled(w, h, y)
      BY <3>1
    <3>3. FilledOnce(w, g, x, h, y)
      BY <2>1, FilledApart
    <3>4. g = h /\ x = y
      BY <3>2, <3>3 DEF FilledOnce
    <3>. QED BY <1>3, <3>1, <3>4
  <2>5. ASSUME x \in blocks[g] PROVE at \in filled
    <3>1. x \in block(g)
      BY <1>3, <2>5
    <3>. QED BY <1>4, <2>1, <3>1
  <2>. QED BY <2>3, <2>4, <2>5
<1>. QED BY <1>1, <1>8, <1>9

(* trasp_8_N takes the bits from there again.                              *)
LEMMA OutOfRegisters ==
  ASSUME NEW w \in Widths, NEW count \in 0 .. w, NEW mem \in SUBSET RegBits(w)
  PROVE  trasp_8_N(w, mem, count)
           = [g \in 0 .. count - 1 |-> {x \in 0 .. 63 : PlacedBit(w, g, x) \in mem}]
<1>. DEFINE s1 == ExchangeBytes(w, 1, mem)
            s2 == ExchangeBytes(w, 2, s1)
<1>1. trasp_8_N(w, mem, count) = [g \in 0 .. count - 1 |-> {x \in 0 .. 63 : Filled(w, g, x) \in s2}]
  BY DEF trasp_8_N
<1>2. /\ s1 \in SUBSET RegBits(w)
      /\ \A at \in RegBits(w) : /\ ByteExchanged(w, 1, at) \in RegBits(w)
                                /\ at \in s1 <=> ByteExchanged(w, 1, at) \in mem
  BY BytesExchange
<1>. HIDE DEF s1
<1>3. \A at \in RegBits(w) : /\ ByteExchanged(w, 2, at) \in RegBits(w)
                             /\ at \in s2 <=> ByteExchanged(w, 2, at) \in s1
  BY <1>2, BytesExchange
<1>. HIDE DEF s2
<1>4. ASSUME NEW g \in 0 .. count - 1, NEW x \in 0 .. 63
      PROVE  Filled(w, g, x) \in s2 <=> PlacedBit(w, g, x) \in mem
  <2>1. g \in 0 .. w - 1
    BY DEF Widths
  <2>2. /\ Filled(w, g, x) \in RegBits(w)
        /\ PlacedBit(w, g, x) = ByteExchanged(w, 1, ByteExchanged(w, 2, Filled(w, g, x)))
    BY <2>1, BlockPlaced
  <2>. QED BY <1>2, <1>3, <2>2
<1>5. \A g \in 0 .. count - 1 :
        {x \in 0 .. 63 : Filled(w, g, x) \in s2} = {x \in 0 .. 63 : PlacedBit(w, g, x) \in mem}
  BY <1>4
<1>. QED BY <1>1, <1>5
-----------------------------------------------------------------------------
(* A round of the block cypher, for a packet and for the group.            *)

\* The registers of one packet, and of w packets.
Octets == SUBSET (0 .. 7)
Banks(w) == SUBSET (0 .. 8 * w - 1)

(* The S-box of the block cypher has bytes.                                *)
LEMMA SBoxValues ==
  \A n \in 1 .. 256 : BlockSBox[n] \in 0 .. 255
BY DEF BlockSBox

(* The S-box makes bytes of bytes.                                         *)
LEMMA SubstitutedIsByte ==
  \A byte : Substituted(byte) \in Octets
<1>. TAKE byte
<1>1. Number(byte) + 1 \in 1 .. 256
  BY DEF Number
<1>2. BlockSBox[Number(byte) + 1] \in 0 .. 255
  BY <1>1, SBoxValues, Zenon
<1>3. BitsOf[BlockSBox[Number(byte) + 1]]
        = {k \in 0 .. 7 : (BlockSBox[Number(byte) + 1] \div 2 ^ k) % 2 = 1}
  BY <1>2, Zenon DEF BitsOf
<1>. QED BY <1>3, Zenon DEF Substituted, Octets

(* The byte of a packet in a row of the registers.                         *)
LEMMA ByteIn ==
  \A row : \A l \in Nat : /\ Byte(row, l) \in Octets
                          /\ \A b \in 0 .. 7 : b \in Byte(row, l) <=> 8 * l + b \in row
<1>1. \A l \in Nat, b \in 0 .. 7 : l * 8 + b = 8 * l + b
  OBVIOUS
<1>2. 0 .. 8 - 1 = 0 .. 7
  OBVIOUS
<1>3. \A row : \A l \in Nat : Byte(row, l) = {x \in 0 .. 7 : l * 8 + x \in row}
  BY <1>2 DEF Byte, Row
<1>. QED BY <1>1, <1>3 DEF Octets

(* Bytes with the same bits are the same.                                  *)
LEMMA SameOctets ==
  \A a, c \in Octets : (\A b \in 0 .. 7 : b \in a <=> b \in c) => a = c
BY DEF Octets

(* A sum, byte by byte.                                                    *)
LEMMA AddedBytes ==
  \A r, s : \A l \in Nat : Byte(Added(r, s), l) = Added(Byte(r, l), Byte(s, l))
<1>. SUFFICES ASSUME NEW r, NEW s, NEW l \in Nat
              PROVE  Byte(Added(r, s), l) = Added(Byte(r, l), Byte(s, l))
  OBVIOUS
<1>1. Byte(Added(r, s), l) \in Octets /\ Byte(r, l) \in Octets /\ Byte(s, l) \in Octets
  BY ByteIn
<1>2. Added(Byte(r, l), Byte(s, l)) \in Octets
  BY <1>1 DEF Octets, Added
<1>3. \A b \in 0 .. 7 : /\ b \in Byte(Added(r, s), l) <=> 8 * l + b \in Added(r, s)
                        /\ b \in Byte(r, l) <=> 8 * l + b \in r
                        /\ b \in Byte(s, l) <=> 8 * l + b \in s
  BY ByteIn
<1>4. \A b \in 0 .. 7 : b \in Byte(Added(r, s), l) <=> b \in Added(Byte(r, l), Byte(s, l))
  BY <1>3 DEF Added
<1>. QED BY <1>1, <1>2, <1>4, SameOctets

(* A sum of rows is a row.                                                 *)
LEMMA AddedTyped ==
  \A w \in Nat : \A r, s \in Banks(w) : Added(r, s) \in Banks(w)
BY DEF Banks, Added

\* The outputs of the S-box for all the bytes of a row.
BoxRow(w, k, row) ==
  UNION {{8 * g + b : b \in Substituted(Added(k, Byte(row, g)))} : g \in 0 .. w - 1}

(* Key and S-box, byte by byte.                                            *)
LEMMA BoxBytes ==
  ASSUME NEW w \in Widths, NEW k, NEW row
  PROVE  /\ BoxRow(w, k, row) \in Banks(w)
         /\ \A l \in 0 .. w - 1 : Byte(BoxRow(w, k, row), l) = Substituted(Added(k, Byte(row, l)))
<1>. DEFINE out(g) == Substituted(Added(k, Byte(row, g)))
            all == UNION {{8 * g + b : b \in out(g)} : g \in 0 .. w - 1}
<1>1. BoxRow(w, k, row) = all
  BY DEF BoxRow
<1>2. \A g \in 0 .. w - 1 : out(g) \in Octets
  BY SubstitutedIsByte
<1>. HIDE DEF out
<1>3. \A at : at \in all <=> \E g \in 0 .. w - 1 : \E b \in out(g) : at = 8 * g + b
  OBVIOUS
<1>. HIDE DEF all
<1>4. \A g \in 0 .. w - 1 : g \in Nat
  BY DEF Widths
<1>5. all \in Banks(w)
  <2>1. \A g \in 0 .. w - 1, b \in 0 .. 7 : 8 * g + b \in 0 .. 8 * w - 1
    BY DEF Widths
  <2>. QED BY <1>2, <1>3, <2>1 DEF Banks, Octets
<1>6. ASSUME NEW l \in 0 .. w - 1 PROVE Byte(all, l) = out(l)
  <2>1. \A b \in 0 .. 7 : b \in Byte(all, l) <=> 8 * l + b \in all
    BY <1>4, ByteIn
  <2>2. ASSUME NEW b \in 0 .. 7 PROVE 8 * l + b \in all <=> b \in out(l)
    <3>1. ASSUME 8 * l + b \in all PROVE b \in out(l)
      <4>1. PICK g \in 0 .. w - 1, c \in 0 .. 7 : c \in out(g) /\ 8 * l + b = 8 * g + c
        BY <1>2, <1>3, <3>1 DEF Octets
      <4>2. g = l /\ c = b
        BY <1>4, <4>1
      <4>. QED BY <4>1, <4>2
    <3>2. ASSUME b \in out(l) PROVE 8 * l + b \in all
      BY <1>3, <3>2
    <3>. QED BY <3>1, <3>2
  <2>3. Byte(all, l) \in Octets /\ out(l) \in Octets
    BY <1>2, <1>4, ByteIn
  <2>. QED BY <2>1, <2>2, <2>3, SameOctets
<1>. QED BY <1>1, <1>5, <1>6 DEF out

(* Bits are shifted within their bytes.                                    *)
LEMMA ShiftedBits ==
  ASSUME NEW w \in Widths, NEW row \in Banks(w), NEW mask \in Octets,
         NEW k \in -7 .. 7, \A c \in mask : c + k \in 0 .. 7
  PROVE  /\ Shifted(w, row, mask, k) \in Banks(w)
         /\ \A l \in 0 .. w - 1 : \A b \in 0 .. 7 :
              8 * l + b \in Shifted(w, row, mask, k) <=> b - k \in mask /\ 8 * l + (b - k) \in row
<1>1. ASSUME NEW m \in 0 .. w - 1, NEW c \in 0 .. 7, c + k \in 0 .. 7
      PROVE  /\ (8 * m + c) % 8 = c
             /\ ((8 * m + c) + k) \div WordBits(w) = (8 * m + c) \div WordBits(w)
             /\ (8 * m + c) + k = 8 * m + (c + k)
             /\ 8 * m + (c + k) \in 0 .. 8 * w - 1
  <2>1. m \in Nat
    BY DEF Widths
  <2>2. (8 * m + c) % 8 = c /\ (8 * m + c) + k = 8 * m + (c + k)
    BY <2>1
  <2>3. 8 * m + (c + k) \in 0 .. 8 * w - 1
    BY <1>1 DEF Widths
  <2>4. ((8 * m + c) + k) \div 32 = (8 * m + c) \div 32
    BY <1>1, <2>1
  <2>5. ((8 * m + c) + k) \div 64 = (8 * m + c) \div 64
    BY <1>1, <2>1
  <2>. QED BY <2>2, <2>3, <2>4, <2>5 DEF WordBits
<1>2. \A x \in row : \E m \in 0 .. w - 1, c \in 0 .. 7 : x = 8 * m + c
  <2>. SUFFICES ASSUME NEW x \in 0 .. 8 * w - 1
                PROVE  \E m \in 0 .. w - 1, c \in 0 .. 7 : x = 8 * m + c
    BY DEF Banks
  <2>1. x \div 8 \in 0 .. w - 1 /\ x % 8 \in 0 .. 7 /\ x = 8 * (x \div 8) + (x % 8)
    BY DEF Widths
  <2>. QED BY <2>1
<1>3. \A at : at \in Shifted(w, row, mask, k)
               <=> \E x \in row : /\ x % 8 \in mask
                                  /\ (x + k) \div WordBits(w) = x \div WordBits(w)
                                  /\ at = x + k
  BY DEF Shifted
<1>4. \A c \in mask : c \in 0 .. 7 /\ c + k \in 0 .. 7
  BY DEF Octets
<1>5. ASSUME NEW at \in Shifted(w, row, mask, k)
      PROVE  \E m \in 0 .. w - 1, c \in mask : 8 * m + c \in row /\ at = 8 * m + (c + k)
  <2>1. PICK x \in row : x % 8 \in mask /\ at = x + k
    BY <1>3
  <2>2. PICK m \in 0 .. w - 1, c \in 0 .. 7 : x = 8 * m + c
    BY <1>2
  <2>3. (8 * m + c) % 8 = c
    BY <2>2 DEF Widths
  <2>4. c \in mask
    BY <2>1, <2>2, <2>3
  <2>5. at = 8 * m + (c + k)
    BY <1>1, <1>4, <2>1, <2>2, <2>4
  <2>. QED BY <2>1, <2>2, <2>4, <2>5
<1>6. ASSUME NEW m \in 0 .. w - 1, NEW c \in mask, 8 * m + c \in row
      PROVE  8 * m + (c + k) \in Shifted(w, row, mask, k)
  <2>1. /\ (8 * m + c) % 8 = c
        /\ ((8 * m + c) + k) \div WordBits(w) = (8 * m + c) \div WordBits(w)
        /\ (8 * m + c) + k = 8 * m + (c + k)
    BY <1>1, <1>4
  <2>. QED BY <1>3, <1>6, <2>1
<1>7. Shifted(w, row, mask, k) \in Banks(w)
  <2>1. ASSUME NEW at \in Shifted(w, row, mask, k) PROVE at \in 0 .. 8 * w - 1
    BY <1>1, <1>4, <1>5
  <2>. QED BY <2>1 DEF Banks
<1>8. ASSUME NEW l \in 0 .. w - 1, NEW b \in 0 .. 7
      PROVE  8 * l + b \in Shifted(w, row, mask, k) <=> b - k \in mask /\ 8 * l + (b - k) \in row
  <2>0. l \in Nat
    BY DEF Widths
  <2>1. ASSUME 8 * l + b \in Shifted(w, row, mask, k)
        PROVE  b - k \in mask /\ 8 * l + (b - k) \in row
    <3>1. PICK m \in 0 .. w - 1, c \in mask : 8 * m + c \in row /\ 8 * l + b = 8 * m + (c + k)
      BY <1>5, <2>1
    <3>2. m \in Nat /\ c \in 0 .. 7 /\ c + k \in 0 .. 7
      BY <1>4 DEF Widths
    <3>3. m = l /\ c + k = b /\ b - k = c
      BY <2>0, <3>1, <3>2
    <3>. QED BY <3>1, <3>3
  <2>2. ASSUME b - k \in mask, 8 * l + (b - k) \in row
        PROVE  8 * l + b \in Shifted(w, row, mask, k)
    <3>1. (b - k) + k = b
      OBVIOUS
    <3>2. 8 * l + ((b - k) + k) \in Shifted(w, row, mask, k)
      BY <1>6, <2>2
    <3>. QED BY <3>1, <3>2
  <2>. QED BY <2>1, <2>2
<1>. QED BY <1>7, <1>8

(* The bits of all bytes are permuted as those of each alone.              *)
LEMMA PermutedBytes ==
  ASSUME NEW w \in Widths, NEW row \in Banks(w)
  PROVE  /\ BatchPermuted(w, row) \in Banks(w)
         /\ \A l \in 0 .. w - 1 : Byte(BatchPermuted(w, row), l) = PermutedByte(Byte(row, l))
<1>. DEFINE s1 == Shifted(w, row, {0, 3, 5}, 1)
            s2 == Shifted(w, row, {1}, 6)
            s3 == Shifted(w, row, {2}, 3)
            s4 == Shifted(w, row, {4}, -2)
            s5 == Shifted(w, row, {6}, -6)
            s6 == Shifted(w, row, {7}, -4)
            all == BatchPermuted(w, row)
<1>1. \A at : at \in all <=> \/ at \in s1 \/ at \in s2 \/ at \in s3
                             \/ at \in s4 \/ at \in s5 \/ at \in s6
  BY DEF BatchPermuted
<1>2. /\ s1 \in Banks(w)
      /\ \A l \in 0 .. w - 1 : \A b \in 0 .. 7 :
           8 * l + b \in s1 <=> b - 1 \in {0, 3, 5} /\ 8 * l + (b - 1) \in row
  <2>. DEFINE mask == {0, 3, 5}
  <2>1. mask \in Octets /\ 1 \in -7 .. 7 /\ \A c \in mask : c + 1 \in 0 .. 7
    BY DEF Octets
  <2>. HIDE DEF mask
  <2>2. /\ Shifted(w, row, mask, 1) \in Banks(w)
        /\ \A l \in 0 .. w - 1 : \A b \in 0 .. 7 :
             8 * l + b \in Shifted(w, row, mask, 1) <=> b - 1 \in mask /\ 8 * l + (b - 1) \in row
    BY <2>1, ShiftedBits
  <2>. QED BY <2>2, Zenon DEF mask
<1>3. /\ s2 \in Banks(w)
      /\ \A l \in 0 .. w - 1 : \A b \in 0 .. 7 :
           8 * l + b \in s2 <=> b - 6 \in {1} /\ 8 * l + (b - 6) \in row
  <2>1. {1} \in Octets /\ 6 \in -7 .. 7 /\ \A c \in {1} : c + 6 \in 0 .. 7
    BY DEF Octets
  <2>. QED BY <2>1, ShiftedBits
<1>4. /\ s3 \in Banks(w)
      /\ \A l \in 0 .. w - 1 : \A b \in 0 .. 7 :
           8 * l + b \in s3 <=> b - 3 \in {2} /\ 8 * l + (b - 3) \in row
  <2>1. {2} \in Octets /\ 3 \in -7 .. 7 /\ \A c \in {2} : c + 3 \in 0 .. 7
    BY DEF Octets
  <2>. QED BY <2>1, ShiftedBits
<1>5. /\ s4 \in Banks(w)
      /\ \A l \in 0 .. w - 1 : \A b \in 0 .. 7 :
           8 * l + b \in s4 <=> b - (-2) \in {4} /\ 8 * l + (b - (-2)) \in row
  <2>1. {4} \in Octets /\ -2 \in -7 .. 7 /\ \A c \in {4} : c + (-2) \in 0 .. 7
    BY DEF Octets
  <2>. QED BY <2>1, ShiftedBits
<1>6. /\ s5 \in Banks(w)
      /\ \A l \in 0 .. w - 1 : \A b \in 0 .. 7 :
           8 * l + b \in s5 <=> b - (-6) \in {6} /\ 8 * l + (b - (-6)) \in row
  <2>1. {6} \in Octets /\ -6 \in -7 .. 7 /\ \A c \in {6} : c + (-6) \in 0 .. 7
    BY DEF Octets
  <2>. QED BY <2>1, ShiftedBits
<1>7. /\ s6 \in Banks(w)
      /\ \A l \in 0 .. w - 1 : \A b \in 0 .. 7 :
           8 * l + b \in s6 <=> b - (-4) \in {7} /\ 8 * l + (b - (-4)) \in row
  <2>1. {7} \in Octets /\ -4 \in -7 .. 7 /\ \A c \in {7} : c + (-4) \in 0 .. 7
    BY DEF Octets
  <2>. QED BY <2>1, ShiftedBits
<1>. HIDE DEF s1, s2, s3, s4, s5, s6, all
<1>8. all \in Banks(w)
  BY <1>1, <1>2, <1>3, <1>4, <1>5, <1>6, <1>7 DEF Banks
<1>9. ASSUME NEW l \in 0 .. w - 1 PROVE Byte(all, l) = PermutedByte(Byte(row, l))
  <2>. DEFINE byte == Byte(row, l)
  <2>1. l \in Nat
    BY DEF Widths
  <2>2. byte \in Octets /\ \A b \in 0 .. 7 : b \in byte <=> 8 * l + b \in row
    BY <2>1, ByteIn
  <2>3. Byte(all, l) \in Octets /\ \A b \in 0 .. 7 : b \in Byte(all, l) <=> 8 * l + b \in all
    BY <2>1, ByteIn
  <2>. HIDE DEF byte
  <2>4. /\ 8 * l + 0 \in all <=> 6 \in byte
        /\ 8 * l + 1 \in all <=> 0 \in byte
        /\ 8 * l + 2 \in all <=> 4 \in byte
        /\ 8 * l + 3 \in all <=> 7 \in byte
        /\ 8 * l + 4 \in all <=> 3 \in byte
        /\ 8 * l + 5 \in all <=> 2 \in byte
        /\ 8 * l + 6 \in all <=> 5 \in byte
        /\ 8 * l + 7 \in all <=> 1 \in byte
    BY <1>1, <1>2, <1>3, <1>4, <1>5, <1>6, <1>7, <2>2
  <2>5. \A b : b \in PermutedByte(byte)
               <=> \E k \in byte : b = (<<1, 7, 5, 4, 2, 6, 0, 3>>)[k + 1]
    BY DEF PermutedByte
  <2>6. PermutedByte(byte) \in Octets
    <3>1. \A k \in 0 .. 7 : (<<1, 7, 5, 4, 2, 6, 0, 3>>)[k + 1] \in 0 .. 7
      OBVIOUS
    <3>. QED BY <2>2, <2>5, <3>1 DEF Octets
  <2>7. /\ 0 \in PermutedByte(byte) <=> 6 \in byte
        /\ 1 \in PermutedByte(byte) <=> 0 \in byte
        /\ 2 \in PermutedByte(byte) <=> 4 \in byte
        /\ 3 \in PermutedByte(byte) <=> 7 \in byte
        /\ 4 \in PermutedByte(byte) <=> 3 \in byte
        /\ 5 \in PermutedByte(byte) <=> 2 \in byte
        /\ 6 \in PermutedByte(byte) <=> 5 \in byte
        /\ 7 \in PermutedByte(byte) <=> 1 \in byte
    <3>1. \A k \in byte : k \in 0 .. 7
      BY <2>2 DEF Octets
    <3>. QED BY <2>5, <3>1
  <2>8. \A b \in 0 .. 7 : b \in {0, 1, 2, 3, 4, 5, 6, 7}
    OBVIOUS
  <2>9. \A b \in 0 .. 7 : b \in Byte(all, l) <=> b \in PermutedByte(byte)
    <3>1. \A b \in {0, 1, 2, 3, 4, 5, 6, 7} : 8 * l + b \in all <=> b \in PermutedByte(byte)
      BY <2>4, <2>7
    <3>. QED BY <2>3, <2>8, <3>1
  <2>10. Byte(all, l) = PermutedByte(byte)
    BY <2>3, <2>6, <2>9, SameOctets
  <2>. QED BY <2>10 DEF byte
<1>. QED BY <1>8, <1>9 DEF all

\* The registers of a group, and of one packet.
GroupRegs(w) == [1 .. 8 -> Banks(w)]
OwnRegs == [1 .. 8 -> Octets]

(* Eight registers.                                                        *)
LEMMA EightOf ==
  \A S : \A a1, a2, a3, a4, a5, a6, a7, a8 \in S :
    <<a1, a2, a3, a4, a5, a6, a7, a8>> \in [1 .. 8 -> S]
<1>. TAKE S
<1>. TAKE a1, a2, a3, a4, a5, a6, a7, a8 \in S
<1>. DEFINE t == <<a1, a2, a3, a4, a5, a6, a7, a8>>
<1>1. DOMAIN t = 1 .. 8 /\ t = [j \in DOMAIN t |-> t[j]]
  OBVIOUS
<1>2. \A j \in 1 .. 8 : t[j] \in S
  OBVIOUS
<1>. HIDE DEF t
<1>. QED BY <1>1, <1>2

(* A round of the group is a round of each packet.                         *)
LEMMA RoundOfEach ==
  ASSUME NEW w \in Widths, NEW r \in GroupRegs(w), NEW k
  PROVE  /\ Round(w, r, k) \in GroupRegs(w)
         /\ \A l \in 0 .. w - 1 : \A own \in OwnRegs :
              (\A j \in 1 .. 8 : own[j] = Byte(r[j], l))
                => \A j \in 1 .. 8 : OneRound(own, k)[j] = Byte(Round(w, r, k)[j], l)
<1>. DEFINE box == BoxRow(w, k, r[7])
            new == Added(r[8], box)
            perm == BatchPermuted(w, box)
<1>1. Round(w, r, k) = <<new, r[1], Added(r[2], new), Added(r[3], new), Added(r[4], new), r[5],
                         Added(r[6], perm), r[7]>>
  BY DEF Round, BoxRow
<1>2. /\ box \in Banks(w)
      /\ \A l \in 0 .. w - 1 : Byte(box, l) = Substituted(Added(k, Byte(r[7], l)))
  BY BoxBytes
<1>. HIDE DEF box
<1>3. /\ perm \in Banks(w)
      /\ \A l \in 0 .. w - 1 : Byte(perm, l) = PermutedByte(Byte(box, l))
  BY <1>2, PermutedBytes
<1>. HIDE DEF perm
<1>4. w \in Nat /\ \A l \in 0 .. w - 1 : l \in Nat
  BY DEF Widths
<1>5. \A j \in 1 .. 8 : r[j] \in Banks(w)
  BY DEF GroupRegs
<1>6. new \in Banks(w)
  BY <1>2, <1>4, <1>5, AddedTyped
<1>7. /\ Added(r[2], new) \in Banks(w) /\ Added(r[3], new) \in Banks(w)
      /\ Added(r[4], new) \in Banks(w) /\ Added(r[6], perm) \in Banks(w)
  BY <1>3, <1>4, <1>5, <1>6, AddedTyped
<1>8. \A l \in 0 .. w - 1 :
        /\ Byte(new, l) = Added(Byte(r[8], l), Byte(box, l))
        /\ Byte(Added(r[2], new), l) = Added(Byte(r[2], l), Byte(new, l))
        /\ Byte(Added(r[3], new), l) = Added(Byte(r[3], l), Byte(new, l))
        /\ Byte(Added(r[4], new), l) = Added(Byte(r[4], l), Byte(new, l))
        /\ Byte(Added(r[6], perm), l) = Added(Byte(r[6], l), Byte(perm, l))
  <2>. SUFFICES ASSUME NEW l \in 0 .. w - 1
                PROVE  /\ Byte(new, l) = Added(Byte(r[8], l), Byte(box, l))
                       /\ Byte(Added(r[2], new), l) = Added(Byte(r[2], l), Byte(new, l))
                       /\ Byte(Added(r[3], new), l) = Added(Byte(r[3], l), Byte(new, l))
                       /\ Byte(Added(r[4], new), l) = Added(Byte(r[4], l), Byte(new, l))
                       /\ Byte(Added(r[6], perm), l) = Added(Byte(r[6], l), Byte(perm, l))
    OBVIOUS
  <2>1. \A a, b : Byte(Added(a, b), l) = Added(Byte(a, l), Byte(b, l))
    BY <1>4, AddedBytes
  <2>2. Byte(new, l) = Added(Byte(r[8], l), Byte(box, l))
    BY <2>1
  <2>. HIDE DEF new
  <2>. QED BY <2>1, <2>2
<1>. HIDE DEF new
<1>9. Round(w, r, k) \in GroupRegs(w)
  <2>. DEFINE a3 == Added(r[2], new)
              a4 == Added(r[3], new)
              a5 == Added(r[4], new)
              a7 == Added(r[6], perm)
              b2 == r[1]
              b6 == r[5]
              b8 == r[7]
              S  == Banks(w)
  <2>1. /\ new \in S /\ b2 \in S /\ a3 \in S /\ a4 \in S /\ a5 \in S
        /\ b6 \in S /\ a7 \in S /\ b8 \in S
    BY <1>5, <1>6, <1>7
  <2>. HIDE DEF a3, a4, a5, a7, b2, b6, b8, S
  <2>2. <<new, b2, a3, a4, a5, b6, a7, b8>> \in [1 .. 8 -> S]
    BY <2>1, EightOf, Zenon
  <2>. QED BY <1>1, <2>2 DEF a3, a4, a5, a7, b2, b6, b8, S, GroupRegs
<1>10. ASSUME NEW l \in 0 .. w - 1, NEW own \in OwnRegs,
              \A j \in 1 .. 8 : own[j] = Byte(r[j], l),
              NEW j \in 1 .. 8
       PROVE  OneRound(own, k)[j] = Byte(Round(w, r, k)[j], l)
  <2>. DEFINE s == Substituted(Added(k, own[7]))
              n == Added(own[8], s)
  <2>1. /\ own[1] = Byte(r[1], l) /\ own[2] = Byte(r[2], l) /\ own[3] = Byte(r[3], l)
        /\ own[4] = Byte(r[4], l) /\ own[5] = Byte(r[5], l) /\ own[6] = Byte(r[6], l)
        /\ own[7] = Byte(r[7], l) /\ own[8] = Byte(r[8], l)
    BY <1>10
  <2>2. s = Byte(box, l)
    BY <1>2, <2>1
  <2>3. n = Byte(new, l)
    BY <1>8, <2>1, <2>2
  <2>4. OneRound(own, k) = <<n, own[1], Added(own[2], n), Added(own[3], n), Added(own[4], n),
                             own[5], Added(own[6], PermutedByte(s)), own[7]>>
    BY DEF OneRound
  <2>. HIDE DEF s, n
  <2>5. PermutedByte(s) = Byte(perm, l)
    BY <1>3, <2>2
  <2>. QED BY <1>1, <1>8, <2>1, <2>3, <2>4, <2>5
<1>. QED BY <1>9, <1>10
-----------------------------------------------------------------------------
(* The 56 rounds.                                                          *)

\* A step for each round, from the last key byte to the first.
RoundSteps(S) == [(0 .. 55) \X S -> S]
RoundsDown(f, base, T) == f[56] = base /\ \A i \in 0 .. 55 : f[i] = T[<<i, f[i + 1]>>]

(* The rounds from 56 down to 0 define a function.                         *)
LEMMA DownRecursion ==
  \A S : \A base \in S : \A T \in RoundSteps(S) : \E f \in [0 .. 56 -> S] : RoundsDown(f, base, T)
<1>. SUFFICES ASSUME NEW S, NEW base \in S, NEW T \in RoundSteps(S)
              PROVE  \E f \in [0 .. 56 -> S] : RoundsDown(f, base, T)
  OBVIOUS
<1>. DEFINE U == [x \in (1 .. 56) \X S |-> T[<<56 - x[1], x[2]>>]]
<1>1. \A i \in 0 .. 55, s \in S : T[<<i, s>>] \in S
  BY DEF RoundSteps
<1>2. U \in StepsUpTo(56, S)
  <2>. SUFFICES ASSUME NEW x \in (1 .. 56) \X S PROVE T[<<56 - x[1], x[2]>>] \in S
    BY DEF StepsUpTo
  <2>1. 56 - x[1] \in 0 .. 55 /\ x[2] \in S
    OBVIOUS
  <2>. QED BY <1>1, <2>1
<1>3. \A k \in 1 .. 56, s \in S : U[<<k, s>>] = T[<<56 - k, s>>]
  OBVIOUS
<1>. HIDE DEF U
<1>4. PICK h \in [0 .. 56 -> S] : GoesUpTo(56, h, base, U)
  BY <1>2, RecursionOf
<1>. DEFINE f == [i \in 0 .. 56 |-> h[56 - i]]
<1>5. f \in [0 .. 56 -> S] /\ \A i \in 0 .. 56 : f[i] = h[56 - i]
  OBVIOUS
<1>. HIDE DEF f
<1>6. f[56] = base
  BY <1>4, <1>5 DEF GoesUpTo
<1>7. ASSUME NEW i \in 0 .. 55 PROVE f[i] = T[<<i, f[i + 1]>>]
  <2>1. /\ i \in 0 .. 56 /\ i + 1 \in 0 .. 56 /\ 56 - i \in 1 .. 56 /\ 56 - i \in 0 .. 56
        /\ (56 - i) - 1 = 56 - (i + 1) /\ 56 - (56 - i) = i /\ 56 - (i + 1) \in 0 .. 56
    OBVIOUS
  <2>2. f[i] = h[56 - i] /\ f[i + 1] = h[56 - (i + 1)] /\ h[56 - (i + 1)] \in S
    BY <1>5, <2>1
  <2>3. h[56 - i] = U[<<56 - i, h[(56 - i) - 1]>>]
    BY <1>4, <2>1 DEF GoesUpTo
  <2>4. U[<<56 - i, h[56 - (i + 1)]>>] = T[<<56 - (56 - i), h[56 - (i + 1)]>>]
    BY <1>3, <2>1, <2>2
  <2>. QED BY <2>1, <2>2, <2>3, <2>4
<1>. QED BY <1>5, <1>6, <1>7 DEF RoundsDown

(* What holds of 56, and of i if it holds of i + 1, holds from 0 to 56.    *)
ClosedDown(H) == 56 \in H /\ \A i \in 0 .. 55 : i + 1 \in H => i \in H

(* What holds after no round, and after a round if before it, holds after  *)
(* all.                                                                    *)
LEMMA DownInduction ==
  \A H : ClosedDown(H) => \A i \in 0 .. 56 : i \in H
<1>. SUFFICES ASSUME NEW H, ClosedDown(H) PROVE \A i \in 0 .. 56 : i \in H
  OBVIOUS
<1>. DEFINE G == {n \in Nat : 56 - n \in H}
<1>1. 0 \in G
  <2>1. 56 - 0 = 56 /\ 0 \in Nat
    OBVIOUS
  <2>2. 56 - 0 \in H
    BY <2>1 DEF ClosedDown
  <2>. QED BY <2>1, <2>2
<1>2. ASSUME NEW k \in 0 .. 56 - 1, 56 - k \in H PROVE k + 1 \in Nat /\ 56 - (k + 1) \in H
  <2>1. 56 - (k + 1) \in 0 .. 55 /\ (56 - (k + 1)) + 1 = 56 - k /\ k + 1 \in Nat
    OBVIOUS
  <2>2. (56 - (k + 1)) + 1 \in H
    BY <1>2, <2>1
  <2>. DEFINE i == 56 - (k + 1)
  <2>3. i \in 0 .. 55 /\ i + 1 \in H
    BY <2>1, <2>2
  <2>. HIDE DEF i
  <2>4. i \in H
    BY <2>3 DEF ClosedDown
  <2>. QED BY <2>1, <2>4 DEF i
<1>3. 0 .. 56 \subseteq G
  <2>. HIDE DEF G
  <2>1. 56 \in Nat
    OBVIOUS
  <2>2. \A k \in 0 .. 56 - 1 : k \in G => k + 1 \in G
    BY <1>2 DEF G
  <2>. QED BY <1>1, <2>1, <2>2, InductionUpTo
<1>4. ASSUME NEW i \in 0 .. 56 PROVE i \in H
  <2>1. 56 - i \in 0 .. 56 /\ 56 - (56 - i) = i
    OBVIOUS
  <2>2. 56 - (56 - i) \in H
    BY <1>3, <2>1
  <2>. QED BY <2>1, <2>2
<1>. QED BY <1>4

(* A round makes eight bytes of eight bytes.                               *)
LEMMA OneRoundTyped ==
  \A own \in OwnRegs : \A k : OneRound(own, k) \in OwnRegs
<1>. SUFFICES ASSUME NEW own \in OwnRegs, NEW k PROVE OneRound(own, k) \in OwnRegs
  OBVIOUS
<1>. DEFINE s  == Substituted(Added(k, own[7]))
            n  == Added(own[8], s)
            p  == PermutedByte(s)
            a3 == Added(own[2], n)
            a4 == Added(own[3], n)
            a5 == Added(own[4], n)
            a7 == Added(own[6], p)
            b2 == own[1]
            b6 == own[5]
            b8 == own[7]
<1>1. OneRound(own, k) = <<n, b2, a3, a4, a5, b6, a7, b8>>
  BY DEF OneRound
<1>2. s \in Octets
  BY SubstitutedIsByte
<1>. HIDE DEF s
<1>3. p \in Octets
  <2>1. \A b : b \in p <=> \E i \in s : b = (<<1, 7, 5, 4, 2, 6, 0, 3>>)[i + 1]
    BY DEF PermutedByte
  <2>2. \A i \in 0 .. 7 : (<<1, 7, 5, 4, 2, 6, 0, 3>>)[i + 1] \in 0 .. 7
    OBVIOUS
  <2>. HIDE DEF p
  <2>. QED BY <1>2, <2>1, <2>2 DEF Octets
<1>. HIDE DEF p
<1>4. \A j \in 1 .. 8 : own[j] \in Octets
  BY DEF OwnRegs
<1>5. \A a, b \in Octets : Added(a, b) \in Octets
  BY DEF Octets, Added
<1>6. n \in Octets
  BY <1>2, <1>4, <1>5
<1>. HIDE DEF n
<1>7. a3 \in Octets /\ a4 \in Octets /\ a5 \in Octets /\ a7 \in Octets
  BY <1>3, <1>4, <1>5, <1>6
<1>8. b2 \in Octets /\ b6 \in Octets /\ b8 \in Octets
  BY <1>4
<1>. HIDE DEF a3, a4, a5, a7, b2, b6, b8
<1>9. <<n, b2, a3, a4, a5, b6, a7, b8>> \in [1 .. 8 -> Octets]
  BY <1>6, <1>7, <1>8, EightOf, Zenon
<1>. QED BY <1>1, <1>9 DEF OwnRegs

\* The bytes of a block, and the rows of the registers' memory.
BytesOf(block) == <<Byte(block, 0), Byte(block, 1), Byte(block, 2), Byte(block, 3),
                    Byte(block, 4), Byte(block, 5), Byte(block, 6), Byte(block, 7)>>
RowsOf(w, mem) == <<Row(8 * w, mem, 0), Row(8 * w, mem, 1), Row(8 * w, mem, 2),
                    Row(8 * w, mem, 3), Row(8 * w, mem, 4), Row(8 * w, mem, 5),
                    Row(8 * w, mem, 6), Row(8 * w, mem, 7)>>

(* A block is eight bytes.                                                 *)
LEMMA BytesTyped ==
  \A block : BytesOf(block) \in OwnRegs /\ \A j \in 1 .. 8 : BytesOf(block)[j] = Byte(block, j - 1)
<1>. TAKE block
<1>1. \A i \in 0 .. 7 : Byte(block, i) \in Octets
  BY ByteIn
<1>. DEFINE b0 == Byte(block, 0)
            b1 == Byte(block, 1)
            b2 == Byte(block, 2)
            b3 == Byte(block, 3)
            b4 == Byte(block, 4)
            b5 == Byte(block, 5)
            b6 == Byte(block, 6)
            b7 == Byte(block, 7)
<1>2. /\ b0 \in Octets /\ b1 \in Octets /\ b2 \in Octets /\ b3 \in Octets
      /\ b4 \in Octets /\ b5 \in Octets /\ b6 \in Octets /\ b7 \in Octets
  BY <1>1
<1>3. BytesOf(block) = <<b0, b1, b2, b3, b4, b5, b6, b7>>
  BY DEF BytesOf
<1>4. \A j \in 1 .. 8 : BytesOf(block)[j] = Byte(block, j - 1)
  <2>1. \A j \in 1 .. 8 : \/ j = 1 \/ j = 2 \/ j = 3 \/ j = 4 \/ j = 5 \/ j = 6 \/ j = 7 \/ j = 8
    OBVIOUS
  <2>. QED BY <2>1 DEF BytesOf
<1>. HIDE DEF b0, b1, b2, b3, b4, b5, b6, b7
<1>5. <<b0, b1, b2, b3, b4, b5, b6, b7>> \in [1 .. 8 -> Octets]
  BY <1>2, EightOf, Zenon
<1>. QED BY <1>3, <1>4, <1>5 DEF OwnRegs

(* The registers of a group are eight rows.                                *)
LEMMA RowsTyped ==
  \A w \in Widths : \A mem :
    RowsOf(w, mem) \in GroupRegs(w) /\ \A j \in 1 .. 8 : RowsOf(w, mem)[j] = Row(8 * w, mem, j - 1)
<1>. SUFFICES ASSUME NEW w \in Widths, NEW mem
              PROVE  /\ RowsOf(w, mem) \in GroupRegs(w)
                     /\ \A j \in 1 .. 8 : RowsOf(w, mem)[j] = Row(8 * w, mem, j - 1)
  OBVIOUS
<1>1. \A i : Row(8 * w, mem, i) \in Banks(w)
  BY DEF Row, Banks
<1>. DEFINE b0 == Row(8 * w, mem, 0)
            b1 == Row(8 * w, mem, 1)
            b2 == Row(8 * w, mem, 2)
            b3 == Row(8 * w, mem, 3)
            b4 == Row(8 * w, mem, 4)
            b5 == Row(8 * w, mem, 5)
            b6 == Row(8 * w, mem, 6)
            b7 == Row(8 * w, mem, 7)
            S  == Banks(w)
<1>2. /\ b0 \in S /\ b1 \in S /\ b2 \in S /\ b3 \in S
      /\ b4 \in S /\ b5 \in S /\ b6 \in S /\ b7 \in S
  BY <1>1
<1>3. RowsOf(w, mem) = <<b0, b1, b2, b3, b4, b5, b6, b7>>
  BY DEF RowsOf
<1>4. \A j \in 1 .. 8 : RowsOf(w, mem)[j] = Row(8 * w, mem, j - 1)
  <2>1. \A j \in 1 .. 8 : \/ j = 1 \/ j = 2 \/ j = 3 \/ j = 4 \/ j = 5 \/ j = 6 \/ j = 7 \/ j = 8
    OBVIOUS
  <2>. QED BY <2>1 DEF RowsOf
<1>. HIDE DEF b0, b1, b2, b3, b4, b5, b6, b7, S
<1>5. <<b0, b1, b2, b3, b4, b5, b6, b7>> \in [1 .. 8 -> S]
  BY <1>2, EightOf, Zenon
<1>. QED BY <1>3, <1>4, <1>5 DEF GroupRegs, S

\* The registers after the rounds of the key bytes from i on.
AloneRounds(f, ks, block) ==
  f = [i \in 0 .. 56 |-> IF i = 56 THEN BytesOf(block) ELSE OneRound(f[i + 1], ks[i])]
GroupRounds(f, w, ks, mem) ==
  f = [i \in 0 .. 56 |-> IF i = 56 THEN RowsOf(w, mem) ELSE Round(w, f[i + 1], ks[i])]

(* The rounds of a packet alone exist, whatever key and block.             *)
LEMMA AloneRoundsExist ==
  \A ks, block : \E f : AloneRounds(f, ks, block)
<1>. SUFFICES ASSUME NEW ks, NEW block PROVE \E f : AloneRounds(f, ks, block)
  OBVIOUS
<1>. DEFINE T == [x \in (0 .. 55) \X OwnRegs |-> OneRound(x[2], ks[x[1]])]
<1>1. T \in RoundSteps(OwnRegs)
  BY OneRoundTyped DEF RoundSteps
<1>2. \A i \in 0 .. 55, r \in OwnRegs : T[<<i, r>>] = OneRound(r, ks[i])
  OBVIOUS
<1>. HIDE DEF T
<1>3. PICK f \in [0 .. 56 -> OwnRegs] : RoundsDown(f, BytesOf(block), T)
  BY <1>1, BytesTyped, DownRecursion
<1>4. ASSUME NEW i \in 0 .. 56
      PROVE  f[i] = IF i = 56 THEN BytesOf(block) ELSE OneRound(f[i + 1], ks[i])
  <2>1. CASE i = 56
    BY <1>3, <2>1 DEF RoundsDown
  <2>2. CASE i # 56
    <3>1. i \in 0 .. 55 /\ i + 1 \in 0 .. 56
      BY <2>2
    <3>2. f[i] = T[<<i, f[i + 1]>>] /\ f[i + 1] \in OwnRegs
      BY <1>3, <3>1 DEF RoundsDown
    <3>. QED BY <1>2, <2>2, <3>1, <3>2
  <2>. QED BY <2>1, <2>2
<1>5. f = [i \in 0 .. 56 |-> f[i]]
  BY <1>3
<1>6. f = [i \in 0 .. 56 |-> IF i = 56 THEN BytesOf(block) ELSE OneRound(f[i + 1], ks[i])]
  BY <1>4, <1>5
<1>. QED BY <1>6 DEF AloneRounds

(* The rounds of a group exist, whatever key and registers.                *)
LEMMA GroupRoundsExist ==
  \A w \in Widths : \A ks, mem : \E f : GroupRounds(f, w, ks, mem)
<1>. SUFFICES ASSUME NEW w \in Widths, NEW ks, NEW mem PROVE \E f : GroupRounds(f, w, ks, mem)
  OBVIOUS
<1>. DEFINE T == [x \in (0 .. 55) \X GroupRegs(w) |-> Round(w, x[2], ks[x[1]])]
<1>1. T \in RoundSteps(GroupRegs(w))
  BY RoundOfEach DEF RoundSteps
<1>2. \A i \in 0 .. 55, r \in GroupRegs(w) : T[<<i, r>>] = Round(w, r, ks[i])
  OBVIOUS
<1>. HIDE DEF T
<1>3. PICK f \in [0 .. 56 -> GroupRegs(w)] : RoundsDown(f, RowsOf(w, mem), T)
  BY <1>1, RowsTyped, DownRecursion
<1>4. ASSUME NEW i \in 0 .. 56
      PROVE  f[i] = IF i = 56 THEN RowsOf(w, mem) ELSE Round(w, f[i + 1], ks[i])
  <2>1. CASE i = 56
    BY <1>3, <2>1 DEF RoundsDown
  <2>2. CASE i # 56
    <3>1. i \in 0 .. 55 /\ i + 1 \in 0 .. 56
      BY <2>2
    <3>2. f[i] = T[<<i, f[i + 1]>>] /\ f[i + 1] \in GroupRegs(w)
      BY <1>3, <3>1 DEF RoundsDown
    <3>. QED BY <1>2, <2>2, <3>1, <3>2
  <2>. QED BY <2>1, <2>2
<1>5. f = [i \in 0 .. 56 |-> f[i]]
  BY <1>3
<1>6. f = [i \in 0 .. 56 |-> IF i = 56 THEN RowsOf(w, mem) ELSE Round(w, f[i + 1], ks[i])]
  BY <1>4, <1>5
<1>. QED BY <1>6 DEF GroupRounds

(* What the definitions of the cypher choose.                              *)
LEMMA AloneIs ==
  \A ks, block : \E f : AloneRounds(f, ks, block)
    /\ DecypheredAlone(ks, block) = UNION {{8 * (j - 1) + b : b \in f[0][j]} : j \in 1 .. 8}
<1>. SUFFICES ASSUME NEW ks, NEW block
              PROVE  \E f : /\ AloneRounds(f, ks, block)
                            /\ DecypheredAlone(ks, block)
                                 = UNION {{8 * (j - 1) + b : b \in f[0][j]} : j \in 1 .. 8}
  OBVIOUS
<1>. DEFINE f == CHOOSE f : AloneRounds(f, ks, block)
<1>1. AloneRounds(f, ks, block)
  BY AloneRoundsExist
<1>2. DecypheredAlone(ks, block) = UNION {{8 * (j - 1) + b : b \in f[0][j]} : j \in 1 .. 8}
  BY Zenon DEF DecypheredAlone, AloneRounds, BytesOf
<1>. HIDE DEF f
<1>. QED BY <1>1, <1>2

(* The same for the registers of a group.                                  *)
LEMMA GroupIs ==
  \A w \in Widths : \A ks, blocks, count, stack :
    \E f : /\ GroupRounds(f, w, ks, trasp_N_8(w, blocks, count, stack))
           /\ Registers(w, ks, blocks, count, stack) = f[0]
<1>. SUFFICES ASSUME NEW w \in Widths, NEW ks, NEW blocks, NEW count, NEW stack
              PROVE  \E f : /\ GroupRounds(f, w, ks, trasp_N_8(w, blocks, count, stack))
                            /\ Registers(w, ks, blocks, count, stack) = f[0]
  OBVIOUS
<1>. DEFINE f == CHOOSE f : GroupRounds(f, w, ks, trasp_N_8(w, blocks, count, stack))
<1>1. GroupRounds(f, w, ks, trasp_N_8(w, blocks, count, stack))
  BY GroupRoundsExist
<1>2. Registers(w, ks, blocks, count, stack) = f[0]
  BY Zenon DEF Registers, GroupRounds, RowsOf
<1>. HIDE DEF f
<1>. QED BY <1>1, <1>2
-----------------------------------------------------------------------------
(* The block cypher of a group is that of each packet alone.               *)

\* The place of packet g holds the registers of its block alone.
Holds(w, g, bank, own) ==
  /\ bank \in GroupRegs(w) /\ own \in OwnRegs
  /\ \A j \in 1 .. 8 : own[j] = Byte(bank[j], PlaceIn(w, g))

(* Before the first round each packet has in the registers of the group    *)
(* what it would have alone.                                               *)
LEMMA StartsAlike ==
  ASSUME NEW w \in Widths, NEW g \in 0 .. w - 1, NEW mem, NEW block \in SUBSET (0 .. 63),
         \A x \in 0 .. 63 : PlacedBit(w, g, x) \in mem <=> x \in block
  PROVE  Holds(w, g, RowsOf(w, mem), BytesOf(block))
<1>. DEFINE l == PlaceIn(w, g)
<1>. HIDE DEF l
<1>0. l \in 0 .. w - 1 /\ l \in Nat
  <2>1. l \in 0 .. w - 1
    BY BlockPlaced DEF l
  <2>. QED BY <2>1 DEF Widths
<1>1. ASSUME NEW j \in 1 .. 8
      PROVE  Byte(block, j - 1) = Byte(Row(8 * w, mem, j - 1), l)
  <2>. DEFINE i == j - 1
              row == Row(8 * w, mem, i)
  <2>1. i \in 0 .. 7 /\ i \in Nat
    OBVIOUS
  <2>2. \A at : at \in row <=> at \in 0 .. 8 * w - 1 /\ i * (8 * w) + at \in mem
    BY DEF Row
  <2>. HIDE DEF i, row
  <2>3. /\ Byte(block, i) \in Octets
        /\ \A b \in 0 .. 7 : b \in Byte(block, i) <=> 8 * i + b \in block
    BY <2>1, ByteIn
  <2>4. /\ Byte(row, l) \in Octets
        /\ \A b \in 0 .. 7 : b \in Byte(row, l) <=> 8 * l + b \in row
    BY <1>0, ByteIn
  <2>5. ASSUME NEW b \in 0 .. 7 PROVE 8 * l + b \in row <=> 8 * i + b \in block
    <3>1. 8 * i + b \in 0 .. 63 /\ (8 * i + b) \div 8 = i /\ (8 * i + b) % 8 = b
      BY <2>1
    <3>2. PlacedBit(w, g, 8 * i + b) = BitAt(w * i + l, b)
      BY <3>1 DEF PlacedBit, l
    <3>3. 8 * l + b \in 0 .. 8 * w - 1
      BY <1>0 DEF Widths
    <3>4. BitAt(w * i + l, b) = i * (8 * w) + (8 * l + b)
      <4>1. CASE w = 32
        BY <1>0, <2>1, <4>1 DEF BitAt
      <4>2. CASE w = 64
        BY <1>0, <2>1, <4>2 DEF BitAt
      <4>3. CASE w = 128
        BY <1>0, <2>1, <4>3 DEF BitAt
      <4>. QED BY <4>1, <4>2, <4>3 DEF Widths
    <3>. QED BY <2>2, <3>1, <3>2, <3>3, <3>4
  <2>6. Byte(block, i) = Byte(row, l)
    BY <2>3, <2>4, <2>5, SameOctets
  <2>. QED BY <2>6 DEF i, row
<1>2. /\ RowsOf(w, mem) \in GroupRegs(w)
      /\ \A j \in 1 .. 8 : RowsOf(w, mem)[j] = Row(8 * w, mem, j - 1)
  BY RowsTyped
<1>3. /\ BytesOf(block) \in OwnRegs
      /\ \A j \in 1 .. 8 : BytesOf(block)[j] = Byte(block, j - 1)
  BY BytesTyped
<1>. QED BY <1>1, <1>2, <1>3 DEF Holds, l

(* So it has after every round.                                            *)
LEMMA RoundsAlike ==
  ASSUME NEW w \in Widths, NEW g \in 0 .. w - 1, NEW ks, NEW mem, NEW block, NEW f, NEW a,
         GroupRounds(f, w, ks, mem), AloneRounds(a, ks, block),
         Holds(w, g, RowsOf(w, mem), BytesOf(block))
  PROVE  Holds(w, g, f[0], a[0])
<1>. DEFINE H == {i \in 0 .. 56 : Holds(w, g, f[i], a[i])}
<1>0. PlaceIn(w, g) \in 0 .. w - 1
  BY BlockPlaced
<1>1. 56 \in H
  <2>1. f[56] = RowsOf(w, mem) /\ a[56] = BytesOf(block)
    BY DEF GroupRounds, AloneRounds
  <2>. QED BY <2>1
<1>2. ASSUME NEW i \in 0 .. 55, i + 1 \in H PROVE i \in H
  <2>1. i \in 0 .. 56 /\ i # 56
    OBVIOUS
  <2>2. f[i] = Round(w, f[i + 1], ks[i]) /\ a[i] = OneRound(a[i + 1], ks[i])
    BY <2>1 DEF GroupRounds, AloneRounds
  <2>3. Holds(w, g, f[i + 1], a[i + 1])
    BY <1>2
  <2>. DEFINE r == f[i + 1]
              own == a[i + 1]
              k == ks[i]
  <2>4. r \in GroupRegs(w) /\ own \in OwnRegs /\ \A j \in 1 .. 8 : own[j] = Byte(r[j], PlaceIn(w, g))
    BY <2>3 DEF Holds
  <2>. HIDE DEF r, own, k
  <2>5. Round(w, r, k) \in GroupRegs(w)
    BY <2>4, RoundOfEach
  <2>6. \A j \in 1 .. 8 : OneRound(own, k)[j] = Byte(Round(w, r, k)[j], PlaceIn(w, g))
    BY <1>0, <2>4, RoundOfEach
  <2>7. OneRound(own, k) \in OwnRegs
    BY <2>4, OneRoundTyped
  <2>8. Holds(w, g, Round(w, r, k), OneRound(own, k))
    BY <2>5, <2>6, <2>7 DEF Holds
  <2>. QED BY <2>1, <2>2, <2>8 DEF r, own, k
<1>. HIDE DEF H
<1>3. ClosedDown(H)
  BY <1>1, <1>2 DEF ClosedDown
<1>4. 0 \in 0 .. 56
  OBVIOUS
<1>5. 0 \in H
  BY <1>3, <1>4, DownInduction
<1>. QED BY <1>5 DEF H

\* The bits in a row of the registers.
RowSizes == {256, 512, 1024}

(* The rows of the registers do not overlap.                               *)
LEMMA PartsOf ==
  \A d \in RowSizes : \A n \in 0 .. 7, m \in Nat :
    m < d => /\ d * n + m \in Nat /\ d * n + m < 64 * d
             /\ (d * n + m) \div d = n /\ (d * n + m) % d = m
<1>1. \A n \in 0 .. 7, m \in Nat :
        m < 256 => /\ 256 * n + m \in Nat /\ 256 * n + m < 64 * 256
                   /\ (256 * n + m) \div 256 = n /\ (256 * n + m) % 256 = m
  OBVIOUS
<1>2. \A n \in 0 .. 7, m \in Nat :
        m < 512 => /\ 512 * n + m \in Nat /\ 512 * n + m < 64 * 512
                   /\ (512 * n + m) \div 512 = n /\ (512 * n + m) % 512 = m
  OBVIOUS
<1>3. \A n \in 0 .. 7, m \in Nat :
        m < 1024 => /\ 1024 * n + m \in Nat /\ 1024 * n + m < 64 * 1024
                    /\ (1024 * n + m) \div 1024 = n /\ (1024 * n + m) % 1024 = m
  OBVIOUS
<1>. QED BY <1>1, <1>2, <1>3 DEF RowSizes

(* A bit of a row is in that row.                                          *)
LEMMA RowParts ==
  ASSUME NEW d \in RowSizes, NEW i \in 0 .. 7, NEW x \in 0 .. d - 1
  PROVE  /\ d * i + x \in 0 .. 64 * d - 1
         /\ (d * i + x) \div d = i /\ (d * i + x) % d = x
<1>1. d \in Nat /\ x \in Nat /\ x < d
  BY DEF RowSizes
<1>2. /\ d * i + x \in Nat /\ d * i + x < 64 * d
      /\ (d * i + x) \div d = i /\ (d * i + x) % d = x
  BY <1>1, PartsOf
<1>. QED BY <1>1, <1>2

(* What the cypher makes of a block are eight bytes again.                 *)
LEMMA DecypheredTyped == \A ks, block : DecypheredAlone(ks, block) \in SUBSET (0 .. 63)
<1>. SUFFICES ASSUME NEW ks, NEW block PROVE DecypheredAlone(ks, block) \in SUBSET (0 .. 63)
  OBVIOUS
<1>1. PICK a : /\ AloneRounds(a, ks, block)
               /\ DecypheredAlone(ks, block) = UNION {{8 * (j - 1) + b : b \in a[0][j]} : j \in 1 .. 8}
  BY AloneIs
<1>. DEFINE H == {i \in 0 .. 56 : a[i] \in OwnRegs}
<1>2. 56 \in H
  BY <1>1, BytesTyped DEF AloneRounds
<1>3. ASSUME NEW i \in 0 .. 55, i + 1 \in H PROVE i \in H
  <2>1. i \in 0 .. 56 /\ i # 56
    OBVIOUS
  <2>2. a[i] = OneRound(a[i + 1], ks[i])
    BY <1>1, <2>1 DEF AloneRounds
  <2>3. a[i + 1] \in OwnRegs
    BY <1>3
  <2>. QED BY <2>1, <2>2, <2>3, OneRoundTyped
<1>4. ClosedDown(H) /\ 0 \in 0 .. 56
  BY <1>2, <1>3 DEF ClosedDown
<1>. HIDE DEF H
<1>5. 0 \in H
  BY <1>4, DownInduction
<1>. DEFINE own == a[0]
<1>6. own \in OwnRegs
  BY <1>5 DEF H
<1>. HIDE DEF own
<1>7. ASSUME NEW j \in 1 .. 8, NEW b \in own[j] PROVE 8 * (j - 1) + b \in 0 .. 63
  <2>1. b \in 0 .. 7
    BY <1>6 DEF OwnRegs, Octets
  <2>. QED BY <2>1
<1>. QED BY <1>1, <1>7 DEF own

\* The blocks of a group, and block_decypher_group with each as if it were alone.
GroupGiven(w, blocks, count, stack) ==
  /\ count \in 0 .. w /\ stack \in SUBSET (0 .. 63)
  /\ \A g \in 0 .. count - 1 : blocks[g] \in SUBSET (0 .. 63)
EachAlone(w, ks, blocks, count, stack) ==
  block_decypher_group(w, ks, blocks, count, stack)
    = [g \in 0 .. count - 1 |-> DecypheredAlone(ks, blocks[g])]

(***************************************************************************)
(* block_decypher_group makes of the block of each packet what the cypher  *)
(* makes of it alone, whatever the others are and what the stack had.      *)
(***************************************************************************)
THEOREM GroupAsAlone ==
  \A w \in Widths : \A ks, blocks, count, stack :
    GroupGiven(w, blocks, count, stack) => EachAlone(w, ks, blocks, count, stack)
<1>. SUFFICES ASSUME NEW w \in Widths, NEW ks, NEW blocks, NEW count, NEW stack,
                     GroupGiven(w, blocks, count, stack)
              PROVE  EachAlone(w, ks, blocks, count, stack)
  BY Zenon
<1>0. /\ count \in 0 .. w /\ stack \in SUBSET (0 .. 63)
      /\ \A g \in 0 .. count - 1 : blocks[g] \in SUBSET (0 .. 63)
  BY DEF GroupGiven
<1>. DEFINE mem == trasp_N_8(w, blocks, count, stack)
<1>1. PICK f : GroupRounds(f, w, ks, mem) /\ Registers(w, ks, blocks, count, stack) = f[0]
  BY GroupIs
<1>2. \A g \in 0 .. count - 1 : \A x \in 0 .. 63 : PlacedBit(w, g, x) \in mem <=> x \in blocks[g]
  BY <1>0, IntoRegisters
<1>. HIDE DEF mem
<1>. DEFINE r == f[0]
            out == UNION {{8 * w * (j - 1) + x : x \in r[j]} : j \in 1 .. 8}
<1>3. block_decypher_group(w, ks, blocks, count, stack) = trasp_8_N(w, out, count)
  BY <1>1 DEF block_decypher_group
<1>4. r \in GroupRegs(w)
  <2>. DEFINE block == {x \in 0 .. 63 : PlacedBit(w, 0, x) \in mem}
  <2>1. 0 \in 0 .. w - 1
    BY DEF Widths
  <2>2. block \in SUBSET (0 .. 63) /\ \A x \in 0 .. 63 : PlacedBit(w, 0, x) \in mem <=> x \in block
    OBVIOUS
  <2>. HIDE DEF block
  <2>3. PICK a : AloneRounds(a, ks, block)
    BY AloneRoundsExist
  <2>4. Holds(w, 0, RowsOf(w, mem), BytesOf(block))
    BY <2>1, <2>2, StartsAlike
  <2>5. Holds(w, 0, f[0], a[0])
    BY <1>1, <2>1, <2>3, <2>4, RoundsAlike
  <2>. QED BY <2>5 DEF Holds
<1>. HIDE DEF r
<1>5. \A at : at \in out <=> \E j \in 1 .. 8 : \E x \in r[j] : at = 8 * w * (j - 1) + x
  OBVIOUS
<1>. HIDE DEF out
<1>6. \A j \in 1 .. 8 : \A x \in r[j] : x \in 0 .. 8 * w - 1
  BY <1>4 DEF GroupRegs, Banks
<1>7. out \in SUBSET RegBits(w)
  <2>. SUFFICES ASSUME NEW j \in 1 .. 8, NEW x \in r[j] PROVE 8 * w * (j - 1) + x \in RegBits(w)
    BY <1>5
  <2>1. x \in 0 .. 8 * w - 1
    BY <1>6
  <2>2. 8 * w \in RowSizes /\ 0 .. 64 * (8 * w) - 1 = RegBits(w)
    BY DEF Widths, RegBits, RowSizes
  <2>. DEFINE d == 8 * w
  <2>. HIDE DEF d
  <2>3. d \in RowSizes /\ x \in 0 .. d - 1
    BY <2>1, <2>2 DEF d
  <2>4. j - 1 \in 0 .. 7
    OBVIOUS
  <2>5. d * (j - 1) + x \in 0 .. 64 * d - 1
    BY <2>3, <2>4, RowParts
  <2>. QED BY <2>2, <2>5 DEF d
<1>8. trasp_8_N(w, out, count)
        = [g \in 0 .. count - 1 |-> {x \in 0 .. 63 : PlacedBit(w, g, x) \in out}]
  BY <1>0, <1>7, OutOfRegisters
<1>9. ASSUME NEW g \in 0 .. count - 1
      PROVE  {x \in 0 .. 63 : PlacedBit(w, g, x) \in out} = DecypheredAlone(ks, blocks[g])
  <2>. DEFINE block == blocks[g]
              l == PlaceIn(w, g)
  <2>1. g \in 0 .. w - 1
    BY <1>0 DEF Widths
  <2>2. block \in SUBSET (0 .. 63) /\ \A x \in 0 .. 63 : PlacedBit(w, g, x) \in mem <=> x \in block
    BY <1>0, <1>2
  <2>. HIDE DEF block, l
  <2>3. PICK a : /\ AloneRounds(a, ks, block)
                 /\ DecypheredAlone(ks, block) = UNION {{8 * (j - 1) + b : b \in a[0][j]} : j \in 1 .. 8}
    BY AloneIs
  <2>4. Holds(w, g, RowsOf(w, mem), BytesOf(block))
    BY <2>1, <2>2, StartsAlike
  <2>5. Holds(w, g, r, a[0])
    BY <1>1, <2>1, <2>3, <2>4, RoundsAlike DEF r
  <2>. DEFINE own == a[0]
              alone == UNION {{8 * (j - 1) + b : b \in own[j]} : j \in 1 .. 8}
  <2>6. own \in OwnRegs /\ \A j \in 1 .. 8 : own[j] = Byte(r[j], l)
    BY <2>5 DEF Holds, l
  <2>7. \A at : at \in alone <=> \E j \in 1 .. 8 : \E b \in own[j] : at = 8 * (j - 1) + b
    OBVIOUS
  <2>8. DecypheredAlone(ks, block) = alone
    BY <2>3
  <2>. HIDE DEF own, alone
  <2>9. l \in 0 .. w - 1 /\ l \in Nat
    <3>1. l \in 0 .. w - 1
      BY <2>1, BlockPlaced DEF l
    <3>. QED BY <3>1 DEF Widths
  <2>10. \A j \in 1 .. 8 : \A b \in own[j] : b \in 0 .. 7
    BY <2>6 DEF OwnRegs, Octets
  <2>11. alone \in SUBSET (0 .. 63)
    <3>. SUFFICES ASSUME NEW j \in 1 .. 8, NEW b \in own[j] PROVE 8 * (j - 1) + b \in 0 .. 63
      BY <2>7
    <3>1. b \in 0 .. 7
      BY <2>10
    <3>. QED BY <3>1
  <2>12. ASSUME NEW x \in 0 .. 63 PROVE PlacedBit(w, g, x) \in out <=> x \in alone
    <3>. DEFINE i == x \div 8
                b == x % 8
                k == i + 1
    <3>1. /\ i \in 0 .. 7 /\ b \in 0 .. 7 /\ x = 8 * i + b /\ k \in 1 .. 8 /\ k - 1 = i
      OBVIOUS
    <3>2. PlacedBit(w, g, x) = BitAt(w * i + l, b)
      BY DEF PlacedBit, l
    <3>. HIDE DEF i, b, k
    <3>3. x \in alone <=> b \in own[k]
      <4>1. ASSUME x \in alone PROVE b \in own[k]
        <5>1. PICK j \in 1 .. 8, c \in 0 .. 7 : c \in own[j] /\ x = 8 * (j - 1) + c
          BY <2>7, <2>10, <4>1
        <5>2. j = k /\ c = b
          BY <3>1, <5>1
        <5>. QED BY <5>1, <5>2
      <4>2. ASSUME b \in own[k] PROVE x \in alone
        BY <2>7, <3>1, <4>2
      <4>. QED BY <4>1, <4>2
    <3>4. BitAt(w * i + l, b) = 8 * w * (k - 1) + (8 * l + b) /\ 8 * l + b \in 0 .. 8 * w - 1
      <4>1. CASE w = 32
        BY <2>9, <3>1, <4>1 DEF BitAt
      <4>2. CASE w = 64
        BY <2>9, <3>1, <4>2 DEF BitAt
      <4>3. CASE w = 128
        BY <2>9, <3>1, <4>3 DEF BitAt
      <4>. QED BY <4>1, <4>2, <4>3 DEF Widths
    <3>5. BitAt(w * i + l, b) \in out <=> 8 * l + b \in r[k]
      <4>1. ASSUME BitAt(w * i + l, b) \in out PROVE 8 * l + b \in r[k]
        <5>1. PICK j \in 1 .. 8, y \in 0 .. 8 * w - 1 : /\ y \in r[j]
                                                       /\ BitAt(w * i + l, b) = 8 * w * (j - 1) + y
          BY <1>5, <1>6, <4>1
        <5>2. j = k /\ y = 8 * l + b
          <6>. DEFINE z == 8 * l + b
          <6>1. 8 * w * (k - 1) + z = 8 * w * (j - 1) + y /\ z \in 0 .. 8 * w - 1
            BY <3>4, <5>1
          <6>. HIDE DEF z
          <6>2. j = k /\ y = z
            <7>1. 8 * w \in RowSizes
              BY DEF Widths, RowSizes
            <7>. DEFINE d == 8 * w
            <7>. HIDE DEF d
            <7>2. d \in RowSizes /\ y \in 0 .. d - 1 /\ z \in 0 .. d - 1
              BY <6>1, <7>1 DEF d
            <7>3. d * (j - 1) + y = d * (k - 1) + z
              BY <6>1 DEF d
            <7>. DEFINE m == j - 1
                        n == k - 1
            <7>4. m \in 0 .. 7 /\ n \in 0 .. 7 /\ j = m + 1 /\ k = n + 1 
              BY <3>1
            <7>5. d * m + y = d * n + z
              BY <7>3
            <7>. HIDE DEF m, n
            <7>6. (d * m + y) \div d = m /\ (d * m + y) % d = y
              BY <7>2, <7>4, RowParts
            <7>7. (d * n + z) \div d = n /\ (d * n + z) % d = z
              BY <7>2, <7>4, RowParts
            <7>. QED BY <7>4, <7>5, <7>6, <7>7
          <6>. QED BY <6>2 DEF z
        <5>. QED BY <5>1, <5>2
      <4>2. ASSUME 8 * l + b \in r[k] PROVE BitAt(w * i + l, b) \in out
        BY <1>5, <3>1, <3>4, <4>2
      <4>. QED BY <4>1, <4>2
    <3>6. 8 * l + b \in r[k] <=> b \in Byte(r[k], l)
      BY <2>9, <3>1, ByteIn
    <3>7. own[k] = Byte(r[k], l)
      BY <2>6, <3>1
    <3>. QED BY <3>2, <3>3, <3>5, <3>6, <3>7
  <2>13. {x \in 0 .. 63 : PlacedBit(w, g, x) \in out} = alone
    BY <2>11, <2>12
  <2>. QED BY <2>8, <2>13 DEF block
<1>. QED BY <1>3, <1>8, <1>9 DEF EachAlone
-----------------------------------------------------------------------------
(* The stream cypher stays in the lanes of its group.                      *)

(* The gates of a slice stay within its lanes.                             *)
Gates(all) ==
  /\ all \in SUBSET all
  /\ \A a, b \in SUBSET all : /\ a ^^ b \in SUBSET all
                             /\ a \cap b \in SUBSET all
                             /\ a \cup b \in SUBSET all
                             /\ all \ a \in SUBSET all

(* Each gate stays within the lanes.                                       *)
LEMMA GatesTyped == \A all : Gates(all)
BY DEF Gates, ^^

(* The outputs of s-box 1 are within the lanes.                            *)
LEMMA SBox1Typed ==
  ASSUME NEW all, NEW fe \in SUBSET all, NEW fa \in SUBSET all, NEW fb \in SUBSET all,
         NEW fc \in SUBSET all, NEW fd \in SUBSET all
  PROVE  /\ SBox1(fe, fa, fb, fc, fd, all).a \in SUBSET all
         /\ SBox1(fe, fa, fb, fc, fd, all).b \in SUBSET all
BY DEF SBox1, Not, ^^

(* The outputs of s-box 2 are within the lanes.                            *)
LEMMA SBox2Typed ==
  ASSUME NEW all, NEW fe \in SUBSET all, NEW fa \in SUBSET all, NEW fb \in SUBSET all,
         NEW fc \in SUBSET all, NEW fd \in SUBSET all
  PROVE  /\ SBox2(fe, fa, fb, fc, fd, all).a \in SUBSET all
         /\ SBox2(fe, fa, fb, fc, fd, all).b \in SUBSET all
BY DEF SBox2, Not, ^^

(* The outputs of s-box 3 are within the lanes.                            *)
LEMMA SBox3Typed ==
  ASSUME NEW all, NEW fe \in SUBSET all, NEW fa \in SUBSET all, NEW fb \in SUBSET all,
         NEW fc \in SUBSET all, NEW fd \in SUBSET all
  PROVE  /\ SBox3(fe, fa, fb, fc, fd, all).a \in SUBSET all
         /\ SBox3(fe, fa, fb, fc, fd, all).b \in SUBSET all
BY DEF SBox3, Not, ^^

(* The outputs of s-box 4 are within the lanes.                            *)
LEMMA SBox4Typed ==
  ASSUME NEW all, NEW fe \in SUBSET all, NEW fa \in SUBSET all, NEW fb \in SUBSET all,
         NEW fc \in SUBSET all, NEW fd \in SUBSET all
  PROVE  /\ SBox4(fe, fa, fb, fc, fd, all).a \in SUBSET all
         /\ SBox4(fe, fa, fb, fc, fd, all).b \in SUBSET all
<1>. DEFINE tmp0 == fa ^^ ((fc \cap (fa ^^ fd)) \cup (fb ^^ (fc \cup (fd ^^ all))))
            tmp1 == (fa \cap fb) ^^ (fb ^^ (((fa \cup fc) \cap fd) ^^ fc))
            tmp2 == fa ^^ ((fb \cap fc) \cup (((fa \cap (fb ^^ fd)) \cup fc) ^^ fd))
            s4a == tmp0 ^^ (fe \cap (tmp1 ^^ tmp0))
            s4b == (s4a ^^ tmp2) ^^ (fe \cap all)
<1>1. SBox4(fe, fa, fb, fc, fd, all) = [a |-> s4a, b |-> s4b]
  BY DEF SBox4
<1>2. tmp0 \in SUBSET all /\ tmp2 \in SUBSET all
  BY DEF ^^
<1>. HIDE DEF tmp0, tmp1, tmp2
<1>3. s4a \in SUBSET all
  BY <1>2 DEF ^^
<1>. HIDE DEF s4a
<1>4. s4b \in SUBSET all
  BY <1>2, <1>3 DEF ^^
<1>. HIDE DEF s4b
<1>. QED BY <1>1, <1>3, <1>4

(* The outputs of s-box 5 are within the lanes.                            *)
LEMMA SBox5Typed ==
  ASSUME NEW all, NEW fe \in SUBSET all, NEW fa \in SUBSET all, NEW fb \in SUBSET all,
         NEW fc \in SUBSET all, NEW fd \in SUBSET all
  PROVE  /\ SBox5(fe, fa, fb, fc, fd, all).a \in SUBSET all
         /\ SBox5(fe, fa, fb, fc, fd, all).b \in SUBSET all
BY DEF SBox5, Not, ^^

(* The outputs of s-box 6 are within the lanes.                            *)
LEMMA SBox6Typed ==
  ASSUME NEW all, NEW fe \in SUBSET all, NEW fa \in SUBSET all, NEW fb \in SUBSET all,
         NEW fc \in SUBSET all, NEW fd \in SUBSET all
  PROVE  /\ SBox6(fe, fa, fb, fc, fd, all).a \in SUBSET all
         /\ SBox6(fe, fa, fb, fc, fd, all).b \in SUBSET all
BY DEF SBox6, Not, ^^

(* The outputs of s-box 7 are within the lanes.                            *)
LEMMA SBox7Typed ==
  ASSUME NEW all, NEW fe \in SUBSET all, NEW fa \in SUBSET all, NEW fb \in SUBSET all,
         NEW fc \in SUBSET all, NEW fd \in SUBSET all
  PROVE  /\ SBox7(fe, fa, fb, fc, fd, all).a \in SUBSET all
         /\ SBox7(fe, fa, fb, fc, fd, all).b \in SUBSET all
BY DEF SBox7, Not, ^^

\* The registers of the stream cypher, in slices of the lanes "all".
Nibbles(all) == [0 .. 3 -> SUBSET all]
Columns(all) == [0 .. 9 -> Nibbles(all)]
Slices(all) ==
  [A : Columns(all), B : Columns(all),
   X : Nibbles(all), Y : Nibbles(all), Z : Nibbles(all),
   D : Nibbles(all), E : Nibbles(all), F : Nibbles(all),
   p : SUBSET all, q : SUBSET all, r : SUBSET all]

(* Nibbles of bits within the lanes are nibbles of the lanes.              *)
LEMMA ZeroTyped == \A all : Zero \in Nibbles(all)
BY DEF Zero, Nibbles

(* A sum of nibbles is a nibble.                                           *)
LEMMA PlusTyped == \A all : \A v, u \in Nibbles(all) : Plus(v, u) \in Nibbles(all)
BY DEF Plus, Nibbles, ^^

(* Four bits are a nibble.                                                 *)
LEMMA FourTyped ==
  \A all : \A b0, b1, b2, b3 \in SUBSET all : Four(b0, b1, b2, b3) \in Nibbles(all)
<1>. SUFFICES ASSUME NEW all, NEW b0 \in SUBSET all, NEW b1 \in SUBSET all,
                     NEW b2 \in SUBSET all, NEW b3 \in SUBSET all
              PROVE  Four(b0, b1, b2, b3) \in Nibbles(all)
  OBVIOUS
<1>1. \A b \in 0 .. 3 : (CASE b = 0 -> b0 [] b = 1 -> b1 [] b = 2 -> b2 [] OTHER -> b3) \in SUBSET all
  OBVIOUS
<1>. QED BY <1>1 DEF Four, Nibbles

(* A register after a nibble was shifted in.                               *)
LEMMA ShiftedInTyped ==
  \A all : \A R \in Columns(all), new \in Nibbles(all) : ShiftedIn(R, new) \in Columns(all)
<1>. SUFFICES ASSUME NEW all, NEW R \in Columns(all), NEW new \in Nibbles(all)
              PROVE  ShiftedIn(R, new) \in Columns(all)
  OBVIOUS
<1>1. \A k \in 0 .. 9 : (IF k = 0 THEN new ELSE R[k - 1]) \in Nibbles(all)
  BY DEF Columns
<1>. QED BY <1>1 DEF ShiftedIn, Columns

(* The bits of the registers are within the lanes.                         *)
LEMMA ColumnBits ==
  \A all : \A R \in Columns(all) : \A k \in 0 .. 9, b \in 0 .. 3 : R[k][b] \in SUBSET all
BY DEF Columns, Nibbles

(* A nibble that some lanes rotate.                                        *)
LEMMA RotatedTyped ==
  \A all : \A v \in Nibbles(all), p \in SUBSET all : RotatedWhere(v, p) \in Nibbles(all)
<1>. SUFFICES ASSUME NEW all, NEW v \in Nibbles(all), NEW p \in SUBSET all
              PROVE  RotatedWhere(v, p) \in Nibbles(all)
  OBVIOUS
<1>1. \A b \in 0 .. 3 : v[b] ^^ ((v[b] ^^ v[(b + 3) % 4]) \cap p) \in SUBSET all
  BY DEF Nibbles, ^^
<1>. QED BY <1>1 DEF RotatedWhere, Nibbles

(* The nibble taken out of register B.                                     *)
LEMMA ExtraBTyped == \A all : \A B \in Columns(all) : ExtraB(B) \in Nibbles(all)
<1>. SUFFICES ASSUME NEW all, NEW B \in Columns(all) PROVE ExtraB(B) \in Nibbles(all)
  OBVIOUS
<1>1. \A k \in 0 .. 9, b \in 0 .. 3 : B[k][b] \in SUBSET all
  BY ColumnBits
<1>2. \A a, b, c, d \in SUBSET all : ((a ^^ b) ^^ c) ^^ d \in SUBSET all
  BY DEF ^^
<1>3. /\ ((B[8][2] ^^ B[5][3]) ^^ B[2][1]) ^^ B[7][0] \in SUBSET all
      /\ ((B[4][3] ^^ B[7][2]) ^^ B[3][0]) ^^ B[4][1] \in SUBSET all
      /\ ((B[5][0] ^^ B[7][1]) ^^ B[2][3]) ^^ B[3][2] \in SUBSET all
      /\ ((B[2][0] ^^ B[5][1]) ^^ B[6][2]) ^^ B[8][3] \in SUBSET all
  BY <1>1, <1>2
<1>. QED BY <1>3, FourTyped DEF ExtraB

(* The outputs of the S-boxes.                                             *)
LEMMA SBoxesTyped ==
  \A all : \A A \in Columns(all) : \A j \in 1 .. 7 :
    SBoxes(A, all)[j].a \in SUBSET all /\ SBoxes(A, all)[j].b \in SUBSET all
<1>. SUFFICES ASSUME NEW all, NEW A \in Columns(all), NEW j \in 1 .. 7
              PROVE  SBoxes(A, all)[j].a \in SUBSET all /\ SBoxes(A, all)[j].b \in SUBSET all
  OBVIOUS
<1>0. \A k \in 0 .. 9, b \in 0 .. 3 : A[k][b] \in SUBSET all
  BY ColumnBits
<1>1. CASE j = 1
  <2>1. SBoxes(A, all)[1] = SBox1(A[3][0], A[0][2], A[5][1], A[6][3], A[8][0], all)
    BY DEF SBoxes
  <2>2. /\ A[3][0] \in SUBSET all
        /\ A[0][2] \in SUBSET all
        /\ A[5][1] \in SUBSET all
        /\ A[6][3] \in SUBSET all
        /\ A[8][0] \in SUBSET all
    BY <1>0
  <2>. QED BY <1>1, <2>1, <2>2, SBox1Typed
<1>2. CASE j = 2
  <2>1. SBoxes(A, all)[2] = SBox2(A[1][1], A[2][2], A[5][3], A[6][0], A[8][1], all)
    BY DEF SBoxes
  <2>2. /\ A[1][1] \in SUBSET all
        /\ A[2][2] \in SUBSET all
        /\ A[5][3] \in SUBSET all
        /\ A[6][0] \in SUBSET all
        /\ A[8][1] \in SUBSET all
    BY <1>0
  <2>. QED BY <1>2, <2>1, <2>2, SBox2Typed
<1>3. CASE j = 3
  <2>1. SBoxes(A, all)[3] = SBox3(A[0][3], A[1][0], A[4][1], A[4][3], A[5][2], all)
    BY DEF SBoxes
  <2>2. /\ A[0][3] \in SUBSET all
        /\ A[1][0] \in SUBSET all
        /\ A[4][1] \in SUBSET all
        /\ A[4][3] \in SUBSET all
        /\ A[5][2] \in SUBSET all
    BY <1>0
  <2>. QED BY <1>3, <2>1, <2>2, SBox3Typed
<1>4. CASE j = 4
  <2>1. SBoxes(A, all)[4] = SBox4(A[2][3], A[0][1], A[1][3], A[3][2], A[7][0], all)
    BY DEF SBoxes
  <2>2. /\ A[2][3] \in SUBSET all
        /\ A[0][1] \in SUBSET all
        /\ A[1][3] \in SUBSET all
        /\ A[3][2] \in SUBSET all
        /\ A[7][0] \in SUBSET all
    BY <1>0
  <2>. QED BY <1>4, <2>1, <2>2, SBox4Typed
<1>5. CASE j = 5
  <2>1. SBoxes(A, all)[5] = SBox5(A[4][2], A[3][3], A[5][0], A[7][1], A[8][2], all)
    BY DEF SBoxes
  <2>2. /\ A[4][2] \in SUBSET all
        /\ A[3][3] \in SUBSET all
        /\ A[5][0] \in SUBSET all
        /\ A[7][1] \in SUBSET all
        /\ A[8][2] \in SUBSET all
    BY <1>0
  <2>. QED BY <1>5, <2>1, <2>2, SBox5Typed
<1>6. CASE j = 6
  <2>1. SBoxes(A, all)[6] = SBox6(A[2][1], A[3][1], A[4][0], A[6][2], A[8][3], all)
    BY DEF SBoxes
  <2>2. /\ A[2][1] \in SUBSET all
        /\ A[3][1] \in SUBSET all
        /\ A[4][0] \in SUBSET all
        /\ A[6][2] \in SUBSET all
        /\ A[8][3] \in SUBSET all
    BY <1>0
  <2>. QED BY <1>6, <2>1, <2>2, SBox6Typed
<1>7. CASE j = 7
  <2>1. SBoxes(A, all)[7] = SBox7(A[1][2], A[2][0], A[6][1], A[7][2], A[7][3], all)
    BY DEF SBoxes
  <2>2. /\ A[1][2] \in SUBSET all
        /\ A[2][0] \in SUBSET all
        /\ A[6][1] \in SUBSET all
        /\ A[7][2] \in SUBSET all
        /\ A[7][3] \in SUBSET all
    BY <1>0
  <2>. QED BY <1>7, <2>1, <2>2, SBox7Typed
<1>. QED BY <1>1, <1>2, <1>3, <1>4, <1>5, <1>6, <1>7

(* The stream cypher's turns stay in the lanes.                            *)
LEMMA TurnedTyped ==
  ASSUME NEW all, NEW g \in Slices(all), NEW intoA \in Nibbles(all), NEW intoB \in Nibbles(all)
  PROVE  Turned(g, intoA, intoB, all) \in Slices(all)
<1>. DEFINE s == SBoxes(g.A, all)
            carry == Carries(g.Z, g.E, g.r)
            t2 == Plus(Plus(Plus(g.B[6], g.B[9]), g.Y), intoB)
            A == ShiftedIn(g.A, Plus(Plus(g.A[9], g.X), intoA))
            B == ShiftedIn(g.B, RotatedWhere(t2, g.p))
            D == Plus(Plus(g.E, g.Z), ExtraB(g.B))
            F == [b \in 0 .. 3 |-> g.E[b] ^^ (g.q \cap (g.Z[b] ^^ carry[b]))]
            r == g.r ^^ (g.q \cap (carry[4] ^^ g.r))
            X == Four(s[1].a, s[2].a, s[3].b, s[4].b)
            Y == Four(s[3].a, s[4].a, s[5].b, s[6].b)
            Z == Four(s[5].a, s[6].a, s[1].b, s[2].b)
<1>0. /\ g.A \in Columns(all) /\ g.B \in Columns(all)
      /\ g.X \in Nibbles(all) /\ g.Y \in Nibbles(all) /\ g.Z \in Nibbles(all)
      /\ g.E \in Nibbles(all) /\ g.F \in Nibbles(all)
      /\ g.p \in SUBSET all /\ g.q \in SUBSET all /\ g.r \in SUBSET all
  BY DEF Slices
<1>1. g.A[9] \in Nibbles(all) /\ g.B[6] \in Nibbles(all) /\ g.B[9] \in Nibbles(all)
  BY <1>0 DEF Columns
<1>2. \A j \in 1 .. 7 : s[j].a \in SUBSET all /\ s[j].b \in SUBSET all
  BY <1>0, SBoxesTyped
<1>3. t2 \in Nibbles(all)
  BY <1>0, <1>1, PlusTyped
<1>4. A \in Columns(all)
  BY <1>0, <1>1, PlusTyped, ShiftedInTyped
<1>. HIDE DEF t2, s, carry
<1>5. B \in Columns(all)
  BY <1>0, <1>3, RotatedTyped, ShiftedInTyped
<1>6. D \in Nibbles(all)
  BY <1>0, ExtraBTyped, PlusTyped
<1>7. F \in Nibbles(all)
  <2>1. \A b \in 0 .. 3 : g.E[b] \in SUBSET all
    BY <1>0 DEF Nibbles
  <2>2. \A b \in 0 .. 3 : g.E[b] ^^ (g.q \cap (g.Z[b] ^^ carry[b])) \in SUBSET all
    BY <1>0, <2>1 DEF ^^
  <2>. QED BY <2>2 DEF Nibbles
<1>8. r \in SUBSET all
  BY <1>0 DEF ^^
<1>9. X \in Nibbles(all) /\ Y \in Nibbles(all) /\ Z \in Nibbles(all)
  BY <1>2, FourTyped
<1>10. Turned(g, intoA, intoB, all)
         = [A |-> A, B |-> B, D |-> D, E |-> g.F, F |-> F, r |-> r, X |-> X, Y |-> Y, Z |-> Z,
            p |-> s[7].a, q |-> s[7].b]
  BY DEF Turned, t2, s, carry
<1>11. s[7].a \in SUBSET all /\ s[7].b \in SUBSET all
  BY <1>2
<1>. HIDE DEF A, B, D, F, r, X, Y, Z
<1>. QED BY <1>0, <1>4, <1>5, <1>6, <1>7, <1>8, <1>9, <1>10, <1>11 DEF Slices

(* So do the turns of an initialization, which feed in the first block.    *)
LEMMA TurnedInTyped ==
  ASSUME NEW all, NEW g \in Slices(all), NEW row, NEW t \in 0 .. 31,
         \A x \in 0 .. 63 : row[x] \in SUBSET all
  PROVE  TurnedIn(g, row, t, all) \in Slices(all)
<1>. DEFINE i == t \div 4
            in1 == [b \in 0 .. 3 |-> row[8 * i + 4 + b]]
            in2 == [b \in 0 .. 3 |-> row[8 * i + b]]
<1>1. \A b \in 0 .. 3 : 8 * i + 4 + b \in 0 .. 63 /\ 8 * i + b \in 0 .. 63
  OBVIOUS
<1>2. in1 \in Nibbles(all) /\ in2 \in Nibbles(all)
  BY <1>1 DEF Nibbles
<1>3. g.D \in Nibbles(all)
  BY DEF Slices
<1>4. TurnedIn(g, row, t, all) = IF t % 2 = 1 THEN Turned(g, Plus(g.D, in2), in1, all)
                                                    ELSE Turned(g, Plus(g.D, in1), in2, all)
  BY DEF TurnedIn
<1>. HIDE DEF i, in1, in2
<1>5. Plus(g.D, in1) \in Nibbles(all) /\ Plus(g.D, in2) \in Nibbles(all)
  BY <1>2, <1>3, PlusTyped
<1>6. Turned(g, Plus(g.D, in2), in1, all) \in Slices(all)
  BY <1>2, <1>5, TurnedTyped
<1>7. Turned(g, Plus(g.D, in1), in2, all) \in Slices(all)
  BY <1>2, <1>5, TurnedTyped
<1>. QED BY <1>4, <1>6, <1>7

(* The registers loaded with a key.                                        *)
LEMMA LoadedTyped ==
  ASSUME NEW all, NEW iA \in [0 .. 7 -> Nibbles(all)], NEW iB \in [0 .. 7 -> Nibbles(all)]
  PROVE  Loaded(iA, iB) \in Slices(all)
<1>. DEFINE A == [k \in 0 .. 9 |-> IF k < 8 THEN iA[k] ELSE Zero]
            B == [k \in 0 .. 9 |-> IF k < 8 THEN iB[k] ELSE Zero]
<1>1. Zero \in Nibbles(all)
  BY ZeroTyped
<1>2. A \in Columns(all) /\ B \in Columns(all)
  BY <1>1 DEF Columns
<1>3. Loaded(iA, iB) = [A |-> A, B |-> B, X |-> Zero, Y |-> Zero, Z |-> Zero,
                        D |-> Zero, E |-> Zero, F |-> Zero, p |-> {}, q |-> {}, r |-> {}]
  BY DEF Loaded
<1>. HIDE DEF A, B
<1>. QED BY <1>1, <1>2, <1>3 DEF Slices

(* The rows that a turn makes are rows of the output, within the lanes. *)
LEMMA RowsMadeTyped ==
  ASSUME NEW all, NEW D \in Nibbles(all), NEW t \in 0 .. 31,
         NEW r \in DOMAIN RowsMade(t, D)
  PROVE  r \in 0 .. 63 /\ RowsMade(t, D)[r] \in SUBSET all
<1>. DEFINE high == 8 * (t \div 4) + 7 - 2 * (t % 4)
            made == [x \in {high, high - 1} |-> IF x = high THEN D[2] ^^ D[3] ELSE D[0] ^^ D[1]]
<1>1. high \in 0 .. 63 /\ high - 1 \in 0 .. 63
  OBVIOUS
<1>2. RowsMade(t, D) = made
  BY DEF RowsMade
<1>. HIDE DEF high
<1>3. D[0] \in SUBSET all /\ D[1] \in SUBSET all /\ D[2] \in SUBSET all /\ D[3] \in SUBSET all
  BY DEF Nibbles
<1>4. r \in {high, high - 1}
  BY <1>2
<1>5. made[r] \in SUBSET all
  BY <1>3, <1>4 DEF ^^
<1>. QED BY <1>1, <1>2, <1>4, <1>5

(* A set of numbers from 0 on without a gap is known by its size.          *)
LEMMA InitialSegment ==
  ASSUME NEW L \in Nat, NEW S \in SUBSET (0 .. L - 1),
         \A g \in S : \A h \in 0 .. g : h \in S
  PROVE  S = 0 .. Cardinality(S) - 1 /\ Cardinality(S) \in 0 .. L
<1>. DEFINE M == {m \in Nat : m \notin S}
<1>1. L \in M
  OBVIOUS
<1>2. PICK m \in M : \A k \in M : m <= k
  <2>. HIDE DEF M
  <2>1. M \in SUBSET Nat
    BY DEF M
  <2>. QED BY <1>1, <2>1, LeastNumber
<1>3. m \in 0 .. L /\ m \notin S
  BY <1>1, <1>2
<1>4. ASSUME NEW k \in 0 .. m - 1 PROVE k \in S
  <2>1. k \in Nat /\ ~(m <= k)
    BY <1>3
  <2>2. k \notin M
    <3>. HIDE DEF M
    <3>. QED BY <1>2, <2>1
  <2>. QED BY <2>1, <2>2
<1>5. ASSUME NEW k \in S PROVE k \in 0 .. m - 1
  <2>1. CASE k >= m
    <3>1. m \in 0 .. k
      BY <1>3, <2>1
    <3>. QED BY <1>3, <3>1
  <2>. QED BY <1>3, <2>1
<1>6. S = 0 .. m - 1
  BY <1>4, <1>5
<1>7. Cardinality(0 .. m - 1) = m
  BY <1>3, FS_Interval
<1>. QED BY <1>3, <1>6, <1>7
(* What a group and its build are.                                         *)

(* What CsaGroupAssumption says of the group at hand.                      *)
LEMMA TheCase ==
  ASSUME case \in Cases
  PROVE  /\ Width \in Widths /\ Blocks \in Nat \ {0, 1}
         /\ Len(case.group) \in 1 .. Width
         /\ case.junk \in EightBytes
         /\ \A g \in Group : /\ g \in Lanes /\ Given(g) \in Payload /\ N(g) \in 1 .. Blocks
                             /\ \A h \in 0 .. g : h \in Group /\ N(h) >= N(g)
<1>1. /\ case \in [group : Seq(Payload), width : Widths, ecm : {0, 4},
                   junk : EightBytes, ck : EightBytes]
      /\ Len(case.group) \in 1 .. case.width
      /\ \A g \in 1 .. Len(case.group) :
           /\ Len(case.group[g].blocks) \in 1 .. Blocks
           /\ \A h \in 1 .. g : Len(case.group[h].blocks) >= Len(case.group[g].blocks)
      /\ Blocks \in Nat \ {0, 1}
  BY CsaGroupAssumption
<1>2. case.group \in Seq(Payload) /\ case.width \in Widths /\ case.junk \in EightBytes
  BY <1>1
<1>3. Width \in Nat
  BY <1>2 DEF Width, Widths
<1>4. ASSUME NEW g \in Group
      PROVE  /\ g \in Lanes /\ Given(g) \in Payload /\ N(g) \in 1 .. Blocks
             /\ \A h \in 0 .. g : h \in Group /\ N(h) >= N(g)
  <2>1. g + 1 \in 1 .. Len(case.group) /\ g \in Lanes
    BY <1>1, <1>3 DEF Group, Lanes, Width
  <2>2. Given(g) \in Payload
    BY <1>2, <2>1 DEF Given
  <2>3. N(g) \in 1 .. Blocks
    BY <1>1, <2>1 DEF N, Given
  <2>4. ASSUME NEW h \in 0 .. g PROVE h \in Group /\ N(h) >= N(g)
    <3>1. h + 1 \in 1 .. g + 1 /\ h \in Group
      BY <2>1 DEF Group
    <3>. QED BY <1>1, <2>1, <3>1 DEF N, Given
  <2>. QED BY <2>1, <2>2, <2>3, <2>4
<1>. QED BY <1>1, <1>2, <1>4 DEF Width

(* The packets that are alive are counted by their number.                 *)
LEMMA LiveOnes ==
  ASSUME case \in Cases, NEW i \in Nat
  PROVE  /\ Alive(i) \in 0 .. Width /\ LiveIn(i) \in SUBSET Group
         /\ \A g \in Group : g \in LiveIn(i) <=> N(g) > i
<1>. DEFINE S == {g \in Group : N(g) > i}
            L == Len(case.group)
<1>1. /\ L \in 1 .. Width /\ Width \in Nat
      /\ \A g \in Group : N(g) \in Nat /\ \A h \in 0 .. g : h \in Group /\ N(h) >= N(g) /\ N(h) \in Nat
  BY TheCase DEF Widths
<1>2. L \in Nat /\ Group = 0 .. L - 1
  BY <1>1 DEF Group
<1>. HIDE DEF L
<1>3. S \in SUBSET (0 .. L - 1) /\ \A g \in S : \A h \in 0 .. g : h \in S
  BY <1>1, <1>2
<1>. HIDE DEF S
<1>4. S = 0 .. Cardinality(S) - 1 /\ Cardinality(S) \in 0 .. L
  BY <1>2, <1>3, InitialSegment
<1>5. Alive(i) = Cardinality(S)
  BY DEF Alive, S
<1>6. LiveIn(i) = S
  BY <1>4, <1>5 DEF LiveIn
<1>7. Alive(i) \in 0 .. Width
  BY <1>1, <1>4, <1>5
<1>. QED BY <1>2, <1>3, <1>6, <1>7 DEF S

(* The lane of a packet is that of its slice.                              *)
LEMMA LaneOfSlice ==
  ASSUME case \in Cases, NEW g \in Group
  PROVE  LaneOf(g) = LaneIn(Width, g) /\ LaneOf(g) \in Lanes /\ g \in 0 .. Width - 1
<1>1. Width \in Widths /\ g \in 0 .. Width - 1
  BY TheCase DEF Lanes
<1>2. LaneOf(g) = LaneIn(Width, g)
  BY DEF LaneOf, LaneIn
<1>3. 0 \in 0 .. 63 /\ LaneIn(Width, g) \in 0 .. Width - 1
  BY <1>1, SliceOf
<1>. QED BY <1>1, <1>2, <1>3 DEF Lanes

(* What a packet gets out of the keystream's rows.                         *)
LEMMA StreamOut ==
  ASSUME case \in Cases, cb \in SUBSET Cells(Width), NEW g \in Group
  PROVE  TableOut(Width, trasp64_88cw(Width, cb), g) = {x \in 0 .. 63 : Width * x + LaneOf(g) \in cb}
<1>1. LaneOf(g) = LaneIn(Width, g) /\ g \in 0 .. Width - 1 /\ Width \in Widths
  BY LaneOfSlice, TheCase
<1>. QED BY <1>1, OutOfSlices

(* Adding bits.                                                            *)
LEMMA AddedBits ==
  \A a, b \in EightBytes : a ^^ b \in EightBytes /\ a ^^ b = b ^^ a
BY DEF EightBytes, ^^
-----------------------------------------------------------------------------
(* The inductive invariant.                                                *)

(***************************************************************************)
(***************************************************************************)
Progress ==
  /\ pc \in {"start", "init", "block", "stream", "done"}
  /\ pc \in {"start", "init"} => iter = 0
  /\ pc \in {"init", "stream"} => turn \in 0 .. 32
  /\ pc \in {"block", "done"} => iter \in 1 .. Blocks
  /\ pc = "stream" => iter \in 1 .. Blocks - 1

Typed ==
  /\ regs \in Slices(Lanes) /\ cb \in SUBSET Cells(Width)
  /\ ib \in [Lanes -> EightBytes]
  /\ packets \in [Group -> Payload] /\ keystream \in [Group -> Seq(EightBytes)]

\* A keystream block for each iteration of the stream cypher that is over, for
\* the packets that are at their end too.
Lengths ==
  \A g \in Group :
    /\ Len(packets[g].blocks) = N(g)
    /\ Len(keystream[g]) = IF iter = 0 THEN 0 ELSE iter - 1

\* What the block cypher gets is the chained block of the iteration, and its
\* output waits for the stream cypher.
ChainHeld ==
  iter # 0 => \A g \in Group : N(g) >= iter =>
    /\ ib[g] = Chained(g, iter)
    /\ pc = "stream" => blockOut[g] = DecypheredAlone(kk, Chained(g, iter))

Wanted(g, i) ==
  IF i = N(g) THEN DecypheredAlone(kk, Chained(g, i))
              ELSE DecypheredAlone(kk, Chained(g, i)) ^^ Chained(g, i + 1)
WantedResidue(g) == (Given(g).residue ^^ keystream[g][N(g)]) \cap Given(g).residueBits

\* The packets are done up to the iteration.
DoneSoFar ==
  iter # 0 => \A g \in Group :
    /\ \A i \in 1 .. N(g) : i < iter => packets[g].blocks[i] = Wanted(g, i)
    /\ N(g) < iter => packets[g].residue = WantedResidue(g)

IInv ==
  /\ case \in Cases
  /\ Progress /\ Typed /\ Lengths /\ ChainHeld /\ DoneSoFar /\ DecryptsEachPacket

(* The property, in the words of the invariant.                            *)
LEMMA DecryptsIs ==
  DecryptsEachPacket <=>
    (pc = "done" => \A g \in Group :
       /\ \A i \in 1 .. N(g) : packets[g].blocks[i] = Wanted(g, i)
       /\ N(g) < Blocks => packets[g].residue = WantedResidue(g))
BY DEF DecryptsEachPacket, Wanted, WantedResidue

(* It holds when decrypt_packets is called.                                *)
LEMMA InitIInv == Init => IInv
<1>. SUFFICES ASSUME Init PROVE IInv
  OBVIOUS
<1>1. /\ case \in Cases /\ pc = "start" /\ iter = 0 /\ turn = 0
      /\ regs = Loaded(KeyNibbles(case.ck, 0), KeyNibbles(case.ck, 4))
      /\ cb = {} /\ ib = [g \in Lanes |-> case.junk]
      /\ packets = [g \in Group |-> Given(g)]
      /\ keystream = [g \in Group |-> <<>>]
  BY DEF Init
<1>2. /\ case.junk \in EightBytes
      /\ \A g \in Group : Given(g) \in Payload /\ N(g) \in 1 .. Blocks
  BY <1>1, TheCase
<1>3. Progress
  BY <1>1 DEF Progress
<1>4. Typed
  <2>1. \A ck, first : KeyNibbles(ck, first) \in [0 .. 7 -> Nibbles(Lanes)]
    BY DEF KeyNibbles, Nibbles
  <2>2. regs \in Slices(Lanes)
    BY <1>1, <2>1, LoadedTyped
  <2>3. packets \in [Group -> Payload] /\ keystream \in [Group -> Seq(EightBytes)]
    BY <1>1, <1>2
  <2>. QED BY <1>1, <1>2, <2>2, <2>3 DEF Typed
<1>5. Lengths
  BY <1>1 DEF Lengths, N
<1>6. ChainHeld /\ DoneSoFar /\ DecryptsEachPacket
  BY <1>1 DEF ChainHeld, DoneSoFar, DecryptsEachPacket
<1>. QED BY <1>1, <1>3, <1>4, <1>5, <1>6 DEF IInv

(* What does not change with the iteration, and what a step leaves alone.  *)

(* The group stays what it is in every step.                               *)
LEMMA SameGroup ==
  ASSUME case' = case
  PROVE  /\ Width' = Width /\ Lanes' = Lanes /\ Group' = Group
         /\ \A g : Given(g)' = Given(g) /\ N(g)' = N(g) /\ LaneOf(g)' = LaneOf(g)
         /\ \A i : Alive(i)' = Alive(i) /\ LiveIn(i)' = LiveIn(i)
BY DEF Width, Lanes, Group, Given, N, LaneOf, Alive, LiveIn
-----------------------------------------------------------------------------
(* The steps of decrypt_packets that only turn the stream cypher.          *)

(* While no keystream is made, what is wanted stays.                       *)
LEMMA SameWanted ==
  ASSUME case' = case, kk' = kk, keystream' = keystream
  PROVE  \A g : /\ \A i : Chained(g, i)' = Chained(g, i) /\ Wanted(g, i)' = Wanted(g, i)
                /\ WantedResidue(g)' = WantedResidue(g)
<1>1. \A g : Given(g)' = Given(g) /\ N(g)' = N(g)
  BY SameGroup
<1>2. \A g, i : Chained(g, i)' = Chained(g, i)
  BY <1>1 DEF Chained
<1>3. \A g, i : Wanted(g, i)' = Wanted(g, i)
  BY <1>1, <1>2 DEF Wanted
<1>4. \A g : WantedResidue(g)' = WantedResidue(g)
  BY <1>1 DEF WantedResidue
<1>. QED BY <1>2, <1>3, <1>4

(* Steps of the stream cypher, which only work on its registers and rows.  *)
LEMMA CypherStep ==
  ASSUME IInv, UNCHANGED <<case, kk, iter, ib, blockOut, packets, keystream>>,
         regs' \in Slices(Lanes), cb' \in SUBSET Cells(Width), Progress',
         pc' = "stream" => pc = "stream", pc' # "done"
  PROVE  IInv'
<1>0. case \in Cases /\ Typed /\ Lengths /\ ChainHeld /\ DoneSoFar
  BY DEF IInv
<1>1. /\ Width' = Width /\ Lanes' = Lanes /\ Group' = Group
      /\ \A g : Given(g)' = Given(g) /\ N(g)' = N(g)
  BY SameGroup
<1>2. /\ \A g, i : Chained(g, i)' = Chained(g, i)
      /\ \A g, i : Wanted(g, i)' = Wanted(g, i)
      /\ \A g : WantedResidue(g)' = WantedResidue(g)
  BY SameWanted
<1>3. Typed'
  BY <1>0, <1>1 DEF Typed
<1>4. Lengths'
  BY <1>0, <1>1 DEF Lengths
<1>5. ChainHeld'
  BY <1>0, <1>1, <1>2 DEF ChainHeld
<1>6. DoneSoFar'
  BY <1>0, <1>1, <1>2 DEF DoneSoFar
<1>7. DecryptsEachPacket'
  BY DEF DecryptsEachPacket
<1>8. case' \in Cases
  BY <1>0
<1>. QED BY <1>3, <1>4, <1>5, <1>6, <1>7, <1>8 DEF IInv

(* stream_cypher_group_init is called.                                     *)
LEMMA InitCalledStep == IInv /\ StreamInitCalled => IInv'
<1>. SUFFICES ASSUME IInv, StreamInitCalled PROVE IInv'
  OBVIOUS
<1>1. /\ pc = "start" /\ pc' = "init" /\ turn' = 0
      /\ UNCHANGED <<case, kk, iter, regs, cb, ib, blockOut, packets, keystream>>
  BY DEF StreamInitCalled
<1>2. Progress /\ Typed
  BY DEF IInv
<1>3. Progress'
  BY <1>1, <1>2 DEF Progress
<1>. QED BY <1>1, <1>2, <1>3, CypherStep DEF Typed

(* It turns.                                                               *)
LEMMA InitTurnsStep == IInv /\ StreamInitTurns => IInv'
<1>. SUFFICES ASSUME IInv, StreamInitTurns PROVE IInv'
  OBVIOUS
<1>. DEFINE row == [r \in 0 .. 63 |-> Row(Width, sb, r)]
<1>1. /\ pc = "init" /\ pc' = pc /\ turn < 32 /\ turn' = turn + 1
      /\ regs' = TurnedIn(regs, row, turn, Lanes)
      /\ UNCHANGED <<case, kk, iter, cb, ib, blockOut, packets, keystream>>
  BY DEF StreamInitTurns
<1>2. Progress /\ Typed
  BY DEF IInv
<1>3. turn \in 0 .. 31
  BY <1>1, <1>2 DEF Progress
<1>4. Progress'
  BY <1>1, <1>2, <1>3 DEF Progress
<1>5. \A x \in 0 .. 63 : row[x] \in SUBSET Lanes
  BY DEF Row, Lanes
<1>6. regs \in Slices(Lanes)
  BY <1>2 DEF Typed
<1>. HIDE DEF row
<1>7. regs' \in Slices(Lanes)
  BY <1>1, <1>3, <1>5, <1>6, TurnedInTyped
<1>. QED BY <1>1, <1>2, <1>4, <1>7, CypherStep DEF Typed

(* stream_cypher_group_normal turns.                                       *)
LEMMA TurnsStep == IInv /\ StreamTurns => IInv'
<1>. SUFFICES ASSUME IInv, StreamTurns PROVE IInv'
  OBVIOUS
<1>. DEFINE made == RowsMade(turn, regs'.D)
<1>1. /\ pc = "stream" /\ pc' = pc /\ turn < 32 /\ turn' = turn + 1
      /\ regs' = Turned(regs, Zero, Zero, Lanes)
      /\ cb' = {at \in cb : at \div Width \notin DOMAIN made}
                 \cup UNION {{Width * r + l : l \in made[r]} : r \in DOMAIN made}
      /\ UNCHANGED <<case, kk, iter, ib, blockOut, packets, keystream>>
  BY DEF StreamTurns
<1>2. Progress /\ Typed /\ case \in Cases
  BY DEF IInv
<1>3. turn \in 0 .. 31
  BY <1>1, <1>2 DEF Progress
<1>4. Progress'
  BY <1>1, <1>2, <1>3 DEF Progress
<1>5. regs \in Slices(Lanes) /\ Zero \in Nibbles(Lanes)
  BY <1>2, ZeroTyped DEF Typed
<1>6. regs' \in Slices(Lanes)
  BY <1>1, <1>5, TurnedTyped
<1>7. regs'.D \in Nibbles(Lanes)
  BY <1>6 DEF Slices
<1>. DEFINE D == regs'.D
<1>. HIDE DEF D
<1>8. \A r \in DOMAIN RowsMade(turn, D) : r \in 0 .. 63 /\ RowsMade(turn, D)[r] \in SUBSET Lanes
  BY <1>3, <1>7, RowsMadeTyped DEF D
<1>9. \A r \in DOMAIN made : r \in 0 .. 63 /\ made[r] \in SUBSET Lanes
  BY <1>8 DEF D
<1>. HIDE DEF made
<1>10. \A r \in 0 .. 63, l \in Lanes : Width * r + l \in Cells(Width)
  <2>1. Width \in Widths
    BY <1>2, TheCase
  <2>2. CASE Width = 32
    BY <2>2 DEF Lanes, Cells
  <2>3. CASE Width = 64
    BY <2>3 DEF Lanes, Cells
  <2>4. CASE Width = 128
    BY <2>4 DEF Lanes, Cells
  <2>. QED BY <2>1, <2>2, <2>3, <2>4 DEF Widths
<1>11. cb' \in SUBSET Cells(Width)
  <2>1. cb \in SUBSET Cells(Width)
    BY <1>2 DEF Typed
  <2>. SUFFICES ASSUME NEW at \in cb' PROVE at \in Cells(Width)
    OBVIOUS
  <2>2. at \in cb \/ \E r \in DOMAIN made : \E l \in made[r] : at = Width * r + l
    BY <1>1
  <2>. QED BY <1>9, <1>10, <2>1, <2>2
<1>. QED BY <1>1, <1>4, <1>6, <1>11, CypherStep

(* stream_cypher_group_init returns; the first block is in the registers.  *)
LEMMA InitReturnsStep == IInv /\ StreamInitReturns => IInv'
<1>. SUFFICES ASSUME IInv, StreamInitReturns PROVE IInv'
  OBVIOUS
<1>1. /\ pc = "init" /\ turn = 32 /\ iter' = 1 /\ pc' = "block"
      /\ ib' = [g \in Lanes |-> IF g \in LiveIn(0) THEN Given(g).blocks[1] ELSE ib[g]]
      /\ UNCHANGED <<case, kk, turn, regs, sb, cb, blockOut, packets, keystream>>
  BY DEF StreamInitReturns
<1>2. case \in Cases /\ Progress /\ Typed /\ Lengths
  BY DEF IInv
<1>3. iter = 0
  BY <1>1, <1>2 DEF Progress
<1>4. /\ Width' = Width /\ Lanes' = Lanes /\ Group' = Group
      /\ \A g : Given(g)' = Given(g) /\ N(g)' = N(g)
  BY <1>1, SameGroup
<1>5. /\ Blocks \in Nat \ {0, 1}
      /\ \A g \in Group : g \in Lanes /\ Given(g) \in Payload /\ N(g) \in 1 .. Blocks
  BY <1>2, TheCase
<1>6. LiveIn(0) \in SUBSET Group /\ \A g \in Group : g \in LiveIn(0)
  BY <1>2, <1>5, LiveOnes
<1>7. \A g \in Group : Given(g).blocks[1] \in EightBytes
  BY <1>5 DEF Payload, N
<1>8. Progress'
  BY <1>1, <1>5 DEF Progress
<1>9. ib' \in [Lanes -> EightBytes]
  BY <1>1, <1>2, <1>6, <1>7 DEF Typed
<1>10. Typed'
  BY <1>1, <1>2, <1>4, <1>9 DEF Typed
<1>11. Lengths'
  BY <1>1, <1>2, <1>3, <1>4 DEF Lengths
<1>12. ChainHeld'
  <2>1. \A g \in Group : ib'[g] = Given(g).blocks[1]
    BY <1>1, <1>5, <1>6
  <2>2. \A g : Chained(g, 1)' = Given(g).blocks[1]
    BY <1>4 DEF Chained
  <2>. QED BY <1>1, <1>4, <2>1, <2>2 DEF ChainHeld
<1>13. DoneSoFar'
  BY <1>1, <1>4, <1>5 DEF DoneSoFar
<1>14. DecryptsEachPacket' /\ case' \in Cases
  BY <1>1, <1>2 DEF DecryptsEachPacket
<1>. QED BY <1>8, <1>10, <1>11, <1>12, <1>13, <1>14 DEF IInv
-----------------------------------------------------------------------------
(* The steps that write packets.                                           *)

\* Payload p with block i replaced.
WithBlock(p, i, b, new) ==
  /\ new \in Payload /\ Len(new.blocks) = Len(p.blocks)
  /\ \A j \in 1 .. Len(p.blocks) : new.blocks[j] = IF j = i THEN b ELSE p.blocks[j]

(* Writing a block into a payload.                                         *)
LEMMA BlockWritten ==
  ASSUME NEW p \in Payload, NEW i \in 1 .. Len(p.blocks), NEW b \in EightBytes
  PROVE  /\ WithBlock(p, i, b, [p EXCEPT !.blocks[i] = b])
         /\ [p EXCEPT !.blocks[i] = b].residue = p.residue
<1>. DEFINE s == p.blocks
            t == [s EXCEPT ![i] = b]
            new == [p EXCEPT !.blocks = t]
<1>1. p \in [blocks : Seq(EightBytes), residue : EightBytes, residueBits : EightBytes]
  BY DEF Payload
<1>2. s \in Seq(EightBytes) /\ p.residue \in EightBytes /\ p.residueBits \in EightBytes
  BY <1>1
<1>. HIDE DEF s
<1>3. i \in 1 .. Len(s)
  BY DEF s
<1>4. /\ t \in Seq(EightBytes) /\ Len(t) = Len(s)
      /\ \A j \in 1 .. Len(s) : t[j] = IF j = i THEN b ELSE s[j]
  BY <1>2, <1>3
<1>5. [p EXCEPT !.blocks[i] = b] = new
  BY <1>1 DEF s
<1>. HIDE DEF t
<1>6. new.blocks = t
  BY <1>1
<1>7. new.residue = p.residue
  BY <1>1
<1>8. new \in [blocks : Seq(EightBytes), residue : EightBytes, residueBits : EightBytes]
  BY <1>1, <1>4
<1>. HIDE DEF new
<1>9. WithBlock(p, i, b, new)
  BY <1>4, <1>6, <1>8 DEF WithBlock, s, Payload
<1>. QED BY <1>5, <1>7, <1>9

(* Writing the last block and the residue.                                 *)
AtItsEnd(p, i, b, r) == [p EXCEPT !.blocks[i] = b, !.residue = r]

(* That writes one block and leaves the others.                            *)
LEMMA ResidueWritten ==
  ASSUME NEW p \in Payload, NEW i \in 1 .. Len(p.blocks), NEW b \in EightBytes, NEW r \in EightBytes
  PROVE  WithBlock(p, i, b, AtItsEnd(p, i, b, r)) /\ AtItsEnd(p, i, b, r).residue = r
<1>. DEFINE q == [p EXCEPT !.blocks[i] = b]
            new == [q EXCEPT !.residue = r]
<1>1. WithBlock(p, i, b, q)
  BY BlockWritten
<1>2. AtItsEnd(p, i, b, r) = new
  BY DEF AtItsEnd
<1>. HIDE DEF q
<1>3. q \in [blocks : Seq(EightBytes), residue : EightBytes, residueBits : EightBytes]
  BY <1>1 DEF WithBlock, Payload
<1>4. new.blocks = q.blocks
  BY <1>3
<1>5. new.residue = r
  BY <1>3
<1>6. new \in Payload
  BY <1>3 DEF Payload
<1>. HIDE DEF new
<1>7. WithBlock(p, i, b, new)
  BY <1>1, <1>4, <1>6 DEF WithBlock
<1>. QED BY <1>2, <1>5, <1>7
(* The block cypher does for each packet that was alive what it does for   *)
(* the packet alone.                                                       *)
LEMMA Deciphered ==
  ASSUME case \in Cases, Typed, NEW i \in Nat
  PROVE  /\ Alive(i) \in 0 .. Width
         /\ block_decypher_group(Width, kk, ib, Alive(i), case.junk)
              = [g \in LiveIn(i) |-> DecypheredAlone(kk, ib[g])]
<1>1. /\ Width \in Widths /\ case.junk \in SUBSET (0 .. 63)
      /\ \A g \in Group : g \in Lanes
  BY TheCase DEF EightBytes
<1>2. Alive(i) \in 0 .. Width /\ LiveIn(i) \in SUBSET Group
  BY LiveOnes
<1>3. \A g \in LiveIn(i) : ib[g] \in SUBSET (0 .. 63)
  BY <1>1, <1>2 DEF Typed, EightBytes
<1>. DEFINE count == Alive(i)
<1>4. count \in 0 .. Width /\ LiveIn(i) = 0 .. count - 1
  BY <1>2 DEF LiveIn
<1>. HIDE DEF count
<1>5. block_decypher_group(Width, kk, ib, count, case.junk)
        = [g \in 0 .. count - 1 |-> DecypheredAlone(kk, ib[g])]
  <2>1. GroupGiven(Width, ib, count, case.junk)
    BY <1>1, <1>3, <1>4 DEF GroupGiven
  <2>2. EachAlone(Width, kk, ib, count, case.junk)
    BY <1>1, <2>1, GroupAsAlone
  <2>. QED BY <2>2 DEF EachAlone
<1>6. [g \in 0 .. count - 1 |-> DecypheredAlone(kk, ib[g])]
        = [g \in LiveIn(i) |-> DecypheredAlone(kk, ib[g])]
  BY <1>4
<1>7. block_decypher_group(Width, kk, ib, count, case.junk)
        = [g \in LiveIn(i) |-> DecypheredAlone(kk, ib[g])]
  BY <1>5, <1>6
<1>. QED BY <1>2, <1>7 DEF count

(* The block cypher of an iteration but the last.                          *)
LEMMA DeciphersStep == IInv /\ Deciphers => IInv'
<1>. SUFFICES ASSUME IInv, Deciphers PROVE IInv'
  OBVIOUS
<1>1. /\ pc = "block" /\ iter < Blocks /\ turn' = 0 /\ pc' = "stream"
      /\ blockOut' = block_decypher_group(Width, kk, ib, Alive(iter - 1), case.junk)
      /\ UNCHANGED <<case, kk, iter, regs, sb, cb, ib, packets, keystream>>
  BY DEF Deciphers, Goes
<1>2. case \in Cases /\ Progress /\ Typed /\ Lengths /\ ChainHeld /\ DoneSoFar
  BY DEF IInv
<1>3. Blocks \in Nat /\ \A g \in Group : N(g) \in 1 .. Blocks
  BY <1>2, TheCase
<1>4. iter \in 1 .. Blocks - 1 /\ iter - 1 \in Nat
  BY <1>1, <1>2, <1>3 DEF Progress
<1>5. /\ Width' = Width /\ Lanes' = Lanes /\ Group' = Group
      /\ \A g : Given(g)' = Given(g) /\ N(g)' = N(g)
  BY <1>1, SameGroup
<1>6. /\ \A g, i : Chained(g, i)' = Chained(g, i)
      /\ \A g, i : Wanted(g, i)' = Wanted(g, i)
      /\ \A g : WantedResidue(g)' = WantedResidue(g)
  BY <1>1, SameWanted
<1>7. Progress'
  BY <1>1, <1>4 DEF Progress
<1>8. Typed' /\ Lengths'
  BY <1>1, <1>2, <1>5 DEF Typed, Lengths
<1>9. ASSUME NEW g \in Group, N(g) >= iter
      PROVE  ib[g] = Chained(g, iter) /\ blockOut'[g] = DecypheredAlone(kk, Chained(g, iter))
  <2>1. ib[g] = Chained(g, iter)
    BY <1>2, <1>4, <1>9 DEF ChainHeld
  <2>2. N(g) > iter - 1
    BY <1>3, <1>4, <1>9
  <2>3. g \in LiveIn(iter - 1)
    BY <1>2, <1>4, <2>2, LiveOnes
  <2>4. blockOut' = [h \in LiveIn(iter - 1) |-> DecypheredAlone(kk, ib[h])]
    BY <1>1, <1>2, <1>4, Deciphered
  <2>. QED BY <2>1, <2>3, <2>4
<1>10. ChainHeld'
  BY <1>1, <1>5, <1>6, <1>9 DEF ChainHeld
<1>11. DoneSoFar'
  BY <1>1, <1>2, <1>5, <1>6 DEF DoneSoFar
<1>12. DecryptsEachPacket' /\ case' \in Cases
  BY <1>1, <1>2 DEF DecryptsEachPacket
<1>. QED BY <1>7, <1>8, <1>10, <1>11, <1>12 DEF IInv

(* The last iteration, with the residue of the packets.                    *)
LEMMA LastStep == IInv /\ LastIteration => IInv'
<1>. SUFFICES ASSUME IInv, LastIteration PROVE IInv'
  OBVIOUS
<1>1. /\ pc = "block" /\ ~Goes /\ pc' = "done"
      /\ blockOut' = block_decypher_group(Width, kk, ib, Alive(Blocks - 1), case.junk)
      /\ packets' = [g \in Group |->
           IF g \in LiveIn(Blocks - 1) THEN [packets[g] EXCEPT !.blocks[Blocks] = blockOut'[g]]
                                       ELSE packets[g]]
      /\ UNCHANGED <<case, kk, iter, turn, regs, sb, cb, ib, keystream>>
  BY DEF LastIteration
<1>2. case \in Cases /\ Progress /\ Typed /\ Lengths /\ ChainHeld /\ DoneSoFar
  BY DEF IInv
<1>3. Blocks \in Nat \ {0, 1} /\ \A g \in Group : N(g) \in 1 .. Blocks
  BY <1>2, TheCase
<1>4. iter \in 1 .. Blocks /\ iter - 1 \in Nat /\ Blocks - 1 \in Nat
  BY <1>1, <1>2, <1>3 DEF Progress
<1>5. /\ Width' = Width /\ Lanes' = Lanes /\ Group' = Group
      /\ \A g : Given(g)' = Given(g) /\ N(g)' = N(g)
  BY <1>1, SameGroup
<1>6. /\ \A g, i : Chained(g, i)' = Chained(g, i)
      /\ \A g, i : Wanted(g, i)' = Wanted(g, i)
      /\ \A g : WantedResidue(g)' = WantedResidue(g)
  BY <1>1, SameWanted
<1>7. iter = Blocks \/ \A g \in Group : N(g) < iter
  <2>1. CASE iter < Blocks
    <3>1. ~(Alive(iter - 1) > 0) /\ Alive(iter - 1) \in 0 .. Width
      BY <1>1, <1>2, <1>4, <2>1, LiveOnes DEF Goes
    <3>2. LiveIn(iter - 1) = {}
      BY <3>1 DEF LiveIn
    <3>3. \A g \in Group : ~(N(g) > iter - 1)
      BY <1>2, <1>4, <3>2, LiveOnes
    <3>. QED BY <1>3, <1>4, <3>3
  <2>. QED BY <1>3, <1>4, <2>1
<1>8. ASSUME NEW g \in Group
      PROVE  /\ packets'[g] \in Payload /\ Len(packets'[g].blocks) = N(g)
             /\ packets'[g].residue = packets[g].residue
             /\ \A i \in 1 .. N(g) : packets'[g].blocks[i] = Wanted(g, i)
  <2>0. /\ packets[g] \in Payload /\ Len(packets[g].blocks) = N(g)
        /\ \A i \in 1 .. N(g) : i < iter => packets[g].blocks[i] = Wanted(g, i)
    BY <1>2, <1>4 DEF Typed, Lengths, DoneSoFar
  <2>1. CASE N(g) = Blocks
    <3>1. iter = Blocks /\ N(g) > Blocks - 1 /\ N(g) >= iter
      BY <1>3, <1>4, <1>7, <2>1
    <3>2. g \in LiveIn(Blocks - 1)
      BY <1>2, <1>4, <3>1, LiveOnes
    <3>3. blockOut' = [h \in LiveIn(Blocks - 1) |-> DecypheredAlone(kk, ib[h])]
      BY <1>1, <1>2, <1>4, Deciphered
    <3>4. ib[g] = Chained(g, Blocks)
      BY <1>2, <1>4, <3>1 DEF ChainHeld
    <3>5. blockOut'[g] = Wanted(g, Blocks)
      BY <2>1, <3>2, <3>3, <3>4 DEF Wanted
    <3>6. blockOut'[g] \in EightBytes
      BY <3>2, <3>3, DecypheredTyped DEF EightBytes
    <3>7. packets'[g] = [packets[g] EXCEPT !.blocks[Blocks] = blockOut'[g]]
      BY <1>1, <3>2
    <3>. DEFINE p == packets[g]
                b == blockOut'[g]
    <3>8. p \in Payload /\ Len(p.blocks) = Blocks /\ b \in EightBytes
      BY <2>0, <2>1, <3>6
    <3>9. \A i \in 1 .. Blocks : i < iter => p.blocks[i] = Wanted(g, i)
      BY <2>0, <2>1
    <3>10. packets'[g] = [p EXCEPT !.blocks[Blocks] = b] /\ b = Wanted(g, Blocks)
      BY <3>5, <3>7
    <3>. HIDE DEF p, b
    <3>11. Blocks \in 1 .. Len(p.blocks)
      BY <1>3, <3>8
    <3>12. WithBlock(p, Blocks, b, packets'[g]) /\ packets'[g].residue = p.residue
      BY <3>8, <3>10, <3>11, BlockWritten
    <3>13. \A i \in 1 .. Blocks : i # Blocks => i < iter
      BY <1>3, <3>1
    <3>14. \A i \in 1 .. Blocks : packets'[g].blocks[i] = Wanted(g, i)
      BY <3>8, <3>9, <3>10, <3>12, <3>13 DEF WithBlock
    <3>. QED BY <2>1, <3>8, <3>12, <3>14 DEF p, WithBlock
  <2>2. CASE N(g) # Blocks
    <3>1. ~(N(g) > Blocks - 1) /\ N(g) < iter
      BY <1>3, <1>4, <1>7, <2>2
    <3>2. g \notin LiveIn(Blocks - 1)
      BY <1>2, <1>4, <3>1, LiveOnes
    <3>3. packets'[g] = packets[g]
      BY <1>1, <3>2
    <3>4. \A i \in 1 .. N(g) : i < iter
      BY <1>3, <1>4, <3>1
    <3>. QED BY <2>0, <3>3, <3>4
  <2>. QED BY <2>1, <2>2
<1>9. Progress'
  BY <1>1, <1>4 DEF Progress
<1>10. packets' \in [Group -> Payload]
  BY <1>1, <1>8
<1>11. Typed'
  BY <1>1, <1>2, <1>5, <1>10 DEF Typed
<1>12. Lengths'
  BY <1>1, <1>2, <1>5, <1>8 DEF Lengths
<1>13. ChainHeld'
  BY <1>1, <1>2, <1>5, <1>6 DEF ChainHeld
<1>14. DoneSoFar'
  BY <1>1, <1>2, <1>5, <1>6, <1>8 DEF DoneSoFar
<1>15. \A g \in Group : N(g) < Blocks => packets'[g].residue = WantedResidue(g)
  <2>1. \A g \in Group : N(g) < Blocks => N(g) < iter
    BY <1>3, <1>4, <1>7
  <2>. QED BY <1>2, <1>4, <1>8, <2>1 DEF DoneSoFar
<1>16. DecryptsEachPacket'
  <2>1. DecryptsEachPacket' <=>
          (pc' = "done" => \A g \in Group' :
             /\ \A i \in 1 .. N(g)' : packets'[g].blocks[i] = Wanted(g, i)'
             /\ N(g)' < Blocks => packets'[g].residue = WantedResidue(g)')
    BY DEF DecryptsEachPacket, Wanted, WantedResidue
  <2>. QED BY <1>5, <1>6, <1>8, <1>15, <2>1
<1>17. case' \in Cases
  BY <1>1, <1>2
<1>. QED BY <1>9, <1>11, <1>12, <1>13, <1>14, <1>16, <1>17 DEF IInv
-----------------------------------------------------------------------------
(* The stream cypher returns.                                              *)

(* What was chained before the stream cypher returns stays when it appends *)
(* another block.                                                          *)
LEMMA EarlierWanted ==
  ASSUME case' = case, kk' = kk, case \in Cases, iter \in Nat \ {0}, Typed, Lengths,
         NEW g \in Group, NEW out, keystream'[g] = Append(keystream[g], out), out \in EightBytes
  PROVE  /\ \A i \in 1 .. iter : Chained(g, i)' = Chained(g, i)
         /\ keystream'[g][iter] = out
         /\ \A i \in 1 .. N(g) : i < iter => Wanted(g, i)' = Wanted(g, i)
         /\ N(g) < iter => WantedResidue(g)' = WantedResidue(g)
<1>1. Given(g)' = Given(g) /\ N(g)' = N(g)
  BY SameGroup
<1>2. keystream[g] \in Seq(EightBytes) /\ Len(keystream[g]) = iter - 1
  BY DEF Typed, Lengths
<1>3. /\ \A i \in 1 .. iter - 1 : keystream'[g][i] = keystream[g][i]
      /\ keystream'[g][iter] = out
  BY <1>2
<1>4. ASSUME NEW i \in 1 .. iter PROVE Chained(g, i)' = Chained(g, i)
  <2>1. i # 1 => i - 1 \in 1 .. iter - 1
    OBVIOUS
  <2>2. i # 1 => keystream'[g][i - 1] = keystream[g][i - 1]
    BY <1>3, <2>1
  <2>3. Chained(g, i)' = IF i = 1 THEN Given(g).blocks[1] ELSE Given(g).blocks[i] ^^ keystream'[g][i - 1]
    BY <1>1 DEF Chained
  <2>. QED BY <2>2, <2>3 DEF Chained
<1>5. ASSUME NEW i \in 1 .. N(g), i < iter PROVE Wanted(g, i)' = Wanted(g, i)
  <2>0. N(g) \in Nat
    BY TheCase
  <2>1. i \in 1 .. iter /\ i + 1 \in 1 .. iter
    BY <1>5, <2>0
  <2>2. Chained(g, i)' = Chained(g, i) /\ Chained(g, i + 1)' = Chained(g, i + 1)
    BY <1>4, <2>1
  <2>. QED BY <1>1, <2>2 DEF Wanted
<1>6. N(g) < iter => WantedResidue(g)' = WantedResidue(g)
  <2>0. N(g) \in Nat \ {0}
    BY TheCase
  <2>1. N(g) < iter => keystream'[g][N(g)] = keystream[g][N(g)]
    <3>1. N(g) < iter => N(g) \in 1 .. iter - 1
      BY <2>0
    <3>. QED BY <1>3, <3>1
  <2>2. WantedResidue(g)' = (Given(g).residue ^^ keystream'[g][N(g)]) \cap Given(g).residueBits
    BY <1>1 DEF WantedResidue
  <2>. QED BY <2>1, <2>2 DEF WantedResidue
<1>. QED BY <1>3, <1>4, <1>5, <1>6

(* stream_cypher_group_normal returns: the next block of each packet is    *)
(* chained.                                                                *)
LEMMA ReturnsStep == IInv /\ StreamReturns => IInv'
<1>. SUFFICES ASSUME IInv, StreamReturns PROVE IInv'
  OBVIOUS
<1>. DEFINE out(g) == TableOut(Width, trasp64_88cw(Width, cb), g)
            next(g) == out(g) ^^ Given(g).blocks[iter + 1]
            bits(g) == {x \in 0 .. 63 : Width * x + LaneOf(g) \in cb}
<1>1. /\ pc = "stream" /\ turn = 32 /\ iter' = iter + 1 /\ pc' = "block"
      /\ ib' = [g \in Lanes |-> IF g \in LiveIn(iter) THEN next(g) ELSE ib[g]]
      /\ packets' = [g \in Group |->
           IF g \in LiveIn(iter - 1)
             THEN Written(g, out(g), IF g \in LiveIn(iter) THEN next(g) ELSE {})
             ELSE packets[g]]
      /\ keystream' = [g \in Group |-> Append(keystream[g], bits(g))]
      /\ UNCHANGED <<case, kk, turn, regs, sb, cb, blockOut>>
  BY DEF StreamReturns
<1>2. case \in Cases /\ Progress /\ Typed /\ Lengths /\ ChainHeld /\ DoneSoFar
  BY DEF IInv
<1>3. /\ Blocks \in Nat \ {0, 1}
      /\ \A g \in Group : g \in Lanes /\ Given(g) \in Payload /\ N(g) \in 1 .. Blocks
  BY <1>2, TheCase
<1>4. iter \in 1 .. Blocks - 1 /\ iter \in Nat \ {0} /\ iter - 1 \in Nat
  BY <1>1, <1>2, <1>3 DEF Progress
<1>5. /\ Width' = Width /\ Lanes' = Lanes /\ Group' = Group
      /\ \A g : Given(g)' = Given(g) /\ N(g)' = N(g)
  BY <1>1, SameGroup
<1>6. \A g \in Group : out(g) = bits(g) /\ bits(g) \in EightBytes
  BY <1>2, StreamOut DEF Typed, EightBytes
<1>. HIDE DEF out, bits
<1>7. /\ LiveIn(iter) \in SUBSET Group
      /\ \A g \in Group : g \in LiveIn(iter) <=> N(g) > iter
      /\ \A g \in Group : g \in LiveIn(iter - 1) <=> N(g) > iter - 1
  BY <1>2, <1>4, LiveOnes
<1>8. \A g \in Group : keystream'[g] = Append(keystream[g], bits(g))
  BY <1>1
<1>9. ASSUME NEW g \in Group
      PROVE  /\ \A i \in 1 .. iter : Chained(g, i)' = Chained(g, i)
             /\ keystream'[g][iter] = bits(g)
             /\ \A i \in 1 .. N(g) : i < iter => Wanted(g, i)' = Wanted(g, i)
             /\ N(g) < iter => WantedResidue(g)' = WantedResidue(g)
  BY <1>1, <1>2, <1>4, <1>6, <1>8, EarlierWanted
<1>10. ASSUME NEW g \in Group, N(g) > iter, NEW i, i = iter + 1
       PROVE  next(g) \in EightBytes /\ Chained(g, i)' = next(g)
  <2>1. Given(g) \in Payload /\ i \in 1 .. N(g) /\ i # 1 /\ i - 1 = iter
    BY <1>3, <1>4, <1>10
  <2>2. Given(g).blocks[i] \in EightBytes
    BY <2>1 DEF Payload, N
  <2>3. Chained(g, i)' = Given(g).blocks[i] ^^ keystream'[g][i - 1]
    BY <1>5, <2>1 DEF Chained
  <2>4. Chained(g, i)' = Given(g).blocks[i] ^^ bits(g)
    BY <1>9, <2>1, <2>3
  <2>5. next(g) = bits(g) ^^ Given(g).blocks[i]
    BY <1>6, <1>10
  <2>. QED BY <1>6, <2>2, <2>4, <2>5, AddedBits
<1>. HIDE DEF next
<1>11. ASSUME NEW g \in Group, N(g) >= iter
       PROVE  /\ packets'[g] = Written(g, out(g), IF g \in LiveIn(iter) THEN next(g) ELSE {})
              /\ packets[g] \in Payload /\ Len(packets[g].blocks) = N(g)
              /\ iter \in 1 .. Len(packets[g].blocks)
              /\ blockOut[g] = DecypheredAlone(kk, Chained(g, iter)) /\ blockOut[g] \in EightBytes
              /\ \A i \in 1 .. N(g) : i < iter => packets[g].blocks[i] = Wanted(g, i)
  <2>1. N(g) > iter - 1
    BY <1>3, <1>4, <1>11
  <2>2. g \in LiveIn(iter - 1)
    BY <1>7, <2>1
  <2>3. packets[g] \in Payload /\ Len(packets[g].blocks) = N(g)
    BY <1>2 DEF Typed, Lengths
  <2>4. iter # 0
    BY <1>4
  <2>5. blockOut[g] = DecypheredAlone(kk, Chained(g, iter))
    BY <1>1, <1>2, <1>11, <2>4 DEF ChainHeld
  <2>6. iter \in 1 .. N(g)
    BY <1>3, <1>4, <1>11
  <2>7. \A i \in 1 .. N(g) : i < iter => packets[g].blocks[i] = Wanted(g, i)
    BY <1>2, <2>4 DEF DoneSoFar
  <2>. QED BY <1>1, <2>2, <2>3, <2>5, <2>6, <2>7, DecypheredTyped DEF EightBytes
\* What the packet is after the step.
<1>. DEFINE Good(g) == /\ packets'[g] \in Payload /\ Len(packets'[g].blocks) = N(g)
                       /\ \A i \in 1 .. N(g) : i < iter + 1 => packets'[g].blocks[i] = Wanted(g, i)'
                       /\ N(g) < iter + 1 => packets'[g].residue = WantedResidue(g)'
<1>12. ASSUME NEW g \in Group, N(g) > iter PROVE Good(g)
  <2>. DEFINE p == packets[g]
              b == next(g) ^^ blockOut[g]
              now == packets'[g]
  <2>1. g \in LiveIn(iter) /\ N(g) >= iter /\ N(g) \in Nat
    BY <1>3, <1>4, <1>7, <1>12
  <2>2. now = [p EXCEPT !.blocks[iter] = b]
    BY <1>11, <2>1 DEF Written
  <2>3. p \in Payload /\ iter \in 1 .. Len(p.blocks) /\ Len(p.blocks) = N(g)
    BY <1>11, <2>1
  <2>4. iter + 1 = iter + 1
    OBVIOUS
  <2>5. next(g) \in EightBytes /\ blockOut[g] \in EightBytes
    BY <1>10, <1>11, <1>12, <2>1
  <2>6. b \in EightBytes /\ b = blockOut[g] ^^ next(g)
    BY <2>5, AddedBits
  <2>7. \A i \in 1 .. N(g) : i = iter => Wanted(g, i)' = b
    <3>. SUFFICES ASSUME NEW i \in 1 .. N(g), i = iter PROVE Wanted(g, i)' = b
      OBVIOUS
    <3>. DEFINE k == i + 1
    <3>1. k = iter + 1 /\ i # N(g) /\ i \in 1 .. iter
      BY <1>4, <1>12
    <3>2. Wanted(g, i)' = DecypheredAlone(kk', Chained(g, i)') ^^ Chained(g, k)'
      BY <1>5, <3>1 DEF Wanted
    <3>. HIDE DEF k
    <3>3. Chained(g, k)' = next(g)
      BY <1>10, <1>12, <3>1
    <3>4. Chained(g, i)' = Chained(g, i)
      BY <1>9, <3>1
    <3>5. blockOut[g] = DecypheredAlone(kk, Chained(g, i))
      BY <1>11, <2>1
    <3>. QED BY <1>1, <2>6, <3>2, <3>3, <3>4, <3>5
  <2>8. \A i \in 1 .. N(g) : i < iter => p.blocks[i] = Wanted(g, i)'
    BY <1>9, <1>11, <2>1
  <2>. HIDE DEF p, b, now
  <2>9. WithBlock(p, iter, b, now)
    BY <2>2, <2>3, <2>6, BlockWritten
  <2>10. now \in Payload /\ Len(now.blocks) = N(g)
    BY <2>3, <2>9 DEF WithBlock
  <2>11. \A i \in 1 .. N(g) : i < iter + 1 => now.blocks[i] = Wanted(g, i)'
    <3>1. \A i \in 1 .. N(g) : i < iter + 1 => i = iter \/ i < iter
      BY <1>4
    <3>. QED BY <2>3, <2>7, <2>8, <2>9, <3>1 DEF WithBlock
  <2>12. ~(N(g) < iter + 1)
    BY <1>4, <1>12, <2>1
  <2>. QED BY <2>10, <2>11, <2>12 DEF now
<1>13. ASSUME NEW g \in Group, N(g) = iter PROVE Good(g)
  <2>. DEFINE p == packets[g]
              b == blockOut[g]
              res == ResidueBits(g, out(g))
              now == packets'[g]
  <2>1. g \notin LiveIn(iter) /\ N(g) >= iter /\ N(g) \in Nat
    BY <1>3, <1>4, <1>7, <1>13
  <2>2. now = [p EXCEPT !.blocks[iter] = b, !.residue = res]
    BY <1>11, <2>1 DEF Written
  <2>3. p \in Payload /\ iter \in 1 .. Len(p.blocks) /\ Len(p.blocks) = N(g) /\ b \in EightBytes
    BY <1>11, <2>1
  <2>4. res \in EightBytes
    <3>1. Given(g).residueBits \in EightBytes
      BY <1>3 DEF Payload
    <3>. QED BY <3>1 DEF ResidueBits, EightBytes
  <2>5. res = WantedResidue(g)'
    <3>1. WantedResidue(g)' = (Given(g).residue ^^ keystream'[g][N(g)]) \cap Given(g).residueBits
      BY <1>5 DEF WantedResidue
    <3>2. keystream'[g][N(g)] = out(g)
      BY <1>6, <1>9, <1>13
    <3>. QED BY <3>1, <3>2 DEF ResidueBits
  <2>6. \A i \in 1 .. N(g) : i = iter => Wanted(g, i)' = b
    <3>. SUFFICES ASSUME NEW i \in 1 .. N(g), i = iter PROVE Wanted(g, i)' = b
      OBVIOUS
    <3>1. i = N(g) /\ i \in 1 .. iter
      BY <1>4, <1>13
    <3>2. Wanted(g, i)' = DecypheredAlone(kk', Chained(g, i)')
      BY <1>5, <3>1 DEF Wanted
    <3>3. Chained(g, i)' = Chained(g, i)
      BY <1>9, <3>1
    <3>4. blockOut[g] = DecypheredAlone(kk, Chained(g, i))
      BY <1>11, <2>1
    <3>. QED BY <1>1, <3>2, <3>3, <3>4
  <2>7. \A i \in 1 .. N(g) : i < iter => p.blocks[i] = Wanted(g, i)'
    BY <1>9, <1>11, <2>1
  <2>. HIDE DEF p, b, res, now
  <2>8. WithBlock(p, iter, b, now) /\ now.residue = res
    <3>1. now = AtItsEnd(p, iter, b, res)
      BY <2>2 DEF AtItsEnd
    <3>2. WithBlock(p, iter, b, AtItsEnd(p, iter, b, res)) /\ AtItsEnd(p, iter, b, res).residue = res
      BY <2>3, <2>4, ResidueWritten
    <3>. QED BY <3>1, <3>2
  <2>9. now \in Payload /\ Len(now.blocks) = N(g)
    BY <2>3, <2>8 DEF WithBlock
  <2>10. \A i \in 1 .. N(g) : i < iter + 1 => now.blocks[i] = Wanted(g, i)'
    <3>1. \A i \in 1 .. N(g) : i < iter + 1 => i = iter \/ i < iter
      BY <1>4
    <3>. QED BY <2>3, <2>6, <2>7, <2>8, <3>1 DEF WithBlock
  <2>. QED BY <2>5, <2>8, <2>9, <2>10 DEF now
<1>14. ASSUME NEW g \in Group, N(g) < iter PROVE Good(g)
  <2>1. ~(N(g) > iter - 1) /\ N(g) \in Nat /\ iter # 0
    BY <1>3, <1>4, <1>14
  <2>2. g \notin LiveIn(iter - 1)
    BY <1>7, <2>1
  <2>3. packets'[g] = packets[g]
    BY <1>1, <2>2
  <2>4. packets[g] \in Payload /\ Len(packets[g].blocks) = N(g)
    BY <1>2 DEF Typed, Lengths
  <2>5. /\ \A i \in 1 .. N(g) : i < iter => packets[g].blocks[i] = Wanted(g, i)
        /\ packets[g].residue = WantedResidue(g)
    BY <1>2, <1>14, <2>1 DEF DoneSoFar
  <2>6. \A i \in 1 .. N(g) : i < iter
    BY <1>4, <1>14, <2>1
  <2>. QED BY <1>9, <1>14, <2>3, <2>4, <2>5, <2>6
<1>15. \A g \in Group : Good(g)
  <2>1. \A g \in Group : N(g) > iter \/ N(g) = iter \/ N(g) < iter
    BY <1>3, <1>4
  <2>. QED BY <1>12, <1>13, <1>14, <2>1
<1>16. Progress'
  BY <1>1, <1>3, <1>4 DEF Progress
<1>17. Typed'
  <2>1. ib' \in [Lanes -> EightBytes]
    <3>1. \A g \in LiveIn(iter) : next(g) \in EightBytes
      BY <1>7, <1>10
    <3>. QED BY <1>1, <1>2, <3>1 DEF Typed
  <2>2. packets' \in [Group -> Payload]
    BY <1>1, <1>15
  <2>3. keystream' \in [Group -> Seq(EightBytes)]
    BY <1>1, <1>2, <1>6 DEF Typed
  <2>. QED BY <1>1, <1>2, <1>5, <2>1, <2>2, <2>3 DEF Typed
<1>18. Lengths'
  <2>1. \A g \in Group : Len(keystream'[g]) = iter
    BY <1>2, <1>4, <1>8 DEF Typed, Lengths
  <2>. QED BY <1>1, <1>4, <1>5, <1>15, <2>1 DEF Lengths
<1>19. ChainHeld'
  <2>1. ASSUME NEW g \in Group, N(g) >= iter + 1
        PROVE  ib'[g] = Chained(g, iter)'
    <3>1. N(g) > iter
      BY <1>3, <1>4, <2>1
    <3>2. ib'[g] = next(g)
      BY <1>1, <1>3, <1>7, <3>1
    <3>3. \A i : i = iter + 1 => Chained(g, i)' = next(g)
      BY <1>10, <3>1
    <3>4. Chained(g, iter)' = next(g)
      BY <1>1, <3>3
    <3>. QED BY <3>2, <3>4
  <2>. QED BY <1>1, <1>5, <2>1 DEF ChainHeld
<1>20. DoneSoFar'
  BY <1>1, <1>5, <1>15 DEF DoneSoFar
<1>21. DecryptsEachPacket' /\ case' \in Cases
  BY <1>1, <1>2 DEF DecryptsEachPacket
<1>. QED BY <1>16, <1>17, <1>18, <1>19, <1>20, <1>21 DEF IInv
-----------------------------------------------------------------------------
(* What decrypt_packets does for each packet.                              *)

(* No step.                                                                *)
LEMMA StutterStep == IInv /\ UNCHANGED vars => IInv'
<1>. SUFFICES ASSUME IInv, UNCHANGED vars PROVE IInv'
  OBVIOUS
<1>1. UNCHANGED <<case, kk, pc, iter, turn, regs, sb, cb, ib, blockOut, packets, keystream>>
  BY DEF vars
<1>2. case \in Cases /\ Progress /\ Typed /\ Lengths /\ ChainHeld /\ DoneSoFar /\ DecryptsEachPacket
  BY DEF IInv
<1>3. /\ Width' = Width /\ Lanes' = Lanes /\ Group' = Group
      /\ \A g : Given(g)' = Given(g) /\ N(g)' = N(g)
  BY <1>1, SameGroup
<1>4. /\ \A g, i : Chained(g, i)' = Chained(g, i)
      /\ \A g, i : Wanted(g, i)' = Wanted(g, i)
      /\ \A g : WantedResidue(g)' = WantedResidue(g)
  BY <1>1, SameWanted
<1>5. Progress' /\ case' \in Cases
  BY <1>1, <1>2 DEF Progress
<1>6. Typed' /\ Lengths'
  BY <1>1, <1>2, <1>3 DEF Typed, Lengths
<1>7. ChainHeld'
  BY <1>1, <1>2, <1>3, <1>4 DEF ChainHeld
<1>8. DoneSoFar'
  BY <1>1, <1>2, <1>3, <1>4 DEF DoneSoFar
<1>9. DecryptsEachPacket'
  <2>1. DecryptsEachPacket' <=>
          (pc' = "done" => \A g \in Group' :
             /\ \A i \in 1 .. N(g)' : packets'[g].blocks[i] = Wanted(g, i)'
             /\ N(g)' < Blocks => packets'[g].residue = WantedResidue(g)')
    BY DEF DecryptsEachPacket, Wanted, WantedResidue
  <2>. QED BY <1>1, <1>2, <1>3, <1>4, <2>1, DecryptsIs
<1>. QED BY <1>5, <1>6, <1>7, <1>8, <1>9 DEF IInv

(* Every step of decrypt_packets keeps it.                                 *)
LEMMA NextIInv == IInv /\ [Next]_vars => IInv'
BY InitCalledStep, InitTurnsStep, InitReturnsStep, DeciphersStep, TurnsStep, ReturnsStep,
   LastStep, StutterStep DEF Next

(***************************************************************************)
(* However many packets a group has and however long they are, whatever    *)
(* the key and the bytes, and in the build of every width, decrypt_packets *)
(* decrypts each packet as if it were alone.                               *)
(***************************************************************************)
THEOREM DecryptsEach == Spec => []DecryptsEachPacket
<1>1. Init => IInv
  BY InitIInv
<1>2. IInv /\ [Next]_vars => IInv'
  BY NextIInv
<1>3. IInv => DecryptsEachPacket
  BY DEF IInv
<1>. QED BY <1>1, <1>2, <1>3, PTL DEF Spec
-----------------------------------------------------------------------------
(* The refinement: what a lane has of the registers.                       *)

\* The bit of a lane in a slice.
OneIn(l, s) == IF l \in s THEN 1 ELSE 0

(* The nibble of a lane, by its bits.                                      *)
LEMMA NibBits ==
  \A h, v, l : /\ Nib(v, l) \in 0 .. 15
               /\ Nib(v, l) = OneIn(l, v[0]) + 2 * OneIn(l, v[1]) + 4 * OneIn(l, v[2]) + 8 * OneIn(l, v[3])
               /\ \A k \in 0 .. 3 : Alone(h)!Bit(Nib(v, l), k) = OneIn(l, v[k])
<1>. SUFFICES ASSUME NEW h, NEW v, NEW l
              PROVE  /\ Nib(v, l) \in 0 .. 15
                     /\ Nib(v, l) = OneIn(l, v[0]) + 2 * OneIn(l, v[1]) + 4 * OneIn(l, v[2]) + 8 * OneIn(l, v[3])
                     /\ \A k \in 0 .. 3 : Alone(h)!Bit(Nib(v, l), k) = OneIn(l, v[k])
  OBVIOUS
<1>1. Nib(v, l) = OneIn(l, v[0]) + 2 * OneIn(l, v[1]) + 4 * OneIn(l, v[2]) + 8 * OneIn(l, v[3])
  BY DEF Nib, OneIn
<1>2. \A k \in 0 .. 3 : OneIn(l, v[k]) \in {0, 1}
  BY DEF OneIn
<1>3. \A k \in 0 .. 3 : Alone(h)!Bit(Nib(v, l), k) = OneIn(l, v[k])
  <2>. DEFINE b0 == OneIn(l, v[0])
              b1 == OneIn(l, v[1])
              b2 == OneIn(l, v[2])
              b3 == OneIn(l, v[3])
              n == b0 + 2 * b1 + 4 * b2 + 8 * b3
  <2>1. b0 \in {0, 1} /\ b1 \in {0, 1} /\ b2 \in {0, 1} /\ b3 \in {0, 1}
    BY <1>2
  <2>. HIDE DEF b0, b1, b2, b3
  <2>2. n % 2 = b0 /\ (n \div 2) % 2 = b1 /\ (n \div 4) % 2 = b2 /\ (n \div 8) % 2 = b3
    BY <2>1
  <2>3. /\ Alone(h)!Bit(n, 0) = b0 /\ Alone(h)!Bit(n, 1) = b1
        /\ Alone(h)!Bit(n, 2) = b2 /\ Alone(h)!Bit(n, 3) = b3
    BY <2>1, <2>2 DEF Alone!Bit
  <2>. QED BY <1>1, <2>3 DEF b0, b1, b2, b3
<1>. QED BY <1>1, <1>2, <1>3

(* Nibbles are added bit by bit.                                           *)
LEMMA XorOfLane ==
  \A h, v, u, l : Alone(h)!Xor(Nib(v, l), Nib(u, l)) = Nib(Plus(v, u), l)
<1>. SUFFICES ASSUME NEW h, NEW v, NEW u, NEW l
              PROVE  Alone(h)!Xor(Nib(v, l), Nib(u, l)) = Nib(Plus(v, u), l)
  OBVIOUS
<1>. DEFINE a == Nib(v, l)
            b == Nib(u, l)
<1>1. a \in 0 .. 15 /\ b \in 0 .. 15
  BY NibBits
<1>2. \A k \in 0 .. 3 : Alone(h)!Bit(a, k) = OneIn(l, v[k]) /\ Alone(h)!Bit(b, k) = OneIn(l, u[k])
  BY NibBits
<1>3. \A k \in 0 .. 3 : OneIn(l, Plus(v, u)[k]) = (OneIn(l, v[k]) + OneIn(l, u[k])) % 2
  BY DEF OneIn, Plus, ^^
<1>. HIDE DEF a, b
<1>4. Alone(h)!Xor(a, b) = Alone(h)!FromBits([k \in 0 .. 3 |-> (Alone(h)!Bit(a, k) + Alone(h)!Bit(b, k)) % 2])
  BY <1>1 DEF Alone!Xor, Alone!XorOf, Alone!Nibble
<1>5. Alone(h)!Xor(a, b) = OneIn(l, Plus(v, u)[0]) + 2 * OneIn(l, Plus(v, u)[1])
                             + 4 * OneIn(l, Plus(v, u)[2]) + 8 * OneIn(l, Plus(v, u)[3])
  BY <1>2, <1>3, <1>4 DEF Alone!FromBits
<1>6. Nib(Plus(v, u), l) = OneIn(l, Plus(v, u)[0]) + 2 * OneIn(l, Plus(v, u)[1])
                             + 4 * OneIn(l, Plus(v, u)[2]) + 8 * OneIn(l, Plus(v, u)[3])
  BY NibBits
<1>. QED BY <1>5, <1>6 DEF a, b
-----------------------------------------------------------------------------
(* The circuits of the S-boxes against their tables, bit by bit.           *)

\* Where the inputs of an S-box are in its table.
Entry(e, a, b, c, d) == 1 + 16 * e + 8 * a + 4 * b + 2 * c + d

(* A lane is in an exclusive or of slices if it is in one of the two.      *)
LEMMA InXor ==
  \A a, b, x : x \in (a ^^ b) <=> ~(x \in a <=> x \in b)
BY DEF ^^

(* Circuit 1 computes table 1.                                             *)
LEMMA SBox1Table ==
  ASSUME NEW h, NEW all, NEW l \in all, NEW fe, NEW fa, NEW fb, NEW fc, NEW fd
  PROVE  Alone(h)!SBox[1][Entry(OneIn(l, fe), OneIn(l, fa), OneIn(l, fb), OneIn(l, fc), OneIn(l, fd))]
           = 2 * OneIn(l, SBox1(fe, fa, fb, fc, fd, all).a) + OneIn(l, SBox1(fe, fa, fb, fc, fd, all).b)
BY InXor DEF Alone!SBox, Entry, OneIn, SBox1, Not

(* Circuit 2 computes table 2.                                             *)
LEMMA SBox2Table ==
  ASSUME NEW h, NEW all, NEW l \in all, NEW fe, NEW fa, NEW fb, NEW fc, NEW fd
  PROVE  Alone(h)!SBox[2][Entry(OneIn(l, fe), OneIn(l, fa), OneIn(l, fb), OneIn(l, fc), OneIn(l, fd))]
           = 2 * OneIn(l, SBox2(fe, fa, fb, fc, fd, all).a) + OneIn(l, SBox2(fe, fa, fb, fc, fd, all).b)
BY InXor DEF Alone!SBox, Entry, OneIn, SBox2, Not

(* Circuit 3 computes table 3.                                             *)
LEMMA SBox3Table ==
  ASSUME NEW h, NEW all, NEW l \in all, NEW fe, NEW fa, NEW fb, NEW fc, NEW fd
  PROVE  Alone(h)!SBox[3][Entry(OneIn(l, fe), OneIn(l, fa), OneIn(l, fb), OneIn(l, fc), OneIn(l, fd))]
           = 2 * OneIn(l, SBox3(fe, fa, fb, fc, fd, all).a) + OneIn(l, SBox3(fe, fa, fb, fc, fd, all).b)
BY InXor DEF Alone!SBox, Entry, OneIn, SBox3, Not

(* Circuit 4 computes table 4.                                             *)
LEMMA SBox4Table ==
  ASSUME NEW h, NEW all, NEW l \in all, NEW fe, NEW fa, NEW fb, NEW fc, NEW fd
  PROVE  Alone(h)!SBox[4][Entry(OneIn(l, fe), OneIn(l, fa), OneIn(l, fb), OneIn(l, fc), OneIn(l, fd))]
           = 2 * OneIn(l, SBox4(fe, fa, fb, fc, fd, all).a) + OneIn(l, SBox4(fe, fa, fb, fc, fd, all).b)
BY InXor DEF Alone!SBox, Entry, OneIn, SBox4, Not

(* Circuit 5 computes table 5.                                             *)
LEMMA SBox5Table ==
  ASSUME NEW h, NEW all, NEW l \in all, NEW fe, NEW fa, NEW fb, NEW fc, NEW fd
  PROVE  Alone(h)!SBox[5][Entry(OneIn(l, fe), OneIn(l, fa), OneIn(l, fb), OneIn(l, fc), OneIn(l, fd))]
           = 2 * OneIn(l, SBox5(fe, fa, fb, fc, fd, all).a) + OneIn(l, SBox5(fe, fa, fb, fc, fd, all).b)
BY InXor DEF Alone!SBox, Entry, OneIn, SBox5, Not

(* Circuit 6 computes table 6.                                             *)
LEMMA SBox6Table ==
  ASSUME NEW h, NEW all, NEW l \in all, NEW fe, NEW fa, NEW fb, NEW fc, NEW fd
  PROVE  Alone(h)!SBox[6][Entry(OneIn(l, fe), OneIn(l, fa), OneIn(l, fb), OneIn(l, fc), OneIn(l, fd))]
           = 2 * OneIn(l, SBox6(fe, fa, fb, fc, fd, all).a) + OneIn(l, SBox6(fe, fa, fb, fc, fd, all).b)
BY InXor DEF Alone!SBox, Entry, OneIn, SBox6, Not

(* Circuit 7 computes table 7.                                             *)
LEMMA SBox7Table ==
  ASSUME NEW h, NEW all, NEW l \in all, NEW fe, NEW fa, NEW fb, NEW fc, NEW fd
  PROVE  Alone(h)!SBox[7][Entry(OneIn(l, fe), OneIn(l, fa), OneIn(l, fb), OneIn(l, fc), OneIn(l, fd))]
           = 2 * OneIn(l, SBox7(fe, fa, fb, fc, fd, all).a) + OneIn(l, SBox7(fe, fa, fb, fc, fd, all).b)
BY InXor DEF Alone!SBox, Entry, OneIn, SBox7, Not

\* The nibbles of a lane in a register.
ColumnOf(R, l) == [k \in 0 .. 9 |-> Nib(R[k], l)]

(* A number of two bits.                                                   *)
LEMMA TwoBits ==
  \A h : \A a, b \in {0, 1} : /\ Alone(h)!Bit(2 * a + b, 1) = a /\ Alone(h)!Bit(2 * a + b, 0) = b
<1>. SUFFICES ASSUME NEW h, NEW a \in {0, 1}, NEW b \in {0, 1}
              PROVE  Alone(h)!Bit(2 * a + b, 1) = a /\ Alone(h)!Bit(2 * a + b, 0) = b
  OBVIOUS
<1>1. ((2 * a + b) \div 2) % 2 = a /\ (2 * a + b) % 2 = b
  OBVIOUS
<1>. QED BY <1>1 DEF Alone!Bit

(* The bit of a lane is a bit.                                             *)
LEMMA OneInBit == \A l, s : OneIn(l, s) \in {0, 1}
BY DEF OneIn

(* A lane's bits of the S-boxes' outputs are those of the tables.          *)
LEMMA LookedLane ==
  ASSUME NEW h, NEW all, NEW l \in all, NEW A, NEW j \in 1 .. 7
  PROVE  Alone(h)!Looked(ColumnOf(A, l), j)
           = 2 * OneIn(l, SBoxes(A, all)[j].a) + OneIn(l, SBoxes(A, all)[j].b)
<1>. DEFINE R == ColumnOf(A, l)
<1>0. \A k \in 0 .. 9, b \in 0 .. 3 : Alone(h)!Bit(R[k], b) = OneIn(l, A[k][b])
  BY NibBits DEF ColumnOf
<1>. HIDE DEF R
<1>1. CASE j = 1
  <2>1. SBoxes(A, all)[1] = SBox1(A[3][0], A[0][2], A[5][1], A[6][3], A[8][0], all)
    BY DEF SBoxes
  <2>2. Alone(h)!Looked(R, 1)
          = Alone(h)!SBox[1][1 + 16 * Alone(h)!Bit(R[3], 0) + 8 * Alone(h)!Bit(R[0], 2)
                               + 4 * Alone(h)!Bit(R[5], 1) + 2 * Alone(h)!Bit(R[6], 3) + Alone(h)!Bit(R[8], 0)]
    BY DEF Alone!Looked, Alone!SBoxInputs
  <2>3. Alone(h)!Looked(R, 1)
          = Alone(h)!SBox[1][Entry(OneIn(l, A[3][0]), OneIn(l, A[0][2]), OneIn(l, A[5][1]),
                                   OneIn(l, A[6][3]), OneIn(l, A[8][0]))]
    BY <1>0, <2>2 DEF Entry
  <2>. QED BY <1>1, <2>1, <2>3, SBox1Table DEF R
<1>2. CASE j = 2
  <2>1. SBoxes(A, all)[2] = SBox2(A[1][1], A[2][2], A[5][3], A[6][0], A[8][1], all)
    BY DEF SBoxes
  <2>2. Alone(h)!Looked(R, 2)
          = Alone(h)!SBox[2][1 + 16 * Alone(h)!Bit(R[1], 1) + 8 * Alone(h)!Bit(R[2], 2)
                               + 4 * Alone(h)!Bit(R[5], 3) + 2 * Alone(h)!Bit(R[6], 0) + Alone(h)!Bit(R[8], 1)]
    BY DEF Alone!Looked, Alone!SBoxInputs
  <2>3. Alone(h)!Looked(R, 2)
          = Alone(h)!SBox[2][Entry(OneIn(l, A[1][1]), OneIn(l, A[2][2]), OneIn(l, A[5][3]),
                                   OneIn(l, A[6][0]), OneIn(l, A[8][1]))]
    BY <1>0, <2>2 DEF Entry
  <2>. QED BY <1>2, <2>1, <2>3, SBox2Table DEF R
<1>3. CASE j = 3
  <2>1. SBoxes(A, all)[3] = SBox3(A[0][3], A[1][0], A[4][1], A[4][3], A[5][2], all)
    BY DEF SBoxes
  <2>2. Alone(h)!Looked(R, 3)
          = Alone(h)!SBox[3][1 + 16 * Alone(h)!Bit(R[0], 3) + 8 * Alone(h)!Bit(R[1], 0)
                               + 4 * Alone(h)!Bit(R[4], 1) + 2 * Alone(h)!Bit(R[4], 3) + Alone(h)!Bit(R[5], 2)]
    BY DEF Alone!Looked, Alone!SBoxInputs
  <2>3. Alone(h)!Looked(R, 3)
          = Alone(h)!SBox[3][Entry(OneIn(l, A[0][3]), OneIn(l, A[1][0]), OneIn(l, A[4][1]),
                                   OneIn(l, A[4][3]), OneIn(l, A[5][2]))]
    BY <1>0, <2>2 DEF Entry
  <2>. QED BY <1>3, <2>1, <2>3, SBox3Table DEF R
<1>4. CASE j = 4
  <2>1. SBoxes(A, all)[4] = SBox4(A[2][3], A[0][1], A[1][3], A[3][2], A[7][0], all)
    BY DEF SBoxes
  <2>2. Alone(h)!Looked(R, 4)
          = Alone(h)!SBox[4][1 + 16 * Alone(h)!Bit(R[2], 3) + 8 * Alone(h)!Bit(R[0], 1)
                               + 4 * Alone(h)!Bit(R[1], 3) + 2 * Alone(h)!Bit(R[3], 2) + Alone(h)!Bit(R[7], 0)]
    BY DEF Alone!Looked, Alone!SBoxInputs
  <2>3. Alone(h)!Looked(R, 4)
          = Alone(h)!SBox[4][Entry(OneIn(l, A[2][3]), OneIn(l, A[0][1]), OneIn(l, A[1][3]),
                                   OneIn(l, A[3][2]), OneIn(l, A[7][0]))]
    BY <1>0, <2>2 DEF Entry
  <2>. QED BY <1>4, <2>1, <2>3, SBox4Table DEF R
<1>5. CASE j = 5
  <2>1. SBoxes(A, all)[5] = SBox5(A[4][2], A[3][3], A[5][0], A[7][1], A[8][2], all)
    BY DEF SBoxes
  <2>2. Alone(h)!Looked(R, 5)
          = Alone(h)!SBox[5][1 + 16 * Alone(h)!Bit(R[4], 2) + 8 * Alone(h)!Bit(R[3], 3)
                               + 4 * Alone(h)!Bit(R[5], 0) + 2 * Alone(h)!Bit(R[7], 1) + Alone(h)!Bit(R[8], 2)]
    BY DEF Alone!Looked, Alone!SBoxInputs
  <2>3. Alone(h)!Looked(R, 5)
          = Alone(h)!SBox[5][Entry(OneIn(l, A[4][2]), OneIn(l, A[3][3]), OneIn(l, A[5][0]),
                                   OneIn(l, A[7][1]), OneIn(l, A[8][2]))]
    BY <1>0, <2>2 DEF Entry
  <2>. QED BY <1>5, <2>1, <2>3, SBox5Table DEF R
<1>6. CASE j = 6
  <2>1. SBoxes(A, all)[6] = SBox6(A[2][1], A[3][1], A[4][0], A[6][2], A[8][3], all)
    BY DEF SBoxes
  <2>2. Alone(h)!Looked(R, 6)
          = Alone(h)!SBox[6][1 + 16 * Alone(h)!Bit(R[2], 1) + 8 * Alone(h)!Bit(R[3], 1)
                               + 4 * Alone(h)!Bit(R[4], 0) + 2 * Alone(h)!Bit(R[6], 2) + Alone(h)!Bit(R[8], 3)]
    BY DEF Alone!Looked, Alone!SBoxInputs
  <2>3. Alone(h)!Looked(R, 6)
          = Alone(h)!SBox[6][Entry(OneIn(l, A[2][1]), OneIn(l, A[3][1]), OneIn(l, A[4][0]),
                                   OneIn(l, A[6][2]), OneIn(l, A[8][3]))]
    BY <1>0, <2>2 DEF Entry
  <2>. QED BY <1>6, <2>1, <2>3, SBox6Table DEF R
<1>7. CASE j = 7
  <2>1. SBoxes(A, all)[7] = SBox7(A[1][2], A[2][0], A[6][1], A[7][2], A[7][3], all)
    BY DEF SBoxes
  <2>2. Alone(h)!Looked(R, 7)
          = Alone(h)!SBox[7][1 + 16 * Alone(h)!Bit(R[1], 2) + 8 * Alone(h)!Bit(R[2], 0)
                               + 4 * Alone(h)!Bit(R[6], 1) + 2 * Alone(h)!Bit(R[7], 2) + Alone(h)!Bit(R[7], 3)]
    BY DEF Alone!Looked, Alone!SBoxInputs
  <2>3. Alone(h)!Looked(R, 7)
          = Alone(h)!SBox[7][Entry(OneIn(l, A[1][2]), OneIn(l, A[2][0]), OneIn(l, A[6][1]),
                                   OneIn(l, A[7][2]), OneIn(l, A[7][3]))]
    BY <1>0, <2>2 DEF Entry
  <2>. QED BY <1>7, <2>1, <2>3, SBox7Table DEF R
<1>. QED BY <1>1, <1>2, <1>3, <1>4, <1>5, <1>6, <1>7

(* The nibbles that a turn takes from the S-boxes.                         *)
LEMMA ChosenLane ==
  ASSUME NEW h, NEW all, NEW l \in all, NEW A
  PROVE  LET s == SBoxes(A, all)
             R == ColumnOf(A, l)
         IN  /\ Alone(h)!Chosen(R, 1, 2, 1, 3, 4, 0) = Nib(Four(s[1].a, s[2].a, s[3].b, s[4].b), l)
             /\ Alone(h)!Chosen(R, 3, 4, 1, 5, 6, 0) = Nib(Four(s[3].a, s[4].a, s[5].b, s[6].b), l)
             /\ Alone(h)!Chosen(R, 5, 6, 1, 1, 2, 0) = Nib(Four(s[5].a, s[6].a, s[1].b, s[2].b), l)
<1>. DEFINE s == SBoxes(A, all)
            R == ColumnOf(A, l)
            Looks(n) == Alone(h)!Looked(R, n)
            boxes == 1 .. 7
            Pair(i, j, k, m) ==
              Alone(h)!Chosen(R, i, j, 1, k, m, 0) = Nib(Four(s[i].a, s[j].a, s[k].b, s[m].b), l)
<1>1. \A n \in 1 .. 7 : Looks(n) = 2 * OneIn(l, s[n].a) + OneIn(l, s[n].b)
  BY LookedLane
<1>. HIDE DEF s
<1>2. \A n \in 1 .. 7 : /\ Alone(h)!Bit(Looks(n), 1) = OneIn(l, s[n].a)
                        /\ Alone(h)!Bit(Looks(n), 0) = OneIn(l, s[n].b)
  <2>. HIDE DEF Looks
  <2>. QED BY <1>1, OneInBit, TwoBits
<1>3. ASSUME NEW i \in boxes, NEW j \in boxes, NEW k \in boxes, NEW m \in boxes
      PROVE  Pair(i, j, k, m)
  <2>. DEFINE four == Four(s[i].a, s[j].a, s[k].b, s[m].b)
  <2>1. Alone(h)!Chosen(R, i, j, 1, k, m, 0)
          = OneIn(l, s[i].a) + 2 * OneIn(l, s[j].a) + 4 * OneIn(l, s[k].b) + 8 * OneIn(l, s[m].b)
    <3>1. /\ Alone(h)!Bit(Alone(h)!Looked(R, i), 1) = OneIn(l, s[i].a)
          /\ Alone(h)!Bit(Alone(h)!Looked(R, j), 1) = OneIn(l, s[j].a)
          /\ Alone(h)!Bit(Alone(h)!Looked(R, k), 0) = OneIn(l, s[k].b)
          /\ Alone(h)!Bit(Alone(h)!Looked(R, m), 0) = OneIn(l, s[m].b)
      BY <1>2
    <3>. HIDE DEF R
    <3>. QED BY <3>1 DEF Alone!Chosen, Alone!FromBits
  <2>2. four[0] = s[i].a /\ four[1] = s[j].a /\ four[2] = s[k].b /\ four[3] = s[m].b
    BY DEF Four
  <2>. HIDE DEF four
  <2>3. Nib(four, l) = OneIn(l, s[i].a) + 2 * OneIn(l, s[j].a) + 4 * OneIn(l, s[k].b) + 8 * OneIn(l, s[m].b)
    BY <2>2, NibBits
  <2>. QED BY <2>1, <2>3 DEF four
<1>4. 1 \in boxes /\ 2 \in boxes /\ 3 \in boxes /\ 4 \in boxes /\ 5 \in boxes /\ 6 \in boxes
  OBVIOUS
<1>. HIDE DEF boxes, R, Pair
<1>5. Pair(1, 2, 3, 4) /\ Pair(3, 4, 5, 6) /\ Pair(5, 6, 1, 2)
  BY <1>3, <1>4
<1>. QED BY <1>5 DEF Pair, s, R

(* The extra nibble.                                                       *)
LEMMA ExtraLane ==
  ASSUME NEW h, NEW l, NEW B
  PROVE  Alone(h)!Extra(ColumnOf(B, l)) = Nib(ExtraB(B), l)
<1>. DEFINE R == ColumnOf(B, l)
            four == ExtraB(B)
            nibbles == 0 .. 9
            bits == 0 .. 3
<1>1. \A k \in nibbles, b \in bits : Alone(h)!Bit(R[k], b) = OneIn(l, B[k][b])
  BY NibBits DEF ColumnOf
<1>2. /\ 2 \in nibbles /\ 3 \in nibbles /\ 4 \in nibbles /\ 5 \in nibbles /\ 6 \in nibbles /\ 7 \in nibbles
      /\ 8 \in nibbles /\ 0 \in bits /\ 1 \in bits /\ 2 \in bits /\ 3 \in bits
  OBVIOUS
<1>. HIDE DEF R, nibbles, bits
<1>3. /\ Alone(h)!Bit(R[8], 2) = OneIn(l, B[8][2]) /\ Alone(h)!Bit(R[5], 3) = OneIn(l, B[5][3])
      /\ Alone(h)!Bit(R[2], 1) = OneIn(l, B[2][1]) /\ Alone(h)!Bit(R[7], 0) = OneIn(l, B[7][0])
      /\ Alone(h)!Bit(R[4], 3) = OneIn(l, B[4][3]) /\ Alone(h)!Bit(R[7], 2) = OneIn(l, B[7][2])
      /\ Alone(h)!Bit(R[3], 0) = OneIn(l, B[3][0]) /\ Alone(h)!Bit(R[4], 1) = OneIn(l, B[4][1])
      /\ Alone(h)!Bit(R[5], 0) = OneIn(l, B[5][0]) /\ Alone(h)!Bit(R[7], 1) = OneIn(l, B[7][1])
      /\ Alone(h)!Bit(R[2], 3) = OneIn(l, B[2][3]) /\ Alone(h)!Bit(R[3], 2) = OneIn(l, B[3][2])
      /\ Alone(h)!Bit(R[2], 0) = OneIn(l, B[2][0]) /\ Alone(h)!Bit(R[5], 1) = OneIn(l, B[5][1])
      /\ Alone(h)!Bit(R[6], 2) = OneIn(l, B[6][2]) /\ Alone(h)!Bit(R[8], 3) = OneIn(l, B[8][3])
  BY <1>1, <1>2, SMTT(30)
<1>. DEFINE sum(a, b, c, d) == (OneIn(l, a) + OneIn(l, b) + OneIn(l, c) + OneIn(l, d)) % 2
<1>4. Alone(h)!Extra(R) = sum(B[8][2], B[5][3], B[2][1], B[7][0])
                            + 2 * sum(B[4][3], B[7][2], B[3][0], B[4][1])
                            + 4 * sum(B[5][0], B[7][1], B[2][3], B[3][2])
                            + 8 * sum(B[2][0], B[5][1], B[6][2], B[8][3])
  BY <1>3, SMTT(30) DEF Alone!Extra, Alone!ExtraInputs, Alone!FromBits
<1>5. \A a, b, c, d : sum(a, b, c, d) = OneIn(l, ((a ^^ b) ^^ c) ^^ d)
  BY InXor DEF OneIn
<1>. HIDE DEF sum
<1>6. /\ four[0] = ((B[8][2] ^^ B[5][3]) ^^ B[2][1]) ^^ B[7][0]
      /\ four[1] = ((B[4][3] ^^ B[7][2]) ^^ B[3][0]) ^^ B[4][1]
      /\ four[2] = ((B[5][0] ^^ B[7][1]) ^^ B[2][3]) ^^ B[3][2]
      /\ four[3] = ((B[2][0] ^^ B[5][1]) ^^ B[6][2]) ^^ B[8][3]
  BY DEF ExtraB, Four
<1>. HIDE DEF four
<1>7. Nib(four, l) = OneIn(l, four[0]) + 2 * OneIn(l, four[1]) + 4 * OneIn(l, four[2]) + 8 * OneIn(l, four[3])
  BY NibBits
<1>. QED BY <1>4, <1>5, <1>6, <1>7 DEF four, R

(* The rotation.                                                           *)
LEMMA RotatedLane ==
  ASSUME NEW h, NEW l, NEW v, NEW p
  PROVE  (IF OneIn(l, p) = 1 THEN Alone(h)!RotatedLeft(Nib(v, l)) ELSE Nib(v, l))
           = Nib(RotatedWhere(v, p), l)
<1>. DEFINE rot == RotatedWhere(v, p)
            b0 == OneIn(l, v[0])
            b1 == OneIn(l, v[1])
            b2 == OneIn(l, v[2])
            b3 == OneIn(l, v[3])
<1>1. /\ OneIn(l, rot[0]) = IF l \in p THEN b3 ELSE b0
      /\ OneIn(l, rot[1]) = IF l \in p THEN b0 ELSE b1
      /\ OneIn(l, rot[2]) = IF l \in p THEN b1 ELSE b2
      /\ OneIn(l, rot[3]) = IF l \in p THEN b2 ELSE b3
  BY DEF RotatedWhere, OneIn, ^^
<1>2. Nib(v, l) = b0 + 2 * b1 + 4 * b2 + 8 * b3
  BY NibBits
<1>3. Nib(rot, l) = OneIn(l, rot[0]) + 2 * OneIn(l, rot[1]) + 4 * OneIn(l, rot[2]) + 8 * OneIn(l, rot[3])
  BY NibBits
<1>4. b0 \in {0, 1} /\ b1 \in {0, 1} /\ b2 \in {0, 1} /\ b3 \in {0, 1}
  BY OneInBit
<1>5. OneIn(l, p) = 1 <=> l \in p
  BY DEF OneIn
<1>. HIDE DEF rot, b0, b1, b2, b3
<1>6. Alone(h)!RotatedLeft(b0 + 2 * b1 + 4 * b2 + 8 * b3) = b3 + 2 * b0 + 4 * b1 + 8 * b2
  BY <1>4 DEF Alone!RotatedLeft
<1>. QED BY <1>1, <1>2, <1>3, <1>5, <1>6 DEF rot

(* The carries, one by one.                                                *)
LEMMA CarriesAre ==
  ASSUME NEW Z, NEW E, NEW r
  PROVE  /\ Carries(Z, E, r)[0] = r
         /\ \A b \in 0 .. 3 : Carries(Z, E, r)[b + 1]
              = (Z[b] \cap E[b]) \cup ((Z[b] ^^ E[b]) \cap Carries(Z, E, r)[b])
<1>. DEFINE Next1(b, c) == (Z[b] \cap E[b]) \cup ((Z[b] ^^ E[b]) \cap c)
            c1 == Next1(0, r)
            c2 == Next1(1, c1)
            c3 == Next1(2, c2)
            c4 == Next1(3, c3)
            IsIt(f) == f = [b \in 0 .. 4 |->
                              IF b = 0 THEN r
                              ELSE (Z[b - 1] \cap E[b - 1]) \cup ((Z[b - 1] ^^ E[b - 1]) \cap f[b - 1])]
            g == [b \in 0 .. 4 |-> CASE b = 0 -> r [] b = 1 -> c1 [] b = 2 -> c2
                                     [] b = 3 -> c3 [] OTHER -> c4]
<1>1. IsIt(g)
  <2>1. g[0] = r /\ g[1] = c1 /\ g[2] = c2 /\ g[3] = c3 /\ g[4] = c4 /\ DOMAIN g = 0 .. 4
    OBVIOUS
  <2>2. g = [b \in 0 .. 4 |-> g[b]]
    OBVIOUS
  <2>. HIDE DEF g
  <2>3. \A b \in 0 .. 4 : b # 0 => g[b] = Next1(b - 1, g[b - 1])
    <3>1. \A b \in 0 .. 4 : b = 0 \/ b = 1 \/ b = 2 \/ b = 3 \/ b = 4
      OBVIOUS
    <3>2. g[1] = Next1(0, g[0]) /\ g[2] = Next1(1, g[1]) /\ g[3] = Next1(2, g[2]) /\ g[4] = Next1(3, g[3])
      BY <2>1
    <3>. HIDE DEF Next1
    <3>. QED BY <3>1, <3>2
  <2>. QED BY <2>1, <2>2, <2>3
<1>. DEFINE f == CHOOSE x : IsIt(x)
<1>2. IsIt(f)
  <2>. HIDE DEF IsIt, g
  <2>. QED BY <1>1
<1>3. Carries(Z, E, r) = f
  BY Zenon DEF Carries
<1>. HIDE DEF f, g
<1>4. f[0] = r
  BY <1>2
<1>5. \A b \in 0 .. 3 : f[b + 1] = (Z[b] \cap E[b]) \cup ((Z[b] ^^ E[b]) \cap f[b])
  <2>. SUFFICES ASSUME NEW b \in 0 .. 3
                PROVE  f[b + 1] = (Z[b] \cap E[b]) \cup ((Z[b] ^^ E[b]) \cap f[b])
    OBVIOUS
  <2>1. b + 1 \in 0 .. 4 /\ b + 1 # 0 /\ (b + 1) - 1 = b
    OBVIOUS
  <2>. QED BY <1>2, <2>1
<1>. QED BY <1>3, <1>4, <1>5
-----------------------------------------------------------------------------
(* A turn of the slices, lane by lane.                                     *)

(* The carry of a lane is that of adding its nibbles.                      *)
LEMMA SumLane ==
  ASSUME NEW Z, NEW E, NEW r, NEW l
  PROVE  LET carry == Carries(Z, E, r)
             sum == Nib(Z, l) + Nib(E, l) + OneIn(l, r)
         IN  /\ sum % 16 = Nib([b \in 0 .. 3 |-> E[b] ^^ (Z[b] ^^ carry[b])], l)
             /\ sum \div 16 = OneIn(l, carry[4])
<1>. DEFINE carry == Carries(Z, E, r)
            n == [b \in 0 .. 3 |-> E[b] ^^ (Z[b] ^^ carry[b])]
            z(b) == OneIn(l, Z[b])
            e(b) == OneIn(l, E[b])
            c(b) == OneIn(l, carry[b])
            s(b) == OneIn(l, n[b])
<1>1. /\ carry[0] = r
      /\ \A b \in 0 .. 3 : carry[b + 1] = (Z[b] \cap E[b]) \cup ((Z[b] ^^ E[b]) \cap carry[b])
  BY CarriesAre
<1>. HIDE DEF carry
<1>2. \A b \in 0 .. 3 : z(b) + e(b) + c(b) = s(b) + 2 * c(b + 1)
  <2>. SUFFICES ASSUME NEW b \in 0 .. 3 PROVE z(b) + e(b) + c(b) = s(b) + 2 * c(b + 1)
    OBVIOUS
  <2>1. n[b] = E[b] ^^ (Z[b] ^^ carry[b])
    OBVIOUS
  <2>2. carry[b + 1] = (Z[b] \cap E[b]) \cup ((Z[b] ^^ E[b]) \cap carry[b])
    BY <1>1
  <2>3. OneIn(l, carry[b + 1]) = OneIn(l, (Z[b] \cap E[b]) \cup ((Z[b] ^^ E[b]) \cap carry[b]))
    BY <2>2
  <2>4. OneIn(l, n[b]) = OneIn(l, E[b] ^^ (Z[b] ^^ carry[b]))
    BY <2>1
  <2>5. OneIn(l, Z[b]) + OneIn(l, E[b]) + OneIn(l, carry[b])
          = OneIn(l, E[b] ^^ (Z[b] ^^ carry[b]))
              + 2 * OneIn(l, (Z[b] \cap E[b]) \cup ((Z[b] ^^ E[b]) \cap carry[b]))
    BY DEF OneIn, ^^
  <2>. QED BY <2>3, <2>4, <2>5
<1>3. c(0) = OneIn(l, r)
  BY <1>1
<1>4. /\ Nib(Z, l) = z(0) + 2 * z(1) + 4 * z(2) + 8 * z(3)
      /\ Nib(E, l) = e(0) + 2 * e(1) + 4 * e(2) + 8 * e(3)
  BY NibBits
<1>. HIDE DEF n
<1>5. Nib(n, l) = s(0) + 2 * s(1) + 4 * s(2) + 8 * s(3)
  BY NibBits
<1>6. \A b : z(b) \in {0, 1} /\ e(b) \in {0, 1} /\ c(b) \in {0, 1} /\ s(b) \in {0, 1}
  BY OneInBit
<1>. HIDE DEF z, e, c, s
<1>7. /\ z(0) + e(0) + c(0) = s(0) + 2 * c(1) /\ z(1) + e(1) + c(1) = s(1) + 2 * c(2)
      /\ z(2) + e(2) + c(2) = s(2) + 2 * c(3) /\ z(3) + e(3) + c(3) = s(3) + 2 * c(4)
  BY <1>2
<1>8. Nib(Z, l) + Nib(E, l) + OneIn(l, r) = Nib(n, l) + 16 * c(4)
  BY <1>3, <1>4, <1>5, <1>6, <1>7
<1>9. Nib(n, l) \in 0 .. 15
  BY NibBits
<1>10. /\ (Nib(n, l) + 16 * c(4)) % 16 = Nib(n, l)
       /\ (Nib(n, l) + 16 * c(4)) \div 16 = c(4)
  BY <1>6, <1>9
<1>. QED BY <1>8, <1>10 DEF n, c, carry

(* A shifted register.                                                     *)
LEMMA ShiftedLane ==
  ASSUME NEW h, NEW l, NEW R, NEW new
  PROVE  ColumnOf(ShiftedIn(R, new), l) = Alone(h)!Shifted(ColumnOf(R, l), Nib(new, l))
<1>1. \A k \in 0 .. 9 : ShiftedIn(R, new)[k] = IF k = 0 THEN new ELSE R[k - 1]
  BY DEF ShiftedIn
<1>2. \A k \in 0 .. 9 : k # 0 => ColumnOf(R, l)[k - 1] = Nib(R[k - 1], l)
  BY DEF ColumnOf
<1>3. ASSUME NEW k \in 0 .. 9
      PROVE  Nib(ShiftedIn(R, new)[k], l) = IF k = 0 THEN Nib(new, l) ELSE ColumnOf(R, l)[k - 1]
  BY <1>1, <1>2
<1>4. ColumnOf(ShiftedIn(R, new), l) = [k \in 0 .. 9 |-> Nib(ShiftedIn(R, new)[k], l)]
  BY DEF ColumnOf
<1>. QED BY <1>3, <1>4 DEF Alone!Shifted

(***************************************************************************)
(* A turn of the slices is, in each lane, a move of the table form.        *)
(***************************************************************************)
LEMMA MovedLane ==
  ASSUME NEW h, NEW all, NEW l \in all, NEW g, NEW intoA, NEW intoB
  PROVE  InLane(Turned(g, intoA, intoB, all), l)
           = Alone(h)!Moved(InLane(g, l), Nib(intoA, l), Nib(intoB, l))
<1>0. PICK RA : RA = g.A
  OBVIOUS
<1>01. \A n \in 1 .. 7 :
         Alone(h)!Looked(ColumnOf(RA, l), n) = 2 * OneIn(l, SBoxes(RA, all)[n].a) + OneIn(l, SBoxes(RA, all)[n].b)
  BY LookedLane
<1>02. /\ Alone(h)!Chosen(ColumnOf(RA, l), 1, 2, 1, 3, 4, 0)
            = Nib(Four(SBoxes(RA, all)[1].a, SBoxes(RA, all)[2].a, SBoxes(RA, all)[3].b, SBoxes(RA, all)[4].b), l)
       /\ Alone(h)!Chosen(ColumnOf(RA, l), 3, 4, 1, 5, 6, 0)
            = Nib(Four(SBoxes(RA, all)[3].a, SBoxes(RA, all)[4].a, SBoxes(RA, all)[5].b, SBoxes(RA, all)[6].b), l)
       /\ Alone(h)!Chosen(ColumnOf(RA, l), 5, 6, 1, 1, 2, 0)
            = Nib(Four(SBoxes(RA, all)[5].a, SBoxes(RA, all)[6].a, SBoxes(RA, all)[1].b, SBoxes(RA, all)[2].b), l)
  BY ChosenLane
<1>. DEFINE s == SBoxes(g.A, all)
            carry == Carries(g.Z, g.E, g.r)
            t1 == Plus(Plus(g.A[9], g.X), intoA)
            t2 == Plus(Plus(Plus(g.B[6], g.B[9]), g.Y), intoB)
            A == ShiftedIn(g.A, t1)
            B == ShiftedIn(g.B, RotatedWhere(t2, g.p))
            D == Plus(Plus(g.E, g.Z), ExtraB(g.B))
            F == [b \in 0 .. 3 |-> g.E[b] ^^ (g.q \cap (g.Z[b] ^^ carry[b]))]
            r == g.r ^^ (g.q \cap (carry[4] ^^ g.r))
            X == Four(s[1].a, s[2].a, s[3].b, s[4].b)
            Y == Four(s[3].a, s[4].a, s[5].b, s[6].b)
            Z == Four(s[5].a, s[6].a, s[1].b, s[2].b)
            now == Turned(g, intoA, intoB, all)
            o == InLane(g, l)
            sum == o.Z + o.E + o.r
            m1 == Alone(h)!Xor(Alone(h)!Xor(o.A[9], o.X), Nib(intoA, l))
            m2 == Alone(h)!Xor(Alone(h)!Xor(Alone(h)!Xor(o.B[6], o.B[9]), o.Y), Nib(intoB, l))
<1>1. /\ now.A = A /\ now.B = B /\ now.D = D /\ now.E = g.F /\ now.F = F /\ now.r = r
      /\ now.X = X /\ now.Y = Y /\ now.Z = Z /\ now.p = s[7].a /\ now.q = s[7].b
  BY DEF Turned
<1>2. /\ o.A = ColumnOf(g.A, l) /\ o.B = ColumnOf(g.B, l)
      /\ o.X = Nib(g.X, l) /\ o.Y = Nib(g.Y, l) /\ o.Z = Nib(g.Z, l)
      /\ o.D = Nib(g.D, l) /\ o.E = Nib(g.E, l) /\ o.F = Nib(g.F, l)
      /\ o.p = OneIn(l, g.p) /\ o.q = OneIn(l, g.q) /\ o.r = OneIn(l, g.r)
  BY DEF InLane, ColumnOf, OneIn
<1>3. InLane(now, l)
        = [A |-> ColumnOf(now.A, l), B |-> ColumnOf(now.B, l),
           X |-> Nib(now.X, l), Y |-> Nib(now.Y, l), Z |-> Nib(now.Z, l),
           D |-> Nib(now.D, l), E |-> Nib(now.E, l), F |-> Nib(now.F, l),
           p |-> OneIn(l, now.p), q |-> OneIn(l, now.q), r |-> OneIn(l, now.r)]
  BY DEF InLane, ColumnOf, OneIn
<1>4. Alone(h)!Moved(o, Nib(intoA, l), Nib(intoB, l))
        = [A |-> Alone(h)!Shifted(o.A, m1),
           B |-> Alone(h)!Shifted(o.B, IF o.p = 1 THEN Alone(h)!RotatedLeft(m2) ELSE m2),
           D |-> Alone(h)!Xor(Alone(h)!Xor(o.E, o.Z), Alone(h)!Extra(o.B)),
           E |-> o.F,
           F |-> IF o.q = 1 THEN sum % 16 ELSE o.E,
           r |-> IF o.q = 1 THEN sum \div 16 ELSE o.r,
           X |-> Alone(h)!Chosen(o.A, 1, 2, 1, 3, 4, 0),
           Y |-> Alone(h)!Chosen(o.A, 3, 4, 1, 5, 6, 0),
           Z |-> Alone(h)!Chosen(o.A, 5, 6, 1, 1, 2, 0),
           p |-> Alone(h)!Bit(Alone(h)!Looked(o.A, 7), 1),
           q |-> Alone(h)!Bit(Alone(h)!Looked(o.A, 7), 0)]
  BY DEF Alone!Moved
<1>. HIDE DEF now, o
<1>5. o.A[9] = Nib(g.A[9], l) /\ o.B[6] = Nib(g.B[6], l) /\ o.B[9] = Nib(g.B[9], l)
  BY <1>2 DEF ColumnOf
<1>6. m1 = Nib(t1, l)
  BY <1>2, <1>5, XorOfLane
<1>7. m2 = Nib(t2, l)
  BY <1>2, <1>5, XorOfLane
<1>8. ColumnOf(A, l) = Alone(h)!Shifted(o.A, m1)
  BY <1>2, <1>6, ShiftedLane
<1>. HIDE DEF t1, t2, m1, m2
<1>9. ColumnOf(B, l) = Alone(h)!Shifted(o.B, IF o.p = 1 THEN Alone(h)!RotatedLeft(m2) ELSE m2)
  <2>1. (IF OneIn(l, g.p) = 1 THEN Alone(h)!RotatedLeft(Nib(t2, l)) ELSE Nib(t2, l))
          = Nib(RotatedWhere(t2, g.p), l)
    BY RotatedLane
  <2>2. (IF o.p = 1 THEN Alone(h)!RotatedLeft(m2) ELSE m2) = Nib(RotatedWhere(t2, g.p), l)
    BY <1>2, <1>7, <2>1
  <2>3. ColumnOf(ShiftedIn(g.B, RotatedWhere(t2, g.p)), l)
          = Alone(h)!Shifted(ColumnOf(g.B, l), Nib(RotatedWhere(t2, g.p), l))
    BY ShiftedLane
  <2>4. o.B = ColumnOf(g.B, l)
    BY <1>2
  <2>. QED BY <2>2, <2>3, <2>4
<1>10. Nib(D, l) = Alone(h)!Xor(Alone(h)!Xor(o.E, o.Z), Alone(h)!Extra(o.B))
  BY <1>2, XorOfLane, ExtraLane
<1>. DEFINE full == [b \in 0 .. 3 |-> g.E[b] ^^ (g.Z[b] ^^ carry[b])]
<1>11. sum % 16 = Nib(full, l) /\ sum \div 16 = OneIn(l, carry[4])
  <2>1. LET n == Nib(g.Z, l) + Nib(g.E, l) + OneIn(l, g.r)
        IN  /\ n % 16 = Nib([b \in 0 .. 3 |-> g.E[b] ^^ (g.Z[b] ^^ Carries(g.Z, g.E, g.r)[b])], l)
            /\ n \div 16 = OneIn(l, Carries(g.Z, g.E, g.r)[4])
    BY SumLane
  <2>2. sum = Nib(g.Z, l) + Nib(g.E, l) + OneIn(l, g.r)
    BY <1>2
  <2>. HIDE DEF sum
  <2>. QED BY <2>1, <2>2
<1>. HIDE DEF sum, carry
<1>12. Nib(F, l) = IF o.q = 1 THEN sum % 16 ELSE o.E
  <2>1. \A b \in 0 .. 3 : OneIn(l, F[b]) = IF o.q = 1 THEN OneIn(l, full[b]) ELSE OneIn(l, g.E[b])
    BY <1>2 DEF OneIn, ^^
  <2>. HIDE DEF F, full
  <2>2. /\ Nib(F, l) = OneIn(l, F[0]) + 2 * OneIn(l, F[1]) + 4 * OneIn(l, F[2]) + 8 * OneIn(l, F[3])
        /\ Nib(full, l) = OneIn(l, full[0]) + 2 * OneIn(l, full[1]) + 4 * OneIn(l, full[2]) + 8 * OneIn(l, full[3])
        /\ Nib(g.E, l) = OneIn(l, g.E[0]) + 2 * OneIn(l, g.E[1]) + 4 * OneIn(l, g.E[2]) + 8 * OneIn(l, g.E[3])
    BY NibBits
  <2>. QED BY <1>2, <1>11, <2>1, <2>2
<1>13. OneIn(l, r) = IF o.q = 1 THEN sum \div 16 ELSE o.r
  <2>1. OneIn(l, r) = IF OneIn(l, g.q) = 1 THEN OneIn(l, carry[4]) ELSE OneIn(l, g.r)
    BY DEF OneIn, ^^
  <2>. QED BY <1>2, <1>11, <2>1
<1>14. Nib(X, l) = Alone(h)!Chosen(o.A, 1, 2, 1, 3, 4, 0)
  <2>1. Alone(h)!Chosen(ColumnOf(g.A, l), 1, 2, 1, 3, 4, 0)
          = Nib(Four(SBoxes(g.A, all)[1].a, SBoxes(g.A, all)[2].a, SBoxes(g.A, all)[3].b, SBoxes(g.A, all)[4].b), l)
    BY <1>0, <1>02
  <2>2. o.A = ColumnOf(g.A, l)
    BY <1>2
  <2>. QED BY <2>1, <2>2
<1>15. Nib(Y, l) = Alone(h)!Chosen(o.A, 3, 4, 1, 5, 6, 0)
  <2>1. Alone(h)!Chosen(ColumnOf(g.A, l), 3, 4, 1, 5, 6, 0)
          = Nib(Four(SBoxes(g.A, all)[3].a, SBoxes(g.A, all)[4].a, SBoxes(g.A, all)[5].b, SBoxes(g.A, all)[6].b), l)
    BY <1>0, <1>02
  <2>2. o.A = ColumnOf(g.A, l)
    BY <1>2
  <2>. QED BY <2>1, <2>2
<1>16. Nib(Z, l) = Alone(h)!Chosen(o.A, 5, 6, 1, 1, 2, 0)
  <2>1. Alone(h)!Chosen(ColumnOf(g.A, l), 5, 6, 1, 1, 2, 0)
          = Nib(Four(SBoxes(g.A, all)[5].a, SBoxes(g.A, all)[6].a, SBoxes(g.A, all)[1].b, SBoxes(g.A, all)[2].b), l)
    BY <1>0, <1>02
  <2>2. o.A = ColumnOf(g.A, l)
    BY <1>2
  <2>. QED BY <2>1, <2>2
<1>17. /\ OneIn(l, s[7].a) = Alone(h)!Bit(Alone(h)!Looked(o.A, 7), 1)
       /\ OneIn(l, s[7].b) = Alone(h)!Bit(Alone(h)!Looked(o.A, 7), 0)
  <2>0. Alone(h)!Looked(ColumnOf(g.A, l), 7) = 2 * OneIn(l, SBoxes(g.A, all)[7].a) + OneIn(l, SBoxes(g.A, all)[7].b)
    BY <1>0, <1>01
  <2>2. o.A = ColumnOf(g.A, l)
    BY <1>2
  <2>1. Alone(h)!Looked(o.A, 7) = 2 * OneIn(l, s[7].a) + OneIn(l, s[7].b)
    BY <2>0, <2>2
  <2>. HIDE DEF s
  <2>. QED BY <2>1, OneInBit, TwoBits
<1>. HIDE DEF s, A, B, D, F, r, X, Y, Z, sum
<1>18. InLane(now, l) = Alone(h)!Moved(o, Nib(intoA, l), Nib(intoB, l))
  BY <1>1, <1>2, <1>3, <1>4, <1>8, <1>9, <1>10, <1>12, <1>13, <1>14, <1>15, <1>16, <1>17
<1>. QED BY <1>18 DEF now, o
-----------------------------------------------------------------------------
(* The first blocks on their way into the slices.                          *)

\* The bits x of packet g and y of packet h are not in one cell.
Apart(w, g, x, h, y) == TableCell(w, g, x) = TableCell(w, h, y) => g = h /\ x = y

(* The bits of the packets are in cells of their own.                      *)
LEMMA TableCells ==
  ASSUME NEW w \in Widths, NEW g \in 0 .. w - 1, NEW h \in 0 .. w - 1,
         NEW x \in 0 .. 63, NEW y \in 0 .. 63
  PROVE  Apart(w, g, x, h, y)
<1>. SUFFICES ASSUME TableCell(w, g, x) = TableCell(w, h, y) PROVE g = h /\ x = y
  BY DEF Apart
<1>1. CASE w = 32
  <2>1. g \in 0 .. 31 /\ h \in 0 .. 31
    BY <1>1
  <2>. DEFINE p == x \div 32
              q == x % 32
              r == y \div 32
              t == y % 32
  <2>3. p \in 0 .. 1 /\ q \in 0 .. 31 /\ x = 32 * p + q
    OBVIOUS
  <2>4. r \in 0 .. 1 /\ t \in 0 .. 31 /\ y = 32 * r + t
    OBVIOUS
  <2>5. TableCell(w, g, x) = 32 * g + 1024 * p + q
    BY <1>1, <2>1 DEF TableCell, TableByte
  <2>6. TableCell(w, h, y) = 32 * h + 1024 * r + t
    BY <1>1, <2>1 DEF TableCell, TableByte
  <2>7. 32 * g + 1024 * p + q = 32 * h + 1024 * r + t
    <3>. HIDE DEF p, q, r, t
    <3>. QED BY <2>1, <2>3, <2>4, <2>5, <2>6
  <2>. HIDE DEF p, q, r, t
  <2>. QED BY <2>1, <2>3, <2>4, <2>7
<1>2. CASE w # 32
  <2>1. g \in Nat /\ h \in Nat
    BY DEF Widths
  <2>2. \A i \in Nat, z \in 0 .. 63 : TableCell(w, i, z) = 64 * i + z
    BY <1>2 DEF TableCell, TableByte
  <2>3. 64 * g + x = 64 * h + y
    BY <2>1, <2>2
  <2>. QED BY <2>1, <2>3
<1>. QED BY <1>1, <1>2

(* FFTABLEIN puts just these bits into the table.                          *)
LEMMA TableHolds ==
  ASSUME NEW w \in Widths, NEW blocks, DOMAIN blocks = 0 .. w - 1,
         \A i \in 0 .. w - 1 : blocks[i] \in EightBytes
  PROVE  /\ TableIn(w, blocks) \in SUBSET Cells(w)
         /\ \A g \in 0 .. w - 1, x \in 0 .. 63 :
              TableCell(w, g, x) \in TableIn(w, blocks) <=> x \in blocks[g]
<1>1. \A at : at \in TableIn(w, blocks) <=>
                \E i \in 0 .. w - 1 : \E x \in blocks[i] : at = TableCell(w, i, x)
  BY DEF TableIn, TableCell
<1>2. \A i \in 0 .. w - 1 : blocks[i] \in SUBSET (0 .. 63)
  BY DEF EightBytes
<1>3. \A i \in 0 .. w - 1, x \in 0 .. 63 : TableCell(w, i, x) \in Cells(w)
  BY SliceOf
<1>4. TableIn(w, blocks) \in SUBSET Cells(w)
  <2>. SUFFICES ASSUME NEW at \in TableIn(w, blocks) PROVE at \in Cells(w)
    OBVIOUS
  <2>1. PICK i \in 0 .. w - 1 : \E x \in blocks[i] : at = TableCell(w, i, x)
    BY <1>1
  <2>. QED BY <1>2, <1>3, <2>1
<1>5. ASSUME NEW g \in 0 .. w - 1, NEW x \in 0 .. 63
      PROVE  TableCell(w, g, x) \in TableIn(w, blocks) <=> x \in blocks[g]
  <2>1. x \in blocks[g] => TableCell(w, g, x) \in TableIn(w, blocks)
    BY <1>1
  <2>2. ASSUME TableCell(w, g, x) \in TableIn(w, blocks) PROVE x \in blocks[g]
    <3>1. PICK i \in 0 .. w - 1 : \E y \in blocks[i] : TableCell(w, g, x) = TableCell(w, i, y)
      BY <1>1, <2>2
    <3>2. PICK y \in blocks[i] : TableCell(w, g, x) = TableCell(w, i, y)
      BY <3>1
    <3>3. y \in 0 .. 63
      BY <1>2, <3>2
    <3>4. g \in 0 .. w - 1 /\ x \in 0 .. 63 /\ i \in 0 .. w - 1 /\ TableCell(w, g, x) = TableCell(w, i, y)
      BY <3>2
    <3>5. g = i /\ x = y
      <4>1. Apart(w, g, x, i, y)
        BY <3>3, <3>4, TableCells
      <4>. QED BY <3>4, <4>1 DEF Apart
    <3>. QED BY <3>2, <3>5
  <2>. QED BY <2>1, <2>2
<1>. QED BY <1>4, <1>5

(* trasp64_88ccw gives the lane of a packet the bits of its block.         *)
LEMMA IntoSlices ==
  ASSUME NEW w \in Widths, NEW table \in SUBSET Cells(w), NEW g \in 0 .. w - 1, NEW x \in 0 .. 63
  PROVE  LaneIn(w, g) \in Row(w, trasp64_88ccw(w, table), x) <=> TableCell(w, g, x) \in table
<1>. DEFINE bytes == BytesTransposed(w, table)
            s4 == TurnCcw(w, 4, bytes)
            s2 == TurnCcw(w, 2, s4)
            s1 == TurnCcw(w, 1, s2)
            c  == TableCell(w, g, x)
            b  == BytesTo(w, c)
            a4 == TurnedCcw(w, 4, b)
            a2 == TurnedCcw(w, 2, a4)
            a1 == TurnedCcw(w, 1, a2)
<1>0. Fits(w, 1) /\ Fits(w, 2) /\ Fits(w, 4)
  BY StagesFit
<1>1. trasp64_88ccw(w, table) = s1
  BY DEF trasp64_88ccw
<1>2. c \in Cells(w) /\ LaneIn(w, g) \in 0 .. w - 1 /\ Forth(w, c) = w * x + LaneIn(w, g)
  BY SliceOf
<1>3. Forth(w, c) = a1
  BY DEF Forth, BytesTo
<1>. HIDE DEF c
<1>4. bytes \in SUBSET Cells(w) /\ b \in Cells(w) /\ (b \in bytes <=> c \in table)
  BY <1>2, BytesMove
<1>. HIDE DEF bytes, b
<1>5. s4 \in SUBSET Cells(w) /\ a4 \in Cells(w) /\ (a4 \in s4 <=> b \in bytes)
  BY <1>0, <1>4, StageMoves
<1>. HIDE DEF s4, a4
<1>6. s2 \in SUBSET Cells(w) /\ a2 \in Cells(w) /\ (a2 \in s2 <=> a4 \in s4)
  BY <1>0, <1>5, StageMoves
<1>. HIDE DEF s2, a2
<1>7. a1 \in s1 <=> a2 \in s2
  BY <1>0, <1>6, StageMoves
<1>. HIDE DEF s1, a1
<1>8. LaneIn(w, g) \in Row(w, s1, x) <=> x * w + LaneIn(w, g) \in s1
  BY <1>2 DEF Row
<1>9. x * w = w * x
  BY DEF Widths
<1>. QED BY <1>1, <1>2, <1>3, <1>4, <1>5, <1>6, <1>7, <1>8, <1>9 DEF c
-----------------------------------------------------------------------------
(* Key, first block and keystream of a lane.                               *)

(* A nibble of a byte, by its bits.                                        *)
LEMMA NibbleOfBits ==
  ASSUME NEW block, NEW i \in Nat, NEW high \in {0, 4}
  PROVE  NibbleOf(Byte(block, i), high)
           = OneIn(8 * i + high, block) + 2 * OneIn(8 * i + high + 1, block)
               + 4 * OneIn(8 * i + high + 2, block) + 8 * OneIn(8 * i + high + 3, block)
<1>1. \A b \in 0 .. 3 : b + high \in Byte(block, i) <=> 8 * i + high + b \in block
  <2>. SUFFICES ASSUME NEW b \in 0 .. 3
                PROVE  b + high \in Byte(block, i) <=> 8 * i + high + b \in block
    OBVIOUS
  <2>1. b + high \in 0 .. 7 /\ i * 8 + (b + high) = 8 * i + high + b
    OBVIOUS
  <2>. QED BY <2>1 DEF Byte, Row
<1>2. 8 * i + high + 0 = 8 * i + high
  OBVIOUS
<1>3. /\ 0 + high \in Byte(block, i) <=> 8 * i + high \in block
      /\ 1 + high \in Byte(block, i) <=> 8 * i + high + 1 \in block
      /\ 2 + high \in Byte(block, i) <=> 8 * i + high + 2 \in block
      /\ 3 + high \in Byte(block, i) <=> 8 * i + high + 3 \in block
  BY <1>1, <1>2
<1>4. NibbleOf(Byte(block, i), high)
        = (IF 0 + high \in Byte(block, i) THEN 1 ELSE 0) + (IF 1 + high \in Byte(block, i) THEN 2 ELSE 0)
            + (IF 2 + high \in Byte(block, i) THEN 4 ELSE 0) + (IF 3 + high \in Byte(block, i) THEN 8 ELSE 0)
  BY DEF NibbleOf
<1>. QED BY <1>3, <1>4 DEF OneIn

(* What a lane has of the key.                                             *)
LEMMA KeyLane ==
  ASSUME NEW l \in Lanes, NEW ck, NEW first \in {0, 4}, NEW k \in 0 .. 7
  PROVE  Nib(KeyNibbles(ck, first)[k], l)
           = NibbleOf(Byte(ck, first + (k \div 2)), 4 * (1 - (k % 2)))
<1>. DEFINE i == first + (k \div 2)
            high == 4 * (1 - (k % 2))
            v == KeyNibbles(ck, first)[k]
<1>1. i \in Nat /\ high \in {0, 4}
  OBVIOUS
<1>2. \A b \in 0 .. 3 : v[b] = IF 8 * i + high + b \in ck THEN Lanes ELSE {}
  BY DEF KeyNibbles
<1>3. \A b \in 0 .. 3 : OneIn(l, v[b]) = OneIn(8 * i + high + b, ck)
  BY <1>2 DEF OneIn
<1>4. 8 * i + high + 0 = 8 * i + high
  BY <1>1
<1>. HIDE DEF v, i, high
<1>5. /\ OneIn(l, v[0]) = OneIn(8 * i + high, ck) /\ OneIn(l, v[1]) = OneIn(8 * i + high + 1, ck)
      /\ OneIn(l, v[2]) = OneIn(8 * i + high + 2, ck) /\ OneIn(l, v[3]) = OneIn(8 * i + high + 3, ck)
  BY <1>3, <1>4
<1>6. Nib(v, l) = OneIn(l, v[0]) + 2 * OneIn(l, v[1]) + 4 * OneIn(l, v[2]) + 8 * OneIn(l, v[3])
  BY NibBits
<1>7. NibbleOf(Byte(ck, i), high)
        = OneIn(8 * i + high, ck) + 2 * OneIn(8 * i + high + 1, ck)
            + 4 * OneIn(8 * i + high + 2, ck) + 8 * OneIn(8 * i + high + 3, ck)
  BY <1>1, NibbleOfBits
<1>8. Nib(v, l) = NibbleOf(Byte(ck, i), high)
  BY <1>5, <1>6, <1>7
<1>. QED BY <1>8 DEF v, i, high

\* The key of the table form.
KeyOf(ck) ==
  [k \in 1 .. 16 |-> NibbleOf(Byte(ck, (k - 1) \div 2), IF k % 2 = 1 THEN 4 ELSE 0)]

(* The registers of each lane are loaded with the key.                     *)
LEMMA LoadedLane ==
  ASSUME NEW h, NEW l \in Lanes, NEW ck
  PROVE  InLane(Loaded(KeyNibbles(ck, 0), KeyNibbles(ck, 4)), l) = Alone(h)!Load(KeyOf(ck))
<1>. DEFINE iA == KeyNibbles(ck, 0)
            iB == KeyNibbles(ck, 4)
            now == Loaded(iA, iB)
            key == KeyOf(ck)
<1>1. \A k \in 0 .. 7 : Nib(iA[k], l) = key[k + 1] /\ Nib(iB[k], l) = key[k + 9]
  <2>. SUFFICES ASSUME NEW k \in 0 .. 7 PROVE Nib(iA[k], l) = key[k + 1] /\ Nib(iB[k], l) = key[k + 9]
    OBVIOUS
  <2>1. /\ key[k + 1] = NibbleOf(Byte(ck, ((k + 1) - 1) \div 2), IF (k + 1) % 2 = 1 THEN 4 ELSE 0)
        /\ key[k + 9] = NibbleOf(Byte(ck, ((k + 9) - 1) \div 2), IF (k + 9) % 2 = 1 THEN 4 ELSE 0)
    BY DEF KeyOf
  <2>2. /\ ((k + 1) - 1) \div 2 = 0 + (k \div 2) /\ ((k + 9) - 1) \div 2 = 4 + (k \div 2)
        /\ (IF (k + 1) % 2 = 1 THEN 4 ELSE 0) = 4 * (1 - (k % 2))
        /\ (IF (k + 9) % 2 = 1 THEN 4 ELSE 0) = 4 * (1 - (k % 2))
    OBVIOUS
  <2>. HIDE DEF key
  <2>3. Nib(KeyNibbles(ck, 0)[k], l) = NibbleOf(Byte(ck, 0 + (k \div 2)), 4 * (1 - (k % 2)))
    BY KeyLane
  <2>4. Nib(KeyNibbles(ck, 4)[k], l) = NibbleOf(Byte(ck, 4 + (k \div 2)), 4 * (1 - (k % 2)))
    BY KeyLane
  <2>. QED BY <2>1, <2>2, <2>3, <2>4
<1>2. Nib(Zero, l) = 0
  <2>1. \A b \in 0 .. 3 : OneIn(l, Zero[b]) = 0
    BY DEF Zero, OneIn
  <2>. QED BY <2>1, NibBits
<1>. HIDE DEF iA, iB, key
<1>3. now = [A |-> [k \in 0 .. 9 |-> IF k < 8 THEN iA[k] ELSE Zero],
             B |-> [k \in 0 .. 9 |-> IF k < 8 THEN iB[k] ELSE Zero],
             X |-> Zero, Y |-> Zero, Z |-> Zero, D |-> Zero, E |-> Zero, F |-> Zero,
             p |-> {}, q |-> {}, r |-> {}]
  BY DEF Loaded
<1>4. \A k \in 0 .. 9 : /\ Nib(now.A[k], l) = IF k < 8 THEN key[k + 1] ELSE 0
                        /\ Nib(now.B[k], l) = IF k < 8 THEN key[k + 9] ELSE 0
  BY <1>1, <1>2, <1>3
<1>5. /\ Nib(now.X, l) = 0 /\ Nib(now.Y, l) = 0 /\ Nib(now.Z, l) = 0
      /\ Nib(now.D, l) = 0 /\ Nib(now.E, l) = 0 /\ Nib(now.F, l) = 0
      /\ now.p = {} /\ now.q = {} /\ now.r = {}
  BY <1>2, <1>3
<1>. HIDE DEF now
<1>6. InLane(now, l) = Alone(h)!Load(key)
  BY <1>4, <1>5 DEF InLane, Alone!Load
<1>. QED BY <1>6 DEF now, iA, iB, key

\* The first block of a packet as the table form has it.
NibblesOf(block) ==
  [k \in 1 .. 8 |-> <<NibbleOf(Byte(block, k - 1), 4), NibbleOf(Byte(block, k - 1), 0)>>]

\* Lane l of the rows has the bits of block.
Carried(l, row, block) == \A x \in 0 .. 63 : l \in row[x] <=> x \in block

\* Half a byte of the rows.
InByte(row, i, high) == [b \in 0 .. 3 |-> row[8 * i + high + b]]

(* What a lane has of a byte of the first blocks.                          *)
LEMMA ByteLane ==
  ASSUME NEW l, NEW block, NEW row, NEW i \in 0 .. 7, NEW high \in {0, 4},
         Carried(l, row, block)
  PROVE  Nib(InByte(row, i, high), l) = NibbleOf(Byte(block, i), high)
<1>. DEFINE v == InByte(row, i, high)
<1>1. \A b \in 0 .. 3 : OneIn(l, v[b]) = OneIn(8 * i + high + b, block)
  <2>1. \A b \in 0 .. 3 : 8 * i + high + b \in 0 .. 63
    OBVIOUS
  <2>2. \A b \in 0 .. 3 : v[b] = row[8 * i + high + b]
    BY DEF InByte
  <2>3. \A b \in 0 .. 3 : l \in row[8 * i + high + b] <=> 8 * i + high + b \in block
    BY <2>1 DEF Carried
  <2>. QED BY <2>2, <2>3 DEF OneIn
<1>2. 8 * i + high + 0 = 8 * i + high
  OBVIOUS
<1>. HIDE DEF v
<1>3. /\ OneIn(l, v[0]) = OneIn(8 * i + high, block) /\ OneIn(l, v[1]) = OneIn(8 * i + high + 1, block)
      /\ OneIn(l, v[2]) = OneIn(8 * i + high + 2, block) /\ OneIn(l, v[3]) = OneIn(8 * i + high + 3, block)
  BY <1>1, <1>2
<1>4. Nib(v, l) = OneIn(l, v[0]) + 2 * OneIn(l, v[1]) + 4 * OneIn(l, v[2]) + 8 * OneIn(l, v[3])
  BY NibBits
<1>5. NibbleOf(Byte(block, i), high)
        = OneIn(8 * i + high, block) + 2 * OneIn(8 * i + high + 1, block)
            + 4 * OneIn(8 * i + high + 2, block) + 8 * OneIn(8 * i + high + 3, block)
  BY NibbleOfBits
<1>6. Nib(v, l) = NibbleOf(Byte(block, i), high)
  BY <1>3, <1>4, <1>5
<1>. QED BY <1>6 DEF v

\* The move of the table form that takes in a byte.
TakenByte(h, o, byte, t) ==
  IF t % 2 = 0 THEN Alone(h)!Moved(o, Alone(h)!Xor(byte[1], o.D), byte[2])
               ELSE Alone(h)!Moved(o, Alone(h)!Xor(byte[2], o.D), byte[1])

\* A turn of the initialization does that move in lane l.
TakesIn(h, all, l, g, row, block, t) ==
  InLane(TurnedIn(g, row, t, all), l)
    = TakenByte(h, InLane(g, l), NibblesOf(block)[(t \div 4) + 1], t)

(* A turn of the initialization takes a byte into the two registers of each *)
(* lane, the high nibble into A first.                                     *)
LEMMA TakenLane ==
  ASSUME NEW h, NEW all, NEW l \in all, NEW g, NEW row, NEW block, NEW t \in 0 .. 31,
         Carried(l, row, block)
  PROVE  \* A turn of the initialization does that move in lane l.
TakesIn(h, all, l, g, row, block, t)
<1>. DEFINE i == t \div 4
            byte == NibblesOf(block)[i + 1]
            o == InLane(g, l)
            in1 == [b \in 0 .. 3 |-> row[8 * i + 4 + b]]
            in2 == [b \in 0 .. 3 |-> row[8 * i + b]]
<1>1. i \in 0 .. 7
  OBVIOUS
<1>2. TurnedIn(g, row, t, all) = IF t % 2 = 1 THEN Turned(g, Plus(g.D, in2), in1, all)
                                              ELSE Turned(g, Plus(g.D, in1), in2, all)
  BY DEF TurnedIn
<1>3. byte[1] = NibbleOf(Byte(block, i), 4) /\ byte[2] = NibbleOf(Byte(block, i), 0)
  <2>. HIDE DEF i
  <2>1. (i + 1) - 1 = i /\ i + 1 \in 1 .. 8
    BY <1>1
  <2>. QED BY <2>1 DEF NibblesOf
<1>4. o.D = Nib(g.D, l)
  BY DEF InLane
<1>. HIDE DEF i, byte, o, TakenByte, TakesIn
<1>5. Nib(in1, l) = byte[1]
  <2>1. Nib(InByte(row, i, 4), l) = NibbleOf(Byte(block, i), 4)
    BY <1>1, ByteLane
  <2>2. in1 = InByte(row, i, 4)
    BY DEF InByte
  <2>. QED BY <1>3, <2>1, <2>2
<1>6. Nib(in2, l) = byte[2]
  <2>1. Nib(InByte(row, i, 0), l) = NibbleOf(Byte(block, i), 0)
    BY <1>1, ByteLane
  <2>2. in2 = InByte(row, i, 0)
    <3>1. \A b \in 0 .. 3 : 8 * i + 0 + b = 8 * i + b
      BY <1>1
    <3>. QED BY <3>1 DEF InByte
  <2>. QED BY <1>3, <2>1, <2>2
<1>. HIDE DEF in1, in2
<1>7. \A v : Plus(g.D, v) = Plus(v, g.D)
  BY DEF Plus, ^^
<1>8. Nib(Plus(g.D, in1), l) = Alone(h)!Xor(byte[1], o.D)
  <2>1. Alone(h)!Xor(Nib(in1, l), Nib(g.D, l)) = Nib(Plus(in1, g.D), l)
    BY XorOfLane
  <2>. QED BY <1>4, <1>5, <1>7, <2>1
<1>9. Nib(Plus(g.D, in2), l) = Alone(h)!Xor(byte[2], o.D)
  <2>1. Alone(h)!Xor(Nib(in2, l), Nib(g.D, l)) = Nib(Plus(in2, g.D), l)
    BY XorOfLane
  <2>. QED BY <1>4, <1>6, <1>7, <2>1
<1>10. CASE t % 2 = 0
  <2>1. InLane(Turned(g, Plus(g.D, in1), in2, all), l)
          = Alone(h)!Moved(InLane(g, l), Nib(Plus(g.D, in1), l), Nib(in2, l))
    BY MovedLane
  <2>2. InLane(TurnedIn(g, row, t, all), l) = Alone(h)!Moved(o, Alone(h)!Xor(byte[1], o.D), byte[2])
    BY <1>2, <1>6, <1>8, <1>10, <2>1 DEF o
  <2>. QED BY <1>10, <2>2 DEF i, byte, o, TakenByte, TakesIn
<1>11. CASE t % 2 = 1
  <2>1. InLane(Turned(g, Plus(g.D, in2), in1, all), l)
          = Alone(h)!Moved(InLane(g, l), Nib(Plus(g.D, in2), l), Nib(in1, l))
    BY MovedLane
  <2>2. InLane(TurnedIn(g, row, t, all), l) = Alone(h)!Moved(o, Alone(h)!Xor(byte[2], o.D), byte[1])
    BY <1>2, <1>5, <1>9, <1>11, <2>1 DEF o
  <2>. QED BY <1>11, <2>2 DEF i, byte, o, TakenByte, TakesIn
<1>. QED BY <1>10, <1>11

\* The rows that a turn makes, in place of what was in them.
WithRows(w, cells, made) ==
  {at \in cells : at \div w \notin DOMAIN made}
    \cup UNION {{w * r + l : l \in made[r]} : r \in DOMAIN made}

\* What the cells have of a lane.
LaneBits(w, cells, l) == {x \in 0 .. 63 : w * x + l \in cells}

\* A turn does with the keystream what a move does, in lane l.
MakesPair(h, w, cells, t, l, D) ==
  LaneBits(w, WithRows(w, cells, RowsMade(t, D)), l)
    = Alone(h)!WithPair(LaneBits(w, cells, l), t, Nib(D, l))

(* In each lane they are the pair of bits that a move makes.               *)
LEMMA PairLane ==
  ASSUME NEW h, NEW w \in Widths, NEW cells, NEW t \in 0 .. 31, NEW l \in 0 .. w - 1,
         NEW D \in Nibbles(0 .. w - 1)
  PROVE  MakesPair(h, w, cells, t, l, D)
<1>. DEFINE low == 8 * (t \div 4) + 6 - 2 * (t % 4)
            high == 8 * (t \div 4) + 7 - 2 * (t % 4)
            made == RowsMade(t, D)
            old == {x \in 0 .. 63 : w * x + l \in cells}
            new == {x \in 0 .. 63 : w * x + l \in WithRows(w, cells, made)}
<1>1. low \in 0 .. 62 /\ high = low + 1
  OBVIOUS
<1>2. /\ DOMAIN made = {high, high - 1}
      /\ made[high] = D[2] ^^ D[3]
      /\ made[high - 1] = D[0] ^^ D[1]
  <2>1. made = [r \in {high, high - 1} |-> IF r = high THEN D[2] ^^ D[3] ELSE D[0] ^^ D[1]]
    BY DEF RowsMade
  <2>. HIDE DEF made, low
  <2>2. high - 1 # high
    OBVIOUS
  <2>. HIDE DEF high
  <2>. QED BY <2>1, <2>2
<1>3. Alone(h)!WithPair(old, t, Nib(D, l))
        = (old \ {low, low + 1})
            \cup (IF Alone(h)!Bit(Nib(D, l), 0) # Alone(h)!Bit(Nib(D, l), 1) THEN {low} ELSE {})
            \cup (IF Alone(h)!Bit(Nib(D, l), 2) # Alone(h)!Bit(Nib(D, l), 3) THEN {low + 1} ELSE {})
  BY DEF Alone!WithPair
<1>. HIDE DEF low, high, made
<1>4. /\ Alone(h)!Bit(Nib(D, l), 0) # Alone(h)!Bit(Nib(D, l), 1) <=> l \in D[0] ^^ D[1]
      /\ Alone(h)!Bit(Nib(D, l), 2) # Alone(h)!Bit(Nib(D, l), 3) <=> l \in D[2] ^^ D[3]
  <2>1. /\ Alone(h)!Bit(Nib(D, l), 0) = OneIn(l, D[0]) /\ Alone(h)!Bit(Nib(D, l), 1) = OneIn(l, D[1])
        /\ Alone(h)!Bit(Nib(D, l), 2) = OneIn(l, D[2]) /\ Alone(h)!Bit(Nib(D, l), 3) = OneIn(l, D[3])
    BY NibBits
  <2>. QED BY <2>1 DEF OneIn, ^^
<1>5. DOMAIN made = {low, low + 1} /\ made[low + 1] = D[2] ^^ D[3] /\ made[low] = D[0] ^^ D[1]
  BY <1>1, <1>2
<1>6. D[0] ^^ D[1] \in SUBSET (0 .. w - 1) /\ D[2] ^^ D[3] \in SUBSET (0 .. w - 1)
  BY DEF Nibbles, ^^
<1>7. \A r \in DOMAIN made : r \in Nat /\ made[r] \in SUBSET (0 .. w - 1)
  BY <1>1, <1>5, <1>6
<1>8. \A x \in 0 .. 63 : w * x + l \in WithRows(w, cells, made)
        <=> IF x \in DOMAIN made THEN l \in made[x] ELSE w * x + l \in cells
  <2>. SUFFICES ASSUME NEW x \in 0 .. 63
                PROVE  w * x + l \in WithRows(w, cells, made)
                         <=> IF x \in DOMAIN made THEN l \in made[x] ELSE w * x + l \in cells
    OBVIOUS
  <2>1. (w * x + l) \div w = x
    BY CellParts
  <2>2. \A r \in Nat, m \in 0 .. w - 1 : (w * r + m) \div w = r /\ (w * r + m) % w = m
    BY CellParts
  <2>3. ASSUME NEW r \in DOMAIN made, NEW m \in made[r], w * x + l = w * r + m
        PROVE  r = x /\ m = l
    <3>1. r \in Nat /\ m \in 0 .. w - 1
      BY <1>7
    <3>2. (w * r + m) \div w = r /\ (w * r + m) % w = m
      BY <2>2, <3>1
    <3>3. (w * x + l) \div w = x /\ (w * x + l) % w = l
      BY CellParts
    <3>. QED BY <2>3, <3>2, <3>3
  <2>4. (\E r \in DOMAIN made : \E m \in made[r] : w * x + l = w * r + m)
          <=> x \in DOMAIN made /\ l \in made[x]
    BY <2>3
  <2>5. w * x + l \in WithRows(w, cells, made)
          <=> \/ w * x + l \in cells /\ (w * x + l) \div w \notin DOMAIN made
              \/ \E r \in DOMAIN made : \E m \in made[r] : w * x + l = w * r + m
    BY DEF WithRows
  <2>. QED BY <2>1, <2>4, <2>5
<1>9. \A x \in 0 .. 63 :
        x \in new <=> \/ x \in old /\ x # low /\ x # low + 1
                      \/ x = low /\ l \in D[0] ^^ D[1]
                      \/ x = low + 1 /\ l \in D[2] ^^ D[3]
  BY <1>1, <1>5, <1>8
<1>10. low \in 0 .. 63 /\ low + 1 \in 0 .. 63 /\ old \in SUBSET (0 .. 63) /\ new \in SUBSET (0 .. 63)
  BY <1>1
<1>. HIDE DEF old, new
<1>11. new = Alone(h)!WithPair(old, t, Nib(D, l))
  <2>. DEFINE p == Alone(h)!Bit(Nib(D, l), 0) # Alone(h)!Bit(Nib(D, l), 1)
              q == Alone(h)!Bit(Nib(D, l), 2) # Alone(h)!Bit(Nib(D, l), 3)
  <2>1. Alone(h)!WithPair(old, t, Nib(D, l))
          = (old \ {low, low + 1}) \cup (IF p THEN {low} ELSE {}) \cup (IF q THEN {low + 1} ELSE {})
    BY <1>3
  <2>2. (p <=> l \in D[0] ^^ D[1]) /\ (q <=> l \in D[2] ^^ D[3])
    BY <1>4
  <2>. HIDE DEF p, q
  <2>. QED BY <1>9, <1>10, <2>1, <2>2
<1>. QED BY <1>11 DEF old, new, made, LaneBits, MakesPair
-----------------------------------------------------------------------------
(* The slices implement the table form of the stream cypher.               *)

\* What the inductive invariant above does not say of the start: until the
\* initialization returns, the lane of each packet has its first block.
SbRows == [r \in 0 .. 63 |-> Row(Width, sb, r)]
Started ==
  /\ pc = "start" => turn = 0
  /\ pc = "init" => \A g \in Group : Carried(LaneOf(g), SbRows, Given(g).blocks[1])

(* Each packet has a first block.                                          *)
LEMMA FirstBlocks ==
  ASSUME case \in Cases, NEW g \in Group
  PROVE  Given(g).blocks[1] \in EightBytes
<1>1. Given(g) \in Payload /\ N(g) \in 1 .. Blocks
  BY TheCase
<1>2. Given(g).blocks \in Seq(EightBytes) /\ 1 \in 1 .. Len(Given(g).blocks)
  BY <1>1, TheCase DEF Payload, N
<1>. QED BY <1>2

(* stream_cypher_group_init finds in each lane the first block of its      *)
(* packet.                                                                 *)
LEMMA SbCarries ==
  ASSUME case \in Cases, StreamInitCalled
  PROVE  \A g \in Group : Carried(LaneOf(g), SbRows', Given(g).blocks[1])
<1>. DEFINE blocks == [g \in Lanes |-> IF g \in Group THEN Given(g).blocks[1] ELSE case.junk]
            table == TableIn(Width, blocks)
<1>1. sb' = trasp64_88ccw(Width, table) /\ Width' = Width
  BY SameGroup DEF StreamInitCalled
<1>2. Width \in Widths /\ case.junk \in EightBytes /\ \A g \in Group : Given(g).blocks[1] \in EightBytes
  BY TheCase, FirstBlocks
<1>3. DOMAIN blocks = 0 .. Width - 1 /\ \A i \in 0 .. Width - 1 : blocks[i] \in EightBytes
  BY <1>2 DEF Lanes
<1>4. \A g \in Group : g \in 0 .. Width - 1 /\ blocks[g] = Given(g).blocks[1]
  BY TheCase DEF Lanes
<1>. HIDE DEF blocks
<1>5. /\ table \in SUBSET Cells(Width)
      /\ \A g \in 0 .. Width - 1, x \in 0 .. 63 : TableCell(Width, g, x) \in table <=> x \in blocks[g]
  BY <1>2, <1>3, TableHolds
<1>. HIDE DEF table
<1>. SUFFICES ASSUME NEW g \in Group, NEW x \in 0 .. 63
              PROVE  LaneOf(g) \in (SbRows')[x] <=> x \in Given(g).blocks[1]
  BY DEF Carried
<1>6. SbRows' = [r \in 0 .. 63 |-> Row(Width, trasp64_88ccw(Width, table), r)]
  <2>1. SbRows' = [r \in 0 .. 63 |-> Row(Width', sb', r)]
    BY DEF SbRows, Row
  <2>. QED BY <1>1, <2>1
<1>7. LaneOf(g) = LaneIn(Width, g) /\ g \in 0 .. Width - 1
  BY LaneOfSlice
<1>8. LaneIn(Width, g) \in Row(Width, trasp64_88ccw(Width, table), x) <=> TableCell(Width, g, x) \in table
  BY <1>2, <1>5, <1>7, IntoSlices
<1>. QED BY <1>4, <1>5, <1>6, <1>7, <1>8

(* They stay there.                                                        *)
LEMMA StartedStep == IInv /\ Started /\ [Next]_vars => Started'
<1>. SUFFICES ASSUME IInv, Started, [Next]_vars PROVE Started'
  OBVIOUS
<1>0. case \in Cases
  BY DEF IInv
<1>1. CASE StreamInitCalled
  <2>1. pc' = "init" /\ case' = case
    BY <1>1 DEF StreamInitCalled
  <2>2. Group' = Group /\ \A g : Given(g)' = Given(g) /\ LaneOf(g)' = LaneOf(g)
    BY <2>1, SameGroup
  <2>3. \A g \in Group : Carried(LaneOf(g), SbRows', Given(g).blocks[1])
    BY <1>0, <1>1, SbCarries
  <2>4. \A g \in Group' : Carried(LaneOf(g), SbRows, Given(g).blocks[1])'
    BY <2>2, <2>3 DEF Carried
  <2>. QED BY <2>1, <2>4 DEF Started
<1>2. CASE StreamInitTurns \/ UNCHANGED vars
  <2>1. UNCHANGED <<case, sb, pc>> /\ (pc = "start" => turn' = turn)
    BY <1>2 DEF StreamInitTurns, vars
  <2>2. /\ Group' = Group /\ Width' = Width
        /\ \A g : Given(g)' = Given(g) /\ LaneOf(g)' = LaneOf(g)
    BY <2>1, SameGroup
  <2>3. SbRows' = SbRows
    BY <2>1, <2>2 DEF SbRows, Row
  <2>. QED BY <2>1, <2>2, <2>3 DEF Started, Carried
<1>3. CASE StreamInitReturns \/ Deciphers \/ StreamTurns \/ StreamReturns \/ LastIteration
  <2>1. pc' # "start" /\ pc' # "init"
    BY <1>3 DEF StreamInitReturns, Deciphers, StreamTurns, StreamReturns, LastIteration
  <2>. QED BY <2>1 DEF Started
<1>. QED BY <1>1, <1>2, <1>3 DEF Next

(* At the start each lane has the key.                                     *)
LEMMA AloneInit == Init => \A g \in Group : Alone(g)!Init
<1>. SUFFICES ASSUME Init, NEW g \in Group PROVE Alone(g)!Init
  OBVIOUS
<1>1. /\ case \in Cases /\ pc = "start" /\ turn = 0 /\ cb = {}
      /\ regs = Loaded(KeyNibbles(case.ck, 0), KeyNibbles(case.ck, 4))
  BY DEF Init
<1>2. LaneOf(g) \in Lanes
  BY <1>1, LaneOfSlice
<1>3. InLane(regs, LaneOf(g)) = Alone(g)!Load(KeyOf(case.ck))
  BY <1>1, <1>2, LoadedLane
<1>4. Moves = 0
  BY <1>1 DEF Moves
<1>5. {x \in 0 .. 63 : Width * x + LaneOf(g) \in cb} = {}
  BY <1>1
<1>. QED BY <1>3, <1>4, <1>5 DEF Alone!Init, KeyOf

(* What leaves the registers and the rows alone is no step of the stream   *)
(* cypher of a packet.                                                     *)
LEMMA LeftAlone ==
  ASSUME UNCHANGED <<case, regs, cb>>, Moves' = Moves, NEW g
  PROVE  UNCHANGED Alone(g)!vars
<1>1. Width' = Width /\ Given(g)' = Given(g) /\ LaneOf(g)' = LaneOf(g)
  BY SameGroup
<1>2. InLane(regs, LaneOf(g))' = InLane(regs, LaneOf(g))
  BY <1>1 DEF InLane, Nib
<1>3. {x \in 0 .. 63 : Width * x + LaneOf(g) \in cb}' = {x \in 0 .. 63 : Width * x + LaneOf(g) \in cb}
  BY <1>1
<1>. QED BY <1>1, <1>2, <1>3 DEF Alone!vars

(* A turn of the initialization, seen by one packet.                       *)
LEMMA AloneTakes == IInv /\ Started /\ StreamInitTurns => \A g \in Group : Alone(g)!Takes
<1>. SUFFICES ASSUME IInv, Started, StreamInitTurns, NEW g \in Group PROVE Alone(g)!Takes
  OBVIOUS
<1>. DEFINE l == LaneOf(g)
            block == Given(g).blocks[1]
            o == InLane(regs, l)
            byte == NibblesOf(block)[(turn \div 4) + 1]
<1>1. /\ pc = "init" /\ pc' = pc /\ turn < 32 /\ turn' = turn + 1
      /\ regs' = TurnedIn(regs, SbRows, turn, Lanes)
      /\ UNCHANGED <<case, cb>>
  BY DEF StreamInitTurns, SbRows
<1>2. case \in Cases /\ turn \in 0 .. 31
  BY <1>1 DEF IInv, Progress
<1>3. l \in Lanes /\ Carried(l, SbRows, block)
  BY <1>1, <1>2, LaneOfSlice DEF Started
<1>4. Width' = Width /\ Given(g)' = Given(g) /\ LaneOf(g)' = l
  BY <1>1, SameGroup
<1>5. Moves = turn /\ Moves' = turn + 1
  BY <1>1 DEF Moves
<1>6. InLane(regs, LaneOf(g))' = InLane(regs', l)
  BY <1>4 DEF InLane, Nib
<1>. HIDE DEF l, block
<1>7. InLane(TurnedIn(regs, SbRows, turn, Lanes), l)
        = TakenByte(g, InLane(regs, l), NibblesOf(block)[(turn \div 4) + 1], turn)
  <2>1. TakesIn(g, Lanes, l, regs, SbRows, block, turn)
    BY <1>2, <1>3, TakenLane
  <2>. QED BY <2>1 DEF TakesIn
<1>. HIDE DEF o, byte
<1>8. InLane(regs', l)
        = LET into(reg) == IF (turn % 2 = 0) = (reg = "A") THEN byte[1] ELSE byte[2]
          IN  Alone(g)!Moved(o, Alone(g)!Xor(into("A"), o.D), into("B"))
  <2>1. CASE turn % 2 = 0
    BY <1>1, <1>7, <2>1 DEF TakenByte, o, byte
  <2>2. CASE turn % 2 # 0
    BY <1>1, <1>7, <2>2 DEF TakenByte, o, byte
  <2>. QED BY <2>1, <2>2
<1>9. {x \in 0 .. 63 : Width * x + LaneOf(g) \in cb}' = {x \in 0 .. 63 : Width * x + LaneOf(g) \in cb}
  BY <1>1, <1>4 DEF l
<1>. QED BY <1>1, <1>2, <1>4, <1>5, <1>6, <1>8, <1>9 DEF Alone!Takes, o, byte, l, block, NibblesOf

(* A turn that makes keystream, seen by one packet.                        *)
LEMMA AloneMakes == IInv /\ IInv' /\ StreamTurns => \A g \in Group : Alone(g)!Makes
<1>. SUFFICES ASSUME IInv, IInv', StreamTurns, NEW g \in Group PROVE Alone(g)!Makes
  OBVIOUS
<1>. DEFINE l == LaneOf(g)
            o == InLane(regs, l)
            was == {x \in 0 .. 63 : Width * x + l \in cb}
<1>1. /\ pc = "stream" /\ pc' = pc /\ turn < 32 /\ turn' = turn + 1 /\ iter' = iter
      /\ regs' = Turned(regs, Zero, Zero, Lanes)
      /\ cb' = WithRows(Width, cb, RowsMade(turn, regs'.D))
      /\ UNCHANGED case
  BY DEF StreamTurns, WithRows
<1>2. case \in Cases /\ turn \in 0 .. 31 /\ iter \in Nat /\ iter >= 1
  <2>1. case \in Cases /\ turn \in 0 .. 31 /\ iter \in 1 .. Blocks - 1
    BY <1>1 DEF IInv, Progress
  <2>. QED BY <2>1, TheCase
<1>3. l \in Lanes /\ Width \in Widths /\ l \in 0 .. Width - 1
  BY <1>2, LaneOfSlice, TheCase DEF Lanes
<1>4. Width' = Width /\ Lanes' = Lanes /\ Given(g)' = Given(g) /\ LaneOf(g)' = l
  BY <1>1, SameGroup
<1>5. Moves = 32 * iter + turn /\ Moves' = 32 * iter + turn + 1
  <2>1. Moves = 32 * iter + turn /\ Moves' = 32 * iter' + turn'
    BY <1>1 DEF Moves
  <2>. QED BY <1>1, <1>2, <2>1
<1>6. InLane(regs, LaneOf(g))' = InLane(regs', l)
  BY <1>4 DEF InLane, Nib
<1>. HIDE DEF l
<1>7. InLane(regs', l) = Alone(g)!Moved(o, 0, 0)
  <2>1. Nib(Zero, l) = 0
    <3>1. \A b \in 0 .. 3 : OneIn(l, Zero[b]) = 0
      BY DEF Zero, OneIn
    <3>. QED BY <3>1, NibBits
  <2>2. InLane(Turned(regs, Zero, Zero, Lanes), l) = Alone(g)!Moved(InLane(regs, l), Nib(Zero, l), Nib(Zero, l))
    BY <1>3, MovedLane
  <2>. QED BY <1>1, <2>1, <2>2
<1>8. regs'.D \in Nibbles(0 .. Width - 1)
  <2>1. regs' \in Slices(Lanes')
    BY DEF IInv, Typed
  <2>. QED BY <1>4, <2>1 DEF Slices, Lanes
<1>9. {x \in 0 .. 63 : Width * x + LaneOf(g) \in cb}' = Alone(g)!WithPair(was, turn, Nib(regs'.D, l))
  <2>1. PICK D \in Nibbles(0 .. Width - 1) : D = regs'.D
    BY <1>8
  <2>2. MakesPair(g, Width, cb, turn, l, D)
    BY <1>2, <1>3, PairLane
  <2>. QED BY <1>1, <1>4, <2>1, <2>2 DEF MakesPair, LaneBits
<1>10. Moves >= 32 /\ Moves % 32 = turn /\ Moves' = Moves + 1
  BY <1>2, <1>5
<1>11. InLane(regs', l).D = Nib(regs'.D, l)
  BY DEF InLane
<1>12. InLane(regs, LaneOf(g))'.D = Nib(regs'.D, l)
  BY <1>6, <1>11
<1>. HIDE DEF o, was
<1>. QED BY <1>1, <1>4, <1>6, <1>7, <1>9, <1>10, <1>12 DEF Alone!Makes, o, was, l

(* Every step, seen by each packet.                                        *)
LEMMA AloneSteps ==
  IInv /\ IInv' /\ Started /\ [Next]_vars
    => [\A g \in Group : [Alone(g)!Next]_(Alone(g)!vars)]_vars
<1>. SUFFICES ASSUME IInv, IInv', Started, Next, NEW g \in Group
              PROVE  [Alone(g)!Next]_(Alone(g)!vars)
  OBVIOUS
<1>0. case \in Cases /\ Progress
  BY DEF IInv
<1>1. CASE StreamInitTurns
  <2>1. Alone(g)!Takes
    BY <1>1, AloneTakes
  <2>. QED BY <2>1 DEF Alone!Next
<1>2. CASE StreamTurns
  <2>1. Alone(g)!Makes
    BY <1>2, AloneMakes
  <2>. QED BY <2>1 DEF Alone!Next
<1>3. CASE StreamInitCalled \/ StreamInitReturns \/ Deciphers \/ StreamReturns \/ LastIteration
  <2>1. UNCHANGED <<case, regs, cb>>
    BY <1>3 DEF StreamInitCalled, StreamInitReturns, Deciphers, StreamReturns, LastIteration
  <2>2. Moves' = Moves
    <3>1. CASE StreamInitCalled
      BY <3>1 DEF StreamInitCalled, Moves, Started
    <3>2. CASE StreamInitReturns
      BY <3>2 DEF StreamInitReturns, Moves
    <3>3. CASE Deciphers
      BY <3>3 DEF Deciphers, Moves
    <3>4. CASE StreamReturns
      <4>1. pc = "stream" /\ turn = 32 /\ iter' = iter + 1 /\ pc' = "block"
        BY <3>4 DEF StreamReturns
      <4>2. iter \in 1 .. Blocks - 1 /\ Blocks \in Nat
        BY <1>0, <4>1, TheCase DEF Progress
      <4>3. Moves = 32 * iter + 32 /\ Moves' = 32 * iter' + 0
        BY <4>1 DEF Moves
      <4>. QED BY <4>1, <4>2, <4>3
    <3>5. CASE LastIteration
      BY <3>5 DEF LastIteration, Moves
    <3>. QED BY <1>3, <3>1, <3>2, <3>3, <3>4, <3>5
  <2>3. UNCHANGED Alone(g)!vars
    BY <2>1, <2>2, LeftAlone
  <2>. QED BY <2>3
<1>. QED BY <1>1, <1>2, <1>3 DEF Next

(***************************************************************************)
(* Whatever the group and the key, and in the build of every width, the    *)
(* bit slices of stream.c do for each packet, in its lane, what the tables *)
(* of the stream cypher do for that packet alone: a turn of the            *)
(* initialization takes in its first block, a turn of a later call makes   *)
(* two bits of its keystream, and nothing else changes it.                 *)
(***************************************************************************)
THEOREM EachInItsLane == Spec => ImplementsStreamTable
<1>1. Init => IInv /\ Started /\ \A g \in Group : Alone(g)!Init
  <2>1. Init => Started
    BY DEF Init, Started
  <2>. QED BY <2>1, InitIInv, AloneInit
<1>2. IInv /\ [Next]_vars => IInv'
  BY NextIInv
<1>3. IInv /\ Started /\ [Next]_vars => Started'
  BY StartedStep
<1>4. IInv /\ IInv' /\ Started /\ [Next]_vars
        => [\A g \in Group : [Alone(g)!Next]_(Alone(g)!vars)]_vars
  BY AloneSteps
<1>. QED BY <1>1, <1>2, <1>3, <1>4, PTL DEF Spec, ImplementsStreamTable
=============================================================================
