------------------------------ MODULE CsaGroup ------------------------------
(***************************************************************************)
(* How decrypt_packets decrypts the group it has chosen (FFdecsaCluster):  *)
(* block and stream cypher by turns for all packets of the group at once,  *)
(* each packet in a lane of its own, until the longest one is done.        *)
(*                                                                         *)
(* The packets are in the order of the group, longest first.  A packet has *)
(* its whole blocks and the bits of the residue after them.  Lanes without *)
(* a packet work on what was on the stack ("junk").                        *)
(***************************************************************************)
EXTENDS StreamSlices, BlockCipher, FiniteSets

CONSTANTS
  Blocks,       \* the blocks of a full payload: 23
  Cases         \* the groups that are tried

\* A payload: its whole blocks, and the bits of the residue after them.
EightBytes == SUBSET (0 .. 63)
Payload == [blocks : Seq(EightBytes), residue : EightBytes, residueBits : EightBytes]

ASSUME CsaGroupAssumption ==
  /\ Blocks \in Nat \ {0, 1}
  /\ \A c \in Cases :
       /\ c \in [group : Seq(Payload), width : Widths, ecm : {0, 4},
                junk : EightBytes, ck : EightBytes]
       /\ Len(c.group) \in 1 .. c.width
       /\ \A g \in 1 .. Len(c.group) :
            /\ Len(c.group[g].blocks) \in 1 .. Blocks
            /\ \A h \in 1 .. g : Len(c.group[h].blocks) >= Len(c.group[g].blocks)

VARIABLES
  case,         \* the group, the key, the width of the build
  kk,           \* the key schedule of the block cypher
  pc,           \* "start", the stream cypher's "init", "block", "stream", "done"
  iter,         \* the iteration of decrypt_packets
  turn,         \* the turns of the stream cypher in its call
  regs,         \* stream_regs
  sb,           \* the transposed first blocks
  cb,           \* the keystream, in rows
  ib,           \* what the block cypher decrypts
  blockOut,     \* block_out
  packets,      \* the payloads
  keystream     \* history: the keystream blocks of each lane

vars == <<case, kk, pc, iter, turn, regs, sb, cb, ib, blockOut, packets, keystream>>

Width == case.width
Lanes == 0 .. Width - 1
Group == 0 .. Len(case.group) - 1
Given(g) == case.group[g + 1]
N(g) == Len(Given(g).blocks)
Alive(i) == Cardinality({g \in Group : N(g) > i})
LiveIn(i) == 0 .. Alive(i) - 1

\* The nibbles of the key, the high one of a byte first, for all the lanes.
KeyNibbles(ck, first) ==
  [k \in 0 .. 7 |-> [b \in 0 .. 3 |->
     IF 8 * (first + k \div 2) + 4 * (1 - (k % 2)) + b \in ck THEN Lanes ELSE {}]]

\* The lane of a packet in the slices.
LaneOf(g) ==
  LET x == IF Width = 128 THEN g \div 2 ELSE g
  IN  8 * (x \div 8) + 7 - (x % 8) + (IF Width = 128 THEN 64 * (g % 2) ELSE 0)
-----------------------------------------------------------------------------
Init ==
  /\ case \in Cases
  /\ kk = KeySchedule(case.ck, case.ecm)
  /\ pc = "start" /\ iter = 0 /\ turn = 0
  /\ regs = Loaded(KeyNibbles(case.ck, 0), KeyNibbles(case.ck, 4))
  /\ sb = {} /\ cb = {}
  /\ ib = [g \in Lanes |-> case.junk] /\ blockOut = <<>>
  /\ packets = [g \in Group |-> Given(g)]
  /\ keystream = [g \in Group |-> <<>>]

StreamInitCalled ==
  /\ pc = "start"
  /\ sb' = trasp64_88ccw(Width, TableIn(Width,
             [g \in Lanes |-> IF g \in Group THEN Given(g).blocks[1] ELSE case.junk]))
  /\ pc' = "init" /\ turn' = 0
  /\ UNCHANGED <<case, kk, iter, regs, cb, ib, blockOut, packets, keystream>>

StreamInitTurns ==
  /\ pc = "init" /\ turn < 32
  /\ regs' = TurnedIn(regs, [r \in 0 .. 63 |-> Row(Width, sb, r)], turn, Lanes) /\ turn' = turn + 1
  /\ UNCHANGED <<case, kk, pc, iter, sb, cb, ib, blockOut, packets, keystream>>

\* Iteration 0 ends: the block cypher starts with the first blocks.
StreamInitReturns ==
  /\ pc = "init" /\ turn = 32
  /\ ib' = [g \in Lanes |-> IF g \in LiveIn(0) THEN Given(g).blocks[1] ELSE ib[g]]
  /\ iter' = 1 /\ pc' = "block"
  /\ UNCHANGED <<case, kk, turn, regs, sb, cb, blockOut, packets, keystream>>

\* The blocks of the packets that were alive before this iteration.
Goes == iter < Blocks /\ Alive(iter - 1) > 0

Deciphers ==
  /\ pc = "block" /\ Goes
  /\ blockOut' = block_decypher_group(Width, kk, ib, Alive(iter - 1), case.junk)
  /\ turn' = 0 /\ pc' = "stream"
  /\ UNCHANGED <<case, kk, iter, regs, sb, cb, ib, packets, keystream>>

StreamTurns ==
  /\ pc = "stream" /\ turn < 32
  /\ regs' = Turned(regs, Zero, Zero, Lanes) /\ turn' = turn + 1
  /\ LET made == RowsMade(turn, regs'.D)
     IN  cb' = {at \in cb : at \div Width \notin DOMAIN made}
                 \cup UNION {{Width * r + l : l \in made[r]} : r \in DOMAIN made}
  /\ UNCHANGED <<case, kk, pc, iter, sb, ib, blockOut, packets, keystream>>

\* What the iteration writes: a block of the packets that are alive, and the
\* last block and the residue of those that are not any more.
ResidueBits(g, out) == (Given(g).residue ^^ out) \cap Given(g).residueBits
Written(g, out, next) ==
  LET p == packets[g]
  IN  IF g \in LiveIn(iter) THEN [p EXCEPT !.blocks[iter] = next ^^ blockOut[g]]
      ELSE [p EXCEPT !.blocks[iter] = blockOut[g], !.residue = ResidueBits(g, out)]

StreamReturns ==
  /\ pc = "stream" /\ turn = 32
  /\ LET rows    == trasp64_88cw(Width, cb)
         out(g)  == TableOut(Width, rows, g)
         next(g) == out(g) ^^ Given(g).blocks[iter + 1]
     IN  /\ ib' = [g \in Lanes |-> IF g \in LiveIn(iter) THEN next(g) ELSE ib[g]]
         /\ packets' = [g \in Group |->
              IF g \in LiveIn(iter - 1)
                THEN Written(g, out(g), IF g \in LiveIn(iter) THEN next(g) ELSE {})
                ELSE packets[g]]
  /\ keystream' = [g \in Group |->
       Append(keystream[g], {x \in 0 .. 63 : Width * x + LaneOf(g) \in cb})]
  /\ iter' = iter + 1 /\ pc' = "block"
  /\ UNCHANGED <<case, kk, turn, regs, sb, cb, blockOut>>

\* The last iteration of full packets: they have no residue.
LastIteration ==
  /\ pc = "block" /\ ~Goes
  /\ blockOut' = block_decypher_group(Width, kk, ib, Alive(Blocks - 1), case.junk)
  /\ packets' = [g \in Group |->
       IF g \in LiveIn(Blocks - 1) THEN [packets[g] EXCEPT !.blocks[Blocks] = blockOut'[g]]
                                   ELSE packets[g]]
  /\ pc' = "done"
  /\ UNCHANGED <<case, kk, iter, turn, regs, sb, cb, ib, keystream>>

Next ==
  \/ StreamInitCalled \/ StreamInitTurns \/ StreamInitReturns
  \/ Deciphers \/ StreamTurns \/ StreamReturns \/ LastIteration

Spec == Init /\ [][Next]_vars
-----------------------------------------------------------------------------
(* The slices implement the table form of the stream cypher, for each      *)
(* packet of the group.                                                    *)

Nib(v, l) ==
  LET of(b) == IF l \in v[b] THEN 2 ^ b ELSE 0 IN of(0) + of(1) + of(2) + of(3)
NibbleOf(byte, high) ==
  LET of(b) == IF b + high \in byte THEN 2 ^ b ELSE 0 IN of(0) + of(1) + of(2) + of(3)

InLane(g, l) ==
  [A |-> [k \in 0 .. 9 |-> Nib(g.A[k], l)], B |-> [k \in 0 .. 9 |-> Nib(g.B[k], l)],
   X |-> Nib(g.X, l), Y |-> Nib(g.Y, l), Z |-> Nib(g.Z, l),
   D |-> Nib(g.D, l), E |-> Nib(g.E, l), F |-> Nib(g.F, l),
   p |-> IF l \in g.p THEN 1 ELSE 0, q |-> IF l \in g.q THEN 1 ELSE 0,
   r |-> IF l \in g.r THEN 1 ELSE 0]

Moves == IF pc \in {"start", "init"} THEN turn ELSE 32 * iter + (IF pc = "stream" THEN turn ELSE 0)

Alone(g) == INSTANCE StreamTable WITH
  ck  <- [k \in 1 .. 16 |-> NibbleOf(Byte(case.ck, (k - 1) \div 2), IF k % 2 = 1 THEN 4 ELSE 0)],
  sb  <- [k \in 1 .. 8 |-> <<NibbleOf(Byte(Given(g).blocks[1], k - 1), 4),
                             NibbleOf(Byte(Given(g).blocks[1], k - 1), 0)>>],
  st  <- InLane(regs, LaneOf(g)),
  n   <- Moves,
  out <- {x \in 0 .. 63 : Width * x + LaneOf(g) \in cb}

(***************************************************************************)
(* Whatever else is in the group and in the lanes without a packet, the    *)
(* lane of a packet goes through the stream cypher of its own first block  *)
(* and of the key.                                                         *)
(***************************************************************************)
ImplementsStreamTable ==
  /\ \A g \in Group : Alone(g)!Init
  /\ [][\A g \in Group : [Alone(g)!Next]_(Alone(g)!vars)]_vars

(***************************************************************************)
(* Each packet is decrypted as if it were alone: a block is what the block *)
(* cypher makes of it, added to the next block with its keystream, which   *)
(* is what the block cypher gets next; the residue is added to the         *)
(* keystream after the last block.  It does not depend on the lengths of   *)
(* the other packets of the group.                                         *)
(***************************************************************************)
Chained(g, i) ==
  IF i = 1 THEN Given(g).blocks[1] ELSE Given(g).blocks[i] ^^ keystream[g][i - 1]
DecryptsEachPacket ==
  pc = "done" =>
    \A g \in Group :
      /\ \A i \in 1 .. N(g) :
           packets[g].blocks[i] =
             IF i = N(g) THEN DecypheredAlone(kk, Chained(g, i))
                         ELSE DecypheredAlone(kk, Chained(g, i)) ^^ Chained(g, i + 1)
      /\ N(g) < Blocks =>
           packets[g].residue =
             (Given(g).residue ^^ keystream[g][N(g)]) \cap Given(g).residueBits
=============================================================================
