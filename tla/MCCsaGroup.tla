----------------------------- MODULE MCCsaGroup -----------------------------
(* Groups of the partial packets of FFdecsa_test_testcases.h, of 10 blocks *)
(* and of one block with a residue of 6 bytes, with packets made up        *)
(* between and before them.                                                *)
EXTENDS CsaGroup

test_p_10_0_encrypted == <<
  113, 165, 123, 143, 249, 135, 203, 172, 234, 8, 12, 2, 135, 123, 173, 16,
  64, 40, 142, 212, 78, 98, 199, 116, 214, 187, 58, 170, 176, 123, 112, 190,
  6, 201, 220, 7, 210, 45, 171, 45, 226, 198, 54, 166, 218, 100, 97, 21,
  209, 106, 64, 192, 169, 251, 63, 178, 109, 165, 89, 174, 87, 136, 107, 14,
  0, 174, 206, 100, 238, 253, 177, 127, 120, 156, 18, 66, 190, 48, 138, 163 >>
test_p_10_0_expected == <<
  167, 202, 50, 175, 46, 106, 234, 5, 57, 51, 103, 93, 163, 97, 15, 52,
  64, 108, 26, 179, 238, 84, 100, 213, 163, 1, 149, 135, 157, 61, 56, 197,
  130, 139, 141, 171, 173, 147, 15, 232, 249, 189, 82, 152, 89, 178, 65, 149,
  205, 174, 155, 62, 223, 219, 20, 155, 169, 34, 13, 45, 97, 245, 242, 82,
  131, 32, 174, 184, 131, 82, 2, 238, 189, 210, 148, 108, 39, 88, 85, 208 >>
test_p_1_6_encrypted == <<
  192, 94, 251, 200, 74, 99, 227, 60, 17, 217, 224, 117, 142, 242 >>
test_p_1_6_expected == <<
  90, 44, 238, 179, 222, 146, 231, 166, 108, 170, 153, 132, 228, 0 >>
test_p_key == <<45, 17, 95, 157, 41, 191, 127, 103>>

BlockAt(bytes, i) ==
  UNION {IF 8 * i + k < Len(bytes) THEN {8 * k + b : b \in BitsOf[bytes[8 * i + k + 1]]} ELSE {} :
           k \in 0 .. 7}
Packet(bytes) ==
  [blocks  |-> [i \in 1 .. Len(bytes) \div 8 |-> BlockAt(bytes, i - 1)],
   residue |-> BlockAt(bytes, Len(bytes) \div 8),
   residueBits |-> 0 .. 8 * (Len(bytes) % 8) - 1]

Long  == Packet(test_p_10_0_encrypted)
Short == Packet(test_p_1_6_encrypted)
MadeUp(n, bytes) == Packet([k \in 1 .. 8 * n + bytes |-> (k * k * (n + bytes) + 7 * k) % 256])
Groups == [
  tests  |-> <<Long, Short>>,
  short  |-> <<Short>>,
  mixed  |-> <<MadeUp(3, 5), MadeUp(2, 0), MadeUp(2, 7), Short>>,
  twelve |-> [g \in 1 .. 12 |-> IF g = 12 THEN Short ELSE MadeUp(3 - g \div 5, g % 8)]]

Tried == {
  <<"tests", 32, 0, TRUE>>, <<"mixed", 32, 4, TRUE>>, <<"twelve", 32, 0, FALSE>>,
  <<"tests", 64, 4, TRUE>>, <<"mixed", 64, 0, FALSE>>,
  <<"short", 128, 0, TRUE>>, <<"mixed", 128, 4, FALSE>>,
  <<"twelve", 128, 0, TRUE>> }

Ck == BlockAt(test_p_key, 0)
MCCases ==
  {[group |-> Groups[t[1]], width |-> t[2], ecm |-> t[3],
    junk |-> IF t[4] THEN 0 .. 63 ELSE {}, ck |-> Ck] : t \in Tried}

(***************************************************************************)
(* "begin correctness testing" (FFdecsa_test.c): the test packets are      *)
(* decrypted to what the test expects, at any place of a group.            *)
(***************************************************************************)
PassesTests ==
  pc = "done" /\ case.ecm = 0 =>
    \A g \in Group :
      /\ Given(g) = Long  => packets[g] = Packet(test_p_10_0_expected)
      /\ Given(g) = Short => packets[g] = Packet(test_p_1_6_expected)
=============================================================================
