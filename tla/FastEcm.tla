------------------------------ MODULE FastEcm ------------------------------
(***************************************************************************)
(* The odd/even check of Fast ECM: what a CSA key remembers about its two  *)
(* control words (struct FAST_ECM) and what it answers when a pid wants to *)
(* be decrypted with one of them (set_FastECM_CW_Parity).                  *)
(***************************************************************************)
EXTENDS Integers

CONSTANTS
  Pids,        \* the pids of one service; a std::map keeps them in order
  PatchGap     \* 500 ms: control words closer than that came together

ASSUME FastEcmAssumption == Pids \subseteq Nat \ {0} /\ PatchGap \in Nat \ {0}

Even == 1
Odd  == 2
Parity == {Even, Odd}

\* nextparity, the two parity times (0: not set) and activparity; activparity2
\* is only logged.
FastEcmKey == [next : {0} \cup Parity, time : [Parity -> Nat],
               active : [Pids -> {0} \cup Parity]]

InitFastEcm == [next |-> 0, time |-> [p \in Parity |-> 0],
                active |-> [pid \in Pids |-> 0]]

SetControlWord_OffByOne(k, parity, now) ==
  [k EXCEPT !.next = parity + 1, !.time[parity] = now]

SetControlWord(k, parity, now) ==
  [k EXCEPT !.next = parity, !.time[parity] = now]

Gap(k) == IF k.time[Even] > k.time[Odd]
            THEN k.time[Even] - k.time[Odd] ELSE k.time[Odd] - k.time[Even]

BothSet(k) == k.time[Even] # 0 /\ k.time[Odd] # 0

\* How the check ends; all but "wait" return 1.
Verdict(k, pid, parity) ==
  IF ~BothSet(k) THEN "early"
  ELSE IF k.active[pid] = 0 THEN "first"
  ELSE IF k.active[pid] = parity THEN "same"
  ELSE IF k.next = parity THEN "next"
  ELSE IF k.next > 0 /\ Gap(k) < PatchGap THEN "patched"
  ELSE "wait"

\* A first check that finds the CW expected next already in use looks at the
\* times instead; with equal times it settles for even.
Later(k) == IF k.time[Even] >= k.time[Odd] THEN Even ELSE Odd

AfterCheck_AlwaysActive(k, pid, parity) == [k EXCEPT !.active[pid] = parity]

AfterCheck(k, pid, parity) ==
  CASE Verdict(k, pid, parity) \in {"next", "patched"} ->
         [k EXCEPT !.active[pid] = parity]
    [] Verdict(k, pid, parity) = "first" ->
         [k EXCEPT !.active[pid] = parity,
                   !.next = IF @ = parity THEN Later(k) ELSE @]
    [] OTHER -> k
=============================================================================
