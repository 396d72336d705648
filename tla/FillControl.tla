----------------------------- MODULE FillControl -----------------------------
(***************************************************************************)
(* DeCSAFillControl: SCCAMSlot::Decrypt lets VDR's receive thread wait     *)
(* until the TS buffer holds enough packets for a large batch.  The low    *)
(* water mark follows the bitrate.  The buffer is a ring of which the      *)
(* receive thread sees the part up to the end of the memory only.  Another *)
(* thread resets the control when VDR starts decrypting.                   *)
(*                                                                         *)
(* Amounts are in packets, times in multiples of sleepInterval.            *)
(***************************************************************************)
EXTENDS Integers

CONSTANTS
  Size,          \* the packets in the memory of the ring
  MinWaterMark, MaxWaterMark,
  DataInterval,  \* in sleeps: time in which at least one packet arrives
  Timeout,       \* in sleeps: time over which the bitrate is measured
  MaxResets      \* bound: how often decrypting is started

ASSUME FillControlAssumption ==
  /\ Size \in Nat /\ Size >= 2
  /\ MinWaterMark \in Nat \ {0} /\ MaxWaterMark \in Nat
  /\ MinWaterMark <= MaxWaterMark
  /\ DataInterval \in Nat \ {0} /\ Timeout \in Nat /\ DataInterval <= Timeout
  /\ MaxResets \in Nat

VARIABLES
  tail,          \* the ring: where the receive thread reads
  filled,        \* the ring: the packets in it
  state, lowWaterMark, lastCount, lastData, timeSlept, fltTap1, fltTap2,
  rx,            \* where the receive thread is, and what it holds
  resetter,      \* how far the other thread is in Reset
  resets         \* history: for the bound

ring    == <<tail, filled>>
last    == <<lastCount, lastData>>
taps    == <<fltTap1, fltTap2>>
control == <<state, lowWaterMark, last, timeSlept, taps>>
fillVars    == <<ring, control, rx, resetter, resets>>

NoTap == -1
Idle == [pc |-> "idle", input |-> 0, tap1 |-> NoTap, tap2 |-> NoTap]

FillInit ==
  /\ tail = 0 /\ filled = 0
  /\ state = "READY" /\ lowWaterMark = MaxWaterMark
  /\ lastCount = 0 /\ lastData = 0 /\ timeSlept = 0
  /\ fltTap1 = NoTap /\ fltTap2 = NoTap
  /\ rx = Idle /\ resetter = "idle" /\ resets = 0
-----------------------------------------------------------------------------
Smaller(a, b) == IF a < b THEN a ELSE b
Larger(a, b)  == IF a < b THEN b ELSE a

\* What VDR calls Decrypt with, for a ring that has a packet (external).
Data  == tail
Count == Smaller(filled, Size - tail)
Called == rx.pc = "idle" /\ filled > 0

Clamped(mark) == Larger(MinWaterMark, Smaller(mark, MaxWaterMark))

\* The three-tap median filter, once it has two taps.
Median(input, tap1, tap2) ==
  Smaller(Larger(Smaller(input, tap1), tap2), Larger(input, tap1))
Filtered(input, tap1, tap2) ==
  IF tap1 >= 0 /\ tap2 >= 0 THEN Median(input, tap1, tap2) ELSE input
-----------------------------------------------------------------------------
(* CanProcess, by the receive thread; "serving": it returned true.         *)

Serves == rx' = [rx EXCEPT !.pc = "serving"]

ReadyServes ==
  /\ Called /\ state = "READY" /\ Count >= lowWaterMark
  /\ Serves
  /\ UNCHANGED <<ring, control, resetter, resets>>

ReadyGoesToSleep ==
  /\ Called /\ state = "READY" /\ Count < lowWaterMark
  /\ lastCount' = Count /\ lastData' = Data
  /\ state' = "SLEEP" /\ timeSlept' = 0
  /\ UNCHANGED <<ring, lowWaterMark, taps, rx, resetter, resets>>

Stuck_Never == FALSE
Stuck ==
  /\ timeSlept + 1 >= DataInterval
  /\ Count = lastCount /\ Data = lastData

\* No packet came: probably the end of the memory.
SleepFindsEnd ==
  /\ Called /\ state = "SLEEP" /\ Stuck
  /\ timeSlept' = timeSlept + 1 /\ state' = "WRAP"
  /\ Serves
  /\ UNCHANGED <<ring, lowWaterMark, last, taps, resetter, resets>>

Measured == timeSlept + 1 >= Timeout \/ Count - lastCount > MaxWaterMark

SleepGoesOn ==
  /\ Called /\ state = "SLEEP" /\ ~Stuck /\ ~Measured
  /\ timeSlept' = timeSlept + 1
  /\ UNCHANGED <<ring, state, lowWaterMark, last, taps, rx, resetter, resets>>

\* The new mark is first stored as it was measured.
SleepMeasures ==
  /\ Called /\ state = "SLEEP" /\ ~Stuck /\ Measured
  /\ timeSlept' = timeSlept + 1
  /\ lowWaterMark' = Count - lastCount
  /\ rx' = [rx EXCEPT !.pc = "measured"]
  /\ UNCHANGED <<ring, state, last, taps, resetter, resets>>

ClampsMark_Upwards ==
  /\ rx.pc = "measured"
  /\ lowWaterMark' = Smaller(lowWaterMark, MaxWaterMark)
  /\ rx' = [pc |-> "clamped", input |-> Smaller(lowWaterMark, MaxWaterMark),
            tap1 |-> fltTap1, tap2 |-> fltTap2]
  /\ UNCHANGED <<ring, state, last, timeSlept, taps, resetter, resets>>

\* Then brought between the limits; Filter is called with it and loads the taps.
ClampsMark ==
  /\ rx.pc = "measured"
  /\ lowWaterMark' = Clamped(lowWaterMark)
  /\ rx' = [pc |-> "clamped", input |-> Clamped(lowWaterMark),
            tap1 |-> fltTap1, tap2 |-> fltTap2]
  /\ UNCHANGED <<ring, state, last, timeSlept, taps, resetter, resets>>

FiltersMark ==
  /\ rx.pc = "clamped"
  /\ lowWaterMark' = Filtered(rx.input, rx.tap1, rx.tap2)
  /\ fltTap2' = rx.tap1 /\ fltTap1' = rx.input
  /\ state' = "READY" /\ rx' = Idle
  /\ UNCHANGED <<ring, last, timeSlept, resetter, resets>>

SameEnd == Data + Count = lastData + lastCount

WrapServes ==
  /\ Called /\ state = "WRAP" /\ SameEnd
  /\ lastData' = Data /\ lastCount' = Count
  /\ Serves
  /\ UNCHANGED <<ring, state, lowWaterMark, timeSlept, taps, resetter, resets>>

WrapEnds ==
  /\ Called /\ state = "WRAP" /\ ~SameEnd
  /\ state' = "READY"
  /\ UNCHANGED <<ring, lowWaterMark, last, timeSlept, taps, rx, resetter, resets>>

TakesPacket_RunsOff ==
  /\ rx.pc = "serving"
  /\ tail' = tail + 1 /\ filled' = filled - 1
  /\ rx' = Idle
  /\ UNCHANGED <<control, resetter, resets>>

\* SCCAMSlot::Decrypt returns one packet, which VDR takes off the ring.
TakesPacket ==
  /\ rx.pc = "serving"
  /\ tail' = (tail + 1) % Size /\ filled' = filled - 1
  /\ rx' = Idle
  /\ UNCHANGED <<control, resetter, resets>>
-----------------------------------------------------------------------------
(* The other thread: StartDecrypting calls Reset.                          *)

ResetsState ==
  /\ resetter = "idle" /\ resets < MaxResets
  /\ resets' = resets + 1 /\ resetter' = "mark"
  /\ state' = "READY"
  /\ UNCHANGED <<ring, lowWaterMark, last, timeSlept, taps, rx>>

ResetsMark ==
  /\ resetter = "mark" /\ resetter' = "taps"
  /\ lowWaterMark' = MaxWaterMark
  /\ UNCHANGED <<ring, state, last, timeSlept, taps, rx, resets>>

ResetsTaps ==
  /\ resetter = "taps" /\ resetter' = "idle"
  /\ fltTap1' = NoTap /\ fltTap2' = NoTap
  /\ UNCHANGED <<ring, state, lowWaterMark, last, timeSlept, rx, resets>>

(* VDR (external): its device thread fills the ring, and a new channel     *)
(* starts with an empty one.                                               *)

PacketArrives ==
  /\ filled < Size - 1
  /\ filled' = filled + 1
  /\ UNCHANGED <<tail, control, rx, resetter, resets>>

RingEmptied ==
  /\ rx.pc = "idle"
  /\ tail' = 0 /\ filled' = 0
  /\ UNCHANGED <<control, rx, resetter, resets>>
-----------------------------------------------------------------------------
CanProcess ==
  \/ ReadyServes \/ ReadyGoesToSleep
  \/ SleepFindsEnd \/ SleepGoesOn \/ SleepMeasures \/ ClampsMark \/ FiltersMark
  \/ WrapServes \/ WrapEnds

FillNext ==
  \/ CanProcess \/ TakesPacket
  \/ ResetsState \/ ResetsMark \/ ResetsTaps
  \/ PacketArrives \/ RingEmptied

FillSpec == FillInit /\ [][FillNext]_fillVars

(* The receive thread keeps calling Decrypt.                               *)
FillFairSpec == FillSpec /\ WF_fillVars(CanProcess) /\ WF_fillVars(TakesPacket)
-----------------------------------------------------------------------------
FillTypeOK ==
  /\ tail \in 0 .. Size - 1 /\ filled \in 0 .. Size - 1
  /\ state \in {"READY", "SLEEP", "WRAP"} /\ lowWaterMark \in Int
  /\ lastCount \in Nat /\ lastData \in Nat /\ timeSlept \in Nat
  /\ fltTap1 \in Int /\ fltTap2 \in Int
  /\ rx \in [pc : {"idle", "serving", "measured", "clamped"},
             input : Int, tap1 : Int, tap2 : Int]
  /\ resetter \in {"idle", "mark", "taps"} /\ resets \in Nat

(***************************************************************************)
(* "A mixed view only nudges the heuristic" (SCCAMSlot.h:41): however      *)
(* Reset falls into CanProcess, the receive thread judges the ring by a    *)
(* mark between the limits, although the measured one is stored before it  *)
(* is clamped and may be negative after the ring was emptied.              *)
(***************************************************************************)
MarkWithinLimits ==
  rx.pc \in {"idle", "serving"} =>
    lowWaterMark \in MinWaterMark .. MaxWaterMark

(***************************************************************************)
(* The receive thread never stays asleep on data: a packet in the ring is  *)
(* taken, whether or not others follow, at the end of the memory too, and  *)
(* whatever mark an earlier channel left.                                  *)
(***************************************************************************)
NeverSleepsOnData ==
  \A at \in 0 .. Size - 1 :
    filled > 0 /\ tail = at ~> filled = 0 \/ tail # at
=============================================================================
