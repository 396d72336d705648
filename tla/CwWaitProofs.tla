---------------------------- MODULE CwWaitProofs ----------------------------
(***************************************************************************)
(* Proofs about CwWait, for any pids of the service, any number of threads *)
(* that cancel, and every length of the wait.                              *)
(***************************************************************************)
EXTENDS CwWait, TLAPS

\* Every action but those of the receive thread and of CancelWait.
Elsewhere ==
  \/ \E pid \in Pids : SetCaPid(pid)
  \/ SetDVBAPIPid \/ CapmtChanges
  \/ \E n \in 1 .. MaxPeriod : SetDescr(n)
  \/ \E delete \in BOOLEAN : Init_Parity(delete)
  \/ Init_ParityOfNoSid \/ EcmPasses \/ PeriodEnds
-----------------------------------------------------------------------------
(* What the key of a service answers and becomes.                          *)

LEMMA VerdictType ==
  ASSUME NEW k, NEW pid, NEW parity PROVE Verdict(k, pid, parity) \in Verdicts
BY DEF Verdict, Verdicts

LEMMA InitFastEcmType == InitFastEcm \in FastEcmKey
BY DEF InitFastEcm, FastEcmKey

LEMMA ParityType == ASSUME NEW n \in Nat PROVE ParityOf(n) \in Parity
BY DEF ParityOf, Parity

(***************************************************************************)
(* A check keeps the type of the key, and never touches the times.         *)
(***************************************************************************)
LEMMA AfterCheckType ==
  ASSUME NEW k \in FastEcmKey, NEW pid \in Pids, NEW parity \in Parity
  PROVE  AfterCheck(k, pid, parity) \in FastEcmKey
         /\ AfterCheck(k, pid, parity).time = k.time
<1>1. Later(k) \in Parity
  BY DEF Later, Parity
<1>2. [k EXCEPT !.active[pid] = parity] \in FastEcmKey
  BY DEF FastEcmKey
<1>3. [k EXCEPT !.active[pid] = parity,
                !.next = IF @ = parity THEN Later(k) ELSE @] \in FastEcmKey
  BY <1>1 DEF FastEcmKey
<1>. QED BY <1>2, <1>3 DEF AfterCheck, FastEcmKey

LEMMA SetControlWordType ==
  ASSUME NEW k \in FastEcmKey, NEW parity \in Parity, NEW time \in Nat
  PROVE  SetControlWord(k, parity, time) \in FastEcmKey
BY DEF SetControlWord, FastEcmKey
-----------------------------------------------------------------------------
(* The types.                                                              *)

Calls == [pc : {"idle", "flagged", "asleep", "decrypting"},
          pid : Pids \cup {0}, period : Nat, how : Verdicts,
          apart : BOOLEAN, sleeps : Nat]

\* A call in progress is about a pid of the service.
InCall == rx.pc # "idle" => rx.pid \in Pids

LEMMA NoCallType == NoCall \in Calls
BY DEF NoCall, Calls, Verdicts

LEMMA InitType == Init => TypeOK /\ InCall
<1>. SUFFICES ASSUME Init PROVE TypeOK /\ InCall
  OBVIOUS
<1>1. rx \in Calls
  BY NoCallType DEF Init
<1>2. done \in [Pids -> [period : Nat, right : BOOLEAN, how : Verdicts]]
  BY DEF Init, Nothing, Verdicts
<1>3. cpc \in [Cancellers -> {"idle", "saw", "aborting"}] /\ cw \in [Parity -> Nat]
  BY DEF Init
<1>4. InCall
  BY DEF Init, InCall, NoCall
<1>5. key \in FastEcmKey /\ mapped \subseteq Pids /\ saw \subseteq Cancellers
  BY InitFastEcmType DEF Init
<1>6. /\ resolved \in BOOLEAN /\ ecmPid \in BOOLEAN /\ listed \in BOOLEAN
      /\ waiting \in BOOLEAN /\ abort \in BOOLEAN
      /\ adapterOwner \in {"free", "receiver"} /\ stopOwner \in {"free", "receiver"}
  BY DEF Init
<1>7. /\ stream \in Nat \ {0} /\ ecm \in Nat /\ sent \in Nat
      /\ now \in Nat \ {0} /\ resets \in Nat
  BY DEF Init
<1>. QED BY <1>1, <1>2, <1>3, <1>4, <1>5, <1>6, <1>7 DEF TypeOK, Calls

LEMMA TypeStep == TypeOK /\ InCall /\ [Next]_vars => TypeOK' /\ InCall'
<1>. SUFFICES ASSUME TypeOK, InCall, [Next]_vars PROVE TypeOK' /\ InCall'
  OBVIOUS
<1>. USE NoCallType
<1>1. ASSUME NEW pid \in Pids, DecryptChecks(pid) PROVE TypeOK' /\ InCall'
  <2>1. ParityOf(stream) \in Parity
    BY ParityType DEF TypeOK
  <2>2. key' \in FastEcmKey
    BY <1>1, <2>1, AfterCheckType DEF DecryptChecks, TypeOK
  <2>3. Apart(key) \in BOOLEAN
    BY DEF Apart, BothSet
  <2>4. rx' \in Calls /\ rx'.pid \in Pids
    BY <1>1, <2>3, VerdictType DEF DecryptChecks, TypeOK, Calls, Verdicts
  <2>5. resolved' \in BOOLEAN
    BY <1>1 DEF DecryptChecks, Resolves, TypeOK
  <2>. QED BY <1>1, <2>2, <2>4, <2>5 DEF DecryptChecks, TypeOK, InCall, Calls, world
<1>2. CASE WaitBegins
  BY <1>2 DEF WaitBegins, TypeOK, InCall, keyvars, world
<1>3. CASE WakesAborted
  BY <1>3 DEF WakesAborted, TypeOK, InCall, Calls, NoCall, keyvars, world
<1>4. CASE Wakes
  <2>1. rx.pid \in Pids /\ ParityOf(rx.period) \in Parity
    BY <1>4, ParityType DEF Wakes, InCall, TypeOK
  <2>2. key' \in FastEcmKey
    BY <1>4, <2>1, AfterCheckType, InitFastEcmType DEF Wakes, TypeOK
  <2>3. Apart(key) \in BOOLEAN
    BY DEF Apart, BothSet
  <2>4. Verdict(key, rx.pid, ParityOf(rx.period)) \in Verdicts /\ "timeout" \in Verdicts
    BY VerdictType DEF Verdicts
  <2>5. rx \in Calls
    BY DEF TypeOK, Calls
  <2>6. rx' \in Calls /\ rx'.pid \in Pids
    <3>1. \/ rx' = [rx EXCEPT !.pc = "decrypting",
                     !.how = Verdict(key, rx.pid, ParityOf(rx.period)),
                     !.apart = Apart(key)]
          \/ rx' = [rx EXCEPT !.pc = "decrypting", !.how = "timeout"]
          \/ rx' = [rx EXCEPT !.sleeps = @ + 1]
      BY <1>4 DEF Wakes
    <3>2. [rx EXCEPT !.pc = "decrypting",
                     !.how = Verdict(key, rx.pid, ParityOf(rx.period)),
                     !.apart = Apart(key)] \in Calls
      BY <2>3, <2>4, <2>5 DEF Calls
    <3>3. [rx EXCEPT !.pc = "decrypting", !.how = "timeout"] \in Calls
      BY <2>4, <2>5 DEF Calls
    <3>4. [rx EXCEPT !.sleeps = @ + 1] \in Calls
      BY <2>5 DEF Calls
    <3>5. rx'.pid = rx.pid
      BY <2>5, <3>1 DEF Calls
    <3>. QED BY <2>1, <3>1, <3>2, <3>3, <3>4, <3>5
  <2>7. /\ adapterOwner' \in {"free", "receiver"}
        /\ stopOwner' \in {"free", "receiver"} /\ waiting' \in BOOLEAN
    BY <1>4 DEF Wakes, TypeOK
  <2>. QED BY <1>4, <2>2, <2>6, <2>7 DEF Wakes, TypeOK, InCall, Calls, world
<1>5. CASE Decrypts
  <2>1. done' \in [Pids -> [period : Nat, right : BOOLEAN, how : Verdicts]]
    BY <1>5 DEF Decrypts, TypeOK
  <2>. QED BY <1>5, <2>1 DEF Decrypts, TypeOK, InCall, Calls, NoCall, keyvars, world
<1>6. ASSUME NEW c \in Cancellers, CancelSees(c) \/ CancelStep(c)
      PROVE TypeOK' /\ InCall'
  <2>1. /\ cpc' \in [Cancellers -> {"idle", "saw", "aborting"}]
        /\ saw' \subseteq Cancellers /\ abort' \in BOOLEAN
    BY <1>6 DEF CancelSees, CancelStep, CancelAborts, CancelReturns, TypeOK, flags
  <2>2. UNCHANGED <<keyvars, adapterOwner, stopOwner, waiting, rx, world, done>>
    BY <1>6 DEF CancelSees, CancelStep, CancelAborts, CancelReturns, flags
  <2>. QED BY <2>1, <2>2 DEF TypeOK, InCall, keyvars, world
<1>7. CASE \E n \in 1 .. MaxPeriod : SetDescr(n)
  <2>1. PICK n \in 1 .. MaxPeriod : SetDescr(n)
    BY <1>7
  <2>2. PICK pause \in 0 .. PatchGap :
          now' = now + pause /\ key' = SetControlWord(key, ParityOf(n), now + pause)
    BY <2>1 DEF SetDescr
  <2>3. n \in Nat /\ now + pause \in Nat \ {0} /\ ParityOf(n) \in Parity
    BY ParityType, FastEcmAssumption, CwWaitAssumption DEF TypeOK
  <2>4. key' \in FastEcmKey
    BY <2>2, <2>3, SetControlWordType DEF TypeOK
  <2>. QED BY <2>1, <2>2, <2>3, <2>4 DEF SetDescr, TypeOK, InCall, flags
<1>8. CASE Elsewhere
  <2>1. ASSUME NEW pid \in Pids, SetCaPid(pid) PROVE TypeOK' /\ InCall'
    BY <2>1 DEF SetCaPid, TypeOK, InCall, flags, world
  <2>2. CASE SetDVBAPIPid \/ CapmtChanges \/ EcmPasses \/ PeriodEnds
    <3>1. CASE SetDVBAPIPid
      BY <3>1 DEF SetDVBAPIPid, TypeOK, InCall, flags, world
    <3>2. CASE CapmtChanges
      BY <3>2 DEF CapmtChanges, TypeOK, InCall, keyvars, flags
    <3>3. CASE EcmPasses
      BY <3>3 DEF EcmPasses, TypeOK, InCall, keyvars, flags
    <3>4. CASE PeriodEnds
      BY <3>4 DEF PeriodEnds, TypeOK, InCall, keyvars, flags
    <3>. QED BY <2>2, <3>1, <3>2, <3>3, <3>4
  <2>3. CASE Init_ParityOfNoSid \/ \E delete \in BOOLEAN : Init_Parity(delete)
    <3>1. resets' \in Nat /\ mapped' \subseteq Pids
      BY <2>3 DEF Init_Parity, Init_ParityOfNoSid, TypeOK
    <3>2. key' = key \/ key' = InitFastEcm
      BY <2>3 DEF Init_Parity, Init_ParityOfNoSid
    <3>3. resolved' \in BOOLEAN
      BY <2>3 DEF Init_Parity, Init_ParityOfNoSid, TypeOK
    <3>4. ecmPid' \in BOOLEAN
      BY <2>3 DEF Init_Parity, Init_ParityOfNoSid, TypeOK
    <3>5. UNCHANGED <<cw, flags, rx, cpc, stream, ecm, sent, now, listed, done, saw>>
      BY <2>3 DEF Init_Parity, Init_ParityOfNoSid
    <3>. QED BY <3>1, <3>2, <3>3, <3>4, <3>5, InitFastEcmType DEF TypeOK, InCall, flags
  <2>. QED BY <1>7, <1>8, <2>1, <2>2, <2>3 DEF Elsewhere
<1>9. CASE UNCHANGED vars
  BY <1>9 DEF vars, keyvars, flags, world, TypeOK, InCall
<1>. QED
  BY <1>1, <1>2, <1>3, <1>4, <1>5, <1>6, <1>8, <1>9 DEF Next, DecryptStep, Elsewhere

(***************************************************************************)
(* Every variable of the wait and of the key keeps its type.               *)
(***************************************************************************)
THEOREM TypeCorrect == Spec => []TypeOK
BY InitType, TypeStep, PTL DEF Spec
-----------------------------------------------------------------------------
(* The wait and those that cancel it.  The mutex of the wait is held while *)
(* it sleeps, and whoever saw it asleep saw this wait: the next one begins *)
(* without any.                                                            *)

WaitInv ==
  /\ NoAbortLeaks
  /\ rx.pc = "asleep" => stopOwner = "receiver"
  /\ rx.pc = "flagged" => saw = {}

LEMMA InitWaitInv == Init => WaitInv
BY DEF Init, WaitInv, NoAbortLeaks, NoCall

LEMMA StepWaitInv == TypeOK /\ WaitInv /\ [Next]_vars => WaitInv'
<1>. SUFFICES ASSUME TypeOK, WaitInv, [Next]_vars PROVE WaitInv'
  OBVIOUS
<1>1. ASSUME NEW pid \in Pids, DecryptChecks(pid) PROVE WaitInv'
  BY <1>1 DEF DecryptChecks, WaitInv, NoAbortLeaks, TypeOK
<1>2. CASE WaitBegins \/ WakesAborted \/ Decrypts
  BY <1>2 DEF WaitBegins, WakesAborted, Decrypts, WaitInv, NoAbortLeaks, NoCall, TypeOK
<1>3. CASE Wakes
  BY <1>3 DEF Wakes, WaitInv, NoAbortLeaks, TypeOK
<1>4. ASSUME NEW c \in Cancellers, CancelSees(c) PROVE WaitInv'
  BY <1>4 DEF CancelSees, WaitInv, NoAbortLeaks, TypeOK, flags
<1>5. ASSUME NEW c \in Cancellers, CancelAborts(c) PROVE WaitInv'
  BY <1>5 DEF CancelAborts, WaitInv, NoAbortLeaks, TypeOK
<1>6. ASSUME NEW c \in Cancellers, CancelReturns(c) PROVE WaitInv'
  BY <1>6 DEF CancelReturns, WaitInv, NoAbortLeaks, TypeOK
<1>7. CASE UNCHANGED <<flags, rx, cpc, saw>>
  BY <1>7 DEF WaitInv, NoAbortLeaks, flags
<1>8. CASE Elsewhere
  BY <1>7, <1>8 DEF Elsewhere, SetCaPid, SetDVBAPIPid, CapmtChanges, SetDescr,
                    Init_Parity, Init_ParityOfNoSid, EcmPasses, PeriodEnds
<1>9. CASE UNCHANGED vars
  BY <1>7, <1>9 DEF vars
<1>. QED
  BY <1>1, <1>2, <1>3, <1>4, <1>5, <1>6, <1>8, <1>9
     DEF Next, DecryptStep, CancelStep, Elsewhere

THEOREM Invariance == Spec => [](TypeOK /\ WaitInv)
<1>1. Spec => []WaitInv
  BY TypeCorrect, InitWaitInv, StepWaitInv, PTL DEF Spec
<1>. QED BY <1>1, TypeCorrect, PTL

(***************************************************************************)
(* With nobody in CancelWait no abort is pending, so that a later wait of  *)
(* Decrypt is not cut short, however many threads cancel.                  *)
(***************************************************************************)
THEOREM AbortNeverLeaks == Spec => []NoAbortLeaks
<1>1. WaitInv => NoAbortLeaks
  BY DEF WaitInv
<1>. QED BY <1>1, Invariance, PTL

(***************************************************************************)
(* When CancelWait reports the wait that it found asleep as aborted, this  *)
(* wait is over, whichever of several threads took the abort back.         *)
(***************************************************************************)
THEOREM CancelledWaitIsOver == Spec => CancelEndsWait
<1>. DEFINE A == \A c \in Cancellers :
                   cpc[c] = "aborting" /\ cpc'[c] = "idle" /\ c \in saw
                     => rx.pc \notin {"flagged", "asleep"}
<1>1. TypeOK /\ WaitInv /\ [Next]_vars => [A]_vars
  <2>. SUFFICES ASSUME TypeOK, WaitInv, Next,
                       NEW c \in Cancellers,
                       cpc[c] = "aborting", cpc'[c] = "idle", c \in saw
                PROVE  rx.pc \notin {"flagged", "asleep"}
    OBVIOUS
  <2>1. ASSUME NEW d \in Cancellers, CancelReturns(d) PROVE stopOwner = "free"
    BY <2>1 DEF CancelReturns
  <2>2. CASE cpc' = cpc
    BY <2>2
  <2>3. ASSUME NEW d \in Cancellers, CancelSees(d) \/ CancelAborts(d) PROVE FALSE
    BY <2>3 DEF CancelSees, CancelAborts, TypeOK
  <2>4. CASE Elsewhere
    BY <2>2, <2>4 DEF Elsewhere, SetCaPid, SetDVBAPIPid, CapmtChanges, SetDescr,
                      Init_Parity, Init_ParityOfNoSid, EcmPasses, PeriodEnds
  <2>5. CASE DecryptStep \/ \E pid \in Pids : DecryptChecks(pid)
    BY <2>2, <2>5 DEF DecryptStep, DecryptChecks, WaitBegins, WakesAborted, Wakes,
                      Decrypts
  <2>6. stopOwner = "free" => rx.pc \notin {"flagged", "asleep"}
    BY DEF WaitInv
  <2>. QED BY <2>1, <2>3, <2>4, <2>5, <2>6 DEF Next, CancelStep, Elsewhere
<1>. QED BY <1>1, Invariance, PTL DEF Spec, CancelEndsWait
-----------------------------------------------------------------------------
(* The control words.  Those of a parity only get newer, and none is newer *)
(* than the next period, so that the right one stays until its period is   *)
(* over.                                                                   *)

LEMMA ParityFacts ==
  /\ \A n \in Nat : ParityOf(n) \in Parity /\ ParityOf(n + 1) # ParityOf(n)
  /\ \A p, q, r \in Parity : p # q => r = p \/ r = q
<1>1. ASSUME NEW n \in Nat PROVE ParityOf(n) \in Parity /\ ParityOf(n + 1) # ParityOf(n)
  <2>1. (n % 2 = 0 /\ (n + 1) % 2 = 1) \/ (n % 2 = 1 /\ (n + 1) % 2 = 0)
    OBVIOUS
  <2>. QED BY <2>1 DEF ParityOf, Parity, Even, Odd
<1>. QED BY <1>1 DEF Parity

\* What OSCam sent, of what it got.
CwInv ==
  /\ \A p \in Parity : cw[p] <= sent /\ (cw[p] # 0 => ParityOf(cw[p]) = p)
  /\ sent # 0 => cw[ParityOf(sent)] = sent
  /\ sent <= ecm /\ ecm <= stream + 1
  /\ rx.pc # "idle" => rx.period = stream

\* What the times in the key tell of the CWs: the later one is expected next,
\* and if they came apart it is of a newer period than the other one.
TimesInv ==
  /\ \A p \in Parity : key.time[p] <= now
  /\ \A p, q \in Parity : p # q =>
       /\ cw[p] = 0 => key.time[p] = 0 /\ key.time[q] \in {0, now}
       /\ key.time[q] # 0 /\ key.time[p] > key.time[q] => key.next = p
       /\ key.time[q] # 0 /\ key.time[p] >= key.time[q] + PatchGap => cw[p] > cw[q]

\* How a check ends that decrypts with the CW the key expects.
Expected == {"first", "same", "next"}

\* The key remembers the parity a pid was decrypted with last.
DoneInv ==
  \A pid \in Pids :
    /\ done[pid].right => cw[ParityOf(done[pid].period)] >= done[pid].period
    /\ done[pid].how \in Expected =>
         \/ key.active[pid] \in {0, ParityOf(done[pid].period)}
         \/ rx.pc = "decrypting" /\ rx.pid = pid

\* A check has found what HeldUntilCwArrives asks for.
Follows(call, last) ==
  /\ call.how \in {"same", "next"} /\ call.apart
  /\ last.right /\ last.how \in Expected
  /\ call.period \in {last.period, last.period + 1}

CallInv ==
  rx.pc = "decrypting" =>
    /\ rx.how \in Expected => key.active[rx.pid] \in {0, ParityOf(rx.period)}
    /\ Follows(rx, done[rx.pid]) => cw[ParityOf(rx.period)] = rx.period

HeldInv == CwInv /\ TimesInv /\ DoneInv /\ CallInv

LEMMA InitHeldInv == Init => HeldInv
<1> SUFFICES ASSUME Init PROVE HeldInv
  OBVIOUS
<1>1. /\ \A p \in Parity : cw[p] = 0 /\ key.time[p] = 0
      /\ \A pid \in Pids : done[pid].right = FALSE /\ done[pid].how = "none"
      /\ sent = 0 /\ ecm = 0 /\ stream = 1 /\ now = 1 /\ rx.pc = "idle"
  BY DEF Init, InitFastEcm, Nothing, NoCall
<1>2. CwInv /\ CallInv
  BY <1>1 DEF CwInv, CallInv
<1>3. TimesInv
  BY <1>1, FastEcmAssumption DEF TimesInv
<1>4. DoneInv
  BY <1>1 DEF DoneInv, Expected
<1>. QED BY <1>2, <1>3, <1>4 DEF HeldInv

(* The CW of the present period stays.                                     *)
LEMMA CwsOfStream ==
  ASSUME TypeOK, CwInv, NEW n \in Nat, CwToSend(n)
  PROVE  /\ cw[ParityOf(n)] < n /\ n <= stream + 1 /\ n # 0
         /\ cw[ParityOf(stream)] = stream => ParityOf(n) # ParityOf(stream)
<1>1. /\ ParityOf(n) \in Parity /\ ParityOf(stream) \in Parity
      /\ cw[ParityOf(n)] \in Nat /\ cw[ParityOf(stream)] \in Nat
      /\ sent \in Nat /\ ecm \in Nat /\ stream \in Nat \ {0}
  BY ParityFacts DEF TypeOK
<1>2. n <= ecm /\ n # 0 /\ n <= stream + 1
  BY <1>1 DEF CwToSend, CwInv
<1>3. cw[ParityOf(n)] < n
  <2>1. CASE n > sent
    BY <1>1, <2>1 DEF CwInv
  <2>2. CASE n = sent - 1 /\ cw[ParityOf(n)] = 0
    BY <1>1, <1>2, <2>2
  <2>. QED BY <2>1, <2>2 DEF CwToSend
<1>4. ASSUME cw[ParityOf(stream)] = stream, ParityOf(n) = ParityOf(stream) PROVE FALSE
  <2>1. n > stream
    BY <1>3, <1>4
  <2>2. n = stream + 1
    BY <1>1, <1>2, <2>1
  <2>. QED BY <1>1, <1>4, <2>2, ParityFacts
<1>. QED BY <1>2, <1>3, <1>4

LEMMA CwOfPresent ==
  ASSUME TypeOK, CwInv PROVE cw[ParityOf(stream)] <= stream
<1>1. /\ ParityOf(stream) \in Parity /\ cw[ParityOf(stream)] \in Nat
      /\ sent \in Nat /\ ecm \in Nat /\ stream \in Nat \ {0}
  BY ParityFacts DEF TypeOK
<1>2. cw[ParityOf(stream)] <= stream + 1
  BY <1>1 DEF CwInv
<1>3. ASSUME cw[ParityOf(stream)] = stream + 1 PROVE FALSE
  <2>1. ParityOf(stream + 1) = ParityOf(stream)
    BY <1>1, <1>3 DEF CwInv
  <2>. QED BY <1>1, <2>1, ParityFacts
<1>. QED BY <1>1, <1>2, <1>3

(* A check that says "same" or "next" of CWs that came apart has the CW of *)
(* its period, if the packets before were decrypted with theirs.           *)
LEMMA CheckFindsCw ==
  ASSUME TypeOK, CwInv, TimesInv, DoneInv, NEW pid \in Pids, rx.pc # "decrypting",
         Apart(key), Verdict(key, pid, ParityOf(stream)) \in {"same", "next"},
         done[pid].right, done[pid].how \in Expected,
         stream \in {done[pid].period, done[pid].period + 1}
  PROVE  cw[ParityOf(stream)] = stream
<1> DEFINE p == ParityOf(stream)
           d == done[pid].period
           q == ParityOf(d)
<1>1. /\ p \in Parity /\ q \in Parity /\ cw[p] \in Nat /\ cw[q] \in Nat
      /\ d \in Nat /\ stream \in Nat \ {0} /\ key.time[p] \in Nat /\ key.time[q] \in Nat
  BY ParityFacts DEF TypeOK, FastEcmKey
<1>2. cw[q] >= d /\ key.active[pid] \in {0, q}
  BY DEF DoneInv
<1>3. cw[p] <= stream
  BY CwOfPresent
<1>4. CASE stream = d
  BY <1>1, <1>2, <1>3, <1>4
<1>5. CASE stream = d + 1
  <2>1. p # q
    BY <1>1, <1>5, ParityFacts
  <2>2. BothSet(key) /\ key.time[p] # 0 /\ key.time[q] # 0
    BY <1>1 DEF Apart, BothSet, Parity
  <2>3. key.active[pid] # 0 /\ (key.active[pid] = p \/ key.next = p)
    BY <2>2 DEF Verdict
  <2>4. key.next = p
    BY <1>2, <2>1, <2>3
  <2>5. Gap(key) >= PatchGap
    BY DEF Apart
  <2>6. key.time[p] >= key.time[q] + PatchGap \/ key.time[q] >= key.time[p] + PatchGap
    BY <1>1, <2>1, <2>5, FastEcmAssumption DEF Gap, Parity, Even, Odd
  <2>7. ~(key.time[q] > key.time[p])
    BY <1>1, <2>1, <2>2, <2>4 DEF TimesInv
  <2>8. cw[p] > cw[q]
    BY <1>1, <2>1, <2>2, <2>6, <2>7, FastEcmAssumption DEF TimesInv
  <2>. QED BY <1>1, <1>2, <1>3, <1>5, <2>8
<1>. QED BY <1>4, <1>5

(* A check, or the reset of the key, and the times.                        *)
LEMMA TimesStay ==
  ASSUME TypeOK, TimesInv, UNCHANGED <<cw, now>>,
         \/ key' = key
         \/ key' = InitFastEcm
         \/ \E pid, parity : key' = AfterCheck(key, pid, parity)
  PROVE  TimesInv'
<1>1. now \in Nat /\ \A p \in Parity : key.time[p] \in Nat
  BY DEF TypeOK, FastEcmKey
<1>2. CASE key' = key
  BY <1>2 DEF TimesInv
<1>3. CASE key' = InitFastEcm
  <2>1. \A p \in Parity : key'.time[p] = 0
    BY <1>3 DEF InitFastEcm
  <2>. QED BY <1>1, <2>1 DEF TimesInv
<1>4. ASSUME NEW pid, NEW parity, key' = AfterCheck(key, pid, parity) PROVE TimesInv'
  <2>1. key'.time = key.time /\ key'.next \in {key.next, Later(key)}
    BY <1>4 DEF AfterCheck, TypeOK, FastEcmKey
  <2>2. ASSUME NEW p \in Parity, NEW q \in Parity, p # q,
               key.time[p] > key.time[q]
        PROVE  Later(key) = p
    BY <1>1, <2>2 DEF Later, Parity, Even, Odd
  <2>3. ASSUME NEW p \in Parity, NEW q \in Parity, p # q,
               key.time[q] # 0, key.time[p] > key.time[q]
        PROVE  key'.next = p
    BY <2>1, <2>2, <2>3 DEF TimesInv
  <2>. QED BY <2>1, <2>3 DEF TimesInv
<1>. QED BY <1>2, <1>3, <1>4

LEMMA CheckActive ==
  ASSUME NEW k \in FastEcmKey, NEW pid \in Pids, NEW parity \in Parity
  PROVE  /\ \A other \in Pids : other # pid =>
              AfterCheck(k, pid, parity).active[other] = k.active[other]
         /\ Verdict(k, pid, parity) \in Expected =>
              AfterCheck(k, pid, parity).active[pid] = parity
         /\ Verdict(k, pid, parity) = "wait" => AfterCheck(k, pid, parity) = k
<1>1. k.active \in [Pids -> {0} \cup Parity]
  BY DEF FastEcmKey
<1>2. Verdict(k, pid, parity) = "same" => k.active[pid] = parity
  BY DEF Verdict
<1>. QED BY <1>1, <1>2 DEF AfterCheck, Expected, FastEcmKey

(* A check that ends with decryption.                                      *)
LEMMA CheckHeld ==
  ASSUME TypeOK, TypeOK', HeldInv, NEW pid \in Pids, rx.pc # "decrypting",
         UNCHANGED <<cw, sent, ecm, stream, now, done>>,
         rx'.pc = "decrypting", rx'.pid = pid, rx'.period = stream,
         \/ /\ rx'.how = Verdict(key, pid, ParityOf(stream)) /\ rx'.apart = Apart(key)
            /\ key' = AfterCheck(key, pid, ParityOf(stream))
         \/ rx'.how \in {"plain", "timeout"} /\ key' \in {key, InitFastEcm}
  PROVE  HeldInv'
<1> USE DEF HeldInv
<1>0. ParityOf(stream) \in Parity /\ key \in FastEcmKey
  BY ParityFacts DEF TypeOK
<1>1. CwInv'
  BY DEF CwInv
<1>2. TimesInv'
  BY TimesStay
<1>3. \A other \in Pids : other # pid =>
        key'.active[other] = key.active[other] \/ key'.active[other] = 0
  BY <1>0, CheckActive DEF InitFastEcm
<1>4. DoneInv'
  BY <1>3 DEF DoneInv
<1>5. CallInv'
  <2>1. CASE rx'.how \in {"plain", "timeout"}
    BY <2>1 DEF CallInv, Follows, Expected
  <2>2. CASE /\ rx'.how = Verdict(key, pid, ParityOf(stream)) /\ rx'.apart = Apart(key)
             /\ key' = AfterCheck(key, pid, ParityOf(stream))
    <3>1. rx'.how \in Expected => key'.active[pid] = ParityOf(stream)
      BY <1>0, <2>2, CheckActive
    <3>2. Follows(rx', done[pid]) => cw[ParityOf(stream)] = stream
      BY <2>2, CheckFindsCw DEF Follows
    <3>. QED BY <3>1, <3>2 DEF CallInv
  <2>. QED BY <2>1, <2>2
<1>. QED BY <1>1, <1>2, <1>4, <1>5

(* What leaves the CWs alone, and the call.                                *)
LEMMA HeldStays ==
  ASSUME TypeOK, TypeOK', InCall, HeldInv, UNCHANGED <<cw, sent, now, done>>,
         ecm <= ecm' /\ ecm' <= stream' + 1, stream <= stream',
         key' \in {key, InitFastEcm},
         \/ rx' = rx /\ (stream' = stream \/ rx.pc = "idle")
         \/ rx.pc # "decrypting" /\ rx'.pc # "decrypting"
            /\ (rx'.pc # "idle" => rx'.period = stream')
  PROVE  HeldInv'
<1> USE DEF HeldInv
<1>1. CwInv'
  <2>1. sent \in Nat /\ ecm \in Nat /\ ecm' \in Nat /\ stream' \in Nat
    BY DEF TypeOK
  <2>2. sent <= ecm /\ ecm <= ecm' /\ ecm' <= stream' + 1
    BY DEF CwInv
  <2>3. sent <= ecm'
    BY <2>1, <2>2
  <2>4. rx'.pc # "idle" => rx'.period = stream'
    BY DEF CwInv
  <2>. QED BY <2>2, <2>3, <2>4 DEF CwInv
<1>2. TimesInv'
  BY TimesStay
<1>3. \A pid \in Pids : key'.active[pid] \in {key.active[pid], 0}
  BY DEF InitFastEcm
<1>4. DoneInv'
  BY <1>3 DEF DoneInv
<1>5. CASE rx' = rx
  <2>1. rx.pc = "decrypting" => key'.active[rx.pid] \in {key.active[rx.pid], 0}
    BY <1>3 DEF InCall
  <2>. QED BY <1>1, <1>2, <1>4, <1>5, <2>1 DEF CallInv
<1>6. CASE rx'.pc # "decrypting"
  BY <1>1, <1>2, <1>4, <1>6 DEF CallInv
<1>. QED BY <1>5, <1>6

(* A CW arrives: the one of the present period, if it is there, stays.     *)
LEMMA SetDescrHeld ==
  ASSUME TypeOK, HeldInv, NEW n \in 1 .. MaxPeriod, SetDescr(n)
  PROVE  HeldInv'
<1> USE DEF HeldInv
<1> DEFINE p == ParityOf(n)
<1>1. PICK pause \in 0 .. PatchGap :
        /\ n < sent => pause < PatchGap
        /\ now' = now + pause /\ key' = SetControlWord(key, p, now + pause)
  BY DEF SetDescr
<1>2. /\ n \in Nat /\ n # 0 /\ p \in Parity /\ pause \in Nat /\ now \in Nat
      /\ sent \in Nat /\ ecm \in Nat /\ stream \in Nat /\ PatchGap \in Nat \ {0}
      /\ \A q \in Parity : cw[q] \in Nat /\ key.time[q] \in Nat
  <2>1. PatchGap \in Nat \ {0} /\ MaxPeriod \in Nat
    BY FastEcmAssumption, CwWaitAssumption
  <2>2. n \in Nat /\ n # 0 /\ pause \in Nat
    BY <2>1
  <2>3. \A q \in Parity : cw[q] \in Nat /\ key.time[q] \in Nat
    BY DEF TypeOK, FastEcmKey
  <2>4. now \in Nat /\ sent \in Nat /\ ecm \in Nat /\ stream \in Nat
    BY DEF TypeOK
  <2>. QED BY <2>1, <2>2, <2>3, <2>4, ParityFacts
<1>3. /\ CwToSend(n) /\ UNCHANGED <<rx, done, ecm, stream>>
      /\ sent' = IF n > sent THEN n ELSE sent
      /\ cw'[p] = n /\ \A q \in Parity : q # p => cw'[q] = cw[q]
  BY <1>2 DEF SetDescr, TypeOK
<1>4. /\ key'.next = p /\ key'.time[p] = now' /\ key'.active = key.active
      /\ \A q \in Parity : q # p => key'.time[q] = key.time[q]
  BY <1>1, <1>2 DEF SetControlWord, TypeOK, FastEcmKey
<1>5. cw[p] < n /\ n <= ecm /\ (cw[ParityOf(stream)] = stream => p # ParityOf(stream))
  BY <1>2, <1>3, CwsOfStream DEF CwToSend
<1>6. ASSUME ~(n > sent)
      PROVE  /\ n < sent /\ ParityOf(sent) # p /\ ParityOf(sent) \in Parity
             /\ cw[p] = 0 /\ cw[ParityOf(sent)] = sent
  <2>1. sent = n + 1 /\ cw[p] = 0
    BY <1>2, <1>3, <1>6 DEF CwToSend
  <2>. QED BY <1>2, <2>1, ParityFacts DEF CwInv
<1>7. CwInv'
  <2>1. \A q \in Parity : cw'[q] <= sent' /\ (cw'[q] # 0 => ParityOf(cw'[q]) = q)
    BY <1>2, <1>3 DEF CwInv
  <2>2. sent' # 0 => cw'[ParityOf(sent')] = sent'
    BY <1>3, <1>6
  <2>3. sent' <= ecm
    BY <1>3, <1>5 DEF CwInv
  <2>. QED BY <1>3, <2>1, <2>2, <2>3 DEF CwInv
<1>8. TimesInv'
  <2>1. \A q \in Parity : key'.time[q] <= now'
    BY <1>1, <1>2, <1>4 DEF TimesInv
  <2>2. ASSUME NEW o \in Parity, o # p
        PROVE  /\ cw'[p] # 0 /\ key'.time[p] = now' /\ key'.next = p
               /\ cw'[o] = 0 => key'.time[o] = 0
               /\ ~(key'.time[o] > key'.time[p])
               /\ ~(key'.time[o] >= key'.time[p] + PatchGap)
    BY <1>1, <1>2, <1>3, <1>4, <2>2 DEF TimesInv
  <2>3. ASSUME NEW o \in Parity, o # p,
               key'.time[o] # 0, key'.time[p] >= key'.time[o] + PatchGap
        PROVE  cw'[p] > cw'[o]
    <3>1. CASE n > sent
      BY <1>2, <1>3, <2>3, <3>1 DEF CwInv
    <3>2. CASE ~(n > sent)
      <4>1. key.time[o] = now
        BY <1>2, <1>4, <1>6, <2>3, <3>2 DEF TimesInv
      <4>2. now + pause >= now + PatchGap /\ pause < PatchGap
        BY <1>1, <1>4, <1>6, <2>3, <3>2, <4>1
      <4>. QED BY <1>2, <4>2
    <3>. QED BY <3>1, <3>2
  <2>. QED BY <1>2, <2>1, <2>2, <2>3, ParityFacts DEF TimesInv
<1>9. DoneInv'
  <2>1. \A pid \in Pids : done[pid].period \in Nat
    BY DEF TypeOK
  <2>2. ASSUME NEW d \in Nat
        PROVE  ParityOf(d) \in Parity /\ cw'[ParityOf(d)] >= cw[ParityOf(d)]
    <3>1. ParityOf(d) \in Parity
      BY ParityFacts
    <3>2. \A o \in Parity : cw'[o] >= cw[o]
      BY <1>2, <1>3, <1>5
    <3>. QED BY <3>1, <3>2
  <2>3. \A pid \in Pids : done[pid].right =>
          cw'[ParityOf(done[pid].period)] >= done[pid].period
    <3>. SUFFICES ASSUME NEW pid \in Pids, done[pid].right
                  PROVE  cw'[ParityOf(done[pid].period)] >= done[pid].period
      OBVIOUS
    <3>1. cw[ParityOf(done[pid].period)] >= done[pid].period
      BY DEF DoneInv
    <3>2. /\ cw[ParityOf(done[pid].period)] \in Nat
          /\ cw'[ParityOf(done[pid].period)] >= cw[ParityOf(done[pid].period)]
          /\ cw'[ParityOf(done[pid].period)] \in Nat
      BY <1>2, <1>3, <2>1, <2>2
    <3>. QED BY <2>1, <3>1, <3>2
  <2>. QED BY <1>3, <1>4, <2>3 DEF DoneInv
<1>10. CallInv'
  <2>. SUFFICES ASSUME rx.pc = "decrypting"
                PROVE  /\ rx.how \in Expected =>
                            key.active[rx.pid] \in {0, ParityOf(rx.period)}
                       /\ Follows(rx, done[rx.pid]) =>
                            cw'[ParityOf(rx.period)] = rx.period
    BY <1>3, <1>4 DEF CallInv
  <2>1. rx.period = stream
    BY DEF CwInv
  <2>2. ParityOf(stream) \in Parity
    BY <1>2, ParityFacts
  <2>. QED BY <1>3, <1>5, <2>1, <2>2 DEF CallInv
<1>. QED BY <1>7, <1>8, <1>9, <1>10

(* The packets are decrypted: the key has been left at their parity.       *)
LEMMA DecryptsHeld ==
  ASSUME TypeOK, InCall, HeldInv, Decrypts
  PROVE  HeldInv'
<1> USE DEF HeldInv
<1>1. /\ rx.pc = "decrypting" /\ rx'.pc = "idle" /\ rx.pid \in Pids
      /\ done'[rx.pid] = [period |-> rx.period, how |-> rx.how,
                          right |-> cw[ParityOf(rx.period)] = rx.period]
      /\ \A pid \in Pids : pid # rx.pid => done'[pid] = done[pid]
      /\ UNCHANGED <<key, cw, sent, ecm, stream, now>>
  BY DEF Decrypts, TypeOK, InCall, NoCall, keyvars, world
<1>2. CwInv'
  BY <1>1 DEF CwInv
<1>3. TimesInv'
  BY <1>1 DEF TimesInv
<1>4. CallInv'
  BY <1>1 DEF CallInv
<1>5. DoneInv'
  <2>1. ASSUME NEW pid \in Pids, pid # rx.pid
        PROVE  /\ done[pid].right =>
                    cw[ParityOf(done[pid].period)] >= done[pid].period
               /\ done[pid].how \in Expected =>
                    key.active[pid] \in {0, ParityOf(done[pid].period)}
    BY <2>1 DEF DoneInv
  <2>2. rx.period \in Nat
    BY DEF TypeOK
  <2>3. /\ done'[rx.pid].right =>
             cw[ParityOf(done'[rx.pid].period)] >= done'[rx.pid].period
        /\ done'[rx.pid].how \in Expected =>
             key.active[rx.pid] \in {0, ParityOf(done'[rx.pid].period)}
    <3>1. /\ done'[rx.pid].period = rx.period /\ done'[rx.pid].how = rx.how
          /\ done'[rx.pid].right => cw[ParityOf(rx.period)] = rx.period
      <4>. DEFINE c == (cw[ParityOf(rx.period)] = rx.period)
      <4>1. done'[rx.pid] = [period |-> rx.period, how |-> rx.how, right |-> c]
        BY <1>1
      <4>. HIDE DEF c
      <4>2. done'[rx.pid].period = rx.period /\ done'[rx.pid].how = rx.how
            /\ done'[rx.pid].right = c
        BY <4>1
      <4>. QED BY <4>2 DEF c
    <3>2. rx.how \in Expected => key.active[rx.pid] \in {0, ParityOf(rx.period)}
      BY <1>1 DEF CallInv
    <3>. QED BY <2>2, <3>1, <3>2
  <2>. QED BY <1>1, <2>1, <2>3 DEF DoneInv
<1>. QED BY <1>2, <1>3, <1>4, <1>5

LEMMA StepHeldInv ==
  TypeOK /\ TypeOK' /\ InCall /\ HeldInv /\ [Next]_vars => HeldInv'
<1>. SUFFICES ASSUME TypeOK, TypeOK', InCall, HeldInv, [Next]_vars PROVE HeldInv'
  OBVIOUS
<1>0. /\ stream <= stream /\ ecm <= ecm /\ ecm <= stream + 1 /\ stream \in Nat
      /\ ParityOf(stream) \in Parity /\ key \in FastEcmKey
      /\ rx.pc # "idle" => rx.period = stream
  BY ParityFacts DEF TypeOK, HeldInv, CwInv
<1>1. ASSUME NEW pid \in Pids, DecryptChecks(pid) PROVE HeldInv'
  <2>. DEFINE how == IF Resolves THEN Verdict(key, pid, ParityOf(stream)) ELSE "plain"
  <2>1. /\ rx.pc = "idle" /\ UNCHANGED <<cw, sent, ecm, stream, now, done>>
        /\ rx'.pc = IF how = "wait" THEN "flagged" ELSE "decrypting"
        /\ rx'.pid = pid /\ rx'.period = stream /\ rx'.how = how
        /\ rx'.apart = Apart(key)
        /\ key' = IF Resolves THEN AfterCheck(key, pid, ParityOf(stream)) ELSE key
    BY <1>1 DEF DecryptChecks, world
  <2>2. CASE how = "wait"
    <3>1. key' = key
      BY <1>0, <2>1, <2>2, CheckActive
    <3>. QED BY <1>0, <2>1, <2>2, <3>1, HeldStays
  <2>3. CASE how # "wait"
    <3>1. CASE Resolves
      <4>1. /\ rx'.how = Verdict(key, pid, ParityOf(stream)) /\ rx'.apart = Apart(key)
            /\ key' = AfterCheck(key, pid, ParityOf(stream))
        BY <2>1, <3>1
      <4>. HIDE DEF how
      <4>. QED BY <2>1, <2>3, <4>1, CheckHeld
    <3>2. CASE ~Resolves
      <4>1. rx'.how = "plain" /\ key' = key
        BY <2>1, <3>2
      <4>. HIDE DEF how
      <4>. QED BY <2>1, <2>3, <4>1, CheckHeld
    <3>. QED BY <3>1, <3>2
  <2>. QED BY <2>2, <2>3
<1>2. CASE WaitBegins \/ WakesAborted
  <2>1. /\ UNCHANGED <<cw, sent, ecm, stream, now, done, key>>
        /\ rx.pc # "decrypting" /\ rx'.pc # "decrypting"
        /\ rx'.pc # "idle" => rx'.period = stream
    <3>1. CASE WaitBegins
      <4>1. rx'.period = rx.period
        BY <3>1 DEF WaitBegins, TypeOK
      <4>2. rx.pc = "flagged" /\ rx'.pc = "asleep"
        BY <3>1 DEF WaitBegins, TypeOK
      <4>. QED BY <1>0, <3>1, <4>1, <4>2 DEF WaitBegins, keyvars, world
    <3>2. CASE WakesAborted
      BY <3>2 DEF WakesAborted, NoCall, keyvars, world
    <3>. QED BY <1>2, <3>1, <3>2
  <2>. QED BY <1>0, <2>1, HeldStays
<1>3. CASE Wakes
  <2>. DEFINE how == Verdict(key, rx.pid, ParityOf(rx.period))
  <2>1. /\ UNCHANGED <<cw, sent, ecm, stream, now, done>>
        /\ rx.pc = "asleep" /\ rx.pid \in Pids /\ rx.period = stream
    BY <1>0, <1>3 DEF Wakes, InCall, world
  <2>2. \/ /\ key' = AfterCheck(key, rx.pid, ParityOf(rx.period))
           /\ rx' = [rx EXCEPT !.pc = "decrypting", !.how = how, !.apart = Apart(key)]
        \/ /\ key' = InitFastEcm
           /\ rx' = [rx EXCEPT !.pc = "decrypting", !.how = "timeout"]
        \/ rx' = [rx EXCEPT !.sleeps = @ + 1] /\ key' = key
    BY <1>3 DEF Wakes
  <2>. HIDE DEF how
  <2>3. /\ rx'.pid = rx.pid /\ rx'.period = stream
        /\ \/ /\ key' = AfterCheck(key, rx.pid, ParityOf(stream))
              /\ rx'.pc = "decrypting" /\ rx'.how = how /\ rx'.apart = Apart(key)
           \/ key' = InitFastEcm /\ rx'.pc = "decrypting" /\ rx'.how = "timeout"
           \/ rx'.pc = "asleep" /\ key' = key
    <3>1. DOMAIN rx = {"pc", "pid", "period", "how", "apart", "sleeps"}
      BY DEF TypeOK
    <3>2. CASE /\ key' = AfterCheck(key, rx.pid, ParityOf(rx.period))
               /\ rx' = [rx EXCEPT !.pc = "decrypting", !.how = how, !.apart = Apart(key)]
      <4>. DEFINE a == Apart(key)
      <4>1. rx' = [rx EXCEPT !.pc = "decrypting", !.how = how, !.apart = a]
        BY <3>2
      <4>. HIDE DEF a
      <4>2. /\ rx'.pc = "decrypting" /\ rx'.pid = rx.pid /\ rx'.period = rx.period
            /\ rx'.how = how /\ rx'.apart = a
        BY <3>1, <4>1
      <4>. QED BY <2>1, <3>2, <4>2 DEF a
    <3>3. CASE key' = InitFastEcm
               /\ rx' = [rx EXCEPT !.pc = "decrypting", !.how = "timeout"]
      BY <2>1, <3>1, <3>3
    <3>4. CASE rx' = [rx EXCEPT !.sleeps = @ + 1] /\ key' = key
      BY <2>1, <3>1, <3>4
    <3>. QED BY <2>2, <3>2, <3>3, <3>4
  <2>4. CASE rx'.pc = "asleep"
    <3>1. key' = key
      BY <2>3, <2>4
    <3>. QED BY <1>0, <2>1, <2>3, <2>4, <3>1, HeldStays
  <2>5. CASE rx'.pc = "decrypting"
    <3>1. \/ /\ rx'.how = Verdict(key, rx.pid, ParityOf(stream)) /\ rx'.apart = Apart(key)
             /\ key' = AfterCheck(key, rx.pid, ParityOf(stream))
          \/ rx'.how = "timeout" /\ key' = InitFastEcm
      BY <2>1, <2>3, <2>5 DEF how
    <3>. QED BY <2>1, <2>3, <2>5, <3>1, CheckHeld
  <2>. QED BY <2>3, <2>4, <2>5
<1>4. CASE Decrypts
  BY <1>4, DecryptsHeld
<1>5. CASE \E n \in 1 .. MaxPeriod : SetDescr(n)
  BY <1>5, SetDescrHeld
<1>6. CASE /\ UNCHANGED <<cw, sent, ecm, stream, now, done, rx>>
           /\ key' \in {key, InitFastEcm}
  BY <1>0, <1>6, HeldStays
<1>7. ASSUME NEW c \in Cancellers, CancelSees(c) \/ CancelStep(c) PROVE HeldInv'
  BY <1>6, <1>7 DEF CancelSees, CancelStep, CancelAborts, CancelReturns, keyvars, world
<1>8. CASE EcmPasses \/ PeriodEnds
  <2>1. /\ UNCHANGED <<cw, sent, now, done, rx, key>> /\ rx.pc = "idle"
        /\ \/ ecm' = ecm /\ stream' = stream + 1
           \/ ecm' = ecm + 1 /\ stream' = stream /\ ecm <= stream
    BY <1>8 DEF EcmPasses, PeriodEnds, keyvars
  <2>2. ecm \in Nat /\ stream \in Nat /\ ecm <= stream + 1
    BY <1>0 DEF TypeOK
  <2>3. ecm <= ecm' /\ ecm' <= stream' + 1 /\ stream <= stream'
    BY <2>1, <2>2
  <2>. QED BY <2>1, <2>3, HeldStays
<1>9. CASE Elsewhere
  <2>1. ASSUME NEW pid \in Pids, SetCaPid(pid) PROVE HeldInv'
    BY <1>6, <2>1 DEF SetCaPid, world
  <2>2. CASE SetDVBAPIPid \/ CapmtChanges
    BY <1>6, <2>2 DEF SetDVBAPIPid, CapmtChanges, keyvars, world
  <2>3. CASE Init_ParityOfNoSid \/ \E delete \in BOOLEAN : Init_Parity(delete)
    BY <1>6, <2>3 DEF Init_Parity, Init_ParityOfNoSid
  <2>. QED BY <1>5, <1>8, <1>9, <2>1, <2>2, <2>3 DEF Elsewhere
<1>10. CASE UNCHANGED vars
  BY <1>6, <1>10 DEF vars, keyvars, world
<1>. QED
  BY <1>1, <1>2, <1>3, <1>4, <1>7, <1>9, <1>10 DEF Next, DecryptStep, Elsewhere

(***************************************************************************)
(* Fast ECM holds the stream until the CW arrives: packets that follow     *)
(* rightly decrypted ones of their pid, in the same or in the next crypto  *)
(* period, get their CW too, whatever OSCam answers and when, and however  *)
(* often the service is reset meanwhile, unless the wait timed out.        *)
(***************************************************************************)
THEOREM CwArrivesFirst == Spec => HeldUntilCwArrives
<1>. DEFINE A == \A pid \in Pids :
                   /\ rx.pc = "decrypting" /\ rx.pid = pid /\ rx' = NoCall
                   /\ done[pid].right /\ done[pid].how \in {"first", "same", "next"}
                   /\ done'[pid].period \in {done[pid].period, done[pid].period + 1}
                   /\ rx.how \in {"same", "next"} /\ rx.apart
                   => done'[pid].right
<1>1. Spec => []InCall
  BY InitType, TypeStep, PTL DEF Spec
<1>2. Spec => []HeldInv
  BY TypeCorrect, <1>1, InitHeldInv, StepHeldInv, PTL DEF Spec
<1>3. TypeOK /\ HeldInv /\ [Next]_vars => [A]_vars
  <2>. SUFFICES ASSUME TypeOK, HeldInv, Next, NEW pid \in Pids,
                       rx.pc = "decrypting", rx.pid = pid, rx' = NoCall,
                       done[pid].right, done[pid].how \in Expected,
                       done'[pid].period \in {done[pid].period, done[pid].period + 1},
                       rx.how \in {"same", "next"}, rx.apart
                PROVE  done'[pid].right
    BY DEF Expected
  <2>1. rx' # rx
    BY DEF NoCall
  <2>2. Decrypts
    <3>1. ~\E q \in Pids : DecryptChecks(q) \/ SetCaPid(q)
      BY <2>1 DEF DecryptChecks, SetCaPid
    <3>2. ~(WaitBegins \/ WakesAborted \/ Wakes)
      BY DEF WaitBegins, WakesAborted, Wakes
    <3>3. ~\E c \in Cancellers : CancelSees(c) \/ CancelStep(c)
      BY <2>1 DEF CancelSees, CancelStep, CancelAborts, CancelReturns
    <3>4. ~Elsewhere
      BY <2>1 DEF Elsewhere, SetCaPid, SetDVBAPIPid, CapmtChanges, SetDescr,
                  Init_Parity, Init_ParityOfNoSid, EcmPasses, PeriodEnds
    <3>. QED BY <3>1, <3>2, <3>3, <3>4 DEF Next, DecryptStep, Elsewhere
  <2>. DEFINE c == (cw[ParityOf(rx.period)] = rx.period)
  <2>3. done'[pid] = [period |-> rx.period, how |-> rx.how, right |-> c]
    BY <2>2 DEF Decrypts, TypeOK
  <2>. HIDE DEF c
  <2>4. done'[pid].period = rx.period /\ done'[pid].right = c
    BY <2>3
  <2>5. rx.period \in {done[pid].period, done[pid].period + 1}
    BY <2>4
  <2>6. c
    BY <2>5 DEF HeldInv, CallInv, Follows, c
  <2>. QED BY <2>4, <2>6
<1>. QED BY <1>2, <1>3, TypeCorrect, PTL DEF Spec, HeldUntilCwArrives
=============================================================================
