------------------------------- MODULE CwWait -------------------------------
(***************************************************************************)
(* Decryption of one service on one adapter while its control words come   *)
(* late: DeCSAAdapter::Decrypt holds the stream back (Fast ECM; the CAID   *)
(* of the service is one of IsFastECMCAID), and                            *)
(*                                                                         *)
(*  - the receive thread of the adapter calls Decrypt for the scrambled    *)
(*    packets and, for the others, passes the ECMs on to OSCam: while      *)
(*    Decrypt sleeps no ECM is seen;                                       *)
(*  - the socket thread sets control words, the pid map and the ECM pid;   *)
(*  - the CI thread starts and stops the service (Init_Parity);            *)
(*  - any thread that stops decryption cancels the wait (CancelWait).      *)
(*                                                                         *)
(* The stream is a sequence of crypto periods; the CW of period n has the  *)
(* parity of n.  The key of the service holds the period of the CW it was  *)
(* last given for each parity.                                             *)
(***************************************************************************)
EXTENDS FastEcm

CONSTANTS
  Cancellers,   \* the threads that call CancelWait
  MaxPeriod,    \* bound: the crypto periods of the stream
  MaxSleeps,    \* imaxSleep: how often Decrypt sleeps before it gives up
  MaxResets     \* bound: how often VDR starts or stops the service

ASSUME CwWaitAssumption ==
  MaxPeriod \in Nat \ {0} /\ MaxSleeps \in Nat \ {0} /\ MaxResets \in Nat

VARIABLES
  key,          \* fastecm of the service's DeCSAKey
  cw,           \* for each parity the period of the CW in the key; 0: none
  resolved,     \* csaCaid and csaSid are set
  ecmPid,       \* csaPid is set
  listed,       \* CAPMT has the CAID of the ECM pid
  mapped,       \* AdapterPidMap: the pids that use the key
  adapterOwner, \* who holds mutexAdapter: the receive thread or nobody
  stopOwner,    \* who holds mutexStopDecrypt: the receive thread or nobody
  waiting,      \* bCW_Waiting
  abort,        \* bAbort
  rx,           \* the receive thread in Decrypt: where, and for which packets
  cpc,          \* where each canceller is in CancelWait
  stream,       \* the crypto period of the stream
  ecm,          \* the newest period whose ECM was passed on to OSCam
  sent,         \* the newest period whose CW OSCam sent
  now,          \* the time of the last CW
  resets,       \* history: for the bound
  done,         \* history: the last packets of each pid that were decrypted
  saw           \* history: the cancellers that saw the present wait asleep

keyvars == <<key, cw, resolved, ecmPid, mapped>>
flags   == <<adapterOwner, stopOwner, waiting, abort>>
world   == <<stream, ecm, sent, now, listed, resets>>
vars    == <<keyvars, flags, rx, cpc, world, done, saw>>
-----------------------------------------------------------------------------
ParityOf(n) == IF n % 2 = 0 THEN Even ELSE Odd

\* A call of Decrypt: the pid and parity of its packets, the verdict of the
\* last check, whether the CWs were apart then (history), the sleeps so far.
NoCall == [pc |-> "idle", pid |-> 0, period |-> 0, how |-> "none",
           apart |-> FALSE, sleeps |-> 0]
Apart(k) == BothSet(k) /\ Gap(k) >= PatchGap
Verdicts == {"none", "plain", "early", "first", "same", "next", "patched",
             "wait", "timeout"}

\* Decrypted packets: whether "cw" was their period's, and how it got there.
Nothing == [period |-> 0, right |-> FALSE, how |-> "none"]

Init ==
  /\ key = InitFastEcm /\ cw = [p \in Parity |-> 0]
  /\ resolved = FALSE /\ ecmPid = FALSE /\ mapped = {}
  /\ adapterOwner = "free" /\ stopOwner = "free"
  /\ waiting = FALSE /\ abort = FALSE
  /\ rx = NoCall /\ cpc = [c \in Cancellers |-> "idle"]
  /\ stream = 1 /\ ecm = 0 /\ sent = 0 /\ now = 1 /\ listed = FALSE
  /\ resets = 0
  /\ done = [pid \in Pids |-> Nothing] /\ saw = {}
-----------------------------------------------------------------------------
(* The receive thread: Decrypt.                                            *)

\* Fast ECM applies once the CAID of the ECM pid is known and is one of
\* IsFastECMCAID; the lookup is made until it succeeds.
Resolves == resolved \/ (ecmPid /\ listed)

\* The first part of Decrypt, up to the verdict: mutexAdapter is taken.
DecryptChecks(pid) ==
  /\ rx.pc = "idle" /\ adapterOwner = "free" /\ pid \in mapped
  /\ resolved' = Resolves
  /\ LET parity == ParityOf(stream)
         how == IF Resolves THEN Verdict(key, pid, parity) ELSE "plain"
     IN  /\ key' = IF Resolves THEN AfterCheck(key, pid, parity) ELSE key
         /\ rx' = [pc |-> IF how = "wait" THEN "flagged" ELSE "decrypting",
                   pid |-> pid, period |-> stream, how |-> how,
                   apart |-> Apart(key), sleeps |-> 0]
         /\ waiting' = (how = "wait")
         /\ saw' = IF how = "wait" THEN {} ELSE saw
  /\ adapterOwner' = "receiver"
  /\ UNCHANGED <<cw, ecmPid, mapped, stopOwner, abort, cpc, world, done>>

\* bCW_Waiting is already set when the wait takes its mutex and goes to sleep,
\* with mutexAdapter released.
WaitBegins ==
  /\ rx.pc = "flagged" /\ stopOwner = "free"
  /\ stopOwner' = "receiver" /\ adapterOwner' = "free"
  /\ rx' = [rx EXCEPT !.pc = "asleep", !.sleeps = 1]
  /\ UNCHANGED <<keyvars, waiting, abort, cpc, world, done, saw>>

WakesAborted_KeepsMutex ==
  /\ rx.pc = "asleep" /\ adapterOwner = "free" /\ abort
  /\ waiting' = FALSE /\ abort' = FALSE
  /\ rx' = NoCall
  /\ UNCHANGED <<keyvars, adapterOwner, stopOwner, cpc, world, done, saw>>

\* Cancelled: the packets stay scrambled.
WakesAborted ==
  /\ rx.pc = "asleep" /\ adapterOwner = "free" /\ abort
  /\ waiting' = FALSE /\ abort' = FALSE /\ stopOwner' = "free"
  /\ rx' = NoCall
  /\ UNCHANGED <<keyvars, adapterOwner, cpc, world, done, saw>>

Wakes_NeverGivesUp ==
  /\ rx.pc = "asleep" /\ adapterOwner = "free" /\ ~abort
  /\ LET parity == ParityOf(rx.period)
         how == Verdict(key, rx.pid, parity)
     IN  /\ key' = AfterCheck(key, rx.pid, parity)
         /\ IF how = "wait"
              THEN UNCHANGED <<adapterOwner, stopOwner, waiting, rx>>
              ELSE /\ adapterOwner' = "receiver" /\ stopOwner' = "free"
                   /\ waiting' = FALSE
                   /\ rx' = [rx EXCEPT !.pc = "decrypting", !.how = how,
                                   !.apart = Apart(key)]
  /\ UNCHANGED <<cw, resolved, ecmPid, mapped, abort, cpc, world, done, saw>>

\* The check is made again after each sleep.  When the time is up (the timer
\* may be late against the sleeps, or the sleeps against it) the key forgets
\* the times and the active parities, so that the next packets do not wait.
Wakes ==
  /\ rx.pc = "asleep" /\ adapterOwner = "free" /\ ~abort
  /\ \E timedOut \in BOOLEAN :
       LET parity == ParityOf(rx.period)
           how == Verdict(key, rx.pid, parity)
       IN  IF how # "wait"
             THEN /\ key' = AfterCheck(key, rx.pid, parity)
                  /\ adapterOwner' = "receiver" /\ stopOwner' = "free"
                  /\ waiting' = FALSE
                  /\ rx' = [rx EXCEPT !.pc = "decrypting", !.how = how,
                                   !.apart = Apart(key)]
           ELSE IF timedOut \/ rx.sleeps > MaxSleeps
             THEN /\ key' = InitFastEcm
                  /\ adapterOwner' = "receiver" /\ stopOwner' = "free"
                  /\ waiting' = FALSE
                  /\ rx' = [rx EXCEPT !.pc = "decrypting", !.how = "timeout"]
             ELSE /\ rx' = [rx EXCEPT !.sleeps = @ + 1]
                  /\ UNCHANGED <<key, adapterOwner, stopOwner, waiting>>
  /\ UNCHANGED <<cw, resolved, ecmPid, mapped, abort, cpc, world, done, saw>>

\* Decrypt_packets, with whatever CW the key has by now.
Decrypts ==
  /\ rx.pc = "decrypting"
  /\ done' = [done EXCEPT ![rx.pid] =
                [period |-> rx.period, how |-> rx.how,
                 right |-> cw[ParityOf(rx.period)] = rx.period]]
  /\ adapterOwner' = "free" /\ rx' = NoCall
  /\ UNCHANGED <<keyvars, stopOwner, waiting, abort, cpc, world, saw>>
-----------------------------------------------------------------------------
(* CancelWait: without a wait it returns at once.                          *)

CancelSees(c) ==
  /\ cpc[c] = "idle" /\ waiting
  /\ cpc' = [cpc EXCEPT ![c] = "saw"]
  /\ saw' = (IF rx.pc = "asleep" THEN saw \cup {c} ELSE saw)
  /\ UNCHANGED <<keyvars, flags, rx, world, done>>

CancelAborts(c) ==
  /\ cpc[c] = "saw"
  /\ cpc' = [cpc EXCEPT ![c] = "aborting"] /\ abort' = TRUE
  /\ UNCHANGED <<keyvars, adapterOwner, stopOwner, waiting, rx, world, done, saw>>

CancelReturns_LeavesAbort(c) ==
  /\ cpc[c] = "aborting" /\ stopOwner = "free"
  /\ cpc' = [cpc EXCEPT ![c] = "idle"]
  /\ UNCHANGED <<keyvars, flags, rx, world, done, saw>>

CancelReturns_Unlocked(c) ==
  /\ cpc[c] = "aborting"
  /\ cpc' = [cpc EXCEPT ![c] = "idle"] /\ abort' = FALSE
  /\ UNCHANGED <<keyvars, adapterOwner, stopOwner, waiting, rx, world, done, saw>>

\* It waits for the mutex of the wait, takes back the abort and lets go.
CancelReturns(c) ==
  /\ cpc[c] = "aborting" /\ stopOwner = "free"
  /\ cpc' = [cpc EXCEPT ![c] = "idle"] /\ abort' = FALSE
  /\ UNCHANGED <<keyvars, adapterOwner, stopOwner, waiting, rx, world, done, saw>>
-----------------------------------------------------------------------------
(* The socket thread and the CI thread.                                    *)

\* SetCaPid: OSCam gives a pid the key, or takes it away (index -1).
SetCaPid(pid) ==
  /\ adapterOwner = "free"
  /\ mapped' \in {mapped \cup {pid}, mapped \ {pid}}
  /\ UNCHANGED <<key, cw, resolved, ecmPid, flags, rx, cpc, world, done, saw>>

\* SetFilter calls SetDVBAPIPid for OSCam's ECM filter.
SetDVBAPIPid ==
  /\ adapterOwner = "free" /\ ~ecmPid
  /\ ecmPid' = TRUE
  /\ UNCHANGED <<key, cw, resolved, mapped, flags, rx, cpc, world, done, saw>>

\* OSCam answers an ECM it got (external), in order but maybe not every one.
\* The first answer has both CWs: the other one is older or still to come.
\* Time passes between the CWs of different ECMs, not between these two.
CwToSend(n) ==
  /\ n \in 1 .. ecm
  /\ n > sent \/ (n = sent - 1 /\ cw[ParityOf(n)] = 0)

\* SetDescr, by the socket thread.
SetDescr(n) ==
  /\ CwToSend(n)
  /\ \E pause \in 0 .. PatchGap :
       /\ n < sent => pause < PatchGap
       /\ now' = now + pause
       /\ key' = SetControlWord(key, ParityOf(n), now + pause)
  /\ cw' = [cw EXCEPT ![ParityOf(n)] = n]
  /\ sent' = (IF n > sent THEN n ELSE sent)
  /\ UNCHANGED <<resolved, ecmPid, mapped, flags, rx, cpc, stream, ecm, listed,
                 resets, done, saw>>

Lowest(S) == {pid \in S : \A other \in S : pid <= other}

\* Init_Parity(sid) resets the key of a pid whose key knows that sid.  The
\* reset forgets the sid, so that no other pid of the key is found after it.
Init_Parity(delete) ==
  /\ adapterOwner = "free" /\ resets < MaxResets
  /\ resets' = resets + 1
  /\ IF resolved /\ mapped # {}
       THEN /\ key' = InitFastEcm /\ resolved' = FALSE /\ ecmPid' = FALSE
            /\ mapped' = (IF delete THEN mapped \ Lowest(mapped) ELSE mapped)
       ELSE UNCHANGED <<key, resolved, ecmPid, mapped>>
  /\ UNCHANGED <<cw, flags, rx, cpc, stream, ecm, sent, now, listed, done, saw>>

\* VDR stops all (sid 0): a key that knows no sid matches, with all its pids.
Init_ParityOfNoSid ==
  /\ adapterOwner = "free" /\ resets < MaxResets
  /\ resets' = resets + 1
  /\ IF ~resolved /\ mapped # {}
       THEN /\ key' = InitFastEcm /\ ecmPid' = FALSE /\ mapped' = {}
       ELSE UNCHANGED <<key, ecmPid, mapped>>
  /\ UNCHANGED <<cw, resolved, flags, rx, cpc, stream, ecm, sent, now, listed,
                 done, saw>>

\* OSCam's ECM_INFO tells the CAID and pid of the service's ECMs
\* (UpdateEcmInfo); a new CA_PMT replaces the entry that has them.
CapmtChanges ==
  /\ listed' = ~listed
  /\ UNCHANGED <<keyvars, flags, rx, cpc, stream, ecm, sent, now, resets, done,
                 saw>>

(* The stream (external), seen by the receive thread outside of Decrypt.   *)

\* The ECM of the present or of the next period.
EcmPasses ==
  /\ rx.pc = "idle" /\ ecm <= stream
  /\ ecm' = ecm + 1
  /\ UNCHANGED <<keyvars, flags, rx, cpc, stream, sent, now, listed, resets,
                 done, saw>>

PeriodEnds ==
  /\ rx.pc = "idle" /\ stream < MaxPeriod
  /\ stream' = stream + 1
  /\ UNCHANGED <<keyvars, flags, rx, cpc, ecm, sent, now, listed, resets,
                 done, saw>>
-----------------------------------------------------------------------------
DecryptStep == WaitBegins \/ WakesAborted \/ Wakes \/ Decrypts

CancelStep(c) == CancelAborts(c) \/ CancelReturns(c)

Next ==
  \/ \E pid \in Pids : DecryptChecks(pid) \/ SetCaPid(pid)
  \/ DecryptStep
  \/ \E c \in Cancellers : CancelSees(c) \/ CancelStep(c)
  \/ SetDVBAPIPid \/ CapmtChanges
  \/ \E n \in 1 .. MaxPeriod : SetDescr(n)
  \/ \E delete \in BOOLEAN : Init_Parity(delete)
  \/ Init_ParityOfNoSid \/ EcmPasses \/ PeriodEnds

Spec == Init /\ [][Next]_vars

(* The threads keep running; a canceller that waits for mutexStopDecrypt   *)
(* gets it some day if it keeps becoming free.                             *)
Fairness ==
  /\ SF_vars(DecryptStep)
  /\ \A c \in Cancellers : SF_vars(CancelStep(c))

FairSpec == Spec /\ Fairness
-----------------------------------------------------------------------------
TypeOK ==
  /\ key \in FastEcmKey /\ cw \in [Parity -> Nat]
  /\ resolved \in BOOLEAN /\ ecmPid \in BOOLEAN /\ listed \in BOOLEAN
  /\ mapped \subseteq Pids
  /\ adapterOwner \in {"free", "receiver"} /\ stopOwner \in {"free", "receiver"}
  /\ waiting \in BOOLEAN /\ abort \in BOOLEAN
  /\ rx \in [pc : {"idle", "flagged", "asleep", "decrypting"},
             pid : Pids \cup {0}, period : Nat, how : Verdicts,
             apart : BOOLEAN, sleeps : Nat]
  /\ cpc \in [Cancellers -> {"idle", "saw", "aborting"}]
  /\ stream \in Nat \ {0} /\ ecm \in Nat /\ sent \in Nat /\ now \in Nat \ {0}
  /\ resets \in Nat
  /\ done \in [Pids -> [period : Nat, right : BOOLEAN, how : Verdicts]]
  /\ saw \subseteq Cancellers

(***************************************************************************)
(* An abort never outlives the CancelWait that asked for it: with nobody   *)
(* in CancelWait, a later wait of Decrypt is not cut short.                *)
(***************************************************************************)
NoAbortLeaks == abort => \E c \in Cancellers : cpc[c] = "aborting"

(***************************************************************************)
(* Fast ECM holds the stream until the CW arrives (README section 8):      *)
(* after packets of a pid were decrypted with their CW, the next packets   *)
(* of that pid, of the same or of the following crypto period, are         *)
(* decrypted with their CW too, or after the wait ran into its timeout.    *)
(* Excluded is what the code lets pass: before both CWs are there, and     *)
(* while the two newest CWs are less than 500 ms apart ("patched").        *)
(***************************************************************************)
HeldUntilCwArrives ==
  [][\A pid \in Pids :
       /\ rx.pc = "decrypting" /\ rx.pid = pid /\ rx' = NoCall
       /\ done[pid].right /\ done[pid].how \in {"first", "same", "next"}
       /\ done'[pid].period \in {done[pid].period, done[pid].period + 1}
       /\ rx.how \in {"same", "next"} /\ rx.apart
       => done'[pid].right]_vars

(***************************************************************************)
(* Every call of Decrypt returns, although OSCam may never send the CW it  *)
(* waits for: VDR's receive thread is held for a bounded time only.        *)
(***************************************************************************)
DecryptReturns == rx.pc # "idle" ~> rx.pc = "idle"

(***************************************************************************)
(* Every CancelWait returns, although it waits for the mutex that Decrypt  *)
(* holds throughout its waits.                                             *)
(***************************************************************************)
CancelWaitReturns ==
  \A c \in Cancellers : cpc[c] = "saw" ~> cpc[c] = "idle"

(***************************************************************************)
(* A wait that is asleep when CancelWait finds it is over once CancelWait  *)
(* reports "decsa CW Waiting Aborted" (DeCSA.cpp:553), whichever of two    *)
(* cancellers takes the abort back first.  Excluded is a wait that has set *)
(* bCW_Waiting and not yet taken mutexStopDecrypt (1280-1281): it misses   *)
(* the abort and goes on.                                                  *)
(***************************************************************************)
CancelEndsWait ==
  [][\A c \in Cancellers :
       cpc[c] = "aborting" /\ cpc'[c] = "idle" /\ c \in saw
         => rx.pc \notin {"flagged", "asleep"}]_vars

(***************************************************************************)
(* When VDR stops a service, none of its pids stays mapped: "a stale       *)
(* mapping would decrypt it with another service's key once that index is  *)
(* reused" (DeCSA.cpp:823), and Init_Parity loops to erase them all.       *)
(***************************************************************************)
StopUnmapsService ==
  [][resets' > resets /\ resolved /\ ~resolved' /\ mapped' # mapped
       => mapped' = {}]_vars
=============================================================================
