------------------------------ MODULE CiAdapter ------------------------------
(***************************************************************************)
(* The CI adapter and its CAM slots: how VDR learns that a slot is there,  *)
(* opens a transport connection to it, sends it CA_PMTs and fetches its    *)
(* answers.  SCCIAdapter::Read, Write and ModuleStatus are one step each:  *)
(* they hold ciMutex.                                                      *)
(*                                                                         *)
(* A slot puts its answers into its ring buffer (Frame); VDR learns of     *)
(* them from the SB bit of what it reads and fetches them with T_RCV.      *)
(* There is one slot per card (Adapters).  A service has one pid here; see *)
(* CwWait for several.                                                     *)
(***************************************************************************)
EXTENDS CaPmt

CONSTANTS
  MaxRequests,  \* bound: the CA_PMTs VDR sends
  MaxRingEnds   \* bound: how often a frame falls on the end of a ring buffer

ASSUME CiAdapterAssumption == MaxRequests \in Nat /\ MaxRingEnds \in Nat

VARIABLES
  cam,          \* the state of each slot
  frames,       \* the ring buffer of each slot: its answers
  readFrames,   \* the ring buffer of the adapter: what VDR reads next
  pmt,          \* CAPMT::pmt
  mapped,       \* the services with their pid in AdapterPidMap
  known,        \* the services whose key has their sid (csaSid)
  vdr,          \* VDR's side of each slot
  requests, ringEnds   \* history: for the bounds

service == <<pmt, mapped, known>>
bounds  == <<requests, ringEnds>>
vars    == <<cam, frames, readFrames, service, vdr, bounds>>

\* ci_cmd; NoCmd (-1): the CA_PMT has neither descriptors nor command.
NoCmd == -1
OkDescrambling == 1
Query == 3
NotSelected == 4

NoSid == 0
Commands == {NoCmd, OkDescrambling, Query, NotSelected}
Services == Adapters \X Sids
Listed(svc) == \E i \in DOMAIN pmt : <<pmt[i].adapter, pmt[i].sid>> = svc

NoConnection == [status |-> "none", tc |-> "none", more |-> FALSE]

Init ==
  /\ cam = [s \in Adapters |-> [reset |-> TRUE, doReply |-> FALSE, version |-> 0]]
  /\ frames = [s \in Adapters |-> <<>>] /\ readFrames = <<>>
  /\ pmt = <<>> /\ mapped = {} /\ known = {}
  /\ vdr = [s \in Adapters |-> NoConnection]
  /\ requests = 0 /\ ringEnds = 0
-----------------------------------------------------------------------------
(* The status of a slot.                                                   *)

\* Check: the first one resets the slot, as doReply changes, and takes the
\* version of the adapter (1); VDR does not use the slot before (IsDecrypting).
Checked(c) ==
  [reset |-> c.reset \/ ~c.doReply, doReply |-> TRUE, version |-> 1]
Cleared(s) == ~cam[s].doReply

Status(c) ==
  IF c.reset THEN "reset" ELSE IF c.version # 0 THEN "ready" ELSE "present"

\* Status: the reset is reported once.
AfterStatus_KeepsReset(c) == IF Status(c) = "present" THEN Checked(c) ELSE c
AfterStatus(c) ==
  CASE Status(c) = "reset"   -> [c EXCEPT !.reset = FALSE]
    [] Status(c) = "present" -> Checked(c)
    [] Status(c) = "ready"   -> c

\* VDR (external) asks for it from time to time: it deletes its connection
\* when the module was reset and makes one when it has become ready.
Told(side, status) ==
  CASE status = side.status -> side
    [] status # side.status /\ status = "reset" -> [NoConnection EXCEPT !.status = status]
    [] status # side.status /\ status = "ready" ->
         [NoConnection EXCEPT !.status = status, !.tc = "wanted"]
    [] status # side.status /\ status = "present" -> [side EXCEPT !.status = status]

ModuleStatus(s) ==
  /\ vdr' = [vdr EXCEPT ![s] = Told(@, Status(cam[s]))]
  /\ cam' = [cam EXCEPT ![s] = AfterStatus(@)]
  /\ frames' = [frames EXCEPT ![s] =
                  IF Status(cam[s]) = "present" /\ Cleared(s) THEN <<>> ELSE @]
  /\ UNCHANGED <<readFrames, service, bounds>>
-----------------------------------------------------------------------------
(* SCCIAdapter::Write and Read.  A frame that falls on the end of a ring   *)
(* buffer is seen in part only, and Frame::Get clears the buffer.          *)

Sb_Swapped(rest) == rest = <<>>
Sb(rest) == rest # <<>>
Answered(s, data, rest) ==
  readFrames' = Append(readFrames, [slot |-> s, data |-> data, more |-> Sb(rest)])

RingEnds == ringEnds < MaxRingEnds /\ ringEnds' = ringEnds + 1

\* T_CREATE_TC: the slot asks for the CA support.
CreateTC(s) ==
  /\ vdr[s].tc = "wanted"
  /\ vdr' = [vdr EXCEPT ![s].tc = "creating"]
  /\ frames' = [frames EXCEPT ![s] = Append(@, "reqCAS")]
  /\ Answered(s, "created", frames'[s])
  /\ UNCHANGED <<cam, service, bounds>>

\* T_RCV, which is not answered when there is no frame.
Rcv(s) ==
  /\ vdr[s].tc = "active" /\ vdr[s].more
  /\ vdr' = [vdr EXCEPT ![s].more = FALSE]
  /\ \/ /\ frames[s] # <<>>
        /\ frames' = [frames EXCEPT ![s] = Tail(@)]
        /\ Answered(s, Head(frames[s]), frames'[s])
        /\ UNCHANGED ringEnds
     \/ /\ frames[s] # <<>> /\ RingEnds
        /\ frames' = [frames EXCEPT ![s] = <<>>]
        /\ UNCHANGED readFrames
     \/ frames[s] = <<>> /\ UNCHANGED <<frames, readFrames, ringEnds>>
  /\ UNCHANGED <<cam, service, requests>>

\* T_DATA_LAST: Process, which calls Check, then an answer with the SB bit.
DataLast(s, replies) ==
  /\ vdr[s].tc = "active"
  /\ cam' = [cam EXCEPT ![s] = Checked(@)]
  /\ frames' = [frames EXCEPT ![s] =
                  (IF Cleared(s) THEN <<>> ELSE @)
                  \o (IF cam[s].version = 0 THEN <<"CaInfo">> ELSE <<>>) \o replies]
  /\ Answered(s, "none", frames'[s])
  /\ UNCHANGED <<vdr, ringEnds>>

\* A poll, or the answer to reqCAS.  VDR sends T_RCV first.
Poll(s) ==
  /\ ~vdr[s].more
  /\ \A i \in DOMAIN readFrames : readFrames[i].slot # s
  /\ DataLast(s, <<>>)
  /\ UNCHANGED <<service, requests>>

CaInfoEnq(s) ==
  /\ frames[s] = <<>> /\ readFrames = <<>>
  /\ DataLast(s, <<"CaInfo">>)
  /\ UNCHANGED <<service, requests>>

\* Read, by VDR's CI thread, which takes the SB bit for its own.
VdrReads ==
  /\ readFrames # <<>>
  /\ LET frame == Head(readFrames)  s == frame.slot  side == vdr[s]
     IN  \/ /\ readFrames' = Tail(readFrames)
            /\ vdr' = [vdr EXCEPT ![s] =
                 IF side.tc = "creating" /\ frame.data = "created"
                   THEN [side EXCEPT !.tc = "active", !.more = frame.more]
                 ELSE IF side.tc = "active" THEN [side EXCEPT !.more = frame.more]
                 ELSE side]
            /\ UNCHANGED ringEnds
         \/ RingEnds /\ readFrames' = <<>> /\ UNCHANGED vdr
  /\ UNCHANGED <<cam, frames, service, requests>>

\* VDR (external) gets no answer and resets the slot.  SCCIAdapter::Reset does
\* nothing, so that the slot stays ready.
VdrGivesUp(s) ==
  /\ vdr[s].tc = "creating"
  /\ \A i \in DOMAIN readFrames : readFrames[i].slot # s
  /\ vdr' = [vdr EXCEPT ![s] = [NoConnection EXCEPT !.status = "reset"]]
  /\ UNCHANGED <<cam, frames, readFrames, service, bounds>>
-----------------------------------------------------------------------------
(* A CA_PMT: SCCAMSlot::Process, from AOT_CA_PMT on.                       *)

Replies(cmd, lm) ==
  IF cmd = Query \/ (cmd = OkDescrambling /\ lm = LIST_ONLY) THEN <<"reply">> ELSE <<>>

Stops(sid, lm, cmd) ==
  cmd = NotSelected \/ (cmd = NoCmd /\ sid = NoSid /\ lm = LIST_ONLY)
Starts(sid, lm, cmd) ==
  cmd = OkDescrambling \/ (cmd = NoCmd /\ sid # NoSid)

InitParity_KeepsSid(s, sid, delete) ==
  LET found == {svc \in mapped : svc[1] = s /\
                  IF sid = NoSid THEN svc \notin known
                                 ELSE svc \in known /\ svc[2] = sid}
  IN  /\ mapped' = IF delete THEN mapped \ found ELSE mapped
      /\ UNCHANGED known

\* Init_Parity: the pids of the keys with that sid, which is 0 in a key that
\* was reset or has never known its own.  Only a stop deletes them.
InitParity(s, sid, delete) ==
  LET found == {svc \in mapped : svc[1] = s /\
                  IF sid = NoSid THEN svc \notin known
                                 ELSE svc \in known /\ svc[2] = sid}
  IN  /\ known' = known \ found
      /\ mapped' = IF delete THEN mapped \ found ELSE mapped

SidRequest(s, sid, lm, data) ==
  pmt' = IF sid = NoSid THEN pmt
         ELSE Updated(pmt, [adapter |-> s, sid |-> sid, lm |-> lm, data |-> data])

\* What VDR may send: a command comes with descriptors, but for a query, and
\* sid 0 with neither.
CaPmtOfVdr(sid, lm, cmd) ==
  sid = NoSid => lm = LIST_ONLY /\ cmd = NoCmd

CaPmtArrives(s, sid, lm, cmd) ==
  /\ requests < MaxRequests /\ requests' = requests + 1
  /\ CaPmtOfVdr(sid, lm, cmd)
  /\ DataLast(s, Replies(cmd, lm))
  /\ \/ /\ Stops(sid, lm, cmd)
        /\ SidRequest(s, sid, lm, NoData) /\ InitParity(s, sid, TRUE)
     \/ /\ Starts(sid, lm, cmd)
        /\ InitParity(s, sid, FALSE)
        /\ \E data \in IF cmd = NoCmd THEN {NoData} ELSE Contents :
             SidRequest(s, sid, lm, data)
     \/ ~Stops(sid, lm, cmd) /\ ~Starts(sid, lm, cmd) /\ UNCHANGED service
-----------------------------------------------------------------------------
(* OSCam (external) gives a listed service a key, and takes it away after  *)
(* the service is gone; the key learns its sid when its CAID is looked up  *)
(* for Fast ECM.                                                           *)

OscamMaps(svc) ==
  /\ Listed(svc) /\ svc \notin mapped
  /\ mapped' = mapped \cup {svc}
  /\ UNCHANGED <<cam, frames, readFrames, pmt, known, vdr, bounds>>

OscamUnmaps(svc) ==
  /\ ~Listed(svc) /\ svc \in mapped
  /\ mapped' = mapped \ {svc} /\ known' = known \ {svc}
  /\ UNCHANGED <<cam, frames, readFrames, pmt, vdr, bounds>>

LearnsSid(svc) ==
  /\ svc \in mapped /\ Listed(svc) /\ svc \notin known
  /\ known' = known \cup {svc}
  /\ UNCHANGED <<cam, frames, readFrames, pmt, mapped, vdr, bounds>>
-----------------------------------------------------------------------------
CiThread(s) == CreateTC(s) \/ Rcv(s) \/ Poll(s) \/ VdrGivesUp(s)

Next ==
  \/ VdrReads
  \/ \E s \in Adapters :
       \/ ModuleStatus(s) \/ CiThread(s) \/ CaInfoEnq(s)
       \/ \E sid \in Sids \cup {NoSid}, cmd \in Commands,
            lm \in {LIST_ONLY, LIST_ADD, LIST_UPDATE} : CaPmtArrives(s, sid, lm, cmd)
  \/ \E svc \in Services : OscamMaps(svc) \/ OscamUnmaps(svc) \/ LearnsSid(svc)

Spec == Init /\ [][Next]_vars

(* VDR's CI thread goes on calling Read, ModuleStatus and Write.           *)
FairSpec ==
  /\ Spec /\ WF_vars(VdrReads)
  /\ \A s \in Adapters : WF_vars(ModuleStatus(s)) /\ WF_vars(CiThread(s))
-----------------------------------------------------------------------------
TypeOK ==
  /\ cam \in [Adapters -> [reset : BOOLEAN, doReply : BOOLEAN, version : {0, 1}]]
  /\ \A s \in Adapters : frames[s] \in Seq({"reqCAS", "CaInfo", "reply"})
  /\ \A i \in DOMAIN readFrames : readFrames[i].slot \in Adapters
  /\ pmt \in Seq(PmtObj) /\ mapped \subseteq Services /\ known \subseteq mapped
  /\ vdr \in [Adapters -> [status : {"none", "reset", "present", "ready"},
                           tc : {"none", "wanted", "creating", "active"},
                           more : BOOLEAN]]

(***************************************************************************)
(* Every slot comes up, through the two resets at its start, and again     *)
(* when its connection broke because a frame fell on the end of the ring   *)
(* buffer and was dropped with all others.                                 *)
(***************************************************************************)
SlotComesUp == \A s \in Adapters : []<>(vdr[s].tc = "active")

(***************************************************************************)
(* VDR asks for a slot's answers only when an SB bit tells it that there   *)
(* are any: none stays in the ring buffer for ever, although VDR sends     *)
(* CA_PMTs before it has fetched the answers to earlier ones.              *)
(***************************************************************************)
AnswersFetched == \A s \in Adapters : frames[s] # <<>> ~> frames[s] = <<>>

(***************************************************************************)
(* A CA_PMT for a service of one card leaves the services of the others,   *)
(* and other services of the same card, on the list and decrypted.         *)
(***************************************************************************)
OnlyItsService ==
  [][\A svc \in Services :
       Listed(svc) # Listed(svc)' =>
         \A other \in Services \ {svc} :
           Listed(other)' = Listed(other) /\ (other \in mapped) = (other \in mapped')]_vars
=============================================================================
