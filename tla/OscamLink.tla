----------------------------- MODULE OscamLink -----------------------------
(***************************************************************************)
(* The link to OSCam and everything that writes to it:                     *)
(*                                                                         *)
(*  - the socket thread (SocketHandler::Action), which opens and closes    *)
(*    the connection, reads OSCam's messages and sends the client info and *)
(*    the service list after a connect;                                    *)
(*  - one CI thread per adapter, which changes the service list            *)
(*    (CAPMT::ProcessSIDRequest) and sends it again;                       *)
(*  - one receive thread per adapter, which sends the sections that match  *)
(*    OSCam's filters (cDvbapiFilter::Analyze);                            *)
(*  - OSCam itself (external), as the reader of what was sent.             *)
(*                                                                         *)
(* Three mutexes order them: CAPMT::mutex, cDvbapiFilter::mutex and        *)
(* SocketHandler::mutex.  A message is written in two parts, so that the   *)
(* steps of other threads, and a failure, may fall between them.  A file   *)
(* descriptor is never used twice here, so that a write to a descriptor    *)
(* that was closed, and maybe reused, shows.                               *)
(***************************************************************************)
EXTENDS CaPmt

CONSTANTS
  FilterNums,   \* the demux filters OSCam may set on an adapter
  MaxRequests,  \* bound: how many CA_PMT requests VDR sends
  MaxSessions,  \* bound: the connection that OSCam does not lose any more
  MaxSections,  \* bound: how many sections the receive threads deliver
  MaxWire       \* bound: the parts of messages the socket buffers hold

ASSUME BoundsAssumption ==
  /\ MaxRequests \in Nat /\ MaxSessions \in Nat \ {0}
  /\ MaxSections \in Nat /\ MaxWire \in Nat \ {0}

VARIABLES
  pmt,          \* CAPMT::pmt
  sock,         \* SocketHandler::sock; 0 stands for -1
  faulted,      \* faults > 0 in Action()
  timedOut,     \* checkTimer.TimedOut()
  filters,      \* for each filter the session that set it; 0: not set
  pmtOwner,     \* the thread that holds CAPMT::mutex, or Free
  sockOwner,    \* the thread that holds SocketHandler::mutex, or Free
  filterOwner,  \* the thread that holds cDvbapiFilter::mutex, or Free
  pc,           \* what each thread is doing
  msg,          \* the message each thread is in Write() with, or NoMsg
  part,         \* the part of it that is sent next; 0: mutex not yet taken
  fd,           \* the descriptor a Write() or CloseConnection() took from sock
  pos,          \* SendAll's iterator
  todo,         \* the filters a receive thread has still to serve
  openFds,      \* the descriptors the kernel has open
  link,         \* the state of the connection
  wire,         \* the parts sent and not yet read by OSCam
  oscam,        \* what OSCam made of the parts it read
  oscamUp,      \* whether OSCam accepts connections
  asked,        \* history: every list the plugin asked for
  sessions,     \* history: how many connections were opened
  requests, sections   \* history: for the bounds

locks  == <<pmtOwner, sockOwner, filterOwner>>
calls  == <<pc, msg, part, fd, pos, todo>>
state  == <<pmt, sock, faulted, timedOut, filters>>
kernel == <<openFds, link, wire>>
peer   == <<oscam, oscamUp>>
ghosts == <<asked, sessions, requests, sections>>
vars   == <<locks, calls, state, kernel, peer, ghosts>>
-----------------------------------------------------------------------------
Free     == <<"free", 0>>
Sock     == <<"socket", 0>>
CI       == {"ci"} \X Adapters
Receiver == {"receiver"} \X Adapters
Thread   == {Sock} \cup CI \cup Receiver
Filters  == Adapters \X FilterNums

(* The messages.  "ver" is history: the index in asked of the list that a  *)
(* CA_PMT or stop message stands for.                                      *)
NoMsg       == [kind |-> "none"]
ClientInfo  == [kind |-> "CLIENT_INFO"]
Stop(v)     == [kind |-> "STOP_DESCRAMBLING", ver |-> v]
CaPmtMsg(first, last, obj, v) ==
  [kind |-> "CA_PMT", first |-> first, last |-> last, obj |-> obj, ver |-> v]
FilterData(f, s) == [kind |-> "FILTER_DATA", filter |-> f, session |-> s]

Message ==
  {ClientInfo} \cup [kind : {"STOP_DESCRAMBLING"}, ver : Nat \ {0}]
  \cup [kind : {"CA_PMT"}, first : BOOLEAN, last : BOOLEAN, obj : PmtObj,
        ver : Nat \ {0}]
  \cup [kind : {"FILTER_DATA"}, filter : Filters, session : Nat]

Part == [msg : Message, part : {1, 2}]

\* OSCam at the start of a connection.  "seen" is history and outlives it.
Fresh(seen) == [greeted |-> FALSE, rx |-> NoMsg,
                open |-> "no", list |-> <<>>, have |-> <<>>, whole |-> FALSE,
                seen |-> seen]

Init ==
  /\ pmt = <<>> /\ sock = 0 /\ faulted = FALSE /\ timedOut = FALSE
  /\ filters = [f \in Filters |-> 0]
  /\ pmtOwner = Free /\ sockOwner = Free /\ filterOwner = Free
  /\ pc = [t \in Thread |-> "idle"] /\ msg = [t \in Thread |-> NoMsg]
  /\ part = [t \in Thread |-> 0] /\ fd = [t \in Thread |-> 0]
  /\ pos = [t \in Thread |-> 0] /\ todo = [t \in Thread |-> {}]
  /\ openFds = {} /\ link = "none" /\ wire = <<>>
  /\ oscam = Fresh(1) /\ oscamUp = TRUE
  /\ asked = << <<>> >> /\ sessions = 0 /\ requests = 0 /\ sections = 0
-----------------------------------------------------------------------------
(* SocketHandler::Write, called by thread t with msg[t].                   *)

\* Not connected: the message is dropped.
WriteDrops(t) ==
  /\ msg[t] # NoMsg /\ part[t] = 0
  /\ sockOwner = Free /\ sock = 0
  /\ msg' = [msg EXCEPT ![t] = NoMsg]
  /\ UNCHANGED <<locks, pc, part, fd, pos, todo, state, kernel, peer, ghosts>>

WriteStarts_Unlocked(t) ==
  /\ msg[t] # NoMsg /\ part[t] = 0 /\ sock # 0
  /\ sockOwner' = t
  /\ fd' = [fd EXCEPT ![t] = sock] /\ part' = [part EXCEPT ![t] = 1]
  /\ UNCHANGED <<pmtOwner, filterOwner, pc, msg, pos, todo, state, kernel,
                 peer, ghosts>>

WriteStarts(t) ==
  /\ msg[t] # NoMsg /\ part[t] = 0
  /\ sockOwner = Free /\ sock # 0
  /\ sockOwner' = t
  /\ fd' = [fd EXCEPT ![t] = sock] /\ part' = [part EXCEPT ![t] = 1]
  /\ UNCHANGED <<pmtOwner, filterOwner, pc, msg, pos, todo, state, kernel,
                 peer, ghosts>>

\* The thread leaves Write(): the mutex is released.
WriteReturns(t) ==
  /\ msg' = [msg EXCEPT ![t] = NoMsg] /\ part' = [part EXCEPT ![t] = 0]
  /\ fd' = [fd EXCEPT ![t] = 0] /\ sockOwner' = Free

\* send() takes bytes while the buffers have room.  On a connection OSCam has
\* left it may still take them, and they are lost.
SendsPart(t) ==
  /\ part[t] # 0
  /\ \/ /\ link = "up" /\ Len(wire) < MaxWire
        /\ wire' = Append(wire, [msg |-> msg[t], part |-> part[t]])
     \/ link = "lost" /\ wire' = wire
  /\ \/ part[t] = 1 /\ part' = [part EXCEPT ![t] = 2]
                   /\ UNCHANGED <<msg, fd, sockOwner>>
     \/ part[t] = 2 /\ WriteReturns(t)
  /\ UNCHANGED <<pmtOwner, filterOwner, pc, pos, todo, state, openFds, link,
                 peer, ghosts>>

\* A failed send() shuts the connection down, which wakes the socket thread.
SendFails_StopsFilters(t) ==
  /\ part[t] # 0 /\ link \in {"lost", "shut"} /\ filterOwner \in {Free, t}
  /\ link' = "shut" /\ filters' = [f \in Filters |-> 0]
  /\ WriteReturns(t)
  /\ UNCHANGED <<pmtOwner, filterOwner, pc, pos, todo, pmt, sock, faulted,
                 timedOut, openFds, wire, peer, ghosts>>

SendFails(t) ==
  /\ part[t] # 0 /\ link \in {"lost", "shut"}
  /\ link' = "shut"
  /\ WriteReturns(t)
  /\ UNCHANGED <<pmtOwner, filterOwner, pc, pos, todo, state, openFds, wire,
                 peer, ghosts>>
-----------------------------------------------------------------------------
(* CAPMT::SendAll: the thread holds CAPMT::mutex while it sends the list.  *)

SendNext(t) ==
  /\ pc[t] = "sending" /\ msg[t] = NoMsg
  /\ \/ /\ pmt = <<>> /\ pos[t] = 1
        /\ msg' = [msg EXCEPT ![t] = Stop(Len(asked))]
     \/ /\ pos[t] \in DOMAIN pmt
        /\ msg' = [msg EXCEPT ![t] = CaPmtMsg(pos[t] = 1, pos[t] = Len(pmt),
                                              pmt[pos[t]], Len(asked))]
  /\ pos' = [pos EXCEPT ![t] = @ + 1]
  /\ UNCHANGED <<locks, pc, part, fd, todo, state, kernel, peer, ghosts>>

\* Action() sets its timer after the SendAll that follows a connect.
SendAllReturns(t) ==
  /\ pc[t] = "sending" /\ msg[t] = NoMsg
  /\ pos[t] > 1 /\ pos[t] > Len(pmt)
  /\ pc' = [pc EXCEPT ![t] = "idle"] /\ pos' = [pos EXCEPT ![t] = 0]
  /\ pmtOwner' = Free
  /\ timedOut' = (timedOut /\ t # Sock)
  /\ UNCHANGED <<sockOwner, filterOwner, msg, part, fd, todo, pmt, sock,
                 faulted, filters, kernel, peer, ghosts>>

(* CAPMT::ProcessSIDRequest on the CI thread of an adapter.                *)

SIDRequest_Unlocked(t) ==
  /\ pc[t] = "idle" /\ requests < MaxRequests
  /\ requests' = requests + 1
  /\ \E r \in Request :
       /\ r.adapter = t[2]
       /\ pmt' = Updated(pmt, r)
       /\ IF Resends(pmt, r)
            THEN /\ pmtOwner' = t /\ asked' = Append(asked, pmt')
                 /\ pc' = [pc EXCEPT ![t] = "sending"]
                 /\ pos' = [pos EXCEPT ![t] = 1]
            ELSE UNCHANGED <<pmtOwner, asked, pc, pos>>
  /\ UNCHANGED <<sockOwner, filterOwner, msg, part, fd, todo, sock, faulted,
                 timedOut, filters, kernel, peer, sessions, sections>>

SIDRequest(t) ==
  /\ pc[t] = "idle" /\ requests < MaxRequests
  /\ pmtOwner = Free
  /\ requests' = requests + 1
  /\ \E r \in Request :
       /\ r.adapter = t[2]
       /\ pmt' = Updated(pmt, r)
       /\ IF Resends(pmt, r)
            THEN /\ pmtOwner' = t /\ asked' = Append(asked, pmt')
                 /\ pc' = [pc EXCEPT ![t] = "sending"]
                 /\ pos' = [pos EXCEPT ![t] = 1]
            ELSE UNCHANGED <<pmtOwner, asked, pc, pos>>
  /\ UNCHANGED <<sockOwner, filterOwner, msg, part, fd, todo, sock, faulted,
                 timedOut, filters, kernel, peer, sessions, sections>>
-----------------------------------------------------------------------------
(* The socket thread, not connected: SocketHandler::Action, OpenConnection *)

ReconnectDue == pmtOwner = Free /\ pmt # <<>> /\ (~faulted \/ timedOut)

Reconnects ==
  /\ pc[Sock] = "idle" /\ sock = 0 /\ ReconnectDue
  /\ pc' = [pc EXCEPT ![Sock] = "opening"]
  /\ UNCHANGED <<locks, msg, part, fd, pos, todo, state, kernel, peer, ghosts>>

\* The mutex is held while the name is looked up and the connection made.
OpenStarts ==
  /\ pc[Sock] = "opening" /\ sockOwner = Free
  /\ sockOwner' = Sock
  /\ pc' = [pc EXCEPT ![Sock] = "connecting"]
  /\ UNCHANGED <<pmtOwner, filterOwner, msg, part, fd, pos, todo, state, kernel,
                 peer, ghosts>>

OpenSucceeds ==
  /\ pc[Sock] = "connecting" /\ oscamUp
  /\ sessions' = sessions + 1 /\ sock' = sessions + 1
  /\ openFds' = openFds \cup {sessions + 1} /\ link' = "up" /\ wire' = <<>>
  /\ sockOwner' = Free /\ faulted' = FALSE
  /\ pc' = [pc EXCEPT ![Sock] = "greeting"]
  /\ msg' = [msg EXCEPT ![Sock] = ClientInfo]
  /\ UNCHANGED <<pmtOwner, filterOwner, part, fd, pos, todo, pmt, timedOut,
                 filters, peer, asked, requests, sections>>

OpenFails ==
  /\ pc[Sock] = "connecting" /\ ~oscamUp
  /\ sockOwner' = Free /\ faulted' = TRUE /\ timedOut' = FALSE
  /\ pc' = [pc EXCEPT ![Sock] = "idle"]
  /\ UNCHANGED <<pmtOwner, filterOwner, msg, part, fd, pos, todo, pmt, sock,
                 filters, kernel, peer, ghosts>>

TimerExpires ==
  /\ faulted /\ ~timedOut /\ timedOut' = TRUE
  /\ UNCHANGED <<locks, calls, pmt, sock, faulted, filters, kernel, peer, ghosts>>

\* After SendClientInfo: capmt->SendAll().
Resyncs_Skipped ==
  /\ pc[Sock] = "greeting" /\ msg[Sock] = NoMsg
  /\ pc' = [pc EXCEPT ![Sock] = "idle"]
  /\ UNCHANGED <<locks, msg, part, fd, pos, todo, state, kernel, peer, ghosts>>

Resyncs ==
  /\ pc[Sock] = "greeting" /\ msg[Sock] = NoMsg /\ pmtOwner = Free
  /\ pmtOwner' = Sock
  /\ pc' = [pc EXCEPT ![Sock] = "sending"] /\ pos' = [pos EXCEPT ![Sock] = 1]
  /\ UNCHANGED <<sockOwner, filterOwner, msg, part, fd, todo, state, kernel,
                 peer, ghosts>>

(* The socket thread, connected.                                           *)

\* DMX_SET_FILTER sets or updates a filter, DMX_STOP removes it.  They may be
\* read after OSCam is gone already.
HearsFilter ==
  /\ pc[Sock] = "idle" /\ sock # 0
  /\ filterOwner = Free
  /\ \E f \in Filters, s \in {0, sock} : filters' = [filters EXCEPT ![f] = s]
  /\ UNCHANGED <<locks, calls, pmt, sock, faulted, timedOut, kernel, peer, ghosts>>

\* The end of the stream, or a message that is incomplete or unknown: Action()
\* calls CloseConnection().
HearsEnd ==
  /\ pc[Sock] = "idle" /\ sock # 0
  /\ link # "up" \/ sessions < MaxSessions
  /\ pc' = [pc EXCEPT ![Sock] = "closing"]
  /\ UNCHANGED <<locks, msg, part, fd, pos, todo, state, kernel, peer, ghosts>>

(* SocketHandler::CloseConnection.                                         *)

CloseTakesFd_Unlocked ==
  /\ pc[Sock] = "closing"
  /\ fd' = [fd EXCEPT ![Sock] = sock] /\ sock' = 0
  /\ pc' = [pc EXCEPT ![Sock] = "closed"]
  /\ UNCHANGED <<locks, msg, part, pos, todo, pmt, faulted, timedOut, filters,
                 kernel, peer, ghosts>>

CloseTakesFd ==
  /\ pc[Sock] = "closing" /\ sockOwner = Free
  /\ fd' = [fd EXCEPT ![Sock] = sock] /\ sock' = 0
  /\ pc' = [pc EXCEPT ![Sock] = "closed"]
  /\ UNCHANGED <<locks, msg, part, pos, todo, pmt, faulted, timedOut, filters,
                 kernel, peer, ghosts>>

\* close(): what OSCam did not read is lost, and it ends the session.
ClosesFd ==
  /\ pc[Sock] = "closed"
  /\ openFds' = openFds \ {fd[Sock]} /\ fd' = [fd EXCEPT ![Sock] = 0]
  /\ link' = "none" /\ wire' = <<>> /\ oscam' = Fresh(oscam.seen)
  /\ pc' = [pc EXCEPT ![Sock] = "unfilter"]
  /\ UNCHANGED <<locks, msg, part, pos, todo, state, oscamUp, ghosts>>

StopsAllFilters_Forgotten ==
  /\ pc[Sock] = "unfilter" /\ filterOwner = Free
  /\ pc' = [pc EXCEPT ![Sock] = "idle"]
  /\ UNCHANGED <<locks, msg, part, fd, pos, todo, state, kernel, peer, ghosts>>

StopsAllFilters ==
  /\ pc[Sock] = "unfilter" /\ filterOwner = Free
  /\ filters' = [f \in Filters |-> 0]
  /\ pc' = [pc EXCEPT ![Sock] = "idle"]
  /\ UNCHANGED <<locks, msg, part, fd, pos, todo, pmt, sock, faulted, timedOut,
                 kernel, peer, ghosts>>
-----------------------------------------------------------------------------
(* A receive thread: cDvbapiFilter::Analyze completes a section and        *)
(* Deliver sends it to each filter of its pid that it matches.             *)

SectionComplete(t) ==
  /\ pc[t] = "idle" /\ filterOwner = Free /\ sections < MaxSections
  /\ \E S \in SUBSET {f \in Filters : f[1] = t[2] /\ filters[f] # 0} :
       S # {} /\ todo' = [todo EXCEPT ![t] = S]
  /\ filterOwner' = t /\ sections' = sections + 1
  /\ pc' = [pc EXCEPT ![t] = "delivering"]
  /\ UNCHANGED <<pmtOwner, sockOwner, msg, part, fd, pos, state, kernel, peer,
                 asked, sessions, requests>>

\* SetECM asks CAPMT for the CAID first, under its mutex.
DeliverNext(t) ==
  /\ pc[t] = "delivering" /\ msg[t] = NoMsg /\ pmtOwner = Free
  /\ \E f \in todo[t] :
       /\ todo' = [todo EXCEPT ![t] = @ \ {f}]
       /\ msg' = [msg EXCEPT ![t] = FilterData(f, filters[f])]
  /\ UNCHANGED <<locks, pc, part, fd, pos, state, kernel, peer, ghosts>>

DeliverReturns(t) ==
  /\ pc[t] = "delivering" /\ msg[t] = NoMsg /\ todo[t] = {}
  /\ filterOwner' = Free
  /\ pc' = [pc EXCEPT ![t] = "idle"]
  /\ UNCHANGED <<pmtOwner, sockOwner, msg, part, fd, pos, todo, state, kernel,
                 peer, ghosts>>
-----------------------------------------------------------------------------
(* OSCam (external): it reads the stream and keeps the list of services    *)
(* that list management builds.                                            *)

\* A list starts with FIRST; without it, it is the tail of a list.
Started(m) ==
  IF m.first THEN "whole" ELSE IF oscam.open = "no" THEN "tail" ELSE oscam.open

Applied(m) ==
  CASE m.kind = "CLIENT_INFO" -> [oscam EXCEPT !.greeted = TRUE, !.rx = NoMsg]
    [] m.kind = "STOP_DESCRAMBLING" ->
         [oscam EXCEPT !.rx = NoMsg, !.open = "no", !.list = <<>>,
                       !.have = <<>>, !.whole = TRUE, !.seen = m.ver]
    [] m.kind = "CA_PMT" ->
         LET list == Append(IF m.first THEN <<>> ELSE oscam.list, m.obj)
         IN  IF m.last
               THEN [oscam EXCEPT !.rx = NoMsg, !.open = "no", !.list = <<>>,
                       !.have = list, !.whole = @ \/ Started(m) = "whole",
                       !.seen = m.ver]
               ELSE [oscam EXCEPT !.rx = NoMsg, !.open = Started(m),
                       !.list = list]
    [] OTHER -> [oscam EXCEPT !.rx = NoMsg]

OscamReads ==
  /\ wire # <<>> /\ link \in {"up", "shut"}
  /\ oscam' = IF Head(wire).part = 1
                THEN [oscam EXCEPT !.rx = Head(wire).msg]
                ELSE Applied(Head(wire).msg)
  /\ wire' = Tail(wire)
  /\ UNCHANGED <<locks, calls, state, openFds, link, oscamUp, ghosts>>

\* OSCam drops the connection, or stops, or stops while it has none.
OscamDrops ==
  /\ sessions < MaxSessions
  /\ link' = (IF link = "up" THEN "lost" ELSE link) /\ wire' = <<>>
  /\ oscam' = Fresh(oscam.seen)
  /\ oscamUp' \in BOOLEAN
  /\ UNCHANGED <<locks, calls, state, openFds, ghosts>>

OscamStarts ==
  /\ ~oscamUp /\ oscamUp' = TRUE
  /\ UNCHANGED <<locks, calls, state, kernel, oscam, ghosts>>
-----------------------------------------------------------------------------
WriteStep(t) ==
  WriteDrops(t) \/ WriteStarts(t) \/ SendsPart(t) \/ SendFails(t)

SendAllStep(t) == SendNext(t) \/ SendAllReturns(t)

SocketStep ==
  \/ Reconnects \/ OpenStarts \/ OpenSucceeds \/ OpenFails \/ Resyncs
  \/ CloseTakesFd \/ ClosesFd \/ StopsAllFilters

Next ==
  \/ \E t \in Thread : WriteStep(t)
  \/ \E t \in CI \cup {Sock} : SendAllStep(t)
  \/ \E t \in CI : SIDRequest(t)
  \/ \E t \in Receiver : SectionComplete(t) \/ DeliverNext(t) \/ DeliverReturns(t)
  \/ SocketStep \/ TimerExpires \/ HearsFilter \/ HearsEnd
  \/ OscamReads \/ OscamDrops \/ OscamStarts

Spec == Init /\ [][Next]_vars

(* Every thread keeps running.  The mutexes are pthread mutexes: a thread  *)
(* that waits for one gets it some day if it keeps becoming free.  OSCam   *)
(* reads what it gets.                                                     *)
ThreadStep(t) ==
  \/ WriteStep(t)
  \/ t \in CI \cup {Sock} /\ SendAllStep(t)
  \/ t \in Receiver /\ (DeliverNext(t) \/ DeliverReturns(t))
  \/ t = Sock /\ (SocketStep \/ (HearsEnd /\ link # "up"))

Fairness ==
  /\ \A t \in Thread : SF_vars(ThreadStep(t))
  /\ WF_vars(TimerExpires) /\ WF_vars(OscamReads)

FairSpec == Spec /\ Fairness
-----------------------------------------------------------------------------
PC == {"idle", "sending", "opening", "connecting", "greeting", "closing",
       "closed", "unfilter", "delivering"}

Session == [greeted : BOOLEAN, rx : Message \cup {NoMsg},
            open : {"no", "whole", "tail"}, list : Seq(PmtObj),
            have : Seq(PmtObj), whole : BOOLEAN, seen : Nat \ {0}]

TypeOK ==
  /\ pmt \in Seq(PmtObj) /\ sock \in Nat
  /\ faulted \in BOOLEAN /\ timedOut \in BOOLEAN
  /\ filters \in [Filters -> Nat]
  /\ pmtOwner \in {Free, Sock} \cup CI
  /\ sockOwner \in {Free} \cup Thread
  /\ filterOwner \in {Free} \cup Receiver
  /\ pc \in [Thread -> PC] /\ msg \in [Thread -> Message \cup {NoMsg}]
  /\ part \in [Thread -> 0 .. 2] /\ fd \in [Thread -> Nat]
  /\ pos \in [Thread -> Nat] /\ todo \in [Thread -> SUBSET Filters]
  /\ openFds \subseteq Nat /\ link \in {"none", "up", "lost", "shut"}
  /\ wire \in Seq(Part)
  /\ oscam \in Session
  /\ oscamUp \in BOOLEAN
  /\ asked \in Seq(Seq(PmtObj)) /\ asked # <<>> /\ sessions \in Nat
  /\ requests \in Nat /\ sections \in Nat

(***************************************************************************)
(* A thread inside send() has the descriptor of the current connection,    *)
(* and it is open: CloseConnection takes the descriptor under the mutex,   *)
(* "so that a Write() on another thread never uses the fd after it was     *)
(* closed (or reused)" (SocketHandler.cpp:102).                            *)
(***************************************************************************)
SendsOnOpenSocket ==
  \A t \in Thread : part[t] # 0 => fd[t] = sock /\ sock \in openFds

(***************************************************************************)
(* Messages of several threads never mix in the stream: "a message must go *)
(* out whole before the next one starts" (SocketHandler.cpp:119).          *)
(***************************************************************************)
Rest(m) == [msg |-> m, part |-> 2]

MessagesWhole ==
  /\ wire # <<>> =>
       IF oscam.rx = NoMsg THEN wire[1].part = 1 ELSE wire[1] = Rest(oscam.rx)
  /\ \A i \in 1 .. Len(wire) - 1 :
       IF wire[i].part = 1 THEN wire[i + 1] = Rest(wire[i].msg)
                           ELSE wire[i + 1].part = 1

(* What makes the two invariants above inductive: who may hold the socket  *)
(* mutex when, and how the last part sent relates to the thread that is    *)
(* sending.                                                                *)
SocketMutexInv ==
  /\ \A t \in Thread :
       part[t] # 0 => sockOwner = t /\ msg[t] # NoMsg /\ fd[t] = sock /\ sock # 0
  /\ pc[Sock] = "connecting" => sockOwner = Sock
  /\ msg[Sock] # NoMsg => pc[Sock] \in {"greeting", "sending"}
  /\ sock # 0 => sock \in openFds
  /\ pc[Sock] \in {"opening", "connecting", "closed", "unfilter"} => sock = 0
  /\ sock = 0 /\ pc[Sock] # "closed" => link = "none"

LastSent ==
  IF wire # <<>> THEN wire[Len(wire)]
  ELSE IF oscam.rx # NoMsg THEN [msg |-> oscam.rx, part |-> 1] ELSE Rest(NoMsg)

StreamInv ==
  /\ MessagesWhole
  /\ link \in {"none", "lost"} => wire = <<>> /\ oscam.rx = NoMsg
  /\ link = "up" =>
       IF LastSent.part = 1
         THEN \E t \in Thread : part[t] = 2 /\ msg[t] = LastSent.msg
         ELSE \A t \in Thread : part[t] # 2

(***************************************************************************)
(* A connection carries only sections for filters that OSCam set on that   *)
(* connection, whatever the receive threads were doing when the last one   *)
(* was lost: filter numbers mean something else to a restarted OSCam.      *)
(***************************************************************************)
FilterDataOfThisSession ==
  \A i \in DOMAIN wire :
    wire[i].msg.kind = "FILTER_DATA" => wire[i].msg.session = sessions

(* No service is on the list twice (see CaPmt).                            *)
NoServiceTwice == UniqueServices(pmt)

(***************************************************************************)
(* OSCam's list only moves forward through the lists the plugin asked for, *)
(* whole once it got a whole one: the link implements ServiceList.         *)
(***************************************************************************)
SL == INSTANCE ServiceList
        WITH Lists <- Seq(PmtObj), have <- oscam.have, seen <- oscam.seen,
             whole <- oscam.whole

ImplementsServiceList == SL!Spec

(***************************************************************************)
(* Whatever is lost on the way, OSCam ends with the list the plugin wants: *)
(* a dropped message, a failed write or a restart of OSCam in the middle   *)
(* of a list is made good by the reconnect and its SendAll.  OSCam has to  *)
(* stay up from some time on; it may go away as often as MaxSessions says. *)
(***************************************************************************)
Converges ==
  <>[]oscamUp => <>[](oscam.have = pmt /\ (pmt # <<>> => oscam.greeted))

(***************************************************************************)
(* No thread waits for ever in a mutex or a send(): whatever the threads   *)
(* hold when the connection breaks, each gets back to its loop.            *)
(***************************************************************************)
ThreadsReturn == \A t \in Thread : []<>(pc[t] = "idle")
=============================================================================
