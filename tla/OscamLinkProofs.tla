-------------------------- MODULE OscamLinkProofs --------------------------
(* Theorems about OscamLink, for every number of adapters, services,       *)
(* filters and connections.                                                *)
EXTENDS OscamLink, NatRecursion

-----------------------------------------------------------------------------
(* What ProcessSIDRequest does to the service list, for every list.        *)

(* If the list has entries for the service, First picks one of them.       *)
LEMMA FirstPosition ==
  ASSUME NEW list \in Seq(PmtObj), NEW r \in Request, PositionsOf(list, r) # {}
  PROVE  First(PositionsOf(list, r)) \in PositionsOf(list, r)
<1> DEFINE P == PositionsOf(list, r)
<1>1. P \subseteq Nat
  BY DEF PositionsOf
<1>2. \E i \in P : \A j \in P : i <= j
  BY <1>1, LeastNumber
<1>. QED BY <1>2 DEF First

(* Erasing takes exactly one entry out, the one at First, and moves those  *)
(* behind it one place forward.                                            *)
LEMMA ErasedProperties ==
  ASSUME NEW list \in Seq(PmtObj), NEW r \in Request, PositionsOf(list, r) # {},
         NEW i, i = First(PositionsOf(list, r))
  PROVE  /\ i \in 1 .. Len(list)
         /\ list[i].sid = r.sid /\ list[i].adapter = r.adapter
         /\ Erased(list, r) \in Seq(PmtObj)
         /\ Len(Erased(list, r)) = Len(list) - 1
         /\ \A j \in 1 .. Len(list) - 1 :
              Erased(list, r)[j] = IF j < i THEN list[j] ELSE list[j + 1]
<1>1. i \in 1 .. Len(list) /\ list[i].sid = r.sid /\ list[i].adapter = r.adapter
  BY FirstPosition DEF PositionsOf
<1>2. Erased(list, r) = RemoveAt(list, i)
  BY DEF Erased, RemoveAt
<1>. QED BY <1>1, <1>2, RemovedElement

(* The list stays a list of services, whatever VDR asks for.               *)
LEMMA UpdatedType ==
  ASSUME NEW list \in Seq(PmtObj), NEW r \in Request
  PROVE  Updated(list, r) \in Seq(PmtObj)
<1>1. Erased(list, r) \in Seq(PmtObj)
  BY ErasedProperties DEF Erased
<1>2. Adds(r) => [sid |-> r.sid, adapter |-> r.adapter, data |-> r.data] \in PmtObj
  BY DEF Adds, Request, PmtObj
<1>. QED BY <1>1, <1>2 DEF Updated

(* After erasing, a list without double entries has none for the service   *)
(* of the request any more.                                                *)
LEMMA ErasedUnique ==
  ASSUME NEW list \in Seq(PmtObj), NEW r \in Request, UniqueServices(list)
  PROVE  /\ Erased(list, r) \in Seq(PmtObj)
         /\ UniqueServices(Erased(list, r))
         /\ PositionsOf(Erased(list, r), r) = {}
<1>1. CASE PositionsOf(list, r) = {}
  BY <1>1 DEF Erased
<1>2. CASE PositionsOf(list, r) # {}
  <2> DEFINE i == First(PositionsOf(list, r))
             e == Erased(list, r)
  <2>1. /\ i \in 1 .. Len(list)
        /\ list[i].sid = r.sid /\ list[i].adapter = r.adapter
        /\ e \in Seq(PmtObj) /\ Len(e) = Len(list) - 1
        /\ \A j \in 1 .. Len(list) - 1 :
             e[j] = IF j < i THEN list[j] ELSE list[j + 1]
    BY <1>2, ErasedProperties
  <2> HIDE DEF i, e
  <2>2. DOMAIN e = 1 .. Len(list) - 1 /\ DOMAIN list = 1 .. Len(list)
    BY <2>1
  <2>3. \A j \in DOMAIN e : \E k \in DOMAIN list : k # i /\ e[j] = list[k]
    <3> SUFFICES ASSUME NEW j \in DOMAIN e
                 PROVE  \E k \in DOMAIN list : k # i /\ e[j] = list[k]
      OBVIOUS
    <3>1. CASE j < i
      <4>1. j \in DOMAIN list /\ j # i /\ e[j] = list[j]
        BY <2>1, <2>2, <3>1
      <4>. QED BY <4>1
    <3>2. CASE ~(j < i)
      <4>1. j + 1 \in DOMAIN list /\ j + 1 # i /\ e[j] = list[j + 1]
        BY <2>1, <2>2, <3>2
      <4>. QED BY <4>1
    <3>. QED BY <3>1, <3>2
  <2>4. ASSUME NEW j \in DOMAIN e, NEW k \in DOMAIN e,
               e[j].sid = e[k].sid, e[j].adapter = e[k].adapter
        PROVE  j = k
    <3>1. PICK m \in DOMAIN list : m = IF j < i THEN j ELSE j + 1
      BY <2>1, <2>2
    <3>2. PICK n \in DOMAIN list : n = IF k < i THEN k ELSE k + 1
      BY <2>1, <2>2
    <3>3. e[j] = list[m] /\ e[k] = list[n]
      BY <2>1, <2>2, <3>1, <3>2
    <3>4. m = n
      BY <2>4, <3>3 DEF UniqueServices
    <3>. QED BY <2>1, <2>2, <3>1, <3>2, <3>4
  <2>5. PositionsOf(e, r) = {}
    BY <2>1, <2>2, <2>3 DEF PositionsOf, UniqueServices
  <2>. QED BY <2>1, <2>4, <2>5 DEF UniqueServices, e
<1>. QED BY <1>1, <1>2

(***************************************************************************)
(* One request keeps the services of the list apart: ADD replaces the      *)
(* entry of a service instead of adding a second one.                      *)
(***************************************************************************)
THEOREM UpdatedKeepsServicesUnique ==
  ASSUME NEW list \in Seq(PmtObj), NEW r \in Request, UniqueServices(list)
  PROVE  UniqueServices(Updated(list, r))
<1> DEFINE e == Erased(list, r)
           x == [sid |-> r.sid, adapter |-> r.adapter, data |-> r.data]
<1>1. e \in Seq(PmtObj) /\ UniqueServices(e) /\ PositionsOf(e, r) = {}
  BY ErasedUnique
<1>2. CASE ~Adds(r)
  BY <1>1, <1>2 DEF Updated
<1>3. CASE Adds(r)
  <2>1. x \in PmtObj /\ x.sid = r.sid /\ x.adapter = r.adapter
    BY <1>3 DEF Adds, Request, PmtObj
  <2> HIDE DEF e, x
  <2>2. /\ DOMAIN Append(e, x) = 1 .. Len(e) + 1
        /\ \A j \in 1 .. Len(e) : Append(e, x)[j] = e[j]
        /\ Append(e, x)[Len(e) + 1] = x
        /\ DOMAIN e = 1 .. Len(e) /\ Len(e) \in Nat
    BY <1>1, <2>1, AppendProperties
  <2>3. \A j \in 1 .. Len(e) : ~(e[j].sid = x.sid /\ e[j].adapter = x.adapter)
    BY <1>1, <2>1, <2>2 DEF PositionsOf
  <2>4. UniqueServices(Append(e, x))
    <3> SUFFICES ASSUME NEW j \in 1 .. Len(e) + 1, NEW k \in 1 .. Len(e) + 1,
                        Append(e, x)[j].sid = Append(e, x)[k].sid,
                        Append(e, x)[j].adapter = Append(e, x)[k].adapter
                 PROVE  j = k
      BY <2>2 DEF UniqueServices
    <3>1. CASE j \in 1 .. Len(e) /\ k \in 1 .. Len(e)
      BY <1>1, <2>2, <3>1 DEF UniqueServices
    <3>2. CASE j = Len(e) + 1 /\ k \in 1 .. Len(e)
      BY <2>2, <2>3, <3>2
    <3>3. CASE k = Len(e) + 1 /\ j \in 1 .. Len(e)
      BY <2>2, <2>3, <3>3
    <3>. QED BY <2>2, <3>1, <3>2, <3>3
  <2>. QED BY <1>3, <2>4 DEF Updated, e, x
<1>. QED BY <1>2, <1>3

-----------------------------------------------------------------------------
(* The link.                                                               *)

(* The messages the threads write are messages, and NoMsg is none.         *)
LEMMA MessageTypes ==
  /\ ClientInfo \in Message
  /\ \A v \in Nat \ {0} : Stop(v) \in Message
  /\ \A a, b \in BOOLEAN, obj \in PmtObj, v \in Nat \ {0} :
       CaPmtMsg(a, b, obj, v) \in Message
  /\ \A f \in Filters, s \in Nat : FilterData(f, s) \in Message
  /\ NoMsg \notin Message
<1>1. \A m \in Message : m.kind # "none"
  BY DEF Message, ClientInfo
<1>2. NoMsg.kind = "none"
  BY DEF NoMsg
<1>. QED BY <1>1, <1>2 DEF Message, ClientInfo, Stop, CaPmtMsg, FilterData

(* The threads are told apart by their kind.                               *)
LEMMA ThreadKinds ==
  /\ Free \notin Thread /\ Sock \in Thread /\ CI \subseteq Thread
  /\ Receiver \subseteq Thread /\ Sock \notin CI /\ Sock \notin Receiver
  /\ \A t \in CI : t \notin Receiver
  /\ \A t \in CI \cup Receiver : t[2] \in Adapters
BY DEF Free, Thread, Sock, CI, Receiver

(* OSCam's view stays well-typed when a connection ends, and when a        *)
(* message is applied.                                                     *)
LEMMA FreshType == \A n \in Nat \ {0} : Fresh(n) \in Session
BY MessageTypes DEF Fresh, Session

LEMMA AppliedType ==
  ASSUME oscam \in Session, NEW m \in Message
  PROVE  Applied(m) \in Session
<1>1. m.kind \in {"CLIENT_INFO", "STOP_DESCRAMBLING", "CA_PMT", "FILTER_DATA"}
  BY DEF Message, ClientInfo
<1>2. m.kind = "STOP_DESCRAMBLING" => m.ver \in Nat \ {0}
  BY DEF Message, ClientInfo
<1>3. m.kind = "CA_PMT" => /\ m.ver \in Nat \ {0} /\ m.obj \in PmtObj
                           /\ m.first \in BOOLEAN /\ m.last \in BOOLEAN
  BY DEF Message, ClientInfo
<1>4. NoMsg \in Message \cup {NoMsg} /\ <<>> \in Seq(PmtObj)
  OBVIOUS
<1>5. CASE m.kind = "CLIENT_INFO"
  BY <1>4, <1>5 DEF Applied, Session
<1>6. CASE m.kind = "STOP_DESCRAMBLING"
  BY <1>2, <1>4, <1>6 DEF Applied, Session
<1>7. CASE m.kind = "CA_PMT"
  <2> DEFINE list == Append(IF m.first THEN <<>> ELSE oscam.list, m.obj)
  <2>1. list \in Seq(PmtObj)
    BY <1>3, <1>4, <1>7 DEF Session
  <2>2. Started(m) \in {"no", "whole", "tail"}
    BY DEF Started, Session
  <2>3. (oscam.whole \/ Started(m) = "whole") \in BOOLEAN
    OBVIOUS
  <2> HIDE DEF list
  <2>4. Applied(m) =
          IF m.last
            THEN [oscam EXCEPT !.rx = NoMsg, !.open = "no", !.list = <<>>,
                    !.have = list, !.whole = @ \/ Started(m) = "whole",
                    !.seen = m.ver]
            ELSE [oscam EXCEPT !.rx = NoMsg, !.open = Started(m), !.list = list]
    BY <1>7 DEF Applied, list
  <2>5. CASE m.last
    <3> DEFINE S == Seq(PmtObj)
               whole == oscam.whole \/ Started(m) = "whole"
    <3>1. oscam \in [greeted : BOOLEAN, rx : Message \cup {NoMsg},
                     open : {"no", "whole", "tail"}, list : S,
                     have : S, whole : BOOLEAN, seen : Nat \ {0}]
      BY DEF Session
    <3>2. list \in S /\ <<>> \in S /\ whole \in BOOLEAN /\ m.ver \in Nat \ {0}
      BY <1>3, <1>4, <1>7, <2>1
    <3>3. Applied(m) = [oscam EXCEPT !.rx = NoMsg, !.open = "no", !.list = <<>>,
                          !.have = list, !.whole = whole, !.seen = m.ver]
      BY <2>4, <2>5
    <3> HIDE DEF S, whole
    <3>4. Applied(m) \in [greeted : BOOLEAN, rx : Message \cup {NoMsg},
                          open : {"no", "whole", "tail"}, list : S,
                          have : S, whole : BOOLEAN, seen : Nat \ {0}]
      BY <3>1, <3>2, <3>3
    <3>. QED BY <3>4 DEF S, Session
  <2>6. CASE ~m.last
    BY <1>3, <1>4, <1>7, <2>1, <2>2, <2>4, <2>6 DEF Session
  <2>. QED BY <2>5, <2>6
<1>8. CASE m.kind = "FILTER_DATA"
  BY <1>4, <1>8 DEF Applied, Session
<1>. QED BY <1>1, <1>5, <1>6, <1>7, <1>8

(* Type correctness in three parts: the sequences and OSCam's view, and    *)
(* rest.  Only a thread that has a message is inside send().               *)
DataOK ==
  /\ pmt \in Seq(PmtObj) /\ wire \in Seq(Part) /\ oscam \in Session
  /\ asked \in Seq(Seq(PmtObj)) /\ asked # <<>>

SharedOK ==
  /\ sock \in Nat /\ faulted \in BOOLEAN /\ timedOut \in BOOLEAN
  /\ filters \in [Filters -> Nat]
  /\ openFds \subseteq Nat /\ link \in {"none", "up", "lost", "shut"}
  /\ oscamUp \in BOOLEAN
  /\ sessions \in Nat /\ requests \in Nat /\ sections \in Nat

ThreadsOK ==
  /\ pmtOwner \in {Free, Sock} \cup CI
  /\ sockOwner \in {Free} \cup Thread
  /\ filterOwner \in {Free} \cup Receiver
  /\ pc \in [Thread -> PC] /\ msg \in [Thread -> Message \cup {NoMsg}]
  /\ part \in [Thread -> 0 .. 2] /\ fd \in [Thread -> Nat]
  /\ pos \in [Thread -> Nat] /\ todo \in [Thread -> SUBSET Filters]
  /\ \A t \in Thread : part[t] # 0 => msg[t] # NoMsg

LEMMA TypeParts == DataOK /\ SharedOK /\ ThreadsOK => TypeOK
BY DEF DataOK, SharedOK, ThreadsOK, TypeOK

LEMMA InitTypeOK == Init => DataOK /\ SharedOK /\ ThreadsOK
<1> SUFFICES ASSUME Init PROVE DataOK /\ SharedOK /\ ThreadsOK
  OBVIOUS
<1>1. oscam \in Session
  BY FreshType DEF Init
<1>2. DataOK
  BY <1>1 DEF Init, DataOK
<1>3. SharedOK
  BY DEF Init, SharedOK
<1>4. ThreadsOK
  BY ThreadKinds DEF Init, ThreadsOK, PC
<1>. QED BY <1>2, <1>3, <1>4

(* The lists, the stream and OSCam's view.                                 *)
LEMMA StepDataOK ==
  DataOK /\ SharedOK /\ ThreadsOK /\ [Next]_vars => DataOK'
<1> SUFFICES ASSUME DataOK, SharedOK, ThreadsOK, [Next]_vars PROVE DataOK'
  OBVIOUS
<1> USE DEF state, kernel, peer, ghosts
<1>0. UNCHANGED <<pmt, wire, oscam, asked>> => DataOK'
  BY DEF DataOK
<1>1. ASSUME NEW t \in Thread, WriteStep(t) PROVE DataOK'
  <2>1. CASE SendsPart(t)
    <3>1. UNCHANGED <<pmt, oscam, asked>>
      BY <2>1 DEF SendsPart
    <3>2. CASE wire' = wire
      BY <1>0, <3>1, <3>2
    <3>3. CASE wire' = Append(wire, [msg |-> msg[t], part |-> part[t]])
      <4>1. msg[t] \in Message /\ part[t] \in {1, 2}
        BY <2>1 DEF SendsPart, ThreadsOK
      <4>2. [msg |-> msg[t], part |-> part[t]] \in Part
        BY <4>1 DEF Part
      <4>3. wire' \in Seq(Part)
        BY <3>3, <4>2, AppendProperties DEF DataOK
      <4>. QED BY <3>1, <4>3 DEF DataOK
    <3>. QED BY <2>1, <3>2, <3>3 DEF SendsPart
  <2>. QED
    BY <1>0, <1>1, <2>1 DEF WriteStep, WriteDrops, WriteStarts, SendFails
<1>2. ASSUME NEW t \in CI \cup {Sock}, SendAllStep(t) PROVE DataOK'
  BY <1>0, <1>2 DEF SendAllStep, SendNext, SendAllReturns
<1>3. ASSUME NEW t \in CI, SIDRequest(t) PROVE DataOK'
  <2>1. PICK r \in Request :
          /\ pmt' = Updated(pmt, r)
          /\ asked' = asked \/ asked' = Append(asked, pmt')
    BY <1>3 DEF SIDRequest
  <2>2. pmt' \in Seq(PmtObj)
    BY <2>1, UpdatedType DEF DataOK
  <2> DEFINE S == Seq(PmtObj)
  <2>3. asked \in Seq(S) /\ pmt' \in S /\ asked # <<>>
    BY <2>2 DEF DataOK
  <2>4. UNCHANGED <<wire, oscam>>
    BY <1>3 DEF SIDRequest
  <2> HIDE DEF S
  <2>5. asked' \in Seq(S) /\ asked' # <<>>
    BY <2>1, <2>3, AppendProperties
  <2>6. asked' \in Seq(Seq(PmtObj))
    BY <2>5 DEF S
  <2>. QED BY <2>2, <2>4, <2>5, <2>6 DEF DataOK
<1>4. ASSUME NEW t \in Receiver,
             SectionComplete(t) \/ DeliverNext(t) \/ DeliverReturns(t)
      PROVE  DataOK'
  BY <1>0, <1>4 DEF SectionComplete, DeliverNext, DeliverReturns
<1>5. CASE SocketStep
  <2>1. CASE OpenSucceeds
    <3>1. wire' = <<>> /\ UNCHANGED <<pmt, oscam, asked>>
      BY <2>1 DEF OpenSucceeds
    <3>. QED BY <3>1 DEF DataOK
  <2>2. CASE ClosesFd
    <3>1. wire' = <<>> /\ oscam' = Fresh(oscam.seen) /\ UNCHANGED <<pmt, asked>>
      BY <2>2 DEF ClosesFd
    <3>2. oscam' \in Session
      BY <3>1, FreshType DEF DataOK, Session
    <3>. QED BY <3>1, <3>2 DEF DataOK
  <2>3. CASE Reconnects \/ OpenStarts \/ OpenFails \/ Resyncs
    BY <1>0, <2>3 DEF Reconnects, OpenStarts, OpenFails, Resyncs
  <2>4. CASE CloseTakesFd \/ StopsAllFilters
    BY <1>0, <2>4 DEF CloseTakesFd, StopsAllFilters
  <2>. QED BY <1>5, <2>1, <2>2, <2>3, <2>4 DEF SocketStep
<1>6. CASE TimerExpires \/ HearsFilter \/ HearsEnd
  BY <1>0, <1>6 DEF TimerExpires, HearsFilter, HearsEnd
<1>7. CASE OscamReads
  <2>1. wire # <<>> /\ wire \in Seq(Part) /\ wire' = Tail(wire)
    BY <1>7 DEF OscamReads, DataOK
  <2>2. Head(wire) \in Part /\ wire' \in Seq(Part)
    BY <2>1, HeadTailProperties
  <2>3. Head(wire).msg \in Message
    BY <2>2 DEF Part
  <2>4. [oscam EXCEPT !.rx = Head(wire).msg] \in Session
    BY <2>3 DEF DataOK, Session
  <2>5. Applied(Head(wire).msg) \in Session
    BY <2>3, AppliedType DEF DataOK
  <2>6. oscam' \in Session /\ UNCHANGED <<pmt, asked>>
    BY <1>7, <2>4, <2>5 DEF OscamReads
  <2>. QED BY <2>2, <2>6 DEF DataOK
<1>8. CASE OscamDrops
  <2>1. wire' = <<>> /\ oscam' = Fresh(oscam.seen) /\ UNCHANGED <<pmt, asked>>
    BY <1>8 DEF OscamDrops
  <2>2. oscam' \in Session
    BY <2>1, FreshType DEF DataOK, Session
  <2>. QED BY <2>1, <2>2 DEF DataOK
<1>9. CASE OscamStarts
  BY <1>0, <1>9 DEF OscamStarts
<1>10. CASE UNCHANGED vars
  BY <1>0, <1>10 DEF vars
<1>. QED
  BY <1>1, <1>2, <1>3, <1>4, <1>5, <1>6, <1>7, <1>8, <1>9, <1>10 DEF Next

(* The connection, the filters and the counters.                           *)
LEMMA StepSharedOK ==
  DataOK /\ SharedOK /\ ThreadsOK /\ [Next]_vars => SharedOK'
<1> SUFFICES ASSUME SharedOK, [Next]_vars PROVE SharedOK'
  OBVIOUS
<1> USE DEF state, kernel, peer, ghosts
<1>0. UNCHANGED <<sock, faulted, timedOut, filters, openFds, link, oscamUp,
                  sessions, requests, sections>> => SharedOK'
  BY DEF SharedOK
<1>1. ASSUME NEW t \in Thread, WriteStep(t) PROVE SharedOK'
  <2>1. CASE SendFails(t)
    BY <2>1 DEF SharedOK, SendFails
  <2>. QED
    BY <1>0, <1>1, <2>1 DEF WriteStep, WriteDrops, WriteStarts, SendsPart
<1>2. ASSUME NEW t \in CI \cup {Sock}, SendAllStep(t) PROVE SharedOK'
  <2>1. CASE SendAllReturns(t)
    BY <2>1 DEF SharedOK, SendAllReturns
  <2>. QED BY <1>0, <1>2, <2>1 DEF SendAllStep, SendNext
<1>3. ASSUME NEW t \in CI, SIDRequest(t) PROVE SharedOK'
  <2>1. /\ requests' = requests + 1
        /\ UNCHANGED <<sock, faulted, timedOut, filters, openFds, link, oscamUp,
                       sessions, sections>>
    BY <1>3 DEF SIDRequest
  <2>. QED BY <2>1 DEF SharedOK
<1>4. ASSUME NEW t \in Receiver,
             SectionComplete(t) \/ DeliverNext(t) \/ DeliverReturns(t)
      PROVE  SharedOK'
  <2>1. CASE SectionComplete(t)
    <3>1. /\ sections' = sections + 1
          /\ UNCHANGED <<sock, faulted, timedOut, filters, openFds, link,
                         oscamUp, sessions, requests>>
      BY <2>1 DEF SectionComplete
    <3>. QED BY <3>1 DEF SharedOK
  <2>. QED BY <1>0, <1>4, <2>1 DEF DeliverNext, DeliverReturns
<1>5. CASE SocketStep
  <2>1. CASE OpenSucceeds
    <3>1. /\ sessions' = sessions + 1 /\ sock' = sessions + 1
          /\ openFds' = openFds \cup {sessions + 1} /\ link' = "up"
          /\ faulted' = FALSE
          /\ UNCHANGED <<timedOut, filters, oscamUp, requests, sections>>
      BY <2>1 DEF OpenSucceeds
    <3>2. sock' \in Nat /\ sessions' \in Nat
      BY <3>1 DEF SharedOK
    <3>3. openFds' \subseteq Nat
      BY <3>1, <3>2 DEF SharedOK
    <3>4. link' \in {"none", "up", "lost", "shut"} /\ faulted' \in BOOLEAN
      BY <3>1
    <3>. QED BY <3>1, <3>2, <3>3, <3>4 DEF SharedOK
  <2>2. CASE ClosesFd
    BY <2>2 DEF SharedOK, ClosesFd
  <2>3. CASE OpenFails
    BY <2>3 DEF SharedOK, OpenFails
  <2>4. CASE CloseTakesFd
    BY <2>4 DEF SharedOK, CloseTakesFd
  <2>5. CASE StopsAllFilters
    BY <2>5 DEF SharedOK, StopsAllFilters
  <2>6. CASE Reconnects \/ OpenStarts \/ Resyncs
    BY <1>0, <2>6 DEF Reconnects, OpenStarts, Resyncs
  <2>. QED BY <1>5, <2>1, <2>2, <2>3, <2>4, <2>5, <2>6 DEF SocketStep
<1>6. CASE TimerExpires
  BY <1>6 DEF SharedOK, TimerExpires
<1>7. CASE HearsFilter
  BY <1>7 DEF SharedOK, HearsFilter
<1>8. CASE HearsEnd \/ OscamReads
  BY <1>0, <1>8 DEF HearsEnd, OscamReads
<1>9. CASE OscamDrops
  BY <1>9 DEF SharedOK, OscamDrops
<1>10. CASE OscamStarts
  BY <1>10 DEF SharedOK, OscamStarts
<1>11. CASE UNCHANGED vars
  BY <1>0, <1>11 DEF vars
<1>. QED
  BY <1>1, <1>2, <1>3, <1>4, <1>5, <1>6, <1>7, <1>8, <1>9, <1>10, <1>11 DEF Next

(* The mutexes and what each thread is doing.                              *)
LEMMA StepThreadsOK ==
  DataOK /\ SharedOK /\ ThreadsOK /\ [Next]_vars => ThreadsOK'
<1> SUFFICES ASSUME DataOK, SharedOK, ThreadsOK, [Next]_vars PROVE ThreadsOK'
  OBVIOUS
<1> USE ThreadKinds
<1> USE DEF locks, calls
<1>0. UNCHANGED <<locks, calls>> => ThreadsOK'
  BY DEF ThreadsOK
<1>1. ASSUME NEW t \in Thread, WriteStep(t) PROVE ThreadsOK'
  <2>1. CASE WriteDrops(t)
    BY <2>1 DEF ThreadsOK, WriteDrops
  <2>2. CASE WriteStarts(t)
    <3>1. sock \in Nat
      BY DEF SharedOK
    <3>. QED BY <2>2, <3>1 DEF ThreadsOK, WriteStarts
  <2>3. ASSUME WriteReturns(t), UNCHANGED <<pmtOwner, filterOwner, pc, pos, todo>>
        PROVE  ThreadsOK'
    BY <2>3 DEF ThreadsOK, WriteReturns
  <2>4. CASE SendsPart(t)
    <3>1. UNCHANGED <<pmtOwner, filterOwner, pc, pos, todo>>
      BY <2>4 DEF SendsPart
    <3>2. CASE part[t] = 1 /\ part' = [part EXCEPT ![t] = 2]
                           /\ UNCHANGED <<msg, fd, sockOwner>>
      BY <3>1, <3>2 DEF ThreadsOK
    <3>. QED BY <2>3, <2>4, <3>1, <3>2 DEF SendsPart
  <2>5. CASE SendFails(t)
    BY <2>3, <2>5 DEF SendFails
  <2>. QED BY <1>1, <2>1, <2>2, <2>4, <2>5 DEF WriteStep
<1>2. ASSUME NEW t \in CI \cup {Sock}, SendNext(t) PROVE ThreadsOK'
  <2>1. Len(asked) \in Nat \ {0}
    <3>1. asked # <<>> /\ asked \in Seq(Seq(PmtObj))
      BY DEF DataOK
    <3>. QED BY <3>1, EmptySeq, LenProperties
  <2>2. ASSUME pos[t] \in DOMAIN pmt
        PROVE  CaPmtMsg(pos[t] = 1, pos[t] = Len(pmt), pmt[pos[t]], Len(asked))
                 \in Message
    <3>1. pmt[pos[t]] \in PmtObj
      BY <2>2, ElementOfSeq, LenProperties DEF DataOK
    <3>. QED BY <2>1, <3>1, MessageTypes
  <2>3. PICK m \in Message : msg' = [msg EXCEPT ![t] = m]
    <3>1. CASE msg' = [msg EXCEPT ![t] = Stop(Len(asked))]
      BY <2>1, <3>1, MessageTypes
    <3>2. CASE /\ pos[t] \in DOMAIN pmt
               /\ msg' = [msg EXCEPT ![t] =
                     CaPmtMsg(pos[t] = 1, pos[t] = Len(pmt), pmt[pos[t]], Len(asked))]
      BY <2>2, <3>2
    <3>. QED BY <1>2, <3>1, <3>2 DEF SendNext
  <2>4. m # NoMsg
    BY MessageTypes
  <2>5. pos' = [pos EXCEPT ![t] = @ + 1] /\ UNCHANGED <<locks, pc, part, fd, todo>>
    BY <1>2 DEF SendNext
  <2>. QED BY <2>3, <2>4, <2>5 DEF ThreadsOK
<1>3. ASSUME NEW t \in CI \cup {Sock}, SendAllReturns(t) PROVE ThreadsOK'
  BY <1>3 DEF ThreadsOK, SendAllReturns, PC
<1>4. ASSUME NEW t \in CI, SIDRequest(t) PROVE ThreadsOK'
  <2>1. /\ \/ /\ pmtOwner' = t /\ pc' = [pc EXCEPT ![t] = "sending"]
              /\ pos' = [pos EXCEPT ![t] = 1]
           \/ UNCHANGED <<pmtOwner, pc, pos>>
        /\ UNCHANGED <<sockOwner, filterOwner, msg, part, fd, todo>>
    BY <1>4 DEF SIDRequest
  <2>. QED BY <2>1 DEF ThreadsOK, PC
<1>5. ASSUME NEW t \in Receiver, SectionComplete(t) PROVE ThreadsOK'
  <2>1. PICK S \in SUBSET Filters : todo' = [todo EXCEPT ![t] = S]
    BY <1>5 DEF SectionComplete
  <2>2. /\ filterOwner' = t /\ pc' = [pc EXCEPT ![t] = "delivering"]
        /\ UNCHANGED <<pmtOwner, sockOwner, msg, part, fd, pos>>
    BY <1>5 DEF SectionComplete
  <2>. QED BY <2>1, <2>2 DEF ThreadsOK, PC
<1>6. ASSUME NEW t \in Receiver, DeliverNext(t) PROVE ThreadsOK'
  <2>1. PICK f \in todo[t] :
          /\ todo' = [todo EXCEPT ![t] = @ \ {f}]
          /\ msg' = [msg EXCEPT ![t] = FilterData(f, filters[f])]
    BY <1>6 DEF DeliverNext
  <2>2. FilterData(f, filters[f]) \in Message
    <3>1. f \in Filters /\ filters[f] \in Nat
      BY DEF ThreadsOK, SharedOK
    <3>. QED BY <3>1, MessageTypes
  <2>3. FilterData(f, filters[f]) # NoMsg
    BY <2>2, MessageTypes
  <2>4. UNCHANGED <<locks, pc, part, fd, pos>>
    BY <1>6 DEF DeliverNext
  <2>. QED BY <2>1, <2>2, <2>3, <2>4 DEF ThreadsOK
<1>7. ASSUME NEW t \in Receiver, DeliverReturns(t) PROVE ThreadsOK'
  BY <1>7 DEF ThreadsOK, DeliverReturns, PC
<1>8. CASE SocketStep
  <2>1. CASE Reconnects
    BY <2>1 DEF ThreadsOK, Reconnects, PC
  <2>2. CASE OpenStarts
    BY <2>2 DEF ThreadsOK, OpenStarts, PC
  <2>3. CASE OpenSucceeds
    <3>1. /\ sockOwner' = Free /\ pc' = [pc EXCEPT ![Sock] = "greeting"]
          /\ msg' = [msg EXCEPT ![Sock] = ClientInfo]
          /\ UNCHANGED <<pmtOwner, filterOwner, part, fd, pos, todo>>
      BY <2>3 DEF OpenSucceeds
    <3>2. ClientInfo \in Message /\ ClientInfo # NoMsg
      BY MessageTypes
    <3>. QED BY <3>1, <3>2 DEF ThreadsOK, PC
  <2>4. CASE OpenFails
    BY <2>4 DEF ThreadsOK, OpenFails, PC
  <2>5. CASE Resyncs
    BY <2>5 DEF ThreadsOK, Resyncs, PC
  <2>6. CASE CloseTakesFd
    <3>1. sock \in Nat
      BY DEF SharedOK
    <3>. QED BY <2>6, <3>1 DEF ThreadsOK, CloseTakesFd, PC
  <2>7. CASE ClosesFd
    <3>1. /\ fd' = [fd EXCEPT ![Sock] = 0] /\ pc' = [pc EXCEPT ![Sock] = "unfilter"]
          /\ UNCHANGED <<locks, msg, part, pos, todo>>
      BY <2>7 DEF ClosesFd
    <3>. QED BY <3>1 DEF ThreadsOK, PC
  <2>8. CASE StopsAllFilters
    BY <2>8 DEF ThreadsOK, StopsAllFilters, PC
  <2>. QED
    BY <1>8, <2>1, <2>2, <2>3, <2>4, <2>5, <2>6, <2>7, <2>8 DEF SocketStep
<1>9. CASE HearsEnd
  BY <1>9 DEF ThreadsOK, HearsEnd, PC
<1>10. CASE TimerExpires \/ HearsFilter \/ OscamReads \/ OscamDrops \/ OscamStarts
  BY <1>0, <1>10 DEF TimerExpires, HearsFilter, OscamReads, OscamDrops, OscamStarts
<1>11. CASE UNCHANGED vars
  BY <1>0, <1>11 DEF vars
<1>. QED
  BY <1>1, <1>2, <1>3, <1>4, <1>5, <1>6, <1>7, <1>8, <1>9, <1>10, <1>11
     DEF Next, SendAllStep

LEMMA StepTypeOK ==
  DataOK /\ SharedOK /\ ThreadsOK /\ [Next]_vars
    => (DataOK /\ SharedOK /\ ThreadsOK)'
BY StepDataOK, StepSharedOK, StepThreadsOK

(***************************************************************************)
(* Every variable keeps its type.                                          *)
(***************************************************************************)
THEOREM TypeCorrect == Spec => []TypeOK
BY InitTypeOK, StepTypeOK, TypeParts, PTL DEF Spec
-----------------------------------------------------------------------------
(* The socket mutex.  An action that neither sends nor opens nor closes    *)
(* leaves what the invariant speaks of alone.                              *)

LEMMA InitSocketMutexInv == Init => SocketMutexInv
BY ThreadKinds DEF Init, SocketMutexInv

LEMMA StepSocketMutexInv ==
  TypeOK /\ TypeOK' /\ SocketMutexInv /\ [Next]_vars => SocketMutexInv'
<1> SUFFICES ASSUME TypeOK, TypeOK', SocketMutexInv, [Next]_vars
             PROVE  SocketMutexInv'
  OBVIOUS
<1> USE ThreadKinds
<1> USE DEF locks, calls, state, kernel, peer, ghosts
<1>0. /\ pc \in [Thread -> PC] /\ msg \in [Thread -> Message \cup {NoMsg}]
      /\ part \in [Thread -> 0 .. 2] /\ fd \in [Thread -> Nat]
      /\ sock \in Nat /\ openFds \subseteq Nat /\ sessions \in Nat
  BY DEF TypeOK
<1>1. ASSUME NEW t \in Thread, WriteDrops(t) PROVE SocketMutexInv'
  BY <1>0, <1>1 DEF SocketMutexInv, WriteDrops
<1>2. ASSUME NEW t \in Thread, WriteStarts(t) PROVE SocketMutexInv'
  BY <1>0, <1>2 DEF SocketMutexInv, WriteStarts
<1>3. ASSUME NEW t \in Thread, SendsPart(t) PROVE SocketMutexInv'
  <2>1. UNCHANGED <<pc, sock, openFds, link>>
    BY <1>3 DEF SendsPart
  <2>2. CASE part[t] = 1
    <3>1. part' = [part EXCEPT ![t] = 2] /\ UNCHANGED <<msg, fd, sockOwner>>
      BY <1>3, <2>2 DEF SendsPart
    <3>. QED BY <1>0, <2>1, <2>2, <3>1 DEF SocketMutexInv
  <2>3. CASE part[t] = 2
    <3>1. WriteReturns(t)
      BY <1>3, <2>3 DEF SendsPart
    <3>. QED BY <1>0, <2>1, <2>3, <3>1 DEF SocketMutexInv, WriteReturns
  <2>. QED BY <1>3, <2>2, <2>3 DEF SendsPart
<1>4. ASSUME NEW t \in Thread, SendFails(t) PROVE SocketMutexInv'
  BY <1>0, <1>4 DEF SocketMutexInv, SendFails, WriteReturns
<1>5. ASSUME NEW t \in CI \cup {Sock}, SendNext(t) PROVE SocketMutexInv'
  <2>1. part[t] = 0
    BY <1>0, <1>5 DEF SocketMutexInv, SendNext
  <2>2. PICK m : msg' = [msg EXCEPT ![t] = m]
    BY <1>5 DEF SendNext
  <2>3. UNCHANGED <<sockOwner, pc, part, fd, sock, openFds, link>> /\ pc[t] = "sending"
    BY <1>5 DEF SendNext
  <2>. QED BY <1>0, <2>1, <2>2, <2>3 DEF SocketMutexInv
<1>6. ASSUME NEW t \in CI \cup {Sock}, SendAllReturns(t) PROVE SocketMutexInv'
  BY <1>0, <1>6 DEF SocketMutexInv, SendAllReturns
<1>7. ASSUME NEW t \in CI, SIDRequest(t) PROVE SocketMutexInv'
  <2>1. pc'[Sock] = pc[Sock] /\ UNCHANGED <<sockOwner, msg, part, fd, sock, openFds, link>>
    BY <1>0, <1>7 DEF SIDRequest
  <2>. QED BY <2>1 DEF SocketMutexInv
<1>8. ASSUME NEW t \in Receiver, SectionComplete(t) PROVE SocketMutexInv'
  <2>1. pc'[Sock] = pc[Sock] /\ UNCHANGED <<sockOwner, msg, part, fd, sock, openFds, link>>
    BY <1>0, <1>8 DEF SectionComplete
  <2>. QED BY <2>1 DEF SocketMutexInv
<1>9. ASSUME NEW t \in Receiver, DeliverNext(t) PROVE SocketMutexInv'
  <2>1. part[t] = 0
    BY <1>0, <1>9 DEF SocketMutexInv, DeliverNext
  <2>2. PICK m : msg' = [msg EXCEPT ![t] = m]
    BY <1>9 DEF DeliverNext
  <2>3. UNCHANGED <<sockOwner, pc, part, fd, sock, openFds, link>>
    BY <1>9 DEF DeliverNext
  <2>. QED BY <1>0, <2>1, <2>2, <2>3 DEF SocketMutexInv
<1>10. ASSUME NEW t \in Receiver, DeliverReturns(t) PROVE SocketMutexInv'
  BY <1>0, <1>10 DEF SocketMutexInv, DeliverReturns
<1>11. CASE Reconnects
  BY <1>0, <1>11 DEF SocketMutexInv, Reconnects
<1>12. CASE OpenStarts
  BY <1>0, <1>12 DEF SocketMutexInv, OpenStarts
<1>13. CASE OpenSucceeds
  <2>1. \A t \in Thread : part[t] = 0
    BY <1>0, <1>13 DEF SocketMutexInv, OpenSucceeds
  <2>. QED BY <1>0, <1>13, <2>1 DEF SocketMutexInv, OpenSucceeds
<1>14. CASE OpenFails
  <2>1. \A t \in Thread : part[t] = 0
    BY <1>0, <1>14 DEF SocketMutexInv, OpenFails
  <2>. QED BY <1>0, <1>14, <2>1 DEF SocketMutexInv, OpenFails
<1>15. CASE TimerExpires
  BY <1>15 DEF SocketMutexInv, TimerExpires
<1>16. CASE Resyncs
  BY <1>0, <1>16 DEF SocketMutexInv, Resyncs
<1>17. CASE HearsFilter
  BY <1>17 DEF SocketMutexInv, HearsFilter
<1>18. CASE HearsEnd
  BY <1>0, <1>18 DEF SocketMutexInv, HearsEnd
<1>19. CASE CloseTakesFd
  <2>1. \A t \in Thread : part[t] = 0
    BY <1>0, <1>19 DEF SocketMutexInv, CloseTakesFd
  <2>. QED BY <1>0, <1>19, <2>1 DEF SocketMutexInv, CloseTakesFd
<1>20. CASE ClosesFd
  BY <1>0, <1>20 DEF SocketMutexInv, ClosesFd
<1>21. CASE StopsAllFilters
  BY <1>0, <1>21 DEF SocketMutexInv, StopsAllFilters
<1>22. CASE OscamReads
  BY <1>22 DEF SocketMutexInv, OscamReads
<1>23. CASE OscamDrops
  BY <1>23 DEF SocketMutexInv, OscamDrops
<1>24. CASE OscamStarts
  BY <1>24 DEF SocketMutexInv, OscamStarts
<1>25. CASE UNCHANGED vars
  BY <1>25 DEF SocketMutexInv, vars
<1>. QED
  BY <1>1, <1>2, <1>3, <1>4, <1>5, <1>6, <1>7, <1>8, <1>9, <1>10, <1>11, <1>12,
     <1>13, <1>14, <1>15, <1>16, <1>17, <1>18, <1>19, <1>20, <1>21, <1>22,
     <1>23, <1>24, <1>25
     DEF Next, WriteStep, SendAllStep, SocketStep

(***************************************************************************)
(* A thread never sends on a descriptor that was closed, or that another   *)
(* connection has got: CloseConnection and Write share the mutex.          *)
(***************************************************************************)
THEOREM NeverSendsOnClosedSocket == Spec => []SendsOnOpenSocket
<1>1. SocketMutexInv => SendsOnOpenSocket
  BY DEF SocketMutexInv, SendsOnOpenSocket
<1>. QED BY <1>1, TypeCorrect, InitSocketMutexInv, StepSocketMutexInv, PTL DEF Spec

(***************************************************************************)
(* No service is on the list twice, whatever VDR requests on however many  *)
(* adapters.                                                               *)
(***************************************************************************)
THEOREM ServicesUnique == Spec => []NoServiceTwice
<1>1. Init => NoServiceTwice
  BY DEF Init, NoServiceTwice, UniqueServices
<1>2. TypeOK /\ NoServiceTwice /\ [Next]_vars => NoServiceTwice'
  <2> SUFFICES ASSUME TypeOK, NoServiceTwice, [Next]_vars PROVE NoServiceTwice'
    OBVIOUS
  <2>1. ASSUME NEW t \in CI, SIDRequest(t) PROVE NoServiceTwice'
    <3>1. PICK r \in Request : pmt' = Updated(pmt, r)
      BY <2>1 DEF SIDRequest
    <3>. QED BY <3>1, UpdatedKeepsServicesUnique DEF TypeOK, NoServiceTwice
  <2>2. CASE UNCHANGED pmt
    BY <2>2 DEF NoServiceTwice
  <2>. QED
    BY <2>1, <2>2
       DEF Next, WriteStep, SendAllStep, SocketStep, vars, state, WriteDrops,
           WriteStarts, SendsPart, SendFails, SendNext, SendAllReturns,
           SectionComplete, DeliverNext, DeliverReturns, Reconnects, OpenStarts,
           OpenSucceeds, OpenFails, TimerExpires, Resyncs, HearsFilter, HearsEnd,
           CloseTakesFd, ClosesFd, StopsAllFilters, OscamReads, OscamDrops,
           OscamStarts
<1>. QED BY <1>1, <1>2, TypeCorrect, PTL DEF Spec
-----------------------------------------------------------------------------
(* The stream of message parts.                                            *)

LEMMA InitStreamInv == Init => StreamInv
BY MessageTypes
   DEF Init, StreamInv, MessagesWhole, LastSent, Rest, Fresh

(* A step that changes neither the stream nor who sends keeps it whole.    *)
LEMMA StreamUnchanged ==
  ASSUME StreamInv, UNCHANGED <<wire, oscam, link, part>>,
         \A t \in Thread : part[t] # 0 => msg'[t] = msg[t]
  PROVE  StreamInv'
BY DEF StreamInv, MessagesWhole, LastSent, Rest

(* Appending the part the sending thread is at.                            *)
LEMMA StreamAppended ==
  ASSUME TypeOK, TypeOK', SocketMutexInv, StreamInv,
         NEW t \in Thread, SendsPart(t), link = "up"
  PROVE  StreamInv'
<1> DEFINE p == [msg |-> msg[t], part |-> part[t]]
<1>1. /\ wire \in Seq(Part) /\ wire' = Append(wire, p) /\ wire' \in Seq(Part)
      /\ oscam' = oscam /\ link' = "up" /\ part[t] \in {1, 2}
      /\ part \in [Thread -> 0 .. 2]
  BY DEF TypeOK, SendsPart, peer
<1>2. /\ Len(wire') = Len(wire) + 1 /\ wire'[Len(wire) + 1] = p
      /\ \A i \in 1 .. Len(wire) : wire'[i] = wire[i]
      /\ Len(wire) \in Nat /\ wire' # <<>>
  BY <1>1
<1>3. \A i \in 1 .. Len(wire) : wire[i].part \in {1, 2}
  <2>1. \A i \in 1 .. Len(wire) : wire[i] \in Part
    BY <1>1, ElementOfSeq
  <2>. QED BY <2>1 DEF Part
<1>4. \A u \in Thread : u # t => part[u] = 0 /\ part'[u] = part[u]
  BY <1>1 DEF SocketMutexInv, SendsPart, WriteReturns
<1>5. IF part[t] = 2 THEN LastSent.part = 1 /\ LastSent.msg = msg[t]
                     ELSE LastSent.part # 1
  BY <1>1, <1>4 DEF StreamInv
<1>6. MessagesWhole'
  <2>1. CASE wire = <<>>
    <3>1. wire'[1] = p /\ Len(wire') = 1
      BY <1>2, <2>1
    <3>2. IF oscam.rx = NoMsg THEN p.part = 1 ELSE p = Rest(oscam.rx)
      BY <1>1, <1>5, <2>1 DEF LastSent, Rest
    <3>. QED BY <1>1, <3>1, <3>2 DEF MessagesWhole
  <2>2. CASE wire # <<>>
    <3>1. LastSent = wire[Len(wire)] /\ Len(wire) \in 1 .. Len(wire)
      BY <1>1, <1>2, <2>2 DEF LastSent
    <3>2. IF wire[Len(wire)].part = 1 THEN p = Rest(wire[Len(wire)].msg)
                                      ELSE p.part = 1
      BY <1>1, <1>5, <3>1 DEF Rest
    <3>3. wire'[1] = wire[1]
      BY <1>2, <3>1
    <3>4. ASSUME NEW i \in 1 .. Len(wire') - 1
          PROVE  IF wire'[i].part = 1 THEN wire'[i + 1] = Rest(wire'[i].msg)
                                      ELSE wire'[i + 1].part = 1
      <4>1. CASE i = Len(wire)
        BY <1>2, <3>1, <3>2, <4>1
      <4>2. CASE i # Len(wire)
        <5>1. i \in 1 .. Len(wire) - 1 /\ i + 1 \in 1 .. Len(wire)
          BY <1>2, <4>2
        <5>. QED BY <1>2, <5>1 DEF StreamInv, MessagesWhole
      <4>. QED BY <4>1, <4>2
    <3>. QED BY <1>1, <2>2, <3>3, <3>4 DEF StreamInv, MessagesWhole, Rest
  <2>. QED BY <2>1, <2>2
<1>7. LastSent' = p
  BY <1>2 DEF LastSent
<1>8. CASE part[t] = 1
  <2>1. part'[t] = 2 /\ msg'[t] = msg[t]
    BY <1>1, <1>8 DEF SendsPart
  <2>. QED BY <1>1, <1>6, <1>7, <1>8, <2>1 DEF StreamInv
<1>9. CASE part[t] = 2
  <2>1. part'[t] = 0
    BY <1>1, <1>9 DEF SendsPart, WriteReturns
  <2>. QED BY <1>1, <1>4, <1>6, <1>7, <1>9, <2>1 DEF StreamInv
<1>. QED BY <1>1, <1>8, <1>9

(* OSCam takes the first part off the stream.                              *)
LEMMA StreamRead ==
  ASSUME TypeOK, TypeOK', StreamInv, OscamReads
  PROVE  StreamInv'
<1>1. /\ wire \in Seq(Part) /\ wire # <<>> /\ wire' = Tail(wire)
      /\ UNCHANGED <<part, msg, link>> /\ oscam \in Session
  BY DEF TypeOK, OscamReads, calls
<1>2. /\ Len(wire) \in Nat \ {0} /\ Len(wire') = Len(wire) - 1
      /\ \A i \in 1 .. Len(wire) - 1 : wire'[i] = wire[i + 1]
      /\ Head(wire) = wire[1] /\ wire[1] \in Part
  BY <1>1
<1>3. \A m \in Message : Applied(m).rx = NoMsg
  BY <1>1 DEF Applied, Session
<1>4. wire[1].msg \in Message /\ wire[1].part \in {1, 2}
  BY <1>2 DEF Part
<1>5. oscam'.rx = IF wire[1].part = 1 THEN wire[1].msg ELSE NoMsg
  BY <1>1, <1>2, <1>3, <1>4 DEF OscamReads, Session
<1>6. MessagesWhole'
  <2>1. ASSUME wire' # <<>>
        PROVE  IF oscam'.rx = NoMsg THEN wire'[1].part = 1
                                    ELSE wire'[1] = Rest(oscam'.rx)
    <3>1. 1 \in 1 .. Len(wire) - 1
      BY <1>1, <1>2, <2>1
    <3>2. wire'[1] = wire[2]
      BY <1>2, <3>1
    <3>3. IF wire[1].part = 1 THEN wire[2] = Rest(wire[1].msg) ELSE wire[2].part = 1
      BY <3>1 DEF StreamInv, MessagesWhole
    <3>. QED BY <1>4, <1>5, <3>2, <3>3, MessageTypes
  <2>2. ASSUME NEW i \in 1 .. Len(wire') - 1
        PROVE  IF wire'[i].part = 1 THEN wire'[i + 1] = Rest(wire'[i].msg)
                                    ELSE wire'[i + 1].part = 1
    <3>1. i + 1 \in 1 .. Len(wire) - 1 /\ i \in 1 .. Len(wire) - 1
      BY <1>2
    <3>2. wire'[i] = wire[i + 1] /\ wire'[i + 1] = wire[(i + 1) + 1]
      BY <1>2, <3>1
    <3>3. IF wire[i + 1].part = 1 THEN wire[(i + 1) + 1] = Rest(wire[i + 1].msg)
                                  ELSE wire[(i + 1) + 1].part = 1
      BY <3>1 DEF StreamInv, MessagesWhole
    <3>. QED BY <3>2, <3>3
  <2>. QED BY <2>1, <2>2 DEF MessagesWhole, Rest
<1>7. LastSent'.part = LastSent.part /\ (LastSent.part = 1 => LastSent'.msg = LastSent.msg)
  <2>1. CASE wire' = <<>>
    <3>0. Len(wire') = 0
      BY <2>1
    <3>1. LastSent = wire[1]
      BY <1>1, <1>2, <3>0 DEF LastSent
    <3>. QED BY <1>4, <1>5, <2>1, <3>1, MessageTypes DEF LastSent, Rest
  <2>2. CASE wire' # <<>>
    <3>1. Len(wire') \in 1 .. Len(wire) - 1 /\ Len(wire') + 1 = Len(wire)
      BY <1>1, <1>2, <2>2
    <3>2. wire'[Len(wire')] = wire[Len(wire)]
      BY <1>2, <3>1
    <3>. QED BY <1>1, <2>2, <3>2 DEF LastSent
  <2>. QED BY <2>1, <2>2
<1>8. link \in {"up", "shut"}
  BY DEF OscamReads
<1>. QED BY <1>1, <1>6, <1>7, <1>8 DEF StreamInv

(* Nothing is sent or half read when a connection starts or ends.          *)
LEMMA StreamCleared ==
  ASSUME wire' = <<>>, oscam'.rx = NoMsg,
         link' = "up" => \A t \in Thread : part'[t] # 2
  PROVE  StreamInv'
BY MessageTypes DEF StreamInv, MessagesWhole, LastSent, Rest

LEMMA StepStreamInv ==
  TypeOK /\ TypeOK' /\ SocketMutexInv /\ StreamInv /\ [Next]_vars => StreamInv'
<1> SUFFICES ASSUME TypeOK, TypeOK', SocketMutexInv, StreamInv, [Next]_vars
             PROVE  StreamInv'
  OBVIOUS
<1> USE ThreadKinds
<1> USE DEF locks, calls, state, kernel, peer, ghosts
<1>0. /\ msg \in [Thread -> Message \cup {NoMsg}] /\ part \in [Thread -> 0 .. 2]
      /\ \A t \in Thread : part[t] # 0 => msg[t] # NoMsg
  BY DEF TypeOK, SocketMutexInv
<1>1. ASSUME NEW t \in Thread, WriteDrops(t) PROVE StreamInv'
  BY <1>0, <1>1, StreamUnchanged DEF WriteDrops
<1>2. ASSUME NEW t \in Thread, WriteStarts(t) PROVE StreamInv'
  <2>1. part[t] = 0 /\ part' = [part EXCEPT ![t] = 1] /\ UNCHANGED <<wire, oscam, link, msg>>
    BY <1>2 DEF WriteStarts
  <2>2. \A u \in Thread : part'[u] = 2 <=> part[u] = 2
    BY <1>0, <2>1
  <2>. QED BY <2>1, <2>2 DEF StreamInv, MessagesWhole, LastSent, Rest
<1>3. ASSUME NEW t \in Thread, SendsPart(t) PROVE StreamInv'
  <2>1. CASE link = "up"
    BY <1>3, <2>1, StreamAppended
  <2>2. CASE link # "up"
    <3>1. link' = link /\ wire' = wire /\ oscam' = oscam
      BY <1>3, <2>2 DEF SendsPart
    <3>. QED BY <2>2, <3>1 DEF StreamInv, MessagesWhole, LastSent, Rest
  <2>. QED BY <2>1, <2>2
<1>4. ASSUME NEW t \in Thread, SendFails(t) PROVE StreamInv'
  <2>1. link' = "shut" /\ wire' = wire /\ oscam' = oscam
    BY <1>4 DEF SendFails
  <2>. QED BY <2>1 DEF StreamInv, MessagesWhole, Rest
<1>5. ASSUME NEW t \in CI \cup {Sock}, SendNext(t) PROVE StreamInv'
  <2>1. UNCHANGED <<wire, oscam, link, part>> /\ msg[t] = NoMsg
    BY <1>5 DEF SendNext
  <2>2. PICK m : msg' = [msg EXCEPT ![t] = m]
    BY <1>5 DEF SendNext
  <2>. QED BY <1>0, <2>1, <2>2, StreamUnchanged
<1>6. ASSUME NEW t \in CI \cup {Sock}, SendAllReturns(t) PROVE StreamInv'
  BY <1>6, StreamUnchanged DEF SendAllReturns
<1>7. ASSUME NEW t \in CI, SIDRequest(t) PROVE StreamInv'
  BY <1>7, StreamUnchanged DEF SIDRequest
<1>8. ASSUME NEW t \in Receiver, SectionComplete(t) PROVE StreamInv'
  BY <1>8, StreamUnchanged DEF SectionComplete
<1>9. ASSUME NEW t \in Receiver, DeliverNext(t) PROVE StreamInv'
  <2>1. UNCHANGED <<wire, oscam, link, part>> /\ msg[t] = NoMsg
    BY <1>9 DEF DeliverNext
  <2>2. PICK m : msg' = [msg EXCEPT ![t] = m]
    BY <1>9 DEF DeliverNext
  <2>. QED BY <1>0, <2>1, <2>2, StreamUnchanged
<1>10. ASSUME NEW t \in Receiver, DeliverReturns(t) PROVE StreamInv'
  BY <1>10, StreamUnchanged DEF DeliverReturns
<1>11. CASE Reconnects
  BY <1>11, StreamUnchanged DEF Reconnects
<1>12. CASE OpenStarts
  BY <1>12, StreamUnchanged DEF OpenStarts
<1>13. CASE OpenSucceeds
  <2>1. \A t \in Thread : part[t] = 0
    BY <1>0, <1>13 DEF SocketMutexInv, OpenSucceeds
  <2>2. link = "none"
    BY <1>13 DEF SocketMutexInv, OpenSucceeds
  <2>3. wire' = <<>> /\ oscam'.rx = NoMsg /\ part' = part
    BY <1>13, <2>2 DEF StreamInv, OpenSucceeds
  <2>. QED BY <2>1, <2>3, StreamCleared
<1>14. CASE OpenFails
  BY <1>14, StreamUnchanged DEF OpenFails
<1>15. CASE TimerExpires
  BY <1>15, StreamUnchanged DEF TimerExpires
<1>16. CASE Resyncs
  BY <1>16, StreamUnchanged DEF Resyncs
<1>17. CASE HearsFilter
  BY <1>17, StreamUnchanged DEF HearsFilter
<1>18. CASE HearsEnd
  BY <1>18, StreamUnchanged DEF HearsEnd
<1>19. CASE CloseTakesFd
  BY <1>19, StreamUnchanged DEF CloseTakesFd
<1>20. CASE ClosesFd
  <2>1. wire' = <<>> /\ oscam'.rx = NoMsg /\ link' # "up"
    BY <1>20 DEF ClosesFd, Fresh
  <2>. QED BY <2>1, StreamCleared
<1>21. CASE StopsAllFilters
  BY <1>21, StreamUnchanged DEF StopsAllFilters
<1>22. CASE OscamReads
  BY <1>22, StreamRead
<1>23. CASE OscamDrops
  <2>1. wire' = <<>> /\ oscam'.rx = NoMsg /\ link' # "up"
    BY <1>23 DEF OscamDrops, Fresh
  <2>. QED BY <2>1, StreamCleared
<1>24. CASE OscamStarts
  BY <1>24, StreamUnchanged DEF OscamStarts
<1>25. CASE UNCHANGED vars
  BY <1>25, StreamUnchanged DEF vars
<1>. QED
  BY <1>1, <1>2, <1>3, <1>4, <1>5, <1>6, <1>7, <1>8, <1>9, <1>10, <1>11, <1>12,
     <1>13, <1>14, <1>15, <1>16, <1>17, <1>18, <1>19, <1>20, <1>21, <1>22,
     <1>23, <1>24, <1>25
     DEF Next, WriteStep, SendAllStep, SocketStep

(***************************************************************************)
(* Messages of several threads never mix in the stream OSCam reads, also   *)
(* when the connection breaks in the middle of one.                        *)
(***************************************************************************)
THEOREM MessagesNeverMix == Spec => []MessagesWhole
<1>1. Init => SocketMutexInv /\ StreamInv
  BY InitSocketMutexInv, InitStreamInv
<1>2. TypeOK /\ TypeOK' /\ SocketMutexInv /\ StreamInv /\ [Next]_vars
        => (SocketMutexInv /\ StreamInv)'
  BY StepSocketMutexInv, StepStreamInv
<1>3. StreamInv => MessagesWhole
  BY DEF StreamInv
<1>. QED BY <1>1, <1>2, <1>3, TypeCorrect, PTL DEF Spec
-----------------------------------------------------------------------------
(***************************************************************************)
(* A section never reaches a connection other than the one on which OSCam  *)
(* set its filter: a theorem about OscamLink, for every number of          *)
(* adapters, filters and connections.                                      *)
(*                                                                         *)
(* CloseConnection cannot stop the filters before it has closed the        *)
(* descriptor, and a receive thread may be in Deliver all the while.  What *)
(* saves it is the order: the socket thread gets cDvbapiFilter::mutex, and *)
(* so has waited for Deliver, before it may connect again.                 *)
(***************************************************************************)


\* Not connected, and done with the last connection.
Disconnected == sock = 0 /\ pc[Sock] \notin {"closed", "unfilter"}

\* The filters are those of the present connection, or of the one that is
\* being closed; after that there are none.
FiltersInv ==
  /\ sock # 0 => sock = sessions
  /\ \A f \in Filters : filters[f] \in {0, sessions}
  /\ Disconnected => \A f \in Filters : filters[f] = 0

\* A receive thread in Deliver holds the mutex, and what it has still to serve
\* is set.
DeliverInv ==
  \A t \in Receiver :
    /\ msg[t] # NoMsg => pc[t] = "delivering"
    /\ pc[t] = "delivering" =>
         /\ filterOwner = t /\ ~Disconnected
         /\ \A f \in todo[t] : filters[f] # 0

IsData(m) == m.kind = "FILTER_DATA"

\* What is on its way to the socket, and what is on the stream.
DataInv ==
  /\ \A t \in Thread : IsData(msg[t]) => t \in Receiver /\ msg[t].session = sessions
  /\ \A i \in DOMAIN wire : IsData(wire[i].msg) => wire[i].msg.session = sessions

FilterInv == FiltersInv /\ DeliverInv /\ DataInv
-----------------------------------------------------------------------------
LEMMA OnlyDataIsData ==
  /\ ~IsData(NoMsg) /\ ~IsData(ClientInfo)
  /\ \A v : ~IsData(Stop(v))
  /\ \A a, b, obj, v : ~IsData(CaPmtMsg(a, b, obj, v))
  /\ \A f, s : IsData(FilterData(f, s)) /\ FilterData(f, s).session = s
BY DEF IsData, NoMsg, ClientInfo, Stop, CaPmtMsg, FilterData

LEMMA InitFilterInv == Init => FilterInv
BY ThreadKinds, OnlyDataIsData
   DEF Init, FilterInv, FiltersInv, DeliverInv, DataInv

(* A step that sets no filter and delivers nothing new, and that neither   *)
(* begins nor ends a connection.                                           *)
LEMMA FiltersUntouched ==
  ASSUME FilterInv,
         UNCHANGED <<sock, sessions, filters, filterOwner, todo>>,
         Disconnected' => Disconnected,
         \A t \in Receiver : pc'[t] = pc[t] /\ msg'[t] \in {msg[t], NoMsg},
         \A t \in Thread \ Receiver : msg'[t] = msg[t] \/ ~IsData(msg'[t]),
         \A i \in DOMAIN wire' : \E j \in DOMAIN wire : wire'[i] = wire[j]
  PROVE  FilterInv'
<1>1. FiltersInv'
  BY DEF FilterInv, FiltersInv
<1>2. DeliverInv'
  BY DEF FilterInv, DeliverInv
<1>3. DataInv'
  BY OnlyDataIsData DEF FilterInv, DataInv
<1>. QED BY <1>1, <1>2, <1>3 DEF FilterInv

LEMMA StepFilterInv ==
  TypeOK /\ SocketMutexInv /\ FilterInv /\ [Next]_vars => FilterInv'
<1>. SUFFICES ASSUME TypeOK, SocketMutexInv, FilterInv, [Next]_vars PROVE FilterInv'
  OBVIOUS
<1>. USE ThreadKinds, OnlyDataIsData
<1>. USE DEF locks, calls, state, kernel, peer, ghosts
<1>0. /\ msg \in [Thread -> Message \cup {NoMsg}] /\ pc \in [Thread -> PC]
      /\ part \in [Thread -> 0 .. 2] /\ todo \in [Thread -> SUBSET Filters]
      /\ filters \in [Filters -> Nat] /\ wire \in Seq(Part) /\ sessions \in Nat
      /\ sock \in Nat
  BY DEF TypeOK
<1>1. ASSUME NEW t \in Thread, WriteDrops(t) \/ WriteStarts(t) \/ SendFails(t)
      PROVE  FilterInv'
  <2>1. /\ UNCHANGED <<sock, sessions, filters, filterOwner, todo, pc, wire>>
        /\ msg' = msg \/ msg' = [msg EXCEPT ![t] = NoMsg]
    BY <1>1 DEF WriteDrops, WriteStarts, SendFails, WriteReturns
  <2>. QED BY <1>0, <2>1, FiltersUntouched DEF Disconnected
<1>2. ASSUME NEW t \in Thread, SendsPart(t) PROVE FilterInv'
  <2>1. /\ UNCHANGED <<sock, sessions, filters, filterOwner, todo, pc>>
        /\ msg' = msg \/ msg' = [msg EXCEPT ![t] = NoMsg]
    BY <1>2 DEF SendsPart, WriteReturns
  <2>2. \A i \in DOMAIN wire' : wire'[i].msg = msg[t] \/ \E j \in DOMAIN wire : wire'[i] = wire[j]
    <3>1. CASE wire' = wire
      BY <3>1
    <3>2. CASE wire' = Append(wire, [msg |-> msg[t], part |-> part[t]])
      BY <1>0, <3>2
    <3>. QED BY <1>2, <3>1, <3>2 DEF SendsPart
  <2>3. FiltersInv' /\ DeliverInv'
    BY <1>0, <2>1 DEF FilterInv, FiltersInv, DeliverInv, Disconnected
  <2>4. DataInv'
    BY <1>0, <2>1, <2>2 DEF FilterInv, DataInv
  <2>. QED BY <2>3, <2>4 DEF FilterInv
<1>3. ASSUME NEW t \in CI \cup {Sock}, SendNext(t) PROVE FilterInv'
  <2>1. PICK m : msg' = [msg EXCEPT ![t] = m] /\ ~IsData(m)
    BY <1>3 DEF SendNext
  <2>2. UNCHANGED <<sock, sessions, filters, filterOwner, todo, pc, wire>>
    BY <1>3 DEF SendNext
  <2>. QED BY <1>0, <2>1, <2>2, FiltersUntouched DEF Disconnected
<1>4. ASSUME NEW t \in CI \cup {Sock}, SendAllReturns(t) PROVE FilterInv'
  <2>1. /\ UNCHANGED <<sock, sessions, filters, filterOwner, todo, msg, wire>>
        /\ pc[t] = "sending" /\ pc' = [pc EXCEPT ![t] = "idle"]
    BY <1>4 DEF SendAllReturns
  <2>2. Disconnected' => Disconnected
    BY <1>0, <2>1 DEF Disconnected
  <2>. QED BY <1>0, <2>1, <2>2, FiltersUntouched
<1>5. ASSUME NEW t \in CI, SIDRequest(t) PROVE FilterInv'
  <2>1. /\ UNCHANGED <<sock, sessions, filters, filterOwner, todo, msg, wire>>
        /\ \A u \in Thread : u # t => pc'[u] = pc[u]
    BY <1>0, <1>5 DEF SIDRequest
  <2>2. Disconnected' => Disconnected
    BY <2>1 DEF Disconnected
  <2>. QED BY <2>1, <2>2, FiltersUntouched
<1>6. ASSUME NEW t \in Receiver, SectionComplete(t) PROVE FilterInv'
  <2>1. /\ filterOwner' = t /\ pc' = [pc EXCEPT ![t] = "delivering"]
        /\ UNCHANGED <<sock, sessions, filters, msg, wire>>
        /\ filterOwner = Free
    BY <1>6 DEF SectionComplete
  <2>2. PICK S \in SUBSET {f \in Filters : f[1] = t[2] /\ filters[f] # 0} :
          S # {} /\ todo' = [todo EXCEPT ![t] = S]
    BY <1>6 DEF SectionComplete
  <2>3. Disconnected' = Disconnected
    BY <1>0, <2>1 DEF Disconnected
  <2>4. ~Disconnected
    BY <2>2 DEF FilterInv, FiltersInv
  <2>5. \A u \in Receiver : pc[u] # "delivering"
    BY <2>1 DEF FilterInv, DeliverInv
  <2>6. DeliverInv'
    BY <1>0, <2>1, <2>2, <2>3, <2>4, <2>5 DEF FilterInv, DeliverInv
  <2>7. FiltersInv' /\ DataInv'
    BY <2>1, <2>3 DEF FilterInv, FiltersInv, DataInv
  <2>. QED BY <2>6, <2>7 DEF FilterInv
<1>7. ASSUME NEW t \in Receiver, DeliverNext(t) PROVE FilterInv'
  <2>1. PICK f \in todo[t] : /\ todo' = [todo EXCEPT ![t] = @ \ {f}]
                             /\ msg' = [msg EXCEPT ![t] = FilterData(f, filters[f])]
    BY <1>7 DEF DeliverNext
  <2>2. UNCHANGED <<sock, sessions, filters, filterOwner, pc, wire>> /\ pc[t] = "delivering"
    BY <1>7 DEF DeliverNext
  <2>3. filters[f] = sessions
    BY <1>0, <2>1, <2>2 DEF FilterInv, FiltersInv, DeliverInv
  <2>4. FiltersInv' /\ DeliverInv'
    BY <1>0, <2>1, <2>2 DEF FilterInv, FiltersInv, DeliverInv, Disconnected
  <2>5. DataInv'
    BY <1>0, <2>1, <2>2, <2>3 DEF FilterInv, DataInv
  <2>. QED BY <2>4, <2>5 DEF FilterInv
<1>8. ASSUME NEW t \in Receiver, DeliverReturns(t) PROVE FilterInv'
  <2>1. /\ filterOwner' = Free /\ pc' = [pc EXCEPT ![t] = "idle"]
        /\ UNCHANGED <<sock, sessions, filters, msg, todo, wire>>
        /\ pc[t] = "delivering" /\ msg[t] = NoMsg
    BY <1>8 DEF DeliverReturns
  <2>2. Disconnected' = Disconnected
    BY <1>0, <2>1 DEF Disconnected
  <2>3. \A u \in Receiver : u # t => pc[u] # "delivering"
    BY <2>1 DEF FilterInv, DeliverInv
  <2>4. DeliverInv'
    BY <1>0, <2>1, <2>2, <2>3 DEF FilterInv, DeliverInv
  <2>5. FiltersInv' /\ DataInv'
    BY <2>1, <2>2 DEF FilterInv, FiltersInv, DataInv
  <2>. QED BY <2>4, <2>5 DEF FilterInv
<1>9. CASE Reconnects \/ OpenStarts \/ OpenFails \/ Resyncs \/ HearsEnd
  <2>1. /\ UNCHANGED <<sock, sessions, filters, filterOwner, todo, msg, wire>>
        /\ \A u \in Thread : u # Sock => pc'[u] = pc[u]
        /\ sock = 0 => pc[Sock] \notin {"closed", "unfilter"}
    BY <1>0, <1>9 DEF Reconnects, OpenStarts, OpenFails, Resyncs, HearsEnd
  <2>2. Disconnected' => Disconnected
    BY <2>1 DEF Disconnected
  <2>. QED BY <2>1, <2>2, FiltersUntouched
<1>10. CASE OpenSucceeds
  <2>1. /\ sessions' = sessions + 1 /\ sock' = sessions + 1 /\ wire' = <<>>
        /\ pc[Sock] = "connecting" /\ pc' = [pc EXCEPT ![Sock] = "greeting"]
        /\ msg' = [msg EXCEPT ![Sock] = ClientInfo]
        /\ UNCHANGED <<filters, filterOwner, todo>>
    BY <1>10 DEF OpenSucceeds
  <2>2. Disconnected /\ ~Disconnected'
    BY <1>0, <2>1 DEF Disconnected, SocketMutexInv
  <2>3. \A t \in Receiver : pc[t] # "delivering" /\ msg[t] = NoMsg
    BY <2>2 DEF FilterInv, DeliverInv
  <2>4. FiltersInv'
    BY <2>1, <2>2 DEF FilterInv, FiltersInv
  <2>5. DeliverInv'
    BY <1>0, <2>1, <2>3 DEF DeliverInv
  <2>6. \A t \in Thread : ~IsData(msg'[t])
    BY <1>0, <2>1, <2>3 DEF FilterInv, DataInv
  <2>7. DataInv'
    BY <2>1, <2>6 DEF DataInv
  <2>. QED BY <2>4, <2>5, <2>7 DEF FilterInv
<1>11. CASE HearsFilter
  <2>1. /\ UNCHANGED <<sock, sessions, filterOwner, todo, pc, msg, wire>>
        /\ sock # 0 /\ filterOwner = Free
    BY <1>11 DEF HearsFilter
  <2>2. PICK f \in Filters, s \in {0, sock} : filters' = [filters EXCEPT ![f] = s]
    BY <1>11 DEF HearsFilter
  <2>3. FiltersInv'
    BY <1>0, <2>1, <2>2 DEF FilterInv, FiltersInv, Disconnected
  <2>4. \A t \in Receiver : pc[t] # "delivering"
    BY <2>1 DEF FilterInv, DeliverInv
  <2>5. DeliverInv'
    BY <2>1, <2>4 DEF FilterInv, DeliverInv
  <2>6. DataInv'
    BY <2>1 DEF FilterInv, DataInv
  <2>. QED BY <2>3, <2>5, <2>6 DEF FilterInv
<1>12. CASE CloseTakesFd
  <2>1. /\ UNCHANGED <<sessions, filters, filterOwner, todo, msg, wire>>
        /\ sock' = 0 /\ pc' = [pc EXCEPT ![Sock] = "closed"]
        /\ pc[Sock] = "closing"
    BY <1>12 DEF CloseTakesFd
  <2>2. ~Disconnected'
    BY <1>0, <2>1 DEF Disconnected
  <2>3. FiltersInv' /\ DataInv'
    BY <2>1, <2>2 DEF FilterInv, FiltersInv, DataInv
  <2>4. DeliverInv'
    BY <1>0, <2>1, <2>2 DEF FilterInv, DeliverInv
  <2>. QED BY <2>3, <2>4 DEF FilterInv
<1>13. CASE ClosesFd
  <2>1. /\ UNCHANGED <<sock, sessions, filters, filterOwner, todo, msg>>
        /\ wire' = <<>> /\ pc' = [pc EXCEPT ![Sock] = "unfilter"]
    BY <1>13 DEF ClosesFd
  <2>2. ~Disconnected'
    BY <1>0, <2>1 DEF Disconnected
  <2>. QED BY <1>0, <2>1, <2>2, FiltersUntouched
<1>14. CASE StopsAllFilters
  <2>1. /\ UNCHANGED <<sock, sessions, filterOwner, todo, msg, wire>>
        /\ filters' = [f \in Filters |-> 0] /\ filterOwner = Free
        /\ pc' = [pc EXCEPT ![Sock] = "idle"]
    BY <1>14 DEF StopsAllFilters
  <2>2. \A t \in Receiver : pc[t] # "delivering" /\ msg[t] = NoMsg
    BY <2>1 DEF FilterInv, DeliverInv
  <2>3. FiltersInv' /\ DataInv'
    BY <2>1 DEF FilterInv, FiltersInv, DataInv
  <2>4. DeliverInv'
    BY <1>0, <2>1, <2>2 DEF DeliverInv
  <2>. QED BY <2>3, <2>4 DEF FilterInv
<1>15. CASE OscamReads
  <2>1. /\ UNCHANGED <<sock, sessions, filters, filterOwner, todo, msg, pc>>
        /\ wire # <<>> /\ wire' = Tail(wire)
    BY <1>15 DEF OscamReads
  <2>2. \A i \in DOMAIN wire' : i + 1 \in DOMAIN wire /\ wire'[i] = wire[i + 1]
    BY <1>0, <2>1
  <2>. QED BY <2>1, <2>2, FiltersUntouched DEF Disconnected
<1>16. CASE OscamDrops
  <2>1. /\ UNCHANGED <<sock, sessions, filters, filterOwner, todo, msg, pc>>
        /\ wire' = <<>>
    BY <1>16 DEF OscamDrops
  <2>. QED BY <2>1, FiltersUntouched DEF Disconnected
<1>17. CASE TimerExpires \/ OscamStarts \/ UNCHANGED vars
  <2>1. UNCHANGED <<sock, sessions, filters, filterOwner, todo, msg, pc, wire>>
    BY <1>17 DEF TimerExpires, OscamStarts, vars
  <2>. QED BY <2>1, FiltersUntouched DEF Disconnected
<1>. QED
  BY <1>1, <1>2, <1>3, <1>4, <1>5, <1>6, <1>7, <1>8, <1>9, <1>10, <1>11, <1>12,
     <1>13, <1>14, <1>15, <1>16, <1>17
     DEF Next, WriteStep, SendAllStep, SocketStep

(***************************************************************************)
(* A connection carries only sections for filters that were set on it,     *)
(* whatever the receive threads were doing when the last one was lost.     *)
(***************************************************************************)
THEOREM DataOfThisSession == Spec => []FilterDataOfThisSession
<1>1. FilterInv => FilterDataOfThisSession
  BY DEF FilterInv, DataInv, IsData, FilterDataOfThisSession
<1>2. Spec => []SocketMutexInv
  BY TypeCorrect, InitSocketMutexInv, StepSocketMutexInv, PTL DEF Spec
<1>. QED BY <1>1, <1>2, TypeCorrect, InitFilterInv, StepFilterInv, PTL DEF Spec
-----------------------------------------------------------------------------
(***************************************************************************)
(* OscamLink implements ServiceList, for every number of adapters,         *)
(* services, requests and connections: whatever the threads, the locks and *)
(* the connection do, OSCam works with a list that was asked for, whole    *)
(* once it got a whole one on its connection, and never with an older one  *)
(* than before.                                                            *)
(*                                                                         *)
(* The list messages are numbered: message k of list v.  A connection      *)
(* carries them one after the other, from wherever SendAll was when it     *)
(* began.                                                                  *)
(***************************************************************************)


\* The messages that SendAll sends for a list, the one of version v.
Count(list) == IF list = <<>> THEN 1 ELSE Len(list)
ServiceMsg(list, v, k) ==
  IF list = <<>> THEN Stop(v) ELSE CaPmtMsg(k = 1, k = Len(list), list[k], v)

IsListMsg(m) == m.kind \in {"STOP_DESCRAMBLING", "CA_PMT"}

\* Who is in SendAll has CAPMT::mutex, so that the list stays as it is.
SenderInv ==
  /\ pmt = asked[Len(asked)]
  /\ \A t \in CI \cup {Sock} :
       /\ pc[t] = "sending" <=> pmtOwner = t
       /\ pmtOwner = t =>
            /\ pos[t] \in 1 .. Count(pmt) + 1
            /\ msg[t] # NoMsg =>
                 pos[t] > 1 /\ msg[t] = ServiceMsg(pmt, Len(asked), pos[t] - 1)
  /\ \A t \in CI : msg[t] # NoMsg => t = pmtOwner
  /\ \A t \in Thread : IsListMsg(msg[t]) => t = pmtOwner

\* How many messages of the present list are sent, or dropped.
Sent ==
  IF pmtOwner = Free THEN 0
  ELSE IF msg[pmtOwner] = NoMsg THEN pos[pmtOwner] - 1 ELSE pos[pmtOwner] - 2
-----------------------------------------------------------------------------
LEMMA ListMessages ==
  /\ ~IsListMsg(NoMsg) /\ ~IsListMsg(ClientInfo)
  /\ \A f, s : ~IsListMsg(FilterData(f, s))
  /\ \A list, v, k : IsListMsg(ServiceMsg(list, v, k)) /\ ServiceMsg(list, v, k) # NoMsg
BY DEF IsListMsg, NoMsg, ClientInfo, FilterData, ServiceMsg, Stop, CaPmtMsg

(* A request after which nothing is sent has changed nothing.              *)
LEMMA NotResent ==
  ASSUME NEW list, NEW r, ~Resends(list, r)
  PROVE  Updated(list, r) = list
BY DEF Resends, Updated, Adds, Erased

LEMMA CountType == \A list \in Seq(PmtObj) : Count(list) \in Nat \ {0}
<1> SUFFICES ASSUME NEW list \in Seq(PmtObj) PROVE Count(list) \in Nat \ {0}
  OBVIOUS
<1>1. Len(list) \in Nat /\ (list # <<>> => Len(list) # 0)
  OBVIOUS
<1>. QED BY <1>1 DEF Count

LEMMA InitSenderInv == Init => SenderInv
BY ThreadKinds, ListMessages DEF Init, SenderInv

(* A step that leaves the list, its mutex and who sends it alone.          *)
LEMMA SenderStays ==
  ASSUME SenderInv, UNCHANGED <<pmt, asked, pmtOwner>>,
         \A t \in CI \cup {Sock} :
           /\ pc'[t] = "sending" <=> pc[t] = "sending"
           /\ pmtOwner = t => pos'[t] = pos[t] /\ msg'[t] \in {msg[t], NoMsg}
           /\ t # Sock => msg'[t] \in {msg[t], NoMsg},
         \A t \in Thread : msg'[t] = msg[t] \/ ~IsListMsg(msg'[t])
  PROVE  SenderInv'
<1>1. ASSUME NEW t \in CI \cup {Sock}, pmtOwner = t, msg'[t] # NoMsg
      PROVE  msg'[t] = ServiceMsg(pmt, Len(asked), pos[t] - 1) /\ pos[t] > 1
  BY <1>1 DEF SenderInv
<1>2. \A t \in CI : msg'[t] # NoMsg => t = pmtOwner
  BY ThreadKinds DEF SenderInv
<1>3. \A t \in Thread : IsListMsg(msg'[t]) => t = pmtOwner
  BY DEF SenderInv
<1>. QED BY <1>1, <1>2, <1>3 DEF SenderInv

LEMMA StepSenderInv ==
  TypeOK /\ SenderInv /\ [Next]_vars => SenderInv'
<1> SUFFICES ASSUME TypeOK, SenderInv, [Next]_vars PROVE SenderInv'
  OBVIOUS
<1> USE ThreadKinds, ListMessages
<1> USE DEF locks, calls, state, kernel, peer, ghosts
<1>0. /\ pc \in [Thread -> PC] /\ msg \in [Thread -> Message \cup {NoMsg}]
      /\ pos \in [Thread -> Nat] /\ pmt \in Seq(PmtObj)
      /\ asked \in Seq(Seq(PmtObj)) /\ asked # <<>>
      /\ pmtOwner \in {Free, Sock} \cup CI
  BY DEF TypeOK
<1>1. ASSUME NEW t \in Thread, WriteDrops(t) PROVE SenderInv'
  BY <1>0, <1>1, SenderStays DEF WriteDrops
<1>2. ASSUME NEW t \in Thread, WriteStarts(t) PROVE SenderInv'
  BY <1>0, <1>2, SenderStays DEF WriteStarts
<1>3. ASSUME NEW t \in Thread, SendsPart(t) PROVE SenderInv'
  <2>1. msg' = msg \/ msg' = [msg EXCEPT ![t] = NoMsg]
    BY <1>3 DEF SendsPart, WriteReturns
  <2>. QED BY <1>0, <1>3, <2>1, SenderStays DEF SendsPart
<1>4. ASSUME NEW t \in Thread, SendFails(t) PROVE SenderInv'
  BY <1>0, <1>4, SenderStays DEF SendFails, WriteReturns
<1>5. ASSUME NEW t \in CI \cup {Sock}, SendNext(t) PROVE SenderInv'
  <2> DEFINE m == ServiceMsg(pmt, Len(asked), pos[t])
  <2>1. t = pmtOwner /\ pos[t] \in 1 .. Count(pmt)
    <3>1. t = pmtOwner /\ pos[t] \in 1 .. Count(pmt) + 1
      BY <1>5 DEF SenderInv, SendNext
    <3>2. (pmt = <<>> /\ pos[t] = 1) \/ pos[t] \in DOMAIN pmt
      BY <1>5 DEF SendNext
    <3>3. DOMAIN pmt = 1 .. Len(pmt) /\ (pmt = <<>> => Len(pmt) = 0)
      BY <1>0
    <3>. QED BY <3>1, <3>2, <3>3 DEF Count
  <2>2. msg' = [msg EXCEPT ![t] = m]
    <3>1. CASE pmt = <<>> /\ pos[t] = 1
      BY <1>5, <3>1 DEF SendNext, ServiceMsg
    <3>2. CASE pos[t] \in DOMAIN pmt
      <4>1. pmt # <<>>
        BY <3>2
      <4>. QED BY <1>5, <3>2, <4>1 DEF SendNext, ServiceMsg
    <3>. QED BY <1>5, <3>1, <3>2 DEF SendNext
  <2>3. pos' = [pos EXCEPT ![t] = @ + 1] /\ UNCHANGED <<pmt, asked, pmtOwner, pc>>
    BY <1>5 DEF SendNext
  <2>4. pos'[t] \in 1 .. Count(pmt) + 1 /\ pos'[t] > 1 /\ pos'[t] - 1 = pos[t]
    <3>1. Count(pmt) \in Nat
      BY <1>0, CountType
    <3>2. pos'[t] = pos[t] + 1
      BY <1>0, <2>3
    <3>. QED BY <2>1, <3>1, <3>2
  <2> HIDE DEF m
  <2>5. \A u \in CI \cup {Sock} : u # t => pmtOwner # u
    BY <2>1
  <2>6. \A u \in Thread : u # t => msg'[u] = msg[u]
    BY <1>0, <2>2
  <2>7. msg'[t] = m
    BY <1>0, <2>2
  <2>. QED BY <2>1, <2>3, <2>4, <2>5, <2>6, <2>7 DEF SenderInv, m
<1>6. ASSUME NEW t \in CI \cup {Sock}, SendAllReturns(t) PROVE SenderInv'
  <2>1. pmtOwner = t /\ msg[t] = NoMsg
    BY <1>6 DEF SenderInv, SendAllReturns
  <2>. QED BY <1>0, <1>6, <2>1 DEF SenderInv, SendAllReturns
<1>7. ASSUME NEW t \in CI, SIDRequest(t) PROVE SenderInv'
  <2>1. PICK r \in Request :
          /\ pmt' = Updated(pmt, r)
          /\ IF Resends(pmt, r)
               THEN /\ pmtOwner' = t /\ asked' = Append(asked, pmt')
                    /\ pc' = [pc EXCEPT ![t] = "sending"]
                    /\ pos' = [pos EXCEPT ![t] = 1]
               ELSE UNCHANGED <<pmtOwner, asked, pc, pos>>
    BY <1>7 DEF SIDRequest
  <2>2. pmtOwner = Free /\ pc[t] = "idle" /\ msg' = msg
    BY <1>7 DEF SIDRequest
  <2>3. CASE ~Resends(pmt, r)
    <3>1. pmt' = pmt
      BY <2>1, <2>3, NotResent
    <3>. QED BY <2>1, <2>2, <2>3, <3>1, SenderStays
  <2>4. CASE Resends(pmt, r)
    <3>1. pmt' \in Seq(PmtObj)
      BY <1>0, <2>1, UpdatedType
    <3>2. asked'[Len(asked')] = pmt'
      BY <1>0, <2>1, <2>4, <3>1
    <3>3. \A u \in Thread : ~IsListMsg(msg[u])
      BY <2>2 DEF SenderInv
    <3>4. msg[t] = NoMsg /\ \A u \in CI \cup {Sock} : pmtOwner # u
      BY <1>0, <2>2 DEF SenderInv
    <3>5. Count(pmt') \in Nat \ {0}
      BY <3>1, CountType
    <3>6. pmtOwner' = t /\ pc'[t] = "sending" /\ pos'[t] = 1 /\ msg'[t] = NoMsg
      BY <1>0, <2>1, <2>2, <2>4, <3>4
    <3>7. \A u \in CI \cup {Sock} : u # t => pc'[u] = pc[u] /\ pmtOwner' # u
      BY <1>0, <2>1, <2>4
    <3>. QED BY <2>2, <3>2, <3>3, <3>4, <3>5, <3>6, <3>7 DEF SenderInv
  <2>. QED BY <2>3, <2>4
<1>8. ASSUME NEW t \in Receiver, SectionComplete(t) PROVE SenderInv'
  BY <1>0, <1>8, SenderStays DEF SectionComplete
<1>9. ASSUME NEW t \in Receiver, DeliverNext(t) PROVE SenderInv'
  <2>1. PICK f : msg' = [msg EXCEPT ![t] = FilterData(f, filters[f])]
    BY <1>9 DEF DeliverNext
  <2>2. UNCHANGED <<pmt, asked, pmtOwner, pc, pos>>
    BY <1>9 DEF DeliverNext
  <2>3. \A u \in CI \cup {Sock} : msg'[u] = msg[u]
    BY <1>0, <2>1
  <2>. QED BY <1>0, <2>1, <2>2, <2>3, SenderStays
<1>10. ASSUME NEW t \in Receiver, DeliverReturns(t) PROVE SenderInv'
  BY <1>0, <1>10, SenderStays DEF DeliverReturns
<1>11. CASE Reconnects
  BY <1>0, <1>11, SenderStays DEF Reconnects
<1>12. CASE OpenStarts
  BY <1>0, <1>12, SenderStays DEF OpenStarts
<1>13. CASE OpenSucceeds
  <2>1. pmtOwner # Sock
    BY <1>13 DEF SenderInv, OpenSucceeds
  <2>. QED BY <1>0, <1>13, <2>1, SenderStays DEF OpenSucceeds
<1>14. CASE OpenFails
  BY <1>0, <1>14, SenderStays DEF OpenFails
<1>15. CASE TimerExpires
  BY <1>15, SenderStays DEF TimerExpires
<1>16. CASE Resyncs
  <2>1. /\ pmtOwner = Free /\ pmtOwner' = Sock /\ msg[Sock] = NoMsg
        /\ pc' = [pc EXCEPT ![Sock] = "sending"] /\ pos' = [pos EXCEPT ![Sock] = 1]
        /\ UNCHANGED <<msg, pmt, asked>>
    BY <1>16 DEF Resyncs
  <2>2. pos'[Sock] \in 1 .. Count(pmt) + 1
    <3>1. Count(pmt) \in Nat
      BY <1>0, CountType
    <3>. QED BY <1>0, <2>1, <3>1
  <2>. QED BY <1>0, <2>1, <2>2 DEF SenderInv
<1>17. CASE HearsFilter
  BY <1>17, SenderStays DEF HearsFilter
<1>18. CASE HearsEnd
  BY <1>0, <1>18, SenderStays DEF HearsEnd
<1>19. CASE CloseTakesFd
  BY <1>0, <1>19, SenderStays DEF CloseTakesFd
<1>20. CASE ClosesFd
  BY <1>0, <1>20, SenderStays DEF ClosesFd
<1>21. CASE StopsAllFilters
  BY <1>0, <1>21, SenderStays DEF StopsAllFilters
<1>22. CASE OscamReads
  BY <1>22, SenderStays DEF OscamReads
<1>23. CASE OscamDrops
  BY <1>23, SenderStays DEF OscamDrops
<1>24. CASE OscamStarts
  BY <1>24, SenderStays DEF OscamStarts
<1>25. CASE UNCHANGED vars
  BY <1>25, SenderStays DEF vars
<1>. QED
  BY <1>1, <1>2, <1>3, <1>4, <1>5, <1>6, <1>7, <1>8, <1>9, <1>10, <1>11, <1>12,
     <1>13, <1>14, <1>15, <1>16, <1>17, <1>18, <1>19, <1>20, <1>21, <1>22,
     <1>23, <1>24, <1>25
     DEF Next, WriteStep, SendAllStep, SocketStep
-----------------------------------------------------------------------------
(* The stream, message by message: v[i] and k[i] say which list message    *)
(* was the last one among the first i parts of the wire, or before them;   *)
(* v is 0 as long as the connection carried none.                          *)

IsListPart(p) == p.part = 2 /\ IsListMsg(p.msg)

Follows(v, k, w, l) ==
  \/ v = 0
  \/ w = v /\ l = k + 1
  \/ k = Count(asked[v]) /\ l = 1

Trace(v, k) ==
  /\ v \in [Nat -> Nat] /\ k \in [Nat -> Nat]
  /\ \A i \in 0 .. Len(wire) :
       v[i] # 0 => v[i] \in oscam.seen .. Len(asked) /\ k[i] \in 1 .. Count(asked[v[i]])
  /\ \A i, j \in 0 .. Len(wire) : i <= j => v[i] <= v[j]
  /\ \A i \in 1 .. Len(wire) :
       IF IsListPart(wire[i])
         THEN /\ v[i] # 0 /\ wire[i].msg = ServiceMsg(asked[v[i]], v[i], k[i])
              /\ Follows(v[i - 1], k[i - 1], v[i], k[i])
         ELSE v[i] = v[i - 1] /\ k[i] = k[i - 1]

\* What OSCam makes of the messages up to number k of list v.
Unstarted == oscam.open = "no" /\ oscam.list = <<>>
Holds(v, k) ==
  IF v = 0 THEN Unstarted /\ ~oscam.whole
  ELSE IF k = Count(asked[v]) THEN Unstarted
  ELSE \E s \in 1 .. k :
         /\ oscam.list = SubSeq(asked[v], s, k)
         /\ \/ oscam.open = "whole" /\ s = 1
            \/ oscam.open = "tail" /\ ~oscam.whole

\* The sender goes on where the wire ends.
UpToDate(v, k) ==
  link = "up" /\ sock # 0 /\ v # 0 =>
    IF Sent = 0 THEN k = Count(asked[v]) ELSE v = Len(asked) /\ k = Sent

Pipe(v, k) == Trace(v, k) /\ Holds(v[0], k[0]) /\ UpToDate(v[Len(wire)], k[Len(wire)])

PipeInv ==
  /\ oscam.seen <= Len(asked)
  /\ link \in {"none", "lost"} => Unstarted /\ ~oscam.whole
  /\ \E v, k : Pipe(v, k)
-----------------------------------------------------------------------------
LEMMA Basics ==
  TypeOK => /\ wire \in Seq(Part) /\ Len(wire) \in Nat
            /\ asked \in Seq(Seq(PmtObj)) /\ Len(asked) \in Nat \ {0}
            /\ oscam \in Session /\ oscam.seen \in Nat \ {0}
            /\ \A v \in 1 .. Len(asked) :
                 asked[v] \in Seq(PmtObj) /\ Count(asked[v]) \in Nat \ {0}
<1> SUFFICES ASSUME TypeOK
             PROVE  /\ wire \in Seq(Part) /\ Len(wire) \in Nat
                    /\ asked \in Seq(Seq(PmtObj)) /\ Len(asked) \in Nat \ {0}
                    /\ oscam \in Session /\ oscam.seen \in Nat \ {0}
                    /\ \A v \in 1 .. Len(asked) :
                         asked[v] \in Seq(PmtObj) /\ Count(asked[v]) \in Nat \ {0}
  OBVIOUS
<1>1. wire \in Seq(Part) /\ asked \in Seq(Seq(PmtObj)) /\ asked # <<>> /\ oscam \in Session
  BY DEF TypeOK
<1>2. oscam.seen \in Nat \ {0}
  BY <1>1 DEF Session
<1>3. Len(wire) \in Nat /\ Len(asked) \in Nat \ {0}
  BY <1>1
<1>4. \A v \in 1 .. Len(asked) : asked[v] \in Seq(PmtObj)
  BY <1>1
<1>. QED BY <1>1, <1>2, <1>3, <1>4, CountType

(* A step that neither writes to the wire nor reads from it, nor asks for  *)
(* another list.                                                           *)
LEMMA PipeStays ==
  ASSUME TypeOK, PipeInv, UNCHANGED <<wire, oscam, asked>>,
         link' \in {"none", "lost"} => link \in {"none", "lost"},
         link' = "up" /\ sock' # 0 => link = "up" /\ sock # 0 /\ Sent' = Sent
  PROVE  PipeInv'
<1>1. PICK v, k : Pipe(v, k)
  BY DEF PipeInv
<1>2. Trace(v, k)'
  BY <1>1 DEF Pipe, Trace, Follows
<1>3. Holds(v[0], k[0])' /\ UpToDate(v[Len(wire)], k[Len(wire)])'
  BY <1>1 DEF Pipe, Holds, UpToDate, Unstarted
<1>4. Pipe(v, k)'
  BY <1>2, <1>3 DEF Pipe
<1>. QED BY <1>4 DEF PipeInv, Unstarted

(* A connection begins or ends.                                            *)
LEMMA PipeFresh ==
  ASSUME TypeOK, PipeInv, wire' = <<>>, oscam'.seen = oscam.seen, asked' = asked,
         Unstarted', ~oscam'.whole
  PROVE  PipeInv'
<1> DEFINE z == [i \in Nat |-> 0]
<1>1. z \in [Nat -> Nat] /\ \A i \in Nat : z[i] = 0
  OBVIOUS
<1>2. Len(wire') = 0
  OBVIOUS
<1> HIDE DEF z
<1>3. Trace(z, z)'
  BY <1>1, <1>2 DEF Trace
<1>4. Holds(z[0], z[0])' /\ UpToDate(z[Len(wire)], z[Len(wire)])'
  BY <1>1, <1>2 DEF Holds, UpToDate, Unstarted
<1>5. Pipe(z, z)'
  BY <1>3, <1>4 DEF Pipe
<1>. QED BY <1>5 DEF PipeInv, Unstarted

(* The list changes: the wire and OSCam still have to do with the old ones.*)
LEMMA PipeAsks ==
  ASSUME TypeOK, PipeInv, NEW list, asked' = Append(asked, list),
         UNCHANGED <<wire, oscam, link, sock>>, Sent = 0, Sent' = 0
  PROVE  PipeInv'
<1>1. PICK v, k : Trace(v, k) /\ Holds(v[0], k[0]) /\ UpToDate(v[Len(wire)], k[Len(wire)])
  BY DEF PipeInv, Pipe
<1>2. Len(asked') = Len(asked) + 1 /\ \A i \in 1 .. Len(asked) : asked'[i] = asked[i]
  BY Basics
<1>3. ASSUME NEW i \in 0 .. Len(wire), v[i] # 0
      PROVE  /\ v[i] \in oscam.seen .. Len(asked) /\ v[i] \in 1 .. Len(asked)
             /\ k[i] \in 1 .. Count(asked[v[i]])
  <2>1. v[i] \in oscam.seen .. Len(asked) /\ k[i] \in 1 .. Count(asked[v[i]])
    BY <1>1, <1>3 DEF Trace
  <2>. QED BY <2>1, Basics
<1>4. \A i \in 0 .. Len(wire) : v[i] # 0 => asked'[v[i]] = asked[v[i]]
  BY <1>2, <1>3
<1>5. Trace(v, k)'
  <2>1. v \in [Nat -> Nat] /\ k \in [Nat -> Nat]
        /\ \A i, j \in 0 .. Len(wire) : i <= j => v[i] <= v[j]
    BY <1>1 DEF Trace
  <2>2. ASSUME NEW i \in 0 .. Len(wire), v[i] # 0
        PROVE  v[i] \in oscam.seen .. Len(asked') /\ k[i] \in 1 .. Count(asked'[v[i]])
    BY <1>2, <1>3, <1>4, <2>2, Basics
  <2>3. ASSUME NEW i \in 1 .. Len(wire)
        PROVE  IF IsListPart(wire[i])
                 THEN /\ v[i] # 0 /\ wire[i].msg = ServiceMsg(asked'[v[i]], v[i], k[i])
                      /\ \/ v[i - 1] = 0
                         \/ v[i] = v[i - 1] /\ k[i] = k[i - 1] + 1
                         \/ k[i - 1] = Count(asked'[v[i - 1]]) /\ k[i] = 1
                 ELSE v[i] = v[i - 1] /\ k[i] = k[i - 1]
    <3>1. i \in 0 .. Len(wire) /\ i - 1 \in 0 .. Len(wire)
      BY Basics
    <3>. QED BY <1>1, <1>4, <3>1 DEF Trace, Follows
  <2>. QED BY <2>1, <2>2, <2>3 DEF Trace, Follows
<1>6. Holds(v[0], k[0])'
  <2>1. 0 \in 0 .. Len(wire)
    BY Basics
  <2>. QED BY <1>1, <1>4, <2>1 DEF Holds, Unstarted
<1>7. UpToDate(v[Len(wire)], k[Len(wire)])'
  <2>1. Len(wire) \in 0 .. Len(wire)
    BY Basics
  <2>. QED BY <1>1, <1>4, <2>1 DEF UpToDate
<1>8. Pipe(v, k)'
  BY <1>5, <1>6, <1>7 DEF Pipe
<1>9. oscam.seen <= Len(asked')
  BY <1>2, Basics DEF PipeInv
<1>. QED BY <1>8, <1>9 DEF PipeInv, Unstarted

(* A thread has sent a part of a message: the wire gets it.                *)
LEMMA TraceAppended ==
  ASSUME TypeOK, NEW p \in Part, wire' = Append(wire, p), UNCHANGED <<oscam, asked>>,
         NEW v, NEW k, Trace(v, k), NEW w \in Nat, NEW l \in Nat,
         NEW n, n = Len(wire),
         IF IsListPart(p)
           THEN /\ w \in oscam.seen .. Len(asked) /\ l \in 1 .. Count(asked[w])
                /\ w # 0 /\ v[n] <= w /\ p.msg = ServiceMsg(asked[w], w, l)
                /\ Follows(v[n], k[n], w, l)
           ELSE w = v[n] /\ l = k[n]
  PROVE  Trace([v EXCEPT ![n + 1] = w], [k EXCEPT ![n + 1] = l])'
<1> DEFINE x == [v EXCEPT ![n + 1] = w]
           y == [k EXCEPT ![n + 1] = l]
<1>1. /\ n \in Nat /\ Len(wire') = n + 1 /\ wire'[n + 1] = p
      /\ \A i \in 1 .. n : wire'[i] = wire[i]
  BY DEF TypeOK
<1>2. v \in [Nat -> Nat] /\ k \in [Nat -> Nat]
  BY DEF Trace
<1>3. /\ x \in [Nat -> Nat] /\ y \in [Nat -> Nat]
      /\ x[n + 1] = w /\ y[n + 1] = l
      /\ \A i \in 0 .. n : x[i] = v[i] /\ y[i] = k[i]
  <2>1. n + 1 \in Nat /\ \A i \in 0 .. n : i \in Nat /\ i # n + 1
    BY <1>1
  <2>. QED BY <1>2, <2>1
<1> HIDE DEF x, y
<1>4. /\ w # 0 => w \in oscam.seen .. Len(asked) /\ l \in 1 .. Count(asked[w])
      /\ v[n] <= w /\ n \in 0 .. n
  <2>1. n \in 0 .. n /\ v[n] \in Nat
    BY <1>1, <1>2
  <2>2. CASE IsListPart(p)
    BY <2>1, <2>2
  <2>3. CASE ~IsListPart(p)
    <3>1. w = v[n] /\ l = k[n]
      BY <2>3
    <3>2. v[n] # 0 => v[n] \in oscam.seen .. Len(asked) /\ k[n] \in 1 .. Count(asked[v[n]])
      BY <2>1 DEF Trace
    <3>. QED BY <2>1, <3>1, <3>2
  <2>. QED BY <2>2, <2>3
<1>5. \A i \in 0 .. n + 1 :
        x[i] # 0 => x[i] \in oscam.seen .. Len(asked) /\ y[i] \in 1 .. Count(asked[x[i]])
  <2> SUFFICES ASSUME NEW i \in 0 .. n + 1, x[i] # 0
               PROVE  x[i] \in oscam.seen .. Len(asked) /\ y[i] \in 1 .. Count(asked[x[i]])
    OBVIOUS
  <2>1. CASE i = n + 1
    BY <1>3, <1>4, <2>1
  <2>2. CASE i # n + 1
    <3>1. i \in 0 .. n
      BY <1>1, <2>2
    <3>. QED BY <1>3, <3>1 DEF Trace
  <2>. QED BY <2>1, <2>2
<1>6. ASSUME NEW i \in 0 .. n + 1, NEW j \in 0 .. n + 1, i <= j
      PROVE  x[i] <= x[j]
  <2>1. CASE j \in 0 .. n
    <3>1. i \in 0 .. n
      BY <1>1, <1>6, <2>1
    <3>. QED BY <1>3, <1>6, <2>1, <3>1 DEF Trace
  <2>2. CASE j = n + 1 /\ i \in 0 .. n
    <3>1. v[i] <= v[n]
      BY <1>4, <1>6, <2>2, <1>1 DEF Trace
    <3>2. v[i] \in Nat /\ v[n] \in Nat
      BY <1>1, <1>2, <2>2
    <3>3. x[i] = v[i] /\ x[j] = w /\ v[n] <= w
      BY <1>3, <1>4, <2>2
    <3>. QED BY <3>1, <3>2, <3>3
  <2>3. CASE j = n + 1 /\ i = n + 1
    <3>1. x[i] = w /\ x[j] = w
      BY <1>3, <2>3
    <3>. QED BY <3>1
  <2>4. (j \in 0 .. n \/ j = n + 1) /\ (i \in 0 .. n \/ i = n + 1)
    BY <1>1
  <2>. QED BY <2>1, <2>2, <2>3, <2>4
<1>7. ASSUME NEW i \in 1 .. n + 1
      PROVE  IF IsListPart(wire'[i])
               THEN /\ x[i] # 0 /\ wire'[i].msg = ServiceMsg(asked[x[i]], x[i], y[i])
                    /\ Follows(x[i - 1], y[i - 1], x[i], y[i])
               ELSE x[i] = x[i - 1] /\ y[i] = y[i - 1]
  <2>1. CASE i = n + 1
    <3>1. i - 1 = n /\ n \in 0 .. n
      BY <1>1, <2>1
    <3>. QED BY <1>1, <1>3, <2>1, <3>1
  <2>2. CASE i # n + 1
    <3>1. i \in 1 .. n /\ i \in 0 .. n /\ i - 1 \in 0 .. n
      BY <1>1, <2>2
    <3>2. IF IsListPart(wire[i])
            THEN /\ v[i] # 0 /\ wire[i].msg = ServiceMsg(asked[v[i]], v[i], k[i])
                 /\ Follows(v[i - 1], k[i - 1], v[i], k[i])
            ELSE v[i] = v[i - 1] /\ k[i] = k[i - 1]
      BY <3>1 DEF Trace
    <3>. QED BY <1>1, <1>3, <3>1, <3>2
  <2>. QED BY <2>1, <2>2
<1>8. Trace(x, y)'
  BY <1>1, <1>3, <1>5, <1>6, <1>7 DEF Trace, Follows
<1>. QED BY <1>8 DEF x, y

(* OSCam has taken a part off the wire.                                    *)
LEMMA TraceRead ==
  ASSUME TypeOK, wire # <<>>, wire' = Tail(wire), asked' = asked,
         NEW v, NEW k, Trace(v, k),
         \/ oscam'.seen = oscam.seen
         \/ v[1] # 0 /\ oscam'.seen = v[1]
  PROVE  Trace([i \in Nat |-> v[i + 1]], [i \in Nat |-> k[i + 1]])'
<1> DEFINE x == [i \in Nat |-> v[i + 1]]
           y == [i \in Nat |-> k[i + 1]]
<1>1. /\ Len(wire) \in Nat \ {0} /\ Len(wire') = Len(wire) - 1
      /\ \A i \in 1 .. Len(wire) - 1 : wire'[i] = wire[i + 1]
  BY DEF TypeOK
<1>2. v \in [Nat -> Nat] /\ k \in [Nat -> Nat]
  BY DEF Trace
<1>3. /\ x \in [Nat -> Nat] /\ y \in [Nat -> Nat]
      /\ \A i \in Nat : x[i] = v[i + 1] /\ y[i] = k[i + 1]
  <2>1. ASSUME NEW i \in Nat PROVE v[i + 1] \in Nat /\ k[i + 1] \in Nat
    <3>1. i + 1 \in Nat
      OBVIOUS
    <3>. QED BY <1>2, <3>1
  <2>. QED BY <2>1
<1> HIDE DEF x, y
<1>4. \A i \in 0 .. Len(wire) - 1 : i \in Nat /\ i + 1 \in 0 .. Len(wire) /\ i + 1 \in 1 .. Len(wire)
  BY <1>1
<1>5. ASSUME NEW i \in 0 .. Len(wire) - 1, x[i] # 0
      PROVE  x[i] \in oscam'.seen .. Len(asked) /\ y[i] \in 1 .. Count(asked[x[i]])
  <2>1. x[i] = v[i + 1] /\ y[i] = k[i + 1] /\ i + 1 \in 0 .. Len(wire) /\ 1 \in 0 .. Len(wire)
    <3>1. i \in Nat /\ i + 1 \in 0 .. Len(wire) /\ 1 \in 0 .. Len(wire)
      BY <1>1
    <3>. QED BY <1>3, <3>1
  <2>2. v[i + 1] \in oscam.seen .. Len(asked) /\ k[i + 1] \in 1 .. Count(asked[v[i + 1]])
    BY <1>5, <2>1 DEF Trace
  <2>3. 1 <= i + 1
    BY <1>1
  <2>4. v[1] <= v[i + 1]
    BY <2>1, <2>3 DEF Trace
  <2>5. oscam'.seen <= v[i + 1]
    BY <2>2, <2>4
  <2>6. oscam'.seen \in Nat /\ v[i + 1] \in Nat
    <3>1. v[1] \in Nat /\ v[i + 1] \in Nat
      BY <1>2
    <3>. QED BY <3>1, Basics
  <2>. QED BY <2>1, <2>2, <2>5, <2>6
<1>6. ASSUME NEW i \in 0 .. Len(wire) - 1, NEW j \in 0 .. Len(wire) - 1, i <= j
      PROVE  x[i] <= x[j]
  <2>1. i + 1 <= j + 1
    BY <1>1, <1>6
  <2>. QED BY <1>3, <1>4, <2>1 DEF Trace
<1>7. ASSUME NEW i \in 1 .. Len(wire) - 1
      PROVE  IF IsListPart(wire'[i])
               THEN /\ x[i] # 0 /\ wire'[i].msg = ServiceMsg(asked[x[i]], x[i], y[i])
                    /\ Follows(x[i - 1], y[i - 1], x[i], y[i])
               ELSE x[i] = x[i - 1] /\ y[i] = y[i - 1]
  <2>1. i + 1 \in 1 .. Len(wire) /\ (i - 1) + 1 = i /\ (i + 1) - 1 = i /\ i - 1 \in Nat /\ i \in Nat
    BY <1>1
  <2>2. IF IsListPart(wire[i + 1])
          THEN /\ v[i + 1] # 0 /\ wire[i + 1].msg = ServiceMsg(asked[v[i + 1]], v[i + 1], k[i + 1])
               /\ Follows(v[i], k[i], v[i + 1], k[i + 1])
          ELSE v[i + 1] = v[i] /\ k[i + 1] = k[i]
    BY <2>1 DEF Trace
  <2>3. x[i] = v[i + 1] /\ y[i] = k[i + 1] /\ x[i - 1] = v[i] /\ y[i - 1] = k[i]
    BY <1>3, <2>1
  <2>. QED BY <1>1, <2>2, <2>3
<1>8. Trace(x, y)'
  BY <1>1, <1>3, <1>5, <1>6, <1>7 DEF Trace, Follows
<1>. QED BY <1>8 DEF x, y

(* What a list grows by when a service is added to its end.                *)
LEMMA LongerBy ==
  ASSUME NEW list \in Seq(PmtObj), NEW s \in Nat \ {0}, NEW k \in Nat, s <= k + 1, k < Len(list)
  PROVE  Append(SubSeq(list, s, k), list[k + 1]) = SubSeq(list, s, k + 1)
<1>1. s \in 1 .. Len(list) /\ k + 1 \in s .. Len(list) /\ (k + 1) - 1 = k
  OBVIOUS
<1>2. SubSeq(list, s, k + 1) = SubSeq(list, s, k) \o << list[k + 1] >>
  BY <1>1, SubSeqRecursiveSecond
<1>3. SubSeq(list, s, k) \in Seq(PmtObj) /\ list[k + 1] \in PmtObj
  <2>1. \A i \in s .. k : list[i] \in PmtObj
    OBVIOUS
  <2>. QED BY <2>1, SubSeqProperties
<1>. QED BY <1>2, <1>3, AppendIsConcat

LEMMA OfOne ==
  ASSUME NEW list \in Seq(PmtObj), NEW l \in 1 .. Len(list)
  PROVE  SubSeq(list, l, l) = << list[l] >>
<1>1. SubSeq(list, l, l - 1) = <<>>
  BY SubSeqEmpty
<1>2. Append(<<>>, list[l]) = SubSeq(list, l, l)
  <2>1. l - 1 \in Nat /\ l <= (l - 1) + 1 /\ l - 1 < Len(list) /\ (l - 1) + 1 = l
    OBVIOUS
  <2>. QED BY <1>1, <2>1, LongerBy
<1>3. Append(<<>>, list[l]) = << list[l] >>
  OBVIOUS
<1>. QED BY <1>2, <1>3

(* OSCam applies message l of list w: what it then has is the list, whole  *)
(* or, at the start of a connection, its tail.                             *)
LEMMA ListApplied ==
  ASSUME TypeOK, NEW v \in Nat, NEW k \in Nat, Holds(v, k),
         NEW w \in oscam.seen .. Len(asked), NEW l \in 1 .. Count(asked[w]),
         v # 0 => k \in 1 .. Count(asked[v]),
         Follows(v, k, w, l), UNCHANGED asked,
         oscam' = Applied(ServiceMsg(asked[w], w, l))
  PROVE  /\ Holds(w, l)' /\ oscam'.seen \in {oscam.seen, w}
         /\ SL!Announce \/ UNCHANGED SL!slvars
<1>0. /\ w \in Nat \ {0} /\ w <= Len(asked) /\ w >= oscam.seen
      /\ asked[w] \in Seq(PmtObj) /\ Count(asked[w]) \in Nat \ {0}
      /\ oscam \in Session
  BY Basics
<1> DEFINE list == asked[w]
           m == ServiceMsg(list, w, l)
           next == oscam'
<1>1. CASE list = <<>>
  <2>1. l = 1 /\ Count(list) = 1 /\ m = Stop(w)
    BY <1>1 DEF Count, ServiceMsg
  <2>2. m.kind = "STOP_DESCRAMBLING" /\ m.ver = w
    BY <2>1 DEF Stop
  <2>3. /\ next.open = "no" /\ next.list = <<>> /\ next.have = <<>>
        /\ next.whole = TRUE /\ next.seen = w
    BY <1>0, <2>2 DEF Applied, Session
  <2>4. Holds(w, l)'
    BY <1>0, <2>1, <2>3 DEF Holds, Unstarted
  <2>5. SL!Announce
    BY <1>0, <1>1, <2>3 DEF SL!Announce
  <2>. QED BY <2>3, <2>4, <2>5
<1>2. CASE list # <<>>
  <2> HIDE DEF list
  <2>0. list \in Seq(PmtObj) /\ Count(list) = Len(list) /\ Len(list) \in Nat \ {0}
        /\ l \in 1 .. Len(list) /\ list[l] \in PmtObj
    <3>1. list \in Seq(PmtObj) /\ Count(list) = Len(list) /\ l \in 1 .. Count(list)
      BY <1>0, <1>2 DEF list, Count
    <3>. QED BY <1>2, <3>1
  <2>1. /\ m.kind = "CA_PMT" /\ m.first = (l = 1) /\ m.last = (l = Len(list))
        /\ m.obj = list[l] /\ m.ver = w
    BY <1>2 DEF ServiceMsg, CaPmtMsg
  <2> DEFINE grown == Append(IF l = 1 THEN <<>> ELSE oscam.list, list[l])
             started == IF l = 1 THEN "whole"
                        ELSE IF oscam.open = "no" THEN "tail" ELSE oscam.open
  <2>2. next = IF l = Len(list)
                 THEN [oscam EXCEPT !.rx = NoMsg, !.open = "no", !.list = <<>>,
                         !.have = grown, !.whole = @ \/ started = "whole",
                         !.seen = w]
                 ELSE [oscam EXCEPT !.rx = NoMsg, !.open = started, !.list = grown]
    BY <2>1 DEF Applied, Started, list
  <2> HIDE DEF grown, started, m, next
  \* The list so far, from message s on.
  <2>3. PICK s \in 1 .. l :
          /\ grown = SubSeq(list, s, l)
          /\ \/ started = "whole" /\ s = 1
             \/ started = "tail" /\ ~oscam.whole
    <3>1. CASE l = 1
      <4>1. grown = << list[1] >> /\ started = "whole"
        BY <2>0, <3>1 DEF grown, started
      <4>2. SubSeq(list, 1, 1) = << list[1] >>
        BY <2>0, OfOne
      <4>. QED BY <3>1, <4>1, <4>2
    <3>2. CASE l # 1 /\ v = 0
      <4>1. oscam.open = "no" /\ oscam.list = <<>> /\ ~oscam.whole
        BY <3>2 DEF Holds, Unstarted
      <4>3. grown = << list[l] >> /\ started = "tail"
        BY <3>2, <4>1 DEF grown, started
      <4>2. SubSeq(list, l, l) = << list[l] >>
        BY <2>0, OfOne
      <4>. QED BY <2>0, <4>1, <4>2, <4>3
    <3>3. CASE l # 1 /\ v # 0
      <4>1. w = v /\ l = k + 1 /\ k \in 1 .. Len(list) /\ k # Count(list)
        BY <2>0, <3>3 DEF Follows, list
      <4>2. PICK s \in 1 .. k :
              /\ oscam.list = SubSeq(list, s, k)
              /\ \/ oscam.open = "whole" /\ s = 1
                 \/ oscam.open = "tail" /\ ~oscam.whole
        BY <3>3, <4>1 DEF Holds, list
      <4>3. grown = SubSeq(list, s, l)
        <5>1. s \in Nat \ {0} /\ k \in Nat /\ s <= k /\ k < Len(list)
          BY <2>0, <4>1
        <5>. QED BY <2>0, <3>3, <4>1, <4>2, <5>1, LongerBy DEF grown
      <4>4. started = oscam.open
        BY <3>3, <4>2 DEF started
      <4>5. s \in 1 .. l
        BY <2>0, <4>1
      <4>. QED BY <4>2, <4>3, <4>4, <4>5
    <3>. QED BY <3>1, <3>2, <3>3
  <2>4. CASE l # Len(list)
    <3>1. /\ next.open = started /\ next.list = grown /\ next.have = oscam.have
          /\ next.whole = oscam.whole /\ next.seen = oscam.seen
      BY <1>0, <2>2, <2>4 DEF Session
    <3>2. Holds(w, l)'
      BY <1>0, <2>0, <2>3, <2>4, <3>1 DEF Holds, list, next
    <3>. QED BY <3>1, <3>2 DEF SL!slvars, next
  <2>5. CASE l = Len(list)
    <3> DEFINE whole == oscam.whole \/ started = "whole"
    <3>1. /\ next.open = "no" /\ next.list = <<>> /\ next.have = grown
          /\ next.whole = whole /\ next.seen = w
      <4>1. next = [oscam EXCEPT !.rx = NoMsg, !.open = "no", !.list = <<>>,
                      !.have = grown, !.whole = whole, !.seen = w]
        BY <2>2, <2>5
      <4> HIDE DEF whole
      <4>. QED BY <1>0, <4>1 DEF Session
    <3>2. Holds(w, l)'
      BY <1>0, <2>0, <2>5, <3>1 DEF Holds, Unstarted, list, next
    <3>3. SL!Announce
      <4>1. w \in oscam.seen .. Len(asked) /\ next.seen = w
        BY <3>1
      <4>2. CASE started = "whole" /\ s = 1
        <5>1. grown = asked[w]
          BY <2>0, <2>3, <2>5, <4>2, SubSeqFull DEF list
        <5>2. next.have = asked[w] /\ next.whole = TRUE
          BY <3>1, <4>2, <5>1
        <5>. QED BY <4>1, <5>2 DEF SL!Announce, next
      <4>3. CASE started = "tail" /\ ~oscam.whole
        <5>1. next.have = SL!TailFrom(asked[w], s) /\ s \in DOMAIN asked[w]
          <6>1. grown = SubSeq(asked[w], s, Len(asked[w])) /\ s \in 1 .. Len(asked[w])
            BY <2>3, <2>5 DEF list
          <6>. QED BY <1>0, <3>1, <6>1 DEF SL!TailFrom
        <5>2. next.whole = FALSE
          BY <3>1, <4>3
        <5>. QED BY <4>1, <4>3, <5>1, <5>2 DEF SL!Announce, next
      <4>. QED BY <2>3, <4>2, <4>3
    <3>. QED BY <3>1, <3>2, <3>3 DEF next
  <2>. QED BY <2>4, <2>5
<1>. QED BY <1>1, <1>2

(* OSCam takes a part off the wire: it announces a list, or does nothing   *)
(* that shows.                                                             *)
LEMMA PipeRead ==
  ASSUME TypeOK, StreamInv, PipeInv, OscamReads
  PROVE  PipeInv' /\ (SL!Announce \/ UNCHANGED SL!slvars)
<1>1. PICK v, k : Trace(v, k) /\ Holds(v[0], k[0]) /\ UpToDate(v[Len(wire)], k[Len(wire)])
  BY DEF PipeInv, Pipe
<1>2. /\ wire # <<>> /\ wire' = Tail(wire) /\ link \in {"up", "shut"}
      /\ UNCHANGED <<link, sock, asked, pmtOwner, msg, pos>>
      /\ oscam' = IF Head(wire).part = 1 THEN [oscam EXCEPT !.rx = Head(wire).msg]
                                         ELSE Applied(Head(wire).msg)
  BY DEF OscamReads, calls, state, locks, ghosts
<1>3. /\ Len(wire) \in Nat \ {0} /\ Len(wire') = Len(wire) - 1
      /\ Head(wire) = wire[1] /\ wire[1] \in Part
  BY <1>2, Basics
<1>4. /\ v \in [Nat -> Nat] /\ k \in [Nat -> Nat]
      /\ 0 \in 0 .. Len(wire) /\ 1 \in 0 .. Len(wire) /\ 1 \in 1 .. Len(wire)
  <2>1. v \in [Nat -> Nat] /\ k \in [Nat -> Nat]
    BY <1>1 DEF Trace
  <2>2. \A n \in Nat \ {0} : 0 \in 0 .. n /\ 1 \in 0 .. n /\ 1 \in 1 .. n
    OBVIOUS
  <2>. QED BY <1>3, <2>1, <2>2
<1>5. IF IsListPart(wire[1])
        THEN /\ v[1] # 0 /\ wire[1].msg = ServiceMsg(asked[v[1]], v[1], k[1])
             /\ Follows(v[0], k[0], v[1], k[1])
        ELSE v[1] = v[0] /\ k[1] = k[0]
  BY <1>1, <1>4 DEF Trace
<1>6. /\ Holds(v[1], k[1])'
      /\ oscam'.seen = oscam.seen \/ (v[1] # 0 /\ oscam'.seen = v[1])
      /\ oscam'.seen <= Len(asked)
      /\ SL!Announce \/ UNCHANGED SL!slvars
  <2>1. CASE IsListPart(wire[1])
    <3>1. oscam' = Applied(ServiceMsg(asked[v[1]], v[1], k[1]))
      BY <1>2, <1>3, <1>5, <2>1 DEF IsListPart
    <3>2. v[1] \in oscam.seen .. Len(asked) /\ k[1] \in 1 .. Count(asked[v[1]])
      BY <1>1, <1>4, <1>5, <2>1 DEF Trace
    <3>3. v[0] # 0 => k[0] \in 1 .. Count(asked[v[0]])
      BY <1>1, <1>4 DEF Trace
    <3>4. v[0] \in Nat /\ k[0] \in Nat
      BY <1>4
    <3>5. /\ Holds(v[1], k[1])' /\ oscam'.seen \in {oscam.seen, v[1]}
          /\ SL!Announce \/ UNCHANGED SL!slvars
      BY <1>1, <1>2, <1>5, <2>1, <3>1, <3>2, <3>3, <3>4, ListApplied
    <3>. QED BY <1>5, <2>1, <3>2, <3>5, Basics DEF PipeInv
  <2>2. CASE ~IsListPart(wire[1])
    <3>1. oscam'.open = oscam.open /\ oscam'.list = oscam.list /\ oscam'.have = oscam.have
          /\ oscam'.whole = oscam.whole /\ oscam'.seen = oscam.seen
      <4>1. CASE wire[1].part = 1
        BY <1>2, <1>3, <4>1, Basics DEF Session
      <4>2. CASE wire[1].part # 1
        <5>1. wire[1].part = 2 /\ ~IsListMsg(wire[1].msg)
          BY <1>3, <2>2, <4>2 DEF Part, IsListPart
        <5>2. oscam' = Applied(wire[1].msg)
          BY <1>2, <1>3, <4>2
        <5>. QED BY <5>1, <5>2, Basics DEF Applied, IsListMsg, Session
      <4>. QED BY <4>1, <4>2
    <3>2. Holds(v[1], k[1])'
      BY <1>1, <1>2, <1>5, <2>2, <3>1 DEF Holds, Unstarted
    <3>. QED BY <1>2, <3>1, <3>2 DEF SL!slvars, PipeInv
  <2>. QED BY <2>1, <2>2
<1>7. PICK x, y : x = [i \in Nat |-> v[i + 1]] /\ y = [i \in Nat |-> k[i + 1]]
  OBVIOUS
<1>8. Trace(x, y)'
  BY <1>1, <1>2, <1>6, <1>7, TraceRead
<1>9. x[0] = v[1] /\ y[0] = k[1]
  BY <1>7
<1>10. UpToDate(x[Len(wire)], y[Len(wire)])'
  <2>1. x[Len(wire')] = v[Len(wire)] /\ y[Len(wire')] = k[Len(wire)]
    <3>1. Len(wire') \in Nat /\ Len(wire') + 1 = Len(wire)
      BY <1>3
    <3>. QED BY <1>7, <3>1
  <2>. QED BY <1>1, <1>2, <2>1 DEF UpToDate, Sent
<1>11. Pipe(x, y)'
  BY <1>6, <1>8, <1>9, <1>10 DEF Pipe
<1>. QED BY <1>2, <1>6, <1>11 DEF PipeInv

(* A thread sends a part of its message.                                   *)
LEMMA PipeAppended ==
  ASSUME TypeOK, TypeOK', SocketMutexInv, SenderInv, PipeInv,
         NEW t \in Thread, SendsPart(t), link = "up"
  PROVE  PipeInv'
<1>1. PICK v, k : Trace(v, k) /\ Holds(v[0], k[0]) /\ UpToDate(v[Len(wire)], k[Len(wire)])
  BY DEF PipeInv, Pipe
<1>2. PICK n : n = Len(wire)
  OBVIOUS
<1>3. PICK p : p = [msg |-> msg[t], part |-> part[t]]
  OBVIOUS
<1>4. /\ wire' = Append(wire, p) /\ link' = "up"
      /\ UNCHANGED <<oscam, asked, sock, pmtOwner, pos>>
      /\ part[t] \in {1, 2} /\ sock # 0
      /\ part[t] = 1 => msg' = msg
      /\ part[t] = 2 => msg' = [msg EXCEPT ![t] = NoMsg]
  <2>1. /\ wire' = Append(wire, p) /\ link' = "up"
        /\ UNCHANGED <<oscam, asked, sock, pmtOwner, pos>>
    BY <1>3 DEF SendsPart, peer, ghosts, state
  <2>2. /\ part[t] \in {1, 2}
        /\ part[t] = 1 => msg' = msg
        /\ part[t] = 2 => msg' = [msg EXCEPT ![t] = NoMsg]
    BY DEF SendsPart, WriteReturns
  <2>. QED BY <2>1, <2>2 DEF SocketMutexInv
<1>5. /\ msg \in [Thread -> Message \cup {NoMsg}] /\ msg[t] # NoMsg
      /\ pos \in [Thread -> Nat] /\ pmtOwner \in {Free, Sock} \cup CI
      /\ pmt = asked[Len(asked)]
  <2>1. /\ msg \in [Thread -> Message \cup {NoMsg}]
        /\ pos \in [Thread -> Nat] /\ pmtOwner \in {Free, Sock} \cup CI
    BY DEF TypeOK
  <2>2. msg[t] # NoMsg
    BY <1>4 DEF SocketMutexInv
  <2>3. pmt = asked[Len(asked)]
    BY DEF SenderInv
  <2>. QED BY <2>1, <2>2, <2>3
<1>6. p \in Part
  BY <1>3, <1>4, <1>5 DEF Part
<1>7. v \in [Nat -> Nat] /\ k \in [Nat -> Nat]
  BY <1>1 DEF Trace
<1>8. /\ n \in Nat /\ n \in 0 .. n /\ v[n] \in Nat /\ k[n] \in Nat
      /\ v[n] # 0 => v[n] \in oscam.seen .. Len(asked) /\ k[n] \in 1 .. Count(asked[v[n]])
  <2>1. n \in Nat /\ n \in 0 .. n
    BY <1>2, Basics
  <2>. QED BY <1>1, <1>2, <1>7, <2>1 DEF Trace
<1>9. Len(wire') = n + 1
  BY <1>2, <1>4, Basics
\* What the wire ends with then.
<1>10. PICK w \in Nat, l \in Nat :
         /\ IF IsListPart(p)
              THEN /\ w \in oscam.seen .. Len(asked) /\ l \in 1 .. Count(asked[w])
                   /\ w # 0 /\ v[n] <= w /\ p.msg = ServiceMsg(asked[w], w, l)
                   /\ Follows(v[n], k[n], w, l)
              ELSE w = v[n] /\ l = k[n]
         /\ UpToDate(w, l)'
  <2>1. CASE IsListPart(p)
    <3>1. part[t] = 2 /\ IsListMsg(msg[t])
      BY <1>3, <2>1 DEF IsListPart
    <3>2. t = pmtOwner /\ t \in CI \cup {Sock} /\ t # Free
      BY <1>5, <3>1, ThreadKinds DEF SenderInv
    <3>3. /\ pos[t] \in 2 .. Count(asked[Len(asked)]) + 1
          /\ msg[t] = ServiceMsg(asked[Len(asked)], Len(asked), pos[t] - 1)
      BY <1>5, <3>2, Basics DEF SenderInv
    <3>4. Sent = pos[t] - 2 /\ Sent' = pos[t] - 1
      BY <1>4, <1>5, <3>1, <3>2 DEF Sent
    <3>5. PICK w, l : w = Len(asked) /\ l = pos[t] - 1
      OBVIOUS
    <3>6. w \in oscam.seen .. Len(asked) /\ w \in Nat /\ w # 0 /\ v[n] <= w
      BY <1>8, <3>5, Basics DEF PipeInv
    <3>7. l \in 1 .. Count(asked[w]) /\ l \in Nat
      <4>1. Len(asked) \in 1 .. Len(asked)
        BY Basics
      <4>2. Count(asked[Len(asked)]) \in Nat
        BY <4>1, Basics
      <4>. QED BY <3>3, <3>5, <4>2
    <3>8. p.msg = ServiceMsg(asked[w], w, l)
      BY <1>3, <3>3, <3>5
    <3>9. Follows(v[n], k[n], w, l)
      <4>1. v[n] # 0 => IF Sent = 0 THEN k[n] = Count(asked[v[n]])
                                    ELSE v[n] = Len(asked) /\ k[n] = Sent
        BY <1>1, <1>2, <1>4 DEF UpToDate
      <4>2. Sent = l - 1 /\ l \in Nat
        BY <1>5, <3>4, <3>5, <3>7
      <4>3. CASE v[n] = 0
        BY <4>3 DEF Follows
      <4>4. CASE v[n] # 0 /\ Sent = 0
        BY <4>1, <4>2, <4>4 DEF Follows
      <4>5. CASE v[n] # 0 /\ Sent # 0
        BY <3>5, <4>1, <4>2, <4>5 DEF Follows
      <4>. QED BY <4>3, <4>4, <4>5
    <3>10. UpToDate(w, l)'
      <4>1. Sent' = l /\ l # 0 /\ w = Len(asked')
        BY <1>4, <3>4, <3>5, <3>7
      <4>. QED BY <4>1 DEF UpToDate
    <3>. QED BY <2>1, <3>6, <3>7, <3>8, <3>9, <3>10
  <2>2. CASE ~IsListPart(p)
    <3>1. Sent' = Sent
      <4>1. CASE part[t] = 1
        BY <1>4, <4>1 DEF Sent
      <4>2. CASE part[t] = 2
        <5>1. ~IsListMsg(msg[t])
          BY <1>3, <2>2, <4>2 DEF IsListPart
        <5>2. t # pmtOwner
          BY <1>5, <5>1, ThreadKinds, ListMessages DEF SenderInv
        <5>. QED BY <1>4, <1>5, <4>2, <5>2, ThreadKinds DEF Sent
      <4>. QED BY <1>4, <4>1, <4>2
    <3>2. UpToDate(v[n], k[n])'
      BY <1>1, <1>2, <1>4, <3>1 DEF UpToDate
    <3>. QED BY <1>8, <2>2, <3>2
  <2>. QED BY <2>1, <2>2
<1>11. PICK x, y : x = [v EXCEPT ![n + 1] = w] /\ y = [k EXCEPT ![n + 1] = l]
  OBVIOUS
<1>12. Trace(x, y)'
  BY <1>1, <1>2, <1>4, <1>6, <1>10, <1>11, TraceAppended
<1>13. x[n + 1] = w /\ y[n + 1] = l /\ x[0] = v[0] /\ y[0] = k[0]
  BY <1>7, <1>8, <1>11
<1>14. Holds(x[0], y[0])'
  BY <1>1, <1>4, <1>13 DEF Holds, Unstarted
<1>15. UpToDate(x[Len(wire)], y[Len(wire)])'
  BY <1>9, <1>10, <1>13
<1>16. Pipe(x, y)'
  BY <1>12, <1>14, <1>15 DEF Pipe
<1>. QED BY <1>4, <1>16 DEF PipeInv

(* SendAll is over: all of the list is sent.                               *)
LEMMA PipeSent ==
  ASSUME TypeOK, SenderInv, PipeInv, NEW t \in CI \cup {Sock}, SendAllReturns(t)
  PROVE  PipeInv'
<1>1. PICK v, k : Trace(v, k) /\ Holds(v[0], k[0]) /\ UpToDate(v[Len(wire)], k[Len(wire)])
  BY DEF PipeInv, Pipe
<1>2. /\ UNCHANGED <<wire, link, sock, oscam, asked>> /\ pmtOwner' = Free
      /\ msg[t] = NoMsg /\ pos[t] > 1 /\ pos[t] > Len(pmt) /\ pc[t] = "sending"
  BY DEF SendAllReturns, kernel, peer, ghosts
<1>3. t = pmtOwner /\ t # Free /\ pmt = asked[Len(asked)] /\ pos[t] \in 1 .. Count(pmt) + 1
  BY <1>2, ThreadKinds DEF SenderInv
<1>4. Sent = Count(pmt) /\ Sent # 0 /\ Sent' = 0
  <2>1. Sent = pos[t] - 1 /\ Sent' = 0
    BY <1>2, <1>3 DEF Sent
  <2>2. pmt \in Seq(PmtObj) /\ Len(pmt) \in Nat /\ Count(pmt) \in Nat \ {0}
    BY CountType DEF TypeOK
  <2>3. Count(pmt) = 1 \/ Count(pmt) = Len(pmt)
    BY DEF Count
  <2>. QED BY <1>2, <1>3, <2>1, <2>2, <2>3
<1>5. Trace(v, k)' /\ Holds(v[0], k[0])'
  BY <1>1, <1>2 DEF Trace, Follows, Holds, Unstarted
<1>6. UpToDate(v[Len(wire)], k[Len(wire)])'
  BY <1>1, <1>2, <1>3, <1>4 DEF UpToDate
<1>7. Pipe(v, k)'
  BY <1>5, <1>6 DEF Pipe
<1>. QED BY <1>2, <1>7 DEF PipeInv, Unstarted

LEMMA StepPipeInv ==
  TypeOK /\ TypeOK' /\ SocketMutexInv /\ StreamInv /\ SenderInv /\ PipeInv /\ [Next]_vars
    => PipeInv' /\ [SL!Next]_SL!slvars
<1> SUFFICES ASSUME TypeOK, TypeOK', SocketMutexInv, StreamInv, SenderInv, PipeInv,
                    [Next]_vars
             PROVE  PipeInv' /\ [SL!Next]_SL!slvars
  OBVIOUS
<1> USE ThreadKinds
<1> USE DEF locks, calls, state, kernel, peer, ghosts
<1>0. /\ pc \in [Thread -> PC] /\ msg \in [Thread -> Message \cup {NoMsg}]
      /\ pos \in [Thread -> Nat] /\ pmt \in Seq(PmtObj)
      /\ asked \in Seq(Seq(PmtObj)) /\ asked # <<>>
      /\ pmtOwner \in {Free, Sock} \cup CI
  BY DEF TypeOK
\* Most steps concern neither the lists asked for nor what OSCam has.
<1>a. ASSUME UNCHANGED <<asked, oscam>> PROVE [SL!Next]_SL!slvars
  BY <1>a DEF SL!slvars
\* Nor do they move the sender.
<1>b. ASSUME UNCHANGED <<asked, oscam, wire, link, sock, pmtOwner, pos>>,
             pmtOwner # Free => msg'[pmtOwner] = msg[pmtOwner]
      PROVE  PipeInv' /\ [SL!Next]_SL!slvars
  <2>1. Sent' = Sent
    BY <1>b DEF Sent
  <2>. QED BY <1>a, <1>b, <2>1, PipeStays
<1>1. ASSUME NEW t \in Thread, WriteDrops(t) PROVE PipeInv' /\ [SL!Next]_SL!slvars
  BY <1>1, <1>a, PipeStays DEF WriteDrops
<1>2. ASSUME NEW t \in Thread, WriteStarts(t) PROVE PipeInv' /\ [SL!Next]_SL!slvars
  BY <1>2, <1>b DEF WriteStarts
<1>3. ASSUME NEW t \in Thread, SendsPart(t) PROVE PipeInv' /\ [SL!Next]_SL!slvars
  <2>1. UNCHANGED <<asked, oscam, link>>
    BY <1>3 DEF SendsPart
  <2>2. CASE link = "up"
    BY <1>3, <1>a, <2>1, <2>2, PipeAppended
  <2>3. CASE link # "up"
    <3>1. wire' = wire
      BY <1>3, <2>3 DEF SendsPart
    <3>. QED BY <1>a, <2>1, <2>3, <3>1, PipeStays
  <2>. QED BY <2>2, <2>3
<1>4. ASSUME NEW t \in Thread, SendFails(t) PROVE PipeInv' /\ [SL!Next]_SL!slvars
  <2>1. UNCHANGED <<asked, oscam, wire>> /\ link' = "shut"
    BY <1>4 DEF SendFails
  <2>. QED BY <1>a, <2>1, PipeStays
<1>5. ASSUME NEW t \in CI \cup {Sock}, SendNext(t) PROVE PipeInv' /\ [SL!Next]_SL!slvars
  <2>1. t = pmtOwner /\ t # Free /\ msg[t] = NoMsg
    BY <1>5 DEF SenderInv, SendNext
  <2>2. pos'[t] = pos[t] + 1 /\ msg'[t] # NoMsg
    <3>1. pos' = [pos EXCEPT ![t] = @ + 1] /\ \E m : m # NoMsg /\ msg' = [msg EXCEPT ![t] = m]
      BY <1>5 DEF SendNext, Stop, CaPmtMsg, NoMsg
    <3>. QED BY <1>0, <3>1
  <2>3. UNCHANGED <<asked, oscam, wire, link, sock, pmtOwner>>
    BY <1>5 DEF SendNext
  <2>4. Sent' = Sent
    <3>1. Sent = pos[t] - 1 /\ Sent' = pos'[t] - 2 /\ pos[t] \in Nat
      BY <1>0, <2>1, <2>2, <2>3 DEF Sent
    <3>. QED BY <2>2, <3>1
  <2>. QED BY <1>a, <2>3, <2>4, PipeStays
<1>6. ASSUME NEW t \in CI \cup {Sock}, SendAllReturns(t)
      PROVE  PipeInv' /\ [SL!Next]_SL!slvars
  BY <1>6, <1>a, PipeSent DEF SendAllReturns
<1>7. ASSUME NEW t \in CI, SIDRequest(t) PROVE PipeInv' /\ [SL!Next]_SL!slvars
  <2>1. PICK r \in Request :
          /\ pmt' = Updated(pmt, r)
          /\ IF Resends(pmt, r)
               THEN /\ pmtOwner' = t /\ asked' = Append(asked, pmt')
                    /\ pc' = [pc EXCEPT ![t] = "sending"]
                    /\ pos' = [pos EXCEPT ![t] = 1]
               ELSE UNCHANGED <<pmtOwner, asked, pc, pos>>
    BY <1>7 DEF SIDRequest
  <2>2. pmtOwner = Free /\ UNCHANGED <<msg, wire, oscam, link, sock>>
    BY <1>7 DEF SIDRequest
  <2>3. CASE ~Resends(pmt, r)
    BY <1>b, <2>1, <2>2, <2>3
  <2>4. CASE Resends(pmt, r)
    <3>1. pmt' \in Seq(PmtObj) /\ asked' = Append(asked, pmt')
      BY <1>0, <2>1, <2>4, UpdatedType
    <3>2. Sent = 0 /\ Sent' = 0
      <4>1. pmtOwner' = t /\ t # Free /\ pos'[t] = 1
        BY <1>0, <2>1, <2>4
      <4>2. msg'[t] = NoMsg
        BY <2>2 DEF SenderInv
      <4>. QED BY <2>2, <4>1, <4>2 DEF Sent
    <3>3. PipeInv'
      BY <2>2, <3>1, <3>2, PipeAsks
    <3>4. SL!Ask
      <4>1. Len(asked') = Len(asked) + 1 /\ asked'[Len(asked')] = pmt'
        BY <1>0, <3>1
      <4>. QED BY <2>2, <3>1, <4>1 DEF SL!Ask
    <3>. QED BY <3>3, <3>4 DEF SL!Next
  <2>. QED BY <2>3, <2>4
<1>8. ASSUME NEW t \in Receiver, SectionComplete(t) PROVE PipeInv' /\ [SL!Next]_SL!slvars
  BY <1>8, <1>b DEF SectionComplete
<1>9. ASSUME NEW t \in Receiver, DeliverNext(t) PROVE PipeInv' /\ [SL!Next]_SL!slvars
  BY <1>9, <1>b DEF DeliverNext
<1>10. ASSUME NEW t \in Receiver, DeliverReturns(t) PROVE PipeInv' /\ [SL!Next]_SL!slvars
  BY <1>10, <1>b DEF DeliverReturns
<1>11. CASE Reconnects
  BY <1>11, <1>b DEF Reconnects
<1>12. CASE OpenStarts
  BY <1>12, <1>b DEF OpenStarts
<1>13. CASE OpenSucceeds
  <2>1. link = "none"
    BY <1>13 DEF OpenSucceeds, SocketMutexInv
  <2>2. UNCHANGED <<asked, oscam>> /\ wire' = <<>>
    BY <1>13 DEF OpenSucceeds
  <2>3. Unstarted' /\ ~oscam'.whole
    BY <2>1, <2>2 DEF PipeInv, Unstarted
  <2>. QED BY <1>a, <2>2, <2>3, PipeFresh
<1>14. CASE OpenFails
  BY <1>14, <1>b DEF OpenFails
<1>15. CASE TimerExpires
  BY <1>15, <1>b DEF TimerExpires
<1>16. CASE Resyncs
  <2>1. Sent = 0 /\ Sent' = 0
    <3>1. /\ pmtOwner = Free /\ pmtOwner' = Sock /\ msg'[Sock] = NoMsg /\ pos'[Sock] = 1
      BY <1>0, <1>16 DEF Resyncs
    <3>. QED BY <3>1 DEF Sent
  <2>. QED BY <1>16, <1>a, <2>1, PipeStays DEF Resyncs
<1>17. CASE HearsFilter
  BY <1>17, <1>b DEF HearsFilter
<1>18. CASE HearsEnd
  BY <1>18, <1>b DEF HearsEnd
<1>19. CASE CloseTakesFd
  BY <1>19, <1>a, PipeStays DEF CloseTakesFd
<1>20. CASE ClosesFd
  <2>1. oscam' = Fresh(oscam.seen) /\ wire' = <<>> /\ asked' = asked
    BY <1>20 DEF ClosesFd
  <2>. QED BY <2>1, PipeFresh DEF Fresh, Unstarted, SL!Next, SL!Lose
<1>21. CASE StopsAllFilters
  BY <1>21, <1>b DEF StopsAllFilters
<1>22. CASE OscamReads
  BY <1>22, PipeRead DEF SL!Next
<1>23. CASE OscamDrops
  <2>1. oscam' = Fresh(oscam.seen) /\ wire' = <<>> /\ asked' = asked
    BY <1>23 DEF OscamDrops
  <2>. QED BY <2>1, PipeFresh DEF Fresh, Unstarted, SL!Next, SL!Lose
<1>24. CASE OscamStarts
  BY <1>24, <1>b DEF OscamStarts
<1>25. CASE UNCHANGED vars
  BY <1>25, <1>b DEF vars
<1>. QED
  BY <1>1, <1>2, <1>3, <1>4, <1>5, <1>6, <1>7, <1>8, <1>9, <1>10, <1>11, <1>12,
     <1>13, <1>14, <1>15, <1>16, <1>17, <1>18, <1>19, <1>20, <1>21, <1>22,
     <1>23, <1>24, <1>25
     DEF Next, WriteStep, SendAllStep, SocketStep

LEMMA InitPipeInv == Init => PipeInv /\ SL!Init
<1> SUFFICES ASSUME Init PROVE PipeInv /\ SL!Init
  OBVIOUS
<1>1. SL!Init
  BY DEF Init, SL!Init, Fresh
<1>2. PICK z : z = [i \in Nat |-> 0]
  OBVIOUS
<1>3. Pipe(z, z)
  <2>1. z \in [Nat -> Nat] /\ \A i \in Nat : z[i] = 0
    BY <1>2
  <2>2. Len(wire) = 0 /\ Unstarted /\ ~oscam.whole
    BY DEF Init, Unstarted, Fresh
  <2>3. Trace(z, z)
    BY <2>1, <2>2 DEF Trace
  <2>. QED BY <2>1, <2>2, <2>3 DEF Pipe, Holds, UpToDate
<1>4. oscam.seen <= Len(asked) /\ Unstarted /\ ~oscam.whole
  BY DEF Init, Fresh, Unstarted
<1>. QED BY <1>1, <1>3, <1>4 DEF PipeInv

(***************************************************************************)
(* The link to OSCam implements the service list: what OSCam works with is *)
(* a list the plugin asked for, or at the start of a connection its tail,  *)
(* and never an older one than before, although a SendAll may have begun   *)
(* on the connection before, and a restart, a close or a change of the     *)
(* list may come between any two of its parts (CAPMT::SendAll,             *)
(* SocketHandler::Action, Write and CloseConnection).                      *)
(***************************************************************************)
THEOREM OscamHasAnAskedList == Spec => ImplementsServiceList
<1>1. Init => SocketMutexInv /\ StreamInv /\ SenderInv /\ PipeInv /\ SL!Init
  BY InitSocketMutexInv, InitStreamInv, InitSenderInv, InitPipeInv
<1>2. TypeOK /\ TypeOK' /\ SocketMutexInv /\ StreamInv /\ SenderInv /\ PipeInv
        /\ [Next]_vars
        => /\ (SocketMutexInv /\ StreamInv /\ SenderInv /\ PipeInv)'
           /\ [SL!Next]_SL!slvars
  BY StepSocketMutexInv, StepStreamInv, StepSenderInv, StepPipeInv
<1>. QED BY <1>1, <1>2, TypeCorrect, PTL DEF Spec, ImplementsServiceList, SL!Spec
=============================================================================
