---------------------------- MODULE CamSlotProofs ----------------------------
(***************************************************************************)
(* Proofs about the two parts of a CAM slot.  CiAdapter, for any number of *)
(* slots, services and CA_PMTs, wherever frames fall on the end of a ring  *)
(* buffer; and FillControl, for every size of the ring, all limits of the  *)
(* low water mark and any number of resets.                                *)
(***************************************************************************)
EXTENDS CiAdapter, FillControl, NatRecursion

-----------------------------------------------------------------------------
(* What ProcessSIDRequest does to the service list.                        *)

(* If the list has entries for the service, First picks one of them.       *)
LEMMA FirstPosition ==
  ASSUME NEW list \in Seq(PmtObj), NEW r \in Request, PositionsOf(list, r) # {}
  PROVE  First(PositionsOf(list, r)) \in PositionsOf(list, r)
<1> DEFINE P == PositionsOf(list, r)
<1>1. P \subseteq Nat
  BY DEF PositionsOf
<1>2. \E i \in P : \A j \in P : i <= j
  BY <1>1, LeastNumber
<1>. QED BY <1>2 DEF First

(* Erasing takes exactly one entry out, the one at First, and moves those  *)
(* behind it one place forward.                                            *)
LEMMA ErasedProperties ==
  ASSUME NEW list \in Seq(PmtObj), NEW r \in Request, PositionsOf(list, r) # {},
         NEW i, i = First(PositionsOf(list, r))
  PROVE  /\ i \in 1 .. Len(list)
         /\ list[i].sid = r.sid /\ list[i].adapter = r.adapter
         /\ Erased(list, r) \in Seq(PmtObj)
         /\ Len(Erased(list, r)) = Len(list) - 1
         /\ \A j \in 1 .. Len(list) - 1 :
              Erased(list, r)[j] = IF j < i THEN list[j] ELSE list[j + 1]
<1>1. i \in 1 .. Len(list) /\ list[i].sid = r.sid /\ list[i].adapter = r.adapter
  BY FirstPosition DEF PositionsOf
<1>2. Erased(list, r) = RemoveAt(list, i)
  BY DEF Erased, RemoveAt
<1>. QED BY <1>1, <1>2, RemovedElement

(* The list stays a list of services, whatever VDR asks for.               *)
LEMMA UpdatedType ==
  ASSUME NEW list \in Seq(PmtObj), NEW r \in Request
  PROVE  Updated(list, r) \in Seq(PmtObj)
<1>1. Erased(list, r) \in Seq(PmtObj)
  BY ErasedProperties DEF Erased
<1>2. Adds(r) => [sid |-> r.sid, adapter |-> r.adapter, data |-> r.data] \in PmtObj
  BY DEF Adds, Request, PmtObj
<1>. QED BY <1>1, <1>2 DEF Updated

-----------------------------------------------------------------------------
Answer == {"reqCAS", "CaInfo", "reply"}
ReadFrame == [slot : Adapters, data : Answer \cup {"created", "none"}, more : BOOLEAN]
Side == [status : {"none", "reset", "present", "ready"},
         tc : {"none", "wanted", "creating", "active"}, more : BOOLEAN]
Cam == [reset : BOOLEAN, doReply : BOOLEAN, version : {0, 1}]

\* What the ring buffers hold, which TypeOK says in part only.
RingsOK == frames \in [Adapters -> Seq(Answer)] /\ readFrames \in Seq(ReadFrame)

\* The rest, in the parts that actions leave alone together.
CamsOK    == cam \in [Adapters -> Cam] /\ vdr \in [Adapters -> Side]
ServiceOK == pmt \in Seq(PmtObj) /\ mapped \subseteq Services /\ known \subseteq mapped

LEMMA TypeParts == RingsOK /\ CamsOK /\ ServiceOK => TypeOK
<1> SUFFICES ASSUME RingsOK, CamsOK, ServiceOK PROVE TypeOK
  OBVIOUS
<1>1. \A s \in Adapters : frames[s] \in Seq({"reqCAS", "CaInfo", "reply"})
  BY DEF RingsOK, Answer
<1>2. \A i \in DOMAIN readFrames : readFrames[i].slot \in Adapters
  <2>1. \A i \in DOMAIN readFrames : readFrames[i] \in ReadFrame
    BY DEF RingsOK
  <2>. QED BY <2>1 DEF ReadFrame
<1>. QED BY <1>1, <1>2 DEF CamsOK, ServiceOK, TypeOK, Cam, Side

LEMMA InitRings == Init => RingsOK /\ CamsOK /\ ServiceOK
BY DEF Init, RingsOK, CamsOK, ServiceOK, NoConnection, Cam, Side

(* The status of a slot, and what VDR makes of it, keep their types.       *)
LEMMA CheckedType == \A c \in Cam : Checked(c) \in Cam /\ AfterStatus(c) \in Cam
<1> SUFFICES ASSUME NEW c \in Cam PROVE Checked(c) \in Cam /\ AfterStatus(c) \in Cam
  OBVIOUS
<1>1. Checked(c) \in Cam
  BY DEF Checked, Cam
<1>2. Status(c) \in {"reset", "ready", "present"}
  BY DEF Status
<1>3. [c EXCEPT !.reset = FALSE] \in Cam
  BY DEF Cam
<1>. QED BY <1>1, <1>2, <1>3 DEF AfterStatus

LEMMA ToldType ==
  \A side \in Side, c \in Cam : Told(side, Status(c)) \in Side
<1> SUFFICES ASSUME NEW side \in Side, NEW c \in Cam PROVE Told(side, Status(c)) \in Side
  OBVIOUS
<1>1. Status(c) \in {"reset", "ready", "present"}
  BY DEF Status
<1>2. \A st \in {"reset", "ready", "present"} :
        /\ [NoConnection EXCEPT !.status = st] \in Side
        /\ [NoConnection EXCEPT !.status = st, !.tc = "wanted"] \in Side
        /\ [side EXCEPT !.status = st] \in Side
  BY DEF NoConnection, Side
<1>. QED BY <1>1, <1>2 DEF Told

LEMMA AnswerSeqs ==
  <<>> \in Seq(Answer) /\ \A a \in Answer : <<a>> \in Seq(Answer)
OBVIOUS

(* A request to a slot adds answers to its frames, and one frame for VDR.  *)
LEMMA DataLastType ==
  ASSUME RingsOK, CamsOK, NEW s \in Adapters, NEW replies \in Seq(Answer),
         DataLast(s, replies)
  PROVE  RingsOK' /\ CamsOK'
<1> DEFINE kept == IF Cleared(s) THEN <<>> ELSE frames[s]
           info == IF cam[s].version = 0 THEN <<"CaInfo">> ELSE <<>>
<1>1. kept \in Seq(Answer) /\ info \in Seq(Answer)
  <2>1. "CaInfo" \in Answer
    BY DEF Answer
  <2>2. <<"CaInfo">> \in Seq(Answer)
    BY <2>1, AnswerSeqs
  <2>. QED BY <2>2, AnswerSeqs DEF RingsOK
<1>2. frames' = [frames EXCEPT ![s] = kept \o info \o replies]
  BY DEF DataLast, RingsOK
<1> HIDE DEF kept, info
<1>3. kept \o info \o replies \in Seq(Answer)
  BY <1>1, ConcatProperties
<1>4. frames' \in [Adapters -> Seq(Answer)]
  BY <1>2, <1>3 DEF RingsOK
<1>5. readFrames' \in Seq(ReadFrame)
  <2>1. [slot |-> s, data |-> "none", more |-> Sb(frames'[s])] \in ReadFrame
    BY DEF ReadFrame, Sb
  <2>. QED BY <2>1 DEF DataLast, Answered, RingsOK
<1>6. CamsOK'
  <2>1. Checked(cam[s]) \in Cam
    BY CheckedType DEF CamsOK
  <2>. QED BY <2>1 DEF DataLast, CamsOK
<1>. QED BY <1>4, <1>5, <1>6 DEF RingsOK

LEMMA RepliesType == \A cmd, lm : Replies(cmd, lm) \in Seq(Answer)
<1>1. "reply" \in Answer
  BY DEF Answer
<1>2. <<"reply">> \in Seq(Answer)
  BY <1>1, AnswerSeqs
<1>. QED BY <1>2, AnswerSeqs DEF Replies

\* The request that Process makes of a CA_PMT.
SidOf(s, sid, lm, data) == [adapter |-> s, sid |-> sid, lm |-> lm, data |-> data]

LEMMA CaPmtType ==
  ASSUME ServiceOK, NEW s \in Adapters, NEW sid \in Sids \cup {NoSid},
         NEW lm \in {LIST_ONLY, LIST_ADD, LIST_UPDATE}, NEW cmd \in Commands,
         CaPmtArrives(s, sid, lm, cmd)
  PROVE  ServiceOK'
<1>1. ASSUME NEW data \in Contents \cup {NoData}, SidRequest(s, sid, lm, data)
      PROVE  pmt' \in Seq(PmtObj)
  <2>1. sid # NoSid => SidOf(s, sid, lm, data) \in Request
    BY DEF Request, SidOf
  <2>. QED BY <1>1, <2>1, UpdatedType DEF SidRequest, SidOf, ServiceOK
<1>2. ASSUME NEW delete \in BOOLEAN, InitParity(s, sid, delete)
      PROVE  mapped' \subseteq Services /\ known' \subseteq mapped'
  BY <1>2 DEF InitParity, ServiceOK
<1>3. \/ UNCHANGED service
      \/ /\ \E data \in Contents \cup {NoData} : SidRequest(s, sid, lm, data)
         /\ \E delete \in BOOLEAN : InitParity(s, sid, delete)
  BY DEF CaPmtArrives
<1>4. CASE UNCHANGED service
  BY <1>4 DEF service, ServiceOK
<1>. QED BY <1>1, <1>2, <1>3, <1>4 DEF ServiceOK

LEMMA StepRings ==
  RingsOK /\ CamsOK /\ ServiceOK /\ [Next]_vars => (RingsOK /\ CamsOK /\ ServiceOK)'
<1> SUFFICES ASSUME RingsOK, CamsOK, ServiceOK, [Next]_vars
             PROVE  (RingsOK /\ CamsOK /\ ServiceOK)'
  OBVIOUS
<1>0. /\ UNCHANGED service => ServiceOK'
      /\ UNCHANGED <<cam, vdr>> => CamsOK'
      /\ UNCHANGED <<frames, readFrames>> => RingsOK'
  BY DEF service, ServiceOK, CamsOK, RingsOK
<1>1. CASE VdrReads
  <2>0. /\ readFrames # <<>> /\ readFrames' \in {Tail(readFrames), <<>>}
        /\ readFrames \in Seq(ReadFrame)
    BY <1>1 DEF VdrReads, RingsOK
  <2>1. PICK frame : frame = Head(readFrames) /\ frame \in ReadFrame /\ frame.slot \in Adapters
    <3>1. Head(readFrames) \in ReadFrame
      BY <2>0
    <3>. QED BY <3>1 DEF ReadFrame
  <2>2. readFrames' \in Seq(ReadFrame)
    <3>1. Tail(readFrames) \in Seq(ReadFrame)
      BY <2>0
    <3>2. <<>> \in Seq(ReadFrame)
      OBVIOUS
    <3>. QED BY <2>0, <3>1, <3>2
  <2>3. vdr' \in [Adapters -> Side]
    <3> DEFINE s == frame.slot
               side == vdr[s]
               next == IF side.tc = "creating" /\ frame.data = "created"
                         THEN [side EXCEPT !.tc = "active", !.more = frame.more]
                       ELSE IF side.tc = "active" THEN [side EXCEPT !.more = frame.more]
                       ELSE side
    <3>1. side \in Side /\ frame.more \in BOOLEAN
      BY <2>1 DEF CamsOK, ReadFrame
    <3>2. next \in Side
      BY <3>1 DEF Side
    <3>3. vdr' = [vdr EXCEPT ![s] = next] \/ vdr' = vdr
      BY <1>1, <2>1 DEF VdrReads, CamsOK
    <3> HIDE DEF next
    <3>. QED BY <3>2, <3>3 DEF CamsOK
  <2>4. UNCHANGED <<cam, frames, service>>
    BY <1>1 DEF VdrReads
  <2>. QED BY <1>0, <2>2, <2>3, <2>4 DEF RingsOK, CamsOK
<1>2. ASSUME NEW s \in Adapters, ModuleStatus(s) PROVE (RingsOK /\ CamsOK /\ ServiceOK)'
  <2>1. cam[s] \in Cam /\ vdr[s] \in Side /\ <<>> \in Seq(Answer)
    BY DEF CamsOK
  <2>2. AfterStatus(cam[s]) \in Cam /\ Told(vdr[s], Status(cam[s])) \in Side
    BY <2>1, CheckedType, ToldType
  <2>3. cam' = [cam EXCEPT ![s] = AfterStatus(cam[s])]
        /\ vdr' = [vdr EXCEPT ![s] = Told(vdr[s], Status(cam[s]))]
    BY <1>2 DEF ModuleStatus, CamsOK
  <2>4. CamsOK'
    BY <2>2, <2>3 DEF CamsOK
  <2>5. frames' \in [Adapters -> Seq(Answer)] /\ UNCHANGED <<readFrames, service>>
    BY <1>2, <2>1 DEF ModuleStatus, RingsOK
  <2>. QED BY <1>0, <2>4, <2>5 DEF RingsOK
<1>3. ASSUME NEW s \in Adapters, CreateTC(s) PROVE (RingsOK /\ CamsOK /\ ServiceOK)'
  <2>1. frames' \in [Adapters -> Seq(Answer)]
    BY <1>3 DEF CreateTC, RingsOK, Answer
  <2>2. [slot |-> s, data |-> "created", more |-> Sb(frames'[s])] \in ReadFrame
    BY DEF ReadFrame, Sb
  <2>3. readFrames' \in Seq(ReadFrame)
    <3>1. readFrames' = Append(readFrames,
                          [slot |-> s, data |-> "created", more |-> Sb(frames'[s])])
      BY <1>3 DEF CreateTC, Answered
    <3>. QED BY <2>2, <3>1 DEF RingsOK
  <2>4. CamsOK'
    BY <1>3 DEF CreateTC, CamsOK, Side
  <2>. QED BY <1>0, <1>3, <2>1, <2>3, <2>4 DEF CreateTC, RingsOK
<1>4. ASSUME NEW s \in Adapters, Rcv(s) PROVE (RingsOK /\ CamsOK /\ ServiceOK)'
  <2>1. CamsOK'
    BY <1>4 DEF Rcv, CamsOK, Side
  <2>2. frames' \in [Adapters -> Seq(Answer)]
    <3>1. frames[s] # <<>> => Tail(frames[s]) \in Seq(Answer)
      BY DEF RingsOK
    <3>2. <<>> \in Seq(Answer)
      OBVIOUS
    <3>. QED BY <1>4, <3>1, <3>2 DEF Rcv, RingsOK
  <2>3. readFrames' \in Seq(ReadFrame)
    <3>1. ASSUME frames[s] # <<>>, Answered(s, Head(frames[s]), frames'[s])
          PROVE  readFrames' \in Seq(ReadFrame)
      <4>1. Head(frames[s]) \in Answer
        BY <3>1 DEF RingsOK
      <4>2. [slot |-> s, data |-> Head(frames[s]), more |-> Sb(frames'[s])] \in ReadFrame
        BY <4>1 DEF ReadFrame, Sb
      <4>. QED BY <3>1, <4>2 DEF Answered, RingsOK
    <3>. QED BY <1>4, <3>1 DEF Rcv, RingsOK
  <2>. QED BY <1>0, <1>4, <2>1, <2>2, <2>3 DEF Rcv, RingsOK
<1>5. ASSUME NEW s \in Adapters, Poll(s) \/ CaInfoEnq(s)
      PROVE  (RingsOK /\ CamsOK /\ ServiceOK)'
  <2>1. <<>> \in Seq(Answer) /\ <<"CaInfo">> \in Seq(Answer)
    <3>1. "CaInfo" \in Answer
      BY DEF Answer
    <3>. QED BY <3>1, AnswerSeqs
  <2>. QED BY <1>0, <1>5, <2>1, DataLastType DEF Poll, CaInfoEnq
<1>6. ASSUME NEW s \in Adapters, VdrGivesUp(s) PROVE (RingsOK /\ CamsOK /\ ServiceOK)'
  <2>1. [NoConnection EXCEPT !.status = "reset"] \in Side
    BY DEF NoConnection, Side
  <2>2. vdr' \in [Adapters -> Side]
    BY <1>6, <2>1 DEF VdrGivesUp, CamsOK
  <2>. QED BY <1>0, <1>6, <2>2 DEF VdrGivesUp, CamsOK
<1>7. ASSUME NEW s \in Adapters, NEW sid \in Sids \cup {NoSid}, NEW cmd \in Commands,
             NEW lm \in {LIST_ONLY, LIST_ADD, LIST_UPDATE}, CaPmtArrives(s, sid, lm, cmd)
      PROVE  (RingsOK /\ CamsOK /\ ServiceOK)'
  <2>1. DataLast(s, Replies(cmd, lm))
    BY <1>7 DEF CaPmtArrives
  <2>. QED BY <1>7, <2>1, RepliesType, DataLastType, CaPmtType
<1>8. ASSUME NEW svc \in Services, OscamMaps(svc) \/ OscamUnmaps(svc) \/ LearnsSid(svc)
      PROVE  (RingsOK /\ CamsOK /\ ServiceOK)'
  BY <1>0, <1>8 DEF OscamMaps, OscamUnmaps, LearnsSid, ServiceOK
<1>9. CASE UNCHANGED vars
  BY <1>0, <1>9 DEF vars
<1>. QED
  BY <1>1, <1>2, <1>3, <1>4, <1>5, <1>6, <1>7, <1>8, <1>9 DEF Next, CiThread

(***************************************************************************)
(* The ring buffers hold answers only, a pid whose key knows its sid is in *)
(* the pid map, and every other variable keeps its type.                   *)
(***************************************************************************)
THEOREM TypeCorrect == Spec => []TypeOK
BY InitRings, StepRings, TypeParts, PTL DEF Spec
-----------------------------------------------------------------------------
(* Which services are on the list.                                         *)

IsOn(list, svc) == \E i \in DOMAIN list : <<list[i].adapter, list[i].sid>> = svc

(* A request leaves the other services as they are.                        *)
LEMMA ErasesOnlyItsService ==
  ASSUME NEW list \in Seq(PmtObj), NEW r \in Request,
         NEW svc, svc # <<r.adapter, r.sid>>
  PROVE  IsOn(Erased(list, r), svc) <=> IsOn(list, svc)
<1>1. CASE PositionsOf(list, r) = {}
  BY <1>1 DEF Erased
<1>2. CASE PositionsOf(list, r) # {}
  <2> DEFINE e == Erased(list, r)
  <2>1. PICK i \in 1 .. Len(list) :
          /\ list[i].sid = r.sid /\ list[i].adapter = r.adapter
          /\ e \in Seq(PmtObj) /\ Len(e) = Len(list) - 1
          /\ \A j \in 1 .. Len(list) - 1 : e[j] = IF j < i THEN list[j] ELSE list[j + 1]
    BY <1>2, ErasedProperties
  <2> HIDE DEF e
  <2>2. DOMAIN e = 1 .. Len(list) - 1 /\ DOMAIN list = 1 .. Len(list) /\ Len(list) \in Nat
    BY <2>1
  <2>3. ASSUME NEW j \in DOMAIN e, <<e[j].adapter, e[j].sid>> = svc PROVE IsOn(list, svc)
    <3>1. j \in DOMAIN list /\ j + 1 \in DOMAIN list
      BY <2>2
    <3>. QED BY <2>1, <2>2, <2>3, <3>1 DEF IsOn
  <2>4. ASSUME NEW k \in DOMAIN list, <<list[k].adapter, list[k].sid>> = svc
        PROVE  IsOn(e, svc)
    <3>1. k # i
      BY <2>1, <2>4
    <3>2. CASE k < i
      <4>1. k \in DOMAIN e /\ e[k] = list[k]
        BY <2>1, <2>2, <3>2
      <4>. QED BY <2>4, <4>1 DEF IsOn
    <3>3. CASE k > i
      <4>1. k - 1 \in DOMAIN e /\ ~(k - 1 < i) /\ (k - 1) + 1 = k
        BY <2>2, <3>3
      <4>2. e[k - 1] = list[k]
        BY <2>1, <2>2, <4>1
      <4>. QED BY <2>4, <4>1, <4>2 DEF IsOn
    <3>. QED BY <2>2, <3>1, <3>2, <3>3
  <2>. QED BY <2>3, <2>4 DEF IsOn, e
<1>. QED BY <1>1, <1>2

LEMMA UpdatesOnlyItsService ==
  ASSUME NEW list \in Seq(PmtObj), NEW r \in Request,
         NEW svc, svc # <<r.adapter, r.sid>>
  PROVE  IsOn(Updated(list, r), svc) <=> IsOn(list, svc)
<1> DEFINE e == Erased(list, r)
           x == [sid |-> r.sid, adapter |-> r.adapter, data |-> r.data]
<1>1. e \in Seq(PmtObj) /\ (IsOn(e, svc) <=> IsOn(list, svc))
  BY ErasesOnlyItsService, ErasedProperties DEF Erased
<1>2. CASE ~Adds(r)
  BY <1>1, <1>2 DEF Updated
<1>3. CASE Adds(r)
  <2>1. x \in PmtObj /\ x.sid = r.sid /\ x.adapter = r.adapter
    BY <1>3 DEF Adds, Request, PmtObj
  <2> HIDE DEF e, x
  <2>2. /\ DOMAIN Append(e, x) = 1 .. Len(e) + 1
        /\ \A j \in 1 .. Len(e) : Append(e, x)[j] = e[j]
        /\ Append(e, x)[Len(e) + 1] = x
        /\ DOMAIN e = 1 .. Len(e) /\ Len(e) \in Nat
    BY <1>1, <2>1, AppendProperties
  <2>3. IsOn(Append(e, x), svc) <=> IsOn(e, svc)
    <3>1. \A j \in 1 .. Len(e) + 1 : j \in 1 .. Len(e) \/ j = Len(e) + 1
      BY <2>2
    <3>2. \A j \in 1 .. Len(e) : j \in 1 .. Len(e) + 1
      BY <2>2
    <3>. QED BY <2>1, <2>2, <3>1, <3>2 DEF IsOn
  <2>. QED BY <1>1, <1>3, <2>3 DEF Updated, e, x
<1>. QED BY <1>2, <1>3

(***************************************************************************)
(* A CA_PMT for a service of one card leaves the services of the others,   *)
(* and other services of the same card, on the list and decrypted: the     *)
(* list is looked up by sid and adapter, and Init_Parity resets only keys  *)
(* with the sid of the request.                                            *)
(***************************************************************************)
THEOREM LeavesOtherServices == Spec => OnlyItsService
<1> DEFINE A == \A svc \in Services :
                  Listed(svc) # Listed(svc)' =>
                    \A other \in Services \ {svc} :
                      Listed(other)' = Listed(other) /\ (other \in mapped) = (other \in mapped')
<1>1. ServiceOK /\ [Next]_vars => [A]_vars
  <2> SUFFICES ASSUME ServiceOK, Next, NEW svc \in Services, Listed(svc) # Listed(svc)',
                      NEW other \in Services \ {svc}
               PROVE  Listed(other)' = Listed(other) /\ (other \in mapped) = (other \in mapped')
    OBVIOUS
  <2>1. pmt' # pmt
    BY DEF Listed
  <2>2. PICK s \in Adapters, sid \in Sids \cup {NoSid}, cmd \in Commands,
             lm \in {LIST_ONLY, LIST_ADD, LIST_UPDATE} : CaPmtArrives(s, sid, lm, cmd)
    BY <2>1 DEF Next, VdrReads, ModuleStatus, CiThread, CreateTC, Rcv, Poll, VdrGivesUp,
                CaInfoEnq, OscamMaps, OscamUnmaps, LearnsSid, service
  <2>3. PICK data \in Contents \cup {NoData} : SidRequest(s, sid, lm, data)
    BY <2>1, <2>2 DEF CaPmtArrives, service
  <2>4. sid # NoSid /\ sid \in Sids /\ pmt' = Updated(pmt, SidOf(s, sid, lm, data))
    BY <2>1, <2>3 DEF SidRequest, SidOf
  <2>5. \A x : x # <<s, sid>> => (IsOn(pmt', x) <=> IsOn(pmt, x))
    <3>1. /\ SidOf(s, sid, lm, data) \in Request
          /\ SidOf(s, sid, lm, data).adapter = s /\ SidOf(s, sid, lm, data).sid = sid
      BY <2>4 DEF SidOf, Request
    <3>. QED BY <2>4, <3>1, UpdatesOnlyItsService DEF ServiceOK
  <2>6. svc = <<s, sid>> /\ other # <<s, sid>>
    BY <2>5 DEF Listed, IsOn
  <2>7. Listed(other)' = Listed(other)
    BY <2>5, <2>6 DEF Listed, IsOn
  <2>8. other \in mapped <=> other \in mapped'
    <3>1. PICK delete \in BOOLEAN : InitParity(s, sid, delete)
      BY <2>1, <2>2 DEF CaPmtArrives, service
    <3>2. other[1] # s \/ other[2] # sid
      BY <2>6 DEF Services
    <3>. QED BY <2>4, <3>1, <3>2 DEF InitParity
  <2>. QED BY <2>7, <2>8
<1>2. Spec => []ServiceOK
  BY InitRings, StepRings, PTL DEF Spec
<1>. QED BY <1>1, <1>2, PTL DEF Spec, OnlyItsService

-----------------------------------------------------------------------------
(* The fill control.                                                       *)

Limits == MinWaterMark .. MaxWaterMark
-----------------------------------------------------------------------------
(***************************************************************************)
(* The expression of Filter (SCCAMSlot.cpp:416) is the median: one of the  *)
(* three, with one of the others on either side.                           *)
(***************************************************************************)
THEOREM FilterIsMedian ==
  ASSUME NEW a \in Int, NEW b \in Int, NEW c \in Int
  PROVE  LET m == Median(a, b, c)
             Between(x, y) == (x <= m /\ m <= y) \/ (y <= m /\ m <= x)
         IN  \/ m = a /\ Between(b, c)
             \/ m = b /\ Between(a, c)
             \/ m = c /\ Between(a, b)
BY DEF Median, Smaller, Larger

\* The mark that Reset stores.
LEMMA MarkLimits == MaxWaterMark \in Limits /\ Limits \subseteq Int
BY FillControlAssumption DEF Limits

(***************************************************************************)
(* Clamping brings any measured amount between the limits, those that are  *)
(* negative because the ring was emptied in the meantime too.              *)
(***************************************************************************)
LEMMA ClampedInLimits ==
  ASSUME NEW mark \in Int
  PROVE  Clamped(mark) \in Limits
BY FillControlAssumption DEF Clamped, Smaller, Larger, Limits

(***************************************************************************)
(* What the filter makes of a mark and taps between the limits is between  *)
(* them, also with one tap or none.                                        *)
(***************************************************************************)
LEMMA FilteredInLimits ==
  ASSUME NEW input \in Limits,
         NEW tap1 \in Limits \cup {NoTap}, NEW tap2 \in Limits \cup {NoTap}
  PROVE  Filtered(input, tap1, tap2) \in Limits
BY FillControlAssumption DEF Filtered, Median, Smaller, Larger, Limits, NoTap
-----------------------------------------------------------------------------
(* The inductive invariant.  What the receive thread holds in Filter is    *)
(* between the limits, and so are the taps; only between the store of the  *)
(* measured amount and its clamping is the mark anywhere.                  *)

TapsInLimits ==
  /\ fltTap1 \in Limits \cup {NoTap} /\ fltTap2 \in Limits \cup {NoTap}
  /\ rx.pc = "clamped" =>
       /\ rx.input \in Limits
       /\ rx.tap1 \in Limits \cup {NoTap} /\ rx.tap2 \in Limits \cup {NoTap}

MarkClamped == rx.pc # "measured" => lowWaterMark \in Limits

ServesData == rx.pc # "idle" => filled > 0

FillInv == FillTypeOK /\ TapsInLimits /\ MarkClamped /\ ServesData

LEMMA InitFillInv == FillInit => FillInv
BY FillControlAssumption, MarkLimits
DEF FillInit, FillInv, FillTypeOK, TapsInLimits, MarkClamped, ServesData, Idle, Limits, NoTap

LEMMA FillTypeStep == FillInv /\ [FillNext]_fillVars => FillTypeOK'
<1> SUFFICES ASSUME FillInv, [FillNext]_fillVars PROVE FillTypeOK'
  OBVIOUS
<1> USE FillControlAssumption DEF NoTap, FillInv, FillTypeOK, ring, last, taps, control, Serves, Idle
<1>1. CASE ReadyServes
  BY <1>1 DEF ReadyServes
<1>2. CASE ReadyGoesToSleep
  BY <1>2 DEF ReadyGoesToSleep, Count, Data, Smaller
<1>3. CASE SleepFindsEnd
  BY <1>3 DEF SleepFindsEnd
<1>4. CASE SleepGoesOn
  BY <1>4 DEF SleepGoesOn
<1>5. CASE SleepMeasures
  <2>1. Count \in Int
    BY DEF Count, Smaller
  <2> QED BY <1>5, <2>1 DEF SleepMeasures
<1>6. CASE ClampsMark
  <2>1. Clamped(lowWaterMark) \in Int
    BY ClampedInLimits DEF Limits
  <2> QED BY <1>6, <2>1 DEF ClampsMark
<1>7. CASE FiltersMark
  <2>1. rx.input \in Int /\ rx.tap1 \in Int /\ rx.tap2 \in Int
    OBVIOUS
  <2>2. Filtered(rx.input, rx.tap1, rx.tap2) \in Int
    BY <2>1 DEF Filtered, Median, Smaller, Larger
  <2> QED BY <1>7, <2>1, <2>2 DEF FiltersMark
<1>8. CASE WrapServes
  BY <1>8 DEF WrapServes, Count, Data, Smaller
<1>9. CASE WrapEnds
  BY <1>9 DEF WrapEnds
<1>10. CASE TakesPacket
  BY <1>10 DEF TakesPacket, ServesData
<1>11. CASE ResetsState \/ ResetsMark \/ ResetsTaps
  BY <1>11 DEF ResetsState, ResetsMark, ResetsTaps
<1>12. CASE PacketArrives \/ RingEmptied
  BY <1>12 DEF PacketArrives, RingEmptied
<1>13. CASE UNCHANGED fillVars
  BY <1>13 DEF fillVars
<1> QED
  BY <1>1, <1>2, <1>3, <1>4, <1>5, <1>6, <1>7, <1>8, <1>9, <1>10, <1>11, <1>12, <1>13
  DEF FillNext, CanProcess

LEMMA MarkStep ==
  FillInv /\ [FillNext]_fillVars => TapsInLimits' /\ MarkClamped' /\ ServesData'
<1> SUFFICES ASSUME FillInv, [FillNext]_fillVars
             PROVE  TapsInLimits' /\ MarkClamped' /\ ServesData'
  OBVIOUS
<1> USE FillControlAssumption, MarkLimits
    DEF FillInv, FillTypeOK, TapsInLimits, MarkClamped, ServesData,
        ring, last, taps, control, Serves, Idle, Called
<1>1. CASE ReadyServes \/ SleepFindsEnd \/ WrapServes
  BY <1>1 DEF ReadyServes, SleepFindsEnd, WrapServes
<1>2. CASE ReadyGoesToSleep \/ SleepGoesOn \/ WrapEnds
  BY <1>2 DEF ReadyGoesToSleep, SleepGoesOn, WrapEnds
<1>3. CASE SleepMeasures
  BY <1>3 DEF SleepMeasures
<1>4. CASE ClampsMark
  <2>1. Clamped(lowWaterMark) \in Limits
    BY ClampedInLimits
  <2> QED BY <1>4, <2>1 DEF ClampsMark
<1>5. CASE FiltersMark
  <2>1. rx.pc = "clamped"
    BY <1>5 DEF FiltersMark
  <2>2. Filtered(rx.input, rx.tap1, rx.tap2) \in Limits
    BY <2>1, FilteredInLimits
  <2> QED BY <1>5, <2>1, <2>2 DEF FiltersMark
<1>6. CASE TakesPacket
  BY <1>6 DEF TakesPacket
<1>7. CASE ResetsState \/ ResetsMark \/ ResetsTaps
  BY <1>7 DEF ResetsState, ResetsMark, ResetsTaps
<1>8. CASE PacketArrives \/ RingEmptied
  BY <1>8 DEF PacketArrives, RingEmptied
<1>9. CASE UNCHANGED fillVars
  BY <1>9 DEF fillVars
<1> QED
  BY <1>1, <1>2, <1>3, <1>4, <1>5, <1>6, <1>7, <1>8, <1>9 DEF FillNext, CanProcess

THEOREM FillInvariance == FillSpec => []FillInv
<1>1. FillInit => FillInv
  BY InitFillInv
<1>2. FillInv /\ [FillNext]_fillVars => FillInv'
  BY FillTypeStep, MarkStep DEF FillInv
<1> QED BY <1>1, <1>2, PTL DEF FillSpec

(***************************************************************************)
(* Every variable of the fill control and of the ring keeps its type.      *)
(***************************************************************************)
THEOREM FillTypeCorrect == FillSpec => []FillTypeOK
<1>1. FillInv => FillTypeOK
  BY DEF FillInv
<1> QED BY <1>1, FillInvariance, PTL

(***************************************************************************)
(* Whatever the bitrate and however Reset falls into CanProcess, the       *)
(* receive thread judges the ring by a mark between the limits: the        *)
(* comment of SCCAMSlot.h:40-41 is right that no lock is needed for this.  *)
(***************************************************************************)
THEOREM MarkStaysWithinLimits == FillSpec => []MarkWithinLimits
<1>1. FillInv => MarkWithinLimits
  BY DEF FillInv, MarkClamped, MarkWithinLimits, Limits
<1> QED BY <1>1, FillInvariance, PTL
=============================================================================
