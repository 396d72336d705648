----------------------------- MODULE LifeCycle -----------------------------
(***************************************************************************)
(* The plugin's objects and the threads that use them.  DVBAPI::Start      *)
(* makes the objects, two of them with a thread of their own; DVBAPI::Stop *)
(* ends these; VDR deletes the devices, whose receive threads call the CAM *)
(* slots until then; the destructor deletes the objects.                   *)
(*                                                                         *)
(* A thread runs a list of steps: the mutexes its calls take, one inside   *)
(* the other, and the global pointers they test.  What the calls do to the *)
(* data is the subject of the other modules.  A mutex under which nothing  *)
(* else is taken is one step; those of the keys are all of that kind and   *)
(* left out.                                                               *)
(***************************************************************************)
EXTENDS SequencesExt

CONSTANT Cards          \* the cards of the devices with a CAM slot, in order

Card == ToSet(Cards)
ASSUME CardsAssumption ==
  /\ Cards \in Seq(Card) /\ IsInjective(Cards)
  /\ Card \cap {"plugin", "main", "sock", "ci", "nobody"} = {}

Receivers == Card                       \* each device has a receive thread
Thread == {"main", "sock", "ci"} \cup Receivers
Nobody == "nobody"

Object == {"capmt", "decsa", "filter", "SockHandler", "sCCIAdapter"}

\* A mutex is named with its card, or "plugin": Home has its object.
Home == [ci |-> "sCCIAdapter", slot |-> "sCCIAdapter", capmt |-> "capmt",
         decsa |-> "decsa", decrypt |-> "decsa", adapter |-> "decsa",
         stop |-> "decsa", filter |-> "filter", sock |-> "SockHandler"]
Mutex == ({"ci", "capmt", "decsa", "filter", "sock"} \X {"plugin"})
           \cup ({"slot", "decrypt", "adapter", "stop"} \X Card)

VARIABLES
  exists,       \* the objects whose memory is alive
  global,       \* the objects whose global pointer is set
  running,      \* the threads of the plugin that are to go on
  todo,         \* the steps each thread has to do
  result,       \* whether its last question was answered with yes
  owner,        \* the thread that has the mutex
  listed,       \* whether there are services in the CAPMT list
  connected,    \* whether SocketHandler has a socket
  stopped,      \* SCCIAdapter::stopped
  assigned,     \* the cards whose CAM slot is assigned to their device
  phase         \* how far VDR and the plugin are

data == <<listed, connected, stopped, assigned, phase>>
vars == <<exists, global, running, todo, result, owner, data>>
-----------------------------------------------------------------------------
(* Steps, and the calls they make up.                                      *)

Lock(name, card)    == <<"lock", <<name, card>>>>
Unlock(name, card)  == <<"unlock", <<name, card>>>>
Within(name, what)  == <<"within", <<<<name, "plugin">>, what>>>>  \* all in one
Brief(name, card)   == <<"within", <<<<name, card>>, "nothing">>>>
IfSet(o, steps)     == <<"if_set", <<o, steps>>>>
IfSo(steps)         == <<"if_so", steps>>
Maybe(steps)        == <<"maybe", steps>>
Do(what, arg)       == <<what, arg>>

\* cMutex is recursive: what a thread locks again is left out.
Locked(name, card, steps) == <<Lock(name, card)>> \o steps \o <<Unlock(name, card)>>
EachCard(steps) == FlattenSeq([i \in DOMAIN Cards |-> steps[Cards[i]]])

Write == Brief("sock", "plugin")
OpenConnection == Locked("sock", "plugin", <<Do("open", "sock")>>)
CloseConnection_UnderMutex ==
  Locked("sock", "plugin", <<Do("close", "sock"), IfSo(<<Brief("filter", "plugin")>>)>>)
\* StopAllFilters only after the mutex was released.
CloseConnection ==
  <<Within("sock", "close"), IfSo(<<Brief("filter", "plugin")>>)>>

SendAll == Locked("capmt", "plugin", <<Write>>)
ProcessSIDRequest(left) == Locked("capmt", "plugin", <<Maybe(<<Do("list", left), Write>>)>>)
GetCAIDFromPid == IfSet("capmt", <<Brief("capmt", "plugin")>>)

\* The requests of OSCam; SetData and the like only take decsa's mutex.
SetCaPid(card) == Locked("decsa", "plugin", <<Brief("adapter", card)>>)
SetDescr == Locked("decsa", "plugin", <<Brief("filter", "plugin")>>)
SetFilter(card) ==
  Locked("filter", "plugin", <<IfSet("decsa", <<Brief("adapter", card)>>)>>)
UpdateEcmInfo == <<Brief("capmt", "plugin")>>
HandleMessage ==
  {SetCaPid(card) : card \in Card} \cup {SetFilter(card) : card \in Card}
    \cup {SetDescr, UpdateEcmInfo}

\* A turn of SocketHandler::Action without a socket.
Connects ==
  <<IfSet("capmt",
      <<Within("capmt", "any_listed"),
        IfSo(OpenConnection \o <<IfSo(<<Write>> \o SendAll)>>)>>)>>

\* SCCIAdapter::Read and ModuleStatus, or Write with a CA_PMT for the slot.
Init_Parity(card) == IfSet("decsa", <<Brief("adapter", card)>>)
CiCalls ==
  {<<Brief("ci", "plugin")>>}
    \cup {Locked("ci", "plugin", ProcessSIDRequest(BOOLEAN) \o <<Init_Parity(card)>>) :
            card \in Card}
    \cup {Locked("ci", "plugin", <<Init_Parity(card)>> \o ProcessSIDRequest({TRUE})) :
            card \in Card}

\* SCCAMSlot::Decrypt of a clear packet, which may end a section, and of a
\* scrambled one, which may have to wait for its CW.
Analyze == Locked("filter", "plugin", <<Maybe(<<GetCAIDFromPid, Write>>)>>)
WaitsForCw(card) ==
  Locked("stop", card, <<Unlock("adapter", card), Lock("adapter", card)>>)
Decrypt(card) ==
  Locked("decrypt", card,
    Locked("adapter", card, <<Maybe(<<GetCAIDFromPid, Maybe(WaitsForCw(card))>>)>>))
-----------------------------------------------------------------------------
(* DVBAPI.                                                                 *)

New(o) == <<Do("make", o), Do("point", o)>>
Start_AdapterFirst ==
  New("capmt") \o New("decsa") \o New("filter") \o New("sCCIAdapter")
    \o New("SockHandler") \o <<Do("phase", "running")>>
Start ==
  New("capmt") \o New("decsa") \o New("filter") \o New("SockHandler")
    \o New("sCCIAdapter") \o <<Do("phase", "running")>>

\* cThread::Cancel; that it gives up after 3 s is left out.
Cancel(t) == <<Do("cancel", t), Do("join", t)>>
\* Some of the cards are in a wait.
CancelWait ==
  {EachCard([card \in Card |-> IF card \in waits THEN <<Brief("stop", card)>> ELSE <<>>]) :
     waits \in SUBSET Card}
UnassignSlots(cancelWait) ==
  EachCard([card \in Card |->
    Locked("slot", card, <<Do("unassign", card), IfSo(<<IfSet("decsa", cancelWait)>>)>>)])
StopAdapter_StoppedLast(cancelWait) ==
  UnassignSlots(cancelWait) \o <<Do("stop", "adapter")>> \o Cancel("ci")
StopAdapter(cancelWait) ==
  <<Do("stop", "adapter")>> \o UnassignSlots(cancelWait) \o Cancel("ci")
StopSocket_ClosesFirst == CloseConnection \o Cancel("sock")
StopSocket == Cancel("sock") \o CloseConnection
Stop(cancelWait) == StopAdapter(cancelWait) \o StopSocket \o <<Do("phase", "stopped")>>

Delete(o, steps) == steps \o <<Do("free", o), Do("forget", o)>>
Destructor ==
  Delete("sCCIAdapter", Cancel("ci") \o <<Brief("ci", "plugin")>>)
    \o Delete("SockHandler", StopSocket)
    \o Delete("filter", <<Brief("filter", "plugin")>>)
    \o Delete("decsa", EachCard([card \in Card |-> <<Brief("decrypt", card)>>]))
    \o Delete("capmt", <<Brief("capmt", "plugin")>>)

Ends_ObjectsFirst(cancelWait) ==
  Stop(cancelWait) \o Destructor \o <<Do("delete", "devices"), Do("phase", "ended")>>
\* The devices are deleted between the two (external).
Ends(cancelWait) ==
  Stop(cancelWait) \o <<Do("delete", "devices")>> \o Destructor \o <<Do("phase", "ended")>>
-----------------------------------------------------------------------------
Init ==
  /\ exists = {} /\ global = {} /\ running = {}
  /\ todo = [t \in Thread |-> IF t = "main" THEN Start ELSE <<>>]
  /\ result = [t \in Thread |-> FALSE] /\ owner = [m \in Mutex |-> Nobody]
  /\ listed = FALSE /\ connected = FALSE /\ stopped = FALSE
  /\ assigned = {} /\ phase = "starting"

\* VDR stops the plugin (external).
StopRequested ==
  /\ phase = "running" /\ phase' = "stopping"
  /\ \E cancelWait \in CancelWait : todo' = [todo EXCEPT !["main"] = Ends(cancelWait)]
  /\ UNCHANGED <<exists, global, running, result, owner, listed, connected, stopped, assigned>>

DevicesExist == phase \in {"starting", "running", "stopping", "stopped"}
Idle(t) == todo[t] = <<>>
Begins(t, calls) ==
  /\ Idle(t)
  /\ \E steps \in calls : todo' = [todo EXCEPT ![t] = steps]
  /\ UNCHANGED <<exists, global, running, result, owner, data>>

SocketTurn ==
  /\ "sock" \in running
  /\ Begins("sock", IF connected THEN HandleMessage \cup {CloseConnection} ELSE {Connects})
CiTurn == "ci" \in running /\ Begins("ci", CiCalls)
Receives(card) ==
  DevicesExist /\ card \in assigned /\ Begins(card, {Analyze, Decrypt(card)})
\* VDR assigns the slot to its device, under a mutex of its own (external).
Tunes(card) ==
  /\ DevicesExist /\ "sCCIAdapter" \in exists /\ owner[<<"slot", card>>] = Nobody
  /\ ~stopped /\ assigned' = assigned \cup {card}
  /\ UNCHANGED <<exists, global, running, todo, result, owner, listed, connected, stopped, phase>>

At(t, kind) == ~Idle(t) /\ Head(todo[t])[1] = kind
Arg(t) == Head(todo[t])[2]
Went(t) == todo' = [todo EXCEPT ![t] = Tail(@)]
Went_Doing(t, steps) == todo' = [todo EXCEPT ![t] = steps \o Tail(@)]
Answered(t, yes) == result' = [result EXCEPT ![t] = yes]

Locks(t) ==
  /\ At(t, "lock") /\ owner[Arg(t)] = Nobody
  /\ owner' = [owner EXCEPT ![Arg(t)] = t] /\ Went(t)
  /\ UNCHANGED <<exists, global, running, result, data>>
Unlocks(t) ==
  /\ At(t, "unlock") /\ owner' = [owner EXCEPT ![Arg(t)] = Nobody] /\ Went(t)
  /\ UNCHANGED <<exists, global, running, result, data>>

Closes(t) ==
  Answered(t, connected) /\ connected' = FALSE /\ UNCHANGED <<listed, stopped, assigned, phase>>
LocksBriefly(t) ==
  /\ At(t, "within") /\ owner[Arg(t)[1]] = Nobody /\ Went(t)
  /\ \/ Arg(t)[2] = "nothing" /\ UNCHANGED <<result, data>>
     \/ Arg(t)[2] = "close" /\ Closes(t)
     \/ Arg(t)[2] = "any_listed" /\ Answered(t, listed) /\ UNCHANGED data
  /\ UNCHANGED <<exists, global, running, owner>>

Tests(t) ==
  /\ \/ At(t, "if_set") /\ Went_Doing(t, IF Arg(t)[1] \in global THEN Arg(t)[2] ELSE <<>>)
        /\ UNCHANGED result
     \/ At(t, "if_so") /\ Went_Doing(t, IF result[t] THEN Arg(t) ELSE <<>>)
        /\ Answered(t, FALSE)
     \/ At(t, "maybe") /\ (Went(t) \/ Went_Doing(t, Arg(t))) /\ UNCHANGED result
  /\ UNCHANGED <<exists, global, running, owner, data>>

\* What is done under the mutex.
Acts(t) ==
  /\ \/ At(t, "open") /\ connected' \in BOOLEAN /\ Answered(t, connected')
        /\ UNCHANGED <<listed, stopped, assigned, phase>>
     \/ At(t, "close") /\ Closes(t)
     \/ At(t, "list") /\ listed' \in Arg(t)
        /\ UNCHANGED <<result, connected, stopped, assigned, phase>>
     \/ At(t, "unassign") /\ Answered(t, Arg(t) \in assigned)
        /\ assigned' = assigned \ {Arg(t)} /\ UNCHANGED <<listed, connected, stopped, phase>>
     \/ At(t, "stop") /\ stopped' = TRUE
        /\ UNCHANGED <<result, listed, connected, assigned, phase>>
     \/ At(t, "phase") /\ phase' = Arg(t)
        /\ UNCHANGED <<result, listed, connected, stopped, assigned>>
     \/ /\ At(t, "delete") /\ \A u \in Receivers : Idle(u)
        /\ phase' = "devices_deleted" /\ UNCHANGED <<result, listed, connected, stopped, assigned>>
  /\ Went(t) /\ UNCHANGED <<exists, global, running, owner>>

\* The constructor starts the thread, before the pointer is set.
ThreadOf(o) == CASE o = "SockHandler" -> {"sock"} [] o = "sCCIAdapter" -> {"ci"} [] OTHER -> {}
Manages(t) ==
  /\ \/ /\ At(t, "make") /\ exists' = exists \cup {Arg(t)}
        /\ running' = running \cup ThreadOf(Arg(t)) /\ UNCHANGED global
     \/ At(t, "point") /\ global' = global \cup {Arg(t)} /\ UNCHANGED <<exists, running>>
     \/ At(t, "free") /\ exists' = exists \ {Arg(t)} /\ UNCHANGED <<global, running>>
     \/ At(t, "forget") /\ global' = global \ {Arg(t)} /\ UNCHANGED <<exists, running>>
     \/ At(t, "cancel") /\ running' = running \ {Arg(t)} /\ UNCHANGED <<exists, global>>
     \/ At(t, "join") /\ Idle(Arg(t)) /\ UNCHANGED <<exists, global, running>>
  /\ Went(t) /\ UNCHANGED <<result, owner, data>>

Runs(t) == Locks(t) \/ Unlocks(t) \/ LocksBriefly(t) \/ Tests(t) \/ Acts(t) \/ Manages(t)
Ended == phase = "ended" /\ UNCHANGED vars
Next ==
  \/ StopRequested \/ SocketTurn \/ CiTurn \/ Ended
  \/ \E card \in Card : Tunes(card) \/ Receives(card)
  \/ \E t \in Thread : Runs(t)

Spec == Init /\ [][Next]_vars
-----------------------------------------------------------------------------
\* The object a step uses; the global pointer it was reached through is set,
\* except that VDR and the adapter's own thread have a pointer of their own.
Touched(t) ==
  IF At(t, "lock") \/ At(t, "unlock") THEN {Home[Arg(t)[1]]}
  ELSE IF At(t, "within") THEN {Home[Arg(t)[1][1]]} ELSE {}

(***************************************************************************)
(* No thread is about to use, or inside, an object that was not made yet   *)
(* or is already deleted: the socket thread runs from inside its           *)
(* constructor, before SockHandler is set; and a receive thread may be in  *)
(* Decrypt or Analyze long after Stop.                                     *)
(***************************************************************************)
NoUseAfterFree ==
  \A t \in Thread : Touched(t) \subseteq exists \cap (global \cup {"sCCIAdapter"})

WaitsFor(t, u) ==
  \/ At(t, "lock") /\ owner[Arg(t)] = u
  \/ At(t, "within") /\ owner[Arg(t)[1]] = u
  \/ At(t, "join") /\ Arg(t) = u
  \/ At(t, "delete") /\ u \in Receivers /\ ~Idle(u)

(***************************************************************************)
(* The threads never wait for one another in a circle: the calls go from   *)
(* the adapter, the filter and DeCSA into each other, to CAPMT and to the  *)
(* socket with their mutexes held, from four threads, while VDR's main     *)
(* thread waits for the end of these threads.                              *)
(***************************************************************************)
NoCyclicWait ==
  \A S \in SUBSET Thread : S # {} => \E t \in S : \A u \in S : ~WaitsFor(t, u)

(***************************************************************************)
(* "the slots outlive Stop(), so they must not keep a device that VDR      *)
(* deletes before them" (SCCIAdapter.cpp:176): whatever VDR tunes while    *)
(* the plugin stops.                                                       *)
(***************************************************************************)
NoSlotKeepsDevice == ~DevicesExist => assigned = {}

(***************************************************************************)
(* After DVBAPI::Stop the plugin's threads are gone and the connection is  *)
(* closed and stays so, although the socket thread connects again by       *)
(* itself and the receive threads go on writing.                           *)
(***************************************************************************)
QuietAfterStop ==
  phase \notin {"starting", "running", "stopping"} => ~connected /\ Idle("sock") /\ Idle("ci")
=============================================================================
