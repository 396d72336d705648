--------------------------- MODULE LifeCycleProofs ---------------------------
(***************************************************************************)
(* Proofs about LifeCycle, for any number of cards: what a thread has      *)
(* still to do always fits the mutexes it has and the objects there are.   *)
(***************************************************************************)
EXTENDS LifeCycle, NatRecursion

\* The order in which mutexes are taken.  Those of a card, of which only its
\* receive thread ever has one for more than a moment, have no order.
Rank == [slot |-> 0, ci |-> 0, decsa |-> 0, filter |-> 1,
         decrypt |-> 2, adapter |-> 2, stop |-> 2, capmt |-> 3, sock |-> 4]
Level(x) == Rank[x[1]]
OfCard == {"decrypt", "adapter", "stop"}
Above(held, x) ==
  /\ x \notin held
  /\ \A y \in held : \/ Level(y) < Level(x)
                     \/ x[1] \in OfCard /\ y[1] \in OfCard /\ x[2] = y[2]

\* The mutexes a thread may have, and those it takes for a moment.
MayHold(t) ==
  CASE t = "main" -> {"slot"} \X Card
    [] t = "sock" -> {"decsa", "filter", "capmt", "sock"} \X {"plugin"}
    [] t = "ci"   -> {"ci", "capmt"} \X {"plugin"}
    [] OTHER      -> ({"filter"} \X {"plugin"}) \cup (OfCard \X {t})
MayUse(t) ==
  CASE t = "sock" -> ({"filter", "capmt", "sock"} \X {"plugin"}) \cup ({"adapter"} \X Card)
    [] t = "ci"   -> ({"ci", "sock"} \X {"plugin"}) \cup ({"adapter"} \X Card)
    [] OTHER      -> {"capmt", "sock"} \X {"plugin"}

\* What a step does to the mutexes a thread has.
ThreadDoes(t, held, step, after) ==
  \/ /\ step[1] = "lock" /\ step[2] \in MayHold(t) /\ Above(held, step[2])
     /\ after = held \cup {step[2]}
  \/ step[1] = "unlock" /\ step[2] \in held /\ after = held \ {step[2]}
  \/ /\ step[1] = "within" /\ step[2][1] \in MayUse(t) /\ Above(held, step[2][1])
     /\ step[2][2] = "close" => t = "sock"
     /\ after = held
  \/ step[1] = "open" /\ t = "sock" /\ after = held
  \/ step[1] = "list" /\ t = "ci" /\ step[2] \subseteq BOOLEAN /\ after = held

\* The main thread knows more: it makes and deletes the objects.
Base == {"capmt", "decsa", "filter"}
Alive(m, o) == o \in m.exists /\ o \in m.global \cup {"sCCIAdapter"}
Over == {"sock", "ci"}
MainDoes(m, step, n) ==
  LET arg == step[2]
  IN  \/ /\ step[1] = "lock" /\ arg \in MayHold("main") /\ Above(m.held, arg)
         /\ Alive(m, Home[arg[1]]) /\ n = [m EXCEPT !.held = @ \cup {arg}]
      \/ step[1] = "unlock" /\ arg \in m.held /\ Alive(m, Home[arg[1]])
         /\ n = [m EXCEPT !.held = @ \ {arg}]
      \/ /\ step[1] = "within" /\ arg[1] \in Mutex /\ Above(m.held, arg[1])
         /\ Alive(m, Home[arg[1][1]])
         /\ \/ arg[2] = "nothing" /\ n = m
            \/ arg[2] = "close" /\ "sock" \in m.ended /\ n = [m EXCEPT !.done = @ \cup {"closed"}]
      \/ /\ step[1] = "unassign" /\ arg \in Card /\ "stopped" \in m.done
         /\ n = [m EXCEPT !.gone = @ \cup {arg}]
      \/ step[1] = "stop" /\ n = [m EXCEPT !.done = @ \cup {"stopped"}]
      \/ /\ step[1] = "make" /\ m.phase = "starting" /\ arg \in Object
         /\ arg = "SockHandler" => Base \subseteq m.exists \cap m.global
         /\ arg = "sCCIAdapter" =>
              Base \cup {"SockHandler"} \subseteq m.exists \cap m.global
         /\ n = [[m EXCEPT !.exists = @ \cup {arg}] EXCEPT !.running = @ \cup ThreadOf(arg)]
      \/ step[1] = "point" /\ arg \in m.exists /\ n = [m EXCEPT !.global = @ \cup {arg}]
      \/ /\ step[1] = "free" /\ m.phase = "devices_deleted"
         /\ n = [m EXCEPT !.exists = @ \ {arg}]
      \/ /\ step[1] = "forget" /\ m.phase = "devices_deleted"
         /\ n = [m EXCEPT !.global = @ \ {arg}]
      \/ step[1] = "cancel" /\ arg \in Over /\ n = [m EXCEPT !.running = @ \ {arg}]
      \/ /\ step[1] = "join" /\ arg \in Over /\ arg \notin m.running /\ m.held = {}
         /\ m.phase # "starting" /\ n = [m EXCEPT !.ended = @ \cup {arg}]
      \/ /\ step[1] = "delete" /\ m.phase = "stopped" /\ m.held = {} /\ m.gone = Card
         /\ n = [m EXCEPT !.phase = "devices_deleted"]
      \/ /\ step[1] = "phase"
         /\ \/ m.phase = "starting" /\ arg = "running"
            \/ m.phase = "stopping" /\ arg = "stopped" /\ m.ended = Over
               /\ "closed" \in m.done
            \/ m.phase = "devices_deleted" /\ arg = "ended"
         /\ n = [m EXCEPT !.phase = arg]

Does(t, m, step, n) ==
  IF t = "main" THEN MainDoes(m, step, n) ELSE ThreadDoes(t, m, step, n)
\* While the plugin runs its main thread has nothing to do.
Busy(t, m) == t = "main" => m.phase # "running"

-----------------------------------------------------------------------------
(* Lists of steps: Leads(t, m, s, n) says that a thread t that is in the   *)
(* state m may do all of s, whatever its tests find, and is in n then.  It *)
(* is witnessed by a set of states, each with the list of the steps left.  *)

IsList(s) == \E S : s \in Seq(S)
IsBranch(step) == step[1] \in {"if_set", "if_so", "maybe"}
Inner(step) == IF step[1] = "if_set" THEN step[2][2] ELSE step[2]

Fits(t, P, m, s, n) ==
  /\ IsList(s)
  /\ s = <<>> => m = n
  /\ s # <<>> => Busy(t, m)
  /\ s # <<>> /\ IsBranch(Head(s)) =>
       /\ IsList(Inner(Head(s)))
       /\ <<m, Tail(s)>> \in P
       /\ <<m, Inner(Head(s)) \o Tail(s)>> \in P
  /\ s # <<>> /\ ~IsBranch(Head(s)) =>
       \E k : Does(t, m, Head(s), k) /\ <<k, Tail(s)>> \in P
Witness(t, P, n) == \A m, s : <<m, s>> \in P => Fits(t, P, m, s, n)
Leads(t, m, s, n) == \E P : Witness(t, P, n) /\ <<m, s>> \in P

(* Lists of any elements: none, one, and one list before another.          *)
LEMMA ListNone == IsList(<<>>)
<1>1. <<>> \in Seq({})
  OBVIOUS
<1>. QED BY <1>1 DEF IsList

\* A list of one step.
LEMMA ListOne ==
  \A e : IsList(<<e>>) /\ <<e>> # <<>> /\ Head(<<e>>) = e /\ Tail(<<e>>) = <<>>
<1>1. \A e : <<e>> \in Seq({e})
  OBVIOUS
<1>2. \A e : IsList(<<e>>)
  BY <1>1 DEF IsList
<1>3. \A e : <<e>> # <<>> /\ Head(<<e>>) = e /\ Tail(<<e>>) = <<>>
  OBVIOUS
<1>. QED BY <1>2, <1>3

\* One list before another: its head and tail, and what is empty.
LEMMA ListConcat ==
  \A s, u : IsList(s) /\ IsList(u) =>
    IsList(s \o u) /\ <<>> \o u = u /\ s \o <<>> = s
<1>. SUFFICES ASSUME NEW s, NEW u, IsList(s), IsList(u)
              PROVE  IsList(s \o u) /\ <<>> \o u = u /\ s \o <<>> = s
  OBVIOUS
<1>1. PICK S, U : s \in Seq(S) /\ u \in Seq(U)
  BY DEF IsList
<1>. DEFINE A == S \cup U
<1>2. s \in Seq(A) /\ u \in Seq(A)
  BY <1>1
<1>. HIDE DEF A
<1>3. s \o u \in Seq(A)
  BY <1>2
<1>4. IsList(s \o u)
  BY <1>3 DEF IsList
<1>5. <<>> \o u = u /\ s \o <<>> = s
  BY <1>2, ConcatEmptySeq
<1>. QED BY <1>4, <1>5

\* A list that has steps is its head before its tail.
LEMMA ListHead ==
  \A s, u : IsList(s) /\ IsList(u) /\ s # <<>> =>
    /\ s \o u # <<>> /\ Head(s \o u) = Head(s)
    /\ Tail(s \o u) = Tail(s) \o u /\ IsList(Tail(s))
<1>. SUFFICES ASSUME NEW s, NEW u, IsList(s), IsList(u), s # <<>>
              PROVE  /\ s \o u # <<>> /\ Head(s \o u) = Head(s)
                     /\ Tail(s \o u) = Tail(s) \o u /\ IsList(Tail(s))
  OBVIOUS
<1>1. PICK S, U : s \in Seq(S) /\ u \in Seq(U)
  BY DEF IsList
<1>. DEFINE A == S \cup U
<1>2. s \in Seq(A) /\ u \in Seq(A)
  BY <1>1
<1>. HIDE DEF A
<1>3. Tail(s) \in Seq(A) /\ Len(s) \in Nat \ {0} /\ Len(u) \in Nat
  BY <1>2
<1>4. Len(s \o u) = Len(s) + Len(u) /\ s \o u \in Seq(A)
  BY <1>2
<1>5. s \o u # <<>> /\ Head(s \o u) = Head(s)
  BY <1>2, <1>3, <1>4
<1>6. Tail(s \o u) = Tail(s) \o u
  BY <1>2, <1>3, <1>4, <1>5
<1>7. IsList(Tail(s))
  BY <1>3 DEF IsList
<1>. QED BY <1>5, <1>6, <1>7

\* Where lists are put together does not matter.
LEMMA ListAssociative ==
  \A s, u, v : IsList(s) /\ IsList(u) /\ IsList(v) => (s \o u) \o v = s \o (u \o v)
<1>. SUFFICES ASSUME NEW s, NEW u, NEW v, IsList(s), IsList(u), IsList(v)
              PROVE  (s \o u) \o v = s \o (u \o v)
  OBVIOUS
<1>1. PICK S, U, V : s \in Seq(S) /\ u \in Seq(U) /\ v \in Seq(V)
  BY DEF IsList
<1>. DEFINE A == S \cup U \cup V
<1>2. s \in Seq(A) /\ u \in Seq(A) /\ v \in Seq(A)
  BY <1>1
<1>. HIDE DEF A
<1>. QED BY <1>2, ConcatAssociative

(* A witness may only grow.                                                *)
LEMMA FitsMore ==
  \A t, P, Q, m, s, n : P \subseteq Q /\ Fits(t, P, m, s, n) => Fits(t, Q, m, s, n)
<1>. SUFFICES ASSUME NEW t, NEW P, NEW Q, NEW m, NEW s, NEW n,
                     P \subseteq Q, Fits(t, P, m, s, n)
              PROVE  Fits(t, Q, m, s, n)
  OBVIOUS
<1>1. \A x : x \in P => x \in Q
  OBVIOUS
<1>. QED BY Zenon, <1>1 DEF Fits

(* Nothing to do; one list after the other; one step; one test.            *)
LEMMA LeadsNowhere == \A t, m : Leads(t, m, <<>>, m)
<1>. SUFFICES ASSUME NEW t, NEW m PROVE Leads(t, m, <<>>, m)
  OBVIOUS
<1>. DEFINE P == {<<m, <<>>>>}
<1>1. <<m, <<>>>> \in P /\ \A k, s : <<k, s>> \in P => k = m /\ s = <<>>
  OBVIOUS
<1>2. Fits(t, P, m, <<>>, m)
  BY ListNone DEF Fits
<1>. HIDE DEF P
<1>3. Witness(t, P, m)
  BY <1>1, <1>2 DEF Witness
<1>. QED BY <1>1, <1>3 DEF Leads

\* Two lists, the second from where the first leads.
LEMMA LeadsOn ==
  \A t, m, k, n, s, u : Leads(t, m, s, k) /\ Leads(t, k, u, n) => Leads(t, m, s \o u, n)
<1>. SUFFICES ASSUME NEW t, NEW m, NEW k, NEW n, NEW s, NEW u,
                     Leads(t, m, s, k), Leads(t, k, u, n)
              PROVE  Leads(t, m, s \o u, n)
  OBVIOUS
<1>1. PICK P : Witness(t, P, k) /\ <<m, s>> \in P
  BY DEF Leads
<1>2. PICK Q : Witness(t, Q, n) /\ <<k, u>> \in Q
  BY DEF Leads
<1>. DEFINE Pairs == {p \in P : p = <<p[1], p[2]>>}
            R == {<<p[1], p[2] \o u>> : p \in Pairs}
            T == Q \cup R
<1>3. \A x, r : <<x, r>> \in P => <<x, r \o u>> \in R
  <2>. SUFFICES ASSUME NEW x, NEW r, <<x, r>> \in P PROVE <<x, r \o u>> \in R
    OBVIOUS
  <2>. DEFINE p == <<x, r>>
  <2>1. p \in Pairs /\ p[1] = x /\ p[2] = r
    OBVIOUS
  <2>. HIDE DEF p, Pairs
  <2>. QED BY <2>1
<1>4. \A x, v : <<x, v>> \in R => \E r : <<x, r>> \in P /\ v = r \o u
  OBVIOUS
<1>. HIDE DEF R
<1>5. IsList(u)
  BY <1>2 DEF Witness, Fits
<1>6. ASSUME NEW x, NEW r, <<x, r>> \in P PROVE Fits(t, T, x, r \o u, n)
  <2>1. Fits(t, P, x, r, k)
    BY <1>1, <1>6 DEF Witness
  <2>2. CASE r = <<>>
    <3>1. x = k /\ r \o u = u
      BY <1>5, <2>1, <2>2, ListConcat, ListNone DEF Fits
    <3>2. Fits(t, Q, k, u, n)
      BY <1>2 DEF Witness
    <3>. QED BY <3>1, <3>2, FitsMore
  <2>3. CASE r # <<>>
    <3>. DEFINE step == Head(r)
                rest == Tail(r)
    <3>1. IsList(r) /\ Busy(t, x)
      BY <2>1, <2>3 DEF Fits
    <3>2. /\ IsList(r \o u) /\ r \o u # <<>> /\ Head(r \o u) = step
          /\ Tail(r \o u) = rest \o u /\ IsList(rest)
      BY Zenon, <1>5, <2>3, <3>1, ListConcat, ListHead
    <3>. HIDE DEF T
    <3>3. ASSUME IsBranch(step)
          PROVE  /\ IsList(Inner(step)) /\ <<x, rest \o u>> \in T
                 /\ <<x, Inner(step) \o (rest \o u)>> \in T
      <4>1. IsList(Inner(step)) /\ <<x, rest>> \in P /\ <<x, Inner(step) \o rest>> \in P
        BY Zenon, <2>1, <2>3, <3>3 DEF Fits
      <4>2. <<x, rest \o u>> \in T
        BY <1>3, <4>1 DEF T
      <4>3. <<x, (Inner(step) \o rest) \o u>> \in T
        BY <1>3, <4>1 DEF T
      <4>4. (Inner(step) \o rest) \o u = Inner(step) \o (rest \o u)
        <5>. DEFINE inner == Inner(step)
        <5>1. IsList(inner) /\ IsList(rest)
          BY <3>2, <4>1
        <5>. HIDE DEF inner, step, rest
        <5>2. (inner \o rest) \o u = inner \o (rest \o u)
          BY <1>5, <5>1, ListAssociative
        <5>. QED BY <5>2 DEF inner
      <4>. QED BY Zenon, <4>1, <4>2, <4>3, <4>4
    <3>4. ASSUME ~IsBranch(step)
          PROVE  \E j : Does(t, x, step, j) /\ <<j, rest \o u>> \in T
      <4>1. PICK j : Does(t, x, step, j) /\ <<j, rest>> \in P
        BY Zenon, <2>1, <2>3, <3>4 DEF Fits
      <4>2. <<j, rest \o u>> \in T
        BY <1>3, <4>1 DEF T
      <4>. QED BY Zenon, <4>1, <4>2
    <3>. HIDE DEF step, rest
    <3>. QED BY Zenon, <3>1, <3>2, <3>3, <3>4 DEF Fits
  <2>. QED BY <2>2, <2>3
<1>7. Witness(t, T, n)
  <2>. SUFFICES ASSUME NEW x, NEW v, <<x, v>> \in T PROVE Fits(t, T, x, v, n)
    BY DEF Witness
  <2>1. CASE <<x, v>> \in Q
    <3>1. Fits(t, Q, x, v, n)
      BY <1>2, <2>1 DEF Witness
    <3>. QED BY <3>1, FitsMore
  <2>2. CASE <<x, v>> \in R
    <3>. HIDE DEF T
    <3>1. PICK r : <<x, r>> \in P /\ v = r \o u
      BY <1>4, <2>2
    <3>. QED BY <1>6, <3>1
  <2>. QED BY <2>1, <2>2
<1>8. <<m, s \o u>> \in T
  BY <1>1, <1>3
<1>. HIDE DEF T
<1>. QED BY <1>7, <1>8 DEF Leads

\* A single step that is no test.
LEMMA LeadsStep ==
  \A t, m, step, n :
    ~IsBranch(step) /\ Busy(t, m) /\ Does(t, m, step, n) => Leads(t, m, <<step>>, n)
<1>. SUFFICES ASSUME NEW t, NEW m, NEW step, NEW n,
                     ~IsBranch(step), Busy(t, m), Does(t, m, step, n)
              PROVE  Leads(t, m, <<step>>, n)
  OBVIOUS
<1>. DEFINE P == {<<m, <<step>>>>, <<n, <<>>>>}
<1>1. <<m, <<step>>>> \in P /\ <<n, <<>>>> \in P
  OBVIOUS
<1>2. \A x, r : <<x, r>> \in P => \/ x = m /\ r = <<step>>
                                  \/ x = n /\ r = <<>>
  OBVIOUS
<1>. HIDE DEF P
<1>3. Fits(t, P, m, <<step>>, n)
  BY Zenon, <1>1, ListOne DEF Fits
<1>4. Fits(t, P, n, <<>>, n)
  BY Zenon, ListNone DEF Fits
<1>5. Witness(t, P, n)
  <2>. SUFFICES ASSUME NEW x, NEW r, <<x, r>> \in P PROVE Fits(t, P, x, r, n)
    BY DEF Witness
  <2>. QED BY <1>2, <1>3, <1>4
<1>. QED BY <1>1, <1>5 DEF Leads

\* A test, of which the steps inside lead back to where it began.
LEMMA LeadsTest ==
  \A t, m, step :
    IsBranch(step) /\ Busy(t, m) /\ Leads(t, m, Inner(step), m) => Leads(t, m, <<step>>, m)
<1>. SUFFICES ASSUME NEW t, NEW m, NEW step,
                     IsBranch(step), Busy(t, m), Leads(t, m, Inner(step), m)
              PROVE  Leads(t, m, <<step>>, m)
  OBVIOUS
<1>1. PICK Q : Witness(t, Q, m) /\ <<m, Inner(step)>> \in Q
  BY DEF Leads
<1>2. IsList(Inner(step))
  BY <1>1 DEF Witness, Fits
<1>3. Inner(step) \o <<>> = Inner(step)
  BY <1>2, ListNone, ListConcat
<1>. DEFINE P == Q \cup {<<m, <<step>>>>, <<m, <<>>>>}
<1>4. <<m, <<step>>>> \in P /\ <<m, <<>>>> \in P /\ Q \subseteq P
  OBVIOUS
<1>5. \A x, r : <<x, r>> \in P => \/ <<x, r>> \in Q
                                  \/ x = m /\ r = <<step>>
                                  \/ x = m /\ r = <<>>
  OBVIOUS
<1>. HIDE DEF P
<1>6. Fits(t, P, m, <<step>>, m)
  <2>1. <<m, Inner(step) \o <<>>>> \in P
    BY Zenon, <1>1, <1>3, <1>4
  <2>. QED BY Zenon, <1>2, <1>4, <2>1, ListOne DEF Fits
<1>7. Fits(t, P, m, <<>>, m)
  BY Zenon, ListNone DEF Fits
<1>8. \A x, r : <<x, r>> \in Q => Fits(t, P, x, r, m)
  BY Zenon, <1>1, <1>4, FitsMore DEF Witness
<1>9. Witness(t, P, m)
  BY Zenon, <1>5, <1>6, <1>7, <1>8 DEF Witness
<1>. QED BY <1>4, <1>9 DEF Leads

(* And the other way round: what is known of the first step of a list.     *)
LEMMA LeadsFrom ==
  \A t, m, s, n : Leads(t, m, s, n) =>
    /\ IsList(s)
    /\ s = <<>> => m = n
    /\ s # <<>> => Busy(t, m)
    /\ s # <<>> /\ IsBranch(Head(s)) =>
         Leads(t, m, Tail(s), n) /\ Leads(t, m, Inner(Head(s)) \o Tail(s), n)
    /\ s # <<>> /\ ~IsBranch(Head(s)) =>
         \E k : Does(t, m, Head(s), k) /\ Leads(t, k, Tail(s), n)
<1>. SUFFICES ASSUME NEW t, NEW m, NEW s, NEW n, Leads(t, m, s, n)
              PROVE  /\ IsList(s)
                     /\ s = <<>> => m = n
                     /\ s # <<>> => Busy(t, m)
                     /\ s # <<>> /\ IsBranch(Head(s)) =>
                          /\ Leads(t, m, Tail(s), n)
                          /\ Leads(t, m, Inner(Head(s)) \o Tail(s), n)
                     /\ s # <<>> /\ ~IsBranch(Head(s)) =>
                          \E k : Does(t, m, Head(s), k) /\ Leads(t, k, Tail(s), n)
  OBVIOUS
<1>1. PICK P : Witness(t, P, n) /\ <<m, s>> \in P
  BY DEF Leads
<1>2. Fits(t, P, m, s, n)
  BY <1>1 DEF Witness
<1>3. \A x, r : <<x, r>> \in P => Leads(t, x, r, n)
  BY <1>1 DEF Leads
<1>. QED BY Zenon, <1>2, <1>3 DEF Fits

(* The same for the steps of a call: two of them, what is done under a     *)
(* mutex, a mutex taken for a moment.                                      *)
LEMMA LeadsTwo ==
  \A t, m, k, n, a, b : Leads(t, m, <<a>>, k) /\ Leads(t, k, <<b>>, n) => Leads(t, m, <<a, b>>, n)
<1>. SUFFICES ASSUME NEW t, NEW m, NEW k, NEW n, NEW a, NEW b,
                     Leads(t, m, <<a>>, k), Leads(t, k, <<b>>, n)
              PROVE  Leads(t, m, <<a, b>>, n)
  OBVIOUS
<1>1. Leads(t, m, <<a>> \o <<b>>, n)
  BY LeadsOn
<1>. DEFINE u == <<a>> \o <<b>>
            v == <<a, b>>
<1>2. u \in Seq({a, b}) /\ Len(u) = 2 /\ u[1] = a /\ u[2] = b
  OBVIOUS
<1>3. v \in Seq({a, b}) /\ Len(v) = 2 /\ v[1] = a /\ v[2] = b
  OBVIOUS
<1>. HIDE DEF u, v
<1>4. u = v
  BY <1>2, <1>3
<1>. QED BY <1>1, <1>4 DEF u, v

\* The same of the steps as the calls write them.
LEMMA LeadsIf ==
  \A t, m, steps : Busy(t, m) /\ Leads(t, m, steps, m) =>
    /\ Leads(t, m, <<IfSo(steps)>>, m) /\ Leads(t, m, <<Maybe(steps)>>, m)
    /\ \A o : Leads(t, m, <<IfSet(o, steps)>>, m)
<1>. SUFFICES ASSUME NEW t, NEW m, NEW steps, Busy(t, m), Leads(t, m, steps, m)
              PROVE  /\ Leads(t, m, <<IfSo(steps)>>, m) /\ Leads(t, m, <<Maybe(steps)>>, m)
                     /\ \A o : Leads(t, m, <<IfSet(o, steps)>>, m)
  OBVIOUS
<1>1. /\ IsBranch(IfSo(steps)) /\ Inner(IfSo(steps)) = steps
      /\ IsBranch(Maybe(steps)) /\ Inner(Maybe(steps)) = steps
      /\ \A o : IsBranch(IfSet(o, steps)) /\ Inner(IfSet(o, steps)) = steps
  BY DEF IsBranch, Inner, IfSo, Maybe, IfSet
<1>. QED BY <1>1, LeadsTest

\* Steps under a mutex that the thread does not have yet.
LEMMA LeadsLocked ==
  \A t, held, name, card, steps :
    /\ t # "main" /\ <<name, card>> \in MayHold(t) /\ Above(held, <<name, card>>)
    /\ Leads(t, held \cup {<<name, card>>}, steps, held \cup {<<name, card>>})
    => Leads(t, held, Locked(name, card, steps), held)
<1>. SUFFICES ASSUME NEW t, NEW held, NEW name, NEW card, NEW steps,
                     t # "main", <<name, card>> \in MayHold(t), Above(held, <<name, card>>),
                     Leads(t, held \cup {<<name, card>>}, steps, held \cup {<<name, card>>})
              PROVE  Leads(t, held, Locked(name, card, steps), held)
  OBVIOUS
<1>. DEFINE x == <<name, card>>
            more == held \cup {x}
            lock == Lock(name, card)
            unlock == Unlock(name, card)
<1>1. /\ lock[1] = "lock" /\ lock[2] = x /\ unlock[1] = "unlock" /\ unlock[2] = x
  BY DEF Lock, Unlock
<1>2. x \notin held /\ more \ {x} = held /\ x \in more
  BY DEF Above
<1>. HIDE DEF x, more, lock, unlock
<1>3. ~IsBranch(lock) /\ ~IsBranch(unlock) /\ Busy(t, held) /\ Busy(t, more)
  BY <1>1 DEF IsBranch, Busy
<1>4. Does(t, held, lock, more)
  BY <1>1 DEF Does, ThreadDoes, x, more
<1>5. Does(t, more, unlock, held)
  BY <1>1, <1>2 DEF Does, ThreadDoes
<1>6. Leads(t, held, <<lock>>, more) /\ Leads(t, more, <<unlock>>, held)
  BY <1>3, <1>4, <1>5, LeadsStep
<1>7. Leads(t, held, <<lock>> \o steps, more)
  BY <1>6, LeadsOn DEF x, more
<1>8. Leads(t, held, (<<lock>> \o steps) \o <<unlock>>, held)
  BY <1>6, <1>7, LeadsOn
<1>. QED BY <1>8 DEF Locked, lock, unlock

\* A mutex taken for a moment.
LEMMA LeadsWithin ==
  \A t, held, name, card, what :
    /\ t # "main" /\ <<name, card>> \in MayUse(t) /\ Above(held, <<name, card>>)
    /\ what = "close" => t = "sock"
    => Leads(t, held, <<<<"within", <<<<name, card>>, what>>>>>>, held)
<1>. SUFFICES ASSUME NEW t, NEW held, NEW name, NEW card, NEW what,
                     t # "main", <<name, card>> \in MayUse(t), Above(held, <<name, card>>),
                     what = "close" => t = "sock"
              PROVE  Leads(t, held, <<<<"within", <<<<name, card>>, what>>>>>>, held)
  OBVIOUS
<1>. DEFINE step == <<"within", <<<<name, card>>, what>>>>
<1>1. step[1] = "within" /\ step[2][1] = <<name, card>> /\ step[2][2] = what
  OBVIOUS
<1>. HIDE DEF step
<1>2. ~IsBranch(step) /\ Busy(t, held)
  BY <1>1 DEF IsBranch, Busy
<1>3. Does(t, held, step, held)
  BY <1>1 DEF Does, ThreadDoes
<1>4. Leads(t, held, <<step>>, held)
  BY <1>2, <1>3, LeadsStep
<1>. QED BY <1>4 DEF step

(* The order of the mutexes, as the calls need it.                         *)
LEMMA Levels ==
  /\ \A c : Level(<<"slot", c>>) = 0 /\ Level(<<"ci", c>>) = 0 /\ Level(<<"decsa", c>>) = 0
  /\ \A c : Level(<<"filter", c>>) = 1 /\ Level(<<"decrypt", c>>) = 2
  /\ \A c : Level(<<"adapter", c>>) = 2 /\ Level(<<"stop", c>>) = 2
  /\ \A c : Level(<<"capmt", c>>) = 3 /\ Level(<<"sock", c>>) = 4
BY DEF Level, Rank

\* A mutex of a higher level is above those of a lower one.
LEMMA AboveOrder ==
  /\ \A x : Above({}, x)
  /\ \A x, y : Level(x) \in Nat /\ Level(y) \in Nat /\ Level(y) < Level(x) => Above({y}, x)
  /\ \A held, x, y : /\ Above(held, x) /\ Level(x) \in Nat /\ Level(y) \in Nat
                     /\ Level(y) < Level(x)
                     => Above(held \cup {y}, x)
BY DEF Above

\* The mutexes of the plugin.
Of(name) == <<name, "plugin">>

LEMMA Orders ==
  /\ Above({Of("decsa")}, Of("filter")) /\ Above({Of("ci")}, Of("capmt"))
  /\ Above({Of("capmt")}, Of("sock")) /\ Above({Of("ci")} \cup {Of("capmt")}, Of("sock"))
  /\ Above({Of("filter")}, Of("capmt")) /\ Above({Of("filter")}, Of("sock"))
  /\ \A c : /\ Above({Of("decsa")}, <<"adapter", c>>) /\ Above({Of("filter")}, <<"adapter", c>>)
            /\ Above({Of("ci")}, <<"adapter", c>>)
            /\ Above({<<"decrypt", c>>}, <<"adapter", c>>)
            /\ Above({<<"decrypt", c>>} \cup {<<"adapter", c>>}, Of("capmt"))
            /\ Above({<<"decrypt", c>>} \cup {<<"adapter", c>>}, <<"stop", c>>)
            /\ Above({<<"decrypt", c>>} \cup {<<"stop", c>>}, <<"adapter", c>>)
            /\ \A d : Above({<<"slot", d>>}, <<"stop", c>>)
<1>1. /\ Level(Of("ci")) = 0 /\ Level(Of("decsa")) = 0 /\ Level(Of("filter")) = 1
      /\ Level(Of("capmt")) = 3 /\ Level(Of("sock")) = 4
  BY Levels DEF Of
<1>2. \A c : /\ Level(<<"slot", c>>) = 0 /\ Level(<<"decrypt", c>>) = 2
             /\ Level(<<"adapter", c>>) = 2 /\ Level(<<"stop", c>>) = 2
  BY Levels
<1>3. /\ Above({Of("decsa")}, Of("filter")) /\ Above({Of("ci")}, Of("capmt"))
      /\ Above({Of("capmt")}, Of("sock")) /\ Above({Of("ci")} \cup {Of("capmt")}, Of("sock"))
      /\ Above({Of("filter")}, Of("capmt")) /\ Above({Of("filter")}, Of("sock"))
  BY <1>1, AboveOrder
<1>4. ASSUME NEW c
      PROVE  /\ Above({Of("decsa")}, <<"adapter", c>>) /\ Above({Of("filter")}, <<"adapter", c>>)
             /\ Above({Of("ci")}, <<"adapter", c>>)
             /\ Above({<<"decrypt", c>>} \cup {<<"adapter", c>>}, Of("capmt"))
             /\ \A d : Above({<<"slot", d>>}, <<"stop", c>>)
  <2>. DEFINE adapter == <<"adapter", c>>
              decrypt == <<"decrypt", c>>
  <2>1. Level(adapter) = 2 /\ Level(decrypt) = 2
    BY <1>2
  <2>. HIDE DEF adapter, decrypt
  <2>2. /\ Above({Of("decsa")}, adapter) /\ Above({Of("filter")}, adapter)
        /\ Above({Of("ci")}, adapter) /\ Above({decrypt}, Of("capmt"))
    BY <1>1, <2>1, AboveOrder
  <2>3. Above({decrypt} \cup {adapter}, Of("capmt"))
    BY <1>1, <2>1, <2>2, AboveOrder
  <2>4. \A d : Above({<<"slot", d>>}, <<"stop", c>>)
    <3>1. \A d, x : Level(x) = 2 => Above({<<"slot", d>>}, x)
      <4>. SUFFICES ASSUME NEW d, NEW x, Level(x) = 2 PROVE Above({<<"slot", d>>}, x)
        OBVIOUS
      <4>. DEFINE slot == <<"slot", d>>
      <4>1. Level(slot) = 0
        BY <1>2
      <4>. HIDE DEF slot
      <4>2. Above({slot}, x)
        BY <4>1, AboveOrder
      <4>. QED BY <4>2 DEF slot
    <3>. QED BY <1>2, <3>1
  <2>. QED BY <2>2, <2>3, <2>4 DEF adapter, decrypt
<1>5. ASSUME NEW c
      PROVE  /\ Above({<<"decrypt", c>>}, <<"adapter", c>>)
             /\ Above({<<"decrypt", c>>} \cup {<<"adapter", c>>}, <<"stop", c>>)
             /\ Above({<<"decrypt", c>>} \cup {<<"stop", c>>}, <<"adapter", c>>)
  BY DEF Above, OfCard
<1>. QED BY <1>3, <1>4, <1>5

(* What each thread may have and use, of what its calls take.              *)
LEMMA MayHave ==
  /\ {Of("decsa"), Of("filter"), Of("capmt"), Of("sock")} \subseteq MayHold("sock")
  /\ {Of("filter"), Of("capmt"), Of("sock")} \subseteq MayUse("sock")
  /\ {Of("ci"), Of("capmt")} \subseteq MayHold("ci")
  /\ {Of("ci"), Of("sock")} \subseteq MayUse("ci")
  /\ \A c \in Card : /\ <<"adapter", c>> \in MayUse("sock") /\ <<"adapter", c>> \in MayUse("ci")
                     /\ <<"slot", c>> \in MayHold("main")
                     /\ c \notin {"main", "sock", "ci", Nobody}
                     /\ {Of("filter"), <<"decrypt", c>>, <<"adapter", c>>, <<"stop", c>>}
                          \subseteq MayHold(c)
                     /\ {Of("capmt"), Of("sock")} \subseteq MayUse(c)
<1>1. \A c \in Card : c \notin {"main", "sock", "ci", Nobody}
  BY CardsAssumption DEF Nobody
<1>. QED BY <1>1 DEF MayHold, MayUse, Of, OfCard

(* The same steps for each card, from f[0] over f[1], f[2] and so on.      *)
LEMMA LeadsCards ==
  \A t, steps, f :
    (\A i \in 1 .. Len(Cards) : Leads(t, f[i - 1], steps[Cards[i]], f[i]))
    => Leads(t, f[0], EachCard(steps), f[Len(Cards)])
<1>. SUFFICES ASSUME NEW t, NEW steps, NEW f,
                     \A i \in 1 .. Len(Cards) : Leads(t, f[i - 1], steps[Cards[i]], f[i])
              PROVE  Leads(t, f[0], EachCard(steps), f[Len(Cards)])
  OBVIOUS
<1>. DEFINE L == Len(Cards)
            list(i) == steps[Cards[i]]
            Elements(i) == {list(i)[k] : k \in DOMAIN list(i)}
            S == UNION {Elements(i) : i \in 1 .. L}
            seqs == [i \in 1 .. L |-> list(i)]
<1>1. L \in Nat /\ DOMAIN Cards = 1 .. L
  BY CardsAssumption
<1>2. ASSUME NEW i \in 1 .. L PROVE list(i) \in Seq(S)
  <2>. DEFINE l == list(i)
  <2>1. Leads(t, f[i - 1], l, f[i])
    OBVIOUS
  <2>2. Elements(i) = {l[k] : k \in DOMAIN l} /\ Elements(i) \subseteq S
    OBVIOUS
  <2>. HIDE DEF l, S, Elements
  <2>3. PICK E : l \in Seq(E)
    <3>. DEFINE m == f[i - 1]
                n == f[i]
    <3>1. Leads(t, m, l, n)
      BY <2>1
    <3>. HIDE DEF m, n
    <3>2. IsList(l)
      BY Zenon, <3>1, LeadsFrom
    <3>. QED BY <3>2 DEF IsList
  <2>4. \A k \in 1 .. Len(l) : l[k] \in S
    BY <2>2, <2>3
  <2>5. l \in Seq(S)
    <3>1. Len(l) \in Nat /\ l \in [1 .. Len(l) -> S]
      BY <2>3, <2>4
    <3>. QED BY <3>1
  <2>. QED BY <2>5 DEF l
<1>3. EachCard(steps) = FlattenSeq(seqs)
  BY <1>1 DEF EachCard
<1>. HIDE DEF S, L, list
<1>4. seqs \in Seq(Seq(S)) /\ Len(seqs) = L
  BY <1>1, <1>2
<1>5. \A i \in 1 .. L : Leads(t, f[i - 1], seqs[i], f[i])
  BY DEF L, list
<1>. HIDE DEF seqs
<1>6. CASE L = 0
  <2>1. EachCard(steps) = <<>>
    BY <1>3, <1>4, <1>6 DEF FlattenSeq
  <2>. QED BY <1>6, <2>1, LeadsNowhere DEF L
<1>7. CASE L # 0
  <2>1. PICK flat : /\ flat[1] = seqs[1] /\ FlattenSeq(seqs) = flat[L]
                    /\ \A i \in 2 .. L : flat[i] = flat[i - 1] \o seqs[i]
    BY <1>4, <1>7, FlattenRecursion
  <2>. DEFINE T == {k \in Nat : Leads(t, f[0], flat[k + 1], f[k + 1])}
  <2>2. 0 \in T
    <3>1. 1 \in 1 .. L /\ 1 - 1 = 0 /\ 0 + 1 = 1
      BY <1>1, <1>7
    <3>2. Leads(t, f[0], seqs[1], f[1])
      BY <1>5, <3>1
    <3>. QED BY <2>1, <3>1, <3>2
  <2>3. ASSUME NEW k \in 0 .. (L - 1) - 1, k \in T PROVE k + 1 \in T
    <3>. DEFINE i == k + 2
    <3>1. i \in 2 .. L /\ i \in 1 .. L /\ i - 1 = k + 1 /\ (k + 1) + 1 = i /\ k + 1 \in Nat
      BY <1>1
    <3>2. Leads(t, f[0], flat[i - 1], f[i - 1])
      BY <2>3, <3>1
    <3>. HIDE DEF i
    <3>3. Leads(t, f[i - 1], seqs[i], f[i]) /\ flat[i] = flat[i - 1] \o seqs[i]
      BY <1>5, <2>1, <3>1
    <3>4. Leads(t, f[0], flat[i], f[i])
      BY <3>2, <3>3, LeadsOn
    <3>. QED BY <3>1, <3>4
  <2>4. L - 1 \in Nat /\ (L - 1) + 1 = L /\ L - 1 \in 0 .. L - 1
    BY <1>1, <1>7
  <2>. HIDE DEF T
  <2>5. L - 1 \in T
    BY <2>2, <2>3, <2>4, InductionUpTo
  <2>6. Leads(t, f[0], flat[L], f[L])
    BY <2>4, <2>5 DEF T
  <2>. QED BY <1>3, <2>1, <2>6 DEF L
<1>. QED BY <1>6, <1>7
(* The calls of the threads give back every mutex that they take.          *)
Call(t, steps) == Leads(t, {}, steps, {})

\* The steps of a thread, in the form its calls have.
LEMMA LeadsBrief ==
  \A t, held, name, card :
    t # "main" /\ <<name, card>> \in MayUse(t) /\ Above(held, <<name, card>>)
    => Leads(t, held, <<Brief(name, card)>>, held)
BY LeadsWithin DEF Brief

\* Only the main thread must have nothing to do while the plugin runs.
LEMMA OthersBusy == \A t, m : t # "main" => Busy(t, m)
BY DEF Busy

\* A test of a thread, whichever.
LEMMA LeadsTests ==
  \A t, held, steps : t # "main" /\ Leads(t, held, steps, held) =>
    /\ Leads(t, held, <<IfSo(steps)>>, held) /\ Leads(t, held, <<Maybe(steps)>>, held)
    /\ \A o : Leads(t, held, <<IfSet(o, steps)>>, held)
BY LeadsIf, OthersBusy

\* The requests of OSCam, the connection and its end: SocketHandler::Action.
LEMMA SocketCalls ==
  /\ \A steps \in HandleMessage \cup {CloseConnection} : Call("sock", steps)
  /\ Call("sock", Connects)
<1>1. ASSUME NEW card \in Card PROVE Call("sock", SetCaPid(card)) /\ Call("sock", SetFilter(card))
  <2>1. Leads("sock", {Of("decsa")}, <<Brief("adapter", card)>>, {Of("decsa")})
    BY Orders, MayHave, LeadsBrief
  <2>2. Leads("sock", {Of("filter")}, <<Brief("adapter", card)>>, {Of("filter")})
    BY Orders, MayHave, LeadsBrief
  <2>3. Leads("sock", {Of("filter")}, <<IfSet("decsa", <<Brief("adapter", card)>>)>>, {Of("filter")})
    BY <2>2, LeadsTests
  <2>4. {} \cup {Of("decsa")} = {Of("decsa")} /\ {} \cup {Of("filter")} = {Of("filter")}
    OBVIOUS
  <2>5. /\ Above({}, Of("decsa")) /\ Of("decsa") \in MayHold("sock")
        /\ Above({}, Of("filter")) /\ Of("filter") \in MayHold("sock")
    BY AboveOrder, MayHave
  <2>6. Leads("sock", {}, Locked("decsa", "plugin", <<Brief("adapter", card)>>), {})
    BY <2>1, <2>4, <2>5, LeadsLocked DEF Of
  <2>7. Leads("sock", {},
              Locked("filter", "plugin", <<IfSet("decsa", <<Brief("adapter", card)>>)>>), {})
    BY <2>3, <2>4, <2>5, LeadsLocked DEF Of
  <2>. QED BY <2>6, <2>7 DEF Call, SetCaPid, SetFilter
<1>2. Call("sock", SetDescr)
  <2>1. Leads("sock", {Of("decsa")}, <<Brief("filter", "plugin")>>, {Of("decsa")})
    BY Orders, MayHave, LeadsBrief DEF Of
  <2>2. {} \cup {Of("decsa")} = {Of("decsa")} /\ Above({}, Of("decsa"))
        /\ Of("decsa") \in MayHold("sock")
    BY AboveOrder, MayHave
  <2>3. Leads("sock", {}, Locked("decsa", "plugin", <<Brief("filter", "plugin")>>), {})
    BY <2>1, <2>2, LeadsLocked DEF Of
  <2>. QED BY <2>3 DEF Call, SetDescr
<1>3. Call("sock", UpdateEcmInfo)
  <2>1. Leads("sock", {}, <<Brief("capmt", "plugin")>>, {})
    BY AboveOrder, MayHave, LeadsBrief DEF Of
  <2>. QED BY <2>1 DEF Call, UpdateEcmInfo
<1>4. Call("sock", CloseConnection)
  <2>1. Leads("sock", {}, <<Within("sock", "close")>>, {})
    BY AboveOrder, MayHave, LeadsWithin DEF Of, Within
  <2>2. Leads("sock", {}, <<Brief("filter", "plugin")>>, {})
    BY AboveOrder, MayHave, LeadsBrief DEF Of
  <2>3. Leads("sock", {}, <<IfSo(<<Brief("filter", "plugin")>>)>>, {})
    BY <2>2, LeadsTests
  <2>. QED BY <2>1, <2>3, LeadsTwo DEF Call, CloseConnection
<1>5. Call("sock", Connects)
  <2>1. Leads("sock", {}, OpenConnection, {})
    <3>1. Leads("sock", {Of("sock")}, <<Do("open", "sock")>>, {Of("sock")})
      <4>. DEFINE step == Do("open", "sock")
      <4>1. step[1] = "open"
        BY DEF Do
      <4>. HIDE DEF step
      <4>2. ~IsBranch(step) /\ Busy("sock", {Of("sock")})
        BY <4>1 DEF IsBranch, Busy
      <4>3. Does("sock", {Of("sock")}, step, {Of("sock")})
        BY <4>1 DEF Does, ThreadDoes
      <4>. QED BY <4>2, <4>3, LeadsStep DEF step
    <3>2. {} \cup {Of("sock")} = {Of("sock")} /\ Above({}, Of("sock"))
          /\ Of("sock") \in MayHold("sock")
      BY AboveOrder, MayHave
    <3>. QED BY <3>1, <3>2, LeadsLocked DEF Of, OpenConnection
  <2>2. Leads("sock", {}, <<Write>>, {})
    BY AboveOrder, MayHave, LeadsBrief DEF Of, Write
  <2>3. Leads("sock", {}, SendAll, {})
    <3>1. Leads("sock", {Of("capmt")}, <<Write>>, {Of("capmt")})
      BY Orders, MayHave, LeadsBrief DEF Of, Write
    <3>2. {} \cup {Of("capmt")} = {Of("capmt")} /\ Above({}, Of("capmt"))
          /\ Of("capmt") \in MayHold("sock")
      BY AboveOrder, MayHave
    <3>. QED BY <3>1, <3>2, LeadsLocked DEF Of, SendAll
  <2>4. Leads("sock", {}, <<IfSo(<<Write>> \o SendAll)>>, {})
    BY <2>2, <2>3, LeadsOn, LeadsTests
  <2>5. Leads("sock", {}, <<IfSo(OpenConnection \o <<IfSo(<<Write>> \o SendAll)>>)>>, {})
    BY <2>1, <2>4, LeadsOn, LeadsTests
  <2>6. Leads("sock", {}, <<Within("capmt", "any_listed")>>, {})
    BY AboveOrder, MayHave, LeadsWithin DEF Of, Within
  <2>. DEFINE S == IfSo(OpenConnection \o <<IfSo(<<Write>> \o SendAll)>>)
              W == Within("capmt", "any_listed")
  <2>7. Leads("sock", {}, <<W, S>>, {})
    <3>1. Leads("sock", {}, <<W>>, {}) /\ Leads("sock", {}, <<S>>, {})
      BY <2>5, <2>6
    <3>. HIDE DEF W, S
    <3>. QED BY <3>1, LeadsTwo
  <2>8. Leads("sock", {}, <<IfSet("capmt", <<W, S>>)>>, {})
    <3>. HIDE DEF W, S
    <3>. QED BY <2>7, LeadsTests
  <2>. QED BY <2>8 DEF Call, Connects
<1>. QED BY <1>1, <1>2, <1>3, <1>4, <1>5 DEF HandleMessage

\* Reads of the adapter and CA_PMTs: SCCIAdapter::Read and Write.
LEMMA AdapterCalls == \A steps \in CiCalls : Call("ci", steps)
<1>1. Call("ci", <<Brief("ci", "plugin")>>)
  BY AboveOrder, MayHave, LeadsBrief DEF Of, Call
<1>. DEFINE held == {Of("ci")}
            both == {Of("ci")} \cup {Of("capmt")}
<1>2. ASSUME NEW left, left \subseteq BOOLEAN
      PROVE  Leads("ci", held, ProcessSIDRequest(left), held)
  <2>1. Leads("ci", both, <<Do("list", left)>>, both)
    <3>. DEFINE step == Do("list", left)
    <3>1. step[1] = "list" /\ step[2] \subseteq BOOLEAN
      BY <1>2 DEF Do
    <3>. HIDE DEF step
    <3>2. ~IsBranch(step) /\ Busy("ci", both)
      BY <3>1 DEF IsBranch, Busy
    <3>3. Does("ci", both, step, both)
      BY <3>1 DEF Does, ThreadDoes
    <3>. QED BY <3>2, <3>3, LeadsStep DEF step
  <2>2. Leads("ci", both, <<Write>>, both)
    BY Orders, MayHave, LeadsBrief DEF Of, Write
  <2>3. Leads("ci", both, <<Maybe(<<Do("list", left), Write>>)>>, both)
    BY <2>1, <2>2, LeadsTwo, LeadsTests
  <2>4. Above(held, Of("capmt")) /\ Of("capmt") \in MayHold("ci")
    BY Orders, MayHave
  <2>. QED BY <2>3, <2>4, LeadsLocked DEF Of, ProcessSIDRequest
<1>3. ASSUME NEW card \in Card PROVE Leads("ci", held, <<Init_Parity(card)>>, held)
  <2>1. Leads("ci", held, <<Brief("adapter", card)>>, held)
    BY Orders, MayHave, LeadsBrief
  <2>. QED BY <2>1, LeadsTests DEF Init_Parity
<1>4. ASSUME NEW steps, Leads("ci", held, steps, held)
      PROVE  Call("ci", Locked("ci", "plugin", steps))
  <2>1. {} \cup held = held /\ Above({}, Of("ci")) /\ Of("ci") \in MayHold("ci")
    BY AboveOrder, MayHave
  <2>. QED BY <1>4, <2>1, LeadsLocked DEF Of, Call
<1>5. ASSUME NEW card \in Card
      PROVE  /\ Leads("ci", held, ProcessSIDRequest(BOOLEAN) \o <<Init_Parity(card)>>, held)
             /\ Leads("ci", held, <<Init_Parity(card)>> \o ProcessSIDRequest({TRUE}), held)
  <2>1. /\ Leads("ci", held, ProcessSIDRequest(BOOLEAN), held)
        /\ Leads("ci", held, ProcessSIDRequest({TRUE}), held)
    BY <1>2
  <2>. HIDE DEF held
  <2>. QED BY <1>3, <2>1, LeadsOn
<1>6. ASSUME NEW card \in Card
      PROVE  /\ Call("ci", Locked("ci", "plugin",
                                  ProcessSIDRequest(BOOLEAN) \o <<Init_Parity(card)>>))
             /\ Call("ci", Locked("ci", "plugin",
                                  <<Init_Parity(card)>> \o ProcessSIDRequest({TRUE})))
  BY <1>4, <1>5
<1>. QED BY <1>1, <1>6 DEF CiCalls

\* SCCAMSlot::Decrypt, of a clear packet and a scrambled one.
LEMMA ReceiverCalls ==
  \A card \in Card : Call(card, Analyze) /\ Call(card, Decrypt(card))
<1>. SUFFICES ASSUME NEW card \in Card PROVE Call(card, Analyze) /\ Call(card, Decrypt(card))
  OBVIOUS
<1>0. card # "main" /\ card # "sock"
  BY MayHave
<1>. DEFINE decrypt == <<"decrypt", card>>
            adapter == <<"adapter", card>>
            stop    == <<"stop", card>>
            both    == {decrypt} \cup {adapter}
            all     == both \cup {stop}
            waiting == {decrypt} \cup {stop}
<1>1. ASSUME NEW held, Above(held, Of("capmt"))
      PROVE  Leads(card, held, <<GetCAIDFromPid>>, held)
  <2>1. Leads(card, held, <<Brief("capmt", "plugin")>>, held)
    BY <1>0, <1>1, MayHave, LeadsBrief DEF Of
  <2>. QED BY <1>0, <2>1, LeadsTests DEF GetCAIDFromPid
<1>2. Call(card, Analyze)
  <2>1. Leads(card, {Of("filter")}, <<Write>>, {Of("filter")})
    BY <1>0, Orders, MayHave, LeadsBrief DEF Of, Write
  <2>2. Leads(card, {Of("filter")}, <<Maybe(<<GetCAIDFromPid, Write>>)>>, {Of("filter")})
    BY <1>0, <1>1, <2>1, Orders, LeadsTwo, LeadsTests
  <2>3. {} \cup {Of("filter")} = {Of("filter")} /\ Above({}, Of("filter"))
        /\ Of("filter") \in MayHold(card)
    BY AboveOrder, MayHave
  <2>. QED BY <1>0, <2>2, <2>3, LeadsLocked DEF Of, Analyze, Call
<1>3. Leads(card, all, <<Unlock("adapter", card)>>, waiting)
  <2>. DEFINE step == Unlock("adapter", card)
  <2>1. step[1] = "unlock" /\ step[2] = adapter
    BY DEF Unlock
  <2>2. adapter \in all /\ waiting = all \ {adapter}
    OBVIOUS
  <2>. HIDE DEF step, adapter, all, waiting
  <2>3. ~IsBranch(step) /\ Busy(card, all)
    BY <1>0, <2>1 DEF IsBranch, Busy
  <2>4. Does(card, all, step, waiting)
    BY <1>0, <2>1, <2>2 DEF Does, ThreadDoes
  <2>. QED BY <2>3, <2>4, LeadsStep DEF step
<1>4. Leads(card, waiting, <<Lock("adapter", card)>>, all)
  <2>. DEFINE step == Lock("adapter", card)
  <2>1. step[1] = "lock" /\ step[2] = adapter
    BY DEF Lock
  <2>2. all = waiting \cup {adapter} /\ Above(waiting, adapter) /\ adapter \in MayHold(card)
    BY Orders, MayHave
  <2>. HIDE DEF step, adapter, all, waiting
  <2>3. ~IsBranch(step) /\ Busy(card, waiting)
    BY <1>0, <2>1 DEF IsBranch, Busy
  <2>4. Does(card, waiting, step, all)
    BY <1>0, <2>1, <2>2 DEF Does, ThreadDoes
  <2>. QED BY <2>3, <2>4, LeadsStep DEF step
<1>5. Leads(card, both, WaitsForCw(card), both)
  <2>1. Leads(card, all, <<Unlock("adapter", card), Lock("adapter", card)>>, all)
    <3>. HIDE DEF all, waiting
    <3>. QED BY <1>3, <1>4, LeadsTwo
  <2>2. Above(both, stop) /\ stop \in MayHold(card)
    BY Orders, MayHave
  <2>. HIDE DEF both
  <2>. QED BY <1>0, <2>1, <2>2, LeadsLocked DEF WaitsForCw
<1>6. Leads(card, both, <<Maybe(<<GetCAIDFromPid, Maybe(WaitsForCw(card))>>)>>, both)
  <2>1. Above(both, Of("capmt"))
    BY Orders
  <2>. HIDE DEF both
  <2>2. Leads(card, both, <<Maybe(WaitsForCw(card))>>, both)
    BY <1>0, <1>5, LeadsTests
  <2>3. Leads(card, both, <<GetCAIDFromPid, Maybe(WaitsForCw(card))>>, both)
    BY <1>1, <2>1, <2>2, LeadsTwo
  <2>. QED BY <1>0, <2>3, LeadsTests
<1>. DEFINE steps == <<Maybe(<<GetCAIDFromPid, Maybe(WaitsForCw(card))>>)>>
<1>7. Leads(card, {decrypt}, Locked("adapter", card, steps), {decrypt})
  <2>1. Above({decrypt}, adapter) /\ adapter \in MayHold(card)
    BY Orders, MayHave
  <2>. HIDE DEF steps
  <2>. QED BY <1>0, <1>6, <2>1, LeadsLocked DEF steps
<1>8. Call(card, Locked("decrypt", card, Locked("adapter", card, steps)))
  <2>1. Above({}, decrypt) /\ decrypt \in MayHold(card) /\ {} \cup {decrypt} = {decrypt}
    BY AboveOrder, MayHave
  <2>. HIDE DEF steps
  <2>. QED BY <1>0, <1>7, <2>1, LeadsLocked DEF Call
<1>9. Call(card, Decrypt(card))
  BY <1>8 DEF Decrypt
<1>. QED BY <1>2, <1>9

(* The main thread: Start, and all that it does from Stop to the end.      *)
LEMMA MainStep ==
  \A m, n, step : ~IsBranch(step) /\ m.phase # "running" /\ MainDoes(m, step, n)
                  => Leads("main", m, <<step>>, n)
BY LeadsStep DEF Does, Busy

\* A test of the main thread.
LEMMA MainTests ==
  \A m, steps : m.phase # "running" /\ Leads("main", m, steps, m) =>
    /\ Leads("main", m, <<IfSo(steps)>>, m) /\ Leads("main", m, <<Maybe(steps)>>, m)
    /\ \A o : Leads("main", m, <<IfSet(o, steps)>>, m)
BY LeadsIf DEF Busy

State(h, ex, gl, run, e, g, d, p) ==
  [held |-> h, exists |-> ex, global |-> gl, running |-> run, ended |-> e,
   gone |-> g, done |-> d, phase |-> p]
Started(ex, gl, run) == State({}, ex, gl, run, {}, {}, {}, "starting")
Running == State({}, Object, Object, Over, {}, {}, {}, "running")

\* An object is made and its pointer set.
LEMMA MainNew ==
  \A ex, run, o :
    /\ o \in Object /\ (o = "SockHandler" => Base \subseteq ex)
    /\ o = "sCCIAdapter" => Base \cup {"SockHandler"} \subseteq ex
    => Leads("main", Started(ex, ex, run), New(o),
             Started(ex \cup {o}, ex \cup {o}, run \cup ThreadOf(o)))
<1>. SUFFICES ASSUME NEW ex, NEW run, NEW o,
                     o \in Object, o = "SockHandler" => Base \subseteq ex,
                     o = "sCCIAdapter" => Base \cup {"SockHandler"} \subseteq ex
              PROVE  Leads("main", Started(ex, ex, run), New(o),
                           Started(ex \cup {o}, ex \cup {o}, run \cup ThreadOf(o)))
  OBVIOUS
<1>. DEFINE make  == Do("make", o)
            point == Do("point", o)
            m == Started(ex, ex, run)
            k == Started(ex \cup {o}, ex, run \cup ThreadOf(o))
            n == Started(ex \cup {o}, ex \cup {o}, run \cup ThreadOf(o))
<1>1. make[1] = "make" /\ make[2] = o /\ point[1] = "point" /\ point[2] = o
  BY DEF Do
<1>2. /\ m.phase = "starting" /\ m.exists = ex /\ m.global = ex
      /\ k.phase = "starting" /\ o \in k.exists
  BY DEF State, Started
<1>3. k = [[m EXCEPT !.exists = @ \cup {o}] EXCEPT !.running = @ \cup ThreadOf(o)]
  <2>. DEFINE j == Started(ex \cup {o}, ex, run)
  <2>1. j = [m EXCEPT !.exists = @ \cup {o}]
    BY DEF State, Started
  <2>2. k = [j EXCEPT !.running = @ \cup ThreadOf(o)]
    BY DEF State, Started
  <2>. HIDE DEF j, k, m
  <2>. QED BY <2>1, <2>2
<1>4. n = [k EXCEPT !.global = @ \cup {o}]
  BY DEF State, Started
<1>5. ~IsBranch(make) /\ ~IsBranch(point)
  BY <1>1 DEF IsBranch
<1>. HIDE DEF make, point, m, k, n
<1>6. MainDoes(m, make, k) /\ MainDoes(k, point, n)
  <2>1. MainDoes(m, make, k)
    BY <1>1, <1>2, <1>3, <1>4 DEF MainDoes
  <2>2. MainDoes(k, point, n)
    BY <1>1, <1>2, <1>4 DEF MainDoes
  <2>. QED BY <2>1, <2>2
<1>7. Leads("main", m, <<make>>, k) /\ Leads("main", k, <<point>>, n)
  BY <1>2, <1>5, <1>6, MainStep
<1>8. Leads("main", m, <<make, point>>, n)
  BY <1>7, LeadsTwo
<1>. QED BY <1>8 DEF New, make, point, m, n

\* DVBAPI::Start makes all objects, each after those its thread uses.
LEMMA MainStart == Leads("main", Started({}, {}, {}), Start, Running)
<1>. DEFINE s(ex, run) == Started(ex, ex, run)
            o1 == {"capmt"}
            o2 == {"capmt", "decsa"}
            o4 == Base \cup {"SockHandler"}
<1>1. Leads("main", s({}, {}), New("capmt"), s(o1, {}))
  <2>1. {} \cup {"capmt"} = o1 /\ {} \cup ThreadOf("capmt") = {}
    BY DEF ThreadOf
  <2>2. Leads("main", s({}, {}), New("capmt"),
              s({} \cup {"capmt"}, {} \cup ThreadOf("capmt")))
    BY MainNew DEF Object
  <2>. QED BY <2>1, <2>2
<1>2. Leads("main", s(o1, {}), New("decsa"), s(o2, {}))
  <2>1. o1 \cup {"decsa"} = o2 /\ {} \cup ThreadOf("decsa") = {}
    BY DEF ThreadOf
  <2>2. Leads("main", s(o1, {}), New("decsa"),
              s(o1 \cup {"decsa"}, {} \cup ThreadOf("decsa")))
    BY MainNew DEF Object
  <2>. HIDE DEF s, o1, o2
  <2>. QED BY <2>1, <2>2
<1>3. Leads("main", s(o2, {}), New("filter"), s(Base, {}))
  <2>1. o2 \cup {"filter"} = Base /\ {} \cup ThreadOf("filter") = {}
    BY DEF ThreadOf, Base
  <2>2. Leads("main", s(o2, {}), New("filter"),
              s(o2 \cup {"filter"}, {} \cup ThreadOf("filter")))
    BY MainNew DEF Object
  <2>. HIDE DEF s, o2
  <2>. QED BY <2>1, <2>2
<1>4. Leads("main", s(Base, {}), New("SockHandler"), s(o4, {"sock"}))
  <2>1. Base \cup {"SockHandler"} = o4 /\ {} \cup ThreadOf("SockHandler") = {"sock"}
    BY DEF ThreadOf
  <2>2. Leads("main", s(Base, {}), New("SockHandler"),
              s(Base \cup {"SockHandler"}, {} \cup ThreadOf("SockHandler")))
    BY MainNew DEF Object
  <2>. HIDE DEF s, o4
  <2>. QED BY <2>1, <2>2
<1>5. Leads("main", s(o4, {"sock"}), New("sCCIAdapter"), s(Object, Over))
  <2>1. o4 \cup {"sCCIAdapter"} = Object /\ {"sock"} \cup ThreadOf("sCCIAdapter") = Over
    BY DEF ThreadOf, Base, Object, Over
  <2>2. Leads("main", s(o4, {"sock"}), New("sCCIAdapter"),
              s(o4 \cup {"sCCIAdapter"}, {"sock"} \cup ThreadOf("sCCIAdapter")))
    BY MainNew DEF Object
  <2>. HIDE DEF s, o4
  <2>. QED BY <2>1, <2>2
<1>. DEFINE step == Do("phase", "running")
            last == s(Object, Over)
<1>6. Leads("main", last, <<step>>, Running)
  <2>1. step[1] = "phase" /\ step[2] = "running"
    BY DEF Do
  <2>2. last.phase = "starting" /\ Running = [last EXCEPT !.phase = "running"]
    BY DEF State, Started, Running
  <2>. HIDE DEF step, last
  <2>3. MainDoes(last, step, Running)
    BY <2>1, <2>2 DEF MainDoes
  <2>4. ~IsBranch(step)
    BY <2>1 DEF IsBranch
  <2>. QED BY <2>2, <2>3, <2>4, MainStep
<1>. HIDE DEF s, o1, o2, o4, step
<1>7. Leads("main", s({}, {}), New("capmt") \o New("decsa"), s(o2, {}))
  BY <1>1, <1>2, LeadsOn
<1>8. Leads("main", s({}, {}), New("capmt") \o New("decsa") \o New("filter"), s(Base, {}))
  BY <1>3, <1>7, LeadsOn
<1>9. Leads("main", s({}, {}),
            New("capmt") \o New("decsa") \o New("filter") \o New("SockHandler"), s(o4, {"sock"}))
  BY <1>4, <1>8, LeadsOn
<1>10. Leads("main", s({}, {}),
             New("capmt") \o New("decsa") \o New("filter") \o New("SockHandler")
               \o New("sCCIAdapter"), s(Object, Over))
  BY <1>5, <1>9, LeadsOn
<1>11. Leads("main", s({}, {}),
             New("capmt") \o New("decsa") \o New("filter") \o New("SockHandler")
               \o New("sCCIAdapter") \o <<step>>, Running)
  BY <1>6, <1>10, LeadsOn
<1>. QED BY <1>11 DEF Start, s, step

\* A thread is told to end and waited for.
LEMMA MainCancel ==
  \A ex, gl, run, e, g, d, p, t :
    t \in Over /\ p # "starting" /\ p # "running" =>
      Leads("main", State({}, ex, gl, run, e, g, d, p), Cancel(t),
            State({}, ex, gl, run \ {t}, e \cup {t}, g, d, p))
<1>. SUFFICES ASSUME NEW ex, NEW gl, NEW run, NEW e, NEW g, NEW d, NEW p, NEW t,
                     t \in Over, p # "starting", p # "running"
              PROVE  Leads("main", State({}, ex, gl, run, e, g, d, p), Cancel(t),
                           State({}, ex, gl, run \ {t}, e \cup {t}, g, d, p))
  OBVIOUS
<1>. DEFINE cancel == Do("cancel", t)
            join == Do("join", t)
            m == State({}, ex, gl, run, e, g, d, p)
            k == State({}, ex, gl, run \ {t}, e, g, d, p)
            n == State({}, ex, gl, run \ {t}, e \cup {t}, g, d, p)
<1>1. cancel[1] = "cancel" /\ cancel[2] = t /\ join[1] = "join" /\ join[2] = t
  BY DEF Do
<1>2. m.phase = p /\ k.phase = p /\ t \notin k.running /\ k.held = {}
  BY DEF State
<1>3. k = [m EXCEPT !.running = @ \ {t}] /\ n = [k EXCEPT !.ended = @ \cup {t}]
  <2>1. k = [m EXCEPT !.running = @ \ {t}]
    BY DEF State
  <2>2. n = [k EXCEPT !.ended = @ \cup {t}]
    BY DEF State
  <2>. QED BY <2>1, <2>2
<1>4. ~IsBranch(cancel) /\ ~IsBranch(join)
  BY <1>1 DEF IsBranch
<1>. HIDE DEF cancel, join, m, k, n
<1>5. MainDoes(m, cancel, k)
  BY <1>1, <1>3 DEF MainDoes
<1>6. MainDoes(k, join, n)
  BY <1>1, <1>2, <1>3 DEF MainDoes
<1>7. Leads("main", m, <<cancel>>, k) /\ Leads("main", k, <<join>>, n)
  BY <1>2, <1>4, <1>5, <1>6, MainStep
<1>8. Leads("main", m, <<cancel, join>>, n)
  BY <1>7, LeadsTwo
<1>. QED BY <1>8 DEF Cancel, cancel, join, m, n

\* A mutex of an object that is there, taken for a moment.
LEMMA MainBrief ==
  \A m, name, card :
    /\ m.phase # "running" /\ <<name, card>> \in Mutex /\ Above(m.held, <<name, card>>)
    /\ Alive(m, Home[name])
    => Leads("main", m, <<Brief(name, card)>>, m)
<1>. SUFFICES ASSUME NEW m, NEW name, NEW card, m.phase # "running",
                     <<name, card>> \in Mutex, Above(m.held, <<name, card>>),
                     Alive(m, Home[name])
              PROVE  Leads("main", m, <<Brief(name, card)>>, m)
  OBVIOUS
<1>. DEFINE step == Brief(name, card)
<1>1. /\ step[1] = "within" /\ step[2][1] = <<name, card>> /\ step[2][2] = "nothing"
      /\ step[2][1][1] = name
  BY DEF Brief
<1>. HIDE DEF step
<1>2. MainDoes(m, step, m) /\ ~IsBranch(step)
  <2>1. MainDoes(m, step, m)
    BY <1>1 DEF MainDoes
  <2>2. ~IsBranch(step)
    BY <1>1 DEF IsBranch
  <2>. QED BY <2>1, <2>2
<1>3. Leads("main", m, <<step>>, m)
  BY <1>2, MainStep
<1>. QED BY <1>3 DEF step

\* Mutexes of the plugin and the cards are mutexes.
LEMMA MutexNames ==
  /\ \A name \in {"ci", "capmt", "decsa", "filter", "sock"} : <<name, "plugin">> \in Mutex
  /\ \A name \in {"slot", "decrypt", "adapter", "stop"}, card \in Card : <<name, card>> \in Mutex
BY DEF Mutex

\* The connection is closed, when its thread has ended.
LEMMA MainCloses ==
  \A ex, gl, run, e, g, d, p :
    /\ "sock" \in e /\ p # "running" /\ {"SockHandler", "filter"} \subseteq ex \cap gl
    => Leads("main", State({}, ex, gl, run, e, g, d, p), CloseConnection,
             State({}, ex, gl, run, e, g, d \cup {"closed"}, p))
<1>. SUFFICES ASSUME NEW ex, NEW gl, NEW run, NEW e, NEW g, NEW d, NEW p,
                     "sock" \in e, p # "running", {"SockHandler", "filter"} \subseteq ex \cap gl
              PROVE  Leads("main", State({}, ex, gl, run, e, g, d, p), CloseConnection,
                           State({}, ex, gl, run, e, g, d \cup {"closed"}, p))
  OBVIOUS
<1>. DEFINE close == Within("sock", "close")
            m == State({}, ex, gl, run, e, g, d, p)
            n == State({}, ex, gl, run, e, g, d \cup {"closed"}, p)
<1>1. /\ close[1] = "within" /\ close[2][1] = Of("sock") /\ close[2][2] = "close"
      /\ close[2][1][1] = "sock"
  BY DEF Within, Of
<1>2. /\ m.phase = p /\ n.phase = p /\ m.held = {} /\ n.held = {} /\ m.ended = e
      /\ m.exists = ex /\ m.global = gl /\ n.exists = ex /\ n.global = gl
  BY DEF State
<1>3. n = [m EXCEPT !.done = @ \cup {"closed"}]
  BY DEF State
<1>. HIDE DEF close, m, n
<1>4. Leads("main", m, <<close>>, n)
  <2>1. Of("sock") \in Mutex /\ Above({}, Of("sock")) /\ Alive(m, Home["sock"])
    BY <1>2, MutexNames, AboveOrder DEF Of, Alive, Home
  <2>2. MainDoes(m, close, n)
    BY <1>1, <1>2, <1>3, <2>1 DEF MainDoes
  <2>3. ~IsBranch(close)
    BY <1>1 DEF IsBranch
  <2>. QED BY <1>2, <2>2, <2>3, MainStep
<1>5. Leads("main", n, <<IfSo(<<Brief("filter", "plugin")>>)>>, n)
  <2>1. /\ <<"filter", "plugin">> \in Mutex /\ Above(n.held, <<"filter", "plugin">>)
        /\ Alive(n, Home["filter"])
    BY <1>2, MutexNames, AboveOrder DEF Alive, Home
  <2>2. Leads("main", n, <<Brief("filter", "plugin")>>, n)
    BY <1>2, <2>1, MainBrief
  <2>. QED BY <1>2, <2>2, MainTests
<1>6. Leads("main", m, <<close, IfSo(<<Brief("filter", "plugin")>>)>>, n)
  BY <1>4, <1>5, LeadsTwo
<1>. QED BY <1>6 DEF CloseConnection, close, m, n

\* DeCSA::CancelWait takes the stop mutexes of cards under the slot's.
LEMMA MainCancelsWaits ==
  \A cancelWait \in CancelWait : \A m : \A d :
    /\ m.phase # "running" /\ m.held = {<<"slot", d>>} /\ Alive(m, "decsa")
    => Leads("main", m, cancelWait, m)
<1>. SUFFICES ASSUME NEW cancelWait \in CancelWait, NEW m, NEW d,
                     m.phase # "running", m.held = {<<"slot", d>>}, Alive(m, "decsa")
              PROVE  Leads("main", m, cancelWait, m)
  OBVIOUS
<1>1. PICK waits \in SUBSET Card :
        cancelWait = EachCard([card \in Card |->
                       IF card \in waits THEN <<Brief("stop", card)>> ELSE <<>>])
  BY DEF CancelWait
<1>. DEFINE steps == [card \in Card |->
                        IF card \in waits THEN <<Brief("stop", card)>> ELSE <<>>]
            f == [i \in 0 .. Len(Cards) |-> m]
<1>2. ASSUME NEW card \in Card PROVE Leads("main", m, steps[card], m)
  <2>1. CASE card \in waits
    <3>1. <<"stop", card>> \in Mutex /\ Above(m.held, <<"stop", card>>)
      BY MutexNames, Orders
    <3>2. Home["stop"] = "decsa"
      BY DEF Home
    <3>3. Leads("main", m, <<Brief("stop", card)>>, m)
      BY <3>1, <3>2, MainBrief
    <3>. QED BY <2>1, <3>3
  <2>2. CASE card \notin waits
    BY <2>2, LeadsNowhere
  <2>. QED BY <2>1, <2>2
<1>. HIDE DEF steps
<1>3. Len(Cards) \in Nat /\ \A i \in 1 .. Len(Cards) : Cards[i] \in Card
  BY CardsAssumption
<1>4. \A i \in 1 .. Len(Cards) : Leads("main", f[i - 1], steps[Cards[i]], f[i])
  BY <1>2, <1>3
<1>5. f[0] = m /\ f[Len(Cards)] = m
  BY <1>3
<1>. HIDE DEF f
<1>6. Leads("main", f[0], EachCard(steps), f[Len(Cards)])
  BY <1>4, LeadsCards
<1>. QED BY <1>1, <1>5, <1>6 DEF steps

\* While it stops: the mutexes it has, and the cards it unassigned.
Stopping(h, g) == State(h, Object, Object, Over, {}, g, {"stopped"}, "stopping")

\* SCCIAdapter::Stop leaves no card assigned: each slot in turn, after stopped is set.
LEMMA MainUnassigns ==
  \A cancelWait \in CancelWait :
    Leads("main", Stopping({}, {}), UnassignSlots(cancelWait), Stopping({}, Card))
<1>. SUFFICES ASSUME NEW cancelWait \in CancelWait
              PROVE  Leads("main", Stopping({}, {}), UnassignSlots(cancelWait),
                           Stopping({}, Card))
  OBVIOUS
<1>. DEFINE calls(card) == <<Do("unassign", card), IfSo(<<IfSet("decsa", cancelWait)>>)>>
<1>1. ASSUME NEW card \in Card, NEW g
      PROVE  Leads("main", Stopping({}, g), Locked("slot", card, calls(card)),
                   Stopping({}, g \cup {card}))
  <2>. DEFINE slot == <<"slot", card>>
              lock == Lock("slot", card)
              unlock == Unlock("slot", card)
              unassign == Do("unassign", card)
              m1 == Stopping({}, g)
              m2 == Stopping({slot}, g)
              m3 == Stopping({slot}, g \cup {card})
              m4 == Stopping({}, g \cup {card})
  <2>1. /\ lock[1] = "lock" /\ lock[2] = slot /\ unlock[1] = "unlock" /\ unlock[2] = slot
        /\ unassign[1] = "unassign" /\ unassign[2] = card
    BY DEF Lock, Unlock, Do
  <2>2. ~IsBranch(lock) /\ ~IsBranch(unlock) /\ ~IsBranch(unassign)
    BY <2>1 DEF IsBranch
  <2>3. /\ m1.phase = "stopping" /\ m2.phase = "stopping" /\ m3.phase = "stopping"
        /\ m1.held = {} /\ m2.held = {slot} /\ m3.held = {slot}
        /\ "stopped" \in m2.done
    BY DEF Stopping, State
  <2>4. Alive(m1, "sCCIAdapter") /\ Alive(m3, "sCCIAdapter") /\ Alive(m3, "decsa")
    BY DEF Stopping, State, Alive, Object
  <2>5. m2 = [m1 EXCEPT !.held = @ \cup {slot}]
    <3>1. {} \cup {slot} = {slot}
      OBVIOUS
    <3>. HIDE DEF slot
    <3>2. Stopping({} \cup {slot}, g) = [m1 EXCEPT !.held = @ \cup {slot}]
      BY DEF Stopping, State
    <3>. QED BY <3>1, <3>2
  <2>6. m3 = [m2 EXCEPT !.gone = @ \cup {card}]
    BY DEF Stopping, State
  <2>7. m4 = [m3 EXCEPT !.held = @ \ {slot}]
    <3>1. {slot} \ {slot} = {}
      OBVIOUS
    <3>. HIDE DEF slot
    <3>2. Stopping({slot} \ {slot}, g \cup {card}) = [m3 EXCEPT !.held = @ \ {slot}]
      BY DEF Stopping, State
    <3>. QED BY <3>1, <3>2
  <2>8. slot \in MayHold("main") /\ Above({}, slot) /\ Home[slot[1]] = "sCCIAdapter"
    BY MayHave, AboveOrder DEF Home
  <2>. HIDE DEF slot, lock, unlock, unassign, m1, m2, m3, m4, calls
  <2>9. MainDoes(m1, lock, m2)
    BY <2>1, <2>3, <2>4, <2>5, <2>8 DEF MainDoes
  <2>10. MainDoes(m2, unassign, m3)
    BY <2>1, <2>3, <2>6 DEF MainDoes
  <2>11. MainDoes(m3, unlock, m4)
    BY <2>1, <2>3, <2>4, <2>7, <2>8 DEF MainDoes
  <2>12. /\ Leads("main", m1, <<lock>>, m2) /\ Leads("main", m2, <<unassign>>, m3)
         /\ Leads("main", m3, <<unlock>>, m4)
    BY <2>2, <2>3, <2>9, <2>10, <2>11, MainStep
  <2>13. Leads("main", m3, <<IfSo(<<IfSet("decsa", cancelWait)>>)>>, m3)
    <3>1. Leads("main", m3, cancelWait, m3)
      BY <2>3, <2>4, MainCancelsWaits DEF slot
    <3>. QED BY <2>3, <3>1, MainTests
  <2>14. Leads("main", m2, calls(card), m3)
    <3>1. Leads("main", m2, <<unassign, IfSo(<<IfSet("decsa", cancelWait)>>)>>, m3)
      BY <2>12, <2>13, LeadsTwo
    <3>. QED BY <3>1 DEF calls, unassign
  <2>15. Leads("main", m1, (<<lock>> \o calls(card)) \o <<unlock>>, m4)
    BY <2>12, <2>14, LeadsOn
  <2>. QED BY <2>15 DEF Locked, lock, unlock, m1, m4
<1>. DEFINE steps == [card \in Card |-> Locked("slot", card, calls(card))]
            before(i) == {Cards[j] : j \in 1 .. i}
            f == [i \in 0 .. Len(Cards) |-> Stopping({}, before(i))]
<1>2. UnassignSlots(cancelWait) = EachCard(steps)
  BY DEF UnassignSlots
<1>3. Len(Cards) \in Nat /\ \A i \in 1 .. Len(Cards) : Cards[i] \in Card
  BY CardsAssumption
<1>4. before(0) = {} /\ before(Len(Cards)) = Card
  BY CardsAssumption DEF Card, ToSet
<1>5. ASSUME NEW i \in 1 .. Len(Cards)
      PROVE  Leads("main", f[i - 1], steps[Cards[i]], f[i])
  <2>. DEFINE card == Cards[i]
  <2>1. /\ i \in 0 .. Len(Cards) /\ i - 1 \in 0 .. Len(Cards) /\ card \in Card
        /\ before(i) = before(i - 1) \cup {card}
    BY <1>3
  <2>2. f[i] = Stopping({}, before(i)) /\ f[i - 1] = Stopping({}, before(i - 1))
    <3>. HIDE DEF before
    <3>. QED BY <2>1
  <2>3. steps[card] = Locked("slot", card, calls(card))
    <3>. HIDE DEF calls, card
    <3>. QED BY <2>1
  <2>. HIDE DEF before, f, steps, calls, card
  <2>4. Leads("main", Stopping({}, before(i - 1)), Locked("slot", card, calls(card)),
              Stopping({}, before(i - 1) \cup {card}))
    BY <1>1, <2>1
  <2>5. Leads("main", f[i - 1], steps[card], f[i])
    BY <2>1, <2>2, <2>3, <2>4
  <2>. QED BY <2>5 DEF card
<1>6. f[0] = Stopping({}, {}) /\ f[Len(Cards)] = Stopping({}, Card)
  <2>. DEFINE none == before(0)
              all == before(Len(Cards))
  <2>1. f[0] = Stopping({}, none) /\ f[Len(Cards)] = Stopping({}, all)
    <3>. HIDE DEF before
    <3>. QED BY <1>3
  <2>2. none = {} /\ all = Card
    BY <1>4
  <2>. HIDE DEF none, all, f
  <2>. QED BY <2>1, <2>2
<1>. HIDE DEF f, steps, before
<1>7. Leads("main", f[0], EachCard(steps), f[Len(Cards)])
  BY <1>5, LeadsCards
<1>. QED BY <1>2, <1>6, <1>7
AllDone == {"stopped", "closed"}
Stops == State({}, Object, Object, Over, {}, {}, {}, "stopping")
Stopped(p) == State({}, Object, Object, {}, Over, Card, AllDone, p)

\* DVBAPI::Stop, whatever waits it cancels.
LEMMA MainStops ==
  \A cancelWait \in CancelWait : Leads("main", Stops, Stop(cancelWait), Stopped("stopped"))
<1>. SUFFICES ASSUME NEW cancelWait \in CancelWait
              PROVE  Leads("main", Stops, Stop(cancelWait), Stopped("stopped"))
  OBVIOUS
<1>. DEFINE m1 == Stopping({}, {})
            m2 == Stopping({}, Card)
            m3 == State({}, Object, Object, {"sock"}, {"ci"}, Card, {"stopped"}, "stopping")
            m4 == State({}, Object, Object, {}, Over, Card, {"stopped"}, "stopping")
            stop == Do("stop", "adapter")
            done == Do("phase", "stopped")
<1>1. Leads("main", Stops, <<stop>>, m1)
  <2>1. stop[1] = "stop"
    BY DEF Do
  <2>2. m1 = [Stops EXCEPT !.done = @ \cup {"stopped"}]
    <3>1. {} \cup {"stopped"} = {"stopped"}
      OBVIOUS
    <3>2. State({}, Object, Object, Over, {}, {}, {} \cup {"stopped"}, "stopping")
            = [Stops EXCEPT !.done = @ \cup {"stopped"}]
      BY DEF Stops, State
    <3>. QED BY <3>1, <3>2 DEF Stopping
  <2>3. Stops.phase = "stopping"
    BY DEF Stops, State
  <2>. HIDE DEF stop, m1
  <2>4. MainDoes(Stops, stop, m1)
    BY <2>1, <2>2 DEF MainDoes
  <2>5. ~IsBranch(stop)
    BY <2>1 DEF IsBranch
  <2>. QED BY <2>3, <2>4, <2>5, MainStep
<1>2. Leads("main", m1, UnassignSlots(cancelWait), m2)
  BY MainUnassigns
<1>3. Leads("main", m2, Cancel("ci"), m3)
  <2>1. Over \ {"ci"} = {"sock"} /\ {} \cup {"ci"} = {"ci"} /\ "ci" \in Over
    BY DEF Over
  <2>2. Leads("main", m2, Cancel("ci"),
              State({}, Object, Object, Over \ {"ci"}, {} \cup {"ci"}, Card, {"stopped"}, "stopping"))
    BY <2>1, MainCancel DEF Stopping
  <2>. QED BY <2>1, <2>2
<1>4. Leads("main", m3, Cancel("sock"), m4)
  <2>1. {"sock"} \ {"sock"} = {} /\ {"ci"} \cup {"sock"} = Over /\ "sock" \in Over
    BY DEF Over
  <2>2. Leads("main", m3, Cancel("sock"),
              State({}, Object, Object, {"sock"} \ {"sock"}, {"ci"} \cup {"sock"}, Card,
                    {"stopped"}, "stopping"))
    BY <2>1, MainCancel
  <2>. QED BY <2>1, <2>2
<1>5. Leads("main", m4, CloseConnection, Stopped("stopping"))
  <2>1. {"stopped"} \cup {"closed"} = AllDone /\ "sock" \in Over
        /\ {"SockHandler", "filter"} \subseteq Object \cap Object
    BY DEF Over, Object, AllDone
  <2>2. Leads("main", m4, CloseConnection,
              State({}, Object, Object, {}, Over, Card, {"stopped"} \cup {"closed"}, "stopping"))
    BY <2>1, MainCloses
  <2>. QED BY <2>1, <2>2 DEF Stopped
<1>6. Leads("main", Stopped("stopping"), <<done>>, Stopped("stopped"))
  <2>. DEFINE m5 == Stopped("stopping")
              m6 == Stopped("stopped")
  <2>1. done[1] = "phase" /\ done[2] = "stopped"
    BY DEF Do
  <2>2. m5.phase = "stopping" /\ m5.ended = Over /\ "closed" \in m5.done
    BY DEF Stopped, State, AllDone
  <2>3. m6 = [m5 EXCEPT !.phase = "stopped"]
    BY DEF Stopped, State
  <2>. HIDE DEF done, m5, m6
  <2>4. MainDoes(m5, done, m6)
    BY <2>1, <2>2, <2>3 DEF MainDoes
  <2>5. ~IsBranch(done)
    BY <2>1 DEF IsBranch
  <2>6. Leads("main", m5, <<done>>, m6)
    BY <2>2, <2>4, <2>5, MainStep
  <2>. QED BY <2>6 DEF m5, m6
<1>. HIDE DEF m1, m2, m3, m4, stop, done
<1>7. Leads("main", Stops, <<stop>> \o UnassignSlots(cancelWait), m2)
  BY <1>1, <1>2, LeadsOn
<1>8. Leads("main", Stops, StopAdapter(cancelWait), m3)
  BY <1>3, <1>7, LeadsOn DEF StopAdapter, stop
<1>9. Leads("main", m3, StopSocket, Stopped("stopping"))
  BY <1>4, <1>5, LeadsOn DEF StopSocket
<1>10. Leads("main", Stops, StopAdapter(cancelWait) \o StopSocket, Stopped("stopping"))
  BY <1>8, <1>9, LeadsOn
<1>11. Leads("main", Stops, StopAdapter(cancelWait) \o StopSocket \o <<done>>, Stopped("stopped"))
  BY <1>6, <1>10, LeadsOn
<1>. QED BY <1>11 DEF Stop, done

\* In the destructor, with the objects ex left.
Left(ex) == State({}, ex, ex, {}, Over, Card, AllDone, "devices_deleted")

\* An object and its pointer are deleted.
LEMMA MainDeletes ==
  \A ex, o, steps : Leads("main", Left(ex), steps, Left(ex))
                    => Leads("main", Left(ex), Delete(o, steps), Left(ex \ {o}))
<1>. SUFFICES ASSUME NEW ex, NEW o, NEW steps, Leads("main", Left(ex), steps, Left(ex))
              PROVE  Leads("main", Left(ex), Delete(o, steps), Left(ex \ {o}))
  OBVIOUS
<1>. DEFINE free == Do("free", o)
            forget == Do("forget", o)
            m == Left(ex)
            k == State({}, ex \ {o}, ex, {}, Over, Card, AllDone, "devices_deleted")
            n == Left(ex \ {o})
<1>1. free[1] = "free" /\ free[2] = o /\ forget[1] = "forget" /\ forget[2] = o
  BY DEF Do
<1>2. m.phase = "devices_deleted" /\ k.phase = "devices_deleted"
  BY DEF Left, State
<1>3. k = [m EXCEPT !.exists = @ \ {o}]
  BY DEF Left, State
<1>4. n = [k EXCEPT !.global = @ \ {o}]
  BY DEF Left, State
<1>5. ~IsBranch(free) /\ ~IsBranch(forget)
  BY <1>1 DEF IsBranch
<1>. HIDE DEF free, forget, m, k, n
<1>6. MainDoes(m, free, k)
  BY <1>1, <1>2, <1>3 DEF MainDoes
<1>7. MainDoes(k, forget, n)
  BY <1>1, <1>2, <1>4 DEF MainDoes
<1>8. Leads("main", m, <<free>>, k) /\ Leads("main", k, <<forget>>, n)
  BY <1>2, <1>5, <1>6, <1>7, MainStep
<1>9. Leads("main", m, <<free, forget>>, n)
  BY <1>8, LeadsTwo
<1>10. Leads("main", m, steps \o <<free, forget>>, n)
  BY <1>9, LeadsOn DEF m
<1>. QED BY <1>10 DEF Delete, free, forget, m, n

\* The destructor deletes the objects, each after those that use it.
LEMMA MainDestroys == Leads("main", Left(Object), Destructor, Left({}))
<1>. DEFINE o1 == Object \ {"sCCIAdapter"}
            o2 == o1 \ {"SockHandler"}
            o3 == o2 \ {"filter"}
            o4 == o3 \ {"decsa"}
<1>1. ASSUME NEW ex, NEW name, NEW card, <<name, card>> \in Mutex,
             Home[name] \in ex
      PROVE  Leads("main", Left(ex), <<Brief(name, card)>>, Left(ex))
  <2>. DEFINE m == Left(ex)
  <2>1. m.phase = "devices_deleted" /\ m.held = {} /\ m.exists = ex /\ m.global = ex
    BY DEF Left, State
  <2>. HIDE DEF m
  <2>2. Above(m.held, <<name, card>>) /\ Alive(m, Home[name])
    BY <1>1, <2>1, AboveOrder DEF Alive
  <2>3. Leads("main", m, <<Brief(name, card)>>, m)
    BY <1>1, <2>1, <2>2, MainBrief
  <2>. QED BY <2>3 DEF m
<1>2. ASSUME NEW ex, NEW t \in Over PROVE Leads("main", Left(ex), Cancel(t), Left(ex))
  <2>1. {} \ {t} = {} /\ Over \cup {t} = Over
    OBVIOUS
  <2>2. Leads("main", State({}, ex, ex, {}, Over, Card, AllDone, "devices_deleted"),
              Cancel(t),
              State({}, ex, ex, {} \ {t}, Over \cup {t}, Card, AllDone,
                    "devices_deleted"))
    BY MainCancel
  <2>. QED BY <2>1, <2>2 DEF Left
<1>3. /\ Home["ci"] = "sCCIAdapter" /\ Home["filter"] = "filter"
      /\ Home["decrypt"] = "decsa" /\ Home["capmt"] = "capmt"
  BY DEF Home
<1>4. Leads("main", Left(Object),
            Delete("sCCIAdapter", Cancel("ci") \o <<Brief("ci", "plugin")>>), Left(o1))
  <2>1. <<"ci", "plugin">> \in Mutex /\ "sCCIAdapter" \in Object /\ "ci" \in Over
    BY MutexNames DEF Object, Over
  <2>2. Leads("main", Left(Object), Cancel("ci") \o <<Brief("ci", "plugin")>>, Left(Object))
    BY <1>1, <1>2, <1>3, <2>1, LeadsOn
  <2>. QED BY <2>2, MainDeletes
<1>5. Leads("main", Left(o1), Delete("SockHandler", StopSocket), Left(o2))
  <2>1. AllDone \cup {"closed"} = AllDone /\ "sock" \in Over
        /\ {"SockHandler", "filter"} \subseteq o1 \cap o1
    BY DEF Over, Object, AllDone
  <2>. HIDE DEF o1
  <2>2. Leads("main",
              State({}, o1, o1, {}, Over, Card, AllDone, "devices_deleted"),
              CloseConnection,
              State({}, o1, o1, {}, Over, Card, AllDone \cup {"closed"},
                    "devices_deleted"))
    BY <2>1, MainCloses
  <2>3. Leads("main", Left(o1), CloseConnection, Left(o1))
    BY <2>1, <2>2 DEF Left
  <2>4. Leads("main", Left(o1), StopSocket, Left(o1))
    BY <1>2, <2>1, <2>3, LeadsOn DEF StopSocket
  <2>. QED BY <2>4, MainDeletes
<1>6. Leads("main", Left(o2), Delete("filter", <<Brief("filter", "plugin")>>), Left(o3))
  <2>1. <<"filter", "plugin">> \in Mutex /\ "filter" \in o2
    BY MutexNames DEF Object
  <2>. HIDE DEF o2
  <2>2. Leads("main", Left(o2), <<Brief("filter", "plugin")>>, Left(o2))
    BY <1>1, <1>3, <2>1
  <2>. QED BY <2>2, MainDeletes
<1>7. Leads("main", Left(o3), Delete("decsa", EachCard([card \in Card |-> <<Brief("decrypt", card)>>])),
            Left(o4))
  <2>1. "decsa" \in o3
    BY DEF Object
  <2>. HIDE DEF o3
  <2>. DEFINE steps == [card \in Card |-> <<Brief("decrypt", card)>>]
              m == Left(o3)
              f == [i \in 0 .. Len(Cards) |-> m]
  <2>2. ASSUME NEW card \in Card PROVE Leads("main", m, steps[card], m)
    <3>1. Leads("main", Left(o3), <<Brief("decrypt", card)>>, Left(o3))
      BY <1>1, <1>3, <2>1, MutexNames
    <3>. QED BY <3>1
  <2>. HIDE DEF steps, m
  <2>3. Len(Cards) \in Nat /\ \A i \in 1 .. Len(Cards) : Cards[i] \in Card
    BY CardsAssumption
  <2>4. \A i \in 1 .. Len(Cards) : Leads("main", f[i - 1], steps[Cards[i]], f[i])
    BY <2>2, <2>3
  <2>5. f[0] = m /\ f[Len(Cards)] = m
    BY <2>3
  <2>. HIDE DEF f
  <2>6. Leads("main", f[0], EachCard(steps), f[Len(Cards)])
    BY <2>4, LeadsCards
  <2>7. Leads("main", Left(o3), EachCard(steps), Left(o3))
    BY <2>5, <2>6 DEF m
  <2>. QED BY <2>7, MainDeletes DEF steps
<1>8. Leads("main", Left(o4), Delete("capmt", <<Brief("capmt", "plugin")>>), Left({}))
  <2>1. <<"capmt", "plugin">> \in Mutex /\ "capmt" \in o4 /\ o4 \ {"capmt"} = {}
    BY MutexNames DEF Object
  <2>. HIDE DEF o4
  <2>2. Leads("main", Left(o4), <<Brief("capmt", "plugin")>>, Left(o4))
    BY <1>1, <1>3, <2>1
  <2>3. Leads("main", Left(o4), Delete("capmt", <<Brief("capmt", "plugin")>>),
              Left(o4 \ {"capmt"}))
    BY <2>2, MainDeletes
  <2>. QED BY <2>1, <2>3
<1>. DEFINE d1 == Delete("sCCIAdapter", Cancel("ci") \o <<Brief("ci", "plugin")>>)
            d2 == Delete("SockHandler", StopSocket)
            d3 == Delete("filter", <<Brief("filter", "plugin")>>)
            d4 == Delete("decsa", EachCard([card \in Card |-> <<Brief("decrypt", card)>>]))
            d5 == Delete("capmt", <<Brief("capmt", "plugin")>>)
<1>9. Destructor = d1 \o d2 \o d3 \o d4 \o d5
  BY Zenon DEF Destructor
<1>. HIDE DEF d1, d2, d3, d4, d5, o1, o2, o3, o4
<1>10. Leads("main", Left(Object), d1 \o d2, Left(o2))
  BY <1>4, <1>5, LeadsOn DEF d1, d2
<1>11. Leads("main", Left(Object), d1 \o d2 \o d3, Left(o3))
  BY <1>6, <1>10, LeadsOn DEF d3
<1>12. Leads("main", Left(Object), d1 \o d2 \o d3 \o d4, Left(o4))
  BY <1>7, <1>11, LeadsOn DEF d4
<1>13. Leads("main", Left(Object), d1 \o d2 \o d3 \o d4 \o d5, Left({}))
  BY <1>8, <1>12, LeadsOn DEF d5
<1>. QED BY <1>9, <1>13

\* All of the end of the plugin: it stops, the devices go, and then the objects.
LEMMA MainEnds ==
  \A cancelWait \in CancelWait : \E n : Leads("main", Stops, Ends(cancelWait), n)
<1>. SUFFICES ASSUME NEW cancelWait \in CancelWait
              PROVE  \E n : Leads("main", Stops, Ends(cancelWait), n)
  OBVIOUS
<1>. DEFINE m == Stopped("stopped")
            k == Left(Object)
            e == Left({})
            n == [e EXCEPT !.phase = "ended"]
            delete == Do("delete", "devices")
            done == Do("phase", "ended")
<1>1. /\ m.phase = "stopped" /\ m.held = {} /\ m.gone = Card
      /\ k.phase = "devices_deleted" /\ e.phase = "devices_deleted"
  BY DEF Stopped, Left, State
<1>2. k = [m EXCEPT !.phase = "devices_deleted"]
  BY DEF Stopped, Left, State
<1>3. delete[1] = "delete" /\ done[1] = "phase" /\ done[2] = "ended"
  BY DEF Do
<1>4. n = [e EXCEPT !.phase = "ended"]
  OBVIOUS
<1>5. ~IsBranch(delete) /\ ~IsBranch(done)
  BY <1>3 DEF IsBranch
<1>. HIDE DEF m, k, e, n, delete, done
<1>6. MainDoes(m, delete, k)
  BY <1>1, <1>2, <1>3 DEF MainDoes
<1>7. MainDoes(e, done, n)
  BY <1>1, <1>3, <1>4 DEF MainDoes
<1>8. Leads("main", m, <<delete>>, k) /\ Leads("main", e, <<done>>, n)
  BY <1>1, <1>5, <1>6, <1>7, MainStep
<1>9. Leads("main", Stops, Stop(cancelWait), m) /\ Leads("main", k, Destructor, e)
  BY MainStops, MainDestroys DEF m, k, e
<1>10. Leads("main", Stops, Stop(cancelWait) \o <<delete>>, k)
  BY <1>8, <1>9, LeadsOn
<1>11. Leads("main", Stops, Stop(cancelWait) \o <<delete>> \o Destructor, e)
  BY <1>9, <1>10, LeadsOn
<1>12. Leads("main", Stops, Stop(cancelWait) \o <<delete>> \o Destructor \o <<done>>, n)
  BY <1>8, <1>11, LeadsOn
<1>. QED BY <1>12 DEF Ends, delete, done
-----------------------------------------------------------------------------
(***************************************************************************)
(* The inductive invariant.  What each thread has to do is a rest of one   *)
(* of its calls: it fits the mutexes the thread has and, in the main       *)
(* thread, the objects, threads and cards as they are.                     *)
(***************************************************************************)
Has(t) == {x \in Mutex : owner[x] = t}
Now(e, g, d) == State(Has("main"), exists, global, running, e, g, d, phase)

Types ==
  /\ exists \subseteq Object /\ global \subseteq Object /\ running \subseteq Over
  /\ DOMAIN todo = Thread /\ DOMAIN result = Thread
  /\ owner \in [Mutex -> Thread \cup {Nobody}]
  /\ assigned \subseteq Card
  /\ phase \in {"starting", "running", "stopping", "stopped", "devices_deleted", "ended"}
Own == \A x \in Mutex : owner[x] \in Thread => x \in MayHold(owner[x])
OthersDo == \A t \in Thread \ {"main"} : Leads(t, Has(t), todo[t], {})

\* What the main thread may rely on: e are the threads it joined, g the cards
\* it unassigned.
Truth(e, g, d, f) ==
  /\ phase \in {"starting", "running"} => f = Running
  /\ phase = "starting" => e = {}
  /\ e \subseteq Over /\ \A t \in e : t \notin running /\ Idle(t)
  /\ g \cap assigned = {} /\ (g # {} => stopped)
  /\ "stopped" \in d => stopped
  /\ "closed" \in d => ~connected /\ "sock" \in e
  /\ phase \notin {"starting", "running", "stopping"} => e = Over /\ "closed" \in d
MainDoesRest ==
  \E e, g, d, f : Leads("main", Now(e, g, d), todo["main"], f) /\ Truth(e, g, d, f)

\* The objects a thread needs were made before it could begin.
AdapterIsUsed ==
  listed \/ "ci" \in running \/ ~Idle("ci") \/ assigned # {} \/ \E card \in Card : ~Idle(card)
Made ==
  DevicesExist =>
    /\ "sCCIAdapter" \in exists => Base \cup {"SockHandler"} \subseteq exists \cap global
    /\ "SockHandler" \in exists => Base \subseteq exists \cap global
    /\ AdapterIsUsed => "sCCIAdapter" \in exists
    /\ "sock" \in running \/ ~Idle("sock") => "SockHandler" \in exists
Late == ~DevicesExist => assigned = {} /\ \A card \in Card : Idle(card)

\* The socket thread gets no further before SockHandler is set: nothing is listed.
AnyListed == Within("capmt", "any_listed")
IfListed == IfSo(OpenConnection \o <<IfSo(<<Write>> \o SendAll)>>)
FirstTurn == {<<>>, Connects, <<AnyListed, IfListed>>, <<IfListed>>}
Early ==
  DevicesExist /\ "SockHandler" \notin global =>
    ~connected /\ ~result["sock"] /\ todo["sock"] \in FirstTurn

Inv ==
  Types /\ Own /\ OthersDo /\ MainDoesRest /\ Made /\ Late /\ Early

(* Which of the actions a thread takes.                                    *)
LEMMA RunsAs ==
  \A t : Runs(t) =>
    LET kind == Head(todo[t])[1]
    IN  /\ ~Idle(t)
        /\ kind = "lock" => Locks(t)
        /\ kind = "unlock" => Unlocks(t)
        /\ kind = "within" => LocksBriefly(t)
        /\ IsBranch(Head(todo[t])) => Tests(t)
        /\ kind \in {"open", "list", "unassign", "stop", "phase", "delete"} => Acts(t)
        /\ kind \in {"make", "point", "free", "forget", "cancel", "join"} => Manages(t)
<1>. SUFFICES ASSUME NEW t, Runs(t)
              PROVE  LET kind == Head(todo[t])[1]
                     IN  /\ ~Idle(t)
                         /\ kind = "lock" => Locks(t)
                         /\ kind = "unlock" => Unlocks(t)
                         /\ kind = "within" => LocksBriefly(t)
                         /\ IsBranch(Head(todo[t])) => Tests(t)
                         /\ kind \in {"open", "list", "unassign", "stop", "phase", "delete"}
                              => Acts(t)
                         /\ kind \in {"make", "point", "free", "forget", "cancel", "join"}
                              => Manages(t)
  OBVIOUS
<1>. DEFINE step == Head(todo[t])
            kind == step[1]
<1>1. Locks(t) => ~Idle(t) /\ kind = "lock"
  BY DEF Locks, At
<1>2. Unlocks(t) => ~Idle(t) /\ kind = "unlock"
  BY DEF Unlocks, At
<1>3. LocksBriefly(t) => ~Idle(t) /\ kind = "within"
  BY DEF LocksBriefly, At
<1>4. Tests(t) => ~Idle(t) /\ IsBranch(step)
  BY DEF Tests, At, IsBranch
<1>5. Acts(t) => /\ ~Idle(t)
                 /\ kind \in {"open", "close", "list", "unassign", "stop", "phase", "delete"}
  BY DEF Acts, At
<1>6. Manages(t) => /\ ~Idle(t)
                    /\ kind \in {"make", "point", "free", "forget", "cancel", "join"}
  BY DEF Manages, At
<1>7. IsBranch(step) => kind \in {"if_set", "if_so", "maybe"}
  BY DEF IsBranch
<1>. HIDE DEF step
<1>8. Locks(t) \/ Unlocks(t) \/ LocksBriefly(t) \/ Tests(t) \/ Acts(t) \/ Manages(t)
  BY DEF Runs
<1>9. /\ ~Idle(t)
      /\ kind = "lock" => Locks(t)
      /\ kind = "unlock" => Unlocks(t)
      /\ kind = "within" => LocksBriefly(t)
      /\ IsBranch(step) => Tests(t)
      /\ kind \in {"open", "list", "unassign", "stop", "phase", "delete"} => Acts(t)
      /\ kind \in {"make", "point", "free", "forget", "cancel", "join"} => Manages(t)
  BY <1>1, <1>2, <1>3, <1>4, <1>5, <1>6, <1>7, <1>8
<1>. QED BY <1>9 DEF step

\* The threads, and that all they may take are mutexes.
LEMMA ThreadFacts ==
  /\ Nobody \notin Thread
  /\ \A t \in Thread : t \in {"main", "sock", "ci"} \/ (t \in Card /\ t \notin {"main", "sock", "ci"})
  /\ Card \subseteq Thread /\ {"main", "sock", "ci"} \subseteq Thread
  /\ \A t \in Thread : MayHold(t) \subseteq Mutex /\ (t # "main" => MayUse(t) \subseteq Mutex)
<1>1. \A c \in Card : c \notin {"main", "sock", "ci", Nobody}
  BY MayHave
<1>2. /\ Nobody \notin Thread
      /\ \A t \in Thread : t \in {"main", "sock", "ci"} \/ (t \in Card /\ t \notin {"main", "sock", "ci"})
      /\ Card \subseteq Thread /\ {"main", "sock", "ci"} \subseteq Thread
  BY <1>1 DEF Thread, Receivers, Nobody
<1>3. ASSUME NEW t \in Thread PROVE MayHold(t) \subseteq Mutex
  <2>1. CASE t = "main"
    BY <2>1 DEF MayHold, Mutex
  <2>2. CASE t = "sock"
    BY <2>2 DEF MayHold, Mutex
  <2>3. CASE t = "ci"
    BY <2>3 DEF MayHold, Mutex
  <2>4. CASE t \in Card /\ t \notin {"main", "sock", "ci"}
    BY <2>4 DEF MayHold, Mutex, OfCard
  <2>. QED BY <1>2, <2>1, <2>2, <2>3, <2>4
<1>4. ASSUME NEW t \in Thread PROVE MayUse(t) \subseteq Mutex
  BY DEF MayUse, Mutex
<1>. QED BY <1>2, <1>3, <1>4

\* What a step changes of what other threads are about: nothing.
Alone(t) ==
  /\ \A u \in Thread \ {t} : todo'[u] = todo[u] /\ result'[u] = result[u] /\ Has(u)' = Has(u)
  /\ DOMAIN todo' = Thread /\ DOMAIN result' = Thread
  /\ owner' \in [Mutex -> Thread \cup {Nobody}]

(* A mutex that is taken or given back, and one that is taken briefly.     *)
LEMMA Takes ==
  ASSUME NEW t \in Thread, NEW x \in MayHold(t), Types, Own, owner[x] = Nobody,
         owner' = [owner EXCEPT ![x] = t]
  PROVE  /\ Has(t)' = Has(t) \cup {x} /\ Own'
         /\ \A u \in Thread \ {t} : Has(u)' = Has(u)
         /\ owner' \in [Mutex -> Thread \cup {Nobody}]
<1>1. x \in Mutex /\ Nobody \notin Thread
  BY ThreadFacts
<1>2. \A y \in Mutex : owner'[y] = IF y = x THEN t ELSE owner[y]
  BY <1>1 DEF Types
<1>3. owner' \in [Mutex -> Thread \cup {Nobody}]
  BY <1>1 DEF Types
<1>4. Has(t)' = Has(t) \cup {x}
  BY <1>1, <1>2 DEF Has
<1>5. \A u \in Thread \ {t} : Has(u)' = Has(u)
  BY <1>1, <1>2 DEF Has
<1>6. Own'
  BY <1>2 DEF Own
<1>. QED BY <1>3, <1>4, <1>5, <1>6

\* A mutex that is given back.
LEMMA Gives ==
  ASSUME NEW t \in Thread, NEW x \in Has(t), Types, Own,
         owner' = [owner EXCEPT ![x] = Nobody]
  PROVE  /\ Has(t)' = Has(t) \ {x} /\ Own'
         /\ \A u \in Thread \ {t} : Has(u)' = Has(u)
         /\ owner' \in [Mutex -> Thread \cup {Nobody}]
<1>1. x \in Mutex /\ Nobody \notin Thread /\ owner[x] = t
  BY ThreadFacts DEF Has
<1>2. \A y \in Mutex : owner'[y] = IF y = x THEN Nobody ELSE owner[y]
  BY <1>1 DEF Types
<1>3. owner' \in [Mutex -> Thread \cup {Nobody}]
  BY <1>1 DEF Types
<1>4. Has(t)' = Has(t) \ {x}
  BY <1>1, <1>2 DEF Has
<1>5. \A u \in Thread \ {t} : Has(u)' = Has(u)
  BY <1>1, <1>2 DEF Has
<1>6. Own'
  BY <1>1, <1>2 DEF Own
<1>. QED BY <1>3, <1>4, <1>5, <1>6

(* A test leads on, whatever is found.                                     *)
LEMMA TestsOn ==
  ASSUME NEW t \in Thread, NEW m, NEW n, Types, Leads(t, m, todo[t], n), Tests(t)
  PROVE  Leads(t, m, todo'[t], n) /\ Alone(t)
<1>. DEFINE s == todo[t]
            step == Head(s)
<1>1. ~Idle(t) /\ s # <<>> /\ IsBranch(step)
  BY DEF Tests, At, IsBranch, Idle
<1>2. IsList(s) /\ Leads(t, m, Tail(s), n) /\ Leads(t, m, Inner(step) \o Tail(s), n)
  BY <1>1, LeadsFrom
<1>3. <<>> \o Tail(s) = Tail(s)
  BY <1>2, LeadsFrom, ListNone, ListConcat
<1>4. \/ todo' = [todo EXCEPT ![t] = Tail(s)]
      \/ todo' = [todo EXCEPT ![t] = <<>> \o Tail(s)]
      \/ todo' = [todo EXCEPT ![t] = Inner(step) \o Tail(s)]
  <2>1. CASE At(t, "if_set")
    <3>1. step[1] = "if_set" /\ Inner(step) = step[2][2]
      BY <2>1 DEF At, Inner
    <3>2. \/ todo' = [todo EXCEPT ![t] = step[2][2] \o Tail(@)]
          \/ todo' = [todo EXCEPT ![t] = <<>> \o Tail(@)]
      BY <2>1, <3>1 DEF Tests, At, Went_Doing, Arg
    <3>. QED BY <3>1, <3>2
  <2>2. CASE At(t, "if_so")
    <3>1. step[1] = "if_so" /\ Inner(step) = step[2]
      BY <2>2 DEF At, Inner
    <3>2. \/ todo' = [todo EXCEPT ![t] = step[2] \o Tail(@)]
          \/ todo' = [todo EXCEPT ![t] = <<>> \o Tail(@)]
      BY <2>2, <3>1 DEF Tests, At, Went_Doing, Arg
    <3>. QED BY <3>1, <3>2
  <2>3. CASE At(t, "maybe")
    <3>1. step[1] = "maybe" /\ Inner(step) = step[2]
      BY <2>3 DEF At, Inner
    <3>2. \/ todo' = [todo EXCEPT ![t] = step[2] \o Tail(@)]
          \/ todo' = [todo EXCEPT ![t] = Tail(@)]
      BY <2>3, <3>1 DEF Tests, At, Went, Went_Doing, Arg
    <3>. QED BY <3>1, <3>2
  <2>. QED BY <2>1, <2>2, <2>3 DEF Tests
<1>5. Leads(t, m, todo'[t], n) /\ DOMAIN todo' = Thread
      /\ \A u \in Thread \ {t} : todo'[u] = todo[u]
  <2>1. DOMAIN todo = Thread
    BY DEF Types
  <2>. HIDE DEF s, step
  <2>. QED BY <1>2, <1>3, <1>4, <2>1
<1>6. result' = result \/ result' = [result EXCEPT ![t] = FALSE]
  BY DEF Tests, Answered
<1>7. DOMAIN result' = Thread /\ \A u \in Thread \ {t} : result'[u] = result[u]
  BY <1>6 DEF Types
<1>8. owner' = owner
  BY DEF Tests
<1>9. /\ owner' \in [Mutex -> Thread \cup {Nobody}]
      /\ \A u \in Thread \ {t} : Has(u)' = Has(u)
  BY <1>8 DEF Types, Has
<1>. QED BY <1>5, <1>7, <1>9 DEF Alone

(* A step of the socket thread, the adapter's or a receiver.               *)
LEMMA ThreadSteps ==
  ASSUME NEW t \in Thread, t # "main", Types, Own, Leads(t, Has(t), todo[t], {}), Runs(t)
  PROVE  /\ ~Idle(t) /\ Alone(t) /\ Own' /\ Leads(t, Has(t)', todo'[t], {})
         /\ UNCHANGED <<exists, global, running, stopped, assigned, phase>>
         /\ t # "ci" => listed' = listed
         /\ t # "sock" => connected' = connected
<1>. DEFINE s == todo[t]
            step == Head(s)
            held == Has(t)
<1>1. ~Idle(t) /\ s # <<>>
  BY RunsAs DEF Idle
<1>2. CASE IsBranch(step)
  <2>1. Tests(t)
    BY <1>2, RunsAs
  <2>2. Leads(t, held, todo'[t], {}) /\ Alone(t)
    BY <2>1, TestsOn
  <2>3. UNCHANGED <<exists, global, running, owner, data>>
    BY <2>1 DEF Tests
  <2>4. Own' /\ Has(t)' = held
    BY <2>3 DEF Own, Has
  <2>. QED BY <1>1, <2>2, <2>3, <2>4 DEF data
<1>3. CASE ~IsBranch(step)
  <2>1. PICK k : Does(t, held, step, k) /\ Leads(t, k, Tail(s), {})
    BY <1>1, <1>3, LeadsFrom
  <2>2. ThreadDoes(t, held, step, k)
    BY <2>1 DEF Does
  <2>3. ASSUME Went(t)
        PROVE  /\ DOMAIN todo' = Thread /\ todo'[t] = Tail(s)
               /\ \A u \in Thread \ {t} : todo'[u] = todo[u]
    BY <2>3 DEF Went, Types
  <2>4. ASSUME result' = result \/ \E b : result' = [result EXCEPT ![t] = b]
        PROVE  DOMAIN result' = Thread /\ \A u \in Thread \ {t} : result'[u] = result[u]
    BY <2>4 DEF Types
  <2>5. ASSUME owner' = owner
        PROVE  /\ owner' \in [Mutex -> Thread \cup {Nobody}] /\ Own' /\ Has(t)' = held
               /\ \A u \in Thread \ {t} : Has(u)' = Has(u)
    BY <2>5 DEF Types, Own, Has
  <2>6. CASE step[1] = "lock" /\ step[2] \in MayHold(t) /\ Above(held, step[2])
             /\ k = held \cup {step[2]}
    <3>1. Locks(t)
      BY <2>6, RunsAs
    <3>. DEFINE x == step[2]
    <3>2. owner[x] = Nobody /\ owner' = [owner EXCEPT ![x] = t] /\ Went(t)
          /\ UNCHANGED <<exists, global, running, result, data>>
      BY <3>1 DEF Locks, Arg
    <3>3. x \in MayHold(t) /\ k = held \cup {x}
      BY <2>6
    <3>. HIDE DEF x
    <3>4. /\ Has(t)' = k /\ Own' /\ \A u \in Thread \ {t} : Has(u)' = Has(u)
          /\ owner' \in [Mutex -> Thread \cup {Nobody}]
      BY <3>2, <3>3, Takes
    <3>5. Leads(t, Has(t)', todo'[t], {}) /\ Alone(t)
      BY <2>1, <2>3, <2>4, <3>2, <3>4 DEF Alone
    <3>. QED BY <1>1, <3>2, <3>4, <3>5 DEF data
  <2>7. CASE step[1] = "unlock" /\ step[2] \in held /\ k = held \ {step[2]}
    <3>1. Unlocks(t)
      BY <2>7, RunsAs
    <3>. DEFINE x == step[2]
    <3>2. owner' = [owner EXCEPT ![x] = Nobody] /\ Went(t)
          /\ UNCHANGED <<exists, global, running, result, data>>
      BY <3>1 DEF Unlocks, Arg
    <3>3. x \in Has(t) /\ k = held \ {x}
      BY <2>7
    <3>. HIDE DEF x
    <3>4. /\ Has(t)' = k /\ Own' /\ \A u \in Thread \ {t} : Has(u)' = Has(u)
          /\ owner' \in [Mutex -> Thread \cup {Nobody}]
      BY <3>2, <3>3, Gives
    <3>5. Leads(t, Has(t)', todo'[t], {}) /\ Alone(t)
      BY <2>1, <2>3, <2>4, <3>2, <3>4 DEF Alone
    <3>. QED BY <1>1, <3>2, <3>4, <3>5 DEF data
  <2>8. CASE step[1] = "within" /\ (step[2][2] = "close" => t = "sock") /\ k = held
    <3>1. LocksBriefly(t)
      BY <2>8, RunsAs
    <3>2. Went(t) /\ UNCHANGED <<exists, global, running, owner>>
      BY <3>1 DEF LocksBriefly
    <3>3. /\ UNCHANGED <<stopped, assigned, phase, listed>>
          /\ t # "sock" => connected' = connected
      BY <2>8, <3>1 DEF LocksBriefly, Closes, data, Arg
    <3>4. \/ result' = result
          \/ result' = [result EXCEPT ![t] = connected]
          \/ result' = [result EXCEPT ![t] = listed]
      BY <3>1 DEF LocksBriefly, Closes, Answered
    <3>5. DOMAIN result' = Thread /\ \A u \in Thread \ {t} : result'[u] = result[u]
      BY <2>4, <3>4
    <3>6. Leads(t, Has(t)', todo'[t], {}) /\ Alone(t)
      BY <2>1, <2>3, <2>5, <2>8, <3>2, <3>5 DEF Alone
    <3>. QED BY <1>1, <2>5, <3>2, <3>3, <3>6
  <2>9. CASE step[1] = "open" /\ t = "sock" /\ k = held
    <3>1. Acts(t)
      BY <2>9, RunsAs
    <3>2. Went(t) /\ UNCHANGED <<exists, global, running, owner>>
      BY <3>1 DEF Acts
    <3>3. /\ connected' \in BOOLEAN /\ Answered(t, connected')
          /\ UNCHANGED <<listed, stopped, assigned, phase>>
      BY <2>9, <3>1 DEF Acts, At
    <3>4. DOMAIN result' = Thread /\ \A u \in Thread \ {t} : result'[u] = result[u]
      BY <2>4, <3>3 DEF Answered
    <3>5. Leads(t, Has(t)', todo'[t], {}) /\ Alone(t)
      BY <2>1, <2>3, <2>5, <2>9, <3>2, <3>4 DEF Alone
    <3>. QED BY <1>1, <2>5, <2>9, <3>2, <3>3, <3>5
  <2>10. CASE step[1] = "list" /\ t = "ci" /\ k = held
    <3>1. Acts(t)
      BY <2>10, RunsAs
    <3>2. Went(t) /\ UNCHANGED <<exists, global, running, owner>>
      BY <3>1 DEF Acts
    <3>3. UNCHANGED <<result, connected, stopped, assigned, phase>>
      BY <2>10, <3>1 DEF Acts, At
    <3>4. DOMAIN result' = Thread /\ \A u \in Thread \ {t} : result'[u] = result[u]
      BY <2>4, <3>3
    <3>5. Leads(t, Has(t)', todo'[t], {}) /\ Alone(t)
      BY <2>1, <2>3, <2>5, <2>10, <3>2, <3>4 DEF Alone
    <3>. QED BY <1>1, <2>5, <2>10, <3>2, <3>3, <3>5
  <2>. QED BY <2>2, <2>6, <2>7, <2>8, <2>9, <2>10 DEF ThreadDoes
<1>. QED BY <1>2, <1>3
(* A step of the main thread, and what it may do to the objects, threads   *)
(* and cards.                                                              *)
Quiet ==
  /\ UNCHANGED <<exists, global, listed, assigned, phase>>
  /\ running' \subseteq running /\ (connected' => connected)
Makes ==
  /\ phase = "starting"
  /\ \E o \in Object :
       /\ o = "SockHandler" => Base \subseteq exists \cap global
       /\ o = "sCCIAdapter" => Base \cup {"SockHandler"} \subseteq exists \cap global
       /\ exists' = exists \cup {o} /\ running' = running \cup ThreadOf(o)
  /\ UNCHANGED <<global, listed, connected, assigned, phase>>
Points ==
  /\ \E o \in exists : global' = global \cup {o}
  /\ UNCHANGED <<exists, running, listed, connected, assigned, phase>>
Deletes ==
  /\ phase = "devices_deleted" /\ exists' \subseteq exists /\ global' \subseteq global
  /\ UNCHANGED <<running, listed, connected, assigned, phase>>
Unassigns ==
  /\ assigned' \subseteq assigned
  /\ UNCHANGED <<exists, global, running, listed, connected, phase>>
Passes ==
  /\ \/ phase = "starting" /\ phase' = "running"
     \/ phase = "stopping" /\ phase' = "stopped"
     \/ /\ phase = "stopped" /\ phase' = "devices_deleted"
        /\ assigned = {} /\ \A card \in Card : Idle(card)
     \/ phase = "devices_deleted" /\ phase' = "ended"
  /\ UNCHANGED <<exists, global, running, listed, connected, assigned>>
MainEffect == Quiet \/ Makes \/ Points \/ Deletes \/ Unassigns \/ Passes

\* A step of the main thread leads on, and is one of these.
LEMMA MainSteps ==
  ASSUME Types, Own, MainDoesRest, Runs("main")
  PROVE  Alone("main") /\ Own' /\ MainDoesRest' /\ MainEffect
<1>. DEFINE t == "main"
            s == todo[t]
            step == Head(s)
<1>1. PICK e, g, d, f : Leads("main", Now(e, g, d), s, f) /\ Truth(e, g, d, f)
  BY DEF MainDoesRest
<1>. DEFINE m == Now(e, g, d)
<1>2. t \in Thread /\ ~Idle(t) /\ s # <<>>
  BY RunsAs, ThreadFacts DEF Idle
<1>3. /\ m.held = Has(t) /\ m.exists = exists /\ m.global = global /\ m.running = running
      /\ m.ended = e /\ m.gone = g /\ m.done = d /\ m.phase = phase
  BY DEF Now, State
<1>4. ASSUME NEW e1, NEW g1, NEW d1, Leads("main", Now(e1, g1, d1)', todo'[t], f),
             Truth(e1, g1, d1, f)'
      PROVE  MainDoesRest'
  BY <1>4 DEF MainDoesRest
<1>5. ASSUME Went(t)
      PROVE  /\ DOMAIN todo' = Thread /\ todo'[t] = Tail(s)
             /\ \A u \in Thread \ {t} : todo'[u] = todo[u]
  BY <1>2, <1>5 DEF Went, Types
<1>6. ASSUME result' = result \/ \E b : result' = [result EXCEPT ![t] = b]
      PROVE  DOMAIN result' = Thread /\ \A u \in Thread \ {t} : result'[u] = result[u]
  BY <1>6 DEF Types
<1>7. ASSUME owner' = owner
      PROVE  /\ owner' \in [Mutex -> Thread \cup {Nobody}] /\ Own' /\ Has(t)' = Has(t)
             /\ \A u \in Thread \ {t} : Has(u)' = Has(u)
  BY <1>7 DEF Types, Own, Has
<1>8. \A u \in Over : u \in Thread \ {t}
  BY ThreadFacts DEF Over
<1>9. ASSUME UNCHANGED <<running, connected, stopped, assigned, phase>>,
             \A u \in Thread \ {t} : todo'[u] = todo[u]
      PROVE  Truth(e, g, d, f)'
  BY <1>1, <1>8, <1>9 DEF Truth, Idle
<1>10. CASE IsBranch(step)
  <2>1. Tests(t)
    BY <1>10, RunsAs
  <2>2. Leads(t, m, todo'[t], f) /\ Alone(t)
    BY <1>1, <1>2, <2>1, TestsOn
  <2>3. UNCHANGED <<exists, global, running, owner, data>>
    BY <2>1 DEF Tests
  <2>4. Own' /\ Now(e, g, d)' = m
    BY <2>3 DEF Own, Now, Has, data
  <2>5. Truth(e, g, d, f)'
    BY <1>9, <2>2, <2>3 DEF Alone, data
  <2>. QED BY <1>4, <2>2, <2>3, <2>4, <2>5 DEF MainEffect, Quiet, data
<1>11. CASE ~IsBranch(step)
  <2>1. PICK k : Does(t, m, step, k) /\ Leads(t, k, Tail(s), f)
    <3>. HIDE DEF m
    <3>. QED BY <1>1, <1>2, <1>11, LeadsFrom DEF m
  <2>2. MainDoes(m, step, k)
    BY <2>1 DEF Does
  <2>3. CASE /\ step[1] = "lock" /\ step[2] \in MayHold(t)
             /\ k = [m EXCEPT !.held = @ \cup {step[2]}]
    <3>. DEFINE x == step[2]
    <3>1. Locks(t)
      BY <2>3, RunsAs
    <3>2. /\ owner[x] = Nobody /\ owner' = [owner EXCEPT ![x] = t] /\ Went(t)
          /\ UNCHANGED <<exists, global, running, result, listed, connected, stopped, assigned, phase>>
      BY <3>1 DEF Locks, Arg, data
    <3>3. x \in MayHold(t) /\ k = [m EXCEPT !.held = @ \cup {x}]
      BY <2>3
    <3>. HIDE DEF x
    <3>4. /\ Has(t)' = Has(t) \cup {x} /\ Own' /\ \A u \in Thread \ {t} : Has(u)' = Has(u)
          /\ owner' \in [Mutex -> Thread \cup {Nobody}]
      BY <1>2, <3>2, <3>3, Takes
    <3>5. k = Now(e, g, d)'
      BY <3>2, <3>3, <3>4 DEF Now, State
    <3>. HIDE DEF m
    <3>. QED BY <1>4, <1>5, <1>6, <1>9, <2>1, <3>2, <3>4, <3>5 DEF Alone, MainEffect, Quiet
  <2>4. CASE step[1] = "unlock" /\ step[2] \in m.held /\ k = [m EXCEPT !.held = @ \ {step[2]}]
    <3>. DEFINE x == step[2]
    <3>1. Unlocks(t)
      BY <2>4, RunsAs
    <3>2. /\ owner' = [owner EXCEPT ![x] = Nobody] /\ Went(t)
          /\ UNCHANGED <<exists, global, running, result, listed, connected, stopped, assigned, phase>>
      BY <3>1 DEF Unlocks, Arg, data
    <3>3. x \in Has(t) /\ k = [m EXCEPT !.held = @ \ {x}]
      BY <1>3, <2>4
    <3>. HIDE DEF x
    <3>4. /\ Has(t)' = Has(t) \ {x} /\ Own' /\ \A u \in Thread \ {t} : Has(u)' = Has(u)
          /\ owner' \in [Mutex -> Thread \cup {Nobody}]
      BY <1>2, <3>2, <3>3, Gives
    <3>5. k = Now(e, g, d)'
      BY <3>2, <3>3, <3>4 DEF Now, State
    <3>. HIDE DEF m
    <3>. QED BY <1>4, <1>5, <1>6, <1>9, <2>1, <3>2, <3>4, <3>5 DEF Alone, MainEffect, Quiet
  <2>5. CASE /\ step[1] = "within"
             /\ \/ step[2][2] = "nothing" /\ k = m
                \/ /\ step[2][2] = "close" /\ "sock" \in m.ended
                   /\ k = [m EXCEPT !.done = @ \cup {"closed"}]
    <3>1. LocksBriefly(t)
      BY <2>5, RunsAs
    <3>2. Went(t) /\ UNCHANGED <<exists, global, running, owner>>
      BY <3>1 DEF LocksBriefly
    <3>3. CASE step[2][2] = "nothing" /\ k = m
      <4>1. UNCHANGED <<result, listed, connected, stopped, assigned, phase>>
        BY <3>1, <3>3 DEF LocksBriefly, Arg, data
      <4>2. k = Now(e, g, d)'
        BY <1>7, <3>2, <3>3, <4>1 DEF Now, State
      <4>. HIDE DEF m
      <4>. QED BY <1>4, <1>5, <1>6, <1>7, <1>9, <2>1, <3>2, <4>1, <4>2
               DEF Alone, MainEffect, Quiet
    <3>4. CASE /\ step[2][2] = "close" /\ "sock" \in m.ended
               /\ k = [m EXCEPT !.done = @ \cup {"closed"}]
      <4>. DEFINE d1 == d \cup {"closed"}
      <4>1. Closes(t)
        BY <3>1, <3>4 DEF LocksBriefly, Arg
      <4>2. /\ result' = [result EXCEPT ![t] = connected] /\ connected' = FALSE
            /\ UNCHANGED <<listed, stopped, assigned, phase>>
        BY <4>1 DEF Closes, Answered
      <4>3. k = Now(e, g, d1)'
        BY <1>7, <3>2, <3>4, <4>2 DEF Now, State
      <4>4. Truth(e, g, d1, f)'
        BY <1>1, <1>3, <1>5, <1>8, <3>2, <3>4, <4>2 DEF Truth, Idle
      <4>. HIDE DEF m, d1
      <4>. QED BY <1>4, <1>5, <1>6, <1>7, <2>1, <3>2, <4>2, <4>3, <4>4
               DEF Alone, MainEffect, Quiet
    <3>. QED BY <2>5, <3>3, <3>4
  <2>6. CASE step[1] = "cancel" /\ k = [m EXCEPT !.running = @ \ {step[2]}]
    <3>. DEFINE x == step[2]
    <3>1. Manages(t)
      BY <2>6, RunsAs
    <3>2. /\ running' = running \ {x} /\ Went(t)
          /\ UNCHANGED <<exists, global, result, owner, listed, connected, stopped, assigned, phase>>
      BY <2>6, <3>1 DEF Manages, At, Arg, data
    <3>3. k = [m EXCEPT !.running = @ \ {x}]
      BY <2>6
    <3>. HIDE DEF x
    <3>4. k = Now(e, g, d)'
      BY <1>7, <3>2, <3>3 DEF Now, State
    <3>5. Truth(e, g, d, f)'
      BY <1>1, <1>5, <1>8, <3>2 DEF Truth, Idle
    <3>. HIDE DEF m
    <3>. QED BY <1>4, <1>5, <1>6, <1>7, <2>1, <3>2, <3>4, <3>5 DEF Alone, MainEffect, Quiet
  <2>7. CASE /\ step[1] = "join" /\ step[2] \in Over /\ step[2] \notin m.running
             /\ m.phase # "starting" /\ k = [m EXCEPT !.ended = @ \cup {step[2]}]
    <3>0. PICK x : x = step[2]
      OBVIOUS
    <3>. DEFINE e1 == e \cup {x}
    <3>1. Manages(t)
      BY <2>7, RunsAs
    <3>2. /\ Idle(x) /\ Went(t)
          /\ UNCHANGED <<exists, global, running, result, owner, listed, connected, stopped,
                         assigned, phase>>
      BY <2>7, <3>0, <3>1 DEF Manages, At, Arg, data
    <3>3. /\ x \in Over /\ x \notin running /\ phase # "starting"
          /\ k = [m EXCEPT !.ended = @ \cup {x}]
      BY <1>3, <2>7, <3>0
    <3>4. k = Now(e1, g, d)'
      BY <1>7, <3>2, <3>3 DEF Now, State
    <3>5. Truth(e1, g, d, f)'
      BY <1>1, <1>5, <1>8, <3>2, <3>3 DEF Truth, Idle
    <3>. HIDE DEF m, e1
    <3>. QED BY <1>4, <1>5, <1>6, <1>7, <2>1, <3>2, <3>4, <3>5 DEF Alone, MainEffect, Quiet
  <2>8. CASE /\ step[1] = "unassign" /\ "stopped" \in m.done
             /\ k = [m EXCEPT !.gone = @ \cup {step[2]}]
    <3>0. PICK x : x = step[2]
      OBVIOUS
    <3>. DEFINE g1 == g \cup {x}
    <3>1. Acts(t)
      BY <2>8, RunsAs
    <3>2. Went(t) /\ UNCHANGED <<exists, global, running, owner>>
      BY <3>1 DEF Acts
    <3>3. /\ Answered(t, x \in assigned) /\ assigned' = assigned \ {x}
          /\ UNCHANGED <<listed, connected, stopped, phase>>
      BY <2>8, <3>0, <3>1 DEF Acts, At, Arg
    <3>4. \E b : result' = [result EXCEPT ![t] = b]
      BY Zenon, <3>3 DEF Answered
    <3>5. stopped /\ k = [m EXCEPT !.gone = @ \cup {x}]
      BY <1>1, <1>3, <2>8, <3>0 DEF Truth
    <3>6. k = Now(e, g1, d)'
      BY <1>7, <3>2, <3>3, <3>5 DEF Now, State
    <3>7. Truth(e, g1, d, f)'
      BY <1>1, <1>5, <1>8, <3>2, <3>3, <3>5 DEF Truth, Idle
    <3>8. assigned' \subseteq assigned
      BY <3>3
    <3>. HIDE DEF m, g1
    <3>. QED BY <1>4, <1>5, <1>6, <1>7, <2>1, <3>2, <3>3, <3>4, <3>6, <3>7, <3>8
             DEF Alone, MainEffect, Unassigns
  <2>9. CASE step[1] = "stop" /\ k = [m EXCEPT !.done = @ \cup {"stopped"}]
    <3>. DEFINE d1 == d \cup {"stopped"}
    <3>1. Acts(t)
      BY <2>9, RunsAs
    <3>2. Went(t) /\ UNCHANGED <<exists, global, running, owner>>
      BY <3>1 DEF Acts
    <3>3. stopped' = TRUE /\ UNCHANGED <<result, listed, connected, assigned, phase>>
      BY <2>9, <3>1 DEF Acts, At
    <3>4. k = Now(e, g, d1)'
      BY <1>7, <2>9, <3>2, <3>3 DEF Now, State
    <3>5. Truth(e, g, d1, f)'
      BY <1>1, <1>5, <1>8, <3>2, <3>3 DEF Truth, Idle
    <3>. HIDE DEF m, d1
    <3>. QED BY <1>4, <1>5, <1>6, <1>7, <2>1, <3>2, <3>3, <3>4, <3>5
             DEF Alone, MainEffect, Quiet
  <2>10. CASE /\ step[1] = "make" /\ m.phase = "starting" /\ step[2] \in Object
              /\ step[2] = "SockHandler" => Base \subseteq m.exists \cap m.global
              /\ step[2] = "sCCIAdapter" =>
                   Base \cup {"SockHandler"} \subseteq m.exists \cap m.global
              /\ k = [[m EXCEPT !.exists = @ \cup {step[2]}]
                        EXCEPT !.running = @ \cup ThreadOf(step[2])]
    <3>. DEFINE o == step[2]
    <3>1. Manages(t)
      BY <2>10, RunsAs
    <3>2. /\ exists' = exists \cup {o} /\ running' = running \cup ThreadOf(o) /\ Went(t)
          /\ UNCHANGED <<global, result, owner, listed, connected, stopped, assigned, phase>>
      BY <2>10, <3>1 DEF Manages, At, Arg, data
    <3>3. /\ phase = "starting" /\ o \in Object
          /\ o = "SockHandler" => Base \subseteq exists \cap global
          /\ o = "sCCIAdapter" => Base \cup {"SockHandler"} \subseteq exists \cap global
          /\ k = [[m EXCEPT !.exists = @ \cup {o}] EXCEPT !.running = @ \cup ThreadOf(o)]
      BY <1>3, <2>10
    <3>. HIDE DEF o
    <3>4. k = Now(e, g, d)'
      <4>. DEFINE j == State(Has(t), exists \cup {o}, global, running, e, g, d, phase)
      <4>1. j = [m EXCEPT !.exists = @ \cup {o}]
        BY DEF State, Now
      <4>2. k = [j EXCEPT !.running = @ \cup ThreadOf(o)]
        <5>. HIDE DEF j, m
        <5>. QED BY <3>3, <4>1
      <4>. QED BY <1>7, <3>2, <4>2 DEF Now, State
    <3>5. Truth(e, g, d, f)'
      BY <1>1, <1>5, <1>8, <3>2, <3>3 DEF Truth, Idle
    <3>6. Makes
      BY <3>2, <3>3 DEF Makes
    <3>. HIDE DEF m
    <3>. QED BY <1>4, <1>5, <1>6, <1>7, <2>1, <3>2, <3>4, <3>5, <3>6 DEF Alone, MainEffect
  <2>11. CASE step[1] = "point" /\ step[2] \in m.exists /\ k = [m EXCEPT !.global = @ \cup {step[2]}]
    <3>. DEFINE o == step[2]
    <3>1. Manages(t)
      BY <2>11, RunsAs
    <3>2. /\ global' = global \cup {o} /\ Went(t)
          /\ UNCHANGED <<exists, running, result, owner, listed, connected, stopped, assigned, phase>>
      BY <2>11, <3>1 DEF Manages, At, Arg, data
    <3>3. o \in exists /\ k = [m EXCEPT !.global = @ \cup {o}]
      BY <1>3, <2>11
    <3>. HIDE DEF o
    <3>4. k = Now(e, g, d)'
      BY <1>7, <3>2, <3>3 DEF Now, State
    <3>. HIDE DEF m
    <3>. QED BY <1>4, <1>5, <1>6, <1>7, <1>9, <2>1, <3>2, <3>3, <3>4
             DEF Alone, MainEffect, Points
  <2>12. CASE step[1] = "free" /\ m.phase = "devices_deleted"
              /\ k = [m EXCEPT !.exists = @ \ {step[2]}]
    <3>. DEFINE o == step[2]
    <3>1. Manages(t)
      BY <2>12, RunsAs
    <3>2. /\ exists' = exists \ {o} /\ Went(t)
          /\ UNCHANGED <<global, running, result, owner, listed, connected, stopped, assigned, phase>>
      BY <2>12, <3>1 DEF Manages, At, Arg, data
    <3>3. phase = "devices_deleted" /\ k = [m EXCEPT !.exists = @ \ {o}]
      BY <1>3, <2>12
    <3>. HIDE DEF o
    <3>4. k = Now(e, g, d)'
      BY <1>7, <3>2, <3>3 DEF Now, State
    <3>. HIDE DEF m
    <3>. QED BY <1>4, <1>5, <1>6, <1>7, <1>9, <2>1, <3>2, <3>3, <3>4
             DEF Alone, MainEffect, Deletes
  <2>13. CASE step[1] = "forget" /\ m.phase = "devices_deleted"
              /\ k = [m EXCEPT !.global = @ \ {step[2]}]
    <3>. DEFINE o == step[2]
    <3>1. Manages(t)
      BY <2>13, RunsAs
    <3>2. /\ global' = global \ {o} /\ Went(t)
          /\ UNCHANGED <<exists, running, result, owner, listed, connected, stopped, assigned, phase>>
      BY <2>13, <3>1 DEF Manages, At, Arg, data
    <3>3. phase = "devices_deleted" /\ k = [m EXCEPT !.global = @ \ {o}]
      BY <1>3, <2>13
    <3>. HIDE DEF o
    <3>4. k = Now(e, g, d)'
      BY <1>7, <3>2, <3>3 DEF Now, State
    <3>. HIDE DEF m
    <3>. QED BY <1>4, <1>5, <1>6, <1>7, <1>9, <2>1, <3>2, <3>3, <3>4
             DEF Alone, MainEffect, Deletes
  <2>14. CASE /\ step[1] = "delete" /\ m.phase = "stopped" /\ m.gone = Card
              /\ k = [m EXCEPT !.phase = "devices_deleted"]
    <3>1. Acts(t)
      BY <2>14, RunsAs
    <3>2. Went(t) /\ UNCHANGED <<exists, global, running, owner>>
      BY <3>1 DEF Acts
    <3>3. /\ phase' = "devices_deleted" /\ \A card \in Card : Idle(card)
          /\ UNCHANGED <<result, listed, connected, stopped, assigned>>
      BY <2>14, <3>1 DEF Acts, At, Receivers
    <3>4. phase = "stopped" /\ assigned = {}
      BY <1>1, <1>3, <2>14 DEF Truth, Types
    <3>5. k = Now(e, g, d)'
      BY <1>7, <2>14, <3>2, <3>3 DEF Now, State
    <3>6. Truth(e, g, d, f)'
      BY <1>1, <1>5, <1>8, <3>2, <3>3, <3>4 DEF Truth, Idle
    <3>. HIDE DEF m
    <3>. QED BY <1>4, <1>5, <1>6, <1>7, <2>1, <3>2, <3>3, <3>4, <3>5, <3>6
             DEF Alone, MainEffect, Passes
  <2>15. CASE /\ step[1] = "phase"
              /\ \/ m.phase = "starting" /\ step[2] = "running"
                 \/ /\ m.phase = "stopping" /\ step[2] = "stopped" /\ m.ended = Over
                    /\ "closed" \in m.done
                 \/ m.phase = "devices_deleted" /\ step[2] = "ended"
              /\ k = [m EXCEPT !.phase = step[2]]
    <3>. DEFINE p == step[2]
    <3>1. Acts(t)
      BY <2>15, RunsAs
    <3>2. Went(t) /\ UNCHANGED <<exists, global, running, owner>>
      BY <3>1 DEF Acts
    <3>3. phase' = p /\ UNCHANGED <<result, listed, connected, stopped, assigned>>
      BY <2>15, <3>1 DEF Acts, At, Arg
    <3>4. /\ \/ phase = "starting" /\ p = "running"
             \/ phase = "stopping" /\ p = "stopped" /\ e = Over /\ "closed" \in d
             \/ phase = "devices_deleted" /\ p = "ended"
          /\ k = [m EXCEPT !.phase = p]
      BY <1>3, <2>15
    <3>. HIDE DEF p
    <3>5. k = Now(e, g, d)'
      BY <1>7, <3>2, <3>3, <3>4 DEF Now, State
    <3>6. Truth(e, g, d, f)'
      BY <1>1, <1>5, <1>8, <3>2, <3>3, <3>4 DEF Truth, Idle
    <3>. HIDE DEF m
    <3>. QED BY <1>4, <1>5, <1>6, <1>7, <2>1, <3>2, <3>3, <3>4, <3>5, <3>6
             DEF Alone, MainEffect, Passes
  <2>. HIDE DEF m, s, step, t
  <2>. QED BY <2>2, <2>3, <2>4, <2>5, <2>6, <2>7, <2>8, <2>9, <2>10, <2>11, <2>12, <2>13,
              <2>14, <2>15 DEF MainDoes, t
<1>. QED BY <1>10, <1>11

(* While SockHandler is not set yet.                                       *)
LEMMA FirstSteps ==
  ASSUME Types, Runs("sock"), ~listed, ~connected, ~result["sock"], todo["sock"] \in FirstTurn
  PROVE  ~connected' /\ ~result'["sock"] /\ todo'["sock"] \in FirstTurn
<1>. DEFINE s == todo["sock"]
            step == Head(s)
            first == IfSet("capmt", <<AnyListed, IfListed>>)
<1>1. "sock" \in Thread /\ DOMAIN todo = Thread /\ DOMAIN result = Thread
  BY ThreadFacts DEF Types
<1>2. s # <<>>
  BY RunsAs DEF Idle
<1>3. Connects = <<first>>
  BY DEF Connects, AnyListed, IfListed
<1>4. CASE s = Connects
  <2>1. /\ Head(s) = first /\ Tail(s) = <<>>
        /\ first[1] = "if_set" /\ first[2][2] = <<AnyListed, IfListed>>
    BY <1>3, <1>4 DEF IfSet
  <2>2. Tests("sock")
    BY <2>1, RunsAs DEF IsBranch
  <2>3. \/ todo' = [todo EXCEPT !["sock"] = first[2][2] \o Tail(@)]
        \/ todo' = [todo EXCEPT !["sock"] = <<>> \o Tail(@)]
    BY <2>1, <2>2 DEF Tests, At, Went_Doing, Arg
  <2>4. <<AnyListed, IfListed>> \o <<>> = <<AnyListed, IfListed>> /\ <<>> \o <<>> = <<>>
    <3>1. IsList(<<AnyListed, IfListed>>)
      <4>1. <<AnyListed, IfListed>> \in Seq({AnyListed, IfListed})
        OBVIOUS
      <4>. QED BY <4>1 DEF IsList
    <3>. QED BY <3>1, ListNone, ListConcat
  <2>5. todo'["sock"] = <<AnyListed, IfListed>> \/ todo'["sock"] = <<>>
    <3>. HIDE DEF first
    <3>. QED BY <1>1, <2>1, <2>3, <2>4
  <2>6. connected' = connected /\ result' = result
    BY <2>1, <2>2 DEF Tests, At, data
  <2>. QED BY <2>5, <2>6 DEF FirstTurn
<1>5. CASE s = <<AnyListed, IfListed>>
  <2>1. /\ Head(s) = AnyListed /\ Tail(s) = <<IfListed>>
        /\ AnyListed[1] = "within" /\ AnyListed[2][2] = "any_listed"
    BY <1>5 DEF AnyListed, Within
  <2>2. LocksBriefly("sock")
    BY <2>1, RunsAs
  <2>3. /\ todo' = [todo EXCEPT !["sock"] = Tail(@)]
        /\ result' = [result EXCEPT !["sock"] = listed] /\ connected' = connected
    BY <2>1, <2>2 DEF LocksBriefly, Arg, Answered, Went, data
  <2>4. todo'["sock"] = <<IfListed>> /\ ~result'["sock"]
    BY <1>1, <2>1, <2>3
  <2>. QED BY <2>3, <2>4 DEF FirstTurn
<1>6. CASE s = <<IfListed>>
  <2>1. Head(s) = IfListed /\ Tail(s) = <<>> /\ IfListed[1] = "if_so"
    <3>1. Head(s) = IfListed /\ Tail(s) = <<>>
      BY <1>6, ListOne
    <3>2. \A steps : IfSo(steps)[1] = "if_so"
      BY DEF IfSo
    <3>. QED BY <3>1, <3>2 DEF IfListed
  <2>2. Tests("sock")
    BY <2>1, RunsAs DEF IsBranch
  <2>3. /\ todo' = [todo EXCEPT !["sock"] = <<>> \o Tail(@)]
        /\ result' = [result EXCEPT !["sock"] = FALSE] /\ connected' = connected
    BY <2>1, <2>2 DEF Tests, At, Went_Doing, Answered, data
  <2>4. <<>> \o <<>> = <<>>
    BY ListNone, ListConcat
  <2>5. todo'["sock"] = <<>> /\ ~result'["sock"]
    BY <1>1, <2>1, <2>3, <2>4
  <2>. QED BY <2>3, <2>5 DEF FirstTurn
<1>. QED BY <1>2, <1>4, <1>5, <1>6 DEF FirstTurn

(* Each action keeps the invariant.                                        *)
LEMMA InitInv == Init => Inv
<1>. SUFFICES ASSUME Init PROVE Inv
  OBVIOUS
<1>1. \A t : Has(t) = {x \in Mutex : t = Nobody}
  BY DEF Init, Has
<1>2. Nobody \notin Thread /\ "main" \in Thread /\ "sock" \in Thread
      /\ "ci" \in Thread /\ Card \subseteq Thread
  BY ThreadFacts
<1>3. \A t \in Thread : Has(t) = {}
  BY <1>1, <1>2
<1>4. Types
  BY DEF Init, Types
<1>5. Own
  BY <1>2 DEF Init, Own
<1>6. OthersDo
  BY <1>3, LeadsNowhere DEF Init, OthersDo
<1>7. MainDoesRest
  <2>1. Now({}, {}, {}) = Started({}, {}, {})
    BY <1>2, <1>3 DEF Now, Started, Init
  <2>2. Leads("main", Now({}, {}, {}), todo["main"], Running)
    BY <1>2, <2>1, MainStart DEF Init
  <2>3. Truth({}, {}, {}, Running)
    BY DEF Truth, Init
  <2>. QED BY <2>2, <2>3 DEF MainDoesRest
<1>8. \A t \in Thread : t # "main" => Idle(t)
  BY DEF Init, Idle
<1>9. \A card \in Card : card # "main"
  BY MayHave
<1>10. Made
  BY <1>2, <1>8, <1>9 DEF Init, Made, AdapterIsUsed
<1>11. Late
  BY DEF Init, Late, DevicesExist
<1>12. Early
  BY <1>2 DEF Init, Early, FirstTurn
<1>. QED BY <1>4, <1>5, <1>6, <1>7, <1>10, <1>11, <1>12 DEF Inv

\* A step of the other threads.
LEMMA OthersInv ==
  ASSUME Inv, NEW t \in Thread, t # "main", Runs(t)
  PROVE  Inv'
<1>1. Types /\ Own /\ OthersDo /\ MainDoesRest /\ Made /\ Late /\ Early
  BY DEF Inv
<1>2. Leads(t, Has(t), todo[t], {})
  BY <1>1 DEF OthersDo
<1>3. /\ ~Idle(t) /\ Alone(t) /\ Own' /\ Leads(t, Has(t)', todo'[t], {})
      /\ UNCHANGED <<exists, global, running, stopped, assigned, phase>>
      /\ t # "ci" => listed' = listed
      /\ t # "sock" => connected' = connected
  BY <1>1, <1>2, ThreadSteps
<1>4. /\ "main" \in Thread \ {t} /\ "sock" \in Thread /\ "ci" \in Thread /\ Card \subseteq Thread
      /\ Over \subseteq Thread /\ t \in {"sock", "ci"} \cup Card
  BY ThreadFacts DEF Over
<1>5. \A u \in Thread \ {t} : Idle(u)' = Idle(u)
  BY <1>3 DEF Alone, Idle
<1>6. Types'
  BY <1>1, <1>3 DEF Types, Alone
<1>7. OthersDo'
  <2>. SUFFICES ASSUME NEW u \in Thread \ {"main"} PROVE Leads(u, Has(u), todo[u], {})'
    BY DEF OthersDo
  <2>1. CASE u = t
    BY <1>3, <2>1
  <2>2. CASE u # t
    <3>1. Has(u)' = Has(u) /\ todo'[u] = todo[u] /\ Leads(u, Has(u), todo[u], {})
      BY <1>1, <1>3, <2>2 DEF Alone, OthersDo
    <3>2. Leads(u, Has(u)', todo'[u], {})
      BY <3>1
    <3>. QED BY <3>2
  <2>. QED BY <2>1, <2>2
<1>8. MainDoesRest'
  <2>1. PICK e, g, d, f : Leads("main", Now(e, g, d), todo["main"], f) /\ Truth(e, g, d, f)
    BY <1>1 DEF MainDoesRest
  <2>2. Now(e, g, d)' = Now(e, g, d) /\ todo'["main"] = todo["main"]
    BY <1>3, <1>4 DEF Alone, Now
  <2>3. t \notin e
    BY <1>3, <2>1 DEF Truth
  <2>4. e \subseteq Thread \ {t}
    BY <1>4, <2>1, <2>3 DEF Truth
  <2>5. "closed" \in d => connected' = connected
    BY <1>3, <2>1, <2>3 DEF Truth
  <2>6. Truth(e, g, d, f)'
    BY <1>3, <1>5, <2>1, <2>4, <2>5 DEF Truth
  <2>7. Leads("main", Now(e, g, d)', todo'["main"], f)
    BY <2>1, <2>2
  <2>. QED BY <2>6, <2>7 DEF MainDoesRest
<1>9. (AdapterIsUsed' => AdapterIsUsed) /\ (~Idle("sock")' => ~Idle("sock"))
  <2>1. CASE t = "ci"
    BY <1>3, <1>4, <1>5, <2>1 DEF AdapterIsUsed
  <2>2. CASE t \in Card
    BY <1>3, <1>4, <1>5, <2>2 DEF AdapterIsUsed
  <2>3. CASE t = "sock"
    <3>1. listed' = listed
      BY <1>3, <2>3
    <3>2. Idle("ci")' = Idle("ci") /\ \A card \in Card : Idle(card)' = Idle(card)
      BY <1>4, <1>5, <2>3, MayHave, ThreadFacts
    <3>. QED BY <1>3, <2>3, <3>1, <3>2 DEF AdapterIsUsed
  <2>. QED BY <1>4, <2>1, <2>2, <2>3
<1>10. Made'
  BY <1>1, <1>3, <1>9 DEF Made, DevicesExist
<1>11. Late'
  <2>1. ~DevicesExist => t \notin Card
    BY <1>1, <1>3 DEF Late
  <2>. QED BY <1>1, <1>3, <1>4, <1>5, <2>1 DEF Late, DevicesExist
<1>12. Early'
  <2>. SUFFICES ASSUME DevicesExist', "SockHandler" \notin global'
                PROVE  ~connected' /\ ~result'["sock"] /\ todo'["sock"] \in FirstTurn
    BY DEF Early, FirstTurn, Connects, AnyListed, IfListed
  <2>1. DevicesExist /\ "SockHandler" \notin global
    BY <1>3 DEF DevicesExist
  <2>2. ~AdapterIsUsed
    BY <1>1, <2>1 DEF Made
  <2>3. t = "sock" /\ ~listed
    BY <1>3, <1>4, <2>2 DEF AdapterIsUsed
  <2>. QED BY <1>1, <2>1, <2>3, FirstSteps DEF Early
<1>. QED BY <1>3, <1>6, <1>7, <1>8, <1>10, <1>11, <1>12 DEF Inv

\* A step of the main thread.
LEMMA MainInv ==
  ASSUME Inv, Runs("main")
  PROVE  Inv'
<1>1. Types /\ Own /\ OthersDo /\ MainDoesRest /\ Made /\ Late /\ Early
  BY DEF Inv
<1>2. Alone("main") /\ Own' /\ MainDoesRest' /\ MainEffect
  BY <1>1, MainSteps
<1>3. /\ "sock" \in Thread \ {"main"} /\ "ci" \in Thread \ {"main"}
      /\ Card \subseteq Thread \ {"main"}
  BY ThreadFacts, MayHave
<1>4. \A u \in Thread \ {"main"} : Idle(u)' = Idle(u)
  BY <1>2 DEF Alone, Idle
<1>5. OthersDo'
  <2>. SUFFICES ASSUME NEW u \in Thread \ {"main"} PROVE Leads(u, Has(u), todo[u], {})'
    BY DEF OthersDo
  <2>1. Has(u)' = Has(u) /\ todo'[u] = todo[u] /\ Leads(u, Has(u), todo[u], {})
    BY <1>1, <1>2 DEF Alone, OthersDo
  <2>2. Leads(u, Has(u)', todo'[u], {})
    BY <2>1
  <2>. QED BY <2>2
<1>6. /\ result'["sock"] = result["sock"] /\ todo'["sock"] = todo["sock"]
      /\ Idle("sock")' = Idle("sock") /\ Idle("ci")' = Idle("ci")
      /\ \A card \in Card : Idle(card)' = Idle(card)
  BY <1>2, <1>3, <1>4 DEF Alone
<1>7. DOMAIN todo' = Thread /\ DOMAIN result' = Thread
      /\ owner' \in [Mutex -> Thread \cup {Nobody}]
  BY <1>2 DEF Alone
<1>. DEFINE Rest == Types' /\ Made' /\ Late' /\ Early'
<1>8. ASSUME Quiet PROVE Rest
  <2>1. Types'
    BY <1>1, <1>7, <1>8 DEF Types, Quiet
  <2>2. Made'
    <3>1. AdapterIsUsed' => AdapterIsUsed
      BY <1>6, <1>8 DEF AdapterIsUsed, Quiet
    <3>. QED BY <1>1, <1>6, <1>8, <3>1 DEF Made, DevicesExist, Quiet
  <2>3. Late'
    BY <1>1, <1>6, <1>8 DEF Late, DevicesExist, Quiet
  <2>4. Early'
    BY <1>1, <1>6, <1>8 DEF Early, DevicesExist, FirstTurn, Connects, AnyListed, IfListed, Quiet
  <2>. QED BY <2>1, <2>2, <2>3, <2>4
<1>9. ASSUME Makes PROVE Rest
  <2>1. PICK o \in Object :
          /\ o = "SockHandler" => Base \subseteq exists \cap global
          /\ o = "sCCIAdapter" => Base \cup {"SockHandler"} \subseteq exists \cap global
          /\ exists' = exists \cup {o} /\ running' = running \cup ThreadOf(o)
    BY <1>9 DEF Makes
  <2>2. UNCHANGED <<global, listed, connected, assigned, phase>> /\ phase = "starting"
    BY <1>9 DEF Makes
  <2>3. /\ ThreadOf(o) \subseteq Over /\ ("ci" \in ThreadOf(o) => o = "sCCIAdapter")
        /\ "sock" \in ThreadOf(o) => o = "SockHandler"
    BY DEF ThreadOf, Over
  <2>4. Types'
    BY <1>1, <1>7, <2>1, <2>2, <2>3 DEF Types
  <2>5. Made'
    <3>1. AdapterIsUsed' => AdapterIsUsed \/ o = "sCCIAdapter"
      BY <1>6, <2>1, <2>2, <2>3 DEF AdapterIsUsed
    <3>2. "sock" \in running' => "sock" \in running \/ o = "SockHandler"
      BY <2>1, <2>3
    <3>3. DevicesExist
      BY <2>2 DEF DevicesExist
    <3>4. /\ "sCCIAdapter" \in exists => Base \cup {"SockHandler"} \subseteq exists \cap global
          /\ "SockHandler" \in exists => Base \subseteq exists \cap global
          /\ AdapterIsUsed => "sCCIAdapter" \in exists
          /\ "sock" \in running \/ ~Idle("sock") => "SockHandler" \in exists
      BY <1>1, <3>3 DEF Made
    <3>. QED BY <1>6, <2>1, <2>2, <3>1, <3>2, <3>4 DEF Made
  <2>6. Late' /\ Early'
    BY <1>1, <1>6, <2>2
       DEF Late, Early, DevicesExist, FirstTurn, Connects, AnyListed, IfListed
  <2>. QED BY <2>4, <2>5, <2>6
<1>10. ASSUME Points PROVE Rest
  <2>1. PICK o \in exists : global' = global \cup {o}
    BY <1>10 DEF Points
  <2>2. UNCHANGED <<exists, running, listed, connected, assigned, phase>>
    BY <1>10 DEF Points
  <2>3. Types'
    BY <1>1, <1>7, <2>1, <2>2 DEF Types
  <2>4. Made'
    <3>1. AdapterIsUsed' => AdapterIsUsed
      BY <1>6, <2>2 DEF AdapterIsUsed
    <3>. QED BY <1>1, <1>6, <2>1, <2>2, <3>1 DEF Made, DevicesExist
  <2>5. Late' /\ Early'
    BY <1>1, <1>6, <2>1, <2>2
       DEF Late, Early, DevicesExist, FirstTurn, Connects, AnyListed, IfListed
  <2>. QED BY <2>3, <2>4, <2>5
<1>11. ASSUME Deletes PROVE Rest
  <2>1. ~DevicesExist /\ ~DevicesExist'
    BY <1>11 DEF Deletes, DevicesExist
  <2>2. Types'
    BY <1>1, <1>7, <1>11 DEF Types, Deletes
  <2>3. Made' /\ Early'
    BY <2>1 DEF Made, Early
  <2>4. Late'
    BY <1>1, <1>6, <1>11, <2>1 DEF Late, Deletes
  <2>. QED BY <2>2, <2>3, <2>4
<1>12. ASSUME Unassigns PROVE Rest
  <2>1. Types'
    BY <1>1, <1>7, <1>12 DEF Types, Unassigns
  <2>2. Made'
    <3>1. AdapterIsUsed' => AdapterIsUsed
      BY <1>6, <1>12 DEF AdapterIsUsed, Unassigns
    <3>. QED BY <1>1, <1>6, <1>12, <3>1 DEF Made, DevicesExist, Unassigns
  <2>3. Late'
    BY <1>1, <1>6, <1>12 DEF Late, DevicesExist, Unassigns
  <2>4. Early'
    BY <1>1, <1>6, <1>12
       DEF Early, DevicesExist, FirstTurn, Connects, AnyListed, IfListed, Unassigns
  <2>. QED BY <2>1, <2>2, <2>3, <2>4
<1>13. ASSUME Passes PROVE Rest
  <2>1. Types'
    BY <1>1, <1>7, <1>13 DEF Types, Passes
  <2>2. DevicesExist' => DevicesExist
    BY <1>13 DEF Passes, DevicesExist
  <2>3. Made'
    <3>1. AdapterIsUsed' => AdapterIsUsed
      BY <1>6, <1>13 DEF AdapterIsUsed, Passes
    <3>. QED BY <1>1, <1>6, <1>13, <2>2, <3>1 DEF Made, Passes
  <2>4. Late'
    BY <1>1, <1>6, <1>13 DEF Late, DevicesExist, Passes
  <2>5. Early'
    BY <1>1, <1>6, <1>13, <2>2
       DEF Early, FirstTurn, Connects, AnyListed, IfListed, Passes
  <2>. QED BY <2>1, <2>3, <2>4, <2>5
<1>14. Rest
  BY <1>2, <1>8, <1>9, <1>10, <1>11, <1>12, <1>13 DEF MainEffect
<1>. QED BY <1>2, <1>5, <1>14 DEF Inv

\* A thread begins a call: its objects were made, and it was not joined.
LEMMA BeginsInv ==
  ASSUME Inv, NEW t \in Thread \ {"main"}, NEW calls, Begins(t, calls),
         \A steps \in calls : Call(t, steps),
         t \in running \/ (t \in assigned /\ DevicesExist),
         t = "sock" /\ ~connected => calls = {Connects}
  PROVE  Inv'
<1>1. Types /\ Own /\ OthersDo /\ MainDoesRest /\ Made /\ Late /\ Early
  BY DEF Inv
<1>2. /\ todo[t] = <<>>
      /\ UNCHANGED <<exists, global, running, result, owner, listed, connected, stopped,
                     assigned, phase>>
  BY DEF Begins, Idle, data
<1>3. PICK steps \in calls : todo' = [todo EXCEPT ![t] = steps]
  BY DEF Begins
<1>4. /\ DOMAIN todo' = Thread /\ todo'[t] = steps
      /\ \A u \in Thread \ {t} : todo'[u] = todo[u]
  BY <1>1, <1>3 DEF Types
<1>5. \A u : Has(u)' = Has(u)
  BY <1>2 DEF Has
<1>6. \A u \in Thread \ {t} : Idle(u)' = Idle(u)
  BY <1>4 DEF Idle
<1>7. Types' /\ Own'
  BY <1>1, <1>2, <1>4 DEF Types, Own
<1>8. OthersDo'
  <2>. SUFFICES ASSUME NEW u \in Thread \ {"main"} PROVE Leads(u, Has(u), todo[u], {})'
    BY DEF OthersDo
  <2>1. Leads(u, Has(u), todo[u], {}) /\ Has(u)' = Has(u)
    BY <1>1, <1>5 DEF OthersDo
  <2>2. CASE u = t
    <3>1. Has(u) = {}
      BY <1>2, <2>1, <2>2, LeadsFrom
    <3>2. Leads(u, {}, steps, {})
      BY <2>2 DEF Call
    <3>. QED BY <1>4, <2>1, <2>2, <3>1, <3>2
  <2>3. CASE u # t
    BY <1>4, <2>1, <2>3
  <2>. QED BY <2>2, <2>3
<1>9. /\ "sock" \in Thread /\ "ci" \in Thread /\ Card \subseteq Thread \ {"sock", "ci", "main"}
      /\ "main" \in Thread \ {t} /\ Over \subseteq Thread /\ (t \in {"sock", "ci"} \/ t \in Card)
  BY ThreadFacts, MayHave DEF Over
<1>10. MainDoesRest'
  <2>1. PICK e, g, d, f : Leads("main", Now(e, g, d), todo["main"], f) /\ Truth(e, g, d, f)
    BY <1>1 DEF MainDoesRest
  <2>2. Now(e, g, d)' = Now(e, g, d) /\ todo'["main"] = todo["main"]
    BY <1>2, <1>4, <1>5, <1>9 DEF Now
  <2>3. t \notin e
    BY <1>1, <1>9, <2>1, MayHave DEF Truth, Types, Over
  <2>4. e \subseteq Thread \ {t}
    BY <1>9, <2>1, <2>3 DEF Truth
  <2>5. Truth(e, g, d, f)'
    BY <1>2, <1>6, <2>1, <2>4 DEF Truth
  <2>6. Leads("main", Now(e, g, d)', todo'["main"], f)
    BY <2>1, <2>2
  <2>. QED BY <2>5, <2>6 DEF MainDoesRest
<1>11. DevicesExist
  <2>1. PICK e, g, d, f : Truth(e, g, d, f)
    BY <1>1 DEF MainDoesRest
  <2>2. CASE t \in running
    <3>1. t \in Over /\ t \notin e
      BY <1>1, <2>1, <2>2 DEF Types, Truth
    <3>2. phase \in {"starting", "running", "stopping"}
      BY <2>1, <3>1 DEF Truth
    <3>. QED BY <3>2 DEF DevicesExist
  <2>. QED BY <2>2
<1>12. AdapterIsUsed' => AdapterIsUsed
  <2>1. CASE t \in Card
    <3>1. t \in assigned
      BY <1>1, <1>9, <2>1 DEF Types, Over
    <3>. QED BY <3>1 DEF AdapterIsUsed
  <2>2. CASE t = "ci"
    BY <1>1, <1>2, <1>9, <2>2, MayHave DEF AdapterIsUsed, Types
  <2>3. CASE t = "sock"
    <3>1. Idle("ci")' = Idle("ci") /\ \A card \in Card : Idle(card)' = Idle(card)
      BY <1>6, <1>9, <2>3
    <3>. QED BY <1>2, <3>1 DEF AdapterIsUsed
  <2>. QED BY <1>9, <2>1, <2>2, <2>3
<1>13. "sock" \in running \/ ~Idle("sock")' => "sock" \in running \/ ~Idle("sock")
  <2>1. CASE t = "sock"
    BY <1>1, <1>9, <2>1, MayHave DEF Types
  <2>2. CASE t # "sock"
    BY <1>6, <1>9, <2>2
  <2>. QED BY <2>1, <2>2
<1>14. Made'
  BY <1>1, <1>2, <1>11, <1>12, <1>13 DEF Made
<1>15. Late'
  BY <1>2, <1>11 DEF Late, DevicesExist
<1>16. Early'
  <2>. SUFFICES ASSUME "SockHandler" \notin global
                PROVE  ~connected' /\ ~result'["sock"] /\ todo'["sock"] \in FirstTurn
    BY <1>2 DEF Early, FirstTurn, Connects, AnyListed, IfListed
  <2>1. ~connected /\ ~result["sock"] /\ todo["sock"] \in FirstTurn
    BY <1>1, <1>11 DEF Early
  <2>2. CASE t = "sock"
    BY <1>2, <1>4, <2>1, <2>2 DEF FirstTurn
  <2>3. CASE t # "sock"
    BY <1>2, <1>4, <1>9, <2>1, <2>3
  <2>. QED BY <2>2, <2>3
<1>. QED BY <1>7, <1>8, <1>10, <1>14, <1>15, <1>16 DEF Inv

\* VDR assigns a slot: not once the adapter is stopped.
LEMMA TunesInv ==
  ASSUME Inv, NEW card \in Card, Tunes(card)
  PROVE  Inv'
<1>1. Types /\ Own /\ OthersDo /\ MainDoesRest /\ Made /\ Late /\ Early
  BY DEF Inv
<1>2. /\ DevicesExist /\ "sCCIAdapter" \in exists /\ ~stopped
      /\ assigned' = assigned \cup {card}
      /\ UNCHANGED <<exists, global, running, todo, result, owner, listed, connected, stopped,
                     phase>>
  BY DEF Tunes
<1>3. (\A u : Has(u)' = Has(u)) /\ \A u : Idle(u)' = Idle(u)
  BY <1>2 DEF Has, Idle
<1>4. Types' /\ Own'
  BY <1>1, <1>2 DEF Types, Own
<1>5. OthersDo'
  <2>. SUFFICES ASSUME NEW u \in Thread \ {"main"} PROVE Leads(u, Has(u), todo[u], {})'
    BY DEF OthersDo
  <2>1. Leads(u, Has(u), todo[u], {}) /\ Has(u)' = Has(u) /\ todo'[u] = todo[u]
    BY <1>1, <1>2, <1>3 DEF OthersDo
  <2>2. Leads(u, Has(u)', todo'[u], {})
    BY <2>1
  <2>. QED BY <2>2
<1>6. MainDoesRest'
  <2>1. PICK e, g, d, f : Leads("main", Now(e, g, d), todo["main"], f) /\ Truth(e, g, d, f)
    BY <1>1 DEF MainDoesRest
  <2>2. Now(e, g, d)' = Now(e, g, d) /\ todo'["main"] = todo["main"]
    BY <1>2, <1>3 DEF Now
  <2>3. g = {}
    BY <1>2, <2>1 DEF Truth
  <2>4. Truth(e, g, d, f)'
    BY <1>2, <1>3, <2>1, <2>3 DEF Truth
  <2>5. Leads("main", Now(e, g, d)', todo'["main"], f)
    BY <2>1, <2>2
  <2>. QED BY <2>4, <2>5 DEF MainDoesRest
<1>7. Made'
  BY <1>1, <1>2, <1>3 DEF Made
<1>8. Late'
  BY <1>2 DEF Late, DevicesExist
<1>9. Early'
  BY <1>1, <1>2 DEF Early, FirstTurn, Connects, AnyListed, IfListed, DevicesExist
<1>. QED BY <1>4, <1>5, <1>6, <1>7, <1>8, <1>9 DEF Inv

\* VDR stops the plugin: everything is made, and all of Ends lies ahead.
LEMMA StopInv ==
  ASSUME Inv, StopRequested
  PROVE  Inv'
<1>1. Types /\ Own /\ OthersDo /\ MainDoesRest /\ Made /\ Late /\ Early
  BY DEF Inv
<1>2. /\ phase = "running" /\ phase' = "stopping"
      /\ UNCHANGED <<exists, global, running, result, owner, listed, connected, stopped,
                     assigned>>
  BY DEF StopRequested
<1>3. PICK cancelWait \in CancelWait : todo' = [todo EXCEPT !["main"] = Ends(cancelWait)]
  BY DEF StopRequested
<1>4. "main" \in Thread /\ "sock" \in Thread /\ "sock" # "main"
  BY ThreadFacts
<1>5. /\ DOMAIN todo' = Thread /\ todo'["main"] = Ends(cancelWait)
      /\ \A u \in Thread \ {"main"} : todo'[u] = todo[u]
  BY <1>1, <1>3, <1>4 DEF Types
<1>6. \A u : Has(u)' = Has(u)
  BY <1>2 DEF Has
<1>7. Types' /\ Own'
  BY <1>1, <1>2, <1>5 DEF Types, Own
<1>8. OthersDo'
  <2>. SUFFICES ASSUME NEW u \in Thread \ {"main"} PROVE Leads(u, Has(u), todo[u], {})'
    BY DEF OthersDo
  <2>1. Leads(u, Has(u), todo[u], {}) /\ Has(u)' = Has(u) /\ todo'[u] = todo[u]
    BY <1>1, <1>5, <1>6 DEF OthersDo
  <2>2. Leads(u, Has(u)', todo'[u], {})
    BY <2>1
  <2>. QED BY <2>2
<1>9. PICK e, g, d, f : Leads("main", Now(e, g, d), todo["main"], f) /\ Truth(e, g, d, f)
  BY <1>1 DEF MainDoesRest
<1>10. Now(e, g, d) = Running
  <2>1. Now(e, g, d).phase = "running"
    BY <1>2 DEF Now, State
  <2>2. ~Busy("main", Now(e, g, d))
    BY <2>1 DEF Busy
  <2>3. f = Running
    BY <1>2, <1>9 DEF Truth
  <2>. QED BY <1>9, <2>2, <2>3, LeadsFrom
<1>11. Has("main") = {} /\ exists = Object /\ global = Object /\ running = Over
  <2>1. /\ Now(e, g, d).held = Has("main") /\ Now(e, g, d).exists = exists
        /\ Now(e, g, d).global = global /\ Now(e, g, d).running = running
    BY DEF Now, State
  <2>2. /\ Running.held = {} /\ Running.exists = Object
        /\ Running.global = Object /\ Running.running = Over
    BY DEF Running, State
  <2>. QED BY <1>10, <2>1, <2>2
<1>12. MainDoesRest'
  <2>1. PICK n : Leads("main", Stops, Ends(cancelWait), n)
    BY MainEnds
  <2>2. Now({}, {}, {})' = Stops
    <3>1. Has("main")' = {} /\ exists' = Object /\ global' = Object /\ running' = Over
      BY <1>2, <1>6, <1>11
    <3>. QED BY <1>2, <3>1 DEF Now, Stops
  <2>3. Truth({}, {}, {}, n)'
    BY <1>2 DEF Truth
  <2>4. Leads("main", Now({}, {}, {})', todo'["main"], n)
    BY <1>5, <2>1, <2>2
  <2>. QED BY <2>3, <2>4 DEF MainDoesRest
<1>13. \A u \in Thread \ {"main"} : Idle(u)' = Idle(u)
  BY <1>5 DEF Idle
<1>14. /\ Idle("sock")' = Idle("sock") /\ Idle("ci")' = Idle("ci")
       /\ \A card \in Card : Idle(card)' = Idle(card)
  BY <1>13, ThreadFacts, MayHave
<1>15. AdapterIsUsed' => AdapterIsUsed
  BY <1>2, <1>14 DEF AdapterIsUsed
<1>16. Made'
  BY <1>1, <1>2, <1>14, <1>15 DEF Made, DevicesExist
<1>17. Late'
  BY <1>2 DEF Late, DevicesExist
<1>18. Early'
  BY <1>2, <1>11 DEF Early, Object
<1>. QED BY <1>7, <1>8, <1>12, <1>16, <1>17, <1>18 DEF Inv

\* And so each step keeps the invariant.
LEMMA NextInv == Inv /\ [Next]_vars => Inv'
<1>. SUFFICES ASSUME Inv, [Next]_vars PROVE Inv'
  OBVIOUS
<1>1. "sock" \in Thread \ {"main"} /\ "ci" \in Thread \ {"main"} /\ Card \subseteq Thread \ {"main"}
  BY ThreadFacts, MayHave
<1>2. ASSUME SocketTurn PROVE Inv'
  <2>. DEFINE calls == IF connected THEN HandleMessage \cup {CloseConnection} ELSE {Connects}
  <2>1. "sock" \in running /\ Begins("sock", calls)
    BY <1>2 DEF SocketTurn
  <2>2. \A steps \in calls : Call("sock", steps)
    BY SocketCalls
  <2>3. ~connected => calls = {Connects}
    OBVIOUS
  <2>. HIDE DEF calls
  <2>. QED BY <1>1, <2>1, <2>2, <2>3, BeginsInv
<1>3. ASSUME CiTurn PROVE Inv'
  <2>1. "ci" \in running /\ Begins("ci", CiCalls)
    BY <1>3 DEF CiTurn
  <2>. QED BY <1>1, <2>1, AdapterCalls, BeginsInv
<1>4. ASSUME NEW card \in Card, Receives(card) PROVE Inv'
  <2>. DEFINE calls == {Analyze, Decrypt(card)}
  <2>1. DevicesExist /\ card \in assigned /\ Begins(card, calls)
    BY <1>4 DEF Receives
  <2>2. \A steps \in calls : Call(card, steps)
    BY ReceiverCalls
  <2>3. card # "sock"
    BY MayHave
  <2>. HIDE DEF calls
  <2>. QED BY <1>1, <2>1, <2>2, <2>3, BeginsInv
<1>5. ASSUME NEW t \in Thread, Runs(t) PROVE Inv'
  <2>1. CASE t = "main"
    <3>1. Runs("main")
      BY <1>5, <2>1
    <3>. QED BY <3>1, MainInv
  <2>2. CASE t # "main"
    BY <1>5, <2>2, OthersInv
  <2>. QED BY <2>1, <2>2
<1>6. ASSUME UNCHANGED vars PROVE Inv'
  <2>1. UNCHANGED <<exists, global, running, todo, result, owner, listed, connected, stopped,
                    assigned, phase>>
    BY <1>6 DEF vars, data
  <2>2. (\A u : Has(u)' = Has(u)) /\ \A u : Idle(u)' = Idle(u)
    BY <2>1 DEF Has, Idle
  <2>3. Types /\ Own /\ OthersDo /\ MainDoesRest /\ Made /\ Late /\ Early
    BY DEF Inv
  <2>4. Types' /\ Own' /\ Made' /\ Late'
    BY <2>1, <2>2, <2>3 DEF Types, Own, Made, AdapterIsUsed, Late, DevicesExist
  <2>5. Early'
    BY <2>1, <2>3 DEF Early, FirstTurn, Connects, AnyListed, IfListed, DevicesExist
  <2>6. OthersDo'
    <3>. SUFFICES ASSUME NEW u \in Thread \ {"main"} PROVE Leads(u, Has(u), todo[u], {})'
      BY DEF OthersDo
    <3>1. Leads(u, Has(u), todo[u], {}) /\ Has(u)' = Has(u) /\ todo'[u] = todo[u]
      BY <2>1, <2>2, <2>3 DEF OthersDo
    <3>2. Leads(u, Has(u)', todo'[u], {})
      BY <3>1
    <3>. QED BY <3>2
  <2>7. MainDoesRest'
    <3>1. PICK e, g, d, f : Leads("main", Now(e, g, d), todo["main"], f) /\ Truth(e, g, d, f)
      BY <2>3 DEF MainDoesRest
    <3>2. Now(e, g, d)' = Now(e, g, d) /\ todo'["main"] = todo["main"]
      BY <2>1, <2>2 DEF Now
    <3>3. Truth(e, g, d, f)'
      BY <2>1, <2>2, <3>1 DEF Truth
    <3>4. Leads("main", Now(e, g, d)', todo'["main"], f)
      BY <3>1, <3>2
    <3>. QED BY <3>3, <3>4 DEF MainDoesRest
  <2>. QED BY <2>4, <2>5, <2>6, <2>7 DEF Inv
<1>. QED BY <1>2, <1>3, <1>4, <1>5, <1>6, TunesInv, StopInv DEF Next, Ended

\* What each thread has still to do fits the mutexes it has and the objects
\* as they are, always.
THEOREM LifeInvariant == Spec => []Inv
<1>. QED BY InitInv, NextInv, PTL DEF Spec
-----------------------------------------------------------------------------
(***************************************************************************)
(* What follows from it.                                                   *)
(***************************************************************************)
LEMMA Homes ==
  \A t \in Thread \ {"main"} : \A x \in MayHold(t) \cup MayUse(t) :
    /\ x \in Mutex /\ Level(x) \in 0 .. 4 /\ x[1] # "slot"
    /\ Home[x[1]] \in Object /\ (t = "sock" => Home[x[1]] \in Base \cup {"SockHandler"})
    /\ x \in MayHold(t) /\ x[1] \in OfCard => x[2] = t
<1>. SUFFICES ASSUME NEW t \in Thread \ {"main"}, NEW x \in MayHold(t) \cup MayUse(t)
              PROVE  /\ x \in Mutex /\ Level(x) \in 0 .. 4 /\ x[1] # "slot"
                     /\ Home[x[1]] \in Object
                     /\ t = "sock" => Home[x[1]] \in Base \cup {"SockHandler"}
                     /\ x \in MayHold(t) /\ x[1] \in OfCard => x[2] = t
  OBVIOUS
<1>1. x \in Mutex
  BY ThreadFacts
<1>2. CASE t = "sock"
  <2>1. x[1] \in {"decsa", "filter", "capmt", "sock"} \/ (x[1] = "adapter" /\ x \notin MayHold(t))
    BY <1>2 DEF MayHold, MayUse
  <2>. QED BY <1>1, <1>2, <2>1 DEF Level, Rank, Home, Object, Base, OfCard
<1>3. CASE t = "ci"
  <2>1. x[1] \in {"ci", "capmt", "sock"} \/ (x[1] = "adapter" /\ x \notin MayHold(t))
    BY <1>3 DEF MayHold, MayUse
  <2>. QED BY <1>1, <1>3, <2>1 DEF Level, Rank, Home, Object, OfCard
<1>4. CASE t \notin {"sock", "ci"}
  <2>1. x[1] \in {"filter", "capmt", "sock"} \/ (x[1] \in OfCard /\ x[2] = t)
    BY <1>4 DEF MayHold, MayUse
  <2>. QED BY <1>1, <1>4, <2>1 DEF Level, Rank, Home, Object, OfCard
<1>. QED BY <1>2, <1>3, <1>4

\* The objects a step may use.
Usable == exists \cap (global \cup {"sCCIAdapter"})

\* What is known of the next step of a thread.
LEMMA OthersNext ==
  ASSUME Inv, NEW t \in Thread \ {"main"}
  PROVE  /\ At(t, "lock") => Arg(t) \in MayHold(t) /\ Above(Has(t), Arg(t))
         /\ At(t, "unlock") => Arg(t) \in MayHold(t)
         /\ At(t, "within") => Arg(t)[1] \in MayUse(t) /\ Above(Has(t), Arg(t)[1])
         /\ ~At(t, "join") /\ ~At(t, "delete")
<1>1. CASE Idle(t)
  BY <1>1 DEF At
<1>2. CASE ~Idle(t)
  <2>. DEFINE step == Head(todo[t])
  <2>1. Leads(t, Has(t), todo[t], {}) /\ todo[t] # <<>>
    BY <1>2 DEF Inv, OthersDo, Idle
  <2>2. CASE IsBranch(step)
    BY <2>2 DEF IsBranch, At
  <2>3. CASE ~IsBranch(step)
    <3>1. PICK k : Does(t, Has(t), step, k)
      BY <2>1, <2>3, LeadsFrom
    <3>2. ThreadDoes(t, Has(t), step, k)
      BY <3>1 DEF Does
    <3>3. Has(t) \subseteq MayHold(t)
      BY DEF Inv, Own, Has
    <3>. QED BY <3>2, <3>3 DEF ThreadDoes, At, Arg
  <2>. QED BY <2>2, <2>3
<1>. QED BY <1>1, <1>2

\* The same of the main thread.
LEMMA MainNext ==
  ASSUME Inv
  PROVE  /\ At("main", "lock") => /\ Arg("main") \in Mutex \ Has("main")
                                  /\ Home[Arg("main")[1]] \in Usable
         /\ At("main", "unlock") => Home[Arg("main")[1]] \in Usable
         /\ At("main", "within") => /\ Arg("main")[1] \in Mutex \ Has("main")
                                    /\ Home[Arg("main")[1][1]] \in Usable
         /\ At("main", "join") => Arg("main") \in Over
<1>1. CASE Idle("main")
  BY <1>1 DEF At
<1>2. CASE ~Idle("main")
  <2>. DEFINE step == Head(todo["main"])
  <2>1. PICK e, g, d, f : Leads("main", Now(e, g, d), todo["main"], f)
    BY DEF Inv, MainDoesRest
  <2>2. todo["main"] # <<>>
    BY <1>2 DEF Idle
  <2>3. CASE IsBranch(step)
    BY <2>3 DEF IsBranch, At
  <2>4. CASE ~IsBranch(step)
    <3>. DEFINE m == Now(e, g, d)
    <3>1. m.held = Has("main") /\ m.exists = exists /\ m.global = global
      BY DEF Now, State
    <3>2. Leads("main", m, todo["main"], f)
      BY <2>1
    <3>. HIDE DEF m
    <3>3. PICK k : MainDoes(m, step, k)
      BY <2>2, <2>4, <3>2, LeadsFrom DEF Does
    <3>4. \A o : Alive(m, o) => o \in Usable
      BY <3>1 DEF Alive, Usable
    <3>5. \A x : Above(m.held, x) => x \notin Has("main")
      BY <3>1 DEF Above
    <3>6. MayHold("main") \subseteq Mutex
      BY ThreadFacts
    <3>7. At("main", "lock") => /\ Arg("main") \in Mutex \ Has("main")
                                /\ Home[Arg("main")[1]] \in Usable
      BY <3>3, <3>4, <3>5, <3>6 DEF MainDoes, At, Arg
    <3>8. At("main", "unlock") => Home[Arg("main")[1]] \in Usable
      BY <3>3, <3>4 DEF MainDoes, At, Arg
    <3>9. At("main", "within") =>
            /\ Arg("main")[1] \in Mutex \ Has("main")
            /\ Home[Arg("main")[1][1]] \in Usable
      BY <3>3, <3>4, <3>5 DEF MainDoes, At, Arg
    <3>10. At("main", "join") => Arg("main") \in Over
      BY <3>3 DEF MainDoes, At, Arg
    <3>. QED BY <3>7, <3>8, <3>9, <3>10
  <2>. QED BY <2>3, <2>4
<1>. QED BY <1>1, <1>2

\* While a thread has something to do, what it may need is there.
LEMMA OthersAlive ==
  ASSUME Inv, NEW t \in Thread \ {"main"}, ~Idle(t)
  PROVE  /\ DevicesExist /\ Base \subseteq exists \cap global /\ "SockHandler" \in exists
         /\ t # "sock" => Object \subseteq Usable
<1>1. MainDoesRest /\ Made /\ Late
  BY DEF Inv
<1>2. PICK e, g, d, f : Truth(e, g, d, f)
  BY <1>1 DEF MainDoesRest
<1>3. t \in {"sock", "ci"} \cup Card
  BY ThreadFacts
<1>4. DevicesExist
  <2>1. CASE t \in Card
    BY <1>1, <2>1 DEF Late
  <2>2. CASE t \in Over
    <3>1. t \notin e
      BY <1>2 DEF Truth
    <3>. QED BY <1>2, <2>2, <3>1 DEF Truth, DevicesExist
  <2>. QED BY <1>3, <2>1, <2>2 DEF Over
<1>5. t # "sock" => AdapterIsUsed
  BY <1>3 DEF AdapterIsUsed
<1>6. t = "sock" => "SockHandler" \in exists
  BY <1>1, <1>4 DEF Made
<1>. QED BY <1>1, <1>4, <1>5, <1>6 DEF Made, Base, Object, Usable

\* The invariant leaves no thread at an object that is gone.
LEMMA InvNoUseAfterFree == Inv => NoUseAfterFree
<1>. SUFFICES ASSUME Inv, NEW t \in Thread
              PROVE  Touched(t) \subseteq Usable
  BY DEF NoUseAfterFree, Usable
<1>1. CASE t = "main"
  BY <1>1, MainNext DEF Touched
<1>2. CASE t # "main" /\ Idle(t)
  BY <1>2 DEF Touched, At
<1>3. CASE t # "main" /\ ~Idle(t)
  <2>1. /\ DevicesExist /\ Base \subseteq exists \cap global /\ "SockHandler" \in exists
        /\ t # "sock" => Object \subseteq Usable
    BY <1>3, OthersAlive
  <2>2. \A o \in Touched(t) : o \in Object /\ (t = "sock" => o \in Base \cup {"SockHandler"})
    <3>1. /\ At(t, "lock") \/ At(t, "unlock") => Arg(t) \in MayHold(t)
          /\ At(t, "within") => Arg(t)[1] \in MayUse(t)
      BY <1>3, OthersNext
    <3>2. \A x \in MayHold(t) \cup MayUse(t) :
            Home[x[1]] \in Object /\ (t = "sock" => Home[x[1]] \in Base \cup {"SockHandler"})
      BY <1>3, Homes
    <3>. QED BY <3>1, <3>2 DEF Touched
  <2>3. CASE t # "sock"
    BY <2>1, <2>2, <2>3
  <2>4. CASE t = "sock" /\ "SockHandler" \in global
    BY <2>1, <2>2, <2>4 DEF Usable
  <2>5. CASE t = "sock" /\ "SockHandler" \notin global
    <3>. DEFINE step == Head(todo["sock"])
                first == IfSet("capmt", <<AnyListed, IfListed>>)
    <3>1. todo["sock"] \in FirstTurn /\ todo["sock"] # <<>>
      BY <1>3, <2>1, <2>5 DEF Inv, Early, Idle
    <3>2. step \in {first, AnyListed, IfListed}
      BY <3>1 DEF FirstTurn, Connects, AnyListed, IfListed
    <3>3. first[1] = "if_set" /\ AnyListed[1] = "within" /\ AnyListed[2][1] = <<"capmt", "plugin">>
      BY DEF IfSet, AnyListed, Within
    <3>4. IfListed[1] = "if_so"
      <4>1. \A steps : IfSo(steps)[1] = "if_so"
        BY DEF IfSo
      <4>. QED BY <4>1 DEF IfListed
    <3>. HIDE DEF first
    <3>5. step[1] \in {"if_set", "if_so"} \/ (step[1] = "within" /\ step[2][1][1] = "capmt")
      BY <3>2, <3>3, <3>4
    <3>6. Touched("sock") \subseteq {"capmt"}
      BY <3>5 DEF Touched, At, Arg, Home
    <3>. QED BY <2>1, <2>5, <3>6 DEF Base, Usable
  <2>. QED BY <2>3, <2>4, <2>5
<1>. QED BY <1>1, <1>2, <1>3

\* The mutex a thread waits for.
Wanted(t) == IF At(t, "lock") THEN Arg(t) ELSE Arg(t)[1]

\* A thread waits for a mutex above those it has, and never for the main thread.
LEMMA WaitsInOrder ==
  ASSUME Inv, NEW t \in Thread \ {"main"}, NEW u, WaitsFor(t, u)
  PROVE  /\ Wanted(t) \in MayHold(t) \cup MayUse(t) /\ owner[Wanted(t)] = u
         /\ Above(Has(t), Wanted(t)) /\ u # "main"
<1>1. Wanted(t) \in MayHold(t) \cup MayUse(t) /\ owner[Wanted(t)] = u /\ Above(Has(t), Wanted(t))
  BY OthersNext DEF WaitsFor, Wanted, At
<1>2. Wanted(t) \in Mutex /\ Wanted(t)[1] # "slot"
  BY <1>1, Homes
<1>3. u # "main"
  <2>. SUFFICES ASSUME u = "main" PROVE FALSE
    OBVIOUS
  <2>1. Wanted(t) \in MayHold("main")
    BY <1>1, <1>2, ThreadFacts DEF Inv, Own
  <2>. QED BY <1>2, <2>1 DEF MayHold
<1>. QED BY <1>1, <1>3

\* In a circle the levels would rise for ever.
LEMMA InvNoCyclicWait == Inv => NoCyclicWait
<1>. SUFFICES ASSUME Inv, NEW S \in SUBSET Thread, S # {},
                     \A t \in S : \E u \in S : WaitsFor(t, u)
              PROVE  FALSE
  BY DEF NoCyclicWait
<1>. DEFINE T == S \ {"main"}
<1>1. T # {}
  <2>. SUFFICES ASSUME S = {"main"} PROVE FALSE
    OBVIOUS
  <2>1. WaitsFor("main", "main")
    OBVIOUS
  <2>2. At("main", "delete") => "main" \in Receivers
    BY <2>1 DEF WaitsFor, At
  <2>3. "main" \notin Card /\ "main" \notin Over
    BY MayHave DEF Over
  <2>. QED BY <2>1, <2>3, MainNext DEF WaitsFor, Has, Receivers
<1>2. \A t \in T : \E u \in T : WaitsFor(t, u)
  BY WaitsInOrder
<1>3. \A t \in T : /\ Wanted(t) \in Mutex /\ Level(Wanted(t)) \in 0 .. 4
                   /\ owner[Wanted(t)] \in T /\ Above(Has(t), Wanted(t))
  BY <1>2, WaitsInOrder, Homes
<1>4. ASSUME NEW t \in T
      PROVE  Level(Wanted(t)) < Level(Wanted(owner[Wanted(t)]))
  <2>. DEFINE x == Wanted(t)
              u == owner[x]
              y == Wanted(u)
  <2>1. u \in T /\ x \in Has(u) /\ Above(Has(u), y)
    BY <1>3 DEF Has
  <2>2. CASE x[1] \in OfCard /\ y[1] \in OfCard /\ x[2] = y[2]
    <3>1. owner[y] \in T /\ y \in Has(owner[y])
      BY <1>3, <2>1 DEF Has
    <3>2. \A v \in T : Has(v) \subseteq MayHold(v)
      BY DEF Inv, Own, Has
    <3>3. x[2] = u /\ y[2] = owner[y]
      BY <2>1, <2>2, <3>1, <3>2, Homes
    <3>4. y \in Has(u)
      BY <2>2, <3>1, <3>3
    <3>. QED BY <2>1, <3>4 DEF Above
  <2>. QED BY <2>1, <2>2 DEF Above
<1>5. PICK n \in {4 - Level(Wanted(t)) : t \in T} : \A k \in {4 - Level(Wanted(t)) : t \in T} : n <= k
  <2>. DEFINE N == {4 - Level(Wanted(t)) : t \in T}
  <2>1. N \in SUBSET Nat /\ N # {}
    BY <1>1, <1>3
  <2>. HIDE DEF N
  <2>2. \E n \in N : \A k \in N : n <= k
    BY <2>1, LeastNumber
  <2>. QED BY <2>2 DEF N
<1>6. PICK t \in T : n = 4 - Level(Wanted(t))
  BY <1>5
<1>7. Level(Wanted(t)) < Level(Wanted(owner[Wanted(t)])) /\ owner[Wanted(t)] \in T
  BY <1>3, <1>4
<1>8. n <= 4 - Level(Wanted(owner[Wanted(t)]))
  BY <1>5, <1>7
<1>. QED BY <1>3, <1>6, <1>7, <1>8

\* What the main thread found true when it stopped stays true.
LEMMA InvAfterStop == Inv => NoSlotKeepsDevice /\ QuietAfterStop
<1>. SUFFICES ASSUME Inv PROVE NoSlotKeepsDevice /\ QuietAfterStop
  OBVIOUS
<1>1. NoSlotKeepsDevice
  BY DEF Inv, Late, NoSlotKeepsDevice
<1>2. PICK e, g, d, f : Truth(e, g, d, f)
  BY DEF Inv, MainDoesRest
<1>3. QuietAfterStop
  BY <1>2 DEF Truth, QuietAfterStop, Over
<1>. QED BY <1>1, <1>3

\* No thread is ever about to use, or inside, an object that is not made yet
\* or already deleted (DVBAPI::Start, Stop and the destructor, against the
\* threads of SocketHandler, SCCIAdapter and the devices), for any cards.
THEOREM ObjectsOutliveThreads == Spec => []NoUseAfterFree
<1>. QED BY LifeInvariant, InvNoUseAfterFree, PTL

\* The threads never wait for one another in a circle, over any number of
\* mutexes: they take them in the order of Rank, and none waits for the main
\* thread, which waits for the end of the others with no mutex but a slot's.
THEOREM NeverInACircle == Spec => []NoCyclicWait
<1>. QED BY LifeInvariant, InvNoCyclicWait, PTL

\* When VDR deletes its devices no CAM slot is assigned to one of them,
\* whatever VDR tuned while SCCIAdapter::Stop went through the slots.
THEOREM DevicesAreReleased == Spec => []NoSlotKeepsDevice
<1>. QED BY LifeInvariant, InvAfterStop, PTL

\* After DVBAPI::Stop both threads are idle and the connection is closed, and
\* that stays so.
THEOREM StopsForGood == Spec => []QuietAfterStop
<1>. QED BY LifeInvariant, InvAfterStop, PTL

=============================================================================
