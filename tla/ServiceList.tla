---------------------------- MODULE ServiceList ----------------------------
(***************************************************************************)
(* What the link to OSCam promises about the service list, whatever the    *)
(* threads, the locks and the connection do.                               *)
(*                                                                         *)
(* "asked" is the history of the lists the plugin wanted decrypted, the    *)
(* last one being the current one.  "have" is the list OSCam works with:   *)
(* nothing, or a list that was asked for.  It never goes back to an older  *)
(* list than one it had, and it never mixes two lists.  The one exception  *)
(* is the start of a connection, when OSCam may have the tail of a list    *)
(* until it got a whole one.                                               *)
(***************************************************************************)
EXTENDS Integers, Sequences

CONSTANT Lists      \* the lists the plugin may ask for

VARIABLES
  asked,    \* every list asked for, oldest first
  have,     \* the list OSCam works with
  seen,     \* the index in asked of the newest list OSCam had
  whole     \* whether OSCam got a whole list since it was (re)connected

slvars == <<asked, have, seen, whole>>

Init == asked = << <<>> >> /\ have = <<>> /\ seen = 1 /\ whole = FALSE

\* The tails of a list, the list itself first.
TailFrom(list, k) == SubSeq(list, k, Len(list))

Ask ==
  /\ Len(asked') = Len(asked) + 1
  /\ asked' = Append(asked, asked'[Len(asked')])
  /\ asked'[Len(asked')] \in Lists
  /\ UNCHANGED <<have, seen, whole>>

Announce ==
  \E v \in seen .. Len(asked) :
    /\ seen' = v
    /\ \/ have' = asked[v] /\ whole' = TRUE
       \/ /\ ~whole /\ whole' = FALSE
          /\ \E k \in DOMAIN asked[v] : have' = TailFrom(asked[v], k)
    /\ UNCHANGED asked

Lose == have' = <<>> /\ whole' = FALSE /\ UNCHANGED <<asked, seen>>

Next == Ask \/ Announce \/ Lose

Spec == Init /\ [][Next]_slvars
=============================================================================
