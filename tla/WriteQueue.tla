------------------------------ MODULE WriteQueue ------------------------------
(***************************************************************************)
(* What the Firestore SDK of a device promises about its queued writes.    *)
(*                                                                         *)
(* Every user who signs in on the device has a queue of writes on disk.    *)
(* The writes of the user who is signed in reach the server in queue order *)
(* and are answered in queue order.  The server may be ahead of the        *)
(* answers: "reached" counts the writes it has applied over the present    *)
(* connection whose answers are still on their way.  When the connection   *)
(* is lost those answers are lost with it, and the same writes are sent    *)
(* and applied again.  A write leaves its queue when it is answered, and   *)
(* its completion handler is told once: never, if the app was killed.      *)
(***************************************************************************)
EXTENDS Naturals, Sequences

CONSTANTS
  Users,     \* who signs in on the device
  MaxWrites  \* bound: writes issued, which are numbered in the order of issue

Writes == 1..MaxWrites
Tales  == {"unissued", "waiting", "ok", "error", "lost"}

VARIABLES
  queue,    \* per user, the writes without an answer, oldest first
  current,  \* the user whose queue is being sent
  reached,  \* writes of the current queue applied, and not answered, by now
  stored,   \* writes the server has applied, once or more
  told      \* what the completion handler of each write was told

vars == <<queue, current, reached, stored, told>>

TypeOK ==
  /\ queue   \in [Users -> Seq(Writes)]
  /\ current \in Users
  /\ reached \in Nat
  /\ stored  \in SUBSET Writes
  /\ told    \in [Writes -> Tales]

Init ==
  /\ queue = [u \in Users |-> <<>>]
  /\ current \in Users
  /\ reached = 0
  /\ stored = {}
  /\ told = [w \in Writes |-> "unissued"]

\* A waiting handler is told how its write ended.
Tell(w, end) ==
  told' = [told EXCEPT ![w] = IF @ = "waiting" THEN end ELSE @]

Issue(w) ==
  /\ told[w] = "unissued"
  /\ \A v \in 1..(w - 1) : told[v] # "unissued"
  /\ queue' = [queue EXCEPT ![current] = Append(@, w)]
  /\ told' = [told EXCEPT ![w] = "waiting"]
  /\ UNCHANGED <<current, reached, stored>>

Apply ==
  /\ reached < Len(queue[current])
  /\ reached' = reached + 1
  /\ stored' = stored \cup {queue[current][reached + 1]}
  /\ UNCHANGED <<queue, current, told>>

Acknowledge ==
  /\ reached > 0
  /\ reached' = reached - 1
  /\ queue' = [queue EXCEPT ![current] = Tail(@)]
  /\ Tell(Head(queue[current]), "ok")
  /\ UNCHANGED <<current, stored>>

\* The oldest write is given up as refused, with the connection.
Refuse ==
  /\ queue[current] # <<>>
  /\ reached' = 0
  /\ queue' = [queue EXCEPT ![current] = Tail(@)]
  /\ Tell(Head(queue[current]), "error")
  /\ UNCHANGED <<current, stored>>

\* Answers are lost with their connection.
Disconnect ==
  /\ reached' \in 0..reached
  /\ UNCHANGED <<queue, current, stored, told>>

SwitchUser ==
  /\ current' \in Users
  /\ reached' = 0
  /\ UNCHANGED <<queue, stored, told>>

Kill ==
  /\ current' \in Users
  /\ reached' = 0
  /\ told' = [w \in Writes |-> IF told[w] = "waiting" THEN "lost" ELSE told[w]]
  /\ UNCHANGED <<queue, stored>>

Next ==
  \/ \E w \in Writes : Issue(w)
  \/ Apply \/ Acknowledge \/ Refuse \/ Disconnect \/ SwitchUser \/ Kill

Spec == Init /\ [][Next]_vars
===============================================================================
