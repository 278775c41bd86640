---------------------------- MODULE RosterRegister ----------------------------
(***************************************************************************)
(* What the backend promises about usersInTheSuShare, and all it promises: *)
(* each SuShare is a register that holds one of the lists proposed for it. *)
(* A list is proposed by founding the SuShare with a one-member list, or   *)
(* by adding one member at the end of a list proposed before, current or   *)
(* not.  Any proposal, however old, may become the value at any time.      *)
(***************************************************************************)
EXTENDS Sequences

CONSTANTS Users, SuShares

VARIABLES
  roster,    \* the list stored for each SuShare, <<>> before it is stored
  proposed   \* the lists proposed so far for each SuShare

vars == <<roster, proposed>>

Init ==
  /\ roster   = [d \in SuShares |-> <<>>]
  /\ proposed = [d \in SuShares |-> {}]

\* A user founds the SuShare.
Found(d, u) ==
  /\ proposed[d] = {}
  /\ proposed' = [proposed EXCEPT ![d] = {<<u>>}]
  /\ UNCHANGED roster

\* A user adds a member to a list they have seen.
Propose(d, u) ==
  /\ \E users \in proposed[d] :
       proposed' = [proposed EXCEPT ![d] = @ \cup {Append(users, u)}]
  /\ UNCHANGED roster

\* A proposal becomes the stored value.
Settle(d) ==
  /\ \E users \in proposed[d] : roster' = [roster EXCEPT ![d] = users]
  /\ UNCHANGED proposed

Next ==
  \E d \in SuShares :
    Settle(d) \/ \E u \in Users : Found(d, u) \/ Propose(d, u)

Spec == Init /\ [][Next]_vars
===============================================================================
