------------------------------- MODULE MCRoster -------------------------------
(***************************************************************************)
(* Instances of Roster for TLC: which uid is signed in where, and how many *)
(* taps each control gets from each user.                                  *)
(***************************************************************************)
EXTENDS Roster, TLC

CONSTANTS ann, bob, annPhone, bobPhone, annTablet

\* Two users with a phone each.
OnePhoneEach == annPhone :> ann @@ bobPhone :> bob

\* One user who is signed in on two devices.
TwoOfAnn == annPhone :> ann @@ annTablet :> ann

Bound(create, open, join, favorite, report) ==
  [t \in Taps |-> CASE t = "create"   -> create
                    [] t = "open"     -> open
                    [] t = "join"     -> join
                    [] t = "favorite" -> favorite
                    [] t = "report"   -> report]

\* Ann creates; both open and join; Bob files a favourite, which either can open.
JoinAndFavorite == ann :> Bound(1, 1, 1, 0, 0) @@ bob :> Bound(0, 1, 1, 1, 0)

\* Two devices of one user, with two taps of "Join" and a report between them.
JoinAndReport == ann :> Bound(1, 1, 2, 0, 1)
===============================================================================
