------------------------------- MODULE MCExplore -------------------------------
(***************************************************************************)
(* An instance of Explore for TLC.                                         *)
(***************************************************************************)
EXTENDS Explore, TLC

CONSTANTS laptop, trip

\* A SuShare under each of two tags.
OneEach == laptop :> "technology" @@ trip :> "travel"

\* A query that finds one of them.
FindsTrip == "blue" :> {trip}
===============================================================================
