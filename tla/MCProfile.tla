------------------------------- MODULE MCProfile -------------------------------
(***************************************************************************)
(* An instance of Profile for TLC.                                         *)
(***************************************************************************)
EXTENDS Profile

CONSTANTS laptop
===============================================================================
