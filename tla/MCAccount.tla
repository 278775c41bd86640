------------------------------- MODULE MCAccount -------------------------------
(***************************************************************************)
(* An instance of Account for TLC.                                         *)
(***************************************************************************)
EXTENDS Account

CONSTANTS ana, ben
===============================================================================
