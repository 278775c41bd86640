------------------------------ MODULE MCCheckout ------------------------------
(***************************************************************************)
(* An instance of Checkout for TLC.                                        *)
(***************************************************************************)
EXTENDS Checkout

CONSTANTS visa, debit
===============================================================================
