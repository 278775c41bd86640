---------------------------- MODULE MCWritePipeline ----------------------------
(* One device with two accounts on a small write pipeline. *)
EXTENDS MutationQueue
CONSTANTS ann, bob
BothUsers == {ann, bob}
===============================================================================
