------------------------------- MODULE MCTask -------------------------------
(***************************************************************************)
(* One worker thread and one client with two different works.              *)
(***************************************************************************)
EXTENDS Task

CONSTANTS w1, w2
=============================================================================
