------------------------------- MODULE MCCgi -------------------------------
(* An instance of Cgi for TLC: two threads. *)
EXTENDS Cgi

CONSTANTS t1, t2
=============================================================================
