---------------------------- MODULE MCContextStore ----------------------------
(***************************************************************************)
(* ContextStore for TLC: two clients that mutate, or one that mutates and  *)
(* one that observes.                                                      *)
(***************************************************************************)
EXTENDS ContextStore

CONSTANTS q1, q2, o1

MCClients == {{q1, q2}, {q1, o1}}
=============================================================================
