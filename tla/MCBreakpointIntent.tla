-------------------------- MODULE MCBreakpointIntent --------------------------
(***************************************************************************)
(* BreakpointIntent for TLC, with the inductive invariant at hand.         *)
(***************************************************************************)
EXTENDS BreakpointIntentInvariant

CONSTANTS t1, t2, d1, d2

\* Two debuggers at a time, and two in turn for one of the targets.
MCHosts == {<<t1, d1>>, <<t1, d2>>, <<t2, d2>>}

\* What a client asks for changes for one target and stays for the other.
MCSelected == {{t1, t2}, {t2}}
===============================================================================
