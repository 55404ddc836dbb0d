---------------------------- MODULE MCCaptureStore ----------------------------
(***************************************************************************)
(* Instances of CaptureStore for TLC.                                      *)
(***************************************************************************)
EXTENDS CaptureStore

CONSTANTS h1, p1, p2, d1

\* A capture of either kind beside a deletion, or two calls that may join in one
\* capture.
MCClients == {{h1, d1}, {p1, d1}, {p1, p2}}

\* Callers ask for a name that may also be generated.
MCRequestedNames == {<<"heap", 1>>}
===============================================================================
