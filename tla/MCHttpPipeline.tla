---------------------------- MODULE MCHttpPipeline ----------------------------
(* Two tabs of one browser, in which a user signs in, is refreshed, signs   *)
(* out and expires.                                                        *)
EXTENDS HttpPipeline

CONSTANTS c1, p1, p2

MCHome == [p \in {p1, p2} |-> c1]
MCNonces == 1..5
=============================================================================
