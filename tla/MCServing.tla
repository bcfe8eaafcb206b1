----------------------------- MODULE MCServing -----------------------------
(* A small instance of Serving for TLC. *)
EXTENDS Serving

CONSTANTS stream, r2, r3

ThreeRequests == {stream, r2, r3}
TwoRequests == {stream, r2}
=============================================================================
