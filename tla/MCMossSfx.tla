----------------------------- MODULE MCMossSfx -----------------------------
(* A small instance of MossSfx for TLC. *)
EXTENDS MossSfx

TwoLengths == {5, 9}
=============================================================================
