--------------------------- MODULE MCManagedModel ---------------------------
(* Small instances of ManagedModel for TLC. *)
EXTENDS ManagedModel, TLC

CONSTANTS m1, m2, m3, moss, qwen3, s1, s2, s3, s4

TwoManaged == {m1, m2}
ThreeManaged == {m1, m2, m3}
TwoKeys == {moss, qwen3}
ThreeSessions == {s1, s2, s3}
FourSessions == {s1, s2, s3, s4}
Sym == Permutations(Managed) \cup Permutations(Keys) \cup Permutations(Sessions)
=============================================================================
