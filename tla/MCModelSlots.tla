---------------------------- MODULE MCModelSlots ----------------------------
(* Small instances of ModelSlots for TLC. *)
EXTENDS ModelSlots

CONSTANTS a, b, t1, t2, w1, m1, m2, m3

MCSlots == {a, b}
OneSlot == {a}
MCQwen3 == {a}
TwoThreads == {t1, t2}
OneWorker == {w1}
TwoModels == {m1, m2}
ThreeModels == {m1, m2, m3}

StreamUnloadOps == {"load", "unload", "stream"}
EveryOp == AllOps
=============================================================================
