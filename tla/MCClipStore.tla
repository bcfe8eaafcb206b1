----------------------------- MODULE MCClipStore -----------------------------
(* Small instances of ClipStore for TLC. *)
EXTENDS ClipStore, TLC

CONSTANTS t1, t2, moss, sfx

TwoThreads == {t1, t2}
TwoSlots == {moss, sfx}
OneSlot == {moss}
OneRating == {5}
TwoRatings == {1, 5}
OneScore == {8}
Sym == Permutations(Threads) \cup Permutations(Slots)
=============================================================================
