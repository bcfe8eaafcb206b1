----------------------------- MODULE MCLibrary -----------------------------
(***************************************************************************)
(* Small instances of the two libraries under clips_dir.  They share no    *)
(* files, so that a behaviour follows one of them; one of the voices does  *)
(* not both shape them and extract them.                                   *)
(***************************************************************************)
EXTENDS ClipStore, VoiceStore, TLC

CONSTANTS t1, t2, moss, sfx, v1, v2

VARIABLE library

TwoThreads == {t1, t2}
TwoSlots == {moss, sfx}
OneRating == {5}
OneScore == {8}
TwoVoices == {v1, v2}
TwoShapes == {1, 2}
Sym == Permutations(Threads) \cup Permutations(Slots) \cup Permutations(Voices)

LibraryInit == library \in {"clips", "voices", "sidecars"} /\ Init /\ VoiceInit

\* Bound: a behaviour that shapes voices extracts none from a reference, whose
\* counter and files are nothing to a sidecar.
LibraryNext ==
    /\ UNCHANGED library
    /\ \/ library = "clips" /\ Next /\ UNCHANGED voiceVars
       \/ library = "voices" /\ VoiceNext /\ UNCHANGED <<shape, vars>>
       \/ library = "sidecars" /\ VoiceNext /\ At("draw")' = {} /\ UNCHANGED vars

LibrarySpec == LibraryInit /\ [][LibraryNext]_<<library, vars, voiceVars>>

\* The inductive invariants of the two libraries, their types included: a slot
\* is held by one request, a name that is about to be created is none of its
\* own slot's, an undisturbed sidecar has one writer, and a number one
\* reference.
LibraryInv == IInv /\ VoiceInv
=============================================================================
