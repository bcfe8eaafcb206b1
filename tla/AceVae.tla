------------------------------- MODULE AceVae -------------------------------
(***************************************************************************)
(* The decoder of ACE-Step's autoencoder (models/ace_step/vae_runner.cpp)  *)
(* on a clip of any length: a long one is cut into tiles that overlap,     *)
(* each is decoded on a fast path or, once that has failed, operation by   *)
(* operation, and the tiles are faded into one another.  A sample of the   *)
(* sound is what the tiles put there over the sum of their weights, so     *)
(* one that every tile weighs with zero stays silent.                      *)
(***************************************************************************)
EXTENDS Naturals

CONSTANTS
    Tile,     \* TILE_FRAMES
    Lap,      \* OVERLAP_FRAMES
    Up,       \* UPSAMPLE: samples of a frame, far fewer than 1920
    Clips,    \* bound: frames of the clips that are decoded
    FastPath  \* a backend is there, and ACE_STEP_VAE_SLOW is not set

ASSUME VaeAssumption ==
    /\ Tile \in Nat /\ Lap \in Nat \ {0, 1} /\ Lap < Tile /\ Up \in Nat \ {0, 1}
    /\ Clips \subseteq Nat \ {0} /\ FastPath \in BOOLEAN

VARIABLES
    clip,   \* frames of the clip
    from,   \* t0: the first frame of the tile
    slow,   \* blocks_failed_once_
    sound,  \* samples with a weight above zero
    where   \* what decode does

vaeVars == <<clip, from, slow, sound, where>>

VaeInit ==
    /\ clip = 0 /\ from = 0
    /\ slow = FALSE
    /\ sound = {}
    /\ where = "idle"

\* One past the tile's last frame, and the first frame of the next tile.
To == IF from + Tile < clip THEN from + Tile ELSE clip
Next0 == from + (Tile - Lap)

\* A long clip: the fast path gets another chance.
DecodeClip(n) ==
    /\ where = "idle"
    /\ clip' = n /\ from' = 0 /\ sound' = {}
    /\ slow' = (slow /\ n <= Tile)
    /\ where' = "tile"

\* The half Hann window over the overlap is zero at its sample 0 only.  The
\* fade out counts its frames from the end, and their samples forward.
FadedIn(i) == from > 0 /\ i = 0

\* Mutant: the fade out is zero where the overlap begins, as the fade in is.
FadedOutEarly(i) == To < clip /\ i = (To - from - Lap) * Up

FadedOut(i) == To < clip /\ i = (To - from - 1) * Up

\* The samples the tile contributes to.
Weighed == {from * Up + i : i \in {j \in 0..(To - from) * Up - 1 : ~FadedIn(j) /\ ~FadedOut(j)}}

\* The tile is mixed in; the last one ends the clip.
Mix ==
    /\ sound' = sound \cup Weighed
    /\ IF To >= clip THEN where' = "done" /\ UNCHANGED from
       ELSE where' = "tile" /\ from' = Next0

\* Seven sub-graphs; a failure is remembered for the tiles that follow.
DecodeBlocks ==
    /\ where = "tile" /\ FastPath /\ ~slow
    /\ \/ Mix /\ UNCHANGED slow
       \/ slow' = TRUE /\ UNCHANGED <<from, sound, where>>
    /\ UNCHANGED clip

\* One operation after the other.
DecodeOps ==
    /\ where = "tile" /\ (slow \/ ~FastPath)
    /\ \/ Mix
       \/ where' = "failed" /\ UNCHANGED <<from, sound>>
    /\ UNCHANGED <<clip, slow>>

AnswerVae ==
    /\ where \in {"done", "failed"}
    /\ where' = "idle"
    /\ UNCHANGED <<clip, from, slow, sound>>

VaeNext ==
    \/ \E n \in Clips : DecodeClip(n)
    \/ DecodeBlocks \/ DecodeOps \/ AnswerVae

VaeSpec == VaeInit /\ [][VaeNext]_vaeVars

-----------------------------------------------------------------------------
(* Properties *)

VaeTypeOK ==
    /\ clip \in Clips \cup {0}
    /\ from \in Nat /\ from <= clip
    /\ slow \in BOOLEAN
    /\ sound \subseteq 0..clip * Up - 1
    /\ where \in {"idle", "tile", "done", "failed"}

\* A clip that was decoded is heard from its first sample to its last: the fades
\* of two tiles are never both silent, and no frame lies between two tiles.
VaeTiled == where = "done" => sound = 0..clip * Up - 1
=============================================================================
