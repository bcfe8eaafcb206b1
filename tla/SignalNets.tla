----------------------------- MODULE SignalNets -----------------------------
(***************************************************************************)
(* How many frames the convolutional networks of the models make of how    *)
(* many: the autoencoders of ACE-Step (models/ace_step/vae_runner.cpp) and *)
(* of MOSS-SFX (models/moss_sfx_v2/vae_runner.cpp), the codecs of          *)
(* Qwen3-TTS and MOSS-TTS (models/*/codec.cpp) and the speaker encoder.    *)
(*                                                                         *)
(* A signal is its number of frames; 0 is a signal that cannot be made (a  *)
(* check refuses it, or ggml stops the process).  Layers that work frame   *)
(* by frame (activations, norms, projections) change no length and are     *)
(* left out.                                                               *)
(***************************************************************************)
EXTENDS Integers

\* C's quotient is cut toward 0.
Quotient(a, b) == IF a < 0 THEN -((-a) \div b) ELSE a \div b

\* ggml_conv_1d: k taps, d apart; p frames of padding on both sides.
Conv(t, k, s, p, d) ==
    LET u == Quotient(t + 2 * p - d * (k - 1) - 1, s) + 1
    IN  IF t = 0 \/ u < 1 THEN 0 ELSE u

\* A product and ggml_col2im_1d: the transposed convolution, p frames cut from
\* both ends.
ConvT(t, k, s, p) == IF t = 0 \/ (t - 1) * s + k <= 2 * p THEN 0 ELSE (t - 1) * s + k - 2 * p

\* A residual sum wants both lengths equal.
Skip(t, u) == IF t = u THEN t ELSE 0

-----------------------------------------------------------------------------
(* ACE-Step: strides 10, 6, 4, 4 and 2 *)

\* Three units: seven taps dilated by 1, 3 and 9, then one tap, and the sum.
AceUnit(t, dilation) == Skip(t, Conv(Conv(t, 7, 1, 3 * dilation, dilation), 1, 1, 0, 1))
AceUnits(t) == AceUnit(AceUnit(AceUnit(t, 1), 3), 9)

\* Mutant: nothing is cut from the ends.
AceUpUncropped(t, s) == AceUnits(ConvT(t, 2 * s, s, 0))

\* Twice the stride in taps, half of it in padding.
AceUp(t, s) == AceUnits(ConvT(t, 2 * s, s, s \div 2))
AceDown(t, s) == Conv(AceUnits(t), 2 * s, s, s \div 2, 1)

AceDecoded(t) ==
    Conv(AceUp(AceUp(AceUp(AceUp(AceUp(Conv(t, 7, 1, 3, 1), 10), 6), 4), 4), 2), 7, 1, 3, 1)

AceEncoded(n) ==
    Conv(AceDown(AceDown(AceDown(AceDown(AceDown(Conv(n, 7, 1, 3, 1), 2), 4), 4), 6), 10),
         3, 1, 1, 1)

-----------------------------------------------------------------------------
(* MOSS-SFX: strides 8, 5, 4, 3 and 2 *)

\* ConvT1dOp: an odd stride is padded by one more and gets a frame back.
SfxPad(s) == (s + 1) \div 2
SfxConvT(t, s) == (t - 1) * s + 2 * s - 2 * SfxPad(s) + (s % 2)

\* graph_conv_t1d: the frame is not given back.
SfxGraphConvT(t, s) == ConvT(t, 2 * s, s, SfxPad(s))

SfxUnit(t, dilation) == Skip(t, Conv(Conv(t, 7, 1, 3 * dilation, dilation), 1, 1, 0, 1))
SfxUnits(t) == SfxUnit(SfxUnit(SfxUnit(t, 1), 3), 9)

\* The sub-graphs a backend computes, and the operations one by one.
SfxGraphUp(t, s) == SfxUnits(SfxGraphConvT(t, s))
SfxDecoded(t) ==
    Conv(SfxGraphUp(SfxGraphUp(SfxGraphUp(SfxGraphUp(SfxGraphUp(
        Conv(t, 7, 1, 3, 1), 8), 5), 4), 3), 2), 7, 1, 3, 1)

SfxUp(t, s) == SfxUnits(SfxConvT(t, s))
SfxTraced(t) ==
    Conv(SfxUp(SfxUp(SfxUp(SfxUp(SfxUp(Conv(t, 7, 1, 3, 1), 8), 5), 4), 3), 2), 7, 1, 3, 1)

-----------------------------------------------------------------------------
(* Qwen3-TTS: causal convolutions *)

\* All the padding is on the left; a stride takes from it.
Causal(t, k, s, d) ==
    IF t = 0 THEN 0 ELSE Conv(t + (k - 1) * d - (s - 1), k, s, 0, d)

\* What the taps reach past the stride is cropped on both sides.
CausalT(t, k, s) == ConvT(t, k, s, IF k > s THEN k - s ELSE 0)

QwenUnits(t) ==
    LET Unit(u, d) == Skip(u, Causal(Causal(u, 7, 1, d), 1, 1, 1))
    IN  Unit(Unit(Unit(t, 1), 3), 9)

\* A stage of upsampling: k taps, and a block that keeps the length.
QwenUpStage(t, k) == LET u == CausalT(t, k, 2) IN Skip(u, Causal(u, 7, 1, 1))

QwenDecBlock(t, s) == QwenUnits(CausalT(t, 2 * s, s))

\* The decoder: two stages of k taps, then strides 8, 5, 4 and 3.
QwenDecoded(t, k) ==
    LET h == Causal(QwenUpStage(QwenUpStage(Causal(t, 3, 1, 1), k), k), 3, 1, 1)
    IN  Causal(QwenDecBlock(QwenDecBlock(QwenDecBlock(QwenDecBlock(h, 8), 5), 4), 3), 7, 1, 1)

\* The encoder: a residual and a strided convolution per block, 4, 5, 6 and 8.
QwenEncBlock(t, s) == Causal(Skip(t, Causal(Causal(t, 3, 1, 1), 1, 1, 1)), 2 * s, s, 1)
QwenSeanet(n) ==
    Causal(QwenEncBlock(QwenEncBlock(QwenEncBlock(QwenEncBlock(
        Causal(n, 7, 1, 1), 4), 5), 6), 8), 3, 1, 1)

\* Samples are padded to whole frames of 960; the positions are as many.
QwenPadded(n) == 960 * ((n + 959) \div 960)
QwenXfmr(t, positions) == Skip(t, positions)
QwenDownsampled(t) == Causal(t, 4, 2, 1)
QwenEncoded(n) ==
    QwenDownsampled(QwenXfmr(QwenSeanet(QwenPadded(n)), QwenPadded(n) \div 960))

-----------------------------------------------------------------------------
(* MOSS-TTS: patches, with positions and a mask of its length per stage *)

PatchUp(t, patch) == t * patch
PatchDown(t, patch) == IF t % patch = 0 THEN t \div patch ELSE 0
MossStage(t, positions) == Skip(t, positions)

MossDecoded(t) ==
    LET a == MossStage(t, t)
        b == MossStage(PatchUp(a, 2), t * 2)
        c == MossStage(PatchUp(b, 2), t * 2 * 2)
        d == MossStage(PatchUp(c, 2), t * 2 * 2 * 2)
    IN  PatchUp(d, 240)

MossPadded(n) == n + ((1920 - (n % 1920)) % 1920)
MossEncoded(n) ==
    LET w == MossPadded(n)
        p1 == w \div 240    p2 == p1 \div 2    p3 == p2 \div 2    p4 == p3 \div 2
        a == MossStage(PatchDown(w, 240), p1)
        b == MossStage(PatchDown(a, 2), p2)
        c == MossStage(PatchDown(b, 2), p3)
    IN  MossStage(PatchDown(c, 2), p4)

-----------------------------------------------------------------------------
(* The speaker encoder *)

\* Frames of 1024 samples, 256 apart, the ends reflected: a sound shorter than a
\* frame has one too.
MelFrames(n) == Quotient(n + 768 - 1024, 256) + 1

\* The reflection wants more frames than it adds.
SameConv(t, k, d) ==
    LET pad == ((k - 1) * d) \div 2
    IN  IF t <= pad THEN 0 ELSE Conv(t + 2 * pad, k, 1, 0, d)

SpeakerRes2Net(t, d) == Skip(t, SameConv(SameConv(SameConv(t, 1, 1), 3, d), 1, 1))

\* The blocks' outputs are put one above the other, and pooled over time.
SpeakerFrames(t) ==
    LET a == SpeakerRes2Net(SameConv(t, 5, 1), 2)
        b == SpeakerRes2Net(a, 3)
        c == SpeakerRes2Net(b, 4)
    IN  SameConv(Skip(Skip(a, b), c), 1, 1)
=============================================================================
