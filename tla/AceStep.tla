------------------------------ MODULE AceStep ------------------------------
(***************************************************************************)
(* A session of the ACE-Step music family (models/ace_step): a language    *)
(* model writes audio codes, a detokenizer turns them into a latent, a     *)
(* diffusion transformer (DiT) denoises it and a VAE decodes the sound.    *)
(* One request runs at a time (the slot's mutex), but what a request       *)
(* leaves in the session is there for the next one: the KV caches, the     *)
(* conditioning buffers, the latents, and where the weights live.          *)
(*                                                                         *)
(* Tensors are abstracted to the request that wrote them, this one or an   *)
(* earlier one, and latents to their length in frames.                     *)
(***************************************************************************)
EXTENDS Qwen3Runner

CONSTANTS
    Codes,         \* bound: lengths a request or the language model names
    DefaultCodes,  \* the length when neither names one
    Audio,         \* bound: input audio, in frames; 0 is none, or under a frame
    P1, P2, PUncond, TeLen,  \* tokens of the prompts: Phase 1, Phase 2 and its
                             \* unconditional twin, text
    MaxReasoning,  \* reasoning tokens before Phase 1 is cut
    NullTokens,    \* tokens of the empty text
    Steps,         \* diffusion steps
    Gpu            \* the DiT runs on a GPU

ASSUME AceAssumption ==
    /\ Codes \subseteq Nat \ {0} /\ DefaultCodes \in Nat \ {0}
    /\ P1 \in Nat \ {0} /\ P2 \in Nat \ {0} /\ PUncond \in Nat \ {0} /\ TeLen \in Nat \ {0}
    /\ Audio \subseteq Nat /\ MaxReasoning \in Nat /\ NullTokens \in Nat
    /\ Steps \in Nat \ {0} /\ Gpu \in BOOLEAN

\* Frames of a code.
PerCode == 5

VARIABLES
    lm, te,    \* the runners of the language model and of the text encoder
    cond,      \* [te, lyric, src]: who wrote te_cond_, lyric_cond_, lm_src_latents_
    lat,       \* [src, repaint, cover]: frames of the latents kept in the session
    weights,   \* [caches, home, detok]: cpu_caches_ready_, where ext_ctx_'s tensors
               \* are, where they were when detok_wctx_ was cloned from them
    req,       \* the request that is served
    todo,      \* n_codes, once the length is known
    made,      \* codes, or reasoning tokens, so far; then diffusion steps
    pc,        \* the phase run_music is in
    refusal    \* why the last forward pass was refused

sessionVars == <<lm, te, cond, lat, weights>>
aceVars == <<sessionVars, req, todo, made, pc, refusal>>

MusicModes == {"text", "repaint", "cover"}
MusicRequests == [mode : MusicModes, codes : Codes \cup {0}, audio : Audio \cup {0},
             full : BOOLEAN, cfg : BOOLEAN]
Phases == {"idle", "encode_repaint", "encode_cover", "start_lm", "prefill_reasoning",
           "reason", "merge", "encode_text", "encode_lyrics", "prefill_codes", "code",
           "detokenize", "context", "dit", "vae"}

\* Where the DiT's tensors are: in the mapped file, there for good, or on the GPU.
Homes == {"file", "cpu", "gpu"}

NoRequest == [mode |-> "text", codes |-> 0, audio |-> 0, full |-> FALSE, cfg |-> FALSE]

\* do_load: the four files are open, the runners fresh.
AceInit ==
    /\ lm = Loaded /\ te = Loaded
    /\ cond = [te |-> "none", lyric |-> "none", src |-> "none"]
    /\ lat = [src |-> 0, repaint |-> 0, cover |-> 0]
    /\ weights = [caches |-> FALSE, home |-> "file", detok |-> "none"]
    /\ req = NoRequest
    /\ todo = 0 /\ made = 0
    /\ pc = "idle" /\ refusal = "none"

Goto(phase) == pc' = phase
Return == Goto("idle")

-----------------------------------------------------------------------------
(* run_music *)

\* What the last request wrote is an earlier request's now.
Age == cond' = [c \in DOMAIN cond |-> IF cond[c] = "this" THEN "earlier" ELSE cond[c]]

\* A mode it does not know: refused before anything is cleared.
UnknownMode ==
    /\ pc = "idle"
    /\ req' = NoRequest
    /\ Age
    /\ Return
    /\ UNCHANGED <<lm, te, lat, weights, todo, made, refusal>>

\* "full": the request names every field the reasoning could fill.
RunMusic(m, c, a, full, cfg) ==
    /\ pc = "idle"
    /\ req' = [mode |-> m, codes |-> c, audio |-> a, full |-> full /\ c > 0, cfg |-> cfg]
    /\ Age
    /\ lat' = [lat EXCEPT !.repaint = 0]
    /\ todo' = 0 /\ made' = 0 /\ refusal' = "none"
    /\ Goto(IF m = "repaint" THEN "encode_repaint" ELSE "encode_cover")
    /\ UNCHANGED <<lm, te, weights>>

\* Repaint and completion: the input audio becomes a latent.
EncodeRepaint ==
    /\ pc = "encode_repaint"
    /\ \/ Return /\ UNCHANGED lat   \* too short, or the VAE fails
       \/ /\ req.audio > 0
          /\ lat' = [lat EXCEPT !.repaint = req.audio]
          /\ Goto("encode_cover")
    /\ UNCHANGED <<lm, te, cond, weights, req, todo, made, refusal>>

\* Mutant: the latent of an earlier cover stays.
EncodeCoverKeeps ==
    /\ pc = "encode_cover"
    /\ \/ /\ req.mode = "cover"
          /\ \/ Return /\ UNCHANGED lat
             \/ /\ req.audio \div PerCode > 0
                /\ lat' = [lat EXCEPT !.cover = PerCode * (req.audio \div PerCode)]
                /\ Goto("context")
       \/ /\ req.mode # "cover"
          /\ UNCHANGED lat
          /\ Goto("start_lm")
    /\ UNCHANGED <<lm, te, cond, weights, req, todo, made, refusal>>

\* Cover: the input audio becomes a latent, averaged over the frames of a code;
\* the language model is not run.
EncodeCover ==
    /\ pc = "encode_cover"
    /\ \/ /\ req.mode = "cover"
          /\ \/ Return /\ lat' = [lat EXCEPT !.cover = 0]
             \/ /\ req.audio \div PerCode > 0
                /\ lat' = [lat EXCEPT !.cover = PerCode * (req.audio \div PerCode)]
                /\ Goto("context")
       \/ /\ req.mode # "cover"
          /\ lat' = [lat EXCEPT !.cover = 0]
          /\ Goto("start_lm")
    /\ UNCHANGED <<lm, te, cond, weights, req, todo, made, refusal>>

-----------------------------------------------------------------------------
(* run_lm *)

\* Mutant: the caches of the request before stay.
StartLmKeeps ==
    /\ pc = "start_lm"
    /\ \/ Return
       \/ Goto(IF req.full THEN "merge" ELSE "prefill_reasoning")
    /\ UNCHANGED <<lm, te, cond, lat, weights, req, todo, made, refusal>>

\* Both caches are cleared and the prompt is tokenized; Phase 1 is skipped when
\* the request names every field.
StartLm ==
    /\ pc = "start_lm"
    /\ lm' = ClearKv(lm) /\ te' = ClearKv(te)
    /\ \/ Return
       \/ Goto(IF req.full THEN "merge" ELSE "prefill_reasoning")
    /\ UNCHANGED <<cond, lat, weights, req, todo, made, refusal>>

PrefillReasoning ==
    /\ pc = "prefill_reasoning"
    /\ \E o \in ForwardTokens(lm, P1, 0) :
         /\ lm' = o.r /\ refusal' = o.why
         /\ IF o.why = "none" THEN \E next \in {"reason", "merge"} : Goto(next)
            ELSE Return
    /\ UNCHANGED <<te, cond, lat, weights, req, todo, made>>

\* One more token of free reasoning, up to the end of the thought.
Reason ==
    /\ pc = "reason" /\ made < MaxReasoning
    /\ \E o \in ForwardTokens(lm, 1, P1 + made) :
         /\ lm' = o.r /\ refusal' = o.why
         /\ made' = made + 1
         /\ IF o.why = "none" THEN \E next \in {"reason", "merge"} : Goto(next)
            ELSE Return
    /\ UNCHANGED <<te, cond, lat, weights, req, todo>>

ReasonCut ==
    /\ pc = "reason" /\ made >= MaxReasoning
    /\ Goto("merge")
    /\ UNCHANGED <<sessionVars, req, todo, made, refusal>>

\* What the request names wins over what the reasoning says; then the default.
Merge ==
    /\ pc = "merge"
    /\ todo' \in IF req.codes > 0 THEN {req.codes}
                 ELSE Codes \cup {DefaultCodes}
    /\ made' = 0
    /\ Goto("encode_text")
    /\ UNCHANGED <<sessionVars, req, refusal>>

EncodeText ==
    /\ pc = "encode_text"
    /\ \/ Return /\ UNCHANGED <<te, cond, refusal>>   \* the prompt has no tokens
       \/ \E o \in ForwardGetEmbeddings(te, TeLen, 0) :
            /\ te' = o.r /\ refusal' = o.why
            /\ cond' = [cond EXCEPT !.te = "this"]
            /\ IF o.why = "none" THEN Goto("encode_lyrics") ELSE Return
    /\ UNCHANGED <<lm, lat, weights, req, todo, made>>

\* The lyrics' token embeddings, then the empty text's for the unguided pass:
\* its encoding starts at position 0 again.
EncodeLyrics ==
    /\ pc = "encode_lyrics"
    /\ \/ Return /\ UNCHANGED <<te, cond, refusal>>
       \/ /\ cond' = [cond EXCEPT !.lyric = "this"]
          /\ \/ Return /\ UNCHANGED <<te, refusal>>     \* a token has no embedding
             \/ IF NullTokens = 0 THEN Goto("prefill_codes") /\ UNCHANGED <<te, refusal>>
                ELSE \E o \in ForwardGetEmbeddings(te, NullTokens, 0) :
                       /\ te' = o.r /\ refusal' = o.why
                       /\ IF o.why = "none" THEN Goto("prefill_codes") ELSE Return
    /\ UNCHANGED <<lm, lat, weights, req, todo, made>>

\* The unconditional prefill of Phase 2, on the second context.
PrefillUncond(r) ==
    IF ~req.cfg THEN {[why |-> "none", r |-> r]}
    ELSE UNION {IF i.why # "none" THEN {i}
                ELSE ForwardTokensSecondary(ClearSecondary(i.r), PUncond, 0)
                : i \in InitSecondary(r)}

\* Phase 2 starts over in an empty cache, and samples the first code from the
\* prefill; the end of the sequence there is an error.
PrefillCodes ==
    /\ pc = "prefill_codes"
    /\ \/ Return /\ UNCHANGED <<lm, made, refusal>>
       \/ \E u \in PrefillUncond(ClearKv(lm)) :
            \E o \in IF u.why = "none" THEN ForwardTokens(u.r, P2, 0) ELSE {u} :
              /\ lm' = o.r /\ refusal' = o.why
              /\ \/ o.why = "none" /\ made' = 1 /\ Goto("code")
                 \/ UNCHANGED made /\ Return
    /\ UNCHANGED <<te, cond, lat, weights, req, todo>>

\* One more code: the same token through both caches.
NextCode ==
    /\ pc = "code" /\ made < todo
    /\ \E o \in ForwardTokens(lm, 1, P2 + made - 1) :
         \E u \in IF o.why = "none" /\ req.cfg
                  THEN ForwardTokensSecondary(o.r, 1, PUncond + made - 1) ELSE {o} :
           /\ lm' = u.r /\ refusal' = u.why
           /\ IF u.why # "none" THEN UNCHANGED made /\ Return
              ELSE \/ made' = made + 1 /\ Goto("code")
                   \/ UNCHANGED made /\ Goto("detokenize")   \* end of sequence
    /\ UNCHANGED <<te, cond, lat, weights, req, todo>>

CodesDone ==
    /\ pc = "code" /\ made >= todo
    /\ Goto("detokenize")
    /\ UNCHANGED <<sessionVars, req, todo, made, refusal>>

\* build_weight_ctx: the first call clones the weights, from where they are by then.
Cloned == [weights EXCEPT !.detok = IF @ = "none" THEN weights.home ELSE @]

\* DetokenizerRunner::decode: the old latent is gone even when it fails, and the
\* weights may be cloned by then or not.
Detokenize ==
    /\ pc = "detokenize"
    /\ \/ /\ weights' \in {weights, Cloned}
          /\ lat' = [lat EXCEPT !.src = 0]
          /\ cond' = [cond EXCEPT !.src = "none"]
          /\ Return
       \/ /\ weights' = Cloned
          /\ lat' = [lat EXCEPT !.src = made * PerCode]
          /\ cond' = [cond EXCEPT !.src = "this"]
          /\ Goto("context")
    /\ UNCHANGED <<lm, te, req, todo, made, refusal>>

-----------------------------------------------------------------------------
(* run_dit_and_vae *)

IsCover == lat.cover > 0
IsRepaint == lat.repaint > 0

\* The checks, the CPU copies of silence and biases on the first request, and
\* the context's rows.
BuildContext ==
    /\ pc = "context"
    /\ IF ~IsCover /\ (cond.te = "none" \/ (~IsRepaint /\ lat.src = 0))
       THEN Return /\ UNCHANGED <<weights, made>>
       ELSE /\ weights' = [weights EXCEPT !.caches = TRUE]
            /\ made' = 0
            /\ Goto("dit")
    /\ UNCHANGED <<lm, te, cond, lat, req, todo, refusal>>

\* ensure_backend, in the first forward of the session: the weights move to the
\* GPU if there is one and it has room.
Ensured ==
    IF weights.home # "file" THEN {weights}
    ELSE {[weights EXCEPT !.home = h] : h \in IF Gpu THEN {"cpu", "gpu"} ELSE {"cpu"}}

\* One Euler step; the forward fails without a backend, or later.
DitStep ==
    /\ pc = "dit" /\ made < Steps
    /\ \/ weights' \in Ensured /\ \E next \in {"dit", "idle"} : Goto(next)
       \/ UNCHANGED weights /\ weights.home = "file" /\ Return
    /\ made' = made + 1
    /\ UNCHANGED <<lm, te, cond, lat, req, todo, refusal>>

DitDone ==
    /\ pc = "dit" /\ made >= Steps
    /\ Goto("vae")
    /\ UNCHANGED <<sessionVars, req, todo, made, refusal>>

VaeDecode ==
    /\ pc = "vae"
    /\ Return
    /\ UNCHANGED <<sessionVars, req, todo, made, refusal>>

AceNext ==
    \/ UnknownMode
    \/ \E m \in MusicModes, c \in Codes \cup {0}, a \in Audio, full, cfg \in BOOLEAN :
         RunMusic(m, c, a, full, cfg)
    \/ EncodeRepaint \/ EncodeCover
    \/ StartLm \/ PrefillReasoning \/ Reason \/ ReasonCut \/ Merge
    \/ EncodeText \/ EncodeLyrics
    \/ PrefillCodes \/ NextCode \/ CodesDone \/ Detokenize
    \/ BuildContext \/ DitStep \/ DitDone \/ VaeDecode

AceSpec == AceInit /\ [][AceNext]_aceVars

-----------------------------------------------------------------------------
(* Properties *)

AceTypeOK ==
    /\ lm \in Runners /\ te \in Runners
    /\ cond \in [{"te", "lyric", "src"} -> {"none", "earlier", "this"}]
    /\ lat \in [src : Nat, repaint : Nat, cover : Nat]
    /\ weights \in [caches : BOOLEAN, home : Homes, detok : Homes \cup {"none"}]
    /\ req \in MusicRequests
    /\ todo \in Nat /\ made \in Nat
    /\ pc \in Phases
    /\ refusal \in {"none", "fault", "positions", "context"}

\* No forward pass is refused because its position does not continue the cache,
\* whatever the requests before it left there.
AcePositions == refusal # "positions"

\* While the DiT runs, the session's latents tell the mode of this request, the
\* text, lyrics and codes of one that is no cover are its own, and such a request
\* finds the detokenizer's weights cloned; the silence and the biases the CPU works
\* with were copied before the weights moved. A cover runs no text encoder and no
\* detokenizer: it takes the lyrics it finds, and may move the weights first.
AceConditioning ==
    /\ pc \in {"dit", "vae"} =>
          /\ IsCover <=> req.mode = "cover"
          /\ IsRepaint <=> req.mode = "repaint"
          /\ req.mode # "cover" =>
                /\ cond = [te |-> "this", lyric |-> "this", src |-> "this"]
                /\ weights.detok # "none"
    /\ weights.home = "gpu" => weights.caches

\* detokenizer_runner.cpp:175-178: its weights are cloned "BEFORE any CUDA
\* migration", in the "first decode call, before any DiT forward".
DetokFromHost == weights.detok # "gpu"
=============================================================================
