------------------------------ MODULE MossSfx ------------------------------
(***************************************************************************)
(* A session of the MOSS sound-effect family (models/moss_sfx_v2).  A      *)
(* request encodes its prompt and a negative prompt, denoises a latent of  *)
(* one fixed length with a diffusion transformer (DiT) whose graph is      *)
(* built once and used again, decodes it in chunks and crops the sound to  *)
(* the length that was asked.  The text encoder, the graph and the place   *)
(* of the weights outlive the request.                                     *)
(*                                                                         *)
(* Sound is counted in latent frames, a sample standing for a frame.       *)
(***************************************************************************)
EXTENDS Qwen3Runner

CONSTANTS
    Latent,       \* T_latent: the frames that are denoised, whatever was asked
    VaeChunk,     \* kVaeChunkLatent
    Asked,        \* bound: lengths of sound that are asked
    CondLen,      \* tokens of a prompt, whose duration suffix is never empty
    NegativeLens, \* bound: tokens of a negative prompt; 0 for the empty one
    SfxSteps,     \* diffusion steps
    SfxBackend    \* a ggml backend decodes (backend_init found a GPU, or the CPU)

ASSUME SfxAssumption ==
    /\ Latent \in Nat \ {0} /\ VaeChunk \in Nat \ {0} /\ SfxSteps \in Nat
    /\ CondLen \in Nat \ {0}
    /\ Asked \subseteq Nat /\ NegativeLens \subseteq Nat /\ SfxBackend \in BOOLEAN

\* Rows of a context.
TextRows == 512

VARIABLES
    enc,      \* te_: the text encoder's runner
    sfx,      \* [dit, vae, te]: what loading bound of each file
    dit,      \* [cpu, ready, graph]: load_cpu_weights, ensure_backend, CachedGraph
    wish,     \* [samples, negative, guided]: the request
    step,     \* diffusion steps done, then the next chunk
    heard,    \* the frames of pcm_out that a decode wrote
    stage,    \* where load or run_sfx is
    fault     \* why the last forward of the text encoder was refused

sfxVars == <<enc, sfx, dit, wish, step, heard, stage, fault>>

NoGraph == [t |-> 0, ct |-> 0]
Unread == [dit |-> "none", vae |-> "none", te |-> FALSE]

SfxInit ==
    /\ enc = Loaded /\ sfx = Unread
    /\ dit = [cpu |-> FALSE, ready |-> FALSE, graph |-> NoGraph]
    /\ wish = [samples |-> 0, negative |-> 0, guided |-> FALSE]
    /\ step = 0 /\ heard = {}
    /\ stage = "find" /\ fault = "none"

Turn(to) == stage' = to

-----------------------------------------------------------------------------
(* load *)

\* The directory's files by their names; without a DiT the load fails.
FindFiles ==
    /\ stage = "find"
    /\ \/ UNCHANGED sfx /\ Turn("find")
       \/ \E v \in {"none", "named"}, t \in BOOLEAN :
            /\ sfx' = [dit |-> "named", vae |-> v, te |-> t]
            /\ Turn("bind_dit")
    /\ UNCHANGED <<enc, dit, wish, step, heard, fault>>

\* A file does not open: the session is dropped.
Drop(from) ==
    /\ stage = from
    /\ sfx' = Unread
    /\ Turn("find")
    /\ UNCHANGED <<enc, dit, wish, step, heard, fault>>

\* A tensor that cannot be read is passed over: the file is bound in part.
BindDit ==
    \/ Drop("bind_dit")
    \/ /\ stage = "bind_dit"
       /\ \E b \in {"part", "whole"} : sfx' = [sfx EXCEPT !.dit = b]
       /\ Turn("bind_vae")
       /\ UNCHANGED <<enc, dit, wish, step, heard, fault>>

BindVae ==
    \/ sfx.vae = "named" /\ Drop("bind_vae")
    \/ /\ stage = "bind_vae"
       /\ \E b \in IF sfx.vae = "none" THEN {"none"} ELSE {"part", "whole"} :
            sfx' = [sfx EXCEPT !.vae = b]
       /\ Turn("open_te")
       /\ UNCHANGED <<enc, dit, wish, step, heard, fault>>

\* The text encoder is optional, but one that is named must load.
OpenTe ==
    \/ sfx.te /\ Drop("open_te")
    \/ /\ stage = "open_te"
       /\ Turn("idle")
       /\ UNCHANGED <<enc, sfx, dit, wish, step, heard, fault>>

-----------------------------------------------------------------------------
(* run_sfx *)

\* Without a text encoder both contexts are zeros.
RunSfx(n, neg, guided) ==
    /\ stage = "idle"
    /\ wish' = [samples |-> n, negative |-> neg, guided |-> guided]
    /\ step' = 0 /\ heard' = {} /\ fault' = "none"
    /\ Turn(IF sfx.te THEN "cond" ELSE "denoise")
    /\ UNCHANGED <<enc, sfx, dit>>

\* A prompt's embeddings, from position 0; the cache is as the pass before left it.
Encode(from, n, to) ==
    /\ stage = from
    /\ \E o \in IF n = 0 THEN {[why |-> "none", r |-> enc]} ELSE ForwardGetEmbeddings(enc, n, 0) :
         /\ enc' = o.r /\ fault' = o.why
         /\ Turn(IF o.why = "none" THEN to ELSE "idle")
    /\ UNCHANGED <<sfx, dit, wish, step, heard>>

EncodePrompt == Encode("cond", CondLen, "negative")
EncodeNegative == Encode("negative", wish.negative, "denoise")

\* The first forward: what the CPU computes with is read out, then the weights
\* are moved; a move that fails leaves them and is tried again.
EnsureBackend ==
    /\ stage = "denoise" /\ ~dit.ready
    /\ \/ dit' = [dit EXCEPT !.cpu = TRUE, !.ready = TRUE] /\ UNCHANGED stage
       \/ dit' = [dit EXCEPT !.cpu = TRUE] /\ Turn("idle")
    /\ UNCHANGED <<enc, sfx, wish, step, heard, fault>>

\* The graph of the DiT is built for the lengths at hand unless it is there.
GraphFor(t, ct) == IF dit.graph = [t |-> t, ct |-> ct] THEN {dit.graph}
                   ELSE {NoGraph, [t |-> t, ct |-> ct]}

\* One Euler step: the guided pass pads both contexts alike and reuses the graph.
DenoiseStep ==
    /\ stage = "denoise" /\ dit.ready /\ step < SfxSteps
    /\ \E g \in GraphFor(Latent, TextRows) :
         /\ dit' = [dit EXCEPT !.graph = g]
         /\ \/ g # NoGraph /\ step' = step + 1 /\ UNCHANGED stage
            \/ UNCHANGED step /\ Turn("idle")
    /\ UNCHANGED <<enc, sfx, wish, heard, fault>>

Denoised ==
    /\ stage = "denoise" /\ step >= SfxSteps
    /\ step' = 0
    /\ Turn("decode")
    /\ UNCHANGED <<enc, sfx, dit, wish, heard, fault>>

\* Mutant: a rest shorter than a chunk is not decoded.
ChunksDown == Latent \div VaeChunk

Chunks == (Latent + VaeChunk - 1) \div VaeChunk

ChunkEnd(c) == IF (c + 1) * VaeChunk < Latent THEN (c + 1) * VaeChunk ELSE Latent

\* The frames a chunk's decode writes: the blocks' graphs have no output padding,
\* so that a backend's sound ends before the last frame does.
ChunkFrames(c) ==
    c * VaeChunk + 1 .. (IF SfxBackend THEN ChunkEnd(c) - 1 ELSE ChunkEnd(c))

DecodeSfxChunk ==
    /\ stage = "decode" /\ step < Chunks
    /\ \/ heard' = heard \cup ChunkFrames(step) /\ step' = step + 1 /\ UNCHANGED stage
       \/ UNCHANGED <<heard, step>> /\ Turn("idle")
    /\ UNCHANGED <<enc, sfx, dit, wish, fault>>

\* The sound is cropped when it is longer than what was asked.
Crop ==
    /\ stage = "decode" /\ step >= Chunks
    /\ Turn("answered")
    /\ UNCHANGED <<enc, sfx, dit, wish, step, heard, fault>>

AnswerSfx ==
    /\ stage = "answered"
    /\ Turn("idle")
    /\ UNCHANGED <<enc, sfx, dit, wish, step, heard, fault>>

SfxNext ==
    \/ FindFiles \/ BindDit \/ BindVae \/ OpenTe
    \/ \E n \in Asked, neg \in NegativeLens, guided \in BOOLEAN : RunSfx(n, neg, guided)
    \/ EncodePrompt \/ EncodeNegative
    \/ EnsureBackend \/ DenoiseStep \/ Denoised
    \/ DecodeSfxChunk \/ Crop \/ AnswerSfx

SfxSpec == SfxInit /\ [][SfxNext]_sfxVars

-----------------------------------------------------------------------------
(* Properties *)

\* Samples of the answer.
Length == IF wish.samples < Latent THEN wish.samples ELSE Latent

SfxTypeOK ==
    /\ enc \in Runners
    /\ sfx \in [dit : {"none", "named", "part", "whole"},
                vae : {"none", "named", "part", "whole"}, te : BOOLEAN]
    /\ dit \in [cpu : BOOLEAN, ready : BOOLEAN, graph : {NoGraph, [t |-> Latent, ct |-> TextRows]}]
    /\ wish \in [samples : Nat, negative : Nat, guided : BOOLEAN]
    /\ step \in Nat /\ heard \subseteq 1..Latent
    /\ stage \in {"find", "bind_dit", "bind_vae", "open_te", "idle", "cond", "negative",
                  "denoise", "decode", "answered"}
    /\ fault \in {"none", "fault", "positions", "context"}

\* No prompt is refused because an earlier prompt's rows are in the cache.
SfxFresh == fault # "positions"

\* The chunks tile the answer: no frame is missing but the last of a chunk.
SfxTiled ==
    stage = "answered" => 1..Length \subseteq heard \cup {ChunkEnd(c) : c \in 0..Latent}
=============================================================================
