--------------------------- MODULE ComputeGraphs ---------------------------
(***************************************************************************)
(* The calls that build a ggml graph, allocate its tensors, upload what    *)
(* they are to hold, compute it and read the result: the DiTs of ACE-Step  *)
(* and MOSS-SFX, the sub-graphs of their autoencoders, the codecs of       *)
(* Qwen3-TTS and MOSS-TTS, the speaker encoder and MOSS-TTS's projection.  *)
(*                                                                         *)
(* A tensor that is allocated holds nothing of use until it is uploaded,   *)
(* and no more once a computation has passed: the allocator gives its      *)
(* memory to other tensors.  Uploads are collected while the graph is      *)
(* built, as pairs of a tensor and a host buffer, and done later: what a   *)
(* tensor gets is what the buffer holds then.  Tensors are tuples          *)
(* <<name, index>>; contents are equal when they are the same numbers.     *)
(***************************************************************************)
EXTENDS SignalNets, FiniteSets

CONSTANTS
    Sizes,    \* bound: frames of a call
    Prompts,  \* bound: rows of text, lyrics and timbre; 0 is none
    Layers,   \* layers of a transformer, or convolutions of a sub-graph
    Window    \* kSlideWindow: rows above which attention is masked

ASSUME GraphsAssumption ==
    Sizes \subseteq Nat \ {0} /\ Sizes # {} /\ Prompts \subseteq Nat /\ Layers \in Nat \ {0} /\ Window \in Nat

Kinds == {"ace_dit", "ace_vae", "sfx_dit", "sfx_vae", "qwen_decode", "qwen_encode",
          "speaker", "moss_decode", "moss_encode", "projection"}
Calls == [g : {"ace_dit"}, t : Sizes, text : Prompts, lyric : Prompts, refer : Prompts \ {0}]
         \cup [g : Kinds \ {"ace_dit", "sfx_dit"}, t : Sizes, text : {0}, lyric : {0}, refer : {0}]
         \cup [g : {"sfx_dit"}, t : Sizes, text : Prompts, lyric : {0}, refer : {0}]

VARIABLES
    job,    \* the call that is served
    kept,   \* MOSS-SFX's DiT graph: cg_.T_latent, cg_.ct_len, graph_built_
    queue,  \* the uploads that were collected
    mem,    \* tensors that hold what they should
    wts,    \* where the weights of the Qwen codec and the speaker encoder point
    st,     \* how far the call is
    got     \* what a computation left in the result

graphVars == <<job, kept, queue, mem, wts, st, got>>

NoCall == [g |-> "projection", t |-> CHOOSE t \in Sizes : TRUE, text |-> 0, lyric |-> 0, refer |-> 0]
NotKept == [t |-> 0, ct |-> 0, built |-> FALSE]

GraphsInit ==
    /\ job = NoCall /\ kept = NotKept
    /\ queue = {} /\ mem = {}
    /\ wts = [k \in {"codec", "speaker"} |-> "none"]
    /\ st = "idle" /\ got = "none"

-----------------------------------------------------------------------------
(* What each graph wants uploaded, and from which buffer *)

\* From a buffer of its own.
Own(name, i, what) == [to |-> <<name, i>>, buf |-> <<name, i>>, what |-> <<name, what>>]

\* timbre_encode, lyric_encode: the rows, their positions, and the window's mask
\* where it is longer than what can be seen anyway.
TimbreInputs(n) ==
    {Own("timbre_in", 0, 0), Own("timbre_pos", 0, n)}
    \cup (IF n > Window THEN {Own("timbre_slide_mask", 0, n)} ELSE {})

LyricInputs(n) ==
    IF n = 0 THEN {}
    ELSE {Own("lyric_in", 0, 0), Own("lyric_pos", 0, n)}
         \cup (IF n > 1 THEN {Own("lyric_slide_mask", 0, n)} ELSE {})

\* Two sinusoids; the text, or none for the unguided pass.
TimeInputs == {Own("sinusoid", i, i) : i \in {0, 1}}
TextInputs(n) == IF n = 0 THEN {} ELSE {Own("cond", 0, 0)}

\* Every layer has positions of its own, all from one static buffer.
SelfAttn(i, t) == [to |-> <<"pos", i>>, buf |-> <<"pos_buf", 0>>, what |-> <<"pos", t>>]

AceDitInputs(c) ==
    {Own("x_t", 0, 0), Own("gss", 0, 0)} \cup TimeInputs
    \cup TimbreInputs(c.refer) \cup LyricInputs(c.lyric) \cup TextInputs(c.text)
    \cup {Own("sst", i, i) : i \in 1..Layers} \cup {SelfAttn(i, c.t) : i \in 1..Layers}

\* Each convolution's weights in F16, in a buffer it shares with nobody.
ConvWeight(i) == [to |-> <<"w", i>>, buf |-> <<"w16", i>>, what |-> <<"w", i>>]

AceVaeInputs == {Own("in", 0, 0)} \cup {ConvWeight(i) : i \in 1..Layers}
                \cup {Own("snake", i, i) : i \in 1..Layers}

\* The ops hold their F16 weights for as long as the runner lives.
SfxVaeInputs == {Own("in", 0, 0)} \cup {Own("w", i, i) : i \in 1..Layers}
                \cup {Own("snake", i, i) : i \in 1..Layers}

\* Rows, positions, six modulations a layer and the head's, built anew or not.
SfxDitUploads(c) ==
    {Own("x_t", 0, 0), Own("ctx_emb", 0, 0), Own("pos_q", 0, c.t)}
    \cup {Own("mod", i, i) : i \in 1..6 * Layers + 1}

QwenDecodeInputs(c) == {Own("codes", 0, 0), Own("positions", 0, c.t), Own("mask", 0, c.t)}
QwenEncodeInputs(c) == {Own("pcm", 0, 0), Own("positions", 0, c.t), Own("mask", 0, c.t)}

\* The encoder's positions and mask are created, and never filled.
QwenEncodeUploads == {Own("pcm", 0, 0)}

\* Positions and a mask for each of the four stages.
MossStages(c) == UNION {{Own("pos", s, s), Own("mask", s, s)} : s \in 1..4}
MossDecodeInputs(c) == MossStages(c) \cup {Own("codes", i, i) : i \in 1..Layers}
MossEncodeInputs(c) == MossStages(c) \cup {Own("waveform", 0, 0)}

SpeakerInputs == {Own("mel", 0, 0)}
ProjectionInputs == {Own("hidden", 0, 0), Own("head", 0, 0)}

Uploads(c) ==
    CASE c.g = "ace_dit" -> AceDitInputs(c)
      [] c.g = "ace_vae" -> AceVaeInputs
      [] c.g = "sfx_vae" -> SfxVaeInputs
      [] c.g = "sfx_dit" -> SfxDitUploads(c)
      [] c.g = "qwen_decode" -> QwenDecodeInputs(c)
      [] c.g = "qwen_encode" -> QwenEncodeUploads
      [] c.g = "moss_decode" -> MossDecodeInputs(c)
      [] c.g = "moss_encode" -> MossEncodeInputs(c)
      [] c.g = "speaker" -> SpeakerInputs
      [] c.g = "projection" -> ProjectionInputs

\* The tensors a graph reads that are no weights of a file.
Needed(c) ==
    {u.to : u \in CASE c.g = "qwen_encode" -> QwenEncodeInputs(c)
                    [] c.g = "sfx_dit" -> SfxDitUploads(c) \cup {Own("pos_q", 0, c.t)}
                    [] OTHER -> Uploads(c)}

-----------------------------------------------------------------------------
(* A call *)

CallGraph(c) ==
    /\ st = "idle"
    /\ job' = c /\ queue' = {} /\ got' = "none"
    /\ st' = "build"
    /\ UNCHANGED <<kept, mem, wts>>

\* The weights that hang on the graph's own allocator.
Hung == IF job.g \in {"qwen_decode", "qwen_encode"} THEN {"codec"}
        ELSE IF job.g = "speaker" THEN {"speaker"} ELSE {}

KeptFor == [t |-> job.t, ct |-> IF job.text > 0 THEN job.text ELSE 1, built |-> TRUE]

\* A kept graph is used again if the sizes are the same; otherwise it is gone.
Build ==
    /\ st = "build"
    /\ IF job.g = "sfx_dit" /\ kept = KeptFor
       THEN st' = "upload" /\ queue' = Uploads(job) /\ UNCHANGED kept
       ELSE /\ kept' = IF job.g = "sfx_dit" THEN NotKept ELSE kept
            /\ \/ st' = "allocate" /\ queue' = Uploads(job)
               \/ st' = "refused" /\ UNCHANGED queue    \* no memory for the graph itself
    /\ mem' = {}
    /\ UNCHANGED <<job, wts, got>>

\* Mutant: the weights still point where the call before had them.
AllocateKeeps ==
    /\ st = "allocate"
    /\ \/ /\ wts' = [k \in DOMAIN wts |-> IF k \in Hung /\ wts[k] = "none" THEN "fresh" ELSE wts[k]]
          /\ kept' = IF job.g = "sfx_dit" THEN KeptFor ELSE kept
          /\ st' = "upload"
       \/ st' = "refused" /\ UNCHANGED <<wts, kept>>
    /\ UNCHANGED <<job, queue, mem, got>>

\* reset_weight_data_, so that the weights get memory with the graph, then the
\* allocation, which may fail.
Allocate ==
    /\ st = "allocate"
    /\ \/ /\ wts' = [k \in DOMAIN wts |-> IF k \in Hung THEN "fresh" ELSE wts[k]]
          /\ kept' = IF job.g = "sfx_dit" THEN KeptFor ELSE kept
          /\ st' = "upload"
       \/ /\ wts' = [k \in DOMAIN wts |-> IF k \in Hung THEN "none" ELSE wts[k]]
          /\ st' = "refused"
          /\ UNCHANGED kept
    /\ UNCHANGED <<job, queue, mem, got>>

\* A tensor gets what its buffer holds by now.
Received == {u \in queue : \A v \in queue : v.buf = u.buf => v.what = u.what}

\* upload_weights_ follows the allocation, except in the codec's encoder.
Upload ==
    /\ st = "upload"
    /\ mem' = {u.to : u \in Received}
    /\ wts' = [k \in DOMAIN wts |->
                  IF k \in Hung /\ job.g # "qwen_encode" /\ wts[k] = "fresh" THEN "filled" ELSE wts[k]]
    /\ st' = "compute"
    /\ UNCHANGED <<job, kept, queue, got>>

Filled == Needed(job) \subseteq mem /\ \A k \in Hung : wts[k] = "filled"

\* Calls that look at how the computation went.
Checked == {"sfx_dit", "qwen_decode", "qwen_encode", "speaker", "moss_decode",
            "moss_encode", "projection"}

\* What failed is refused, or read all the same; the inputs are used up.
Compute ==
    /\ st = "compute"
    /\ mem' = {}
    /\ \/ got' = (IF Filled THEN "good" ELSE "garbage") /\ st' = "read"
       \/ /\ got' = "garbage"
          /\ st' = IF job.g \in Checked THEN "refused" ELSE "read"
    /\ UNCHANGED <<job, kept, queue, wts>>

\* The call's context and allocator are freed, and with it the memory of the
\* weights that hung on it.
Finish ==
    /\ st \in {"read", "refused"}
    /\ wts' = [k \in DOMAIN wts |-> IF k \in Hung /\ wts[k] # "none" THEN "dangling" ELSE wts[k]]
    /\ job' = NoCall /\ queue' = {} /\ got' = "none"
    /\ st' = "idle"
    /\ UNCHANGED <<kept, mem>>

GraphsNext ==
    \/ \E c \in Calls : CallGraph(c)
    \/ Build \/ Allocate \/ Upload \/ Compute \/ Finish

GraphsSpec == GraphsInit /\ [][GraphsNext]_graphVars

-----------------------------------------------------------------------------
(* Properties *)

GraphsTypeOK ==
    /\ job \in Calls
    /\ kept \in [t : Sizes \cup {0}, ct : Nat, built : BOOLEAN]
    /\ queue \subseteq Uploads(job) /\ mem \subseteq Needed(job)
    /\ wts \in [{"codec", "speaker"} -> {"none", "fresh", "filled", "dangling"}]
    /\ st \in {"idle", "build", "allocate", "upload", "compute", "read", "refused"}
    /\ got \in {"none", "good", "garbage"}

\* A graph is computed only when every tensor it reads holds what was meant for
\* it and its weights are in memory that is allocated, whatever calls came
\* before it and however they ended.  The encoder of the Qwen3-TTS codec is apart:
\* it computes with positions and a mask that nothing fills (codec.cpp:1213-1231).
GraphFilled == st = "compute" /\ job.g # "qwen_encode" => Filled

\* What is read is what the caller has room for: the codecs and the
\* autoencoders make as many frames as the call was promised, at most.
GraphFits ==
    /\ MossDecoded(job.t) = 1920 * job.t
    /\ MossEncoded(1920 * job.t) = job.t
    /\ QwenSeanet(960 * job.t) = job.t
    /\ AceDecoded(job.t) = 1920 * job.t
    /\ SfxDecoded(job.t) <= 960 * job.t
=============================================================================
