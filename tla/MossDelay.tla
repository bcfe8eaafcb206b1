------------------------------ MODULE MossDelay ------------------------------
(***************************************************************************)
(* One MOSS-TTS generation: the delay-pattern state machine                *)
(* (src/models/moss_tts/delay_state.cpp) and the loop of                   *)
(* MossSession::run_tts that drives it, streams what it can and extracts   *)
(* the audio (src/models/moss_tts/session.cpp).                            *)
(*                                                                         *)
(* A row of audio_buf holds one code per stream; stream s of a frame is s  *)
(* rows below stream 0.  Which code was sampled does not matter here, so a *)
(* row is the set of streams whose code is not AUDIO_PAD_CODE.             *)
(***************************************************************************)
EXTENDS Integers, FiniteSets, Sequences

CONSTANTS
    NVq,         \* codebooks of the checkpoint: 32 or 16
    NoDelay,     \* numeric_limits<int32_t>::max()
    MaxSteps,    \* max_steps
    Modes,       \* bound: the modes of the request
    RefLengths,  \* bound: T_ref of a voice_clone request
    Leads,       \* bound: prompt rows up to the reference
    Tails        \* bound: prompt rows after it, the last is <audio_start>

ASSUME NVqAssumption == NVq \in Nat \ {0}
ASSUME NoDelayAssumption == NoDelay \in Nat /\ NVq < NoDelay
ASSUME MaxStepsAssumption == MaxSteps \in Nat \ {0}
ASSUME PromptAssumption ==
    /\ Modes \subseteq {"tts", "voice_clone", "streaming"}
    /\ RefLengths \subseteq Nat \ {0}
    /\ Leads \subseteq Nat \ {0}
    /\ Tails \subseteq Nat \ {0, 1}

VARIABLES
    mode,            \* "tts", "voice_clone" or "streaming"
    codec,           \* codec_graphs_.is_present()
    total_S,         \* rows of the prompt
    reference,       \* the prompt rows where reference frames start
    audio_length, delayed_length, is_audio, is_stopping, time_step,
    audio_buf,       \* DelayState::audio_buf
    decoded_frames,  \* de-delayed rows the loop is done with
    streamed,        \* the de-delayed rows that on_audio got
    skipped,         \* those it did not get, for their decode threw
    outcome          \* "generating", or what run_tts returned

request == <<mode, codec, total_S, reference>>
state == <<audio_length, delayed_length, is_audio, is_stopping, time_step, audio_buf>>
vars == <<request, state, decoded_frames, streamed, skipped, outcome>>

Streams == 0 .. NVq - 1
Texts == {"START", "GEN", "DELAY", "END", "IM_END", "OTHER"}

-----------------------------------------------------------------------------
\* Stream s of the frames that start in the rows `starts`: what
\* apply_delay_pattern makes of the reference codes, row by row.
Delayed(starts, length) ==
    [i \in 1 .. length |-> {s \in Streams : i - s \in starts}]

\* apply_de_delay_pattern: how many rows it returns, and row t.
Rows(buf) == IF Len(buf) >= NVq THEN Len(buf) - NVq + 1 ELSE 0
Row(buf, t) == {s \in Streams : s \in buf[t + s]}

\* extract_audio_segments: the rows that are not all padding.
Frames(buf) == {t \in 1 .. Rows(buf) : Row(buf, t) # {}}
Segments(buf) ==
    [k \in 1 .. Cardinality(Frames(buf)) |->
        CHOOSE t \in Frames(buf) : Cardinality({u \in Frames(buf) : u <= t}) = k]

-----------------------------------------------------------------------------
\* build_prompt_grid and init_delay_state: the prompt ends with <audio_start>.
\* A clone's reference stands T_ref + n_vq - 1 rows long between two markers.
Init ==
    /\ mode \in Modes
    /\ codec \in BOOLEAN
    /\ mode = "voice_clone" => codec
    /\ \E lead \in Leads, tail \in Tails :
          \/ /\ mode # "voice_clone"
             /\ reference = {}
             /\ total_S = lead + tail
          \/ /\ mode = "voice_clone"
             /\ \E T_ref \in RefLengths :
                   /\ reference = lead + 1 .. lead + T_ref
                   /\ total_S = lead + T_ref + NVq - 1 + tail
    /\ audio_buf = Delayed(reference, total_S)
    /\ audio_length = 1
    /\ is_audio = TRUE
    /\ delayed_length = NoDelay
    /\ is_stopping = FALSE
    /\ time_step = 0
    /\ decoded_frames = 0
    /\ streamed = <<>> /\ skipped = {}
    /\ outcome = "generating"

-----------------------------------------------------------------------------
\* The text token may be any that is not masked.
Sampled ==
    (IF is_audio THEN {"GEN", "DELAY"} ELSE {"START", "IM_END", "OTHER"})
        \ ((IF time_step = 0 THEN {"DELAY"} ELSE {})
            \cup (IF time_step <= NVq THEN {"IM_END"} ELSE {}))

\* Once begun the flush goes on for n_vq steps and ends the audio.
NextText ==
    CASE delayed_length < NVq -> {"DELAY"}
      [] delayed_length = NVq -> {"END"}
      [] OTHER -> Sampled

\* Mutant: the lower edge of the staircase is one stream off.
NextAudioLate ==
    {s \in Streams : s < audio_length /\ (delayed_length = NoDelay \/ s > delayed_length)}

\* The streams that sample a code; the others get padding.
NextAudio ==
    {s \in Streams : s < audio_length /\ (delayed_length = NoDelay \/ s > delayed_length - 1)}

NextAudioLength(text) ==
    CASE text \in {"START", "GEN", "DELAY"} -> audio_length + 1
      [] text = "END" -> 0
      [] OTHER -> audio_length

NextDelayedLength(text) ==
    LET begun == IF delayed_length = NoDelay /\ text = "DELAY" THEN 0 ELSE delayed_length
    IN  IF begun < NVq THEN begun + 1 ELSE NoDelay

\* delay_step.
DelayStep(text) ==
    /\ text \in NextText
    /\ is_audio' = (text = "START" \/ (is_audio /\ text # "END"))
    /\ is_stopping' = (text = "IM_END")
    /\ audio_length' = NextAudioLength(text)
    /\ delayed_length' = NextDelayedLength(text)
    /\ time_step' = time_step + 1
    /\ audio_buf' = Append(audio_buf, NextAudio)

-----------------------------------------------------------------------------
Streaming == mode = "streaming" /\ codec
Generating == outcome = "generating" /\ ~is_stopping /\ time_step < MaxSteps

\* codec_graphs_.decode: the rows are streamed, or it throws and the stream goes
\* on without them.
Sound(rows) ==
    \/ streamed' = streamed \o rows /\ UNCHANGED skipped
    \/ skipped' = skipped \cup {rows[k] : k \in DOMAIN rows} /\ UNCHANGED streamed

\* on_audio may ask to stop.
Emit(rows) ==
    \/ Sound(rows) /\ UNCHANGED outcome
    \/ outcome' = "error" /\ UNCHANGED <<streamed, skipped>>

\* Mutant: decoded_frames is not moved past what was emitted.
StreamAgain ==
    LET available == Rows(audio_buf')
    IN  IF Streaming /\ ~is_stopping' /\ available > decoded_frames
        THEN /\ Emit([k \in 1 .. available - decoded_frames |-> decoded_frames + k])
             /\ decoded_frames' = available - 1
        ELSE UNCHANGED <<decoded_frames, streamed, skipped, outcome>>

\* The rows that came to be complete; a stop leaves the loop before them.
StreamNew ==
    LET available == Rows(audio_buf')
    IN  IF Streaming /\ ~is_stopping' /\ available > decoded_frames
        THEN /\ Emit([k \in 1 .. available - decoded_frames |-> decoded_frames + k])
             /\ decoded_frames' = available
        ELSE UNCHANGED <<decoded_frames, streamed, skipped, outcome>>

Step ==
    /\ Generating
    /\ \E text \in Texts : DelayStep(text)
    /\ StreamNew
    /\ UNCHANGED request

\* The logits, the projection or the forward pass fails.
StepFails ==
    /\ Generating
    /\ outcome' = "error"
    /\ UNCHANGED <<request, state, decoded_frames, streamed, skipped>>

\* The loop is over: "no audio tokens generated", or no codec, or the decode
\* throws; or the PCM of every frame.
FinishBatch ==
    /\ outcome = "generating" /\ ~Generating
    /\ ~Streaming \/ Frames(audio_buf) = {}
    /\ \/ outcome' = "error"
       \/ outcome' = "ok" /\ codec /\ Frames(audio_buf) # {}
    /\ UNCHANGED <<request, state, decoded_frames, streamed, skipped>>

\* Streaming: what is left of the frames, counted from decoded_frames, which
\* counts rows.
FinishStream ==
    /\ outcome = "generating" /\ ~Generating
    /\ Streaming /\ Frames(audio_buf) # {}
    /\ LET segments == Segments(audio_buf)
           rest == SubSeq(segments, decoded_frames + 1, Len(segments))
       IN  \/ outcome' = "ok" /\ Sound(rest)
           \/ outcome' = "error" /\ rest # <<>> /\ UNCHANGED <<streamed, skipped>>
    /\ UNCHANGED <<request, state, decoded_frames>>

Over == outcome # "generating" /\ UNCHANGED vars

Next == Step \/ StepFails \/ FinishBatch \/ FinishStream \/ Over

Spec == Init /\ [][Next]_vars

-----------------------------------------------------------------------------
(* Properties *)

TypeOK ==
    /\ mode \in Modes
    /\ codec \in BOOLEAN
    /\ total_S \in Nat \ {0}
    /\ reference \subseteq 1 .. total_S
    /\ audio_length \in 0 .. MaxSteps + 1
    /\ delayed_length \in 1 .. NVq \cup {NoDelay}
    /\ is_audio \in BOOLEAN /\ is_stopping \in BOOLEAN
    /\ time_step \in 0 .. MaxSteps
    /\ audio_buf \in Seq(SUBSET Streams)
    /\ decoded_frames \in Nat
    /\ outcome \in {"generating", "ok", "error"}

\* Every de-delayed row is a frame with a code in every stream, or all
\* padding: at every moment of the generation (the loop decodes rows as they
\* come), across audio segments of any length, cut off by max_steps or not.
WholeFrames == \A t \in 1 .. Rows(audio_buf) : Row(audio_buf, t) \in {{}, Streams}

\* A generation that stops by itself has flushed its last segment: no code
\* that was sampled is left outside the frames that are extracted.
NothingDropped ==
    is_stopping =>
        \A i \in 1 .. Len(audio_buf) : \A s \in audio_buf[i] : i - s \in Frames(audio_buf)

\* The encoded reference goes through the delay pattern and back unchanged,
\* and no generated frame is mixed into the prompt's rows.
ReferenceIntact == {t \in Frames(audio_buf) : t <= total_S} = {t \in reference : t <= Rows(audio_buf)}

\* The delay pattern is undone exactly: rows are whole frames, those of the
\* reference among them are the reference's, and none is left behind.
DelayUndone == WholeFrames /\ NothingDropped /\ ReferenceIntact

Sent == {streamed[k] : k \in DOMAIN streamed}

\* Leaving the loop before the rows of the last step are streamed loses no
\* frame: what a stream that ends well lacks is what the codec threw at.
StreamComplete == Streaming /\ outcome = "ok" => Frames(audio_buf) \subseteq Sent \cup skipped

\* No row is streamed twice, out of order, or once it was skipped, the final
\* flush included.
StreamedOnce ==
    /\ streamed \in Seq(1 .. Rows(audio_buf))
    /\ \A j, k \in 1 .. Len(streamed) : j < k => streamed[j] < streamed[k]
    /\ Sent \cap skipped = {}

\* A stream that ends well got every frame once but those whose decode threw.
StreamDone == StreamComplete /\ StreamedOnce

\* The inductive invariant: every code lies on a diagonal that begins in
\* stream 0, the next row continues the last one, and once the flush has begun
\* (or the audio is over) the frames that are still incomplete are the newest.
Diagonal ==
    \A i \in 1 .. Len(audio_buf), s \in Streams :
        s \in audio_buf[i] <=> i - s >= 1 /\ 0 \in audio_buf[i - s]

Continues == \A s \in Streams \ {0} : s - 1 \in audio_buf[Len(audio_buf)] <=> s \in NextAudio

Flushed ==
    \A t \in 1 .. Len(audio_buf) : 0 \in audio_buf[t] =>
        /\ delayed_length # NoDelay => t <= Len(audio_buf) - delayed_length + 1
        /\ ~is_audio => t <= Len(audio_buf) - NVq

Phase ==
    /\ audio_length = 0 <=> ~is_audio
    /\ audio_length <= time_step + 1
    /\ delayed_length # NoDelay => is_audio /\ audio_length > delayed_length
    /\ is_stopping => ~is_audio

PromptRows ==
    /\ Len(audio_buf) = total_S + time_step
    /\ \A t \in 1 .. total_S : 0 \in audio_buf[t] <=> t \in reference

Streamed ==
    Streaming =>
        /\ time_step = 0 => decoded_frames = 0
        /\ time_step > 0 /\ ~is_stopping => decoded_frames = Rows(audio_buf)
        /\ is_stopping => decoded_frames + 1 >= Rows(audio_buf)

Ended == outcome = "ok" => is_stopping \/ time_step = MaxSteps

IInv ==
    /\ TypeOK /\ Diagonal /\ Continues /\ Flushed
    /\ Phase /\ PromptRows /\ Streamed /\ Ended
=============================================================================
