---------------------------- MODULE SpeechProofs ----------------------------
(***************************************************************************)
(* Proofs about the speech models.                                         *)
(*                                                                         *)
(*  - MOSS-TTS: the delay pattern keeps frames whole, loses none at the    *)
(*    end and streams every one, for any number of codebooks, any prompt   *)
(*    and any max_steps.                                                   *)
(*  - Qwen3-TTS: the talker's rows are consecutive whatever came before,   *)
(*    and a good answer holds every frame that counts and no frozen        *)
(*    ending, for any requests and any limits.                             *)
(***************************************************************************)
EXTENDS MossDelay, Qwen3Tts, SequenceTheorems, FiniteSetTheorems,
        WellFoundedInduction, TLAPS

-----------------------------------------------------------------------------
(* MOSS-TTS *)

USE NVqAssumption, NoDelayAssumption, MaxStepsAssumption

\* With every code on a diagonal, a de-delayed row is what stream 0 says.
LEMMA WholeRow ==
    ASSUME TypeOK, Diagonal, NEW t \in 1 .. Rows(audio_buf)
    PROVE  /\ t \in 1 .. Len(audio_buf)
           /\ Row(audio_buf, t) = IF 0 \in audio_buf[t] THEN Streams ELSE {}
<1>1. Len(audio_buf) \in Nat
  BY LenProperties DEF TypeOK
<1>2. t \in 1 .. Len(audio_buf) /\ t + NVq - 1 <= Len(audio_buf)
  BY <1>1 DEF Rows
<1>3. ASSUME NEW s \in Streams
      PROVE  s \in audio_buf[t + s] <=> 0 \in audio_buf[t]
  <2>1. t + s \in 1 .. Len(audio_buf) /\ (t + s) - s = t /\ t >= 1
    BY <1>1, <1>2 DEF Streams
  <2>2. QED
    BY <2>1 DEF Diagonal
<1>4. QED
  BY <1>2, <1>3 DEF Row

\* The frames are the rows where stream 0 holds a code and the rest is there.
LEMMA FrameStarts ==
    ASSUME TypeOK, Diagonal
    PROVE  Frames(audio_buf) = {t \in 1 .. Rows(audio_buf) : 0 \in audio_buf[t]}
<1>1. 0 \in Streams
  BY DEF Streams
<1>2. QED
  BY <1>1, WholeRow DEF Frames

-----------------------------------------------------------------------------
(* The prompt *)

LEMMA InitIInv == Init => IInv
<1> SUFFICES ASSUME Init PROVE IInv
  OBVIOUS
<1> USE PromptAssumption DEF Init
<1>1. PICK lead \in Leads, tail \in Tails :
        \/ /\ mode # "voice_clone"
           /\ reference = {}
           /\ total_S = lead + tail
        \/ /\ mode = "voice_clone"
           /\ \E T_ref \in RefLengths :
                 /\ reference = lead + 1 .. lead + T_ref
                 /\ total_S = lead + T_ref + NVq - 1 + tail
  OBVIOUS
<1>2. lead \in Nat \ {0} /\ tail \in Nat \ {0, 1}
  OBVIOUS
<1>3. /\ total_S \in Nat \ {0}
      /\ reference \subseteq 1 .. total_S
      /\ \A t \in reference : t <= total_S - NVq
  <2>1. CASE mode # "voice_clone"
    BY <1>1, <1>2, <2>1
  <2>2. CASE mode = "voice_clone"
    <3>1. PICK T_ref \in RefLengths : /\ reference = lead + 1 .. lead + T_ref
                                      /\ total_S = lead + T_ref + NVq - 1 + tail
      BY <1>1, <2>2
    <3>2. T_ref \in Nat \ {0} /\ NVq \in Nat \ {0}
      OBVIOUS
    <3>3. QED
      BY <1>2, <3>1, <3>2
  <2>3. QED
    BY <2>1, <2>2
<1>4. /\ audio_buf \in Seq(SUBSET Streams)
      /\ Len(audio_buf) = total_S
      /\ \A i \in 1 .. total_S : audio_buf[i] = {s \in Streams : i - s \in reference}
  <2>1. audio_buf = [i \in 1 .. total_S |-> {s \in Streams : i - s \in reference}]
    BY DEF Delayed
  <2>2. \A i \in 1 .. total_S : {s \in Streams : i - s \in reference} \in SUBSET Streams
    OBVIOUS
  <2>3. audio_buf \in [1 .. total_S -> SUBSET Streams]
    BY <2>1, <2>2
  <2>4. audio_buf \in Seq(SUBSET Streams)
    BY <1>3, <2>3
  <2>5. DOMAIN audio_buf = 1 .. total_S
    BY <2>1
  <2>6. QED
    BY <1>3, <2>1, <2>4, <2>5, LenProperties
<1>5. \A t \in 1 .. total_S : 0 \in audio_buf[t] <=> t \in reference
  BY <1>3, <1>4 DEF Streams
<1>6. TypeOK
  <2>1. audio_length \in 0 .. MaxSteps + 1 /\ time_step \in 0 .. MaxSteps /\ decoded_frames \in Nat
    OBVIOUS
  <2>2. delayed_length \in 1 .. NVq \cup {NoDelay}
    OBVIOUS
  <2>3. codec \in BOOLEAN /\ is_audio \in BOOLEAN /\ is_stopping \in BOOLEAN
    OBVIOUS
  <2>4. outcome \in {"generating", "ok", "error"} /\ mode \in Modes
    OBVIOUS
  <2>5. QED
    BY <1>3, <1>4, <2>1, <2>2, <2>3, <2>4 DEF TypeOK
<1>7. Diagonal
  <2>1. ASSUME NEW i \in 1 .. total_S, NEW s \in Streams
        PROVE  s \in audio_buf[i] <=> i - s >= 1 /\ 0 \in audio_buf[i - s]
    <3>1. s \in audio_buf[i] <=> i - s \in reference
      BY <1>4
    <3>2. CASE i - s >= 1
      <4>1. i - s \in 1 .. total_S
        BY <1>3, <3>2 DEF Streams
      <4>2. QED
        BY <1>5, <3>1, <3>2, <4>1
    <3>3. CASE ~(i - s >= 1)
      BY <1>3, <3>1, <3>3 DEF Streams
    <3>4. QED
      BY <3>2, <3>3
  <2>2. QED
    BY <1>4, <2>1 DEF Diagonal
<1>8. Continues
  <2>1. audio_buf[Len(audio_buf)] = {}
    <3>1. \A s \in Streams : ~(total_S - s \in reference)
      BY <1>3 DEF Streams
    <3>2. QED
      BY <1>3, <1>4, <3>1
  <2>2. \A s \in Streams \ {0} : s \notin NextAudio
    BY DEF NextAudio, Streams
  <2>3. QED
    BY <2>1, <2>2 DEF Continues
<1>9. QED
  BY <1>3, <1>4, <1>5, <1>6, <1>7, <1>8
  DEF IInv, Flushed, Phase, PromptRows, Streamed, Ended

-----------------------------------------------------------------------------
(* One delay_step *)

\* What the text token can be, by the phase the state is in.
LEMMA TextCases ==
    ASSUME IInv, NEW text \in Texts, DelayStep(text)
    PROVE  \/ delayed_length \in 1 .. NVq - 1 /\ is_audio /\ text = "DELAY"
           \/ delayed_length = NVq /\ is_audio /\ text = "END"
           \/ delayed_length = NoDelay /\ is_audio /\ text \in {"GEN", "DELAY"}
           \/ /\ delayed_length = NoDelay /\ ~is_audio
              /\ text \in {"START", "OTHER"}
           \/ /\ delayed_length = NoDelay /\ ~is_audio
              /\ text = "IM_END" /\ time_step > NVq
<1>1. /\ delayed_length \in 1 .. NVq \cup {NoDelay}
      /\ delayed_length # NoDelay => is_audio
      /\ is_audio \in BOOLEAN
      /\ time_step \in Nat
  BY DEF IInv, TypeOK, Phase
<1>2. text \in NextText
  BY DEF DelayStep
<1>3. CASE delayed_length < NVq
  BY <1>1, <1>2, <1>3 DEF NextText
<1>4. CASE delayed_length = NVq
  BY <1>1, <1>2, <1>4 DEF NextText
<1>5. CASE delayed_length = NoDelay
  <2>1. text \in Sampled
    BY <1>2, <1>5 DEF NextText
  <2>2. text = "IM_END" => time_step > NVq
    BY <1>1, <2>1 DEF Sampled
  <2>3. text \in IF is_audio THEN {"GEN", "DELAY"} ELSE {"START", "IM_END", "OTHER"}
    BY <2>1 DEF Sampled
  <2>4. QED
    BY <1>1, <1>5, <2>2, <2>3
<1>6. QED
  BY <1>1, <1>3, <1>4, <1>5

\* The phase after the step.
LEMMA StepPhase ==
    ASSUME IInv, NEW text \in Texts, DelayStep(text)
    PROVE  /\ Phase'
           /\ audio_length' \in Nat
           /\ delayed_length' \in 1 .. NVq \cup {NoDelay}
           /\ is_audio' \in BOOLEAN /\ is_stopping' \in BOOLEAN
<1> USE DEF DelayStep, NextAudioLength, NextDelayedLength
<1>1. /\ audio_length \in Nat /\ time_step \in Nat /\ time_step' = time_step + 1
      /\ audio_length <= time_step + 1
      /\ audio_length = 0 <=> ~is_audio
      /\ delayed_length # NoDelay => audio_length > delayed_length
  BY DEF IInv, TypeOK, Phase
<1>2. CASE delayed_length \in 1 .. NVq - 1 /\ is_audio /\ text = "DELAY"
  <2>1. audio_length' = audio_length + 1 /\ delayed_length' = delayed_length + 1
    BY <1>1, <1>2
  <2>2. is_audio' = TRUE /\ is_stopping' = FALSE
    BY <1>2
  <2>3. QED
    BY <1>1, <1>2, <2>1, <2>2 DEF Phase
<1>3. CASE delayed_length = NVq /\ is_audio /\ text = "END"
  <2>1. audio_length' = 0 /\ delayed_length' = NoDelay
    BY <1>1, <1>3
  <2>2. is_audio' = FALSE /\ is_stopping' = FALSE
    BY <1>3
  <2>3. QED
    BY <1>1, <1>3, <2>1, <2>2 DEF Phase
<1>4. CASE delayed_length = NoDelay /\ is_audio /\ text = "GEN"
  <2>1. audio_length' = audio_length + 1 /\ delayed_length' = NoDelay
    BY <1>1, <1>4
  <2>2. is_audio' = TRUE /\ is_stopping' = FALSE
    BY <1>4
  <2>3. QED
    BY <1>1, <1>4, <2>1, <2>2 DEF Phase
<1>5. CASE delayed_length = NoDelay /\ is_audio /\ text = "DELAY"
  <2>1. audio_length' = audio_length + 1 /\ delayed_length' = 1
    BY <1>1, <1>5
  <2>2. is_audio' = TRUE /\ is_stopping' = FALSE
    BY <1>5
  <2>3. QED
    BY <1>1, <1>5, <2>1, <2>2 DEF Phase
<1>6. CASE delayed_length = NoDelay /\ ~is_audio /\ text = "START"
  <2>1. audio_length' = audio_length + 1 /\ delayed_length' = NoDelay
    BY <1>1, <1>6
  <2>2. is_audio' = TRUE /\ is_stopping' = FALSE
    BY <1>6
  <2>3. QED
    BY <1>1, <1>6, <2>1, <2>2 DEF Phase
<1>7. CASE delayed_length = NoDelay /\ ~is_audio /\ text = "OTHER"
  <2>1. audio_length' = 0 /\ delayed_length' = NoDelay
    BY <1>1, <1>7
  <2>2. is_audio' = FALSE /\ is_stopping' = FALSE
    BY <1>7
  <2>3. QED
    BY <1>1, <1>7, <2>1, <2>2 DEF Phase
<1>8. CASE delayed_length = NoDelay /\ ~is_audio /\ text = "IM_END"
  <2>1. audio_length' = 0 /\ delayed_length' = NoDelay
    BY <1>1, <1>8
  <2>2. is_audio' = FALSE /\ is_stopping' = TRUE
    BY <1>8
  <2>3. QED
    BY <1>1, <1>8, <2>1, <2>2 DEF Phase
<1>9. QED
  BY <1>2, <1>3, <1>4, <1>5, <1>6, <1>7, <1>8, TextCases

\* The row that is appended.
LEMMA StepRow ==
    ASSUME IInv, NEW text \in Texts, DelayStep(text)
    PROVE  /\ audio_buf' \in Seq(SUBSET Streams)
           /\ Len(audio_buf) \in Nat
           /\ Len(audio_buf') = Len(audio_buf) + 1
           /\ \A i \in 1 .. Len(audio_buf) : audio_buf'[i] = audio_buf[i]
           /\ audio_buf'[Len(audio_buf) + 1] = NextAudio
<1>1. NextAudio \in SUBSET Streams
  BY DEF NextAudio
<1>2. audio_buf \in Seq(SUBSET Streams)
  BY DEF IInv, TypeOK
<1>3. audio_buf' = Append(audio_buf, NextAudio)
  BY DEF DelayStep
<1>4. QED
  BY <1>1, <1>2, <1>3, AppendProperties, LenProperties

\* The row after it continues it, whatever the text token was.
LEMMA StepContinues ==
    ASSUME IInv, NEW text \in Texts, DelayStep(text)
    PROVE  \A s \in Streams \ {0} : s - 1 \in NextAudio <=> s \in NextAudio'
<1> TAKE s \in Streams \ {0}
<1>1. /\ s \in Nat /\ s >= 1 /\ s < NVq /\ s - 1 \in Streams
      /\ audio_length \in Nat
      /\ audio_length = 0 <=> ~is_audio
      /\ delayed_length # NoDelay => audio_length > delayed_length
  BY DEF Streams, IInv, TypeOK, Phase
<1> USE DEF DelayStep, NextAudioLength, NextDelayedLength, NextAudio
<1>2. CASE delayed_length \in 1 .. NVq - 1 /\ is_audio /\ text = "DELAY"
  <2>1. audio_length' = audio_length + 1 /\ delayed_length' = delayed_length + 1
    BY <1>2
  <2>2. QED
    BY <1>1, <1>2, <2>1
<1>3. CASE delayed_length = NVq /\ is_audio /\ text = "END"
  <2>1. audio_length' = 0 /\ delayed_length' = NoDelay
    BY <1>3
  <2>2. QED
    BY <1>1, <1>3, <2>1
<1>4. CASE delayed_length = NoDelay /\ is_audio /\ text \in {"GEN", "DELAY"}
  <2>1. /\ audio_length' = audio_length + 1
        /\ delayed_length' = IF text = "DELAY" THEN 1 ELSE NoDelay
    BY <1>4
  <2>2. QED
    BY <1>1, <1>4, <2>1
<1>5. CASE delayed_length = NoDelay /\ ~is_audio /\ text \in {"START", "OTHER", "IM_END"}
  <2>1. audio_length = 0 /\ audio_length' \in {0, 1} /\ delayed_length' = NoDelay
    BY <1>1, <1>5
  <2>2. QED
    BY <1>1, <1>5, <2>1
<1>6. QED
  BY <1>2, <1>3, <1>4, <1>5, TextCases

LEMMA StepDiagonal ==
    ASSUME IInv, NEW text \in Texts, DelayStep(text)
    PROVE  Diagonal' /\ Continues'
<1> DEFINE L == Len(audio_buf)
<1>1. L \in Nat /\ L >= 1
  BY StepRow DEF IInv, TypeOK, PromptRows
<1>2. Diagonal /\ Continues
  BY DEF IInv
<1>3. ASSUME NEW i \in 1 .. L + 1, NEW s \in Streams
      PROVE  s \in audio_buf'[i] <=> i - s >= 1 /\ 0 \in audio_buf'[i - s]
  <2>1. s \in Nat /\ s < NVq /\ 0 \in Streams
    BY DEF Streams
  <2>2. CASE i \in 1 .. L
    <3>1. s \in audio_buf'[i] <=> i - s >= 1 /\ 0 \in audio_buf[i - s]
      BY <1>1, <1>2, <2>2, StepRow DEF Diagonal
    <3>2. i - s >= 1 => i - s \in 1 .. L
      BY <1>1, <2>1, <2>2
    <3>3. QED
      BY <3>1, <3>2, StepRow
  <2>3. CASE i = L + 1 /\ s = 0
    BY <1>1, <2>3
  <2>4. CASE i = L + 1 /\ s # 0
    <3>1. s \in audio_buf'[i] <=> s - 1 \in audio_buf[L]
      BY <1>1, <1>2, <2>4, StepRow DEF Continues
    <3>2. L \in 1 .. L /\ s - 1 \in Streams /\ L - (s - 1) = i - s
      BY <1>1, <2>1, <2>4 DEF Streams
    <3>3. s - 1 \in audio_buf[L] <=> i - s >= 1 /\ 0 \in audio_buf[i - s]
      BY <1>2, <3>2 DEF Diagonal
    <3>4. i - s >= 1 => i - s \in 1 .. L
      BY <1>1, <2>1, <2>4
    <3>5. QED
      BY <3>1, <3>3, <3>4, StepRow
  <2>5. QED
    BY <1>1, <2>2, <2>3, <2>4
<1>4. Diagonal'
  BY <1>3, StepRow DEF Diagonal
<1>5. Continues'
  BY <1>1, StepRow, StepContinues DEF Continues
<1>6. QED
  BY <1>4, <1>5

LEMMA StepFlushed ==
    ASSUME IInv, NEW text \in Texts, DelayStep(text)
    PROVE  Flushed'
<1> DEFINE L == Len(audio_buf)
<1>1. /\ L \in Nat
      /\ delayed_length \in 1 .. NVq \cup {NoDelay}
      /\ audio_length \in Nat
      /\ audio_length = 0 <=> ~is_audio
      /\ Flushed
  BY StepRow DEF IInv, TypeOK, Phase
<1> SUFFICES ASSUME NEW t \in 1 .. L + 1, 0 \in audio_buf'[t]
             PROVE  /\ delayed_length' # NoDelay => t <= (L + 1) - delayed_length' + 1
                    /\ ~is_audio' => t <= (L + 1) - NVq
  BY StepRow DEF Flushed
<1>2. t \in 1 .. L => 0 \in audio_buf[t]
  BY StepRow
<1>3. t = L + 1 => 0 \in NextAudio
  BY StepRow
<1>4. t \in 1 .. L \/ t = L + 1
  BY <1>1
<1> USE DEF DelayStep, NextDelayedLength
<1>5. CASE delayed_length \in 1 .. NVq - 1 /\ is_audio /\ text = "DELAY"
  <2>1. delayed_length' = delayed_length + 1
    BY <1>1, <1>5
  <2>2. 0 \notin NextAudio
    BY <1>5 DEF NextAudio
  <2>3. t <= L - delayed_length + 1
    BY <1>1, <1>2, <1>3, <1>4, <1>5, <2>2 DEF Flushed
  <2>4. is_audio' = TRUE
    BY <1>5
  <2>5. QED
    BY <1>1, <1>5, <2>1, <2>3, <2>4
<1>6. CASE delayed_length = NVq /\ is_audio /\ text = "END"
  <2>1. delayed_length' = NoDelay
    BY <1>6
  <2>2. 0 \notin NextAudio
    BY <1>6 DEF NextAudio
  <2>3. t <= L - NVq + 1
    BY <1>1, <1>2, <1>3, <1>4, <1>6, <2>2 DEF Flushed
  <2>4. QED
    BY <1>1, <2>1, <2>3
<1>7. CASE delayed_length = NoDelay /\ is_audio /\ text \in {"GEN", "DELAY"}
  <2>1. delayed_length' = IF text = "DELAY" THEN 1 ELSE NoDelay
    BY <1>7
  <2>2. is_audio' = TRUE
    BY <1>7
  <2>3. QED
    BY <1>1, <2>1, <2>2
<1>8. CASE delayed_length = NoDelay /\ text = "START"
  <2>1. delayed_length' = NoDelay
    BY <1>8
  <2>2. is_audio' = TRUE
    BY <1>8
  <2>3. QED
    BY <2>1, <2>2
<1>9. CASE delayed_length = NoDelay /\ ~is_audio /\ text \in {"OTHER", "IM_END"}
  <2>1. delayed_length' = NoDelay
    BY <1>9
  <2>2. 0 \notin NextAudio
    BY <1>1, <1>9 DEF NextAudio
  <2>3. t <= L - NVq
    BY <1>1, <1>2, <1>3, <1>4, <1>9, <2>2 DEF Flushed
  <2>4. QED
    BY <1>1, <2>1, <2>3
<1>10. QED
  BY <1>5, <1>6, <1>7, <1>8, <1>9, TextCases

LEMMA StepStreamed ==
    ASSUME IInv, NEW text \in Texts, DelayStep(text), Generating, StreamNew, UNCHANGED request
    PROVE  Streamed' /\ decoded_frames' \in Nat /\ outcome' \in {"generating", "ok", "error"}
<1>1. /\ Len(audio_buf) \in Nat /\ Len(audio_buf') = Len(audio_buf) + 1
      /\ decoded_frames \in Nat /\ time_step \in Nat /\ time_step' = time_step + 1
      /\ outcome \in {"generating", "ok", "error"}
      /\ is_stopping' \in BOOLEAN
      /\ Streaming' = Streaming
  BY StepRow, StepPhase DEF IInv, TypeOK, DelayStep, Streaming, request
<1>2. /\ Rows(audio_buf) \in Nat /\ Rows(audio_buf') \in Nat
      /\ Rows(audio_buf) <= Rows(audio_buf') /\ Rows(audio_buf') <= Rows(audio_buf) + 1
  BY <1>1 DEF Rows
<1>3. outcome' \in {"generating", "ok", "error"}
  BY <1>1 DEF StreamNew, Emit
<1>4. CASE ~Streaming
  BY <1>1, <1>3, <1>4 DEF StreamNew, Streamed
<1>5. CASE Streaming
  <2>1. /\ time_step = 0 => decoded_frames = 0
        /\ time_step > 0 => decoded_frames = Rows(audio_buf)
    BY <1>5 DEF IInv, Streamed, Generating
  <2>2. CASE is_stopping'
    <3>1. time_step > NVq
      BY <2>2, TextCases DEF DelayStep
    <3>2. decoded_frames' = decoded_frames
      BY <2>2 DEF StreamNew
    <3>3. QED
      BY <1>1, <1>2, <1>3, <2>1, <2>2, <3>1, <3>2 DEF Streamed
  <2>3. CASE ~is_stopping'
    <3>1. decoded_frames' = Rows(audio_buf')
      <4>1. CASE Rows(audio_buf') > decoded_frames
        BY <1>5, <2>3, <4>1 DEF StreamNew
      <4>2. CASE ~(Rows(audio_buf') > decoded_frames)
        <5>1. decoded_frames' = decoded_frames
          BY <4>2 DEF StreamNew
        <5>2. decoded_frames <= Rows(audio_buf)
          BY <1>1, <1>2, <2>1
        <5>3. QED
          BY <1>1, <1>2, <4>2, <5>1, <5>2
      <4>3. QED
        BY <4>1, <4>2
    <3>2. QED
      BY <1>1, <1>2, <1>3, <2>3, <3>1 DEF Streamed
  <2>4. QED
    BY <1>1, <2>2, <2>3
<1>6. QED
  BY <1>4, <1>5

-----------------------------------------------------------------------------
(* Every step *)

LEMMA NextIInv == IInv /\ [Next]_vars => IInv'
<1> SUFFICES ASSUME IInv, [Next]_vars PROVE IInv'
  OBVIOUS
<1>1. ASSUME Step PROVE IInv'
  <2>1. PICK text \in Texts : DelayStep(text)
    BY <1>1 DEF Step
  <2>2. Generating /\ StreamNew /\ UNCHANGED request
    BY <1>1 DEF Step
  <2>3. Phase' /\ Diagonal' /\ Continues' /\ Flushed' /\ Streamed'
    BY <2>1, <2>2, StepPhase, StepDiagonal, StepFlushed, StepStreamed
  <2>4. PromptRows'
    <3>1. /\ total_S' = total_S /\ reference' = reference
          /\ time_step' = time_step + 1
          /\ total_S \in Nat /\ time_step \in Nat
      BY <2>1, <2>2 DEF request, DelayStep, IInv, TypeOK
    <3>2. Len(audio_buf) = total_S + time_step
          /\ \A t \in 1 .. total_S : 0 \in audio_buf[t] <=> t \in reference
      BY DEF IInv, PromptRows
    <3>3. QED
      BY <2>1, <3>1, <3>2, StepRow DEF PromptRows
  <2>5. TypeOK'
    <3>1. time_step' \in 0 .. MaxSteps
      BY <2>1, <2>2 DEF Generating, DelayStep, IInv, TypeOK
    <3>2. audio_length' \in 0 .. MaxSteps + 1
      BY <2>1, <2>3, <3>1, StepPhase DEF Phase
    <3>3. /\ delayed_length' \in 1 .. NVq \cup {NoDelay}
          /\ is_audio' \in BOOLEAN /\ is_stopping' \in BOOLEAN
      BY <2>1, StepPhase
    <3>4. audio_buf' \in Seq(SUBSET Streams)
      BY <2>1, StepRow
    <3>5. decoded_frames' \in Nat /\ outcome' \in {"generating", "ok", "error"}
      BY <2>1, <2>2, StepStreamed
    <3>6. /\ mode' \in Modes /\ codec' \in BOOLEAN /\ total_S' \in Nat \ {0}
          /\ reference' \subseteq 1 .. total_S'
      BY <2>2 DEF request, IInv, TypeOK
    <3>7. QED
      BY <3>1, <3>2, <3>3, <3>4, <3>5, <3>6 DEF TypeOK
  <2>6. Ended'
    BY <2>2 DEF Generating, StreamNew, Emit, Ended
  <2>7. QED
    BY <2>3, <2>4, <2>5, <2>6 DEF IInv
<1>2. ASSUME UNCHANGED <<request, state, decoded_frames>>,
             outcome' \in {"generating", "ok", "error"},
             Ended'
      PROVE  IInv'
  BY <1>2 DEF IInv, TypeOK, Diagonal, Continues, NextAudio, Flushed, Phase, PromptRows,
     Streamed, Streaming, request, state
<1>3. ASSUME StepFails \/ FinishBatch \/ FinishStream \/ Over \/ UNCHANGED vars PROVE IInv'
  <2>1. /\ UNCHANGED <<request, state, decoded_frames>>
        /\ outcome' \in {"generating", "ok", "error"}
    BY <1>3 DEF StepFails, FinishBatch, FinishStream, Over, vars, IInv, TypeOK
  <2>2. ~Generating /\ outcome = "generating" => is_stopping \/ time_step = MaxSteps
    BY DEF Generating, IInv, TypeOK
  <2>3. Ended'
    BY <1>3, <2>1, <2>2 DEF StepFails, FinishBatch, FinishStream, Over, vars, state, IInv, Ended
  <2>4. QED
    BY <1>2, <2>1, <2>3
<1>4. QED
  BY <1>1, <1>3 DEF Next

\* In every reachable state: the inductive invariant.
THEOREM Invariant == Spec => []IInv
<1>1. QED
  BY InitIInv, NextIInv, PTL DEF Spec

-----------------------------------------------------------------------------
(* What follows from it *)

\* A row that is decoded never mixes codes and padding: delay_step's two edges
\* and apply_de_delay_pattern agree for every number of codebooks.
LEMMA FramesWhole == Spec => []WholeFrames
<1>1. IInv => WholeFrames
  BY WholeRow DEF IInv, WholeFrames
<1>2. QED
  BY <1>1, Invariant, PTL

\* A generation that stopped by itself is extracted in full.
LEMMA NoneDropped == Spec => []NothingDropped
<1>1. ASSUME IInv PROVE NothingDropped
  <2> SUFFICES ASSUME is_stopping, NEW i \in 1 .. Len(audio_buf), NEW s \in audio_buf[i]
               PROVE  i - s \in Frames(audio_buf)
    BY DEF NothingDropped
  <2>1. Len(audio_buf) \in Nat /\ audio_buf[i] \subseteq Streams
    BY <1>1, LenProperties, ElementOfSeq DEF IInv, TypeOK
  <2>2. i - s >= 1 /\ 0 \in audio_buf[i - s] /\ s \in Nat
    BY <1>1, <2>1 DEF IInv, Diagonal, Streams
  <2>3. i - s \in 1 .. Len(audio_buf)
    BY <2>1, <2>2
  <2>4. i - s <= Len(audio_buf) - NVq
    BY <1>1, <2>2, <2>3 DEF IInv, Flushed, Phase
  <2>5. i - s \in 1 .. Rows(audio_buf)
    BY <2>1, <2>2, <2>3, <2>4 DEF Rows
  <2>6. QED
    BY <1>1, <2>2, <2>5, FrameStarts DEF IInv
<1>2. QED
  BY <1>1, Invariant, PTL

\* apply_delay_pattern, delay_step and apply_de_delay_pattern return the
\* reference frames as they went in.
LEMMA ReferenceKept == Spec => []ReferenceIntact
<1>1. ASSUME IInv PROVE ReferenceIntact
  <2>1. /\ reference \subseteq 1 .. total_S /\ total_S \in Nat /\ time_step \in Nat
        /\ \A t \in 1 .. total_S : 0 \in audio_buf[t] <=> t \in reference
    BY <1>1 DEF IInv, TypeOK, PromptRows
  <2>2. Rows(audio_buf) \in Nat
    BY <1>1, LenProperties DEF IInv, TypeOK, Rows
  <2>3. Frames(audio_buf) = {t \in 1 .. Rows(audio_buf) : 0 \in audio_buf[t]}
    BY <1>1, FrameStarts DEF IInv
  <2>4. ASSUME NEW t
        PROVE  t \in {u \in Frames(audio_buf) : u <= total_S}
                 <=> t \in {u \in reference : u <= Rows(audio_buf)}
    <3>1. t \in reference => t \in 1 .. total_S
      BY <2>1
    <3>2. CASE t \in 1 .. total_S
      BY <2>1, <2>2, <2>3, <3>2
    <3>3. CASE t \notin 1 .. total_S
      BY <2>1, <2>2, <2>3, <3>1, <3>3
    <3>4. QED
      BY <3>2, <3>3
  <2>5. QED
    BY <2>4 DEF ReferenceIntact
<1>2. QED
  BY <1>1, Invariant, PTL

\* The delay pattern of any number of codebooks is undone exactly, for every
\* text, at every moment of a generation of any length.
THEOREM PatternUndone == Spec => []DelayUndone
<1>1. WholeFrames /\ NothingDropped /\ ReferenceIntact => DelayUndone
  BY DEF DelayUndone
<1>2. QED
  BY <1>1, FramesWhole, NoneDropped, ReferenceKept, PTL

-----------------------------------------------------------------------------
(* Every frame once *)

\* Where the loop may end, the rows the loop is done with hold every frame.
LEMMA FramesDone ==
    ASSUME IInv, Streaming, is_stopping \/ time_step = MaxSteps
    PROVE  Frames(audio_buf) \subseteq 1 .. decoded_frames
<1> SUFFICES ASSUME NEW t \in Frames(audio_buf) PROVE t \in 1 .. decoded_frames
  OBVIOUS
<1>1. /\ Len(audio_buf) \in Nat /\ decoded_frames \in Nat
      /\ Rows(audio_buf) \in Nat
  BY LenProperties DEF IInv, TypeOK, Rows
<1>2. t \in 1 .. Rows(audio_buf) /\ t \in 1 .. Len(audio_buf) /\ 0 \in audio_buf[t]
  BY FrameStarts, WholeRow DEF IInv
<1>3. CASE is_stopping
  <2>1. t <= Len(audio_buf) - NVq
    BY <1>2, <1>3 DEF IInv, Flushed, Phase
  <2>2. t < Rows(audio_buf)
    BY <1>1, <1>2, <2>1 DEF Rows
  <2>3. decoded_frames + 1 >= Rows(audio_buf)
    BY <1>3 DEF IInv, Streamed
  <2>4. QED
    BY <1>1, <1>2, <2>2, <2>3
<1>4. CASE ~is_stopping
  <2>1. time_step > 0
    BY <1>4
  <2>2. decoded_frames = Rows(audio_buf)
    BY <1>4, <2>1 DEF IInv, Streamed
  <2>3. QED
    BY <1>2, <2>2
<1>5. QED
  BY <1>3, <1>4

\* The final flush of finish_run_tts finds no frame left: there are no more
\* frames than rows the loop is done with.
LEMMA NothingLeft ==
    ASSUME IInv, FinishStream, streamed \in Seq(Nat)
    PROVE  UNCHANGED <<request, audio_buf, decoded_frames, streamed, skipped>>
<1>1. decoded_frames \in Nat /\ Streaming /\ (is_stopping \/ time_step = MaxSteps)
  BY DEF IInv, TypeOK, FinishStream, Generating
<1>2. Frames(audio_buf) \subseteq 1 .. decoded_frames
  BY <1>1, FramesDone
<1>3. IsFiniteSet(1 .. decoded_frames) /\ Cardinality(1 .. decoded_frames) = decoded_frames
  BY <1>1, FS_Interval
<1>4. IsFiniteSet(Frames(audio_buf)) /\ Cardinality(Frames(audio_buf)) <= decoded_frames
  BY <1>2, <1>3, FS_Subset
<1>5. Cardinality(Frames(audio_buf)) \in Nat
  BY <1>4, FS_CardinalityType
<1> DEFINE segments == Segments(audio_buf)
           rest == SubSeq(segments, decoded_frames + 1, Len(segments))
<1>6. Len(segments) = Cardinality(Frames(audio_buf))
  BY <1>5 DEF Segments
<1>7. rest = <<>>
  <2> DEFINE n == Len(segments)
  <2>1. n \in Nat /\ n <= decoded_frames
    BY <1>4, <1>5, <1>6
  <2> HIDE DEF n, segments
  <2>2. SubSeq(segments, decoded_frames + 1, n) = <<>>
    BY <1>1, <2>1
  <2>3. QED
    BY <2>2 DEF n
<1>8. Sound(rest) \/ UNCHANGED <<streamed, skipped>>
  BY DEF FinishStream
<1>9. UNCHANGED <<streamed, skipped>>
  <2> DEFINE none == <<>>
  <2>4. {none[k] : k \in DOMAIN none} = {}
    OBVIOUS
  <2> HIDE DEF none
  <2>5. Sound(none) => streamed' \in {streamed, streamed \o none} /\ skipped' = skipped
    BY <2>4 DEF Sound
  <2> USE DEF none
  <2>1. Sound(<<>>) => streamed' \in {streamed, streamed \o <<>>} /\ skipped' = skipped
    BY <2>5
  <2>2. streamed \o <<>> = streamed
    OBVIOUS
  <2> HIDE DEF rest
  <2>3. QED
    BY <1>7, <1>8, <2>1, <2>2
<1>10. QED
  BY <1>9 DEF FinishStream, state

\* The rows that were streamed, in order, are among those the loop is done with.
Once(rows, done) ==
    /\ rows \in Seq(Nat)
    /\ \A j \in 1 .. Len(rows) : rows[j] \in 1 .. done
    /\ \A j, k \in 1 .. Len(rows) : j < k => rows[j] < rows[k]

\* And the loop is done with a row when it was streamed or its decode threw,
\* unless the stream was given up.
OnceInv ==
    /\ Once(streamed, decoded_frames) /\ decoded_frames <= Rows(audio_buf)
    /\ skipped \subseteq 1 .. decoded_frames /\ Sent \cap skipped = {}
    /\ outcome # "error" => 1 .. decoded_frames \subseteq Sent \cup skipped

\* The rows after them may follow.
LEMMA OnceMore ==
    ASSUME NEW d \in Nat, NEW a \in Nat, d < a, NEW rows, Once(rows, d)
    PROVE  /\ Once(rows, a)
           /\ Once(rows \o [k \in 1 .. a - d |-> d + k], a)
<1> DEFINE new == [k \in 1 .. a - d |-> d + k]
           n == Len(rows)
<1>1. rows \in Seq(Nat) /\ n \in Nat /\ a - d \in Nat
  BY DEF Once
<1>2. new \in Seq(Nat) /\ Len(new) = a - d
  BY <1>1
<1>3. /\ rows \o new \in Seq(Nat)
      /\ Len(rows \o new) = n + (a - d)
      /\ \A i \in 1 .. n + (a - d) :
            (rows \o new)[i] = IF i <= n THEN rows[i] ELSE new[i - n]
  BY <1>1, <1>2, ConcatProperties
<1>4. \A i \in 1 .. n + (a - d) :
         (rows \o new)[i] = IF i <= n THEN rows[i] ELSE d + (i - n)
  BY <1>1, <1>3
<1>5. /\ \A j \in 1 .. n : rows[j] \in Nat /\ 1 <= rows[j] /\ rows[j] <= d
      /\ \A j, k \in 1 .. n : j < k => rows[j] < rows[k]
  BY DEF Once
<1> DEFINE all == rows \o new
<1>6. \A i \in 1 .. n + (a - d) : all[i] = IF i <= n THEN rows[i] ELSE d + (i - n)
  BY <1>4
<1>7. all \in Seq(Nat) /\ Len(all) = n + (a - d)
  BY <1>3
<1> HIDE DEF all, n, new
<1>8. \A i \in 1 .. n + (a - d) : all[i] \in 1 .. a
  BY <1>1, <1>5, <1>6
<1>9. \A j, k \in 1 .. n + (a - d) : j < k => all[j] < all[k]
  BY <1>1, <1>5, <1>6
<1>10. Once(all, a)
  BY <1>7, <1>8, <1>9 DEF Once
<1>11. Once(rows, a)
  BY <1>1, <1>5 DEF Once, n
<1>12. QED
  BY <1>10, <1>11 DEF all, new

\* What is sent when rows from d on follow, up to a.
LEMMA SentMore ==
    ASSUME NEW d \in Nat, NEW a \in Nat, d < a, NEW rows \in Seq(Nat)
    PROVE  LET new == [k \in 1 .. a - d |-> d + k]
               all == rows \o new
           IN  /\ {new[k] : k \in DOMAIN new} = (d + 1) .. a
               /\ {all[k] : k \in DOMAIN all} = {rows[k] : k \in DOMAIN rows} \cup (d + 1) .. a
<1> DEFINE new == [k \in 1 .. a - d |-> d + k]
           all == rows \o new
           n == Len(rows)
<1>1. /\ n \in Nat /\ new \in Seq(Nat) /\ Len(new) = a - d /\ DOMAIN rows = 1 .. n
      /\ DOMAIN new = 1 .. a - d /\ \A k \in 1 .. a - d : new[k] = d + k
  BY LenProperties
<1>2. ASSUME NEW i \in (d + 1) .. a PROVE i - d \in 1 .. a - d /\ d + (i - d) = i
  BY <1>2
<1>3. /\ all \in Seq(Nat) /\ Len(all) = n + (a - d) /\ DOMAIN all = 1 .. n + (a - d)
      /\ \A i \in 1 .. n + (a - d) : all[i] = IF i <= n THEN rows[i] ELSE new[i - n]
  BY <1>1, ConcatProperties, LenProperties
<1> HIDE DEF new, all, n
<1>4. {new[k] : k \in DOMAIN new} = (d + 1) .. a
  <2>1. ASSUME NEW k \in DOMAIN new PROVE new[k] \in (d + 1) .. a
    BY <1>1
  <2>2. ASSUME NEW i \in (d + 1) .. a PROVE i \in {new[k] : k \in DOMAIN new}
    <3>1. i - d \in DOMAIN new /\ new[i - d] = i
      BY <1>1, <1>2
    <3>2. QED
      BY <3>1
  <2>3. QED
    BY <2>1, <2>2
<1>5. ASSUME NEW i \in 1 .. n + (a - d)
      PROVE  all[i] \in {rows[k] : k \in DOMAIN rows} \cup (d + 1) .. a
  <2>1. CASE i <= n
    <3>1. i \in 1 .. n
      BY <1>1, <2>1
    <3>2. QED
      BY <1>1, <1>3, <2>1, <3>1
  <2>2. CASE ~(i <= n)
    <3>1. i - n \in 1 .. a - d /\ all[i] = new[i - n]
      BY <1>1, <1>3, <2>2
    <3>2. new[i - n] = d + (i - n) /\ d + (i - n) \in (d + 1) .. a
      BY <1>1, <3>1
    <3>3. QED
      BY <3>1, <3>2
  <2>3. QED
    BY <2>1, <2>2
<1>6. ASSUME NEW k \in 1 .. n PROVE k \in 1 .. n + (a - d) /\ all[k] = rows[k]
  BY <1>1, <1>3
<1>7. ASSUME NEW i \in (d + 1) .. a
      PROVE  n + (i - d) \in 1 .. n + (a - d) /\ all[n + (i - d)] = i
  <2>1. n + (i - d) \in 1 .. n + (a - d) /\ ~(n + (i - d) <= n) /\ n + (i - d) - n = i - d
    BY <1>1, <1>2
  <2>2. QED
    BY <1>1, <1>2, <1>3, <2>1
<1>8. {all[k] : k \in DOMAIN all} = {rows[k] : k \in DOMAIN rows} \cup (d + 1) .. a
  <2>1. ASSUME NEW k \in DOMAIN all
        PROVE  all[k] \in {rows[j] : j \in DOMAIN rows} \cup (d + 1) .. a
    BY <1>3, <1>5
  <2>2. ASSUME NEW k \in DOMAIN rows PROVE rows[k] \in {all[j] : j \in DOMAIN all}
    BY <1>1, <1>3, <1>6
  <2>3. ASSUME NEW i \in (d + 1) .. a PROVE i \in {all[k] : k \in DOMAIN all}
    BY <1>3, <1>7
  <2>4. QED
    BY <2>1, <2>2, <2>3
<1>9. QED
  BY <1>4, <1>8 DEF new, all

LEMMA OnceStays == IInv /\ OnceInv /\ [Next]_vars => OnceInv'
<1> SUFFICES ASSUME IInv, OnceInv, [Next]_vars PROVE OnceInv'
  OBVIOUS
<1>1. /\ Len(audio_buf) \in Nat /\ Rows(audio_buf) \in Nat /\ decoded_frames \in Nat
      /\ streamed \in Seq(Nat)
  BY LenProperties DEF IInv, TypeOK, Rows, OnceInv, Once
<1>2. CASE Step
  <2>1. PICK text \in Texts : DelayStep(text)
    BY <1>2 DEF Step
  <2>2. Rows(audio_buf') \in Nat /\ Rows(audio_buf) <= Rows(audio_buf')
    BY <1>1, <2>1, StepRow DEF Rows
  <2>3. StreamNew /\ outcome = "generating"
    BY <1>2 DEF Step, Generating
  <2> DEFINE a == Rows(audio_buf')
             new == [k \in 1 .. a - decoded_frames |-> decoded_frames + k]
  <2>4. CASE UNCHANGED <<decoded_frames, streamed, skipped, outcome>>
    BY <1>1, <2>2, <2>4 DEF OnceInv, Sent
  <2>5. CASE ~UNCHANGED <<decoded_frames, streamed, skipped, outcome>>
    <3>1. a > decoded_frames /\ decoded_frames' = a /\ Emit(new)
      BY <2>3, <2>5 DEF StreamNew
    <3>2. Once(streamed, decoded_frames) /\ a \in Nat /\ decoded_frames < a
      BY <1>1, <2>2, <3>1 DEF OnceInv
    <3> HIDE DEF a
    <3>3. Once(streamed, a) /\ Once(streamed \o new, a)
      BY <1>1, <3>2, OnceMore, Zenon
    <3>4. /\ {new[k] : k \in DOMAIN new} = (decoded_frames + 1) .. a
          /\ {(streamed \o new)[k] : k \in DOMAIN (streamed \o new)}
               = Sent \cup (decoded_frames + 1) .. a
      BY <1>1, <3>2, SentMore, Zenon DEF Sent
    <3> HIDE DEF new
    <3>5. /\ 1 .. decoded_frames \subseteq 1 .. a
          /\ (decoded_frames + 1) .. a \subseteq 1 .. a
          /\ 1 .. a = 1 .. decoded_frames \cup (decoded_frames + 1) .. a
          /\ 1 .. decoded_frames \cap (decoded_frames + 1) .. a = {}
      BY <1>1, <3>2
    <3>6. Sent \subseteq 1 .. decoded_frames /\ skipped \subseteq 1 .. decoded_frames
      BY <1>1, <3>2, LenProperties DEF OnceInv, Once, Sent
    <3>7. /\ Sent \cap skipped = {} /\ 1 .. decoded_frames \subseteq Sent \cup skipped
      BY <2>3 DEF OnceInv
    <3>8. CASE streamed' = streamed \o new /\ skipped' = skipped
      <4>1. Sent' = Sent \cup (decoded_frames + 1) .. a
        BY <3>4, <3>8 DEF Sent
      <4>2. skipped' \subseteq 1 .. a /\ Sent' \cap skipped' = {} /\ 1 .. a \subseteq Sent' \cup skipped'
        BY <3>5, <3>6, <3>7, <3>8, <4>1
      <4>3. QED
        BY <3>1, <3>2, <3>3, <3>8, <4>2 DEF OnceInv, a
    <3>9. CASE skipped' = skipped \cup (decoded_frames + 1) .. a /\ streamed' = streamed
      <4>1. Sent' = Sent
        BY <3>9 DEF Sent
      <4>2. skipped' \subseteq 1 .. a /\ Sent' \cap skipped' = {} /\ 1 .. a \subseteq Sent' \cup skipped'
        BY <3>5, <3>6, <3>7, <3>9, <4>1
      <4>3. QED
        BY <3>1, <3>2, <3>3, <3>9, <4>2 DEF OnceInv, a
    <3>10. CASE outcome' = "error" /\ UNCHANGED <<streamed, skipped>>
      <4>1. Sent' = Sent
        BY <3>10 DEF Sent
      <4>2. skipped' \subseteq 1 .. a /\ Sent' \cap skipped' = {}
        BY <3>5, <3>6, <3>7, <3>10, <4>1
      <4>3. QED
        BY <3>1, <3>2, <3>3, <3>10, <4>2 DEF OnceInv, a
    <3>11. QED
      BY <3>1, <3>4, <3>8, <3>9, <3>10 DEF Emit, Sound
  <2>6. QED
    BY <2>4, <2>5
<1>3. CASE StepFails \/ FinishBatch \/ Over \/ UNCHANGED vars
  BY <1>3 DEF StepFails, FinishBatch, Over, vars, state, OnceInv, Sent
<1>4. CASE FinishStream
  <2>1. UNCHANGED <<audio_buf, decoded_frames, streamed, skipped>> /\ outcome = "generating"
    BY <1>1, <1>4, NothingLeft DEF FinishStream
  <2>2. QED
    BY <2>1 DEF OnceInv, Sent
<1>5. QED
  BY <1>2, <1>3, <1>4 DEF Next

\* A stream that ends well got every frame but those whose decode threw, and no
\* row twice or out of order, whatever the codec or the callback did.
THEOREM StreamDoneHolds == Spec => []StreamDone
<1>1. Init => OnceInv
  <2> SUFFICES ASSUME Init PROVE OnceInv
    OBVIOUS
  <2>1. IInv
    BY InitIInv
  <2>2. Len(audio_buf) \in Nat /\ Rows(audio_buf) \in Nat
    BY <2>1, LenProperties DEF IInv, TypeOK, Rows
  <2>3. streamed = <<>> /\ decoded_frames = 0 /\ skipped = {}
    BY DEF Init
  <2>4. QED
    BY <2>2, <2>3, EmptySeq DEF OnceInv, Once
<1>2. IInv /\ OnceInv => StreamedOnce
  <2> SUFFICES ASSUME IInv, OnceInv PROVE StreamedOnce
    OBVIOUS
  <2>1. Rows(audio_buf) \in Nat /\ decoded_frames \in Nat /\ decoded_frames <= Rows(audio_buf)
    BY LenProperties DEF IInv, TypeOK, Rows, OnceInv
  <2>2. /\ streamed \in Seq(Nat) /\ Len(streamed) \in Nat
        /\ \A j \in 1 .. Len(streamed) : streamed[j] \in 1 .. Rows(audio_buf)
    BY <2>1 DEF OnceInv, Once
  <2>3. streamed \in Seq(1 .. Rows(audio_buf))
    <3> DEFINE n == Len(streamed)
               within == 1 .. Rows(audio_buf)
    <3>1. streamed \in [1 .. n -> Nat] /\ n \in Nat
      BY <2>2, LenProperties
    <3>2. streamed \in [1 .. n -> within]
      BY <2>2, <3>1
    <3> HIDE DEF n, within
    <3>3. streamed \in Seq(within)
      BY <3>1, <3>2
    <3>4. QED
      BY <3>3 DEF within
  <2>4. QED
    BY <2>3 DEF OnceInv, Once, StreamedOnce
<1>3. IInv /\ OnceInv => StreamComplete
  <2> SUFFICES ASSUME IInv, OnceInv, Streaming, outcome = "ok"
               PROVE  Frames(audio_buf) \subseteq Sent \cup skipped
    BY DEF StreamComplete
  <2>1. Frames(audio_buf) \subseteq 1 .. decoded_frames
    BY FramesDone DEF IInv, Ended
  <2>2. 1 .. decoded_frames \subseteq Sent \cup skipped
    BY DEF OnceInv
  <2>3. QED
    BY <2>1, <2>2
<1>4. StreamComplete /\ StreamedOnce => StreamDone
  BY DEF StreamDone
<1>5. QED
  BY <1>1, <1>2, <1>3, <1>4, InitIInv, OnceStays, Invariant, PTL DEF Spec

-----------------------------------------------------------------------------
(* Qwen3-TTS *)

\* A pass that starts where the cache ends is refused for no position, and
\* leaves its rows there.
LEMMA PassContinues ==
    ASSUME NEW r \in Runners, NEW n \in Nat, NEW o \in ForwardEmbeddings(r, n, r.kv)
    PROVE  /\ o.r \in Runners /\ o.why \in {"none", "fault", "context"}
           /\ o.why = "none" => o.r.kv = r.kv + n
<1>1. /\ NCtx \in Nat /\ NUBatch \in Nat /\ r.kv \in 0..NCtx
      /\ r.kv2 \in CacheRows \cup {NoContext}
      /\ \A k \in 0..NCtx : [r EXCEPT !.kv = k] \in Runners /\ [r EXCEPT !.kv = k].kv = k
  BY RunnerAssumption DEF Runners, CacheRows
<1>2. ASSUME NEW i \in 0..n, r.kv + i * NUBatch <= NCtx
      PROVE  [r EXCEPT !.kv = r.kv + i * NUBatch] \in Runners
  <2>1. i * NUBatch \in Nat
    BY <1>1
  <2>2. r.kv + i * NUBatch \in 0..NCtx
    BY <1>1, <1>2, <2>1
  <2>3. QED
    BY <1>1, <2>2
<1>3. ASSUME r.kv + n <= NCtx
      PROVE  [r EXCEPT !.kv = r.kv + n] \in Runners /\ [r EXCEPT !.kv = r.kv + n].kv = r.kv + n
  BY <1>1, <1>3
<1>4. \/ o.why \in {"fault", "context"} /\ \E i \in 0..n : /\ r.kv + i * NUBatch <= NCtx
                                                         /\ o.r = [r EXCEPT !.kv = r.kv + i * NUBatch]
      \/ o.why \in {"none", "fault"} /\ ~(r.kv + n > NCtx) /\ o.r = [r EXCEPT !.kv = r.kv + n]
  BY DEF ForwardEmbeddings
<1>5. ~(r.kv + n > NCtx) => r.kv + n <= NCtx
  BY <1>1
<1>6. QED
  BY <1>2, <1>3, <1>4, <1>5

\* The predictor's passes leave a runner.
LEMMA DecodeLeaves ==
    ASSUME NEW r \in Runners, NEW n \in Nat, NEW pos \in Nat, NEW o \in Decode(r, n, pos)
    PROVE  o.r \in Runners /\ ClearKv(r) \in Runners
BY RunnerAssumption DEF Decode, Outcomes, Verdict, ClearKv, Runners, CacheRows

LEMMA PredictLeaves ==
    ASSUME NEW r \in Runners, NEW asked, NEW books \in Nat, NEW o \in PredictOneStep(r, asked, books)
    PROVE  o.r \in Runners
<1>1. ClearKv(r) \in Runners
  BY RunnerAssumption DEF ClearKv, Runners, CacheRows
<1>2. ASSUME NEW k \in 0..(books - 1), NEW d \in Decode(ClearKv(r), k + 2, 0)
      PROVE  d.r \in Runners /\ \A w : [d EXCEPT !.why = w].r = d.r
  <2>1. d.r \in Runners
    <3>1. k + 2 \in Nat
      OBVIOUS
    <3>2. QED
      BY <1>1, <3>1, DecodeLeaves
  <2>2. d = [why |-> d.why, r |-> d.r]
    BY DEF Decode, Outcomes
  <2>3. QED
    BY <2>1, <2>2
<1>3. \/ o.r = r \/ o.r = ClearKv(r)
      \/ \E k \in 0..(books - 1) : \E d \in Decode(ClearKv(r), k + 2, 0) : \E w :
            o = [d EXCEPT !.why = w]
  BY DEF PredictOneStep
<1>4. QED
  BY <1>1, <1>2, <1>3

LEMMA FineCodesLeave ==
    ASSUME TtsTypeOK, NEW step \in Nat, NEW o \in FineCodes(step)
    PROVE  o.r \in Runners
<1>1. PICK p \in IF parts.books > 0 /\ parts.extras
                 THEN PredictOneStep(predictor, FineBooks, parts.books)
                 ELSE {[why |-> "fault", r |-> predictor]} :
              o = p \/ o \in ForwardTokens(p.r, FineBooks + 1, step * (FineBooks + 1))
  BY DEF FineCodes
<1>2. p.r \in Runners
  BY <1>1, PredictLeaves, TtsAssumption DEF TtsTypeOK
<1>3. FineBooks + 1 \in Nat /\ step * (FineBooks + 1) \in Nat
  BY TtsAssumption
<1>4. QED
  BY <1>1, <1>2, <1>3, DecodeLeaves DEF ForwardTokens

-----------------------------------------------------------------------------
(* The frames that count *)

KeptOf(col) == CHOOSE n \in 0..Len(col) :
                  /\ \A s \in 1..n : col[s] # "zero"
                  /\ n < Len(col) => col[n + 1] = "zero"

\* There is a first frame of zeros, if there is one.
LEMMA KeptIs ==
    ASSUME NEW col \in Seq(TtsFrames)
    PROVE  /\ KeptOf(col) \in 0..Len(col)
           /\ \A s \in 1..KeptOf(col) : col[s] # "zero"
<1> DEFINE zeros == {s \in 1..Len(col) : col[s] = "zero"}
           Is(n) == (\A s \in 1..n : col[s] # "zero") /\ (n < Len(col) => col[n + 1] = "zero")
<1>1. Len(col) \in Nat
  OBVIOUS
<1>2. \E n \in 0..Len(col) : Is(n)
  <2>1. CASE zeros = {}
    BY <1>1, <2>1
  <2>2. CASE zeros # {}
    <3> DEFINE less == {p \in Nat \X Nat : p[1] < p[2]}
    <3>1. IsWellFoundedOn(less, Nat)
      BY NatLessThanWellFounded, Zenon DEF OpToRel
    <3> HIDE DEF less
    <3>2. zeros \subseteq Nat
      OBVIOUS
    <3>3. PICK z \in zeros : \A k \in zeros : <<k, z>> \notin less
      BY <2>2, <3>1, <3>2, WFMin
    <3>4. ASSUME NEW k \in zeros PROVE ~(k < z)
      BY <3>2, <3>3, <3>4 DEF less
    <3>5. z - 1 \in 0..Len(col) /\ (z - 1) + 1 = z /\ col[z] = "zero"
      BY <1>1
    <3>6. ASSUME NEW s \in 1..z - 1 PROVE col[s] # "zero"
      BY <1>1, <3>4
    <3>7. QED
      BY <3>5, <3>6
  <2>3. QED
    BY <2>1, <2>2
<1>3. KeptOf(col) = CHOOSE n \in 0..Len(col) : Is(n)
  BY DEF KeptOf
<1>4. KeptOf(col) \in 0..Len(col) /\ Is(KeptOf(col))
  <2> HIDE DEF Is
  <2>1. QED
    BY <1>2, <1>3
<1>5. QED
  BY <1>4

\* A run of RepeatLimit + 1 equal frames of col from i, none of them behind n.
Frozen(col, i, n) == \A s \in i..i + RepeatLimit : s <= n /\ col[s] = col[i]

\* Frozen runs begin in the first steps only.
Thawed(col, n) == \A i \in 1..n : Frozen(col, i, n) => i + RepeatLimit <= StuckAfter + 1

\* The last r + 1 frames of col are equal.
Same(col, r) == \A s \in Len(col) - r..Len(col) : col[s] = col[Len(col)]

Loop == {"sample", "stream", "feed"}

\* The rows in the talker's cache: those of the prefill, and one per frame that
\* was fed.
TalkerRows ==
    /\ phase \in {"modes", "prefill"} => talker.kv = 0
    /\ phase = "sample" => talker.kv = plan.prefill + Len(column)
    /\ phase \in {"stream", "feed"} => talker.kv = plan.prefill + Len(column) - 1

\* The detector has counted the frames that repeat, and has not fired.
Counted ==
    phase \in Loop =>
        /\ Thawed(column, Len(column))
        /\ \A r \in Nat : r < Len(column) /\ Same(column, r) => repeats >= r

\* What is decoded at each place.
Heard ==
    /\ phase \notin Loop \cup {"decode", "chunks", "answered", "refused"} =>
          column = <<>> /\ decoded = 0 /\ missed = {}
    /\ ~order.stream => missed = {}
    /\ phase \in {"sample", "feed"} => decoded = IF order.stream THEN Len(column) ELSE 0
    /\ phase \in {"stream", "feed"} => Len(column) > 0
    /\ phase = "stream" => order.stream /\ decoded = Len(column) - 1
    /\ phase = "decode" => IF order.stream THEN decoded >= Kept ELSE decoded = 0
    /\ phase = "chunks" => ~order.stream /\ decoded <= Kept
    /\ phase = "answered" => IF order.stream THEN decoded >= Kept ELSE decoded = Kept

TtsInv ==
    /\ TtsTypeOK /\ TtsPositions
    /\ TalkerRows /\ Counted /\ Heard
    /\ phase \in {"decode", "chunks", "answered"} => Thawed(column, Kept)

\* One frame more: what the detector counts then.
LEMMA OneMore ==
    ASSUME NEW c \in Seq(TtsFrames), NEW f \in TtsFrames, NEW rep \in Nat, NEW next,
           \A r \in Nat : r < Len(c) /\ Same(c, r) => rep >= r,
           next = IF c # <<>> /\ f = c[Len(c)] THEN rep + 1 ELSE 0
    PROVE  \A r \in Nat : r < Len(c) + 1 /\ Same(Append(c, f), r) => next >= r
<1> DEFINE d == Append(c, f)
           L == Len(c)
<1>1. /\ L \in Nat /\ d \in Seq(TtsFrames) /\ Len(d) = L + 1 /\ d[L + 1] = f
      /\ \A i \in 1..L : d[i] = c[i]
  OBVIOUS
<1>2. c # <<>> <=> L > 0
  OBVIOUS
<1> SUFFICES ASSUME NEW r \in Nat, r < L + 1, Same(d, r) PROVE next >= r
  OBVIOUS
<1> HIDE DEF d, L
<1>3. next \in Nat
  OBVIOUS
<1>4. CASE r = 0
  BY <1>3, <1>4
<1>5. CASE r > 0
  <2>1. \A s \in L + 1 - r..L + 1 : d[s] = f
    BY <1>1 DEF Same
  <2>2. L \in L + 1 - r..L + 1 /\ L > 0 /\ L \in 1..L
    BY <1>1, <1>5
  <2>3. f = c[L]
    BY <1>1, <2>1, <2>2
  <2>4. next = rep + 1
    BY <1>2, <2>2, <2>3 DEF L
  <2>5. Same(c, r - 1)
    <3>1. ASSUME NEW s \in L - (r - 1)..L PROVE c[s] = c[L]
      <4>1. s \in 1..L /\ s \in L + 1 - r..L + 1
        BY <1>1, <1>5
      <4>2. QED
        BY <1>1, <2>1, <2>3, <4>1
    <3>2. QED
      BY <3>1 DEF Same, L
  <2>6. r - 1 \in Nat /\ r - 1 < L
    BY <1>1, <1>5
  <2>7. rep >= r - 1
    BY <2>5, <2>6 DEF L
  <2>8. QED
    BY <2>4, <2>7
<1>6. QED
  BY <1>4, <1>5

\* The detector does not fire: no frozen run is new but in the first steps.
LEMMA NotStuck ==
    ASSUME NEW c \in Seq(TtsFrames), NEW f \in TtsFrames, NEW next \in Nat,
           Thawed(c, Len(c)),
           \A r \in Nat : r < Len(c) + 1 /\ Same(Append(c, f), r) => next >= r,
           ~(next >= RepeatLimit /\ Len(c) > StuckAfter)
    PROVE  Thawed(Append(c, f), Len(c) + 1)
<1> DEFINE d == Append(c, f)
           L == Len(c)
<1>1. /\ L \in Nat /\ Len(d) = L + 1 /\ \A i \in 1..L : d[i] = c[i]
      /\ RepeatLimit \in Nat /\ RepeatLimit > 0 /\ StuckAfter \in Nat
  BY TtsAssumption
<1> SUFFICES ASSUME NEW i \in 1..L + 1, Frozen(d, i, L + 1)
             PROVE  i + RepeatLimit <= StuckAfter + 1
  BY DEF Thawed
<1> HIDE DEF d, L
<1>2. \A s \in i..i + RepeatLimit : s <= L + 1 /\ d[s] = d[i]
  BY DEF Frozen
<1>3. i + RepeatLimit <= L + 1
  BY <1>1, <1>2
<1>4. CASE i + RepeatLimit <= L
  <2>1. i \in 1..L /\ d[i] = c[i]
    BY <1>1, <1>4
  <2>2. ASSUME NEW s \in i..i + RepeatLimit PROVE s <= L /\ c[s] = c[i]
    <3>1. s \in 1..L
      BY <1>1, <1>4
    <3>2. QED
      BY <1>1, <1>2, <2>1, <3>1
  <2>3. Frozen(c, i, L)
    BY <2>2 DEF Frozen
  <2>4. QED
    BY <2>1, <2>3 DEF Thawed, L
<1>5. CASE i + RepeatLimit = L + 1
  <2>1. Same(d, RepeatLimit)
    <3>1. Len(d) - RepeatLimit = i /\ Len(d) = i + RepeatLimit
      BY <1>1, <1>5
    <3>2. Len(d) \in i..i + RepeatLimit
      BY <1>1, <3>1
    <3>3. QED
      BY <1>2, <3>1, <3>2 DEF Same
  <2>2. RepeatLimit < L + 1
    BY <1>1, <1>5
  <2>3. next >= RepeatLimit
    BY <1>1, <2>1, <2>2 DEF d, L
  <2>4. ~(L > StuckAfter)
    BY <2>3 DEF L
  <2>5. QED
    BY <1>1, <1>5, <2>4
<1>6. QED
  BY <1>1, <1>3, <1>4, <1>5

\* The detector fires: the frames it cuts, the newest among them, do not count,
\* and those before were thawed.
LEMMA Stuck ==
    ASSUME NEW c \in Seq(TtsFrames), NEW f \in TtsFrames, NEW next \in Nat,
           Thawed(c, Len(c)), next >= RepeatLimit
    PROVE  LET cut == Cut(Append(c, f), Len(c) - next + 2)
           IN  /\ cut \in Seq(TtsFrames) /\ Len(cut) = Len(c) + 1
               /\ KeptOf(cut) <= Len(c) /\ KeptOf(cut) \in Nat
               /\ Thawed(cut, KeptOf(cut))
<1> DEFINE d == Append(c, f)
           L == Len(c)
           k == L - next + 2
           cut == Cut(d, k)
           n == KeptOf(cut)
<1>1. /\ L \in Nat /\ Len(d) = L + 1 /\ \A i \in 1..L : d[i] = c[i]
      /\ d \in Seq(TtsFrames)
      /\ RepeatLimit \in Nat /\ RepeatLimit > 1 /\ StuckAfter \in Nat /\ "zero" \in TtsFrames
  BY TtsAssumption
<1>2. k \in Int /\ k <= L
  BY <1>1
<1> HIDE DEF L, k
<1>3. /\ cut = [s \in 1..L + 1 |-> IF s > k THEN "zero" ELSE d[s]]
      /\ \A s \in 1..L + 1 : d[s] \in TtsFrames
  <2>1. cut = [s \in 1..Len(d) |-> IF s > k THEN "zero" ELSE d[s]]
    BY DEF Cut
  <2> HIDE DEF d, cut
  <2>2. QED
    BY <1>1, <2>1
<1> HIDE DEF d, cut, n
<1>4. cut \in Seq(TtsFrames) /\ Len(cut) = L + 1
  BY <1>1, <1>3
<1>5. n \in 0..L + 1 /\ \A s \in 1..n : cut[s] # "zero"
  BY <1>4, KeptIs DEF n
<1>6. cut[L + 1] = "zero"
  BY <1>1, <1>2, <1>3
<1>7. n <= L /\ n \in Nat
  BY <1>1, <1>5, <1>6
<1>8. ASSUME NEW s \in 1..n PROVE s <= L /\ cut[s] = c[s]
  <2>1. s \in 1..L /\ s \in 1..L + 1 /\ cut[s] # "zero"
    BY <1>1, <1>5, <1>7
  <2>2. cut[s] = d[s]
    BY <1>3, <2>1
  <2>3. QED
    BY <1>1, <2>1, <2>2
<1>9. ASSUME NEW i \in 1..n, Frozen(cut, i, n)
      PROVE  i + RepeatLimit <= StuckAfter + 1
  <2>1. ASSUME NEW s \in i..i + RepeatLimit PROVE s <= L /\ c[s] = c[i]
    <3>1. s <= n /\ cut[s] = cut[i]
      BY <1>9 DEF Frozen
    <3>2. s \in 1..n /\ i \in 1..n
      BY <1>1, <1>7, <3>1
    <3>3. QED
      BY <1>8, <3>1, <3>2
  <2>2. Frozen(c, i, L)
    BY <2>1 DEF Frozen
  <2>3. i \in 1..L
    BY <1>1, <1>7
  <2>4. QED
    BY <2>2, <2>3 DEF Thawed, L
<1>10. Thawed(cut, n)
  BY <1>9 DEF Thawed
<1>11. QED
  BY <1>4, <1>7, <1>10 DEF n, cut, k, d, L

\* What holds of all frames holds of those that count.
LEMMA ThawedKept ==
    ASSUME NEW c \in Seq(TtsFrames), Thawed(c, Len(c))
    PROVE  Thawed(c, KeptOf(c))
<1>1. KeptOf(c) \in Nat /\ KeptOf(c) <= Len(c) /\ Len(c) \in Nat /\ RepeatLimit \in Nat
  BY KeptIs, TtsAssumption
<1>2. ASSUME NEW i \in 1..KeptOf(c), Frozen(c, i, KeptOf(c))
      PROVE  Frozen(c, i, Len(c)) /\ i \in 1..Len(c)
  BY <1>1, <1>2 DEF Frozen
<1>3. QED
  BY <1>2 DEF Thawed

LEMMA TtsStarts == TtsInit => TtsInv
<1> SUFFICES ASSUME TtsInit PROVE TtsInv
  OBVIOUS
<1>1. Loaded \in Runners
  BY RunnerAssumption DEF Loaded, Runners, CacheRows
<1>2. order \in Orders /\ order.limit \in Nat
  BY RequestsAssumption, TtsAssumption DEF TtsInit, Orders
<1>3. TtsTypeOK
  BY <1>1, <1>2, TtsAssumption DEF TtsInit, TtsTypeOK, NoParts
<1>4. QED
  BY <1>3 DEF TtsInit, TtsInv, TtsPositions, TalkerRows, Counted, Heard, Loop

\* A step that only loads, before there is any frame.
LEMMA LoadingStays ==
    ASSUME TtsInv, \/ ResolveFiles \/ LoadTalker \/ LoadSpeakerEncoder \/ LoadPredictor \/ LoadCodec
    PROVE  TtsInv'
<1> DEFINE places == {"resolve", "talker", "speaker", "predictor", "codec", "idle"}
<1>0. NoParts \in [extras : BOOLEAN, speaker : BOOLEAN, books : 0..FineBooks,
                   codec : BOOLEAN, encoder : BOOLEAN, design : BOOLEAN]
  <2>1. 0 \in 0..FineBooks
    BY TtsAssumption
  <2>2. QED
    BY <2>1 DEF NoParts
<1>1. /\ phase \in places /\ phase' \in places
      /\ parts' \in [extras : BOOLEAN, speaker : BOOLEAN, books : 0..FineBooks,
                     codec : BOOLEAN, encoder : BOOLEAN, design : BOOLEAN]
      /\ UNCHANGED <<talker, predictor, ttsLoop, verdict>>
  <2>1. CASE ResolveFiles
    BY <2>1 DEF ResolveFiles, Loading, Enter, TtsInv, TtsTypeOK
  <2>2. CASE LoadTalker
    BY <1>0, <2>2 DEF LoadTalker, Loading, LoadFails, Enter, TtsInv, TtsTypeOK
  <2>3. CASE LoadSpeakerEncoder
    BY <2>3 DEF LoadSpeakerEncoder, Loading, Enter, TtsInv, TtsTypeOK
  <2>4. CASE LoadPredictor
    BY <1>0, <2>4 DEF LoadPredictor, Loading, LoadFails, Enter, TtsInv, TtsTypeOK
  <2>5. CASE LoadCodec
    <3> DEFINE Found == [extras : BOOLEAN, speaker : BOOLEAN, books : 0..FineBooks,
                         codec : BOOLEAN, encoder : BOOLEAN, design : BOOLEAN]
               of(c, e) == [parts EXCEPT !.codec = c, !.encoder = e]
    <3>1. ASSUME NEW c \in BOOLEAN, NEW e \in BOOLEAN PROVE of(c, e) \in Found
      BY DEF TtsInv, TtsTypeOK
    <3>7. PICK c \in BOOLEAN :
                Loading("codec", {[parts EXCEPT !.codec = c, !.encoder = c /\ e] : e \in BOOLEAN}, "idle")
      BY <2>5 DEF LoadCodec
    <3>2. PICK e \in BOOLEAN : parts' = [parts EXCEPT !.codec = c, !.encoder = c /\ e]
      BY <3>7 DEF Loading
    <3>5. (c /\ e) \in BOOLEAN
      OBVIOUS
    <3>6. parts' = of(c, c /\ e)
      BY <3>2, Zenon
    <3> HIDE DEF of, Found
    <3>3. parts' \in Found
      BY <3>1, <3>5, <3>6, Zenon
    <3> USE DEF Found
    <3>4. QED
      BY <2>5, <3>3 DEF LoadCodec, Loading, Enter
  <2>6. QED
    BY <2>1, <2>2, <2>3, <2>4, <2>5
<1>2. TtsTypeOK'
  BY <1>1 DEF TtsInv, TtsTypeOK, ttsLoop
<1>3. QED
  BY <1>1, <1>2 DEF TtsInv, TtsPositions, TalkerRows, Counted, Heard, Loop, ttsLoop

\* The rows of a prefill.
LEMMA PrefillRows ==
    ASSUME TtsTypeOK, NEW frames \in ReferenceFrames
    PROVE  InstructTurn + 3 + Overlay(frames) + TextRegion \in Nat /\ Trailing \in Nat
<1>1. /\ order.instruct \in Nat /\ order.transcript \in Nat /\ order.text \in Nat
      /\ frames \in Nat
  <2>1. order \in Orders
    BY RequestsAssumption DEF TtsTypeOK
  <2>2. TextLens \subseteq Nat
    BY TtsAssumption
  <2>3. frames = 0 \/ frames \in TextLens
    BY DEF ReferenceFrames
  <2>4. QED
    <3>1. /\ order.instruct \in TextLens \cup {0} /\ order.transcript \in TextLens \cup {0}
          /\ order.text \in TextLens
      BY <2>1 DEF Orders
    <3>2. ASSUME NEW n \in TextLens \cup {0} PROVE n \in Nat
      BY <2>2
    <3>3. frames \in TextLens \cup {0}
      BY <2>3
    <3>4. order.instruct \in Nat /\ order.transcript \in Nat
      BY <3>1, <3>2, Zenon
    <3>5. order.text \in Nat /\ frames \in Nat
      BY <3>1, <3>2, <3>3
    <3>6. QED
      BY <3>4, <3>5
<1>2. InstructTurn \in Nat /\ TextRegion \in Nat /\ Trailing \in Nat
  BY <1>1 DEF InstructTurn, TextRegion, Trailing
<1>3. Overlay(frames) \in Nat
  BY <1>1 DEF Overlay
<1>4. QED
  BY <1>2, <1>3

\* A request, up to its first sample.
LEMMA PrefillStays ==
    ASSUME TtsInv, (\E o \in Requests : RunTts(o)) \/ CheckModes \/ Prefill
    PROVE  TtsInv'
<1>1. ASSUME NEW o \in Requests, RunTts(o) PROVE TtsInv'
  <2>1. talker' \in Runners /\ predictor' \in Runners /\ talker'.kv = 0
    BY <1>1, RunnerAssumption DEF RunTts, ClearKv, Runners, CacheRows, TtsInv, TtsTypeOK
  <2>2. order' = o /\ o \in Requests /\ order'.limit \in Nat
    BY <1>1, RequestsAssumption, TtsAssumption DEF RunTts, Orders
  <2>3. column = <<>> /\ Len(column) = 0
    BY <1>1 DEF RunTts, TtsInv, Heard, Loop
  <2>4. TtsTypeOK'
    BY <1>1, <2>1, <2>2, <2>3 DEF RunTts, Enter, TtsInv, TtsTypeOK
  <2>5. QED
    BY <1>1, <2>1, <2>4
    DEF RunTts, Enter, TtsInv, TtsPositions, TalkerRows, Counted, Heard, Loop
<1>2. CASE CheckModes
  <2>1. /\ phase = "modes" /\ phase' \in {"refused", "prefill"}
        /\ UNCHANGED <<talker, predictor, parts, order, plan, column, repeats, decoded, missed, ended, verdict>>
    BY <1>2 DEF CheckModes, Enter, ttsSession, ttsLoop
  <2>2. QED
    BY <2>1 DEF TtsInv, TtsTypeOK, TtsPositions, TalkerRows, Counted, Heard, Loop
<1>3. CASE Prefill
  <2>1. plan'.prefill \in Nat /\ plan' \in [prefill : Nat, trail : Nat]
    BY <1>3, PrefillRows DEF Prefill, TtsInv
  <2>2. talker \in Runners /\ talker.kv = 0 /\ column = <<>> /\ Len(column) = 0 /\ decoded = 0
        /\ missed = {}
    BY <1>3 DEF Prefill, TtsInv, TtsTypeOK, TalkerRows, Heard, Loop
  <2>3. PICK o \in ForwardEmbeddings(talker, plan'.prefill, 0) :
              /\ talker' = o.r /\ verdict' = o.why
              /\ phase' = IF o.why = "none" THEN "sample" ELSE "refused"
    BY <1>3 DEF Prefill, Enter
  <2>4. /\ o.r \in Runners /\ o.why \in {"none", "fault", "context"}
        /\ o.why = "none" => o.r.kv = 0 + plan'.prefill
    BY <2>1, <2>2, PassContinues
  <2>5. UNCHANGED <<predictor, parts, order, column, repeats, decoded, missed, ended>>
    BY <1>3 DEF Prefill
  <2>6. TtsTypeOK'
    BY <2>1, <2>3, <2>4, <2>5 DEF TtsInv, TtsTypeOK
  <2>7. Counted'
    BY <2>2, <2>5 DEF Counted, Thawed
  <2>8. TalkerRows' /\ Heard' /\ TtsPositions'
    BY <2>1, <2>2, <2>3, <2>4, <2>5 DEF TalkerRows, Heard, TtsPositions, Loop
  <2>9. QED
    BY <2>3, <2>6, <2>7, <2>8 DEF TtsInv
<1>4. QED
  BY <1>1, <1>2, <1>3

\* The loop ends: the frames that count were in it.
LEMMA StopStays ==
    ASSUME TtsInv, phase \in {"sample", "feed"}, phase' = "decode",
           UNCHANGED <<talker, predictor, parts, order, plan, column, repeats, decoded, missed, verdict>>,
           ended' \in {"limit", "eos", "zero"}
    PROVE  TtsInv'
<1>1. /\ column \in Seq(TtsFrames) /\ Kept = KeptOf(column) /\ Kept' = KeptOf(column)
      /\ KeptOf(column) <= Len(column) /\ KeptOf(column) \in Nat /\ Len(column) \in Nat
  BY KeptIs DEF TtsInv, TtsTypeOK, Kept, KeptOf
<1>2. Thawed(column, KeptOf(column))
  BY ThawedKept DEF TtsInv, TtsTypeOK, Counted, Loop
<1>3. TtsTypeOK'
  BY DEF TtsInv, TtsTypeOK
<1>4. Heard'
  BY <1>1 DEF TtsInv, Heard, Loop
<1>5. QED
  BY <1>1, <1>2, <1>3, <1>4 DEF TtsInv, TtsPositions, TalkerRows, Counted, Loop

LEMMA SampleStays == ASSUME TtsInv, SampleFrame PROVE TtsInv'
<1> DEFINE c == column
           L == Len(column)
<1>1. /\ c \in Seq(TtsFrames) /\ L \in Nat /\ repeats \in Nat /\ phase = "sample"
      /\ L < order.limit /\ order \in Requests /\ order.limit \in Nat
      /\ UNCHANGED <<talker, parts, order, plan, decoded, missed, verdict>>
  <2>1. order \in Orders /\ MaxNewTokens \subseteq Nat
    BY RequestsAssumption, TtsAssumption DEF TtsInv, TtsTypeOK
  <2>2. order.limit \in Nat
    BY <2>1 DEF Orders
  <2>3. QED
    BY <2>2 DEF SampleFrame, StepsLeft, TtsInv, TtsTypeOK
<1>0. PICK o \in FineCodes(L) : \E f \in FramesFor(o) :
            /\ predictor' = o.r
            /\ repeats' = Repeats(f)
            /\ IF repeats' >= RepeatLimit /\ L > StuckAfter
               THEN column' = Cut(Append(c, f), L - repeats' + 2) /\ Stop("stuck")
               ELSE /\ column' = Append(c, f)
                    /\ phase' = (IF order.stream THEN "stream" ELSE "feed")
                    /\ ended' = ended
  BY DEF SampleFrame, Enter
<1>2. PICK f \in FramesFor(o) :
            /\ predictor' = o.r
            /\ repeats' = Repeats(f)
            /\ IF repeats' >= RepeatLimit /\ L > StuckAfter
               THEN column' = Cut(Append(c, f), L - repeats' + 2) /\ Stop("stuck")
               ELSE /\ column' = Append(c, f)
                    /\ phase' = (IF order.stream THEN "stream" ELSE "feed")
                    /\ ended' = ended
  BY <1>0
<1>3. f \in TtsFrames /\ predictor' \in Runners
  BY <1>1, <1>2, FineCodesLeave, TtsAssumption DEF FramesFor, TtsInv
<1>4. repeats' = IF c # <<>> /\ f = c[Len(c)] THEN repeats + 1 ELSE 0
  BY <1>2 DEF Repeats, Last
<1>5. repeats' \in Nat
  BY <1>1, <1>4
<1>6. /\ Thawed(c, Len(c))
      /\ \A r \in Nat : r < Len(c) /\ Same(c, r) => repeats >= r
      /\ decoded = (IF order.stream THEN L ELSE 0) /\ (~order.stream => missed = {})
      /\ talker.kv = plan.prefill + L
  BY <1>1 DEF TtsInv, Counted, Heard, TalkerRows, Loop
<1>7. \A r \in Nat : r < Len(c) + 1 /\ Same(Append(c, f), r) => repeats' >= r
  BY <1>1, <1>3, <1>4, <1>6, OneMore
<1>8. Append(c, f) \in Seq(TtsFrames) /\ Len(Append(c, f)) = L + 1
  BY <1>1, <1>3
<1>9. CASE repeats' >= RepeatLimit /\ L > StuckAfter
  <2>1. column' = Cut(Append(c, f), L - repeats' + 2) /\ ended' = "stuck" /\ phase' = "decode"
    BY <1>2, <1>9 DEF Stop, Enter
  <2>2. /\ column' \in Seq(TtsFrames) /\ Len(column') = L + 1
        /\ KeptOf(column') <= L /\ KeptOf(column') \in Nat
        /\ Thawed(column', KeptOf(column'))
    BY <1>1, <1>3, <1>5, <1>6, <1>9, <2>1, Stuck
  <2>3. Kept' = KeptOf(column')
    BY DEF Kept, KeptOf
  <2>4. TtsTypeOK'
    BY <1>1, <1>3, <1>5, <2>1, <2>2 DEF TtsInv, TtsTypeOK
  <2>5. Heard'
    BY <1>1, <1>6, <2>1, <2>2, <2>3 DEF Heard, Loop
  <2>6. QED
    BY <1>1, <2>1, <2>2, <2>3, <2>4, <2>5 DEF TtsInv, TtsPositions, TalkerRows, Counted, Loop
<1>10. CASE ~(repeats' >= RepeatLimit /\ L > StuckAfter)
  <2>1. /\ column' = Append(c, f) /\ ended' = ended
        /\ phase' = IF order.stream THEN "stream" ELSE "feed"
    BY <1>2, <1>10
  <2>2. Thawed(column', L + 1) /\ Len(column') = L + 1 /\ column' \in Seq(TtsFrames)
    BY <1>1, <1>3, <1>5, <1>6, <1>7, <1>8, <1>10, <2>1, NotStuck
  <2>3. order.stream \in BOOLEAN
    BY <1>1, RequestsAssumption DEF Orders
  <2>4. TtsTypeOK'
    BY <1>1, <1>3, <1>5, <2>1, <2>2, <2>3 DEF TtsInv, TtsTypeOK
  <2>5. Counted'
    BY <1>7, <2>1, <2>2 DEF Counted
  <2>6. TalkerRows' /\ Heard'
    <3>1. plan.prefill \in Nat
      BY DEF TtsInv, TtsTypeOK
    <3>2. QED
      BY <1>1, <1>6, <2>1, <2>2, <2>3, <3>1 DEF TalkerRows, Heard, Loop
  <2>7. QED
    BY <1>1, <2>1, <2>3, <2>4, <2>5, <2>6 DEF TtsInv, TtsPositions
<1>11. QED
  BY <1>9, <1>10

\* The rest of the loop.
LEMMA LoopStays ==
    ASSUME TtsInv, StepLimit \/ SampleEnd \/ StreamFrames \/ FeedFrame
    PROVE  TtsInv'
<1>1. CASE StepLimit \/ SampleEnd
  BY <1>1, StopStays DEF StepLimit, SampleEnd, Stop, Enter, ttsSession
<1>2. CASE StreamFrames
  <2>1. /\ phase = "stream"
        /\ \/ /\ decoded' = Len(column) /\ phase' = "feed"
              /\ missed' \in {missed, missed \cup (decoded + 1)..Len(column)}
           \/ decoded' = decoded /\ missed' = missed /\ phase' = "refused"
        /\ UNCHANGED <<talker, predictor, parts, order, plan, column, repeats, ended, verdict>>
    BY <1>2 DEF StreamFrames, Enter, ttsSession
  <2>2. Len(column) \in Nat /\ (decoded + 1)..Len(column) \subseteq Nat /\ missed \subseteq Nat
    BY DEF TtsInv, TtsTypeOK
  <2>5. missed' \subseteq Nat /\ decoded' \in Nat
    BY <2>1, <2>2 DEF TtsInv, TtsTypeOK
  <2>3. TtsTypeOK'
    BY <2>1, <2>5 DEF TtsInv, TtsTypeOK
  <2>4. QED
    BY <2>1, <2>3 DEF TtsInv, TtsPositions, TalkerRows, Counted, Heard, Loop
<1>3. CASE FeedFrame
  <2>1. CASE Stop("zero") /\ UNCHANGED <<talker, verdict>>
    BY <1>3, <2>1, StopStays DEF FeedFrame, Stop, Enter
  <2>2. CASE \E o \in ForwardEmbeddings(talker, 1, plan.prefill + Len(column) - 1) :
                 /\ talker' = o.r /\ verdict' = o.why
                 /\ Enter(IF o.why = "none" THEN "sample" ELSE "refused")
                 /\ UNCHANGED ended
    <3>1. PICK o \in ForwardEmbeddings(talker, 1, plan.prefill + Len(column) - 1) :
                /\ talker' = o.r /\ verdict' = o.why
                /\ phase' = (IF o.why = "none" THEN "sample" ELSE "refused")
                /\ ended' = ended
      BY <2>2 DEF Enter
    <3>2. /\ phase = "feed" /\ talker \in Runners /\ plan.prefill \in Nat /\ Len(column) \in Nat
          /\ talker.kv = plan.prefill + Len(column) - 1
          /\ UNCHANGED <<predictor, parts, order, plan, column, repeats, decoded, missed>>
      BY <1>3 DEF FeedFrame, TtsInv, TtsTypeOK, TalkerRows
    <3>3. /\ o.r \in Runners /\ o.why \in {"none", "fault", "context"}
          /\ o.why = "none" => o.r.kv = plan.prefill + Len(column) - 1 + 1
      BY <3>2, PassContinues
    <3>4. TtsTypeOK'
      BY <3>1, <3>2, <3>3 DEF TtsInv, TtsTypeOK
    <3>5. TalkerRows' /\ Heard' /\ TtsPositions'
      BY <3>1, <3>2, <3>3 DEF TtsInv, TalkerRows, Heard, TtsPositions, Loop
    <3>6. QED
      BY <3>1, <3>2, <3>4, <3>5 DEF TtsInv, Counted, Loop
  <2>3. QED
    BY <1>3, <2>1, <2>2 DEF FeedFrame
<1>4. QED
  BY <1>1, <1>2, <1>3

\* The sound and the answer.
LEMMA SoundStays ==
    ASSUME TtsInv, EndOfLoop \/ DecodeChunk \/ AnswerTts
    PROVE  TtsInv'
<1>1. /\ column \in Seq(TtsFrames) /\ Kept = KeptOf(column) /\ KeptOf(column) \in Nat
      /\ decoded \in Nat /\ MaxChunk \in Nat
  <2>1. column \in Seq(TtsFrames) /\ decoded \in Nat /\ MaxChunk \in Nat
    BY TtsAssumption DEF TtsInv, TtsTypeOK
  <2>2. KeptOf(column) \in 0..Len(column) /\ Len(column) \in Nat
    BY <2>1, KeptIs
  <2>3. Kept = KeptOf(column)
    BY DEF Kept, KeptOf
  <2>4. QED
    BY <2>1, <2>2, <2>3
<1>2. column' = column => Kept' = Kept
  BY DEF Kept
<1>3. CASE EndOfLoop
  <2>1. /\ phase = "decode"
        /\ phase' = IF Kept = 0 THEN "refused"
                    ELSE IF order.stream THEN "answered"
                    ELSE IF parts.codec THEN "chunks" ELSE "refused"
        /\ UNCHANGED <<talker, predictor, parts, order, plan, column, repeats, decoded, missed, ended, verdict>>
    BY <1>3 DEF EndOfLoop, Enter, ttsSession, ttsLoop
  <2> HIDE DEF Kept
  <2>2. TtsTypeOK'
    BY <2>1 DEF TtsInv, TtsTypeOK
  <2>3. QED
    BY <1>1, <1>2, <2>1, <2>2 DEF TtsInv, TtsPositions, TalkerRows, Counted, Heard, Loop
<1>4. CASE DecodeChunk
  <2>1. /\ phase = "chunks"
        /\ \/ /\ decoded < Kept
              /\ decoded' = decoded + (IF Kept - decoded < MaxChunk THEN Kept - decoded ELSE MaxChunk)
              /\ phase' = "chunks"
           \/ decoded' = decoded /\ phase' = "refused"
           \/ decoded >= Kept /\ decoded' = decoded /\ phase' = "answered"
        /\ UNCHANGED <<talker, predictor, parts, order, plan, column, repeats, missed, ended, verdict>>
    BY <1>4 DEF DecodeChunk, Enter, ttsSession
  <2>2. decoded' \in Nat /\ (decoded <= Kept /\ phase' = "chunks" => decoded' <= Kept)
    BY <1>1, <2>1
  <2>3. TtsTypeOK'
    BY <2>1, <2>2 DEF TtsInv, TtsTypeOK
  <2>4. Heard'
    BY <1>1, <1>2, <2>1, <2>2 DEF TtsInv, Heard, Loop
  <2>5. QED
    BY <1>1, <1>2, <2>1, <2>3, <2>4 DEF TtsInv, TtsPositions, TalkerRows, Counted, Loop
<1>5. CASE AnswerTts
  <2>1. /\ plan' = [prefill |-> 0, trail |-> 0] /\ column' = <<>> /\ repeats' = 0 /\ decoded' = 0
        /\ missed' = {} /\ ended' = "none" /\ phase' = "idle"
        /\ UNCHANGED <<talker, predictor, parts, order, verdict>>
    BY <1>5 DEF AnswerTts, Enter, ttsSession
  <2>2. order.limit \in Nat
    BY RequestsAssumption, TtsAssumption DEF TtsInv, TtsTypeOK, Orders
  <2>3. TtsTypeOK'
    BY <2>1, <2>2 DEF TtsInv, TtsTypeOK
  <2>4. QED
    BY <2>1, <2>3 DEF TtsInv, TtsPositions, TalkerRows, Counted, Heard, Loop
<1>6. QED
  BY <1>3, <1>4, <1>5

LEMMA TtsStays == TtsInv /\ [TtsNext]_ttsVars => TtsInv'
<1> SUFFICES ASSUME TtsInv, [TtsNext]_ttsVars PROVE TtsInv'
  OBVIOUS
<1>1. CASE UNCHANGED ttsVars
  <2>1. Kept' = Kept
    BY <1>1 DEF ttsVars, ttsLoop, Kept
  <2>2. QED
    BY <1>1, <2>1 DEF ttsVars, ttsLoop, ttsSession, TtsInv, TtsTypeOK, TtsPositions, TalkerRows,
                      Counted, Heard, Loop
<1>2. QED
  BY <1>1, LoadingStays, PrefillStays, SampleStays, LoopStays, SoundStays DEF TtsNext

LEMMA TtsInvariant == TtsSpec => []TtsInv
  BY TtsStarts, TtsStays, PTL DEF TtsSpec

\* The talker's rows are consecutive, whatever the request before left in the
\* cache and wherever it was refused (run_inference's clear_kv and its positions).
THEOREM TtsPositionsHold == TtsSpec => []TtsPositions
<1>1. TtsInv => TtsPositions
  BY DEF TtsInv
<1>2. QED
  BY <1>1, TtsInvariant, PTL

\* A good answer of a batch holds the frames that count, a streamed one all of
\* them whose decode did not throw, and no frozen ending counts: for any frames,
\* any limit, any chunk of the codec and any setting of the detector that looks
\* at two repetitions at least.
THEOREM TtsWholeHolds == TtsSpec => []TtsWhole
<1>1. ASSUME TtsInv PROVE TtsWhole
  <2>1. Kept \in Nat /\ decoded \in Nat
    <3>1. column \in Seq(TtsFrames) /\ decoded \in Nat
      BY <1>1 DEF TtsInv, TtsTypeOK
    <3>2. QED
      BY <3>1, KeptIs DEF Kept, KeptOf
  <2>2. CASE phase = "answered"
    <3>1. IF order.stream THEN decoded >= Kept ELSE decoded = Kept /\ missed = {}
      BY <1>1, <2>2 DEF TtsInv, Heard
    <3>2. IF order.stream THEN 1..Kept \subseteq Sounded \cup missed ELSE Sounded = 1..Kept
      BY <2>1, <3>1 DEF Sounded
    <3>3. QED
      BY <1>1, <3>2 DEF TtsInv, Thawed, Frozen, TtsWhole
  <2>3. CASE phase # "answered"
    BY <1>1, <2>3 DEF TtsInv, Thawed, Frozen, TtsWhole
  <2>4. QED
    BY <2>2, <2>3
<1>2. QED
  BY <1>1, TtsInvariant, PTL

\* No request makes more frames than its limit allows, whatever ended the loop.
THEOREM TtsTypes == TtsSpec => []TtsTypeOK
<1>1. TtsInv => TtsTypeOK
  BY DEF TtsInv
<1>2. QED
  BY TtsInvariant, <1>1, PTL
=============================================================================
