------------------------------ MODULE Qwen3Tts ------------------------------
(***************************************************************************)
(* A session of the Qwen3-TTS family (models/qwen3_tts).  Loading opens    *)
(* files in turn, some of which it can do without.  A request builds one   *)
(* prefill, then a loop makes one frame per step: the talker samples the   *)
(* coarse code, the predictor the fine ones, the text is fed one token a   *)
(* step, and a streamed request decodes each frame as it comes.            *)
(*                                                                         *)
(* A frame (16 codes) is "zero" when all its codes are 0, which the loop   *)
(* takes for the end; of others only equality matters.                     *)
(***************************************************************************)
EXTENDS Qwen3Runner, SequencesExt

CONSTANTS
    TextLens,     \* bound: tokens of a text, an instruction, a transcript
    Requests,     \* bound: the requests that are made
    TtsFrames,    \* frames told apart, with "zero"
    MaxNewTokens, \* limits of steps a request may set
    FineBooks,    \* codebooks the predictor is asked for
    MinTail,      \* frames after the text before the end is admitted
    RepeatLimit, StuckAfter,  \* the stuck-loop detector
    MaxChunk,     \* frames the codec decodes at once
    CompactText   \* QWEN3TTS_COMPACT_TEXT is set

ASSUME TtsAssumption ==
    /\ TextLens \subseteq Nat \ {0} /\ MaxNewTokens \subseteq Nat \ {0}
    /\ "zero" \in TtsFrames
    /\ FineBooks \in Nat \ {0} /\ MinTail \in Nat /\ RepeatLimit \in Nat \ {0, 1}
    /\ StuckAfter \in Nat /\ MaxChunk \in Nat \ {0} /\ CompactText \in BOOLEAN

Orders == [mode : {"tts", "design", "clone", "streaming"}, stream : BOOLEAN,
           text : TextLens, instruct : TextLens \cup {0}, language : BOOLEAN,
           voice : {"none", "embedding", "audio", "named"},
           transcript : TextLens \cup {0}, limit : MaxNewTokens]

ASSUME RequestsAssumption == Requests \subseteq Orders /\ Requests # {}

VARIABLES
    talker, predictor,  \* the runners
    parts,   \* what loading found: [extras, speaker, books, codec, encoder, design]
    order,   \* the request that is served
    plan,    \* [prefill, trail]: rows of the prefill and of the text fed later
    column,  \* the frames so far (code_matrix)
    repeats, \* repeat_count
    decoded, \* frames decoded: decoded_frames of a stream, chunk_start of a batch
    missed,  \* of those, the frames whose decode threw: a stream goes on without
    ended,   \* why the loop ended
    phase,   \* where load or run_inference is
    verdict  \* how the last forward of the talker went

ttsSession == <<talker, predictor, parts>>
ttsLoop == <<order, plan, column, repeats, decoded, missed, ended>>
ttsVars == <<ttsSession, ttsLoop, phase, verdict>>

NoParts == [extras |-> FALSE, speaker |-> FALSE, books |-> 0, codec |-> FALSE,
            encoder |-> FALSE, design |-> FALSE]

TtsInit ==
    /\ talker = Loaded /\ predictor = Loaded
    /\ parts = NoParts
    /\ order \in Requests
    /\ plan = [prefill |-> 0, trail |-> 0]
    /\ column = <<>> /\ repeats = 0 /\ decoded = 0 /\ missed = {}
    /\ ended = "none" /\ phase = "resolve" /\ verdict = "none"

Enter(where) == phase' = where

-----------------------------------------------------------------------------
(* load *)

Loading(from, found, to) ==
    /\ phase = from
    /\ \E p \in found : parts' = p
    /\ Enter(to)
    /\ UNCHANGED <<talker, predictor, ttsLoop, verdict>>

\* A runner that does not load fails the whole: the session is dropped.
LoadFails(from) ==
    /\ phase = from
    /\ parts' = NoParts
    /\ Enter("resolve")
    /\ UNCHANGED <<talker, predictor, ttsLoop, verdict>>

\* The variant: what the options say, else what the directory's name says.
ResolveFiles == Loading("resolve", {[parts EXCEPT !.design = d] : d \in BOOLEAN}, "talker")

\* The talker, and the tables it may lack.
LoadTalker ==
    \/ Loading("talker", {[parts EXCEPT !.extras = x] : x \in BOOLEAN}, "speaker")
    \/ LoadFails("talker")

\* The speaker encoder is optional.
LoadSpeakerEncoder ==
    Loading("speaker", {[parts EXCEPT !.speaker = s] : s \in BOOLEAN}, "predictor")

\* The predictor, with as many fine codebooks as its file holds.
LoadPredictor ==
    \/ Loading("predictor", {[parts EXCEPT !.books = b] : b \in 0..FineBooks}, "codec")
    \/ LoadFails("predictor")

\* The codec, with or without its encoder, or none.
LoadCodec ==
    \E c \in BOOLEAN :
        Loading("codec", {[parts EXCEPT !.codec = c, !.encoder = c /\ e] : e \in BOOLEAN}, "idle")

-----------------------------------------------------------------------------
(* run_inference: the prefill *)

\* Mutant: the talker's cache is not cleared.
RunTtsKeeps(o) ==
    /\ phase = "idle"
    /\ predictor' = ClearKv(predictor)
    /\ order' = o
    /\ verdict' = "none"
    /\ Enter("modes")
    /\ UNCHANGED <<talker, parts, plan, column, repeats, decoded, missed, ended>>

\* Both caches are cleared before anything is checked.
RunTts(o) ==
    /\ phase = "idle"
    /\ talker' = ClearKv(talker) /\ predictor' = ClearKv(predictor)
    /\ order' = o
    /\ verdict' = "none"
    /\ Enter("modes")
    /\ UNCHANGED <<parts, plan, column, repeats, decoded, missed, ended>>

\* What the mode asks of the request and of the files.
Admitted ==
    /\ order.mode = "streaming" => order.stream
    /\ order.stream => parts.codec
    /\ order.mode = "clone" =>
         /\ order.voice # "none"
         /\ order.voice = "audio" => parts.speaker
    /\ order.mode = "design" => parts.design /\ order.instruct > 0

CheckModes ==
    /\ phase = "modes"
    /\ \/ ~Admitted /\ Enter("refused")
       \/ Admitted /\ Enter("prefill")
       \/ order.mode = "clone" /\ order.voice = "audio" /\ Enter("refused")  \* the encoder fails
    /\ UNCHANGED <<ttsSession, ttsLoop, verdict>>

Cloning == order.mode = "clone"

\* Frames of the reference, encoded when the codec can.
ReferenceFrames ==
    IF Cloning /\ order.voice = "audio" /\ parts.encoder THEN {0} \cup TextLens ELSE {0}

\* think, its brackets and the language; the voice; transcript and reference; pad.
Overlay(reference) ==
    (IF order.language THEN 4 ELSE 3)
    + (IF order.voice = "named" \/ (Cloning /\ order.voice # "none") THEN 1 ELSE 0)
    + (IF Cloning THEN order.transcript ELSE 0)
    + reference + 1

\* An instruction is a turn of its own: five tokens around it.
InstructTurn == IF order.instruct = 0 THEN 0 ELSE order.instruct + 5

TextRegion == IF CompactText THEN order.text + 2 ELSE 1

\* The text's other tokens and its end are fed later, unless it is compact.
Trailing == IF CompactText THEN 0 ELSE order.text

\* The prefill's rows, and the pass over them.
Prefill ==
    /\ phase = "prefill"
    /\ \E reference \in ReferenceFrames :
         plan' = [prefill |-> InstructTurn + 3 + Overlay(reference) + TextRegion,
                  trail |-> Trailing]
    /\ \E o \in ForwardEmbeddings(talker, plan'.prefill, 0) :
         /\ talker' = o.r /\ verdict' = o.why
         /\ Enter(IF o.why = "none" THEN "sample" ELSE "refused")
    /\ UNCHANGED <<predictor, parts, order, column, repeats, decoded, missed, ended>>

-----------------------------------------------------------------------------
(* run_inference: the loop, one frame a step *)

Stop(why) == ended' = why /\ Enter("decode")

\* Mutant: the limit is looked at after the step.
StepsLeftLate == Len(column) <= order.limit

StepsLeft == Len(column) < order.limit

StepLimit ==
    /\ phase = "sample" /\ ~StepsLeft
    /\ Stop("limit")
    /\ UNCHANGED <<ttsSession, order, plan, column, repeats, decoded, missed, verdict>>

\* The end is not sampled until MinTail frames after the text.
SampleEnd ==
    /\ phase = "sample" /\ StepsLeft
    /\ parts.extras /\ Len(column) >= plan.trail + MinTail
    /\ Stop("eos")
    /\ UNCHANGED <<ttsSession, order, plan, column, repeats, decoded, missed, verdict>>

\* The fine codes: the predictor's own loop, or one plain pass over all books.
FineCodes(step) ==
    LET mtp == IF parts.books > 0 /\ parts.extras
               THEN PredictOneStep(predictor, FineBooks, parts.books)
               ELSE {[why |-> "fault", r |-> predictor]}
    IN  UNION {IF o.why = "none" THEN {o}
               ELSE ForwardTokens(o.r, FineBooks + 1, step * (FineBooks + 1)) : o \in mtp}

\* Without the talker's head the coarse code is 0; a failed predictor leaves 0s.
FramesFor(o) == IF o.why # "none" /\ ~parts.extras THEN {"zero"} ELSE TtsFrames

\* The frozen frames become zeros, from keep_until on.
Cut(frames, keep) == [s \in 1..Len(frames) |-> IF s > keep THEN "zero" ELSE frames[s]]

\* repeat_count after a frame.
Repeats(f) == IF column # <<>> /\ f = Last(column) THEN repeats + 1 ELSE 0

SampleFrame ==
    /\ phase = "sample" /\ StepsLeft
    /\ LET step == Len(column)
       IN  \E o \in FineCodes(step) : \E f \in FramesFor(o) :
             /\ predictor' = o.r
             /\ repeats' = Repeats(f)
             /\ IF repeats' >= RepeatLimit /\ step > StuckAfter
                THEN /\ column' = Cut(Append(column, f), step - repeats' + 2)
                     /\ Stop("stuck")
                ELSE /\ column' = Append(column, f)
                     /\ Enter(IF order.stream THEN "stream" ELSE "feed")
                     /\ UNCHANGED ended
    /\ UNCHANGED <<talker, parts, order, plan, decoded, missed, verdict>>

\* The new frames are decoded and sent; they count as decoded also when the codec
\* throws and nothing is sent.
StreamFrames ==
    /\ phase = "stream"
    /\ \/ /\ decoded' = Len(column)
          /\ missed' \in {missed, missed \cup (decoded + 1)..Len(column)}
          /\ Enter("feed")
       \/ UNCHANGED <<decoded, missed>> /\ Enter("refused")     \* the client has gone
    /\ UNCHANGED <<ttsSession, order, plan, column, repeats, ended, verdict>>

\* A frame of zeros is the end; any other goes back into the talker, with the
\* next token of the text or, after it, padding.
FeedFrame ==
    /\ phase = "feed"
    /\ IF Len(column) > 1 /\ Last(column) = "zero"
       THEN Stop("zero") /\ UNCHANGED <<talker, verdict>>
       ELSE \E o \in ForwardEmbeddings(talker, 1, plan.prefill + Len(column) - 1) :
              /\ talker' = o.r /\ verdict' = o.why
              /\ Enter(IF o.why = "none" THEN "sample" ELSE "refused")
              /\ UNCHANGED ended
    /\ UNCHANGED <<predictor, parts, order, plan, column, repeats, decoded, missed>>

-----------------------------------------------------------------------------
(* run_inference: the sound *)

\* Frames before the first one of zeros.
Kept == CHOOSE n \in 0..Len(column) :
            /\ \A s \in 1..n : column[s] # "zero"
            /\ n < Len(column) => column[n + 1] = "zero"

\* Nothing but zeros, or no codec: refused, after the whole loop.
EndOfLoop ==
    /\ phase = "decode"
    /\ Enter(IF Kept = 0 THEN "refused"
             ELSE IF order.stream THEN "answered"
             ELSE IF parts.codec THEN "chunks" ELSE "refused")
    /\ UNCHANGED <<ttsSession, ttsLoop, verdict>>

\* Mutant: the frames left over by the whole chunks are not decoded.
DecodeWholeChunks ==
    /\ phase = "chunks"
    /\ \/ decoded' = decoded + MaxChunk /\ decoded' <= Kept /\ UNCHANGED phase
       \/ decoded + MaxChunk > Kept /\ UNCHANGED decoded /\ Enter("answered")
    /\ UNCHANGED <<ttsSession, order, plan, column, repeats, missed, ended, verdict>>

\* One chunk, and silence is trimmed after the last; a codec that throws fails it.
DecodeChunk ==
    /\ phase = "chunks"
    /\ \/ /\ decoded < Kept
          /\ decoded' = decoded + (IF Kept - decoded < MaxChunk THEN Kept - decoded ELSE MaxChunk)
          /\ UNCHANGED phase
       \/ decoded < Kept /\ UNCHANGED decoded /\ Enter("refused")
       \/ decoded >= Kept /\ UNCHANGED decoded /\ Enter("answered")
    /\ UNCHANGED <<ttsSession, order, plan, column, repeats, missed, ended, verdict>>

\* The answer is out and the loop's variables are gone; the caches stay as they
\* are, for the next request to clear.
AnswerTts ==
    /\ phase \in {"answered", "refused"}
    /\ plan' = [prefill |-> 0, trail |-> 0]
    /\ column' = <<>> /\ repeats' = 0 /\ decoded' = 0 /\ missed' = {} /\ ended' = "none"
    /\ Enter("idle")
    /\ UNCHANGED <<ttsSession, order, verdict>>

TtsNext ==
    \/ ResolveFiles \/ LoadTalker \/ LoadSpeakerEncoder
    \/ LoadPredictor \/ LoadCodec
    \/ \E o \in Requests : RunTts(o)
    \/ CheckModes \/ Prefill
    \/ StepLimit \/ SampleEnd \/ SampleFrame \/ StreamFrames \/ FeedFrame
    \/ EndOfLoop \/ DecodeChunk \/ AnswerTts

TtsSpec == TtsInit /\ [][TtsNext]_ttsVars

-----------------------------------------------------------------------------
(* Properties *)

TtsTypeOK ==
    /\ talker \in Runners /\ predictor \in Runners
    /\ parts \in [extras : BOOLEAN, speaker : BOOLEAN, books : 0..FineBooks,
                  codec : BOOLEAN, encoder : BOOLEAN, design : BOOLEAN]
    /\ order \in Requests
    /\ plan \in [prefill : Nat, trail : Nat]
    /\ column \in Seq(TtsFrames) /\ Len(column) <= order.limit
    /\ repeats \in Nat /\ decoded \in Nat /\ missed \subseteq Nat
    /\ ended \in {"none", "limit", "eos", "stuck", "zero"}
    /\ phase \in {"resolve", "talker", "speaker", "predictor", "codec",
                  "idle", "modes", "prefill", "sample", "stream", "feed", "decode", "chunks",
                  "answered", "refused"}
    /\ verdict \in {"none", "fault", "positions", "context"}

\* The talker's rows are consecutive: the prefill and then one row per frame,
\* whatever the request before left in the cache.
TtsPositions == verdict # "positions"

\* Frames whose sound is in the answer.
Sounded == (1..decoded) \ missed

\* A good answer of a batch holds the frames that count and no other, decoded in
\* whole chunks and a rest; that of a stream lacks, of the frames that count, none
\* but those whose decode threw.  And a frozen ending is cut: past the first
\* steps, no more than RepeatLimit equal frames in a row count for the sound.
TtsWhole ==
    /\ phase = "answered" => IF order.stream THEN 1..Kept \subseteq Sounded \cup missed
                             ELSE Sounded = 1..Kept
    /\ phase \in {"answered", "chunks"} =>
         \A i \in 1..Kept :
            (\A s \in i..i + RepeatLimit : s <= Kept /\ column[s] = column[i]) =>
               i + RepeatLimit <= StuckAfter + 1
=============================================================================
