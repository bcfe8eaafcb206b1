----------------------------- MODULE VoiceStore -----------------------------
(***************************************************************************)
(* The voices library: the .voice files under clips_dir/voices and their   *)
(* .voice.json shaping sidecars, as the /v1/voices handlers and            *)
(* resolve_voice_field of src/server/server.cpp read and write them.  The  *)
(* only mutex in sight is the slot's, around the encoder.                  *)
(*                                                                         *)
(* An embedding is what it was computed from; a file of a whole embedding  *)
(* is written by one writev, behind the truncation of its opening.         *)
(***************************************************************************)
EXTENDS Naturals, FiniteSets

CONSTANTS
    Callers,  \* pool threads, one request each
    Voices,   \* bound: names of voices (and of directions, which are voices)
    Shapes,   \* bound: shapings users save, named by the length of their text
    MaxSeq    \* bound: extractions from an uploaded reference

ASSUME ShapesAssumption == Shapes \subseteq Nat \ {0} /\ MaxSeq \in Nat

\* Names that are no voice: of no file, and of the counter.
ASSUME VoicesAssumption == {"none", "seq"} \cap Voices = {}

VARIABLES
    voice,    \* the .voice files: "none", "empty" (opened to be filled), "whole",
              \* or "short", left by a write that failed
    shape,    \* their sidecars: what the text is, and the shaping it parses to
    seq,      \* the static counter of /v1/voices/extract
    temp,     \* /tmp/audiocore_voice_extract_<pid>_<seq>.wav: whose reference
    at,       \* where each request is
    work,     \* its local variables
    saved,    \* history: the newest shaping answered with ok
    clash     \* history: the names whose sidecars two requests wrote at once, or a
              \* failing write, and none alone since, and "seq" if two requests
              \* drew at once

voiceVars == <<voice, shape, seq, temp, at, work, saved, clash>>

\* Shaping 0 is the default: no shift, speed 1.
NoShape(text) == [text |-> text, is |-> 0]
Shaped(s) == [text |-> "json", is |-> s]

\* What a request works with: the voice it writes, the voices it has yet to
\* load, whether it needs all of them or some (and has one), the shaping it
\* saves, the number of its reference and what the encoder made of it.
Free == [out |-> "none", loads |-> {}, need |-> "all", shape |-> 0, seq |-> 0, of |-> "none"]

VoiceInit ==
    /\ voice = [n \in Voices |-> "none"]
    /\ shape = [n \in Voices |-> NoShape("none")]
    /\ seq = 0
    /\ temp = [k \in 0 .. MaxSeq |-> "none"]
    /\ at = [c \in Callers |-> "idle"]
    /\ work = [c \in Callers |-> Free]
    /\ saved = [n \in Voices |-> 0]
    /\ clash = {}

Step(c, from, to) == at[c] = from /\ at' = [at EXCEPT ![c] = to]
Leave(c, from) == Step(c, from, "idle") /\ work' = [work EXCEPT ![c] = Free]
At(l) == {c \in Callers : at[c] = l}

-----------------------------------------------------------------------------
(* Voices *)

\* POST /v1/voices/upload: what the client sends, under the name it gives.
UploadVoice(c, n) ==
    /\ Step(c, "idle", "create")
    /\ work' = [work EXCEPT ![c] = [@ EXCEPT !.out = n]]
    /\ UNCHANGED <<voice, shape, seq, temp, saved, clash>>

\* Mutant: the output is opened first.
MakeOpening(c, from, need, n) ==
    /\ Step(c, "idle", "load")
    /\ work' = [work EXCEPT ![c] = [@ EXCEPT !.out = n, !.loads = from, !.need = need]]
    /\ voice' = [voice EXCEPT ![n] = IF n \in from THEN @ ELSE "empty"]
    /\ UNCHANGED <<shape, seq, temp, saved, clash>>

\* A request that makes a voice of others, of which it may be one.
Make(c, from, need, n) ==
    /\ Step(c, "idle", "load")
    /\ work' = [work EXCEPT ![c] = [@ EXCEPT !.out = n, !.loads = from, !.need = need]]
    /\ UNCHANGED <<voice, shape, seq, temp, saved, clash>>

\* POST /v1/voices/blend and /v1/voices/shift name two voices and need both.
Blend(c, a, b, n) == Make(c, {a, b}, "all", n)
Shift(c, base, direction, n) == Make(c, {base, direction}, "all", n)

\* POST /v1/voices/discover_direction names two lists, and makes do with what
\* it finds of them.
DiscoverDirection(c, positive, negative, n) == Make(c, positive \cup negative, "some", n)

\* load_voice_by_name: after "voice not found", "short read" or "short data"
\* the request ends, or goes on to the next voice of its list.
LoadVoice(c, n) ==
    LET met == work[c].need = "some" /\ voice[n] = "whole" IN
    /\ n \in work[c].loads
    /\ IF voice[n] # "whole" /\ work[c].need = "all" THEN Leave(c, "load")
       ELSE /\ Step(c, "load", "load")
            /\ work' = [work EXCEPT ![c] =
                    [@ EXCEPT !.loads = work[c].loads \ {n},
                              !.need = IF met THEN "met" ELSE work[c].need]]
    /\ UNCHANGED <<voice, shape, seq, temp, saved, clash>>

\* All are loaded; a "dim mismatch", a "zero-norm voice" or a list of which none
\* was ends the request.
Mix(c) ==
    /\ work[c].loads = {}
    /\ \/ /\ Step(c, "load", "create") /\ work[c].need # "some"
          /\ work' = [work EXCEPT ![c] = [@ EXCEPT !.need = "all"]]
       \/ Leave(c, "load")
    /\ UNCHANGED <<voice, shape, seq, temp, saved, clash>>

\* std::ofstream creates the voice, or truncates it; or it cannot be opened.
Create(c) ==
    /\ \/ /\ Step(c, "create", "fill")
          /\ voice' = [voice EXCEPT ![work[c].out] = "empty"]
          /\ UNCHANGED work
       \/ Leave(c, "create") /\ UNCHANGED voice
    /\ UNCHANGED <<shape, seq, temp, saved, clash>>

\* The embedding is written, to a file without a name if it was unlinked; or the
\* write fails: blend, shift and discover_direction answer 500 "write failed",
\* upload and extract ok, and what is there stays listed.
Fill(c) ==
    /\ IF work[c].out = "none" THEN UNCHANGED voice
       ELSE \E left \in {"whole", "short"} : voice' = [voice EXCEPT ![work[c].out] = left]
    /\ Leave(c, "fill")
    /\ UNCHANGED <<shape, seq, temp, saved, clash>>

Unlinked(n, l) == [c \in Callers |->
    IF at[c] = l /\ work[c].out = n THEN [work[c] EXCEPT !.out = "none"] ELSE work[c]]

\* POST /v1/voices/delete leaves the sidecar behind.
DeleteVoice(n) ==
    /\ voice[n] # "none"
    /\ voice' = [voice EXCEPT ![n] = "none"]
    /\ work' = Unlinked(n, "fill")
    /\ UNCHANGED <<shape, seq, temp, at, saved, clash>>

-----------------------------------------------------------------------------
(* Extraction.  The slot is looked for without its mutex (ModelSlots). *)

\* POST /v1/voices/extract with a reference: seq++ is a read ...
Draw(c) ==
    /\ Step(c, "idle", "draw")
    /\ seq < MaxSeq
    /\ work' = [work EXCEPT ![c] = [@ EXCEPT !.seq = seq]]
    /\ clash' = clash \cup (IF At("draw") = {} THEN {} ELSE {"seq"})
    /\ UNCHANGED <<voice, shape, seq, temp, saved>>

\* Mutant: the counter is read and not incremented.
DrawKeeps(c) ==
    /\ Step(c, "draw", "temp")
    /\ UNCHANGED <<voice, shape, seq, temp, work, saved, clash>>

\* ... and a write, which may undo the draws of others.
Drawn(c) ==
    /\ Step(c, "draw", "temp")
    /\ seq' = work[c].seq + 1
    /\ UNCHANGED <<voice, shape, temp, work, saved, clash>>

\* The decoded reference is in the file.
WriteTemp(c) ==
    /\ Step(c, "temp", "encode")
    /\ temp' = [temp EXCEPT ![work[c].seq] = c]
    /\ UNCHANGED <<voice, shape, seq, work, saved, clash>>

\* compute_embedding under the slot's mutex reads the file that has the name,
\* or fails.
Encode(c) ==
    /\ \/ Step(c, "encode", "name") /\ work' = [work EXCEPT ![c] = [@ EXCEPT !.seq = 0, !.of = temp[work[c].seq]]]
       \/ Leave(c, "encode")
    /\ UNCHANGED <<voice, shape, seq, temp, saved, clash>>

\* The embedding goes into the voice the request named, or only into the answer.
Name(c) ==
    /\ \/ \E n \in Voices : /\ Step(c, "name", "create")
                           /\ work' = [work EXCEPT ![c] = [@ EXCEPT !.out = n, !.of = "none"]]
       \/ Leave(c, "name")
    /\ UNCHANGED <<voice, shape, seq, temp, saved, clash>>

-----------------------------------------------------------------------------
(* Shaping *)

\* The sidecar of n is disturbed while a request is writing it, and is none the
\* worse for it once it was truncated or removed by a request on its own.
Disturbed(n) ==
    IF \E d \in At("put") : work[d].out = n THEN clash \cup {n} ELSE clash \ {n}

\* PUT /v1/voices/<name>/meta: there is such a voice, the sidecar is truncated
\* and, when the stream is closed, written.
PutShape(c, n, s) ==
    /\ voice[n] # "none"
    /\ Step(c, "idle", "put")
    /\ work' = [work EXCEPT ![c] = [@ EXCEPT !.out = n, !.shape = s]]
    /\ shape' = [shape EXCEPT ![n] = NoShape("empty")]
    /\ clash' = Disturbed(n)
    /\ UNCHANGED <<voice, seq, temp, saved>>

\* A text over a longer one leaves the longer one's end.
Written(old, s) == IF old.text = "torn" \/ old.is > s THEN NoShape("torn") ELSE Shaped(s)

\* What close() writes, or fails to, is not tested: the answer is ok.
PutDone(c) ==
    LET n == work[c].out IN
    /\ at[c] = "put"
    /\ IF n = "none" THEN UNCHANGED <<shape, saved, clash>>
       ELSE /\ saved' = [saved EXCEPT ![n] = work[c].shape]
            /\ \/ /\ shape' = [shape EXCEPT ![n] = Written(shape[n], work[c].shape)]
                  /\ UNCHANGED clash
               \/ clash' = clash \cup {n} /\ UNCHANGED shape
    /\ Leave(c, "put")
    /\ UNCHANGED <<voice, seq, temp>>

\* DELETE /v1/voices/<name>/meta, under a request that is writing it too.
DeleteShape(n) ==
    /\ shape[n].text # "none"
    /\ shape' = [shape EXCEPT ![n] = NoShape("none")]
    /\ saved' = [saved EXCEPT ![n] = 0]
    /\ work' = Unlinked(n, "put")
    /\ clash' = Disturbed(n)
    /\ UNCHANGED <<voice, seq, temp, at>>

-----------------------------------------------------------------------------
VoiceNext ==
    \/ \E n \in Voices : DeleteVoice(n) \/ DeleteShape(n)
    \/ \E c \in Callers :
          \/ Mix(c) \/ Create(c) \/ Fill(c) \/ PutDone(c)
          \/ Draw(c) \/ Drawn(c) \/ WriteTemp(c) \/ Encode(c) \/ Name(c)
          \/ \E n \in Voices :
                \/ UploadVoice(c, n) \/ LoadVoice(c, n)
                \/ \E a, b \in Voices : \/ Blend(c, a, b, n) \/ Shift(c, a, b, n)
                                      \/ DiscoverDirection(c, {a}, {b}, n)
                \/ \E s \in Shapes : PutShape(c, n, s)

VoiceSpec == VoiceInit /\ [][VoiceNext]_voiceVars
-----------------------------------------------------------------------------
(* Properties *)

Work == [out : Voices \cup {"none"}, loads : SUBSET Voices,
         need : {"all", "some", "met"}, shape : Shapes \cup {0},
         seq : 0 .. MaxSeq, of : Callers \cup {"none"}]

VoiceTypeOK ==
    /\ voice \in [Voices -> {"none", "empty", "whole", "short"}]
    /\ shape \in [Voices -> [text : {"none", "empty", "torn", "json"}, is : Shapes \cup {0}]]
    /\ seq \in 0 .. MaxSeq
    /\ temp \in [0 .. MaxSeq -> Callers \cup {"none"}]
    /\ at \in [Callers -> {"idle", "load", "create", "fill", "draw", "temp", "encode", "name", "put"}]
    /\ work \in [Callers -> Work]
    /\ saved \in [Voices -> Shapes \cup {0}]
    /\ clash \subseteq Voices \cup {"seq"}

\* No request that fails before its write truncates a voice: none is empty but
\* the one a request is about to fill, whichever voices it was to be made of
\* were missing, short, deleted meanwhile, or the output itself.  A write that
\* fails does leave a short one.
VoicesWhole ==
    \A n \in Voices : voice[n] = "empty" => \E c \in At("fill") : work[c].out = n

\* What resolve_voice_field gives a synthesis with the voice: the sidecar's
\* shaping, the default when there is none or it does not parse.
Shaping(n) == IF shape[n].text = "json" THEN shape[n].is ELSE 0

\* A synthesis is shaped by what was saved last for the voice's name, unless
\* two requests wrote its sidecar at once or the write failed: then it may not
\* parse, and the shaping is lost without a word.
ShapeKept ==
    \A n \in Voices \ clash :
        (\A c \in At("put") : work[c].out # n) => Shaping(n) = saved[n]

VoicesKept == VoicesWhole /\ ShapeKept

\* A voice is the one of its own request's reference, unless two requests
\* incremented the counter that names the references at once (it is a static
\* int without a lock, server.cpp:2023).
OwnEmbedding ==
    "seq" \notin clash =>
        \A c \in Callers : work[c].of \in {"none", c}

\* The inductive invariant behind them: where a request works, its locals are
\* those of the place.
Placed ==
    /\ \A c \in At("load") \cup At("create") : work[c].out \in Voices
    /\ \A c \in At("draw") : work[c].seq < MaxSeq

\* While nobody disturbed the sidecar of n, it has one writer at most, who found
\* it empty, and with none it says what was saved.
Shapely(n) ==
    n \notin clash =>
        /\ \A c, d \in At("put") : work[c].out = n /\ work[d].out = n => c = d
        /\ \A c \in At("put") : work[c].out = n => shape[n] = NoShape("empty")
        /\ (\A c \in At("put") : work[c].out # n) => Shaping(n) = saved[n]

\* While no two requests drew at once, those that drew have numbers of their
\* own, all below the counter, and their references under them.
Numbered ==
    "seq" \notin clash =>
        /\ \A c, d \in At("draw") : c = d
        /\ \A c \in At("draw") : work[c].seq = seq
        /\ \A c \in At("temp") \cup At("encode") : work[c].seq < seq
        /\ \A c, d \in At("temp") \cup At("encode") : work[c].seq = work[d].seq => c = d
        /\ \A c \in At("encode") : temp[work[c].seq] = c
        /\ \A c \in Callers : work[c].of \in {"none", c}

VoiceInv ==
    /\ VoiceTypeOK /\ Placed /\ VoicesWhole
    /\ \A n \in Voices : Shapely(n)
    /\ Numbered
=============================================================================
