------------------------------ MODULE ClipStore ------------------------------
(***************************************************************************)
(* The clips library: the audio files under clips_dir and their .json      *)
(* sidecars, as the handlers of src/server/server.cpp write them.  No      *)
(* mutex guards them; the generation handlers hold their slot's mutex      *)
(* while they save, the clips handlers hold nothing.                       *)
(*                                                                         *)
(* A clip saved by the server is named by the second it was saved in and   *)
(* a suffix; one prefix stands for all (moss_tts and moss_sfx_v2 both save *)
(* as "sfx", every family as "tts").                                       *)
(***************************************************************************)
EXTENDS Naturals, FiniteSets

CONSTANTS
    Threads,      \* pool threads, one request each
    Slots,        \* loaded models that generate audio to save
    Ratings,      \* bound: the ratings users give
    Scores,       \* bound: what the VLM answers
    MsPerSecond,  \* 1000
    MaxTime,      \* bound: the clock, in ms
    MaxSuffix,    \* bound: _2, _3, ... of one second
    None

ASSUME ClockAssumption ==
    /\ MsPerSecond \in Nat \ {0} /\ MaxTime \in Nat /\ MaxSuffix \in Nat \ {0}

VARIABLES
    now,      \* system_clock, in ms
    clip,     \* the audio files, by name: who wrote them, or None
    sidecar,  \* <clipname>.json: what its text is, and the object it parses to
    pc,       \* where each request is
    job,      \* its local variables
    given,    \* history: the newest rating and score answered with ok
    raced     \* history: names of which two read-modify-writes overlapped

vars == <<now, clip, sidecar, pc, job, given, raced>>

\* iso_timestamp_for_filename: strftime ends the string after the seconds, and
\* the milliseconds are written behind its terminating zero.
Timestamp(ms) == ms \div MsPerSecond

Names == {Timestamp(ms) : ms \in 0 .. MaxTime} \X (1 .. MaxSuffix)
Meta == [rating : Ratings \cup {None}, score : Scores \cup {None}]
NoMeta == [rating |-> None, score |-> None]

Sidecar == [text : {"none", "empty", "torn", "json"}, meta : Meta]
NotJson(text) == [text |-> text, meta |-> NoMeta]
Json(meta) == [text |-> "json", meta |-> meta]

\* A file is the slot whose handler wrote it last, or POST /v1/clips/upload.
File == Slots \cup {"upload"}

ASSUME NoneAssumption ==
    /\ None \notin Slots /\ None \notin Ratings /\ None \notin Scores
    /\ None # "upload" /\ None \notin Names /\ None \notin File
ASSUME SlotsAssumption == "upload" \notin Slots

\* A request's job: the slot it generates with, the clip it works on (None
\* once the open file was unlinked), the metadata it read, and the field it
\* sets.
Job == [slot : Slots \cup {"upload", None}, name : Names \cup {None},
        meta : Meta, rating : Ratings \cup {None}, score : Scores \cup {None}]
NoJob == [slot |-> None, name |-> None, meta |-> NoMeta, rating |-> None, score |-> None]

Init ==
    /\ now = 0
    /\ clip = [n \in Names |-> None]
    /\ sidecar = [n \in Names |-> NotJson("none")]
    /\ pc = [t \in Threads |-> "idle"]
    /\ job = [t \in Threads |-> NoJob]
    /\ given = [n \in Names |-> NoMeta]
    /\ raced = {}

Goto(t, l) == pc' = [pc EXCEPT ![t] = l]
Done(t) == Goto(t, "idle") /\ job' = [job EXCEPT ![t] = NoJob]

Tick ==
    /\ now < MaxTime
    /\ now' = now + 1
    /\ UNCHANGED <<clip, sidecar, pc, job, given, raced>>

-----------------------------------------------------------------------------
(* Audio files *)

\* Mutant: the handler does not hold its slot.
GenerateUnlocked(t, s) ==
    /\ pc[t] = "idle"
    /\ Goto(t, "name")
    /\ job' = [job EXCEPT ![t].slot = s]
    /\ UNCHANGED <<now, clip, sidecar, given, raced>>

\* A speech or music handler got its SlotGuard and generated what it saves.
Generate(t, s) ==
    /\ pc[t] = "idle"
    /\ \A u \in Threads : job[u].slot # s
    /\ Goto(t, "name")
    /\ job' = [job EXCEPT ![t].slot = s]
    /\ UNCHANGED <<now, clip, sidecar, given, raced>>

\* Mutant: the suffix is counted up past nothing: the name may exist.
NameUntested(t) ==
    /\ pc[t] = "name"
    /\ \E k \in 1 .. MaxSuffix :
          /\ \A j \in 1 .. k - 1 : clip[<<Timestamp(now), j>>] # None
          /\ job' = [job EXCEPT ![t].name = <<Timestamp(now), k>>]
    /\ Goto(t, "open")
    /\ UNCHANGED <<now, clip, sidecar, given, raced>>

\* unique_clip_path: the first name of this second that does not exist.
NameClip(t) ==
    /\ pc[t] = "name"
    /\ \E k \in 1 .. MaxSuffix :
          /\ clip[<<Timestamp(now), k>>] = None
          /\ \A j \in 1 .. k - 1 : clip[<<Timestamp(now), j>>] # None
          /\ job' = [job EXCEPT ![t].name = <<Timestamp(now), k>>]
    /\ Goto(t, "open")
    /\ UNCHANGED <<now, clip, sidecar, given, raced>>

\* POST /v1/clips/upload: the client names the file, an existing one too.
Upload(t, n) ==
    /\ pc[t] = "idle"
    /\ job' = [job EXCEPT ![t].slot = "upload", ![t].name = n]
    /\ Goto(t, "open")
    /\ UNCHANGED <<now, clip, sidecar, given, raced>>

\* std::ofstream creates the file, or truncates it.
Open(t) ==
    /\ pc[t] = "open"
    /\ clip' = [clip EXCEPT ![job[t].name] = job[t].slot]
    /\ Goto(t, "write")
    /\ UNCHANGED <<now, sidecar, job, given, raced>>

\* The file cannot be opened: nothing is saved.
OpenFails(t) ==
    /\ pc[t] = "open"
    /\ Done(t)
    /\ UNCHANGED <<now, clip, sidecar, given, raced>>

\* The file is written and closed, or that fails and what is there stays; the
\* slot is released with the answer.
Write(t) ==
    /\ pc[t] = "write"
    /\ IF job[t].name = None
       THEN UNCHANGED clip
       ELSE clip' \in {clip, [clip EXCEPT ![job[t].name] = job[t].slot]}
    /\ Done(t)
    /\ UNCHANGED <<now, sidecar, given, raced>>

\* POST /v1/clips/delete unlinks the clip, open or not, and not its sidecar.
Delete(n) ==
    /\ clip[n] # None
    /\ clip' = [clip EXCEPT ![n] = None]
    /\ job' = [t \in Threads |->
                 IF pc[t] = "write" /\ job[t].name = n THEN [job[t] EXCEPT !.name = None] ELSE job[t]]
    /\ UNCHANGED <<now, sidecar, pc, given, raced>>

-----------------------------------------------------------------------------
(* Sidecars *)

\* POST /v1/clips/rate, after its checks.
Rate(t, n, rating) ==
    /\ pc[t] = "idle"
    /\ clip[n] # None
    /\ job' = [job EXCEPT ![t].name = n, ![t].rating = rating]
    /\ Goto(t, "read")
    /\ UNCHANGED <<now, clip, sidecar, given, raced>>

\* POST /v1/clips/score, after its checks: audio_vlm.py runs ...
Score(t, n) ==
    /\ pc[t] = "idle"
    /\ clip[n] # None
    /\ job' = [job EXCEPT ![t].name = n]
    /\ Goto(t, "scoring")
    /\ UNCHANGED <<now, clip, sidecar, given, raced>>

\* ... and answers, or fails (502).
Scored(t) ==
    /\ pc[t] = "scoring"
    /\ \/ \E score \in Scores : job' = [job EXCEPT ![t].score = score] /\ Goto(t, "read")
       \/ Done(t)
    /\ UNCHANGED <<now, clip, sidecar, given, raced>>

Merging(n) == {t \in Threads : pc[t] \in {"truncate", "flush"} /\ job[t].name = n}

\* The sidecar is read.  What does not parse is a discarded value, on which
\* meta["rating"] = ... throws: the request ends with 500.
Read(t) ==
    LET n == job[t].name IN
    /\ pc[t] = "read"
    /\ IF sidecar[n].text \in {"none", "json"}
       THEN /\ job' = [job EXCEPT ![t].meta = sidecar[n].meta]
            /\ Goto(t, "truncate")
            /\ raced' = raced \cup (IF Merging(n) = {} THEN {} ELSE {n})
       ELSE Done(t) /\ UNCHANGED raced
    /\ UNCHANGED <<now, clip, sidecar, given>>

\* std::ofstream of(sidecar) truncates it ...
Truncate(t) ==
    /\ pc[t] = "truncate"
    /\ sidecar' = [sidecar EXCEPT ![job[t].name] = NotJson("empty")]
    /\ Goto(t, "flush")
    /\ UNCHANGED <<now, clip, job, given, raced>>

\* Mutant: the other handler's fields are not merged in.
MergedAlone(t) == [rating |-> job[t].rating, score |-> job[t].score]

\* The fields this request sets, over those it read.
Merged(t) ==
    [rating |-> IF job[t].rating = None THEN job[t].meta.rating ELSE job[t].rating,
     score  |-> IF job[t].score = None THEN job[t].meta.score ELSE job[t].score]

\* The scores take more room than the rating.
Size(meta) == (IF meta.rating = None THEN 0 ELSE 1) + (IF meta.score = None THEN 0 ELSE 3)

\* ... and its destructor writes the object from the start of the file: over
\* whatever another request put there since.
Flush(t) ==
    LET n == job[t].name IN
    /\ pc[t] = "flush"
    /\ sidecar' = [sidecar EXCEPT ![n] =
                     IF sidecar[n].text = "torn" \/ Size(sidecar[n].meta) > Size(Merged(t))
                     THEN NotJson("torn") ELSE Json(Merged(t))]
    /\ given' = [given EXCEPT ![n] =
                   [rating |-> IF job[t].rating = None THEN @.rating ELSE job[t].rating,
                    score  |-> IF job[t].score = None THEN @.score ELSE job[t].score]]
    /\ Done(t)
    /\ UNCHANGED <<now, clip, raced>>

-----------------------------------------------------------------------------
Next ==
    \/ Tick
    \/ \E n \in Names : Delete(n)
    \/ \E t \in Threads :
          \/ NameClip(t) \/ Open(t) \/ OpenFails(t) \/ Write(t)
          \/ Scored(t) \/ Read(t) \/ Truncate(t) \/ Flush(t)
          \/ \E s \in Slots : Generate(t, s)
          \/ \E n \in Names : Upload(t, n) \/ Score(t, n) \/ \E r \in Ratings : Rate(t, n, r)

Spec == Init /\ [][Next]_vars

-----------------------------------------------------------------------------
(* Properties *)

TypeOK ==
    /\ now \in 0 .. MaxTime
    /\ clip \in [Names -> File \cup {None}]
    /\ sidecar \in [Names -> Sidecar]
    /\ pc \in [Threads -> {"idle", "name", "open", "write", "scoring", "read", "truncate", "flush"}]
    /\ job \in [Threads -> Job]
    /\ given \in [Names -> Meta]
    /\ raced \subseteq Names
    /\ \A t \in Threads : pc[t] \notin {"idle", "name", "write"} => job[t].name # None

\* A handler's save opens a file.
Saves(t) == pc[t] = "open" /\ pc'[t] = "write" /\ job[t].slot # "upload"

\* The slot's mutex makes "does it exist" and "create it" one step for the
\* requests of one model: a save does not overwrite what its own slot saved.
OwnClipsKept ==
    [][\A t \in Threads : Saves(t) /\ clip[job[t].name] # None =>
           clip[job[t].name] # job[t].slot]_vars

\* As long as no two requests merged into a clip's sidecar at once, it holds
\* the newest rating and the newest score that were answered with ok, through
\* deletion and re-creation of the clip, failed scorings and partial files.
Shown(meta) == IF meta = NoMeta THEN NotJson("none") ELSE Json(meta)
NewestKept == \A n \in Names \ raced : Merging(n) = {} => sidecar[n] = Shown(given[n])

\* The inductive invariant behind the two: a slot is held by one request,
\* what a request is about to create was not created by its own slot, and an
\* undisturbed request has read, and puts back, the newest values.
OneHolder ==
    \A t, u \in Threads : t # u /\ job[t].slot \in Slots => job[u].slot # job[t].slot

FreshName ==
    \A t \in Threads :
        pc[t] = "open" /\ job[t].slot # "upload" /\ clip[job[t].name] # None =>
            clip[job[t].name] # job[t].slot

Phases ==
    \A t \in Threads :
        /\ job[t].slot # None <=> pc[t] \in {"name", "open", "write"}
        /\ pc[t] \in {"read", "truncate", "flush"} => job[t].rating # None \/ job[t].score # None

Undisturbed ==
    \A n \in Names \ raced : \A t \in Merging(n) :
        /\ Merging(n) = {t}
        /\ job[t].meta = given[n]
        /\ sidecar[n] = IF pc[t] = "truncate" THEN Shown(given[n]) ELSE NotJson("empty")

IInv == TypeOK /\ OneHolder /\ FreshName /\ Phases /\ NewestKept /\ Undisturbed

\* server.cpp:1570, "Merge into the existing sidecar (preserve score fields)":
\* a score that was answered is still there when nobody is writing.
ScorePreserved ==
    \A n \in Names : Merging(n) = {} /\ given[n].score # None =>
        sidecar[n].meta.score # None
=============================================================================
