# Audiocore: TLA+ models, checks and proofs

Audiocore is a C++ audio-generation server: an HTTP front end (`src/src/server`)
over text-to-speech and music sessions (`src/src/models`) that compute with ggml,
a browser page (`src/webapp`), and a set of ComfyUI nodes (`src/comfyui`) over the
Python bindings. This directory holds TLA+ models of the parts where threads,
processes, callbacks or long protocols meet, the TLC configurations that check them
on small instances, and TLAPS proofs of what matters most for every instance.

Paths in this file are relative to `src/`; the repository's own tree has a
directory `src` too, so the server is `src/server/server.cpp` here and
`src/src/server/server.cpp` in `PROJECT.json`. `PROJECT.json` names, for every
definition that models code, the lines it stands for, and lists the runs, the
mutants, the hazards, the findings and the theorems.

## 1. Inventory

### The components and their state

| Component | State | Operations | Hard behaviour | Correct when | Module |
|---|---|---|---|---|---|
| **Model slots** (`server.cpp`, `server.h`) | per configured id: `mtx`, `model` (owning), `session` (non-owning), `loaded` | `/v1/models/load`, `/unload`, `/v1/audio/speech`, `/music`, `/speech/stream`, `/v1/voices/extract`, `/v1/models`, `/health` | eight pool threads, plus one detached thread per stream that holds no mutex; two handlers that look before they lock | one owner per model, no dangling session, a model is neither replaced nor freed under a request, every mutex is released | `ModelSlots`, abstract `SerialSlots` |
| **Streaming response** (`server.cpp:1359-1424`, httplib's chunked writer) | `StreamBuf`: queue, `done`, `ok`, mutex, condition variable | worker: `on_audio`, finish; provider: wait, write, end | lost wakeup; done seen before the queue is empty; client gone; server stopping | chunks once and in order; an answer that ends well is whole; both threads end | `StreamBuffer`, in the server: `Serving` |
| **Model downloads** (`server.cpp:430-880`, `app.js`) | `active` (job to pid), `recent` (capped), the children | POST `fetch` (check, fork, register), GET `status` (reap, list), the page's pollers | check and registration are two critical sections; a child is waited for only when polled; history cap | a pid is held once and until waited for; a result goes to the history with its own exit code; pollers get an answer | `FetchJobs` |
| **Clips library** (`server.cpp:40-110, 1430-1720`) | audio files and `.json` sidecars, on disk | save, upload, delete, rate, score | no lock: name tested then created; read-modify-write of a sidecar, with a program run of minutes in between | a save never overwrites what its own model saved; a sidecar holds the newest rating and score | `ClipStore` |
| **Startup and shutdown** (`main.cpp`, httplib's listen, stop and pool) | shutdown flag, watcher thread, `is_running_`, the socket, the task queue | signals, bind, listen, accept, stop, drain | a signal at any point; the watcher fires once; queued and running requests at the stop | nothing in flight at exit; a stop that takes effect ends the process | `Shutdown`, with a stream: `Serving` |
| **MOSS-TTS generation** (`delay_state.cpp`, `session.cpp`) | the delay-pattern counters, `audio_buf`, `decoded_frames` | `delay_step`, the loop of `run_tts`, incremental decode, extraction, final flush | masks and counters enforce one order together; de-delayed rows are counted in one place and used as segment indices in another | every frame is whole, none is dropped, none is streamed twice, a stream lacks none but those whose decode threw, the reference survives | `MossDelay` |
| **ComfyUI nodes** (`comfyui/core.py`, `nodes.py`, `__init__.py`) | objects that share a session, `_active_model`, ComfyUI's `current_loaded_models` | load (hot and cold path), ensure-loaded, unload, eviction, `POST /audiocore/free` | two Python threads; several objects on one session; eviction by another party | one model resident; what is resident is in ComfyUI's list, once; no call into a closed session | `ManagedModel` |
| **Voices library** (`server.cpp:1725-2250`) | `.voice` files, their `.voice.json` shaping, a `static int` that numbers uploaded references, `/tmp` | upload, extract, blend, shift, discover_direction, delete, save and delete the shaping | no lock: voices deleted while others are made of them; outputs that are inputs; two sidecar writes at once; the counter | a request that fails before its write spoils no voice; a synthesis gets the shaping saved last; an embedding is of its own reference | `VoiceStore` |
| **Boot, registry, discovery** (`main.cpp`, `registry.cpp`, `discovery.cpp`, the first part of `models/*/loader.cpp`) | the models to register, the families tried so far, the slots | resolve the models, alias, load eagerly or defer; find each role's file | failed loads and repeated ids between the loads; the order in which a directory is iterated | one model of a family at the start; DiT, language model and codec are the preferred ones that are there | `ModelBoot` |
| **ACE-Step session** (`ace_step/session.cpp`) | runners of the language model and the text encoder with their caches, conditioning buffers, latents, where weights live | `run_music`: 15 phases from input audio to the VAE | everything is kept between requests, also after a refusal half way; two caches in step under guidance; weights that one network clones and another moves | no pass starts behind its cache; the DiT sees this request only; weights are copied before they move | `AceStep` on `Qwen3Runner` |
| **ACE-Step VAE** (`ace_step/vae_runner.cpp`) | the clip's samples and weights, `blocks_failed_once_` | decode by tiles, on a fast or a slow path | fades of two tiles, the last tile, a failure between tiles | no sample is silent | `AceVae` |
| **Qwen3-TTS session** (`qwen3_tts/session.cpp`, `loader.cpp`) | talker, predictor, the frames so far | load, prefill, one frame a step, streaming and batch decode | four ways to end, the stuck-loop cut, reuse after refusals | rows are consecutive; every frame that counts is heard, but for a streamed one whose decode threw | `Qwen3Tts` on `Qwen3Runner` |
| **MOSS-SFX v2 session** (`moss_sfx_v2/session.cpp`, `loader.cpp`) | text encoder, kept DiT graph, place of the weights | load, encode twice, denoise, decode in chunks, crop | the encoder's cache between prompts, the last chunk | the chunks tile the answer | `MossSfx` on `Qwen3Runner` |
| **Qwen3 runner** (`framework/models/qwen3/runner.cpp`) | two KV caches | token and embedding passes, predictor sub-steps, clears | a chunked pass refused half way; the second context | positions continue the cache | `Qwen3Runner` (operators) |
| **Tensor graphs** (`dit_runner`, `vae_runner`, `codec`, `speaker_encoder`, `projection`) | collected uploads, kept graphs, weights that hang on a call's allocator | build, allocate, upload, compute, read | uploads done later than collected, graphs used again, allocators freed between calls | a graph is computed with every input filled (the Qwen3-TTS codec's encoder excepted); lengths fit what the caller expects | `ComputeGraphs`, `SignalNets` |
| Sampler, GGUF reader, DSP, WAV/MP3 writers, backend glue | none between calls | numeric, or bytes read once | numeric | numeric | not modelled |
| CLI, Python bindings, converters, scripts, container, tests | none between calls | sequential | none that a model would tell better than a test | | not modelled |

### How they interact

* **Shared memory.** Handlers share `ModelSlot`s through `slots_ref`; each slot has
  one mutex. The detached worker shares the slot and, with the provider, a
  `StreamBuf` with a mutex and a condition variable of its own. Downloads share
  `FetchState` under one mutex.
* **Callbacks.** `run_tts` calls `on_audio` from the worker; httplib calls the
  content provider until it says it is done.
* **Processes.** `fetch` forks a script; `score` runs `audio_vlm.py` and waits.
* **Files.** Clip handlers meet only on disk. A generation handler saves while it
  still holds its slot, which is the only exclusion there is around a name.
* **Messages.** The page polls `fetch/status` and then posts `models/load`.
* **ComfyUI** calls `model_unload` of a wrapper and edits its own list; the event
  loop's `/audiocore/free` calls `_cleanup` from a second thread.

* **Files read at the start.** `main` hands a directory to the registry, the registry a
  file to the family's loader, the loader looks around that file for the others.
* **Sessions.** `run_music`, `run_tts` and `run_sfx` drive one or two runners and the
  graphs of their networks; all of them outlive the request, which is why the session
  modules let requests follow each other without end.

`Serving` composes `Shutdown` with `StreamBuffer`: the socket that `stop()` closes is
the one the provider's loop looks at, the provider is a pool thread that
`main()` waits for, and the detached worker is a thread nobody waits for.
`AceStep`, `Qwen3Tts` and `MossSfx` are composed with `Qwen3Runner`, whose passes are
operators on a runner that each session holds in its variables. `ComputeGraphs`
takes the lengths of `SignalNets`. `SerialSlots` is composed with `ModelSlots`, and
`StreamBuffer` with `Serving`, by refinement. The other modules share no variable:
`ModelSlots` ends a stream handler where `StreamBuffer` begins, a handler in `Shutdown`
is any action of the others, `FetchJobs.Load` is `ModelSlots.Receive(_, "load", _)`, and
`ModelBoot` ends with the slots `ModelSlots` begins with. `MCGeneration` and
`MCLibrary` put modules that share nothing into one run; a variable says whose
behaviour is followed, so that no product of states arises. In `MCLibrary` it has three
values: the clips, the voices with their shapings left alone, and the voices without
extractions.

## 2. Modules

Every action stands for a whole handler or for what one handler does between two
points at which another thread can act. A guard is the code's condition, and an
early return is an action of its own. Definitions introduced by a comment
`Mutant:` are changed copies of the action that follows them; no specification uses
one, and they show that each property can fail (section 4).

**`ModelSlots`** — `pc[t]` is the point of pool thread `t` in a handler, `slot[t]` the
slot it works on, `use[t]` the session it computes with. `resolve_slot`, load and
unload take `mutex[s]`; the assignments inside (`model`, `session`, `loaded`) are
separate steps because `extract` reads them unlocked. `SpawnWorker` starts the
detached worker, which reads `slot->session` later (`WorkerStart`); a null read sets
`crashed`. `live` is the set of models constructed and not destroyed: an owner that is
reset or overwritten removes its model from it. `Models` bounds identities, `Workers`
the detached threads; an identity is not used again while a worker still points to
it. JSON errors and unknown ids touch no slot and are stuttering. `ListSlot` is
`GET /v1/models`, which locks every slot in turn; `GET /health` takes no lock, reads
`loaded` of every slot as it stands (`server.cpp:521-529`) and is not modelled.

**`SerialSlots`** — what callers may believe: a slot offers a model or does not, at most
one user computes with it, and it is loaded or unloaded only when none does.
`ModelSlots` maps `resident[s]` to "both fields that `resolve_slot` tests are set" and
`user[s]` to whoever computes with the slot's session, a pool thread or a detached worker
(`PromiseSpec`). With the worker among the users the promise is broken while one is
inside a session (finding 1, and the first row of section 6's table), so `PromiseSpec`
says that every step that begins and ends with no worker inside one (`NoStreaming`) is a
step of `SerialSlots`, the first state included. Without `/v1/audio/speech/stream` that
is the whole promise (`SerialWithoutStreams`).

**`StreamBuffer`** — one streamed response. The worker's critical sections are single
steps; the provider's is two, since it writes to a socket while it holds the mutex.
`notified` is a `notify_one` that found the provider in `cv.wait`; spurious wakeups
are steps too. `response` tells how httplib's loop ended: `complete` (last chunk
written), `aborted`, or `truncated` (the loop ended because the server stops).

**`FetchJobs`** — a client is a browser tab and the pool thread of its request. `Fork` is
between the two critical sections of the launcher. `child` is the process table; a
pid is free again only after `waitpid`. `ReapJobs` is `reap_jobs` whole: the order of
the hash table is any order, and the cap is applied to the result.

**`ClipStore`** — the name of a save is the second and a suffix: `Timestamp` does what
the code does, the milliseconds are lost. Opening, writing and closing a file are
separate steps, so is truncating and flushing a sidecar; a flush over a longer text
leaves a file that does not parse. Names are compared exactly; bytes are not
modelled, only whether a sidecar parses and to what. `given` and `raced` are history.

**`Shutdown`** — `main` from boot to exit, the watcher, `stop()`, the accept loop, the
queue and the pool. `stop()` acts only when `is_running_`; `Take` drops a queued
connection once the socket is closed, as httplib's `keep_alive` does.

**`Serving`** — the process as a whole: `Shutdown`'s requests, of which `Streamed` is
answered by `StreamBuffer`. `AnswerWhole` is httplib's `process_request`, which returns
only when the response was written; the worker goes on until the process is gone. A stop
that closes the socket is `StreamBuffer`'s `Stop`.

**`MossDelay`** — a row of `audio_buf` is the set of codebooks whose code is not padding:
which code was sampled does not matter to any property. `DelayStep` is `delay_step`
with its masks, forced tokens and counters; `StreamNew` is the per-step incremental
decode, with `skipped` for the rows whose decode threw; `FinishBatch` and `FinishStream`
are the two ends of `run_tts`. The prompt's
rows (with the reference of a voice clone, delayed) are the initial buffer.

**`ManagedModel`** — one step per Python statement the other thread can see. `session[m]`
is `_session`, two objects may have the same one (the hot path, `LoadTake`); `open` is
what has its weights in VRAM. `Close` frees the weights of whoever shares the
session, `Drop` only the object's own reference. ComfyUI's `free_memory` and
`cleanup_models_gc` are external and modelled from what `core.py` says of them.

**`VoiceStore`** — the other library. Opening (which truncates) and writing a voice are
two steps, and so are the read and the write of `seq++`. A sidecar's text is tracked as
far as it parses and to what; shapings are named by their length, since a shorter text
over a longer one leaves the end of it. A request that makes a voice of others loads
them one by one. A write that fails (a
full disk) leaves a short file that is listed as a voice: blend, shift and
discover_direction answer 500 then, upload and extract do not look. `saved` and `clash`
are history. A voice is read in one step.

**`ModelBoot`** — `main` until the server listens. A directory is a sequence of kinds of
files, in the order its iterator yields them, which nothing fixes. `Bound` is what a
loader finds when it is given a directory or one of its files, per family: of ACE-Step
the preferred DiT and language model, and the first text encoder in BF16 or F16. `Given` is
the registry's replacement of a directory by its first file.

**`Qwen3Runner`** — a runner is two row counts; a pass is the set of its outcomes, with
the reason of a refusal and the runner it leaves. `Verdict` is what llama.cpp (external)
does of a batch: the positions must continue the cache and fit the context.
`ForwardEmbeddings` goes chunk by chunk and leaves the chunks before a refused one.

**`AceStep`** — one action per phase of `run_music`, each with its early returns.
Buffers are abstracted to the request that wrote them ("this" or "earlier"), latents to
lengths; `weights` says where the DiT's tensors are (in the mapped file, in memory, on
the GPU) and where they were when the detokenizer cloned its own from them. `IsCover`
and `IsRepaint` are what `run_dit_and_vae` tests: buffers, not the request's mode.

**`AceVae`** — `decode`'s loop over tiles. `sound` is the set of samples with a weight above
zero: half a Hann window is zero at one sample of each overlap only, and which one
it is decides whether two tiles cover everything. The real numbers (tile 64, overlap
12, 1920 samples a frame) are scaled down in the run and arbitrary in the proof.

**`Qwen3Tts`** — loading, modes, the prefill's row count, the frame loop. A frame is one of
three values: the loop looks at whether it is all zeros and whether it equals the
last one. `Kept` is the frames before the first of zeros, which is what counts.
`missed` is the streamed frames whose decode threw: the code logs it and counts them as
decoded all the same.

**`MossSfx`** — loading, both encodings, the denoising with its kept graph, the chunks. The
encoder's cache is modelled as it is: nothing clears it, which is finding 5.

**`SignalNets`** — the length of what each network makes of a signal, layer by layer, from
the arithmetic of `ggml_conv_1d`, `ggml_col2im_1d` and the crops of the code.

**`ComputeGraphs`** — ten kinds of calls, one at a time. A tensor is filled from a buffer at
upload time, not when the upload was collected; memory belongs to an allocator that a
later call frees. `Needed` is what a graph reads, `Uploads` what the code uploads.

## 3. Runs

| Run | Instance | States | Shows |
|---|---|---|---|
| `slots` | 2 slots (one Qwen3), 2 threads, 1 worker, 2 models, every endpoint, fair | 111,272 | refinement `PromiseSpec`, `IInv`, `SlotsSound`, `LockedUse`, `SlotsGivenBack` |
| `slots_stream_unload` | 1 slot, 2 threads, 1 worker, 3 models; load, unload, stream | violation | `WorkerSessionLive` (finding 1) |
| `fetch` | 2 jobs, 2 tabs, 2 pids, history 2, fair | 284,782 | `TypeOK`, `OwnChildren`, `RecentKeepsNewest`, `NoResultLost`, `ZombiesReaped`, `Reported` |
| `fetch_double` | 1 job, 2 tabs, 3 pids | violation | `SingleDownload` (finding 2) |
| `serving` | 3 requests, one streams up to 3 chunks, pool of 2, fair | 41,532 | `ServingTypeOK`, `Delivered`, `NotForgotten`, `OrphanOnlyIfCut`, `InFlightFinish`, `StopEnds`, `SignalWhileRunning`, `StreamEnds` |
| `library` | clips: 2 requests, 2 models, names `_1` and `_2` of one second; voices: 2 requests, 2 voices, 2 shapings, 2 draws | 1,428,629 | `LibraryInv`, `NewestKept`, `OwnClipsKept`, `VoicesKept`, `OwnEmbedding` |
| `clip_score` | 2 requests, 2 ratings, 1 score | violation | `ScorePreserved` (finding 3) |
| `comfy` | 3 objects, 2 keys, 4 sessions | 194,982 | `ManagedInv`, `Accounted`, `SingleResident` |
| `comfy_closed` | 2 objects, 2 keys, 3 sessions | violation | `NoClosedUse` (finding 4) |
| `generation` | one of seven modules per behaviour, any sequence of requests | 509,972 | `GenTypeOK`, `AcePositions`, `AceConditioning`, `VaeTiled`, `TtsPositions`, `TtsWhole`, `SfxTiled`, `DelayUndone`, `StreamDone`, `GraphFilled`, `GraphFits`, `OnePerFamily`, `RolesRight` |
| `sfx_fresh` | a prompt of 2 tokens, a negative one of 0 or 1 | violation | `SfxFresh` (finding 5) |
| `boot_files` | the directories of `generation` | violation | `DirectoryLoads` (finding 6) |

Types are part of the inductive invariants `IInv`, `LibraryInv` and `ManagedInv`, and
are checked by themselves in `fetch`, `serving` and `generation`. The counts are TLC's
distinct states, after symmetry where the configuration has it.

**What the properties say that a test would hardly reach.** `SlotsSound` and
`LockedUse`: whatever load, unload, extract and stream do between each other's
assignments. `NoResultLost`, `RecentKeepsNewest`: the only copy of a result moves
between two tables with a cap. `Delivered`, `NotForgotten`, `OrphanOnlyIfCut`: a stop or
a disconnect at any point of a stream. `NewestKept`, `VoicesKept`, `OwnEmbedding`:
read-modify-write on disk without locks, with the exact exception stated. `Accounted`,
`SingleResident`: three bookkeepings of one memory. `AcePositions`, `TtsPositions`: a
request starts right whatever the request before it left in the caches, refused or not.
`AceConditioning`: buffers that outlive requests decide what a request is, and the
weights a song needs are cloned before its DiT runs (a cover's text and lyrics, and what
it does to the weights, excepted: section 6). `InFlightFinish`: what is being
served when a stop comes is answered before `main` returns. `TtsWhole`, `SfxTiled`,
`VaeTiled`: limits, cuts and chunks against what is heard; of a stream, gaps where a
decode threw are the only ones. `DelayUndone`, `StreamDone`: masks, counters and the
de-delayed view. `GraphFilled`, `GraphFits`: uploads done later than they were collected
(the encoder of the Qwen3-TTS codec excepted, section 6); lengths through a dozen
layers. `OnePerFamily`, `RolesRight`: failed loads, repeated ids, any order of a
directory.

**Why the bounds are enough.** A slot's protocol involves a holder, a contender and
the unlocked worker; two slots let a loop over slots and two owners of models
differ, and two models make a reload construct one while the other is still
referenced. Two tabs on one job are the least that can race through the gap of the
launcher; a history of two with two jobs fills and overflows it. Three chunks let the
queue hold more than one while another is being written; three requests over two
threads leave one in the queue at the stop, while another streams. For the delay
pattern, three codebooks give a flush with a first, a middle and a last step, and
eight steps hold a whole audio segment and an end (`NVq + 1` steps is the shortest
flush); the proofs remove this bound. Two read-modify-writes and a deletion are what a
sidecar's races need; two suffixes let a name be taken and another found; two draws
of the counter are one race. Three objects over two keys give sharing, replacement
and a third party at once; four sessions are one more than the objects, so
`LoadCreate` never lacks a fresh one.

In `generation`: `NCtx = 20` with prompts of 17 and 18 rows makes a cache fill up within
the codes of one request, so the refusal for capacity happens in the middle of a loop;
`NUBatch = 8` makes a prefill take three chunks, any of which may be refused. One length
a request may name and another default let both sources of `n_codes` occur; input audio
of 7 frames is a code and a rest, and 0 is none. Clips of 1, 6, 7, 10, 11 and 15 frames
over tiles of 6 with an overlap of 2 are: less than a tile, a tile, a rest of one frame,
two tiles exactly, and three tiles and a rest. The seven speech requests have every
mode, streamed or not, every kind of voice, and limits below and above the stuck-loop
detector's reach, which cuts after 2 equal frames past the 2nd (12 and the 18th in the
code). Latents of 6 frames in chunks of 4 leave a short chunk, and 0, 5 and 9 asked are
none, a crop and more than there is. Sizes of 1 and 2 with a window of 1 switch the
optional inputs of a graph on and off, and let a kept graph fit and not fit. Directories
are every order of two DiTs, of two language models and of three text encoders, every
order of MOSS's three files, and incomplete ones; the configurations have a family
twice, an id twice, `--lazy`, `--alias` and `--model`.

**Symmetry** is used only in runs without liveness: threads, slots and voices in
`library`; objects, keys and sessions in `comfy`.

**Deadlock** is checked in every run: the only states without a further step are ends
(`Crashed`, `Over`, `BootDone`), which stutter explicitly.

**Fairness.** `slots`: every thread and every worker goes on when it can, and calls into a
model return; weak fairness on a thread's step does not say that a waiting thread is
ever given a contended mutex, and no property needs it. `fetch`: a request once
received is served and some Models tab stays open (it polls every 3 s); nothing is
assumed of how long a script runs. `serving`: main, watcher, pool, worker and provider
go on and handlers return; a wait on the condition variable ends only if it was
notified, so a lost wakeup would show as a stream that never ends; neither clients
nor signals owe anything. The threads are kernel threads, which justifies weak
fairness. The other runs check safety only.

## 4. Mutants

Each property of each passing run has a mutant in `PROJECT.json`: a mapped definition
replaced by a changed copy of it, such as an unload that keeps the session pointer, a
reap that ignores the exit code, a provider that looks at `done` first, a flush one
step too long. With it TLC finds the property violated under the run's own
configuration.

## 5. Proofs

`tlapm` checks every proof below for all values of the constants. The assumptions are
those named `...Assumption` in the modules: null values are not elements of the sets
they stand beside, sets of slots are not empty, numbers are natural and positive; the
jobs of a server are finitely many, the stuck-loop detector of Qwen3-TTS allows more
than one repetition (the code's limit is 12, `qwen3_tts/session.cpp:996`), and the marks
`"none"` and `"seq"` of `VoiceStore` are not names of voices. TLC evaluates them in the
runs.

**`ModelSlotsProofs`.** `IInv` is `TypeOK`, `MutexDiscipline` (a thread holds the mutex
of its slot exactly at the labels inside the critical sections), `SlotDiscipline` (how
`model`, `session` and `loaded` relate, by the label of the holder), `UseDiscipline`
(whoever computes has the slot's own session and the mutex) and `OneOwner`. None of the
properties is inductive by itself: `SessionNotDangling`, say, depends on `unload`
clearing the pointer before the model, which only the label-by-label relation expresses,
and this needs that nobody else assigns in between, which is the mutex discipline. One
lemma per conjunct shows that each step preserves it. From `IInv` follow `TypeCorrect`,
`SlotsAreSound`, `LockedUseIsSafe` and the action property `NoFree`. `Refinement` has no
hypothesis: `SerialStep` takes a step between two states without a worker inside a
session, and splits these into those that leave `Resident` and `User` alone
(`SilentStep`) and those that are one step of `SerialSlots` (`VisibleStep`). If no client
calls the streaming endpoint, no worker ever is (`NoStreamStays`), and
`SerialWithoutStreams` is the refinement without exception.

`UnloadAloneDestroys` is an action property: what destroys a model is the unload of its
own slot. A load goes on to the registry only when the slot has neither session nor
model (`LoadFindsNone`). Hence `SafeWithoutUnload`: if `unload` is not among the
operations, `SeenInv` is inductive beside `IInv` (who saw a session still finds one), no
handler or worker reads a null session, and the session of a detached worker is never
destroyed. Finding 1 and the two disagreements about `crashed` are thus of
`/v1/models/unload` alone.

**`StreamBufferProofs`.** `IInv` adds to the properties where the buffer must be
non-empty (`write`) and empty (`check`), and that `done` is the worker's end; `Ordered`,
`Whole` and `NoLostWakeup` follow for any number of chunks.

**`ServingProofs`.** `StreamRefined` shows that the serving process, whose stop is a
closed socket and whose provider is a pool thread, implements `StreamBuffer`; every fact
of `StreamBufferProofs` then carries over (`ChunksDelivered`, `NoneForgotten`,
`OrphansOnlyIfCut`). `ServerInv` says where a request may be in each phase of `main`,
and that the threads `main` waits for are those that still hold one, for any number of
requests and threads. `ServingTypes` bounds the pool's use of threads
by its size, which needs cardinalities of finite sets.

**`SpeechProofs`** (`MossDelay`, `Qwen3Tts`). The properties of `MossDelay` speak of
de-delayed rows of the whole buffer, and a step sees only its last row. `IInv` therefore
says: every code lies on a diagonal that begins in codebook 0 (`Diagonal`), the next row
continues the last one (`Continues`), and once a flush has begun the incomplete frames
are the newest ones, as many as the counter says (`Flushed`), with the relations between
the counters (`Phase`) and to the prompt (`PromptRows`) and to `decoded_frames`
(`Streamed`). From it follows `PatternUndone`, for any number of codebooks and steps.
`StreamDoneHolds` adds that no frame goes out twice or after it was skipped (`OnceMore`,
`SentMore`), and that a stream that ends well got every frame but those whose decode
threw: when the loop ends, every frame lies among the rows it is done with
(`FramesDone`), so there are no more frames than rows, and the flush, which skips as
many *frames* as `decoded_frames` counts *rows* (`moss_tts/session.cpp:742`), never
finds one left (`NothingLeft`). What it emits needs no enumeration of the frames, only
their number.

`TtsInv` serves the two properties of `Qwen3Tts`. `TalkerRows` gives the rows of the
talker's cache in each phase (none before the prefill, then its rows and one per frame,
less the one being fed); `Counted` says that the detector's counter is at least the
length of the run of equal frames that just ended, and that no run before it was frozen;
`Heard` relates `decoded` to the frames, streamed or in chunks. The lemmas on a pass
(`PassContinues`, `DecodeLeaves`, `FineCodesLeave`) say what it may leave behind when it
fails. `OneMore`, `NotStuck` and `Stuck` carry the detector over one frame: when it
fires, what it zeroes out is what `Kept` drops. `TtsPositionsHold` and `TtsWholeHolds`
follow for any requests, limits and failures.

**`LibraryProofs`** (`ClipStore`, `VoiceStore`). The `IInv` of clips adds to `TypeOK`
and `NewestKept` that a slot is one request's (`OneHolder`), that a name about to be
created was not created by its own slot (`FreshName`), which job fields are set when
(`Phases`), and that an undisturbed request has read, and will put back, the newest
values (`Undisturbed`). `TypeCorrect`, `SidecarsNewest` and `OwnClips` follow.
`ScoresPreserved` is what finding 3 leaves: while no two requests are between reading
one sidecar and writing it back (`MergedApart`), `raced` stays empty (`RacedNever`), and
a score that was answered is kept. `VoiceInv` says of voices that a request that is
about to write has a name to write to (`Placed`); for each name nobody raced for
(`Shapely`), that its sidecar has one writer at most, who found it empty, and with none
says what was saved; and while no two requests drew at once (`Numbered`), that their
numbers differ, lie below the counter, and have their own references behind them.
`VoicesKeptHolds` and `OwnEmbeddingHolds` follow, and with `IInv` of the clips
`LibraryInvHolds`. A voice whose write failed stays short, and a shaping whose write
failed need not be the one saved last; `VoicesKept` names both.

**`SoundProofs`** (`AceStep`, `AceVae`, `MossSfx`, `ComputeGraphs`, `ModelBoot`, and
`MCGeneration`, which composes them). `PositionsInv` says, for each phase of the
language model, how many rows each of its two caches holds; the lemmas on
`Qwen3Runner`'s outcomes (`DecodeContinues`, `SecondaryContinues`, `UncondPrefilled`) say
what a pass adds when it succeeds and what it may leave when it does not. From it
`OnlyNullTextRefused`: whatever is asked and whatever fails, the one pass that is refused
for its position is that of the empty text, which is encoded behind the caption. So
`AcePositionsHold` from `NullTokens = 0`, when the text encoder's tokenizer gives the
empty text no token; for a vocabulary that adds one it is false (section 6).
`AceConditioningHolds` needs no such hypothesis, as `AceTypes` does not:
`ConditioningInv` says which buffer is of this request from which phase on, and that a
song's are preceded by the clone of the detokenizer's weights. Both except covers from
what they say of text, lyrics, codes and that clone. `DetokOfSongs` says how far the
disagreement about the clone goes (section 6): as long as no cover is asked, the tensors
are in the file when the detokenizer clones them (`ClonedInv`), since a song decodes its
codes before its DiT runs.
`VaeTiledHolds`: the loop's invariant is that after `i` tiles
every sample below the end of tile `i` sounds (`Upto`); that the next tile fills the one
sample its predecessor's fade leaves silent is `MixedIn`, for every tile size, overlap
and upsampling that `VaeAssumption` admits. `SfxTiledHolds` is the same for MOSS-SFX:
every frame lies in the chunk its index falls into or is that chunk's last (`ChunkOf`),
`SfxInv` keeps that the chunks up to `step` are heard, and the crop only shortens.
`OneTextPerSession` tells how far finding 5 goes: a text encoder that holds no row never
refuses a prompt for its position, and one that holds some takes no more
(`RowsStay`), so that a session encodes one text in its life.

For the graphs, a lemma per network gives its length for every input: the residual units
keep it (`AceUnitsKeep`, `SfxUnitsKeep`), each stage multiplies it, and so ACE-Step's
decoder makes `1920 t` samples (`AceDecodes`), MOSS-SFX's `960 t - 26` (`SfxDecodes`),
and the encoders divide (`SeanetDivides`, `MossLengths`). `GraphFitsHolds` says that the
call in hand always has the lengths its caller assumes. `GraphFilledHolds` needs that
what a call queues covers every tensor its graph reads and gives each the value meant
for it (`NeededUploaded`, `UploadsMeant`), from `FilledInv`: the queue is whole until
the upload, and weights that are to be filled are fresh. That the uploads go to this
call's tensors is `GraphTypes`: memory holds something only between the upload and the
read.

Of the boot: `OnePerFamilyHolds`, from `BootInv`: the family of a loaded slot is among
those tried eagerly, and a deferred slot is not loaded. It holds whatever loads fail, and
for any list of configured models. `RolesRightHolds` holds for any order of the listing:
`Found`, `FoundFirst` and `FoundLast` say what a loader's scan keeps, `FoundPreferred`
that a preferred file wins from any place; of two text encoders in sixteen bits the
theorem only says that one is bound (section 6). `BootTypes` needs that what discovery
keeps of a root is a sequence of its entries (`DiscoveredEntries`).

`SessionsApart` ties this to the run: a behaviour of `GenSpec` is a behaviour of each
of its seven parts, so that each theorem about a part holds in the composed model, and
`GenTypes` collects the types.

**`FetchJobsProofs`.** `FetchInv` is `TypeOK`, `OwnChildren`, and that a client about to
insert a job has forked. `OwnChildren` is inductive only with it: the child of an
insertion must be a pid that no record holds. A poll takes jobs out in some order
(`Orders`); `ReapedResults` and `ReapedJobs` say what it appends for any order, and
`NewestKeeps` what the cut at `RecentCap` leaves, from which `HistoryKeepsNewest` and
`ResultsKept` follow as action properties. Only a poll ends a job (`OnlyPollsEnd`).
`LaunchedApartOnce` is the other side of finding 2: if no two pages launch the *same* job
at once (`LaunchedApart`), there are never two downloads of it, whatever other jobs are
launched, polled and reaped meanwhile. `SingleInv` carries it: a request past the check
still finds its job out of `active`.

**`ManagedModelProofs`.** `ManagedInvariant` proves `ManagedInv`: `TypeInv`, which holds
always, and `Safe`, which holds until two threads are in methods of one object. `Safe`
says that the threads are apart (`Apart`), what a cleanup has achieved at each place
(`Cleaned`), that nothing is open when a load creates (`Making`), that nobody shares
what is not yet listed (`Private`), which wrappers the list may hold (`Listing`), and
whose the one open session is (`Resident`). `Accounted` and `SingleResident` follow, for
any number of objects, keys and sessions; neither is inductive without the other.
`OwnSessionOpen` locates finding 4: if no two objects have one family and path
(`KeysApart`), no node calls into a closed session, and this needs no `~raced`: `OwnInv`
says that a session without the hot path is one object's, and open until a cleanup of
that object has closed it and is about to drop it.

**What the findings leave.** Five of the six runs that find a violation have a theorem
that bounds it, for every instance: `SafeWithoutUnload` (1), `LaunchedApartOnce` (2),
`ScoresPreserved` (3), `OwnSessionOpen` (4), `OneTextPerSession` (5); finding 6 is bounded
by nothing but the run. Most have as hypothesis what clients or users would have to
observe; a repair of the code would have to establish it. In the same way
`SerialWithoutStreams`, `DetokOfSongs` and `RolesRightHolds`, and of the runs
`SignalWhileRunning`, say what remains of four of the further disagreements of
section 6.

**Model-checked only.** Liveness (`SlotsGivenBack`, `ZombiesReaped`, `Reported`,
`StreamEnds`, `InFlightFinish`, `StopEnds`, `SignalWhileRunning`): fairness rests on
ENABLED, which the prover does not handle. Every invariant and every action property of
the passing runs is proved, `AcePositions` from `NullTokens = 0`, the value the run has.

## 6. Findings

Each is a counterexample of a run; `PROJECT.json` quotes the line it contradicts.

1. `slots_stream_unload`: an unload destroys the model while the detached
   streaming worker computes with its session. The worker captured the slot, not the
   model, and holds no mutex (`server.cpp:1387-1389` against `registry.cpp:47-48`). A load
   cannot do it: it answers "already loaded" while the slot has a model.
2. `fetch_double`: two POSTs for one job both pass the "already running" check before
   either registers its child; two scripts download into the same files
   (`server.cpp:709-719, 789`).
3. `clip_score`: a rating written while a score is being written takes the score away
   (`server.cpp:1570-1582`).
4. `comfy_closed`: two nodes share a session by the hot path; the Unload node on one closes
   it, and the other still takes `_session is not None` for loaded and calls into it
   (`core.py:216, 412` against `core.py:407-408`). No concurrency is needed.
5. `sfx_fresh`: MOSS-SFX encodes a prompt at position 0 of a text encoder that already
   holds the one before; nothing clears the cache, so the negative prompt of the first
   request, and every prompt of the next, is refused
   (`moss_sfx_v2/session.cpp:148` against `runner.h:263-264`).
6. `boot_files`: the registry hands a loader the first file of a directory in place of
   the directory, so the loaders' own scan for their files is never reached
   (`registry.cpp:122` against `discovery.cpp:23-25`). It is the MOSS families that lose
   files by it.

### Further disagreements

Seen with the same models when the formula on the left is checked instead, or while
modelling (no formula); they are not runs of their own.

| Formula | Model | What the code does | What is said of it |
|---|---|---|---|
| `Cardinality(User[s]) <= 1` | `ModelSlots` | the detached worker computes with a session that a request under the mutex, or a second worker, computes with too (`server.cpp:1387-1389`) | `server.h:15-16`: "the mutex that serializes concurrent requests against the same backend" |
| `~crashed` | `ModelSlots` | `extract` dereferences a session that an unload cleared since it was tested (`server.cpp:1998-2072`); the streaming worker may do so too | `server.cpp:2006-2008` answers 503 for that case |
| `ZombiesReaped` with two tabs | `FetchJobs` | `active[job_id] = job` overwrites a record, whose pid is never waited for (`server.cpp:789`) | `server.cpp:440-442`: "so we never leak zombies" |
| a 409 is given only while the child runs | `FetchJobs` | the launcher does not call `reap_jobs`, so a download that ended is still "running" (`server.cpp:713`) | `server.cpp:441-442`: "and the fetch launcher" |
| the outcome a page shows is its own attempt's | `FetchJobs` | the first entry with the id is taken, a retry finds the earlier attempt's (`app.js:3458`) | `app.js:3446`: "until `jobId` leaves `active`" |
| `flag ~> main = "exited"` | `Shutdown` | `stop()` does nothing before `is_running_` is set, and the watcher that called it is gone: that signal and every later one is lost (`httplib.h:6431`, `main.cpp:376-384`) | `main.cpp:360-361`: "SIGINT/SIGTERM ask httplib to stop accepting and finish in-flight responses" |
| `response # "truncated"` | `Serving` | a stop between two chunks cuts the response, and the detached worker may outlive `main` (`httplib.h:4699`) | `README.md:594-595`: "in-flight responses finish" |
| `Len(sent) <= 1` | `StreamBuffer` | every chunk is a WAV file of its own (`server.cpp:1378`) | `README.md:530-532` describes one WAV response |
| `sent # <<>> => done` | `StreamBuffer` | MOSS emits audio while it generates (`moss_tts/session.cpp:692`) | `README.md:532-534` says that families render first |
| `streamed # <<>> => time_step >= NVq` | `MossDelay` | rows are counted from the prompt on, so the first audio comes before any frame is complete (`session.cpp:695`) | `session.cpp:42-43` |
| every extracted frame lies after `total_S` | `MossDelay` | a voice clone's result begins with its reference (`session.cpp:737`) | `session.cpp:736`, `delay_state.h:71` |
| no save opens a name that exists | `ClipStore` | two models that save in one second pick one name (`server.cpp:78`) | `server.cpp:67-68` |
| names of two milliseconds differ | `ClipStore` | the milliseconds are written behind the terminating zero (`server.cpp:64`) | `server.cpp:61` |
| a deleted name has no sidecar | `VoiceStore` | the sidecar stays, a new voice of that name inherits the shaping; the same holds for clips (`server.cpp:1519`) | |
| `pc[Worker] # "dead"` | `ManagedModel` | `/audiocore/free` removes a wrapper from the list while `free_memory` works on it by index; the IndexError ends the prompt worker (`core.py:306`) | `core.py:314-326, 588-592` keep the list intact for that reason |
| `Accounted`, `SingleResident` without `~raced` | `ManagedModel` | a free inside a node's method on the same object leaves weights unlisted or two sessions open | `core.py:176`: "only ONE model resident in VRAM at a time" |
| `AcePositions` with `NullTokens = 1` | `AceStep` | with a vocabulary that adds a token to every text, the empty one is encoded at position 0 behind the caption, and refused (`session.cpp:1027-1034`) | `runner.h:263-264` asks for a clear |
| `DetokFromHost` | `AceStep` | a cover runs the DiT, which moves the tensors to the GPU, without the detokenizer; the first song after it clones the detokenizer's weights by `memcpy` from there (`detokenizer_runner.cpp:90-151`) | `detokenizer_runner.cpp:175-178`: "BEFORE any CUDA migration" |
| `pc = "dit" /\ req.mode = "cover" => cond.lyric # "earlier"` | `AceStep` | a cover hands the DiT the lyrics' embeddings an earlier request left (`ace_step/session.cpp:1744-1752`) | `session.cpp:1374-1375`: "For cover mode, use empty text conditioning" |
| `blocks_failed_once_` is reset per decode | `AceVae` | not for clips of up to one tile | `vae_runner.cpp:1485-1488`: "across generations … the fast path MUST be retried" |
| the weights of two tiles sum to 1 | `AceVae` | one sample of each overlap has weight 0 in one of the two tiles, and the others do not add up exactly | `vae_runner.cpp:1531-1537`: "always sum to ≈1" |
| a request without a codec is answered with silence | `Qwen3Tts` | it is refused (`session.cpp:1364-1369`) | `loader.cpp:505-506`: "emits 1 s silence" |
| `bound.te = "te_bf16"` if it is there | `ModelBoot` | of a BF16 and an F16 text encoder the one listed first is loaded (`ace_step/loader.cpp:229-246`) | `loader.cpp:225`: "ALWAYS prefer BF16"; 240: "F16 preferred" |
| `QwenDecoded(t, ..) = 1920 t` | `SignalNets` | one frame becomes 1365 samples, `t` frames `1920 t - 555` | `qwen3_tts/session.cpp:43`, `codec.h:70` |
| `SfxDecoded(t) = 960 t` | `SignalNets` | `960 t - 26`: the ends of chunks lack samples | `moss_sfx_v2/vae_runner.cpp:665`: "Total upsampling = … = 960" |

Seen on the way, and not in a formula:

* *Streams.* A generation that fails half way ends its response with `sink.done()`, as a
  good one does; a MOSS codec that throws skips its rows and still ends well
  (`moss_tts/session.cpp:721-726`), and so does Qwen3-TTS's streaming decode
  (`qwen3_tts/session.cpp:1197-1202`): in the models, `skipped` and `missed`.
* *ACE-Step.* Repaint reads `repaint_src` past the source's length (`session.cpp:243`); the
  detokenizer's pool overflows at about 190 codes (comment at 235-238); early
  returns of `run_one_forward` leak; the status of some computations is ignored; the
  VAE's error text is cleared, so a failing slow path answers with an empty error;
  4096 rows of context take fewer than the 3000 codes that may be asked for after a
  long prompt.
* *Qwen3 runner.* A prompt longer than a batch goes unchunked through `forward_tokens`
  (287 against 241-246); `embed_lookup` keys its table by dimensions only (401-405); a
  weight delta that fails half way leaves a mixture (764-768).
* *Qwen3-TTS.* A text of no tokens reads `text_ids_raw[0]` (about 830); after one failed
  predictor step the fallback is always refused and the fine codes are silently zero;
  streaming emits frames that the batch decode leaves out; two language tables differ
  (566-575, 170-175); the codec's encoder never uploads positions, mask and some weights
  (`codec.cpp:1205-1230`); audio shorter than a window is read past its end by the
  speaker encoder.
* *MOSS-SFX.* A failed materialize is skipped; a prompt of over 512 tokens overruns; more
  than 30 s asked gives 30 s.
* *Boot.* A repeated id replaces a loaded slot; a failed eager load still keeps the
  family's next model from loading; the manifest's candidates dangle
  (`manifest.cpp:95`); MOSS-TTS fails to load when its extras file comes first.
* *Voices.* `"saved"` is true although the file could not be opened or its write failed,
  which leaves a short file listed as a voice; temporary files are
  never deleted; a voice is read in two reads, so a load during a replacement may mix
  two (the model reads in one step); a synthesis during a PUT silently uses the default.
* *Downloads.* With several pages the history of finished jobs may push an entry out
  before its page lists it.

The hot path of `ManagedModel` compares family and path only, while
`test_model_management.py` speaks of "(family, path, backend)"; `backend` is not in the
model.

## 7. What is not modelled, and why

* **Numbers.** The values in tensors, the sampler's floating point, DSP, WAV and MP3 bytes:
  their correctness is numeric. The session models let a sampler return any token, and
  `SignalNets` keeps the lengths.
* **Bytes read once.** The GGUF reader and the manifest's JSON: one thread, no state
  between calls.
* **Sequential tools.** CLI, bindings, converters, scripts: one call, no state between.
* **Third-party code.** httplib appears where the server depends on its threads; llama.cpp
  where the runner depends on its positions; ggml is an empty submodule; nlohmann/json
  is taken to parse what it is given.
* **Within modelled components.** Endpoints that only read (`/health`, `/v1/clips`,
  `/v1/models/available`); `/v1/voices/analyze`, which runs a script over the voices and
  with `save_dirs` has it write `.dir` files; the write of a clip's sidecar failing;
  the end of `main`'s locals under a running detached worker; `run_music` through the
  MOSS loop and `compute_embedding`; LoRA scaling; what a prompt or a grammar says;
  exceptions out of `run_tts` in the detached worker; the memory a slow client's queue
  takes; the ComfyUI engines' own state and the backend of a load; a PUT of a shaping
  that cannot open its file.

## 8. Plan

Done, in the order of importance: `SerialSlots`, `ModelSlots` and their proofs;
`FetchJobs`; `StreamBuffer`, `Shutdown` and their composition `Serving` with its
refinement; `MossDelay`; `ClipStore` and `VoiceStore`; `ManagedModel`; the sessions
`AceStep`, `Qwen3Tts` and `MossSfx` on `Qwen3Runner`; `AceVae`, `SignalNets` and
`ComputeGraphs`; `ModelBoot`.

Proved: every invariant and action property that a passing run checks, both refinements,
and how far each finding goes (section 5).

Left, in this order:

1. `Sampler`: masks, top-k and top-p over ranked tokens, and that a token remains.
2. `GgufReader`: the bounds arithmetic at its integer width; the manifest's precedence.
3. `fetch_models.sh`: which files exist after a stop at each step, composed with
   `FetchJobs`.
