----------------------------- MODULE ModelSlots -----------------------------
(***************************************************************************)
(* The model slots of the HTTP server (src/server/server.cpp, struct       *)
(* ModelSlot of server.h) and the request handlers that share them.        *)
(*                                                                         *)
(* httplib runs every request on a thread of its pool.  A handler that     *)
(* needs a model goes through slot->mtx; two do not: the worker of         *)
(* /v1/audio/speech/stream calls run_tts after its handler returned, and   *)
(* so released the mutex, and /v1/voices/extract looks for a loaded slot   *)
(* before it locks one.                                                    *)
(*                                                                         *)
(* A session pointer and the ILoadedModel that owns the session are        *)
(* identified: session[s] = m says slot->session points into model m.      *)
(* Rejections that touch no slot (bad JSON, unknown id) are stuttering.    *)
(***************************************************************************)
EXTENDS FiniteSets

CONSTANTS
    Slots,       \* the configured model ids, the keys of *slots_ref
    Qwen3Slots,  \* those whose session->family() contains "qwen3"
    Threads,     \* threads of httplib's pool, one request each at a time
    Workers,     \* bound: detached stream workers alive at once
    Models,      \* bound: identities of loaded models
    Ops,         \* the endpoints the clients call
    Null         \* nullptr; also "nobody holds this mutex"

AllOps == {"load", "unload", "generate", "stream", "extract", "list"}

ASSUME NullAssumption  == Null \notin Threads \cup Models
ASSUME SlotsAssumption == Slots # {}
ASSUME Qwen3Assumption == Qwen3Slots \subseteq Slots
ASSUME OpsAssumption   == Ops \subseteq AllOps

VARIABLES
    mutex,    \* slot->mtx: the thread that holds it, or Null
    model,    \* slot->model
    session,  \* slot->session, non-owning
    loaded,   \* slot->loaded
    live,     \* the models that are constructed and not yet destroyed
    pc,       \* what thread t is about to do
    slot,     \* the slot thread t works on
    todo,     \* the slots a loop over *slots_ref has still to visit
    use,      \* the session thread t computes with, under the mutex
    wpc,      \* what detached worker w is about to do
    wslot,    \* the ModelSlot captured by worker w
    wuse,     \* the session worker w computes with
    crashed   \* the process died of a null session

slotVars   == <<model, session, loaded, live>>
threadVars == <<pc, slot, todo, use>>
workerVars == <<wpc, wslot, wuse>>
vars == <<mutex, slotVars, threadVars, workerVars, crashed>>

\* The points at which a handler holds the mutex of slot[t].
Holding == {"loading", "setSession", "setLoaded",
            "unloading", "resetModel", "clearLoaded",
            "run", "spawn", "return", "encode"}

Computing == {"run", "encode"}

PCs == {"idle", "load", "unload", "generate", "stream", "list",
        "find", "family", "prepare"} \cup Holding

\* main() registers every configured model; each slot is loaded eagerly or
\* left to be loaded on demand (deferred, lazy mode, or a failed load).
Init ==
    /\ model \in [Slots -> Models \cup {Null}]
    /\ \A s1, s2 \in Slots : model[s1] = model[s2] /\ model[s1] # Null => s1 = s2
    /\ session = model
    /\ loaded = [s \in Slots |-> model[s] # Null]
    /\ live = {model[s] : s \in Slots} \ {Null}
    /\ mutex = [s \in Slots |-> Null]
    /\ pc = [t \in Threads |-> "idle"]
    /\ slot = [t \in Threads |-> CHOOSE s \in Slots : TRUE]
    /\ todo = [t \in Threads |-> {}]
    /\ use = [t \in Threads |-> Null]
    /\ wpc = [w \in Workers |-> "idle"]
    /\ wslot = [w \in Workers |-> CHOOSE s \in Slots : TRUE]
    /\ wuse = [w \in Workers |-> Null]
    /\ crashed = FALSE

-----------------------------------------------------------------------------
Goto(t, label) == pc' = [pc EXCEPT ![t] = label]
Lock(t)   == /\ mutex[slot[t]] = Null
             /\ mutex' = [mutex EXCEPT ![slot[t]] = t]
Unlock(t) == mutex' = [mutex EXCEPT ![slot[t]] = Null]

\* The pool hands thread t a request for endpoint op, naming slot s.
Receive(t, op, s) ==
    /\ pc[t] = "idle"
    /\ Goto(t, IF op = "extract" THEN "find" ELSE op)
    /\ slot' = [slot EXCEPT ![t] = s]
    /\ todo' = [todo EXCEPT ![t] = IF op \in {"extract", "list"} THEN Slots ELSE {}]
    /\ UNCHANGED <<mutex, slotVars, use, workerVars, crashed>>

---------------------------- (* /v1/models/load *) --------------------------
LoadLock(t) ==
    /\ pc[t] = "load"
    /\ Lock(t)
    /\ Goto(t, "loading")
    /\ UNCHANGED <<slotVars, slot, todo, use, workerVars, crashed>>

\* {"already_loaded": true}: return without touching the slot.
LoadAlready(t) ==
    /\ pc[t] = "loading"
    /\ loaded[slot[t]] /\ session[slot[t]] # Null
    /\ Unlock(t)
    /\ Goto(t, "idle")
    /\ UNCHANGED <<slotVars, slot, todo, use, workerVars, crashed>>

\* slot->model = registry->load(...): a new model, the old one destroyed.
LoadModel(t) ==
    LET s == slot[t] IN
    /\ pc[t] = "loading"
    /\ ~(loaded[s] /\ session[s] # Null)
    /\ \E m \in Models \ live :
          /\ \A w \in Workers : wuse[w] # m     \* a fresh identity
          /\ model' = [model EXCEPT ![s] = m]
          /\ live' = (live \ {model[s]}) \cup {m}
    /\ Goto(t, "setSession")
    /\ UNCHANGED <<mutex, session, loaded, slot, todo, use, workerVars, crashed>>

\* registry->load throws, or there is no registry: 500.
LoadFails(t) ==
    /\ pc[t] = "loading"
    /\ ~(loaded[slot[t]] /\ session[slot[t]] # Null)
    /\ Unlock(t)
    /\ Goto(t, "idle")
    /\ UNCHANGED <<slotVars, slot, todo, use, workerVars, crashed>>

\* slot->session = slot->model->create_session(...)
LoadSession(t) ==
    /\ pc[t] = "setSession"
    /\ session' = [session EXCEPT ![slot[t]] = model[slot[t]]]
    /\ Goto(t, "setLoaded")
    /\ UNCHANGED <<mutex, model, loaded, live, slot, todo, use, workerVars, crashed>>

\* slot->loaded = true; the response; the mutex is released on return.
LoadDone(t) ==
    /\ pc[t] = "setLoaded"
    /\ loaded' = [loaded EXCEPT ![slot[t]] = TRUE]
    /\ Unlock(t)
    /\ Goto(t, "idle")
    /\ UNCHANGED <<model, session, live, slot, todo, use, workerVars, crashed>>

--------------------------- (* /v1/models/unload *) -------------------------
\* Mutant: unload does not take the mutex.
UnloadNoLock(t) ==
    /\ pc[t] = "unload"
    /\ Goto(t, "unloading")
    /\ UNCHANGED <<mutex, slotVars, slot, todo, use, workerVars, crashed>>

UnloadLock(t) ==
    /\ pc[t] = "unload"
    /\ Lock(t)
    /\ Goto(t, "unloading")
    /\ UNCHANGED <<slotVars, slot, todo, use, workerVars, crashed>>

\* Mutant: the pointer into the model is left in the slot.
UnloadLeavesSession(t) ==
    /\ pc[t] = "unloading"
    /\ Goto(t, "resetModel")
    /\ UNCHANGED <<mutex, slotVars, slot, todo, use, workerVars, crashed>>

\* slot->session = nullptr
UnloadSession(t) ==
    /\ pc[t] = "unloading"
    /\ session' = [session EXCEPT ![slot[t]] = Null]
    /\ Goto(t, "resetModel")
    /\ UNCHANGED <<mutex, model, loaded, live, slot, todo, use, workerVars, crashed>>

\* Mutant: somebody else shares the model, so the reset does not destroy it.
UnloadSharedModel(t) ==
    /\ pc[t] = "resetModel"
    /\ model' = [model EXCEPT ![slot[t]] = Null]
    /\ Goto(t, "clearLoaded")
    /\ UNCHANGED <<mutex, session, loaded, live, slot, todo, use, workerVars, crashed>>

\* slot->model.reset(): the only owner lets go, the model is destroyed.
UnloadModel(t) ==
    /\ pc[t] = "resetModel"
    /\ live' = live \ {model[slot[t]]}
    /\ model' = [model EXCEPT ![slot[t]] = Null]
    /\ Goto(t, "clearLoaded")
    /\ UNCHANGED <<mutex, session, loaded, slot, todo, use, workerVars, crashed>>

\* slot->loaded = false; the mutex is released on return.
UnloadDone(t) ==
    /\ pc[t] = "clearLoaded"
    /\ loaded' = [loaded EXCEPT ![slot[t]] = FALSE]
    /\ Unlock(t)
    /\ Goto(t, "idle")
    /\ UNCHANGED <<model, session, live, slot, todo, use, workerVars, crashed>>

------------- (* /v1/audio/speech, /v1/audio/music, .../stream *) -----------
\* Mutant: the lock is not moved into the SlotGuard, and released on return.
ResolveSlotNoGuard(t) ==
    LET s == slot[t] IN
    /\ pc[t] \in {"generate", "stream"}
    /\ loaded[s] /\ session[s] # Null
    /\ mutex[s] = Null
    /\ IF pc[t] = "generate"
       THEN Goto(t, "run") /\ use' = [use EXCEPT ![t] = session[s]]
       ELSE Goto(t, "spawn") /\ UNCHANGED use
    /\ UNCHANGED <<mutex, slotVars, slot, todo, workerVars, crashed>>

\* resolve_slot: lock the slot, keep the lock when it holds a session ...
ResolveSlot(t) ==
    LET s == slot[t] IN
    /\ pc[t] \in {"generate", "stream"}
    /\ loaded[s] /\ session[s] # Null
    /\ Lock(t)
    /\ IF pc[t] = "generate"
       THEN Goto(t, "run") /\ use' = [use EXCEPT ![t] = session[s]]
       ELSE Goto(t, "spawn") /\ UNCHANGED use
    /\ UNCHANGED <<slotVars, slot, todo, workerVars, crashed>>

\* ... and answer 503 and release it at once when it does not.
ResolveSlotUnavailable(t) ==
    LET s == slot[t] IN
    /\ pc[t] \in {"generate", "stream"}
    /\ mutex[s] = Null
    /\ ~(loaded[s] /\ session[s] # Null)
    /\ Goto(t, "idle")
    /\ UNCHANGED <<mutex, slotVars, slot, todo, use, workerVars, crashed>>

\* Mutant: the handler returns with the mutex held.
RunLeavesLocked(t) ==
    /\ pc[t] = "run"
    /\ use' = [use EXCEPT ![t] = Null]
    /\ Goto(t, "idle")
    /\ UNCHANGED <<mutex, slotVars, slot, todo, workerVars, crashed>>

\* run_tts or run_music returns (audio, an error or an exception); the
\* SlotGuard is destroyed when the handler returns.
RunDone(t) ==
    /\ pc[t] = "run"
    /\ Unlock(t)
    /\ use' = [use EXCEPT ![t] = Null]
    /\ Goto(t, "idle")
    /\ UNCHANGED <<slotVars, slot, todo, workerVars, crashed>>

\* std::thread worker(...); worker.detach(): the worker shares the slot, not
\* the lock.
SpawnWorker(t) ==
    /\ pc[t] = "spawn"
    /\ \E w \in Workers :
          /\ wpc[w] = "idle"
          /\ wpc' = [wpc EXCEPT ![w] = "start"]
          /\ wslot' = [wslot EXCEPT ![w] = slot[t]]
    /\ Goto(t, "return")
    /\ UNCHANGED <<mutex, slotVars, slot, todo, use, wuse, crashed>>

\* The std::thread constructor throws: the SlotGuard is destroyed on the way
\* out of the handler and httplib answers 500.
SpawnFails(t) ==
    /\ pc[t] = "spawn"
    /\ Unlock(t)
    /\ Goto(t, "idle")
    /\ UNCHANGED <<slotVars, slot, todo, use, workerVars, crashed>>

\* The stream handler returns: httplib goes on with the content provider
\* (module StreamBuffer), which needs no slot.
StreamReturn(t) ==
    /\ pc[t] = "return"
    /\ Unlock(t)
    /\ Goto(t, "idle")
    /\ UNCHANGED <<slotVars, slot, todo, use, workerVars, crashed>>

\* The worker evaluates slot->session->run_tts(...), holding no mutex.
WorkerStart(w) ==
    LET m == session[wslot[w]] IN
    /\ wpc[w] = "start"
    /\ IF m = Null
       THEN crashed' = TRUE /\ UNCHANGED <<wpc, wuse>>
       ELSE /\ wpc' = [wpc EXCEPT ![w] = "run"]
            /\ wuse' = [wuse EXCEPT ![w] = m]
            /\ UNCHANGED crashed
    /\ UNCHANGED <<mutex, slotVars, threadVars, wslot>>

WorkerDone(w) ==
    /\ wpc[w] = "run"
    /\ wpc' = [wpc EXCEPT ![w] = "idle"]
    /\ wuse' = [wuse EXCEPT ![w] = Null]
    /\ UNCHANGED <<mutex, slotVars, threadVars, wslot, crashed>>

--------------------------- (* /v1/voices/extract *) ------------------------
\* The loop over *slots_ref tests s->loaded && s->session without the mutex.
ExtractFind(t) ==
    /\ pc[t] = "find"
    /\ \E s \in todo[t] :
          /\ todo' = [todo EXCEPT ![t] = @ \ {s}]
          /\ slot' = [slot EXCEPT ![t] = s]
          /\ Goto(t, IF loaded[s] /\ session[s] # Null THEN "family" ELSE "find")
    /\ UNCHANGED <<mutex, slotVars, use, workerVars, crashed>>

\* 503 "no TTS model loaded"
ExtractNone(t) ==
    /\ pc[t] = "find"
    /\ todo[t] = {}
    /\ Goto(t, "idle")
    /\ UNCHANGED <<mutex, slotVars, slot, todo, use, workerVars, crashed>>

\* s->session->family(): the pointer is read again, still without the mutex.
ExtractFamily(t) ==
    /\ pc[t] = "family"
    /\ IF session[slot[t]] = Null
       THEN crashed' = TRUE /\ UNCHANGED pc
       ELSE /\ Goto(t, IF slot[t] \in Qwen3Slots THEN "prepare" ELSE "find")
            /\ UNCHANGED crashed
    /\ UNCHANGED <<mutex, slotVars, slot, todo, use, workerVars>>

\* 400: neither "clip" nor "reference_audio".
ExtractReject(t) ==
    /\ pc[t] = "prepare"
    /\ Goto(t, "idle")
    /\ UNCHANGED <<mutex, slotVars, slot, todo, use, workerVars, crashed>>

\* lock_guard(tts_slot->mtx); tts_slot->session->compute_embedding(...)
ExtractEncode(t) ==
    LET m == session[slot[t]] IN
    /\ pc[t] = "prepare"
    /\ Lock(t)
    /\ IF m = Null
       THEN crashed' = TRUE /\ UNCHANGED use
       ELSE use' = [use EXCEPT ![t] = m] /\ UNCHANGED crashed
    /\ Goto(t, "encode")
    /\ UNCHANGED <<slotVars, slot, todo, workerVars>>

ExtractDone(t) ==
    /\ pc[t] = "encode"
    /\ Unlock(t)
    /\ use' = [use EXCEPT ![t] = Null]
    /\ Goto(t, "idle")
    /\ UNCHANGED <<slotVars, slot, todo, workerVars, crashed>>

------------------------------- (* /v1/models *) ----------------------------
\* One slot of the listing: a lock_guard for the length of the loop body.
ListSlot(t) ==
    /\ pc[t] = "list"
    /\ \E s \in todo[t] :
          /\ mutex[s] = Null
          /\ todo' = [todo EXCEPT ![t] = @ \ {s}]
    /\ UNCHANGED <<mutex, slotVars, pc, slot, use, workerVars, crashed>>

ListDone(t) ==
    /\ pc[t] = "list"
    /\ todo[t] = {}
    /\ Goto(t, "idle")
    /\ UNCHANGED <<mutex, slotVars, slot, todo, use, workerVars, crashed>>

-----------------------------------------------------------------------------
\* The steps by which thread t goes on with the request it was given.
HandlerStep(t) ==
    \/ LoadLock(t) \/ LoadAlready(t) \/ LoadModel(t) \/ LoadFails(t)
    \/ LoadSession(t) \/ LoadDone(t)
    \/ UnloadLock(t) \/ UnloadSession(t) \/ UnloadModel(t) \/ UnloadDone(t)
    \/ ResolveSlot(t) \/ ResolveSlotUnavailable(t) \/ RunDone(t)
    \/ SpawnWorker(t) \/ SpawnFails(t) \/ StreamReturn(t)
    \/ ExtractFind(t) \/ ExtractNone(t) \/ ExtractFamily(t)
    \/ ExtractReject(t) \/ ExtractEncode(t) \/ ExtractDone(t)
    \/ ListSlot(t) \/ ListDone(t)

WorkerStep(w) == WorkerStart(w) \/ WorkerDone(w)

\* The process is gone.
Crashed == crashed /\ UNCHANGED vars

Next ==
    \/ /\ ~crashed
       /\ \/ \E t \in Threads, op \in Ops, s \in Slots : Receive(t, op, s)
          \/ \E t \in Threads : HandlerStep(t)
          \/ \E w \in Workers : WorkerStep(w)
    \/ Crashed

Spec == Init /\ [][Next]_vars

\* The operating system keeps running every thread, and every call into a
\* model returns.  Nothing is assumed of the order in which waiting threads
\* get a mutex, nor that clients send requests.
Fairness == /\ \A t \in Threads : WF_vars(~crashed /\ HandlerStep(t))
            /\ \A w \in Workers : WF_vars(~crashed /\ WorkerStep(w))

FairSpec == Spec /\ Fairness

-----------------------------------------------------------------------------
(* Properties *)

TypeOK ==
    /\ mutex \in [Slots -> Threads \cup {Null}]
    /\ model \in [Slots -> Models \cup {Null}]
    /\ session \in [Slots -> Models \cup {Null}]
    /\ loaded \in [Slots -> BOOLEAN]
    /\ live \subseteq Models
    /\ pc \in [Threads -> PCs]
    /\ slot \in [Threads -> Slots]
    /\ todo \in [Threads -> SUBSET Slots]
    /\ use \in [Threads -> Models \cup {Null}]
    /\ wpc \in [Workers -> {"idle", "start", "run"}]
    /\ wslot \in [Workers -> Slots]
    /\ wuse \in [Workers -> Models \cup {Null}]
    /\ crashed \in BOOLEAN

\* Memory: every constructed model is owned by exactly one slot, so an unload
\* frees what it promises to free ("frees VRAM immediately").
OneOwner ==
    /\ \A m \in Models : m \in live <=> \E s \in Slots : model[s] = m
    /\ \A s1, s2 \in Slots : model[s1] = model[s2] /\ model[s1] # Null => s1 = s2

\* slot->session never dangles, not even between the assignments of a load or
\* an unload, where handlers that do not lock can see it.
SessionNotDangling ==
    \A s \in Slots : session[s] # Null => session[s] = model[s] /\ session[s] \in live

\* Whoever gets the mutex finds the three fields of the slot in agreement.
SlotConsistent ==
    \A s \in Slots : mutex[s] = Null =>
        /\ loaded[s] <=> session[s] # Null
        /\ session[s] = model[s]

\* The three together: the fields that handlers read without the mutex, and
\* those that they find behind it, never lead to a model that is gone or shared.
SlotsSound == OneOwner /\ SessionNotDangling /\ SlotConsistent

\* A request that computes under the mutex has the slot's own, live session.
LockedUseLive ==
    \A t \in Threads : pc[t] \in Computing /\ ~crashed =>
        use[t] # Null /\ use[t] = session[slot[t]] /\ use[t] \in live

\* No two requests compute with one model under the mutex.
LockedExclusive ==
    \A t1, t2 \in Threads :
        use[t1] = use[t2] /\ use[t1] # Null => t1 = t2

\* Computing under the mutex is safe: the session is live, and one's own.
LockedUse == LockedUseLive /\ LockedExclusive

\* The mutex of a slot is held by exactly the handlers that are inside it.
MutexDiscipline ==
    /\ \A t \in Threads : pc[t] \in Holding => mutex[slot[t]] = t
    /\ \A s \in Slots : mutex[s] # Null =>
          pc[mutex[s]] \in Holding /\ slot[mutex[s]] = s

\* The handler inside slot s is at this label.
At(s, label) == mutex[s] # Null /\ pc[mutex[s]] = label

\* The fields of slot s agree except between two assignments of its holder.
SlotFields(s) ==
    /\ At(s, "setSession") => ~loaded[s] /\ session[s] = Null /\ model[s] # Null
    /\ At(s, "setLoaded") => ~loaded[s] /\ session[s] = model[s] /\ model[s] # Null
    /\ At(s, "resetModel") => session[s] = Null
    /\ At(s, "clearLoaded") => session[s] = Null /\ model[s] = Null
    /\ \/ At(s, "setSession") \/ At(s, "setLoaded")
       \/ At(s, "resetModel") \/ At(s, "clearLoaded")
       \/ /\ loaded[s] <=> session[s] # Null
          /\ session[s] = model[s]

SlotDiscipline == \A s \in Slots : SlotFields(s)

\* Only a handler inside its mutex computes, and with the slot's session.
UseDiscipline ==
    \A t \in Threads :
        /\ use[t] # Null => pc[t] \in Computing /\ use[t] = session[slot[t]]
        /\ pc[t] \in Computing /\ ~crashed => use[t] # Null

\* The inductive invariant behind the properties above.
IInv == /\ TypeOK
        /\ MutexDiscipline
        /\ SlotDiscipline
        /\ UseDiscipline
        /\ OneOwner

\* A model is never destroyed by a step of anyone while a request that holds
\* its slot computes with it.
NoFreeUnderLock ==
    [][\A t \in Threads : use[t] # Null => use[t] \in live']_vars

\* Whoever takes a slot's mutex lets it go, unless the process dies first.
MutexReleased ==
    \A t \in Threads, s \in Slots :
        mutex[s] = t ~> (mutex[s] # t \/ crashed)

\* A detached worker does not outlive its run_tts call.
WorkerEnds ==
    \A w \in Workers : wpc[w] # "idle" ~> (wpc[w] = "idle" \/ crashed)

\* Nobody keeps a slot: not its mutex, and not its session behind the mutex.
SlotsGivenBack == MutexReleased /\ WorkerEnds

\* registry.cpp:47-48, "The caller must keep the ILoadedModel alive for as
\* long as it uses the session pointer."
WorkerSessionLive == \A w \in Workers : wuse[w] # Null => wuse[w] \in live

\* The slots as their callers see them: a model is offered while both fields
\* that resolve_slot tests are set, and used by whoever computes with it, the
\* handlers under the mutex and the detached workers alike.
Resident == [s \in Slots |-> loaded[s] /\ session[s] # Null]
User == [s \in Slots |-> {t \in Threads : use[t] # Null /\ slot[t] = s}
                          \cup {w \in Workers : wuse[w] # Null /\ wslot[w] = s}]

NoStreaming == \A w \in Workers : wuse[w] = Null

Promise == INSTANCE SerialSlots
           WITH Callers <- Threads \cup Workers, resident <- Resident, users <- User

\* server.h:15-16, "One loaded model + the mutex that serializes concurrent
\* requests against the same backend": whatever a client has streamed before, each
\* step that begins and ends with no worker inside a session is one of module
\* SerialSlots.  Under a worker that computes the code breaks that promise: the
\* handlers share its session, and an unload destroys it (WorkerSessionLive).
PromiseSpec ==
    /\ Promise!Init
    /\ [][NoStreaming /\ NoStreaming' => Promise!Next]_<<Resident, User>>
=============================================================================
