---------------------------- MODULE ManagedModel ----------------------------
(***************************************************************************)
(* The models of the ComfyUI nodes (comfyui/core.py, class ManagedModel):  *)
(* Python objects that share one resident session, ComfyUI's list          *)
(* current_loaded_models, and the two threads that load and free them: the *)
(* prompt worker, which runs the nodes and ComfyUI's free_memory, and the  *)
(* event loop, which serves POST /audiocore/free.                          *)
(*                                                                         *)
(* The interpreter may switch threads between any two statements: a step   *)
(* is one statement that the other thread can see, with the local ones     *)
(* around it.  A call into a C++ session is one step: the bindings keep    *)
(* the interpreter lock.                                                   *)
(***************************************************************************)
EXTENDS FiniteSets

CONSTANTS
    Managed,   \* bound: the ManagedModel objects the graphs create
    Keys,      \* (family, path) pairs
    Sessions,  \* bound: identities of sessions and Python engines
    Null       \* None

ASSUME NullAssumption == Null \notin Managed \cup Keys \cup Sessions

VARIABLES
    key,      \* family and path of an object, Null until it is created
    session,  \* ManagedModel._session
    wrapper,  \* the objects whose _loaded_model_wrapper is set
    active,   \* ManagedModel._active_model
    listed,   \* the objects with a wrapper in current_loaded_models
    open,     \* the sessions whose weights are in VRAM
    pc,       \* what each thread is about to do
    self,     \* the object whose method it is in
    then,     \* where the prompt worker goes on after that method
    target,   \* the object it is freeing
    raced     \* history: a free and a node were in methods of one object at once

objVars == <<key, session, wrapper>>
vars == <<objVars, active, listed, open, pc, self, then, target, raced>>

Worker == "prompt_worker"
Loop   == "event_loop"
Threads == {Worker, Loop}

Init ==
    /\ key = [m \in Managed |-> Null]
    /\ session = [m \in Managed |-> Null]
    /\ wrapper = {}
    /\ active = Null
    /\ listed = {}
    /\ open = {}
    /\ pc = [p \in Threads |-> "idle"]
    /\ self = Null
    /\ then = "idle"
    /\ target = [p \in Threads |-> Null]
    /\ raced = FALSE

Created == {m \in Managed : key[m] # Null}

Goto(p, label) == pc' = [pc EXCEPT ![p] = label]

\* The prompt worker enters a method of object m.
Enter(m) ==
    /\ self' = m
    /\ raced' = (raced \/ (pc[Loop] # "idle" /\ target[Loop] = m))

-----------------------------------------------------------------------------
(* Nodes *)

\* LoadAudiocoreModel: a fresh ManagedModel(family, path), load().
LoadNode(m, k) ==
    /\ pc[Worker] = "idle"
    /\ key[m] = Null
    /\ key' = [key EXCEPT ![m] = k]
    /\ Enter(m)
    /\ then' = "idle"
    /\ Goto(Worker, "load")
    /\ UNCHANGED <<session, wrapper, active, listed, open, target>>

\* AudiocoreTTS, AudiocoreMusic, AudiocoreVoiceEmbedding, with an object of
\* this graph or of ComfyUI's output cache: _ensure_loaded() first.
RunNode(m) ==
    /\ pc[Worker] = "idle"
    /\ m \in Created
    /\ Enter(m)
    /\ then' = "run"
    /\ Goto(Worker, "load")
    /\ UNCHANGED <<objVars, active, listed, open, target>>

\* self._session.run_tts(...) returns or raises; it does raise when _session is
\* None by now.  (On a closed C++ session it dereferences a null pointer:
\* NoClosedUse.)
Run ==
    /\ pc[Worker] = "run"
    /\ Goto(Worker, "idle")
    /\ UNCHANGED <<objVars, active, listed, open, self, then, target, raced>>

\* UnloadAudiocoreModel: model.unload(), that is _cleanup().
UnloadNode(m) ==
    /\ pc[Worker] = "idle"
    /\ m \in Created
    /\ Enter(m)
    /\ target' = [target EXCEPT ![Worker] = m]
    /\ then' = "idle"
    /\ Goto(Worker, "unregister")
    /\ UNCHANGED <<objVars, active, listed, open>>

-----------------------------------------------------------------------------
(* load() and _ensure_loaded() *)

LoadAlready ==
    /\ pc[Worker] = "load"
    /\ session[self] # Null
    /\ Goto(Worker, then)
    /\ UNCHANGED <<objVars, active, listed, open, self, then, target, raced>>

Compatible ==
    /\ active \notin {Null, self}
    /\ key[active] = key[self]
    /\ session[active] # Null

\* The hot path: the active object is compatible ...
LoadHot ==
    /\ pc[Worker] = "load"
    /\ session[self] = Null
    /\ Compatible
    /\ target' = [target EXCEPT ![Worker] = active]
    /\ Goto(Worker, "take")
    /\ UNCHANGED <<objVars, active, listed, open, self, then, raced>>

\* ... and its _session is read again.
LoadTake ==
    /\ pc[Worker] = "take"
    /\ session' = [session EXCEPT ![self] = session[target[Worker]]]
    /\ Goto(Worker, then)
    /\ UNCHANGED <<key, wrapper, active, listed, open, self, then, target, raced>>

\* Mutant: the cold path forgets the model that is resident.
LoadColdKeeps ==
    /\ pc[Worker] = "load"
    /\ session[self] = Null /\ ~Compatible
    /\ Goto(Worker, "create")
    /\ UNCHANGED <<objVars, active, listed, open, self, then, target, raced>>

\* The cold path: prev._cleanup() before anything is loaded.
LoadCold ==
    /\ pc[Worker] = "load"
    /\ session[self] = Null /\ ~Compatible
    /\ IF active \in {Null, self}
       THEN Goto(Worker, "create") /\ UNCHANGED <<then, target>>
       ELSE /\ target' = [target EXCEPT ![Worker] = active]
            /\ then' = IF then = "run" THEN "createToRun" ELSE "create"
            /\ Goto(Worker, "unregister")
    /\ UNCHANGED <<objVars, active, listed, open, self, raced>>

\* The Python engine, or else the C++ session, holds the weights: _session.
LoadCreate ==
    /\ pc[Worker] \in {"create", "createToRun"}
    /\ \E s \in Sessions :
          /\ s \notin open /\ \A m \in Managed : session[m] # s   \* a fresh identity
          /\ session' = [session EXCEPT ![self] = s]
          /\ open' = open \cup {s}
    /\ Goto(Worker, "activate")
    /\ then' = IF then \in {"run", "createToRun"} THEN "run" ELSE "idle"
    /\ UNCHANGED <<key, wrapper, active, listed, self, target, raced>>

\* Both backends fail: return False, and the node raises.
LoadFails ==
    /\ pc[Worker] \in {"create", "createToRun"}
    /\ Goto(Worker, "idle")
    /\ UNCHANGED <<objVars, active, listed, open, self, then, target, raced>>

\* ManagedModel._active_model = self
LoadActivate ==
    /\ pc[Worker] = "activate"
    /\ active' = self
    /\ Goto(Worker, "register")
    /\ UNCHANGED <<objVars, listed, open, self, then, target, raced>>

\* _register_in_model_management: its old wrapper out, a new one in.
Register ==
    /\ pc[Worker] = "register"
    /\ listed' = listed \cup {self}
    /\ wrapper' = wrapper \cup {self}
    /\ Goto(Worker, then)
    /\ UNCHANGED <<key, session, active, open, self, then, target, raced>>

-----------------------------------------------------------------------------
(* _cleanup() and _free_session() *)

\* POST /audiocore/free: active._cleanup().
Free ==
    /\ pc[Loop] = "idle"
    /\ active # Null
    /\ target' = [target EXCEPT ![Loop] = active]
    /\ Goto(Loop, "unregister")
    /\ raced' = (raced \/ (pc[Worker] \notin {"idle", "dead"} /\ self = active))
    /\ UNCHANGED <<objVars, active, listed, open, self, then>>

\* Its answer when nothing is loaded.
FreeNothing ==
    /\ pc[Loop] = "idle"
    /\ active = Null
    /\ UNCHANGED vars

\* _unregister_from_model_management
Unregister(p) ==
    LET m == target[p] IN
    /\ pc[p] = "unregister"
    /\ listed' = IF m \in wrapper THEN listed \ {m} ELSE listed
    /\ wrapper' = wrapper \ {m}
    /\ Goto(p, "close")
    /\ UNCHANGED <<key, session, active, open, self, then, target, raced>>

\* Mutant: the weights are left to the garbage collector.
CloseByCollector(p) ==
    LET s == session[target[p]] IN
    /\ pc[p] \in {"close", "evictClose"}
    /\ Goto(p, IF s # Null THEN IF pc[p] = "close" THEN "drop" ELSE "evictDrop"
                           ELSE IF pc[p] = "close" THEN "clear" ELSE "evictClear")
    /\ UNCHANGED <<objVars, active, listed, open, self, then, target, raced>>

\* if self._session is not None: self._session.close() frees the weights,
\* whoever shares the session.
Close(p) ==
    LET s == session[target[p]] IN
    /\ pc[p] \in {"close", "evictClose"}
    /\ open' = open \ {s}
    /\ Goto(p, IF s # Null THEN IF pc[p] = "close" THEN "drop" ELSE "evictDrop"
                           ELSE IF pc[p] = "close" THEN "clear" ELSE "evictClear")
    /\ UNCHANGED <<objVars, active, listed, self, then, target, raced>>

\* Mutant: the object keeps its reference to the session it closed.
DropNothing(p) ==
    /\ pc[p] \in {"drop", "evictDrop"}
    /\ Goto(p, IF pc[p] = "drop" THEN "clear" ELSE "evictClear")
    /\ UNCHANGED <<objVars, active, listed, open, self, then, target, raced>>

\* self._session = None: a session that nobody refers to is destroyed, also
\* one that the other thread put there since.
Drop(p) ==
    /\ pc[p] \in {"drop", "evictDrop"}
    /\ session' = [session EXCEPT ![target[p]] = Null]
    /\ open' = {s \in open : \E m \in Managed : session'[m] = s}
    /\ Goto(p, IF pc[p] = "drop" THEN "clear" ELSE "evictClear")
    /\ UNCHANGED <<key, wrapper, active, listed, self, then, target, raced>>

\* if _active_model is self: _active_model = None
Clear(p) ==
    /\ pc[p] = "clear"
    /\ active' = IF active = target[p] THEN Null ELSE active
    /\ Goto(p, IF p = Worker THEN then ELSE "idle")
    /\ UNCHANGED <<objVars, listed, open, self, then, target, raced>>

-----------------------------------------------------------------------------
(* ComfyUI's free_memory, which works on the list by index *)

\* A wrapper that is not dead is chosen for eviction ...
FreeMemory(m) ==
    /\ pc[Worker] = "idle"
    /\ m \in listed /\ session[m] # Null
    /\ Enter(m)
    /\ target' = [target EXCEPT ![Worker] = m]
    /\ Goto(Worker, "evict")
    /\ UNCHANGED <<objVars, active, listed, open, then>>

\* ... model_unload refuses a request for less than the model ...
EvictRefused ==
    /\ pc[Worker] = "evict"
    /\ target[Worker] \in listed
    /\ Goto(Worker, "idle")
    /\ UNCHANGED <<objVars, active, listed, open, self, then, target, raced>>

\* ... or calls _free_session, which leaves the list alone ...
Evict ==
    /\ pc[Worker] = "evict"
    /\ target[Worker] \in listed
    /\ Goto(Worker, "evictClose")
    /\ UNCHANGED <<objVars, active, listed, open, self, then, target, raced>>

EvictClear ==
    LET m == target[Worker] IN
    /\ pc[Worker] = "evictClear"
    /\ active' = IF active = m THEN Null ELSE active
    /\ wrapper' = wrapper \ {m}
    /\ Goto(Worker, "pop")
    /\ UNCHANGED <<key, session, listed, open, self, then, target, raced>>

\* ... for free_memory to pop.
Pop ==
    /\ pc[Worker] = "pop"
    /\ target[Worker] \in listed
    /\ listed' = listed \ {target[Worker]}
    /\ Goto(Worker, "idle")
    /\ UNCHANGED <<objVars, active, open, self, then, target, raced>>

\* The index is gone: IndexError ends the prompt worker.
IndexError ==
    /\ pc[Worker] \in {"evict", "pop"}
    /\ target[Worker] \notin listed
    /\ Goto(Worker, "dead")
    /\ UNCHANGED <<objVars, active, listed, open, self, then, target, raced>>

\* cleanup_models_gc pops the wrappers that are dead.
PopDead(m) ==
    /\ pc[Worker] = "idle"
    /\ m \in listed /\ session[m] = Null
    /\ listed' = listed \ {m}
    /\ UNCHANGED <<objVars, active, open, pc, self, then, target, raced>>

-----------------------------------------------------------------------------
Next ==
    \/ \E m \in Managed, k \in Keys : LoadNode(m, k)
    \/ \E m \in Managed : RunNode(m) \/ UnloadNode(m) \/ FreeMemory(m) \/ PopDead(m)
    \/ Run \/ LoadAlready \/ LoadHot \/ LoadTake \/ LoadCold
    \/ LoadCreate \/ LoadFails \/ LoadActivate \/ Register
    \/ Free \/ FreeNothing
    \/ \E p \in Threads : Unregister(p) \/ Close(p) \/ Drop(p) \/ Clear(p)
    \/ EvictRefused \/ Evict \/ EvictClear \/ Pop \/ IndexError

Spec == Init /\ [][Next]_vars

-----------------------------------------------------------------------------
(* Properties *)

TypeOK ==
    /\ key \in [Managed -> Keys \cup {Null}]
    /\ session \in [Managed -> Sessions \cup {Null}]
    /\ wrapper \subseteq Created /\ listed \subseteq Created
    /\ active \in Created \cup {Null}
    /\ open \subseteq Sessions
    /\ pc \in [Threads -> {"idle", "load", "take", "create", "createToRun", "activate",
                           "register", "run", "unregister", "close", "drop", "clear",
                           "evict", "evictClose", "evictDrop", "evictClear", "pop", "dead"}]
    /\ self \in Created \cup {Null}
    /\ then \in {"idle", "run", "create", "createToRun"}
    /\ target \in [Threads -> Created \cup {Null}]
    /\ raced \in BOOLEAN

\* The threads that are about to put session s into the list, or to close it.
Handling(s) ==
    \/ pc[Worker] \in {"activate", "register"} /\ session[self] = s
    \/ \E p \in Threads : pc[p] = "close" /\ session[target[p]] = s

\* core.py:202-204, "makes audiocore's VRAM visible to ComfyUI's accounting":
\* whatever loads, unloads, evictions and frees do to each other, weights in
\* VRAM belong to an object in ComfyUI's list, which can evict them, and to one
\* only, however many objects share the session (two threads inside methods of
\* one object are out of this and the next one).
Accounted ==
    ~raced =>
        /\ \A s \in open : Handling(s) \/ \E m \in listed : session[m] = s
        /\ \A m, n \in listed : session[m] = session[n] /\ session[m] # Null => m = n

\* core.py:176, "only ONE model resident in VRAM at a time"; and between nodes
\* what is resident is the session of _active_model, so that the next free or
\* load frees it, also when an object that shares it was unloaded first.
SingleResident ==
    ~raced =>
        /\ \A s, u \in open : s = u
        /\ pc[Worker] = "idle" /\ pc[Loop] = "idle" =>
              \A s \in open : active # Null /\ session[active] = s

\* core.py:407-408, "a ManagedModel whose C++ session was freed ...
\* Transparently reload": no node calls into a session that was closed.
NoClosedUse ==
    pc[Worker] = "run" /\ pc[Loop] = "idle" => session[self] \in open \cup {Null}

-----------------------------------------------------------------------------
(* The inductive invariant behind Accounted and SingleResident *)

\* The types, and that each thread has what it works on at every place.
TypeInv ==
    /\ TypeOK
    /\ pc[Worker] # "idle" => self \in Created
    /\ pc[Worker] \in {"take", "unregister", "close", "drop", "clear", "evict",
                       "evictClose", "evictDrop", "evictClear", "pop"} => target[Worker] \in Created
    /\ pc[Worker] \in {"load", "take", "activate", "register"} => then \in {"idle", "run"}
    /\ pc[Loop] \in {"idle", "unregister", "close", "drop", "clear"}
    /\ pc[Loop] # "idle" => target[Loop] \in Created

Evicting == pc[Worker] \in {"evict", "evictClose", "evictDrop", "evictClear", "pop"}

\* The two threads are in methods of different objects; an eviction is of the
\* object it entered.
Apart ==
    /\ pc[Loop] # "idle" /\ pc[Worker] \notin {"idle", "dead"} => self # target[Loop]
    /\ Evicting => target[Worker] = self

\* What a cleanup has achieved at each place.
Cleaned ==
    \A p \in Threads :
      /\ pc[p] \in {"close", "drop", "clear"} => target[p] \notin listed
      /\ pc[p] \in {"drop", "evictDrop"} => session[target[p]] \notin open
      /\ pc[p] \in {"clear", "evictClear", "pop"} => session[target[p]] = Null

\* What a load relies on: nothing is open when it creates a session ...
Making ==
    /\ pc[Worker] \in {"unregister", "close"} /\ then \in {"create", "createToRun"} =>
          \A s \in open : s = session[target[Worker]]
    /\ \/ pc[Worker] \in {"create", "createToRun"}
       \/ pc[Worker] \in {"drop", "clear"} /\ then \in {"create", "createToRun"}
       => open = {}

\* ... and nobody shares the session before it is in the list.
Private ==
    /\ pc[Worker] = "take" => session[self] = Null
    /\ pc[Worker] \in {"activate", "register"} =>
          session[self] # Null /\ \A n \in Managed : session[n] = session[self] => n = self

\* The list holds live wrappers, but for the one that is being evicted.
Listing ==
    \A m \in listed :
      /\ session[m] = Null => pc[Worker] \in {"evictClear", "pop"} /\ target[Worker] = m
      /\ m \notin wrapper => pc[Worker] = "pop" /\ target[Worker] = m

\* One session is open at most, the one of _active_model or of the load that is
\* about to be.
Resident ==
    /\ \A s, u \in open : s = u
    /\ \A s \in open : IF pc[Worker] = "activate" THEN session[self] = s
                       ELSE active # Null /\ session[active] = s

Safe == Apart /\ Cleaned /\ Making /\ Private /\ Listing /\ Resident /\ Accounted

\* Each place of a load, a cleanup and an eviction has what it relies on
\* (core.py:357, "BEFORE freeing"; core.py:224-229), unless a free and a node
\* were in methods of one object at once.
ManagedInv == TypeInv /\ (~raced => Safe)
=============================================================================
