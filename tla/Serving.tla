------------------------------ MODULE Serving ------------------------------
(***************************************************************************)
(* The serving process as a whole: the requests of module Shutdown, one of *)
(* which, Streamed, is a POST /v1/audio/speech/stream whose response is    *)
(* module StreamBuffer.  Its provider is the pool thread that serves it;   *)
(* its worker is a detached thread that only the end of the process stops  *)
(* (src/server/server.cpp, src/server/main.cpp).                           *)
(***************************************************************************)
EXTENDS Shutdown, Sequences

CONSTANTS
    Streamed,  \* the request that asks for a stream
    MaxChunks  \* bound: chunks its run_tts call emits

ASSUME StreamedAssumption == Streamed \in Requests
ASSUME ChunksAssumption == MaxChunks \in Nat

VARIABLES wpc, produced, buffer, done, ok, notified, ppc, sent, response, client

streamVars == <<wpc, produced, buffer, done, ok, notified, ppc, sent, response, client>>
servingVars == <<vars, streamVars>>

\* is_shutting_down() is svr_sock_ == INVALID_SOCKET while a request is served.
Stopping == socket = "closed"

B == INSTANCE StreamBuffer WITH stopping <- Stopping

ServingInit == Init /\ B!Init

\* The handler started the worker and set the provider.
Started == request[Streamed] \in {"serving", "answered"}

-----------------------------------------------------------------------------
\* The worker runs on after the response ended, until the process is gone.
StreamWorker == UNCHANGED vars /\ Started /\ Alive /\ B!WorkerStep

StreamProvider == UNCHANGED vars /\ request[Streamed] = "serving" /\ Alive /\ B!ProviderStep

StreamWake == UNCHANGED vars /\ Started /\ Alive /\ B!Wake

\* The client of the stream goes away, served or not.
StreamClientGone == UNCHANGED vars /\ Alive /\ B!ClientGone

\* Mutant: a response is over as soon as its handler returned.
AnswerAtOnce(r) == Answer(r) /\ UNCHANGED streamVars

\* process_request writes the whole response before it is done with it.
AnswerWhole(r) ==
    /\ Answer(r)
    /\ r = Streamed => ppc = "ended"
    /\ UNCHANGED streamVars

ServingPool == \E r \in Requests : AnswerWhole(r) \/ (Take(r) /\ UNCHANGED streamVars)

ServingNext ==
    \/ Signal /\ UNCHANGED streamVars
    \/ MainStep /\ UNCHANGED streamVars
    \/ \E r \in Requests : Accept(r) /\ UNCHANGED streamVars
    \/ WatcherStep /\ UNCHANGED streamVars
    \/ ServingPool
    \/ StreamWorker \/ StreamProvider \/ StreamWake \/ StreamClientGone
    \/ Over /\ UNCHANGED streamVars

ServingSpec == ServingInit /\ [][ServingNext]_servingVars

\* Threads run, a handler and a run_tts call return; a wait on the condition
\* variable is owed an end only once it was notified.
ServingFairness ==
    /\ WF_servingVars(MainStep /\ UNCHANGED streamVars)
    /\ WF_servingVars(WatcherStep /\ UNCHANGED streamVars)
    /\ WF_servingVars(ServingPool)
    /\ WF_servingVars(StreamWorker)
    /\ WF_servingVars(StreamProvider)
    /\ WF_servingVars(notified /\ StreamWake)

FairServing == ServingSpec /\ ServingFairness

-----------------------------------------------------------------------------
(* Properties *)

ServingTypeOK == TypeOK /\ B!TypeOK

\* What the client of the stream got is what the family emitted, in order and
\* nothing twice, and all of it if the response ended with its last chunk
\* marker, wherever a stop or a disconnect falls.
Delivered == B!InOrder /\ B!CompleteIsWhole

\* No lost wakeup: a served stream's provider is not left waiting with
\* something to send, or with a worker that is done.
NotForgotten == B!NotForgotten

\* main() returns only when nothing is being served, and then a worker that
\* still runs (its thread is detached, main.cpp:386 destroys the slots it
\* computes with) belongs to a response that was cut.
OrphanOnlyIfCut ==
    main = "exited" /\ Started /\ wpc = "run" => response \in {"truncated", "aborted"}

\* README.md:594-595, "in-flight responses finish, `listen()` returns, and the
\* process exits 0": whatever is being served is answered, a stop or not.  (The
\* answer of a stream may have been cut short: Delivered says what it holds.)
InFlightFinish ==
    \A r \in Requests : request[r] = "serving" ~> request[r] = "answered"

\* A stream that is served ends: its response, and its worker unless the
\* process goes first.
StreamEnds ==
    /\ request[Streamed] = "serving" ~> ppc = "ended"
    /\ Started ~> wpc = "end" \/ main = "exited"
=============================================================================
