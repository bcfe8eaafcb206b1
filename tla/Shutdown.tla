------------------------------ MODULE Shutdown ------------------------------
(***************************************************************************)
(* Starting and stopping the server process: the signal handler, the       *)
(* watcher thread and listen() of main() (src/server/main.cpp), with the   *)
(* accept loop, the thread pool and stop() of httplib                      *)
(* (third_party/httplib/httplib.h).                                        *)
(*                                                                         *)
(* A request is a connection with one request; what its handler does is    *)
(* modules ModelSlots, FetchJobs and StreamBuffer.                         *)
(***************************************************************************)
EXTENDS Naturals, FiniteSets

CONSTANTS
    Requests,  \* bound: the requests clients send
    PoolSize   \* threads of httplib's ThreadPool

ASSUME RequestsAssumption == IsFiniteSet(Requests)
ASSUME PoolSizeAssumption == PoolSize \in Nat \ {0}

VARIABLES
    main,     \* where main() is
    flag,     \* g_shutdown_requested
    watcher,  \* the shutdown_watcher thread
    running,  \* Server::is_running_
    socket,   \* Server::svr_sock_: "none" and "closed" are INVALID_SOCKET
    request   \* what became of each request

vars == <<main, flag, watcher, running, socket, request>>

Init ==
    /\ main = "boot"          \* reading the configuration, loading models
    /\ flag = FALSE
    /\ watcher = "none"
    /\ running = FALSE
    /\ socket = "none"
    /\ request = [r \in Requests |-> "none"]

InPool == {r \in Requests : request[r] = "serving"}
Queued == {r \in Requests : request[r] = "queued"}

-----------------------------------------------------------------------------
\* SIGINT or SIGTERM: the default action before std::signal, the flag after.
Signal ==
    /\ main \notin {"killed", "exited"}
    /\ IF main = "boot" THEN main' = "killed" /\ UNCHANGED flag
                        ELSE flag' = TRUE /\ UNCHANGED main
    /\ UNCHANGED <<watcher, running, socket, request>>

\* std::signal twice, and the watcher thread is started.
InstallHandlers ==
    /\ main = "boot"
    /\ main' = "bind"
    /\ watcher' = "polling"
    /\ UNCHANGED <<flag, running, socket, request>>

\* listen(): bind_to_port ...
Bind ==
    /\ main = "bind"
    /\ socket' = "open"
    /\ main' = "listen"
    /\ UNCHANGED <<flag, watcher, running, request>>

\* ... or "failed to bind", return 1 ...
BindFails ==
    /\ main = "bind"
    /\ main' = "exited"
    /\ UNCHANGED <<flag, watcher, running, socket, request>>

\* ... and listen_internal: is_running_ = true, the pool is created.
ListenInternal ==
    /\ main = "listen"
    /\ running' = TRUE
    /\ main' = "accept"
    /\ UNCHANGED <<flag, watcher, socket, request>>

\* accept4 returns a connection, it is enqueued.
Accept(r) ==
    /\ main = "accept" /\ socket = "open"
    /\ request[r] = "none"
    /\ request' = [request EXCEPT ![r] = "queued"]
    /\ UNCHANGED <<main, flag, watcher, running, socket>>

\* The socket was closed under accept4, or before it: leave the loop.
AcceptEnds ==
    /\ main = "accept" /\ socket = "closed"
    /\ main' = "drain"
    /\ UNCHANGED <<flag, watcher, running, socket, request>>

\* Mutant: the pool's threads are detached, not joined.
ReturnUnjoined ==
    /\ main = "drain"
    /\ main' = "exited"
    /\ running' = FALSE
    /\ UNCHANGED <<flag, watcher, socket, request>>

\* task_queue->shutdown() joins the pool, whose threads end when the queue is
\* empty; is_running_ = false; main returns 0.
Return ==
    /\ main = "drain"
    /\ InPool = {} /\ Queued = {}
    /\ main' = "exited"
    /\ running' = FALSE
    /\ UNCHANGED <<flag, watcher, socket, request>>

-----------------------------------------------------------------------------
\* The watcher sees the flag and calls stop().
WatcherWakes ==
    /\ watcher = "polling" /\ flag
    /\ watcher' = "stopping"
    /\ UNCHANGED <<main, flag, running, socket, request>>

\* Mutant: stop() only clears is_running_.
StopForgetsSocket ==
    /\ watcher = "stopping"
    /\ running' = FALSE
    /\ watcher' = "gone"
    /\ UNCHANGED <<main, flag, socket, request>>

\* stop(): if (is_running_) close the socket; then the watcher is gone.
Stop ==
    /\ watcher = "stopping"
    /\ IF running THEN socket' = "closed" ELSE UNCHANGED socket
    /\ watcher' = "gone"
    /\ UNCHANGED <<main, flag, running, request>>

\* Mutant: a pool thread leaves the queue alone once the server stops.
TakeUntilStop(r) ==
    /\ request[r] = "queued" /\ main \notin {"killed", "exited"}
    /\ socket = "open"
    /\ Cardinality(InPool) < PoolSize
    /\ request' = [request EXCEPT ![r] = "serving"]
    /\ UNCHANGED <<main, flag, watcher, running, socket>>

\* Mutant: more connections than threads.
TakeUnbounded(r) ==
    /\ request[r] = "queued" /\ main \notin {"killed", "exited"}
    /\ request' = [request EXCEPT ![r] = IF socket = "open" THEN "serving" ELSE "dropped"]
    /\ UNCHANGED <<main, flag, watcher, running, socket>>

\* A pool thread takes a connection from the queue; keep_alive() gives it up
\* when the server socket is closed.
Take(r) ==
    /\ request[r] = "queued" /\ main \notin {"killed", "exited"}
    /\ Cardinality(InPool) < PoolSize
    /\ request' = [request EXCEPT ![r] = IF socket = "open" THEN "serving" ELSE "dropped"]
    /\ UNCHANGED <<main, flag, watcher, running, socket>>

\* The handler returns and the response is written.
Answer(r) ==
    /\ request[r] = "serving" /\ main \notin {"killed", "exited"}
    /\ request' = [request EXCEPT ![r] = "answered"]
    /\ UNCHANGED <<main, flag, watcher, running, socket>>

-----------------------------------------------------------------------------
MainStep == InstallHandlers \/ Bind \/ BindFails \/ ListenInternal \/ AcceptEnds \/ Return
Alive == main \notin {"killed", "exited"}
WatcherStep == Alive /\ (WatcherWakes \/ Stop)
PoolStep == \E r \in Requests : Take(r) \/ Answer(r)

\* The process is gone.
Over == ~Alive /\ UNCHANGED vars

Next ==
    \/ Signal
    \/ MainStep
    \/ \E r \in Requests : Accept(r)
    \/ WatcherStep
    \/ PoolStep
    \/ Over

Spec == Init /\ [][Next]_vars

\* Threads run, and every handler returns.  Clients and signals owe nothing.
Fairness == WF_vars(MainStep) /\ WF_vars(WatcherStep) /\ WF_vars(PoolStep)

FairSpec == Spec /\ Fairness

-----------------------------------------------------------------------------
(* Properties *)

TypeOK ==
    /\ main \in {"boot", "bind", "listen", "accept", "drain", "exited", "killed"}
    /\ flag \in BOOLEAN
    /\ watcher \in {"none", "polling", "stopping", "gone"}
    /\ running \in BOOLEAN
    /\ socket \in {"none", "open", "closed"}
    /\ request \in [Requests -> {"none", "queued", "serving", "answered", "dropped"}]
    /\ Cardinality(InPool) <= PoolSize

\* A stop that takes effect ends the process, however many clients there are.
StopEnds == socket = "closed" ~> main = "exited"

\* main.cpp:360-361, "SIGINT/SIGTERM ask httplib to stop accepting and finish
\* in-flight responses, then listen() returns and we exit 0": so it is for a signal
\* that finds the server accepting.
SignalWhileRunning == flag /\ running /\ watcher = "polling" ~> main = "exited"
=============================================================================
