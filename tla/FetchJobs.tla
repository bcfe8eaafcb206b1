------------------------------ MODULE FetchJobs ------------------------------
(***************************************************************************)
(* Model downloads: POST /v1/models/fetch forks scripts/fetch_models.sh,   *)
(* GET /v1/models/fetch/status reaps and reports (src/server/server.cpp),  *)
(* and the Models tab of the webapp starts a download, polls it and loads  *)
(* the model when it is done (webapp/public/app.js).                       *)
(*                                                                         *)
(* A client is a browser tab together with the server thread that serves   *)
(* its current request.  Every FetchState section under fetch_state->mtx   *)
(* is one step.  The operating system's process table is external.         *)
(***************************************************************************)
EXTENDS Naturals, Sequences, FiniteSets, SequencesExt

CONSTANTS
    Jobs,       \* the "family/variant" ids of the manifest
    Clients,    \* browser tabs
    Pids,       \* bound: process ids; a reaped one may be used again
    RecentCap,  \* the cap of FetchState::recent: 20 in the code
    None

ASSUME RecentCapAssumption == RecentCap \in Nat \ {0}
ASSUME JobsAssumption == Jobs # {} /\ IsFiniteSet(Jobs)
ASSUME NoneAssumption == None \notin Pids

VARIABLES
    active,   \* FetchState::active: job id -> pid of its FetchJob, or None
    recent,   \* FetchState::recent: the finished jobs, oldest first
    child,    \* the process table: a pid is "free", "running", or a zombie that
              \* ended with exit code zero ("exit0") or otherwise ("exit1")
    pc,       \* what client c is about to do
    job,      \* the job client c asked for
    forked,   \* the pid of the child its request forked
    overtaken \* history: the requests whose job another one registered since
              \* they found it out of active

serverVars == <<active, recent>>
clientVars == <<pc, job, forked, overtaken>>
vars == <<serverVars, child, clientVars>>

Zombie == {"exit0", "exit1"}
Finished == [id : Jobs, ok : BOOLEAN]

Init ==
    /\ active = [j \in Jobs |-> None]
    /\ recent = <<>>
    /\ child = [p \in Pids |-> "free"]
    /\ pc = [c \in Clients |-> "idle"]
    /\ job = [c \in Clients |-> CHOOSE j \in Jobs : TRUE]
    /\ forked = [c \in Clients |-> None]
    /\ overtaken = {}

-----------------------------------------------------------------------------
Goto(c, label) == pc' = [pc EXCEPT ![c] = label]

\* The user confirms the dialog: POST {family, variant}.
Post(c, j) ==
    /\ pc[c] = "idle"
    /\ Goto(c, "check")
    /\ job' = [job EXCEPT ![c] = j]
    /\ UNCHANGED <<serverVars, child, forked, overtaken>>

\* First critical section: 409 if the job is in active.  The page polls then,
\* too.
Conflict(c) ==
    /\ pc[c] = "check"
    /\ active[job[c]] # None
    /\ Goto(c, "poll")
    /\ UNCHANGED <<serverVars, child, job, forked, overtaken>>

\* Mutant: the request of a job that is running goes on.
NoConflictUnchecked(c) ==
    /\ pc[c] = "check"
    /\ Goto(c, "fork")
    /\ UNCHANGED <<serverVars, child, job, forked, overtaken>>

NoConflict(c) ==
    /\ pc[c] = "check"
    /\ active[job[c]] = None
    /\ Goto(c, "fork")
    /\ UNCHANGED <<serverVars, child, job, forked, overtaken>>

\* fork(), the mutex not held; the child becomes fetch_models.sh.
Fork(c) ==
    /\ pc[c] = "fork"
    /\ \E p \in Pids :
          /\ child[p] = "free"
          /\ child' = [child EXCEPT ![p] = "running"]
          /\ forked' = [forked EXCEPT ![c] = p]
    /\ Goto(c, "insert")
    /\ UNCHANGED <<serverVars, job, overtaken>>

\* 500 "fork failed"; the page gives up.
ForkFails(c) ==
    /\ pc[c] = "fork"
    /\ Goto(c, "idle")
    /\ overtaken' = overtaken \ {c}
    /\ UNCHANGED <<serverVars, child, job, forked>>

\* Second critical section: active[job_id] = job.
Insert(c) ==
    /\ pc[c] = "insert"
    /\ active' = [active EXCEPT ![job[c]] = forked[c]]
    /\ forked' = [forked EXCEPT ![c] = None]
    /\ overtaken' = (overtaken \cup {d \in Clients : pc[d] \in {"fork", "insert"} /\ job[d] = job[c]})
                    \ {c}
    /\ Goto(c, "poll")
    /\ UNCHANGED <<recent, child, job>>

-----------------------------------------------------------------------------
\* Mutant: one entry too many is kept.
NewestPlusOne(s, n) == IF Len(s) <= n + 1 THEN s ELSE SubSeq(s, Len(s) - n, Len(s))

\* Mutant: the newest entries are dropped.
OldestKept(s, n) == IF Len(s) <= n THEN s ELSE SubSeq(s, 1, n)

Newest(s, n) == IF Len(s) <= n THEN s ELSE SubSeq(s, Len(s) - n + 1, Len(s))

Ended == {j \in Jobs : active[j] # None /\ child[active[j]] \in Zombie}

\* Mutant: a finished job stays in active.
ReapKeepsActive ==
    /\ \E order \in SetToSeqs(Ended) :
          recent' = Newest(recent \o [i \in 1..Len(order) |->
                              [id |-> order[i], ok |-> child[active[order[i]]] = "exit0"]],
                           RecentCap)
    /\ child' = [p \in Pids |-> IF \E j \in Ended : active[j] = p THEN "free" ELSE child[p]]
    /\ UNCHANGED active

\* Mutant: a download that failed is not waited for.
ReapSuccesses ==
    LET ended == {j \in Ended : child[active[j]] = "exit0"}
    IN /\ \E order \in SetToSeqs(ended) :
             recent' = Newest(recent \o [i \in 1..Len(order) |-> [id |-> order[i], ok |-> TRUE]],
                              RecentCap)
       /\ active' = [j \in Jobs |-> IF j \in ended THEN None ELSE active[j]]
       /\ child' = [p \in Pids |-> IF \E j \in ended : active[j] = p THEN "free" ELSE child[p]]

\* reap_jobs: waitpid(WNOHANG) on every active job; those that ended move to
\* the end of recent in the order of the hash table, the oldest drop out.
ReapJobs ==
    /\ \E order \in SetToSeqs(Ended) :
          recent' = Newest(recent \o [i \in 1..Len(order) |->
                              [id |-> order[i], ok |-> child[active[order[i]]] = "exit0"]],
                           RecentCap)
    /\ active' = [j \in Jobs |-> IF j \in Ended THEN None ELSE active[j]]
    /\ child' = [p \in Pids |-> IF \E j \in Ended : active[j] = p THEN "free" ELSE child[p]]

\* GET status, first half: reap.
StatusReap(c) ==
    /\ pc[c] = "poll"
    /\ ReapJobs
    /\ Goto(c, "list")
    /\ UNCHANGED <<job, forked, overtaken>>

\* Mutant: the page looks at the first entry of recent only.
StatusListFirst(c) ==
    /\ pc[c] = "list"
    /\ IF recent = <<>> \/ recent[1].id # job[c]
       THEN Goto(c, "poll")
       ELSE Goto(c, IF recent[1].ok THEN "load" ELSE "idle")
    /\ UNCHANGED <<serverVars, child, job, forked, overtaken>>

\* GET status, second half: list, under the mutex again; the page looks for
\* the first finished entry of recent with its job id.
StatusList(c) ==
    LET mine == {i \in 1..Len(recent) : recent[i].id = job[c]} IN
    /\ pc[c] = "list"
    /\ IF mine = {}
       THEN Goto(c, "poll")
       ELSE LET first == recent[CHOOSE i \in mine : \A k \in mine : i <= k]
            IN Goto(c, IF first.ok THEN "load" ELSE "idle")
    /\ UNCHANGED <<serverVars, child, job, forked, overtaken>>

\* Download complete: the page posts /v1/models/load (module ModelSlots).
Load(c) ==
    /\ pc[c] = "load"
    /\ Goto(c, "idle")
    /\ UNCHANGED <<serverVars, child, job, forked, overtaken>>

\* The page's 30-minute deadline, or the user closes the tab.
GiveUp(c) ==
    /\ pc[c] = "poll"
    /\ Goto(c, "idle")
    /\ UNCHANGED <<serverVars, child, job, forked, overtaken>>

\* The Models tab refreshes its downloads widget every 3 s while it is open.
TabPoll == ReapJobs /\ UNCHANGED clientVars

\* fetch_models.sh (or bash failing to start it) ends.
ChildExit(p) ==
    /\ child[p] = "running"
    /\ \E z \in Zombie : child' = [child EXCEPT ![p] = z]
    /\ UNCHANGED <<serverVars, clientVars>>

ClientStep(c) ==
    \/ Conflict(c) \/ NoConflict(c) \/ Fork(c) \/ ForkFails(c) \/ Insert(c)
    \/ StatusReap(c) \/ StatusList(c) \/ Load(c) \/ GiveUp(c)

Next ==
    \/ \E c \in Clients, j \in Jobs : Post(c, j)
    \/ \E c \in Clients : ClientStep(c)
    \/ TabPoll
    \/ \E p \in Pids : ChildExit(p)

Spec == Init /\ [][Next]_vars

\* A request once received is served; some Models tab stays open.  A download
\* may run forever.
FairSpec == Spec /\ (\A c \in Clients : WF_vars(ClientStep(c))) /\ WF_vars(TabPoll)

-----------------------------------------------------------------------------
(* Properties *)

TypeOK ==
    /\ active \in [Jobs -> Pids \cup {None}]
    /\ recent \in Seq(Finished)
    /\ Len(recent) <= RecentCap
    /\ child \in [Pids -> {"free", "running"} \cup Zombie]
    /\ pc \in [Clients -> {"idle", "check", "fork", "insert", "poll", "list", "load"}]
    /\ job \in [Clients -> Jobs]
    /\ forked \in [Clients -> Pids \cup {None}]
    /\ overtaken \subseteq Clients

\* A pid the server holds, in active or on its way there, is an own child not
\* yet waited for, and held once: two records never compete for one exit
\* status, and waitpid is never called on a stranger's pid.
OwnChildren ==
    /\ \A j \in Jobs : active[j] # None => child[active[j]] # "free"
    /\ \A c \in Clients : forked[c] # None => child[forked[c]] # "free"
    /\ \A i, j \in Jobs : active[i] = active[j] /\ active[i] # None => i = j
    /\ \A c, d \in Clients : forked[c] = forked[d] /\ forked[c] # None => c = d
    /\ \A j \in Jobs, c \in Clients : active[j] = forked[c] => active[j] = None

\* What recent loses when it is full is its oldest entries, and a poll adds
\* one entry for every job it takes out of active.
RecentKeepsNewest ==
    [][LET left == {j \in Jobs : active[j] # None /\ active'[j] = None}
           n == Len(recent) + Cardinality(left)
       IN /\ Len(recent') = IF n < RecentCap THEN n ELSE RecentCap
          /\ \A i \in 1..Len(recent') :
                LET k == i + n - Len(recent') IN
                IF k <= Len(recent) THEN recent'[i] = recent[k]
                                    ELSE recent'[i].id \in left
      ]_vars

\* The record of a download leaves active only into recent, with its own exit
\* code; or another takes its place, and then only that of a request that was
\* overtaken between its check and its registration.
NoResultLost ==
    [][\A j \in Jobs : active[j] # None /\ active'[j] # active[j] =>
          \/ /\ active'[j] = None
             /\ child[active[j]] \in Zombie
             /\ RecentCap >= Cardinality(Jobs) =>
                \E i \in 1..Len(recent') :
                   recent'[i] = [id |-> j, ok |-> child[active[j]] = "exit0"]
          \/ \E c \in overtaken : job[c] = j /\ active'[j] = forked[c]
      ]_vars

\* server.cpp:440-442, "Called from the status endpoint and the fetch launcher
\* so we never leak zombies", as long as no two pages launch at once: then one
\* child's entry is overwritten by the other's.
Launching == {c \in Clients : pc[c] \in {"check", "fork", "insert"}}

ZombiesReaped ==
    [](Cardinality(Launching) <= 1) =>
        \A p \in Pids : child[p] \in Zombie ~> child[p] \notin Zombie

\* A page that polls for a download that ended gets an outcome (or has given
\* up): the entry is not pushed out of recent before the page lists it, as long
\* as no other page starts downloads meanwhile.
Reported ==
    \A c \in Clients :
        [](\A d \in Clients \ {c} : pc[d] = "idle") =>
            (pc[c] = "poll" /\ active[job[c]] # None /\ child[active[job[c]]] \in Zombie
                 ~> pc[c] \in {"load", "idle"})

\* server.cpp:709, "Reject if this exact job is already running": there are
\* never two downloads of one job.
RunningFor(j) == {p \in Pids : child[p] = "running" /\
                     (active[j] = p \/ \E c \in Clients : forked[c] = p /\ job[c] = j)}

SingleDownload == \A j \in Jobs : Cardinality(RunningFor(j)) <= 1
=============================================================================
