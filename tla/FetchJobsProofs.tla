-------------------------- MODULE FetchJobsProofs --------------------------
(***************************************************************************)
(* Proofs about downloads, for any number of jobs, browser tabs and        *)
(* process ids and any history cap: a child is held once, and a result is  *)
(* neither lost nor changed.                                               *)
(***************************************************************************)
EXTENDS FetchJobs, SequenceTheorems, FiniteSetTheorems, WellFoundedInduction, TLAPS

-----------------------------------------------------------------------------
USE RecentCapAssumption, NoneAssumption, JobsAssumption

\* The entries reap_jobs adds for the jobs that ended, in a given order.
Results(order) ==
    [i \in 1..Len(order) |-> [id |-> order[i], ok |-> child[active[order[i]]] = "exit0"]]

\* A request that is about to register a child has one, and its job is still out
\* of active unless the request was overtaken.
FetchInv ==
    /\ TypeOK /\ OwnChildren
    /\ \A c \in Clients : pc[c] = "insert" => forked[c] # None
    /\ \A c \in Clients \ overtaken :
          pc[c] \in {"fork", "insert"} => active[job[c]] = None

LEMMA FetchStarts == Init => FetchInv
<1> SUFFICES ASSUME Init PROVE FetchInv
  OBVIOUS
<1>1. TypeOK
  <2>1. recent \in Seq(Finished) /\ Len(recent) <= RecentCap
    BY DEF Init
  <2>2. QED
    BY <2>1 DEF Init, TypeOK
<1>2. QED
  BY <1>1 DEF Init, FetchInv, OwnChildren

\* Every order of the jobs that ended has each of them once.
LEMMA Orders ==
    ASSUME NEW order \in SetToSeqs(Ended)
    PROVE  /\ IsFiniteSet(Ended) /\ Cardinality(Ended) \in Nat
           /\ Cardinality(Ended) <= Cardinality(Jobs)
           /\ order \in Seq(Ended) /\ Len(order) = Cardinality(Ended)
           /\ \A j \in Ended : \E i \in 1..Len(order) : order[i] = j
<1> DEFINE D == 1..Cardinality(Ended)
<1>1. Ended \in SUBSET Jobs
  BY DEF Ended
<1>2. IsFiniteSet(Ended) /\ Cardinality(Ended) \in Nat /\ Cardinality(Ended) <= Cardinality(Jobs)
  BY <1>1, FS_Subset, FS_CardinalityType
<1>3. order \in [D -> Ended] /\ \A i, j \in D : i # j => order[i] # order[j]
  BY DEF SetToSeqs
<1>4. order \in Seq(Ended) /\ Len(order) = Cardinality(Ended)
  BY <1>2, <1>3
<1>5. order \in Injection(D, Ended)
  BY <1>3 DEF Injection, IsInjective
<1>6. Cardinality(D) = Cardinality(Ended)
  BY <1>2, FS_Interval
<1>7. order \in Surjection(D, Ended)
  BY <1>2, <1>5, <1>6, FS_Injection
<1>8. \A j \in Ended : \E i \in D : order[i] = j
  BY <1>7 DEF Surjection
<1>9. QED
  BY <1>2, <1>4, <1>8

\* The newest entries of a history, as many as there is room for.
LEMMA NewestKeeps ==
    ASSUME NEW s \in Seq(Finished), NEW n \in Nat \ {0}
    PROVE  /\ Newest(s, n) \in Seq(Finished)
           /\ Len(Newest(s, n)) = IF Len(s) < n THEN Len(s) ELSE n
           /\ \A i \in 1..Len(Newest(s, n)) :
                 Newest(s, n)[i] = s[i + Len(s) - Len(Newest(s, n))]
<1>1. CASE Len(s) <= n
  BY <1>1 DEF Newest
<1>2. CASE Len(s) > n
  <2> DEFINE m == Len(s) - n + 1
             t == SubSeq(s, m, Len(s))
  <2>1. m \in Int /\ Len(s) \in Nat /\ m <= Len(s) /\ m >= 1
    BY <1>2
  <2>2. \A i \in m..Len(s) : s[i] \in Finished
    BY <2>1
  <2>3. /\ t \in Seq(Finished) /\ Len(t) = n
        /\ \A i \in 1..n : t[i] = s[m + i - 1]
    BY <2>1, <2>2, SubSeqProperties
  <2>4. Newest(s, n) = t
    BY <1>2, <2>1 DEF Newest
  <2> HIDE DEF t
  <2>5. QED
    BY <1>2, <2>1, <2>3, <2>4
<1>3. QED
  BY <1>1, <1>2

\* What a poll leaves in the history: the newest of the old entries, and one
\* for every job that ended, all of them when there is room for every job.
LEMMA ReapedResults ==
    ASSUME TypeOK, ReapJobs
    PROVE  LET n == Len(recent) + Cardinality(Ended) IN
           /\ Cardinality(Ended) \in Nat
           /\ recent' \in Seq(Finished)
           /\ Len(recent') = IF n < RecentCap THEN n ELSE RecentCap
           /\ \A i \in 1..Len(recent') :
                 LET k == i + n - Len(recent') IN
                 IF k <= Len(recent) THEN recent'[i] = recent[k]
                 ELSE \E j \in Ended : recent'[i] = [id |-> j, ok |-> child[active[j]] = "exit0"]
           /\ RecentCap >= Cardinality(Jobs) =>
                 \A j \in Ended : \E i \in 1..Len(recent') :
                    recent'[i] = [id |-> j, ok |-> child[active[j]] = "exit0"]
<1> DEFINE n == Len(recent) + Cardinality(Ended)
<1>1. PICK order \in SetToSeqs(Ended) : recent' = Newest(recent \o Results(order), RecentCap)
  BY DEF ReapJobs, Results
<1>2. /\ Cardinality(Ended) \in Nat /\ Cardinality(Ended) <= Cardinality(Jobs)
      /\ order \in Seq(Ended) /\ Len(order) = Cardinality(Ended)
      /\ \A j \in Ended : \E i \in 1..Len(order) : order[i] = j
  BY <1>1, Orders
<1> DEFINE r == Results(order)
           s == recent \o r
<1>3. /\ r \in Seq(Finished) /\ Len(r) = Cardinality(Ended)
      /\ \A i \in 1..Len(r) :
            /\ order[i] \in Ended
            /\ r[i] = [id |-> order[i], ok |-> child[active[order[i]]] = "exit0"]
  <2>1. \A i \in 1..Len(order) : order[i] \in Ended /\ order[i] \in Jobs
    BY <1>2 DEF Ended
  <2>2. \A i \in 1..Len(order) :
           [id |-> order[i], ok |-> child[active[order[i]]] = "exit0"] \in Finished
    BY <2>1 DEF Finished
  <2>3. r \in [1..Len(order) -> Finished]
    BY <2>2 DEF Results
  <2>4. Len(order) \in Nat /\ DOMAIN r = 1..Len(order)
    BY <1>2 DEF Results
  <2> HIDE DEF r
  <2>5. r \in Seq(Finished) /\ Len(r) = Len(order)
    BY <2>3, <2>4
  <2>6. QED
    BY <1>2, <2>1, <2>5 DEF r, Results
<1>4. recent \in Seq(Finished) /\ Len(recent) \in Nat /\ n \in Nat
  BY <1>2 DEF TypeOK
<1> HIDE DEF r
<1>5. /\ s \in Seq(Finished) /\ Len(s) = n /\ n \in Nat
      /\ \A i \in 1..n : s[i] = IF i <= Len(recent) THEN recent[i] ELSE r[i - Len(recent)]
  <2>1. /\ s \in Seq(Finished) /\ Len(s) = Len(recent) + Len(r)
        /\ \A i \in 1..Len(recent) + Len(r) :
              s[i] = IF i <= Len(recent) THEN recent[i] ELSE r[i - Len(recent)]
    BY <1>3, <1>4, ConcatProperties, ZenonT(30)
  <2> HIDE DEF s
  <2>2. QED
    BY <1>3, <1>4, <2>1
<1> HIDE DEF s
<1>6. /\ recent' \in Seq(Finished)
      /\ Len(recent') = IF n < RecentCap THEN n ELSE RecentCap
      /\ \A i \in 1..Len(recent') : recent'[i] = s[i + n - Len(recent')]
  <2>1. recent' = Newest(s, RecentCap)
    BY <1>1 DEF s, r
  <2>2. /\ Newest(s, RecentCap) \in Seq(Finished)
        /\ Len(Newest(s, RecentCap)) = IF Len(s) < RecentCap THEN Len(s) ELSE RecentCap
        /\ \A i \in 1..Len(Newest(s, RecentCap)) : Newest(s, RecentCap)[i] =
              s[i + Len(s) - Len(Newest(s, RecentCap))]
    BY <1>5, NewestKeeps
  <2> HIDE DEF n
  <2>3. QED
    BY <1>5, <2>1, <2>2
<1>7. ASSUME NEW i \in 1..Len(recent')
      PROVE  LET k == i + n - Len(recent') IN
             IF k <= Len(recent) THEN recent'[i] = recent[k]
             ELSE \E j \in Ended : recent'[i] = [id |-> j, ok |-> child[active[j]] = "exit0"]
  <2> DEFINE k == i + n - Len(recent')
  <2>1. k \in 1..n /\ Len(recent) \in Nat
    BY <1>4, <1>5, <1>6
  <2>2. CASE k <= Len(recent)
    BY <1>5, <1>6, <2>1, <2>2
  <2>3. CASE ~(k <= Len(recent))
    <3>1. k - Len(recent) \in 1..Len(r)
      BY <1>2, <1>3, <2>1, <2>3
    <3>2. recent'[i] = r[k - Len(recent)]
      BY <1>5, <1>6, <2>1, <2>3
    <3>3. QED
      BY <1>3, <2>3, <3>1, <3>2
  <2>4. QED
    BY <2>2, <2>3
<1>8. ASSUME RecentCap >= Cardinality(Jobs), NEW j \in Ended
      PROVE  \E i \in 1..Len(recent') :
                recent'[i] = [id |-> j, ok |-> child[active[j]] = "exit0"]
  <2>1. PICK i \in 1..Len(r) : r[i] = [id |-> j, ok |-> child[active[j]] = "exit0"]
    BY <1>2, <1>3
  <2> DEFINE k == i + Len(recent) - n + Len(recent')
  <2>2. /\ Cardinality(Jobs) \in Nat /\ i \in Nat /\ 1 <= i /\ i <= Cardinality(Ended)
        /\ Len(recent') \in Nat
    BY <1>2, <1>3, <1>6, FS_CardinalityType
  <2>3. Len(recent') = IF Len(recent) + Cardinality(Ended) < RecentCap
                      THEN Len(recent) + Cardinality(Ended) ELSE RecentCap
    BY <1>6
  <2>4. /\ k \in 1..Len(recent') /\ k + n - Len(recent') = i + Len(recent)
        /\ i + Len(recent) \in 1..n /\ ~(i + Len(recent) <= Len(recent))
        /\ (i + Len(recent)) - Len(recent) = i
    <3> DEFINE a == Len(recent)  e == Cardinality(Ended)  l == Len(recent')
    <3>1. /\ a \in Nat /\ e \in Nat /\ l \in Nat /\ e <= RecentCap
          /\ i \in Nat /\ 1 <= i /\ i <= e
          /\ l = IF a + e < RecentCap THEN a + e ELSE RecentCap
      BY <1>2, <1>4, <1>8, <2>2, <2>3
    <3> HIDE DEF a, e, l
    <3>2. /\ (i + a - (a + e) + l) \in 1..l
          /\ (i + a - (a + e) + l) + (a + e) - l = i + a
          /\ i + a \in 1..(a + e) /\ ~(i + a <= a) /\ (i + a) - a = i
      BY <3>1
    <3>3. QED
      BY <3>2 DEF a, e, l
  <2>5. recent'[k] = r[i]
    BY <1>5, <1>6, <2>4
  <2>6. QED
    BY <2>1, <2>4, <2>5
<1>9. QED
  BY <1>2, <1>6, <1>7, <1>8

\* Who leaves active in a poll: the jobs that ended.
LEMMA ReapedJobs ==
    ASSUME TypeOK, ReapJobs
    PROVE  {j \in Jobs : active[j] # None /\ active'[j] = None} = Ended
<1>1. active' = [j \in Jobs |-> IF j \in Ended THEN None ELSE active[j]]
  BY DEF ReapJobs
<1>2. QED
  BY <1>1 DEF Ended

LEMMA FetchReaps ==
    ASSUME FetchInv, ReapJobs
    PROVE  /\ active' \in [Jobs -> Pids \cup {None}]
           /\ recent' \in Seq(Finished) /\ Len(recent') <= RecentCap
           /\ child' \in [Pids -> {"free", "running"} \cup Zombie]
           /\ \A j \in Jobs : active'[j] # None =>
                 active'[j] = active[j] /\ child'[active[j]] = child[active[j]]
           /\ \A c \in Clients : forked[c] # None => child'[forked[c]] = child[forked[c]]
<1> USE DEF FetchInv
<1>1. /\ active' = [j \in Jobs |-> IF j \in Ended THEN None ELSE active[j]]
      /\ child' = [p \in Pids |-> IF \E j \in Ended : active[j] = p THEN "free" ELSE child[p]]
  BY DEF ReapJobs
<1>2. recent' \in Seq(Finished) /\ Len(recent') <= RecentCap
  <2>1. Len(recent) \in Nat /\ Cardinality(Ended) \in Nat
    BY ReapedResults DEF TypeOK
  <2>2. QED
    BY <2>1, ReapedResults
<1>3. \A j \in Ended : j \in Jobs /\ active[j] # None
  BY DEF Ended
<1>4. ASSUME NEW j \in Jobs, active'[j] # None
      PROVE  active'[j] = active[j] /\ child'[active[j]] = child[active[j]]
  <2>1. j \notin Ended /\ active'[j] = active[j] /\ active[j] \in Pids
    BY <1>1, <1>4 DEF TypeOK
  <2>2. ~ \E i \in Ended : active[i] = active[j]
    BY <1>3, <1>4, <2>1 DEF OwnChildren
  <2>3. QED
    BY <1>1, <2>1, <2>2
<1>5. ASSUME NEW c \in Clients, forked[c] # None
      PROVE  child'[forked[c]] = child[forked[c]]
  <2>1. forked[c] \in Pids
    BY <1>5 DEF TypeOK
  <2>2. ~ \E i \in Ended : active[i] = forked[c]
    BY <1>3, <1>5 DEF OwnChildren
  <2>3. QED
    BY <1>1, <2>1, <2>2
<1>6. QED
  BY <1>1, <1>2, <1>4, <1>5 DEF TypeOK

LEMMA FetchStays == FetchInv /\ [Next]_vars => FetchInv'
<1> SUFFICES ASSUME FetchInv, [Next]_vars PROVE FetchInv'
  OBVIOUS
<1> USE DEF FetchInv, serverVars, clientVars, Goto
\* Nothing but the place of one client and the job it asks for.
<1>1. ASSUME NEW c \in Clients, NEW j \in Jobs, Post(c, j) PROVE FetchInv'
  BY <1>1 DEF Post, TypeOK, OwnChildren
<1>2. ASSUME NEW c \in Clients,
             Conflict(c) \/ NoConflict(c) \/ ForkFails(c) \/ StatusList(c) \/ Load(c) \/ GiveUp(c)
      PROVE  FetchInv'
  <2>1. /\ UNCHANGED <<serverVars, child, job, forked>>
        /\ overtaken' \in {overtaken, overtaken \ {c}}
        /\ overtaken' # overtaken => pc' = [pc EXCEPT ![c] = "idle"]
    BY <1>2 DEF Conflict, NoConflict, ForkFails, StatusList, Load, GiveUp
  <2>2. \E l \in {"idle", "fork", "poll", "load"} :
           /\ pc' = [pc EXCEPT ![c] = l]
           /\ l = "fork" => active[job[c]] = None
    BY <1>2 DEF Conflict, NoConflict, ForkFails, StatusList, Load, GiveUp
  <2>3. TypeOK' /\ OwnChildren'
    BY <2>1, <2>2 DEF TypeOK, OwnChildren
  <2>4. \A d \in Clients \ overtaken' :
           pc'[d] \in {"fork", "insert"} => active'[job'[d]] = None
    BY <2>1, <2>2 DEF TypeOK
  <2>5. \A d \in Clients : pc'[d] = "insert" => forked'[d] # None
    BY <2>1, <2>2 DEF TypeOK
  <2>6. QED
    BY <2>3, <2>4, <2>5
<1>3. ASSUME NEW c \in Clients, Fork(c) PROVE FetchInv'
  <2>1. PICK p \in Pids : /\ child[p] = "free"
                          /\ child' = [child EXCEPT ![p] = "running"]
                          /\ forked' = [forked EXCEPT ![c] = p]
    BY <1>3 DEF Fork
  <2>2. /\ pc[c] = "fork" /\ pc' = [pc EXCEPT ![c] = "insert"]
        /\ UNCHANGED <<active, recent, job, overtaken>>
    BY <1>3 DEF Fork
  <2>3. TypeOK'
    BY <2>1, <2>2 DEF TypeOK
  <2>4. \A j \in Jobs : active[j] # p
    BY <2>1 DEF OwnChildren
  <2>5. \A d \in Clients : forked[d] # p
    BY <2>1 DEF OwnChildren
  <2>6. OwnChildren'
    BY <2>1, <2>2, <2>4, <2>5 DEF OwnChildren, TypeOK
  <2>7. \A d \in Clients : pc'[d] = "insert" => forked'[d] # None
    BY <2>1, <2>2 DEF TypeOK
  <2>8. \A d \in Clients \ overtaken' :
           pc'[d] \in {"fork", "insert"} => active'[job'[d]] = None
    BY <2>2 DEF TypeOK
  <2>9. QED
    BY <2>3, <2>6, <2>7, <2>8
<1>4. ASSUME NEW c \in Clients, Insert(c) PROVE FetchInv'
  <2>1. /\ active' = [active EXCEPT ![job[c]] = forked[c]]
        /\ forked' = [forked EXCEPT ![c] = None]
        /\ pc' = [pc EXCEPT ![c] = "poll"]
        /\ overtaken' = (overtaken \cup {d \in Clients : pc[d] \in {"fork", "insert"}
                                                       /\ job[d] = job[c]}) \ {c}
        /\ UNCHANGED <<recent, child, job>>
    BY <1>4 DEF Insert
  <2>2. TypeOK'
    BY <2>1 DEF TypeOK
  <2>3. job[c] \in Jobs /\ forked[c] # None
    BY <1>4 DEF Insert, TypeOK
  <2>4. OwnChildren'
    BY <2>1, <2>3 DEF OwnChildren, TypeOK
  <2>5. ASSUME NEW d \in Clients \ overtaken', pc'[d] \in {"fork", "insert"}
        PROVE  active'[job'[d]] = None
    <3>1. d # c /\ pc'[d] = pc[d]
      BY <2>1, <2>5 DEF TypeOK
    <3>2. d \notin overtaken /\ job[d] # job[c]
      BY <2>1, <2>5, <3>1
    <3>3. QED
      BY <2>1, <2>5, <3>1, <3>2 DEF TypeOK
  <2>6. QED
    BY <2>1, <2>2, <2>4, <2>5 DEF TypeOK
<1>5. ASSUME ReapJobs, UNCHANGED <<job, forked, overtaken>>,
             \/ UNCHANGED pc
             \/ \E c \in Clients : pc' = [pc EXCEPT ![c] = "list"]
      PROVE  FetchInv'
  <2>1. TypeOK'
    BY <1>5, FetchReaps DEF TypeOK
  <2>2. OwnChildren'
    BY <1>5, FetchReaps DEF OwnChildren, TypeOK
  <2>3. \A j \in Jobs : active[j] = None => active'[j] = None
    BY <1>5 DEF ReapJobs
  <2>4. \A d \in Clients \ overtaken' :
           pc'[d] \in {"fork", "insert"} => active'[job'[d]] = None
    BY <1>5, <2>3 DEF TypeOK
  <2>5. QED
    BY <1>5, <2>1, <2>2, <2>4 DEF TypeOK
<1>6. ASSUME NEW p \in Pids, ChildExit(p) PROVE FetchInv'
  <2>1. PICK z \in Zombie : child' = [child EXCEPT ![p] = z]
    BY <1>6 DEF ChildExit
  <2>2. UNCHANGED <<active, recent, pc, job, forked, overtaken>>
    BY <1>6 DEF ChildExit
  <2>3. z # "free"
    BY DEF Zombie
  <2>4. QED
    BY <2>1, <2>2, <2>3 DEF TypeOK, OwnChildren
<1>7. CASE UNCHANGED vars
  BY <1>7 DEF vars, TypeOK, OwnChildren
<1>8. QED
  BY <1>1, <1>2, <1>3, <1>4, <1>5, <1>6, <1>7
  DEF Next, ClientStep, StatusReap, TabPoll

LEMMA FetchInvariant == Spec => []FetchInv
BY FetchStarts, FetchStays, PTL DEF Spec

\* Downloads: every variable has its type, and the history its cap.
THEOREM FetchTypes == Spec => []TypeOK
<1>1. FetchInv => TypeOK
  BY DEF FetchInv
<1>2. QED
  BY <1>1, FetchInvariant, PTL

\* A pid the server holds is a child of its own that is not yet waited for, and
\* held once, whatever pages launch and poll at the same time.
THEOREM ChildrenOwned == Spec => []OwnChildren
<1>1. FetchInv => OwnChildren
  BY DEF FetchInv
<1>2. QED
  BY <1>1, FetchInvariant, PTL

\* Only a poll takes a job out of active, and only a request that was overtaken
\* puts another record in the place of one.
LEMMA OnlyPollsEnd ==
    ASSUME FetchInv, [Next]_vars
    PROVE  \/ ReapJobs
           \/ /\ recent' = recent
              /\ \A j \in Jobs : active[j] # None => active'[j] # None
              /\ \A j \in Jobs : active[j] # None /\ active'[j] # active[j] =>
                    \E c \in overtaken : job[c] = j /\ active'[j] = forked[c]
<1> USE DEF serverVars, clientVars
<1>1. ASSUME NEW c \in Clients, Insert(c)
      PROVE  /\ recent' = recent
             /\ \A j \in Jobs : active[j] # None => active'[j] # None
             /\ \A j \in Jobs : active[j] # None /\ active'[j] # active[j] =>
                   \E d \in overtaken : job[d] = j /\ active'[j] = forked[d]
  <2>1. /\ pc[c] = "insert" /\ recent' = recent
        /\ active' = [active EXCEPT ![job[c]] = forked[c]]
    BY <1>1 DEF Insert
  <2>2. job[c] \in Jobs /\ forked[c] # None /\ active \in [Jobs -> Pids \cup {None}]
    BY <2>1 DEF FetchInv, TypeOK
  <2>3. c \notin overtaken => active[job[c]] = None
    BY <2>1 DEF FetchInv
  <2>4. QED
    BY <2>1, <2>2, <2>3
<1>2. CASE UNCHANGED serverVars
  BY <1>2
<1>3. QED
  BY <1>1, <1>2
  DEF Next, ClientStep, Post, Conflict, NoConflict, Fork, ForkFails, StatusReap, StatusList,
      Load, GiveUp, TabPoll, ChildExit, vars

\* The history loses its oldest entries only, and gains one for every job that
\* leaves active: also when more end between two polls than it has room for.
THEOREM HistoryKeepsNewest == Spec => RecentKeepsNewest
<1> DEFINE left == {j \in Jobs : active[j] # None /\ active'[j] = None}
           Keeps(l) == LET n == Len(recent) + Cardinality(l) IN
                       /\ Len(recent') = IF n < RecentCap THEN n ELSE RecentCap
                       /\ \A i \in 1..Len(recent') :
                             LET k == i + n - Len(recent') IN
                             IF k <= Len(recent) THEN recent'[i] = recent[k]
                                                 ELSE recent'[i].id \in l
<1>1. ASSUME FetchInv, [Next]_vars PROVE Keeps(left)
  <2>1. TypeOK
    BY <1>1 DEF FetchInv
  <2>2. CASE ReapJobs
    <3>1. left = Ended
      BY <2>1, <2>2, ReapedJobs
    <3>2. Keeps(Ended)
      <4>1. \A i : (\E j \in Ended : recent'[i] = [id |-> j, ok |-> child[active[j]] = "exit0"])
                      => recent'[i].id \in Ended
        OBVIOUS
      <4>2. QED
        BY <2>1, <2>2, <4>1, ReapedResults
    <3> HIDE DEF left, Keeps
    <3>3. QED
      BY <3>1, <3>2
  <2>3. CASE recent' = recent /\ \A j \in Jobs : active[j] # None => active'[j] # None
    <3>1. left = {}
      BY <2>3
    <3>2. Len(recent) \in Nat /\ Len(recent) <= RecentCap /\ Cardinality({}) = 0
      BY <2>1, FS_EmptySet DEF TypeOK
    <3>3. Keeps({})
      BY <2>3, <3>2
    <3> HIDE DEF left, Keeps
    <3>4. QED
      BY <3>1, <3>3
  <2>4. QED
    BY <1>1, <2>2, <2>3, OnlyPollsEnd
<1>2. QED
  BY <1>1, FetchInvariant, PTL DEF Spec, RecentKeepsNewest

\* A record leaves active only when its download ended, and then its own outcome
\* is in the history that very poll leaves, when that holds an entry for every
\* job; or a request that was overtaken puts its own in the record's place.
THEOREM ResultsKept == Spec => NoResultLost
<1> DEFINE Kept == \A j \in Jobs : active[j] # None /\ active'[j] # active[j] =>
              \/ /\ active'[j] = None
                 /\ child[active[j]] \in Zombie
                 /\ RecentCap >= Cardinality(Jobs) =>
                    \E i \in 1..Len(recent') :
                       recent'[i] = [id |-> j, ok |-> child[active[j]] = "exit0"]
              \/ \E c \in overtaken : job[c] = j /\ active'[j] = forked[c]
<1>1. ASSUME FetchInv, [Next]_vars PROVE Kept
  <2>1. CASE ReapJobs
    <3> SUFFICES ASSUME NEW j \in Jobs, active[j] # None /\ active'[j] # active[j]
                 PROVE  /\ active'[j] = None
                        /\ child[active[j]] \in Zombie
                        /\ RecentCap >= Cardinality(Jobs) =>
                           \E i \in 1..Len(recent') :
                              recent'[i] = [id |-> j, ok |-> child[active[j]] = "exit0"]
      OBVIOUS
    <3>1. j \in Ended /\ active'[j] = None
      BY <2>1 DEF ReapJobs
    <3>2. QED
      BY <1>1, <2>1, <3>1, ReapedResults DEF FetchInv, Ended
  <2>2. QED
    BY <1>1, <2>1, OnlyPollsEnd
<1>2. QED
  BY <1>1, FetchInvariant, PTL DEF Spec, NoResultLost

-----------------------------------------------------------------------------
(* Why a job is downloaded twice, and when it is not *)

\* No two pages launch the same job at once: the launches of different jobs,
\* and all the polling, may still interleave as they like.
LaunchedApart == \A c, d \in Launching : job[c] = job[d] => c = d

\* A request that passed the 409 check still finds its job out of active, and
\* only a request between its fork and its insertion holds a child.
SingleInv ==
    /\ \A c \in Clients : pc[c] \in {"fork", "insert"} => active[job[c]] = None
    /\ \A c \in Clients : forked[c] # None => pc[c] = "insert"

LEMMA SingleStays ==
    FetchInv /\ SingleInv /\ LaunchedApart /\ [Next]_vars => SingleInv'
<1> SUFFICES ASSUME FetchInv, SingleInv, LaunchedApart, [Next]_vars PROVE SingleInv'
  OBVIOUS
<1> USE DEF FetchInv, SingleInv, serverVars, clientVars, Goto
<1>1. ASSUME NEW c \in Clients, NEW j \in Jobs, Post(c, j) PROVE SingleInv'
  BY <1>1 DEF Post, TypeOK
<1>2. ASSUME NEW c \in Clients,
             Conflict(c) \/ ForkFails(c) \/ StatusList(c) \/ Load(c) \/ GiveUp(c)
      PROVE  SingleInv'
  <2>1. UNCHANGED <<serverVars, child, job, forked>> /\ pc[c] # "insert"
    BY <1>2 DEF Conflict, ForkFails, StatusList, Load, GiveUp
  <2>2. \E l \in {"idle", "poll", "load"} : pc' = [pc EXCEPT ![c] = l]
    BY <1>2 DEF Conflict, ForkFails, StatusList, Load, GiveUp
  <2>3. QED
    BY <2>1, <2>2 DEF TypeOK
<1>3. ASSUME NEW c \in Clients, NoConflict(c) PROVE SingleInv'
  BY <1>3 DEF NoConflict, TypeOK
<1>4. ASSUME NEW c \in Clients, Fork(c) PROVE SingleInv'
  BY <1>4 DEF Fork, TypeOK
<1>5. ASSUME NEW c \in Clients, Insert(c) PROVE SingleInv'
  <2>1. /\ active' = [active EXCEPT ![job[c]] = forked[c]]
        /\ forked' = [forked EXCEPT ![c] = None]
        /\ pc' = [pc EXCEPT ![c] = "poll"]
        /\ UNCHANGED <<recent, child, job>>
    BY <1>5 DEF Insert
  <2>2. c \in Launching
    BY <1>5 DEF Insert, Launching
  <2>3. ASSUME NEW d \in Clients, pc'[d] \in {"fork", "insert"}
        PROVE  active'[job'[d]] = None
    <3>1. d # c /\ pc[d] \in {"fork", "insert"}
      BY <2>1, <2>3 DEF TypeOK
    <3>2. job[d] # job[c]
      BY <2>2, <3>1 DEF Launching, LaunchedApart
    <3>3. QED
      BY <2>1, <3>1, <3>2 DEF TypeOK
  <2>4. QED
    BY <2>1, <2>3 DEF TypeOK
<1>6. ASSUME ReapJobs, UNCHANGED <<job, forked>>,
             \/ UNCHANGED pc
             \/ \E c \in Clients : pc[c] = "poll" /\ pc' = [pc EXCEPT ![c] = "list"]
      PROVE  SingleInv'
  <2>1. \A j \in Jobs : active[j] = None => active'[j] = None
    BY <1>6 DEF ReapJobs
  <2>2. QED
    BY <1>6, <2>1 DEF TypeOK
<1>7. CASE UNCHANGED <<serverVars, clientVars>>
  BY <1>7
<1>8. QED
  BY <1>1, <1>2, <1>3, <1>4, <1>5, <1>6, <1>7
  DEF Next, ClientStep, StatusReap, TabPoll, ChildExit, vars

\* A job that is downloaded twice was launched twice at once: the check for a
\* running job and the entry it looks for are two critical sections, and a page
\* that launches the same job in between is the only way past the check.
THEOREM LaunchedApartOnce == Spec /\ []LaunchedApart => []SingleDownload
<1>1. Init => SingleInv
  BY DEF Init, SingleInv
<1>2. FetchInv /\ SingleInv /\ LaunchedApart => SingleDownload
  <2> SUFFICES ASSUME FetchInv, SingleInv, LaunchedApart, NEW j \in Jobs
               PROVE  Cardinality(RunningFor(j)) <= 1
    BY DEF SingleDownload
  <2>1. ASSUME NEW p \in RunningFor(j), NEW q \in RunningFor(j) PROVE p = q
    <3>1. /\ active[j] = p \/ \E c \in Clients : forked[c] = p /\ job[c] = j
          /\ active[j] = q \/ \E c \in Clients : forked[c] = q /\ job[c] = j
          /\ p # None /\ q # None
      BY <2>1 DEF RunningFor
    <3>2. ASSUME NEW c \in Clients, forked[c] # None, job[c] = j
          PROVE  active[j] = None /\ c \in Launching
      BY <3>2 DEF SingleInv, Launching
    <3>3. QED
      BY <3>1, <3>2 DEF LaunchedApart
  <2>2. CASE RunningFor(j) = {}
    BY <2>2, FS_EmptySet
  <2>3. CASE \E p \in RunningFor(j) : RunningFor(j) = {p}
    <3>1. PICK p \in RunningFor(j) : RunningFor(j) = {p}
      BY <2>3
    <3>2. Cardinality({p}) = 1
      BY FS_Singleton
    <3>3. QED
      BY <3>1, <3>2
  <2>4. QED
    BY <2>1, <2>2, <2>3
<1>3. QED
  BY <1>1, <1>2, SingleStays, FetchInvariant, PTL DEF Spec
=============================================================================
