---------------------------- MODULE ServingProofs ----------------------------
(***************************************************************************)
(* The serving process implements one StreamBuffer, so that what is proved *)
(* of a stream on its own holds of the stream that a pool thread serves    *)
(* while the server stops, also after main() returned.                     *)
(***************************************************************************)
EXTENDS Serving, FiniteSetTheorems, TLAPS

P == INSTANCE StreamBufferProofs WITH stopping <- Stopping

\* main() does not return past a request that it accepted.
DrainedAtExit == main = "exited" => InPool = {} /\ Queued = {}

\* What main() has not come to yet has not happened, what it has left is over,
\* and the stream's response is answered once it ended.
ServerInv ==
    /\ request \in [Requests -> {"none", "queued", "serving", "answered", "dropped"}]
    /\ main \in {"boot", "bind"} => socket = "none" /\ ~running
    /\ main \in {"boot", "bind", "listen"} => \A r \in Requests : request[r] = "none"
    /\ DrainedAtExit
    /\ request[Streamed] = "answered" => ppc = "ended"

-----------------------------------------------------------------------------
(* The server *)

LEMMA ServerInit == ServingInit => ServerInv
BY StreamedAssumption DEF ServingInit, Init, B!Init, ServerInv, DrainedAtExit, InPool, Queued

LEMMA ServerStep == ServerInv /\ [ServingNext]_servingVars => ServerInv'
<1> SUFFICES ASSUME ServerInv, [ServingNext]_servingVars PROVE ServerInv'
  OBVIOUS
<1> USE StreamedAssumption DEF ServerInv, DrainedAtExit, InPool, Queued
<1>1. CASE Signal /\ UNCHANGED streamVars
  BY <1>1 DEF Signal, streamVars
<1>2. CASE MainStep /\ UNCHANGED streamVars
  BY <1>2 DEF MainStep, InstallHandlers, Bind, BindFails, ListenInternal, AcceptEnds, Return,
       streamVars
<1>3. ASSUME NEW r \in Requests, Accept(r) /\ UNCHANGED streamVars PROVE ServerInv'
  BY <1>3 DEF Accept, streamVars
<1>4. CASE WatcherStep /\ UNCHANGED streamVars
  <2>1. CASE WatcherWakes
    BY <1>4, <2>1 DEF WatcherWakes, streamVars
  <2>2. CASE Stop
    BY <1>4, <2>2 DEF Stop, streamVars
  <2>3. QED
    BY <1>4, <2>1, <2>2 DEF WatcherStep
<1>5. ASSUME NEW r \in Requests, Take(r) /\ UNCHANGED streamVars PROVE ServerInv'
  BY <1>5 DEF Take, streamVars
<1>6. ASSUME NEW r \in Requests, AnswerWhole(r) PROVE ServerInv'
  BY <1>6 DEF AnswerWhole, Answer, streamVars
<1>7. CASE StreamWorker
  BY <1>7 DEF StreamWorker, B!WorkerStep, B!OnAudio, B!Finish, vars
<1>8. CASE StreamProvider
  BY <1>8 DEF StreamProvider, vars
<1>9. CASE StreamWake
  BY <1>9 DEF StreamWake, B!Wake, B!Proceed, vars
<1>10. CASE StreamClientGone
  BY <1>10 DEF StreamClientGone, B!ClientGone, vars
<1>11. CASE UNCHANGED servingVars
  BY <1>11 DEF servingVars, streamVars, vars
<1>12. QED
  BY <1>1, <1>2, <1>3, <1>4, <1>5, <1>6, <1>7, <1>8, <1>9, <1>10, <1>11
  DEF ServingNext, ServingPool, Over, servingVars

\* No more requests are in the hands of the pool than it has threads.
LEMMA ServerTypes == TypeOK /\ [ServingNext]_servingVars => TypeOK'
<1> SUFFICES ASSUME TypeOK, [ServingNext]_servingVars PROVE TypeOK'
  OBVIOUS
<1>1. InPool' \subseteq InPool => Cardinality(InPool') <= PoolSize
  <2>1. IsFiniteSet(InPool)
    BY RequestsAssumption, FS_Subset DEF InPool
  <2>2. Cardinality(InPool) \in Nat
    BY <2>1, FS_CardinalityType
  <2>3. ASSUME InPool' \subseteq InPool
        PROVE  Cardinality(InPool') \in Nat /\ Cardinality(InPool') <= Cardinality(InPool)
    <3>1. IsFiniteSet(InPool') /\ Cardinality(InPool') <= Cardinality(InPool)
      BY <2>1, <2>3, FS_Subset
    <3>2. QED
      BY <3>1, FS_CardinalityType
  <2>4. QED
    BY <2>2, <2>3, PoolSizeAssumption DEF TypeOK
<1>2. CASE UNCHANGED request
  <2>1. InPool' \subseteq InPool
    BY <1>2 DEF InPool
  <2>2. main' \in {"boot", "bind", "listen", "accept", "drain", "exited", "killed"}
        /\ watcher' \in {"none", "polling", "stopping", "gone"}
        /\ socket' \in {"none", "open", "closed"}
    BY <1>2 DEF TypeOK, ServingNext, ServingPool, AnswerWhole, Take, Answer, Accept, Signal,
         MainStep, InstallHandlers, Bind, BindFails, ListenInternal, AcceptEnds, Return,
         WatcherStep, WatcherWakes, Stop, StreamWorker, StreamProvider, StreamWake,
         StreamClientGone, Over, vars, servingVars
  <2>3. flag' \in BOOLEAN /\ running' \in BOOLEAN
    BY <1>2, Zenon DEF TypeOK, ServingNext, ServingPool, AnswerWhole, Take, Answer, Accept, Signal,
         MainStep, InstallHandlers, Bind, BindFails, ListenInternal, AcceptEnds, Return,
         WatcherStep, WatcherWakes, Stop, StreamWorker, StreamProvider, StreamWake,
         StreamClientGone, Over, vars, servingVars
  <2>4. QED
    BY <1>1, <1>2, <2>1, <2>2, <2>3 DEF TypeOK
<1>3. ASSUME NEW r \in Requests, Accept(r) \/ Answer(r) PROVE TypeOK'
  <2>1. InPool' \subseteq InPool
    BY <1>3 DEF InPool, Accept, Answer, TypeOK
  <2>2. request' \in [Requests -> {"none", "queued", "serving", "answered", "dropped"}]
    BY <1>3 DEF Accept, Answer, TypeOK
  <2>3. UNCHANGED <<main, flag, watcher, running, socket>>
    BY <1>3 DEF Accept, Answer
  <2>4. QED
    BY <1>1, <2>1, <2>2, <2>3 DEF TypeOK
<1>4. ASSUME NEW r \in Requests, Take(r) PROVE TypeOK'
  <2>1. request' \in [Requests -> {"none", "queued", "serving", "answered", "dropped"}]
        /\ UNCHANGED <<main, flag, watcher, running, socket>>
    BY <1>4 DEF Take, TypeOK
  <2>2. InPool' \subseteq InPool \cup {r} /\ r \notin InPool
    BY <1>4 DEF InPool, Take, TypeOK
  <2>3. IsFiniteSet(InPool)
    BY RequestsAssumption, FS_Subset DEF InPool
  <2>4. IsFiniteSet(InPool \cup {r}) /\ Cardinality(InPool \cup {r}) = Cardinality(InPool) + 1
    BY <2>2, <2>3, FS_AddElement
  <2>5. Cardinality(InPool') \in Nat /\ Cardinality(InPool') <= Cardinality(InPool \cup {r})
    <3>1. IsFiniteSet(InPool') /\ Cardinality(InPool') <= Cardinality(InPool \cup {r})
      BY <2>2, <2>4, FS_Subset
    <3>2. QED
      BY <3>1, FS_CardinalityType
  <2>6. Cardinality(InPool) < PoolSize /\ Cardinality(InPool) \in Nat
    BY <1>4, <2>3, FS_CardinalityType DEF Take
  <2>7. Cardinality(InPool') <= PoolSize
    BY <2>4, <2>5, <2>6, PoolSizeAssumption
  <2>8. QED
    BY <2>1, <2>7 DEF TypeOK
<1>5. QED
  BY <1>2, <1>3, <1>4
  DEF ServingNext, ServingPool, AnswerWhole, Signal, MainStep, InstallHandlers, Bind, BindFails,
      ListenInternal, AcceptEnds, Return, WatcherStep, WatcherWakes, Stop, StreamWorker,
      StreamProvider, StreamWake, StreamClientGone, Over, vars, servingVars

-----------------------------------------------------------------------------
(* The stream *)

LEMMA StreamInit == ServingInit => P!Init
BY DEF ServingInit, Init, B!Init, P!Init, Stopping

\* The rest of the server does nothing to a stream but stop it.
LEMMA SocketMoves ==
    ASSUME ServerInv, UNCHANGED streamVars,
           Signal \/ MainStep \/ WatcherStep \/ (\E r \in Requests : Accept(r) \/ Take(r) \/ Answer(r))
    PROVE  [P!Next]_(P!vars)
<1>1. Stopping' = Stopping \/ (~Stopping /\ Stopping')
  BY DEF ServerInv, Signal, MainStep, InstallHandlers, Bind, BindFails, ListenInternal, AcceptEnds,
       Return, WatcherStep, WatcherWakes, Stop, Accept, Take, Answer, Stopping
<1>2. CASE Stopping' = Stopping
  BY <1>2 DEF streamVars, P!vars, P!sbufVars
<1>3. CASE ~Stopping /\ Stopping'
  <2>1. P!Stop
    BY <1>3 DEF streamVars, P!Stop, P!sbufVars
  <2>2. QED
    BY <2>1 DEF P!Next
<1>4. QED
  BY <1>1, <1>2, <1>3

LEMMA StreamStep == ServerInv /\ [ServingNext]_servingVars => [P!Next]_(P!vars)
<1> SUFFICES ASSUME ServerInv, [ServingNext]_servingVars PROVE [P!Next]_(P!vars)
  OBVIOUS
<1>1. CASE /\ UNCHANGED streamVars
           /\ \/ Signal \/ MainStep \/ WatcherStep
              \/ \E r \in Requests : Accept(r) \/ Take(r) \/ Answer(r)
  BY <1>1, SocketMoves
<1>2. CASE StreamWorker
  BY <1>2 DEF StreamWorker, B!WorkerStep, P!Next, P!WorkerStep, B!OnAudio, P!OnAudio, B!Finish,
       P!Finish, B!Notify, P!Notify, B!Locked, P!Locked, vars, Stopping
<1>3. CASE StreamProvider
  BY <1>3 DEF StreamProvider, B!ProviderStep, P!Next, P!ProviderStep, vars, Stopping,
       B!LoopShutdown, P!LoopShutdown, B!LoopNotWritable, P!LoopNotWritable, B!LoopProvide,
       P!LoopProvide, B!Write, P!Write, B!WriteFails, P!WriteFails, B!CheckMore, P!CheckMore,
       B!CheckDone, P!CheckDone, B!End, P!End, B!Proceed, P!Proceed, B!Ready, P!Ready,
       B!sbufVars, P!sbufVars
<1>4. CASE StreamWake
  BY <1>4 DEF StreamWake, B!Wake, P!Wake, P!Next, vars, Stopping, B!Proceed, P!Proceed, B!Ready,
       P!Ready, B!sbufVars, P!sbufVars
<1>5. CASE StreamClientGone
  BY <1>5 DEF StreamClientGone, B!ClientGone, P!ClientGone, P!Next, vars, Stopping,
       B!sbufVars, P!sbufVars
<1>6. CASE UNCHANGED servingVars
  BY <1>6 DEF servingVars, streamVars, vars, Stopping, P!vars, P!sbufVars
<1>7. QED
  BY <1>1, <1>2, <1>3, <1>4, <1>5, <1>6
  DEF ServingNext, ServingPool, AnswerWhole, Over, servingVars

-----------------------------------------------------------------------------
(* What follows *)

LEMMA ServerInvariant == ServingSpec => []ServerInv
<1>1. QED
  BY ServerInit, ServerStep, PTL DEF ServingSpec

\* Whatever the rest of the server does, its streamed response is a behaviour
\* of StreamBuffer: the provider of one stream is disturbed by nothing but the
\* closing of the socket.
THEOREM StreamRefined == ServingSpec => P!Spec
<1>1. QED
  BY StreamInit, StreamStep, ServerInvariant, PTL DEF ServingSpec, P!Spec

LEMMA StreamInvariant == ServingSpec => []P!IInv
BY StreamRefined, P!Invariant, PTL

\* No chunk is lost, repeated or reordered on its way to the client.
THEOREM ChunksDelivered == ServingSpec => []Delivered
<1>1. P!InOrder /\ P!CompleteIsWhole => Delivered
  BY DEF Delivered, P!InOrder, B!InOrder, P!CompleteIsWhole, B!CompleteIsWhole
<1>2. QED
  BY <1>1, StreamRefined, P!Ordered, P!Whole, PTL

\* The provider of a served stream is not left waiting.
THEOREM NoneForgotten == ServingSpec => []NotForgotten
<1>1. P!NotForgotten => NotForgotten
  BY DEF NotForgotten, P!NotForgotten, B!NotForgotten, P!Ready, B!Ready
<1>2. QED
  BY <1>1, StreamRefined, P!NoLostWakeup, PTL

\* A worker that outlives main() belongs to a response that was cut.
THEOREM OrphansOnlyIfCut == ServingSpec => []OrphanOnlyIfCut
<1>1. ServerInv /\ P!IInv => OrphanOnlyIfCut
  <2> SUFFICES ASSUME ServerInv, P!IInv, main = "exited", Started, wpc = "run"
               PROVE  response \in {"truncated", "aborted"}
    BY DEF OrphanOnlyIfCut
  <2>1. request[Streamed] = "answered"
    BY StreamedAssumption DEF ServerInv, DrainedAtExit, InPool, Started
  <2>2. ppc = "ended"
    BY <2>1 DEF ServerInv
  <2>3. QED
    BY <2>2 DEF P!IInv, P!TypeOK
<1>2. QED
  BY <1>1, ServerInvariant, StreamInvariant, PTL

\* The variables of the server and of its stream have their types, and the pool
\* serves no more requests at a time than it has threads (httplib's ThreadPool).
THEOREM ServingTypes == ServingSpec => []ServingTypeOK
<1>1. ServingInit => TypeOK
  <2> SUFFICES ASSUME ServingInit PROVE TypeOK
    OBVIOUS
  <2>1. InPool = {}
    BY DEF ServingInit, Init, InPool
  <2>2. Cardinality(InPool) <= PoolSize
    BY <2>1, FS_EmptySet, PoolSizeAssumption
  <2>3. flag \in BOOLEAN /\ running \in BOOLEAN
    BY Zenon DEF ServingInit, Init
  <2>4. QED
    BY <2>2, <2>3 DEF ServingInit, Init, TypeOK
<1>2. P!IInv => B!TypeOK
  BY DEF P!IInv, P!TypeOK, B!TypeOK
<1>3. TypeOK /\ B!TypeOK <=> ServingTypeOK
  BY DEF ServingTypeOK
<1>4. QED
  BY <1>1, <1>2, <1>3, ServerTypes, StreamInvariant, PTL DEF ServingSpec
=============================================================================
