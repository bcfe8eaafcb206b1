-------------------------- MODULE ModelSlotsProofs --------------------------
(***************************************************************************)
(* Proofs about ModelSlots, for any sets of slots, threads, workers and    *)
(* models and any set of endpoints called.  Each part of the inductive     *)
(* invariant IInv has a lemma with one step per action; the parts build on *)
(* one another in the order TypeOK, MutexDiscipline, SlotDiscipline, and   *)
(* then UseDiscipline and OneOwner.                                        *)
(***************************************************************************)
EXTENDS ModelSlots, TLAPS

(* Every step of the server keeps every variable in its type. *)
LEMMA TypeOKStep ==
    ASSUME TypeOK, [Next]_vars
    PROVE  TypeOK'
<1>1. CASE UNCHANGED vars
  BY <1>1
    DEF vars, slotVars, threadVars, workerVars, TypeOK, PCs, Holding, AllOps
<1>2. ASSUME NEW t \in Threads, NEW op \in Ops, NEW s \in Slots, Receive(t, op, s)
      PROVE  TypeOK'
  BY <1>2, NullAssumption, OpsAssumption
    DEF Receive, AllOps, Goto, Lock, Unlock, slotVars, threadVars,
        workerVars, TypeOK, PCs, Holding, AllOps
<1>3. ASSUME NEW t \in Threads, ~crashed, HandlerStep(t)
      PROVE  TypeOK'
  <2>1. CASE LoadLock(t)
    BY <2>1, <1>3, NullAssumption
      DEF LoadLock, Goto, Lock, Unlock, slotVars, threadVars, workerVars,
          TypeOK, PCs, Holding, AllOps
  <2>2. CASE LoadAlready(t)
    BY <2>2, <1>3, NullAssumption
      DEF LoadAlready, Goto, Lock, Unlock, slotVars, threadVars, workerVars,
          TypeOK, PCs, Holding, AllOps
  <2>3. CASE LoadModel(t)
    BY <2>3, <1>3, NullAssumption
      DEF LoadModel, Goto, Lock, Unlock, slotVars, threadVars, workerVars,
          TypeOK, PCs, Holding, AllOps
  <2>4. CASE LoadFails(t)
    BY <2>4, <1>3, NullAssumption
      DEF LoadFails, Goto, Lock, Unlock, slotVars, threadVars, workerVars,
          TypeOK, PCs, Holding, AllOps
  <2>5. CASE LoadSession(t)
    BY <2>5, <1>3, NullAssumption
      DEF LoadSession, Goto, Lock, Unlock, slotVars, threadVars, workerVars,
          TypeOK, PCs, Holding, AllOps
  <2>6. CASE LoadDone(t)
    BY <2>6, <1>3, NullAssumption
      DEF LoadDone, Goto, Lock, Unlock, slotVars, threadVars, workerVars,
          TypeOK, PCs, Holding, AllOps
  <2>7. CASE UnloadLock(t)
    BY <2>7, <1>3, NullAssumption
      DEF UnloadLock, Goto, Lock, Unlock, slotVars, threadVars, workerVars,
          TypeOK, PCs, Holding, AllOps
  <2>8. CASE UnloadSession(t)
    BY <2>8, <1>3, NullAssumption
      DEF UnloadSession, Goto, Lock, Unlock, slotVars, threadVars,
          workerVars, TypeOK, PCs, Holding, AllOps
  <2>9. CASE UnloadModel(t)
    BY <2>9, <1>3, NullAssumption
      DEF UnloadModel, Goto, Lock, Unlock, slotVars, threadVars, workerVars,
          TypeOK, PCs, Holding, AllOps
  <2>10. CASE UnloadDone(t)
    BY <2>10, <1>3, NullAssumption
      DEF UnloadDone, Goto, Lock, Unlock, slotVars, threadVars, workerVars,
          TypeOK, PCs, Holding, AllOps
  <2>11. CASE ResolveSlot(t)
    BY <2>11, <1>3, NullAssumption
      DEF ResolveSlot, Goto, Lock, Unlock, slotVars, threadVars, workerVars,
          TypeOK, PCs, Holding, AllOps
  <2>12. CASE ResolveSlotUnavailable(t)
    BY <2>12, <1>3, NullAssumption
      DEF ResolveSlotUnavailable, Goto, Lock, Unlock, slotVars, threadVars,
          workerVars, TypeOK, PCs, Holding, AllOps
  <2>13. CASE RunDone(t)
    BY <2>13, <1>3, NullAssumption
      DEF RunDone, Goto, Lock, Unlock, slotVars, threadVars, workerVars,
          TypeOK, PCs, Holding, AllOps
  <2>14. CASE SpawnWorker(t)
    BY <2>14, <1>3, NullAssumption
      DEF SpawnWorker, Goto, Lock, Unlock, slotVars, threadVars, workerVars,
          TypeOK, PCs, Holding, AllOps
  <2>24. CASE SpawnFails(t)
    BY <2>24, <1>3, NullAssumption
      DEF SpawnFails, Goto, Lock, Unlock, slotVars, threadVars,
          workerVars, TypeOK, PCs, Holding, AllOps
  <2>15. CASE StreamReturn(t)
    BY <2>15, <1>3, NullAssumption
      DEF StreamReturn, Goto, Lock, Unlock, slotVars, threadVars,
          workerVars, TypeOK, PCs, Holding, AllOps
  <2>16. CASE ExtractFind(t)
    BY <2>16, <1>3, NullAssumption
      DEF ExtractFind, Goto, Lock, Unlock, slotVars, threadVars, workerVars,
          TypeOK, PCs, Holding, AllOps
  <2>17. CASE ExtractNone(t)
    BY <2>17, <1>3, NullAssumption
      DEF ExtractNone, Goto, Lock, Unlock, slotVars, threadVars, workerVars,
          TypeOK, PCs, Holding, AllOps
  <2>18. CASE ExtractFamily(t)
    BY <2>18, <1>3, NullAssumption
      DEF ExtractFamily, Goto, Lock, Unlock, slotVars, threadVars,
          workerVars, TypeOK, PCs, Holding, AllOps
  <2>19. CASE ExtractReject(t)
    BY <2>19, <1>3, NullAssumption
      DEF ExtractReject, Goto, Lock, Unlock, slotVars, threadVars,
          workerVars, TypeOK, PCs, Holding, AllOps
  <2>20. CASE ExtractEncode(t)
    BY <2>20, <1>3, NullAssumption
      DEF ExtractEncode, Goto, Lock, Unlock, slotVars, threadVars,
          workerVars, TypeOK, PCs, Holding, AllOps
  <2>21. CASE ExtractDone(t)
    BY <2>21, <1>3, NullAssumption
      DEF ExtractDone, Goto, Lock, Unlock, slotVars, threadVars, workerVars,
          TypeOK, PCs, Holding, AllOps
  <2>22. CASE ListSlot(t)
    BY <2>22, <1>3, NullAssumption
      DEF ListSlot, Goto, Lock, Unlock, slotVars, threadVars, workerVars,
          TypeOK, PCs, Holding, AllOps
  <2>23. CASE ListDone(t)
    BY <2>23, <1>3, NullAssumption
      DEF ListDone, Goto, Lock, Unlock, slotVars, threadVars, workerVars,
          TypeOK, PCs, Holding, AllOps
  <2>. QED
    BY <1>3, <2>1, <2>2, <2>3, <2>4, <2>5, <2>6, <2>7, <2>8, <2>9, <2>10,
    <2>11, <2>12, <2>13, <2>14, <2>15, <2>16, <2>17, <2>18, <2>19, <2>20,
    <2>21, <2>22, <2>23, <2>24
      DEF HandlerStep
<1>4. ASSUME NEW w \in Workers, WorkerStep(w)
      PROVE  TypeOK'
  BY <1>4, NullAssumption
    DEF WorkerStep, WorkerStart, WorkerDone, Goto, Lock, Unlock, slotVars,
        threadVars, workerVars, TypeOK, PCs, Holding, AllOps
<1>. QED BY <1>1, <1>2, <1>3, <1>4 DEF Next, Crashed

(* A mutex is held exactly by the handler whose program counter is inside it. *)
LEMMA MutexDisciplineStep ==
    ASSUME TypeOK, MutexDiscipline, [Next]_vars
    PROVE  MutexDiscipline'
<1>1. CASE UNCHANGED vars
  BY <1>1
    DEF vars, slotVars, threadVars, workerVars, TypeOK, MutexDiscipline,
        Holding
<1>2. ASSUME NEW t \in Threads, NEW op \in Ops, NEW s \in Slots, Receive(t, op, s)
      PROVE  MutexDiscipline'
  BY <1>2, NullAssumption, OpsAssumption
    DEF Receive, AllOps, Goto, Lock, Unlock, slotVars, threadVars,
        workerVars, TypeOK, MutexDiscipline, Holding
<1>3. ASSUME NEW t \in Threads, ~crashed, HandlerStep(t)
      PROVE  MutexDiscipline'
  <2>1. CASE LoadLock(t)
    BY <2>1, <1>3, NullAssumption
      DEF LoadLock, Goto, Lock, Unlock, slotVars, threadVars, workerVars,
          TypeOK, MutexDiscipline, Holding
  <2>2. CASE LoadAlready(t)
    BY <2>2, <1>3, NullAssumption
      DEF LoadAlready, Goto, Lock, Unlock, slotVars, threadVars, workerVars,
          TypeOK, MutexDiscipline, Holding
  <2>3. CASE LoadModel(t)
    BY <2>3, <1>3, NullAssumption
      DEF LoadModel, Goto, Lock, Unlock, slotVars, threadVars, workerVars,
          TypeOK, MutexDiscipline, Holding
  <2>4. CASE LoadFails(t)
    BY <2>4, <1>3, NullAssumption
      DEF LoadFails, Goto, Lock, Unlock, slotVars, threadVars, workerVars,
          TypeOK, MutexDiscipline, Holding
  <2>5. CASE LoadSession(t)
    BY <2>5, <1>3, NullAssumption
      DEF LoadSession, Goto, Lock, Unlock, slotVars, threadVars, workerVars,
          TypeOK, MutexDiscipline, Holding
  <2>6. CASE LoadDone(t)
    BY <2>6, <1>3, NullAssumption
      DEF LoadDone, Goto, Lock, Unlock, slotVars, threadVars, workerVars,
          TypeOK, MutexDiscipline, Holding
  <2>7. CASE UnloadLock(t)
    BY <2>7, <1>3, NullAssumption
      DEF UnloadLock, Goto, Lock, Unlock, slotVars, threadVars, workerVars,
          TypeOK, MutexDiscipline, Holding
  <2>8. CASE UnloadSession(t)
    BY <2>8, <1>3, NullAssumption
      DEF UnloadSession, Goto, Lock, Unlock, slotVars, threadVars,
          workerVars, TypeOK, MutexDiscipline, Holding
  <2>9. CASE UnloadModel(t)
    BY <2>9, <1>3, NullAssumption
      DEF UnloadModel, Goto, Lock, Unlock, slotVars, threadVars, workerVars,
          TypeOK, MutexDiscipline, Holding
  <2>10. CASE UnloadDone(t)
    BY <2>10, <1>3, NullAssumption
      DEF UnloadDone, Goto, Lock, Unlock, slotVars, threadVars, workerVars,
          TypeOK, MutexDiscipline, Holding
  <2>11. CASE ResolveSlot(t)
    BY <2>11, <1>3, NullAssumption
      DEF ResolveSlot, Goto, Lock, Unlock, slotVars, threadVars, workerVars,
          TypeOK, MutexDiscipline, Holding
  <2>12. CASE ResolveSlotUnavailable(t)
    BY <2>12, <1>3, NullAssumption
      DEF ResolveSlotUnavailable, Goto, Lock, Unlock, slotVars, threadVars,
          workerVars, TypeOK, MutexDiscipline, Holding
  <2>13. CASE RunDone(t)
    BY <2>13, <1>3, NullAssumption
      DEF RunDone, Goto, Lock, Unlock, slotVars, threadVars, workerVars,
          TypeOK, MutexDiscipline, Holding
  <2>14. CASE SpawnWorker(t)
    BY <2>14, <1>3, NullAssumption
      DEF SpawnWorker, Goto, Lock, Unlock, slotVars, threadVars, workerVars,
          TypeOK, MutexDiscipline, Holding
  <2>24. CASE SpawnFails(t)
    BY <2>24, <1>3, NullAssumption
      DEF SpawnFails, Goto, Lock, Unlock, slotVars, threadVars,
          workerVars, TypeOK, MutexDiscipline, Holding
  <2>15. CASE StreamReturn(t)
    BY <2>15, <1>3, NullAssumption
      DEF StreamReturn, Goto, Lock, Unlock, slotVars, threadVars,
          workerVars, TypeOK, MutexDiscipline, Holding
  <2>16. CASE ExtractFind(t)
    BY <2>16, <1>3, NullAssumption
      DEF ExtractFind, Goto, Lock, Unlock, slotVars, threadVars, workerVars,
          TypeOK, MutexDiscipline, Holding
  <2>17. CASE ExtractNone(t)
    BY <2>17, <1>3, NullAssumption
      DEF ExtractNone, Goto, Lock, Unlock, slotVars, threadVars, workerVars,
          TypeOK, MutexDiscipline, Holding
  <2>18. CASE ExtractFamily(t)
    BY <2>18, <1>3, NullAssumption
      DEF ExtractFamily, Goto, Lock, Unlock, slotVars, threadVars,
          workerVars, TypeOK, MutexDiscipline, Holding
  <2>19. CASE ExtractReject(t)
    BY <2>19, <1>3, NullAssumption
      DEF ExtractReject, Goto, Lock, Unlock, slotVars, threadVars,
          workerVars, TypeOK, MutexDiscipline, Holding
  <2>20. CASE ExtractEncode(t)
    BY <2>20, <1>3, NullAssumption
      DEF ExtractEncode, Goto, Lock, Unlock, slotVars, threadVars,
          workerVars, TypeOK, MutexDiscipline, Holding
  <2>21. CASE ExtractDone(t)
    BY <2>21, <1>3, NullAssumption
      DEF ExtractDone, Goto, Lock, Unlock, slotVars, threadVars, workerVars,
          TypeOK, MutexDiscipline, Holding
  <2>22. CASE ListSlot(t)
    BY <2>22, <1>3, NullAssumption
      DEF ListSlot, Goto, Lock, Unlock, slotVars, threadVars, workerVars,
          TypeOK, MutexDiscipline, Holding
  <2>23. CASE ListDone(t)
    BY <2>23, <1>3, NullAssumption
      DEF ListDone, Goto, Lock, Unlock, slotVars, threadVars, workerVars,
          TypeOK, MutexDiscipline, Holding
  <2>. QED
    BY <1>3, <2>1, <2>2, <2>3, <2>4, <2>5, <2>6, <2>7, <2>8, <2>9, <2>10,
    <2>11, <2>12, <2>13, <2>14, <2>15, <2>16, <2>17, <2>18, <2>19, <2>20,
    <2>21, <2>22, <2>23, <2>24
      DEF HandlerStep
<1>4. ASSUME NEW w \in Workers, WorkerStep(w)
      PROVE  MutexDiscipline'
  BY <1>4, NullAssumption
    DEF WorkerStep, WorkerStart, WorkerDone, Goto, Lock, Unlock, slotVars,
        threadVars, workerVars, TypeOK, MutexDiscipline, Holding
<1>. QED BY <1>1, <1>2, <1>3, <1>4 DEF Next, Crashed

(* Only the holder of a mutex sees the fields of the slot disagree, and it repairs
   them before it lets go. *)
LEMMA SlotDisciplineStep ==
    ASSUME TypeOK, MutexDiscipline, SlotDiscipline, [Next]_vars
    PROVE  SlotDiscipline'
<1>1. CASE UNCHANGED vars
  BY <1>1
    DEF vars, slotVars, threadVars, workerVars, TypeOK, MutexDiscipline,
        SlotDiscipline, SlotFields, At, Holding
<1>2. ASSUME NEW t \in Threads, NEW op \in Ops, NEW s \in Slots, Receive(t, op, s)
      PROVE  SlotDiscipline'
  BY <1>2, NullAssumption, OpsAssumption
    DEF Receive, AllOps, Goto, Lock, Unlock, slotVars, threadVars,
        workerVars, TypeOK, MutexDiscipline, SlotDiscipline, SlotFields, At,
        Holding
<1>3. ASSUME NEW t \in Threads, ~crashed, HandlerStep(t)
      PROVE  SlotDiscipline'
  <2>1. CASE LoadLock(t)
    BY <2>1, <1>3, NullAssumption
      DEF LoadLock, Goto, Lock, Unlock, slotVars, threadVars, workerVars,
          TypeOK, MutexDiscipline, SlotDiscipline, SlotFields, At, Holding
  <2>2. CASE LoadAlready(t)
    BY <2>2, <1>3, NullAssumption
      DEF LoadAlready, Goto, Lock, Unlock, slotVars, threadVars, workerVars,
          TypeOK, MutexDiscipline, SlotDiscipline, SlotFields, At, Holding
  <2>3. CASE LoadModel(t)
    BY <2>3, <1>3, NullAssumption
      DEF LoadModel, Goto, Lock, Unlock, slotVars, threadVars, workerVars,
          TypeOK, MutexDiscipline, SlotDiscipline, SlotFields, At, Holding
  <2>4. CASE LoadFails(t)
    BY <2>4, <1>3, NullAssumption
      DEF LoadFails, Goto, Lock, Unlock, slotVars, threadVars, workerVars,
          TypeOK, MutexDiscipline, SlotDiscipline, SlotFields, At, Holding
  <2>5. CASE LoadSession(t)
    BY <2>5, <1>3, NullAssumption
      DEF LoadSession, Goto, Lock, Unlock, slotVars, threadVars, workerVars,
          TypeOK, MutexDiscipline, SlotDiscipline, SlotFields, At, Holding
  <2>6. CASE LoadDone(t)
    BY <2>6, <1>3, NullAssumption
      DEF LoadDone, Goto, Lock, Unlock, slotVars, threadVars, workerVars,
          TypeOK, MutexDiscipline, SlotDiscipline, SlotFields, At, Holding
  <2>7. CASE UnloadLock(t)
    BY <2>7, <1>3, NullAssumption
      DEF UnloadLock, Goto, Lock, Unlock, slotVars, threadVars, workerVars,
          TypeOK, MutexDiscipline, SlotDiscipline, SlotFields, At, Holding
  <2>8. CASE UnloadSession(t)
    BY <2>8, <1>3, NullAssumption
      DEF UnloadSession, Goto, Lock, Unlock, slotVars, threadVars,
          workerVars, TypeOK, MutexDiscipline, SlotDiscipline, SlotFields,
          At, Holding
  <2>9. CASE UnloadModel(t)
    BY <2>9, <1>3, NullAssumption
      DEF UnloadModel, Goto, Lock, Unlock, slotVars, threadVars, workerVars,
          TypeOK, MutexDiscipline, SlotDiscipline, SlotFields, At, Holding
  <2>10. CASE UnloadDone(t)
    BY <2>10, <1>3, NullAssumption
      DEF UnloadDone, Goto, Lock, Unlock, slotVars, threadVars, workerVars,
          TypeOK, MutexDiscipline, SlotDiscipline, SlotFields, At, Holding
  <2>11. CASE ResolveSlot(t)
    BY <2>11, <1>3, NullAssumption
      DEF ResolveSlot, Goto, Lock, Unlock, slotVars, threadVars, workerVars,
          TypeOK, MutexDiscipline, SlotDiscipline, SlotFields, At, Holding
  <2>12. CASE ResolveSlotUnavailable(t)
    BY <2>12, <1>3, NullAssumption
      DEF ResolveSlotUnavailable, Goto, Lock, Unlock, slotVars, threadVars,
          workerVars, TypeOK, MutexDiscipline, SlotDiscipline, SlotFields,
          At, Holding
  <2>13. CASE RunDone(t)
    BY <2>13, <1>3, NullAssumption
      DEF RunDone, Goto, Lock, Unlock, slotVars, threadVars, workerVars,
          TypeOK, MutexDiscipline, SlotDiscipline, SlotFields, At, Holding
  <2>14. CASE SpawnWorker(t)
    BY <2>14, <1>3, NullAssumption
      DEF SpawnWorker, Goto, Lock, Unlock, slotVars, threadVars, workerVars,
          TypeOK, MutexDiscipline, SlotDiscipline, SlotFields, At, Holding
  <2>24. CASE SpawnFails(t)
    BY <2>24, <1>3, NullAssumption
      DEF SpawnFails, Goto, Lock, Unlock, slotVars, threadVars,
          workerVars, TypeOK, MutexDiscipline, SlotDiscipline, SlotFields,
          At, Holding
  <2>15. CASE StreamReturn(t)
    BY <2>15, <1>3, NullAssumption
      DEF StreamReturn, Goto, Lock, Unlock, slotVars, threadVars,
          workerVars, TypeOK, MutexDiscipline, SlotDiscipline, SlotFields,
          At, Holding
  <2>16. CASE ExtractFind(t)
    BY <2>16, <1>3, NullAssumption
      DEF ExtractFind, Goto, Lock, Unlock, slotVars, threadVars, workerVars,
          TypeOK, MutexDiscipline, SlotDiscipline, SlotFields, At, Holding
  <2>17. CASE ExtractNone(t)
    BY <2>17, <1>3, NullAssumption
      DEF ExtractNone, Goto, Lock, Unlock, slotVars, threadVars, workerVars,
          TypeOK, MutexDiscipline, SlotDiscipline, SlotFields, At, Holding
  <2>18. CASE ExtractFamily(t)
    BY <2>18, <1>3, NullAssumption
      DEF ExtractFamily, Goto, Lock, Unlock, slotVars, threadVars,
          workerVars, TypeOK, MutexDiscipline, SlotDiscipline, SlotFields,
          At, Holding
  <2>19. CASE ExtractReject(t)
    BY <2>19, <1>3, NullAssumption
      DEF ExtractReject, Goto, Lock, Unlock, slotVars, threadVars,
          workerVars, TypeOK, MutexDiscipline, SlotDiscipline, SlotFields,
          At, Holding
  <2>20. CASE ExtractEncode(t)
    BY <2>20, <1>3, NullAssumption
      DEF ExtractEncode, Goto, Lock, Unlock, slotVars, threadVars,
          workerVars, TypeOK, MutexDiscipline, SlotDiscipline, SlotFields,
          At, Holding
  <2>21. CASE ExtractDone(t)
    BY <2>21, <1>3, NullAssumption
      DEF ExtractDone, Goto, Lock, Unlock, slotVars, threadVars, workerVars,
          TypeOK, MutexDiscipline, SlotDiscipline, SlotFields, At, Holding
  <2>22. CASE ListSlot(t)
    BY <2>22, <1>3, NullAssumption
      DEF ListSlot, Goto, Lock, Unlock, slotVars, threadVars, workerVars,
          TypeOK, MutexDiscipline, SlotDiscipline, SlotFields, At, Holding
  <2>23. CASE ListDone(t)
    BY <2>23, <1>3, NullAssumption
      DEF ListDone, Goto, Lock, Unlock, slotVars, threadVars, workerVars,
          TypeOK, MutexDiscipline, SlotDiscipline, SlotFields, At, Holding
  <2>. QED
    BY <1>3, <2>1, <2>2, <2>3, <2>4, <2>5, <2>6, <2>7, <2>8, <2>9, <2>10,
    <2>11, <2>12, <2>13, <2>14, <2>15, <2>16, <2>17, <2>18, <2>19, <2>20,
    <2>21, <2>22, <2>23, <2>24
      DEF HandlerStep
<1>4. ASSUME NEW w \in Workers, WorkerStep(w)
      PROVE  SlotDiscipline'
  BY <1>4, NullAssumption
    DEF WorkerStep, WorkerStart, WorkerDone, Goto, Lock, Unlock, slotVars,
        threadVars, workerVars, TypeOK, MutexDiscipline, SlotDiscipline,
        SlotFields, At, Holding
<1>. QED BY <1>1, <1>2, <1>3, <1>4 DEF Next, Crashed

(* A handler that computes does so inside its mutex, with the slot's session. *)
LEMMA UseDisciplineStep ==
    ASSUME TypeOK, MutexDiscipline, SlotDiscipline, UseDiscipline, [Next]_vars
    PROVE  UseDiscipline'
<1>1. CASE UNCHANGED vars
  BY <1>1
    DEF vars, slotVars, threadVars, workerVars, TypeOK, MutexDiscipline,
        SlotDiscipline, SlotFields, At, UseDiscipline, Holding, Computing
<1>2. ASSUME NEW t \in Threads, NEW op \in Ops, NEW s \in Slots, Receive(t, op, s)
      PROVE  UseDiscipline'
  BY <1>2, NullAssumption, OpsAssumption
    DEF Receive, AllOps, Goto, Lock, Unlock, slotVars, threadVars,
        workerVars, TypeOK, MutexDiscipline, SlotDiscipline, SlotFields, At,
        UseDiscipline, Holding, Computing
<1>3. ASSUME NEW t \in Threads, ~crashed, HandlerStep(t)
      PROVE  UseDiscipline'
  <2>1. CASE LoadLock(t)
    BY <2>1, <1>3, NullAssumption
      DEF LoadLock, Goto, Lock, Unlock, slotVars, threadVars, workerVars,
          TypeOK, MutexDiscipline, SlotDiscipline, SlotFields, At,
          UseDiscipline, Holding, Computing
  <2>2. CASE LoadAlready(t)
    BY <2>2, <1>3, NullAssumption
      DEF LoadAlready, Goto, Lock, Unlock, slotVars, threadVars, workerVars,
          TypeOK, MutexDiscipline, SlotDiscipline, SlotFields, At,
          UseDiscipline, Holding, Computing
  <2>3. CASE LoadModel(t)
    BY <2>3, <1>3, NullAssumption
      DEF LoadModel, Goto, Lock, Unlock, slotVars, threadVars, workerVars,
          TypeOK, MutexDiscipline, SlotDiscipline, SlotFields, At,
          UseDiscipline, Holding, Computing
  <2>4. CASE LoadFails(t)
    BY <2>4, <1>3, NullAssumption
      DEF LoadFails, Goto, Lock, Unlock, slotVars, threadVars, workerVars,
          TypeOK, MutexDiscipline, SlotDiscipline, SlotFields, At,
          UseDiscipline, Holding, Computing
  <2>5. CASE LoadSession(t)
    BY <2>5, <1>3, NullAssumption
      DEF LoadSession, Goto, Lock, Unlock, slotVars, threadVars, workerVars,
          TypeOK, MutexDiscipline, SlotDiscipline, SlotFields, At,
          UseDiscipline, Holding, Computing
  <2>6. CASE LoadDone(t)
    BY <2>6, <1>3, NullAssumption
      DEF LoadDone, Goto, Lock, Unlock, slotVars, threadVars, workerVars,
          TypeOK, MutexDiscipline, SlotDiscipline, SlotFields, At,
          UseDiscipline, Holding, Computing
  <2>7. CASE UnloadLock(t)
    BY <2>7, <1>3, NullAssumption
      DEF UnloadLock, Goto, Lock, Unlock, slotVars, threadVars, workerVars,
          TypeOK, MutexDiscipline, SlotDiscipline, SlotFields, At,
          UseDiscipline, Holding, Computing
  <2>8. CASE UnloadSession(t)
    BY <2>8, <1>3, NullAssumption
      DEF UnloadSession, Goto, Lock, Unlock, slotVars, threadVars,
          workerVars, TypeOK, MutexDiscipline, SlotDiscipline, SlotFields,
          At, UseDiscipline, Holding, Computing
  <2>9. CASE UnloadModel(t)
    BY <2>9, <1>3, NullAssumption
      DEF UnloadModel, Goto, Lock, Unlock, slotVars, threadVars, workerVars,
          TypeOK, MutexDiscipline, SlotDiscipline, SlotFields, At,
          UseDiscipline, Holding, Computing
  <2>10. CASE UnloadDone(t)
    BY <2>10, <1>3, NullAssumption
      DEF UnloadDone, Goto, Lock, Unlock, slotVars, threadVars, workerVars,
          TypeOK, MutexDiscipline, SlotDiscipline, SlotFields, At,
          UseDiscipline, Holding, Computing
  <2>11. CASE ResolveSlot(t)
    BY <2>11, <1>3, NullAssumption
      DEF ResolveSlot, Goto, Lock, Unlock, slotVars, threadVars, workerVars,
          TypeOK, MutexDiscipline, SlotDiscipline, SlotFields, At,
          UseDiscipline, Holding, Computing
  <2>12. CASE ResolveSlotUnavailable(t)
    BY <2>12, <1>3, NullAssumption
      DEF ResolveSlotUnavailable, Goto, Lock, Unlock, slotVars, threadVars,
          workerVars, TypeOK, MutexDiscipline, SlotDiscipline, SlotFields,
          At, UseDiscipline, Holding, Computing
  <2>13. CASE RunDone(t)
    BY <2>13, <1>3, NullAssumption
      DEF RunDone, Goto, Lock, Unlock, slotVars, threadVars, workerVars,
          TypeOK, MutexDiscipline, SlotDiscipline, SlotFields, At,
          UseDiscipline, Holding, Computing
  <2>14. CASE SpawnWorker(t)
    BY <2>14, <1>3, NullAssumption
      DEF SpawnWorker, Goto, Lock, Unlock, slotVars, threadVars, workerVars,
          TypeOK, MutexDiscipline, SlotDiscipline, SlotFields, At,
          UseDiscipline, Holding, Computing
  <2>24. CASE SpawnFails(t)
    BY <2>24, <1>3, NullAssumption
      DEF SpawnFails, Goto, Lock, Unlock, slotVars, threadVars,
          workerVars, TypeOK, MutexDiscipline, SlotDiscipline, SlotFields,
          At, UseDiscipline, Holding, Computing
  <2>15. CASE StreamReturn(t)
    BY <2>15, <1>3, NullAssumption
      DEF StreamReturn, Goto, Lock, Unlock, slotVars, threadVars,
          workerVars, TypeOK, MutexDiscipline, SlotDiscipline, SlotFields,
          At, UseDiscipline, Holding, Computing
  <2>16. CASE ExtractFind(t)
    BY <2>16, <1>3, NullAssumption
      DEF ExtractFind, Goto, Lock, Unlock, slotVars, threadVars, workerVars,
          TypeOK, MutexDiscipline, SlotDiscipline, SlotFields, At,
          UseDiscipline, Holding, Computing
  <2>17. CASE ExtractNone(t)
    BY <2>17, <1>3, NullAssumption
      DEF ExtractNone, Goto, Lock, Unlock, slotVars, threadVars, workerVars,
          TypeOK, MutexDiscipline, SlotDiscipline, SlotFields, At,
          UseDiscipline, Holding, Computing
  <2>18. CASE ExtractFamily(t)
    BY <2>18, <1>3, NullAssumption
      DEF ExtractFamily, Goto, Lock, Unlock, slotVars, threadVars,
          workerVars, TypeOK, MutexDiscipline, SlotDiscipline, SlotFields,
          At, UseDiscipline, Holding, Computing
  <2>19. CASE ExtractReject(t)
    BY <2>19, <1>3, NullAssumption
      DEF ExtractReject, Goto, Lock, Unlock, slotVars, threadVars,
          workerVars, TypeOK, MutexDiscipline, SlotDiscipline, SlotFields,
          At, UseDiscipline, Holding, Computing
  <2>20. CASE ExtractEncode(t)
    BY <2>20, <1>3, NullAssumption
      DEF ExtractEncode, Goto, Lock, Unlock, slotVars, threadVars,
          workerVars, TypeOK, MutexDiscipline, SlotDiscipline, SlotFields,
          At, UseDiscipline, Holding, Computing
  <2>21. CASE ExtractDone(t)
    BY <2>21, <1>3, NullAssumption
      DEF ExtractDone, Goto, Lock, Unlock, slotVars, threadVars, workerVars,
          TypeOK, MutexDiscipline, SlotDiscipline, SlotFields, At,
          UseDiscipline, Holding, Computing
  <2>22. CASE ListSlot(t)
    BY <2>22, <1>3, NullAssumption
      DEF ListSlot, Goto, Lock, Unlock, slotVars, threadVars, workerVars,
          TypeOK, MutexDiscipline, SlotDiscipline, SlotFields, At,
          UseDiscipline, Holding, Computing
  <2>23. CASE ListDone(t)
    BY <2>23, <1>3, NullAssumption
      DEF ListDone, Goto, Lock, Unlock, slotVars, threadVars, workerVars,
          TypeOK, MutexDiscipline, SlotDiscipline, SlotFields, At,
          UseDiscipline, Holding, Computing
  <2>. QED
    BY <1>3, <2>1, <2>2, <2>3, <2>4, <2>5, <2>6, <2>7, <2>8, <2>9, <2>10,
    <2>11, <2>12, <2>13, <2>14, <2>15, <2>16, <2>17, <2>18, <2>19, <2>20,
    <2>21, <2>22, <2>23, <2>24
      DEF HandlerStep
<1>4. ASSUME NEW w \in Workers, WorkerStep(w)
      PROVE  UseDiscipline'
  BY <1>4, NullAssumption
    DEF WorkerStep, WorkerStart, WorkerDone, Goto, Lock, Unlock, slotVars,
        threadVars, workerVars, TypeOK, MutexDiscipline, SlotDiscipline,
        SlotFields, At, UseDiscipline, Holding, Computing
<1>. QED BY <1>1, <1>2, <1>3, <1>4 DEF Next, Crashed

(* Every constructed model stays owned by exactly one slot. *)
LEMMA OneOwnerStep ==
    ASSUME TypeOK, MutexDiscipline, SlotDiscipline, OneOwner, [Next]_vars
    PROVE  OneOwner'
<1>1. CASE UNCHANGED vars
  BY <1>1
    DEF vars, slotVars, threadVars, workerVars, TypeOK, MutexDiscipline,
        SlotDiscipline, SlotFields, At, OneOwner, Holding
<1>2. ASSUME NEW t \in Threads, NEW op \in Ops, NEW s \in Slots, Receive(t, op, s)
      PROVE  OneOwner'
  BY <1>2, NullAssumption, OpsAssumption
    DEF Receive, AllOps, Goto, Lock, Unlock, slotVars, threadVars,
        workerVars, TypeOK, MutexDiscipline, SlotDiscipline, SlotFields, At,
        OneOwner, Holding
<1>3. ASSUME NEW t \in Threads, ~crashed, HandlerStep(t)
      PROVE  OneOwner'
  <2>1. CASE LoadLock(t)
    BY <2>1, <1>3, NullAssumption
      DEF LoadLock, Goto, Lock, Unlock, slotVars, threadVars, workerVars,
          TypeOK, MutexDiscipline, SlotDiscipline, SlotFields, At, OneOwner,
          Holding
  <2>2. CASE LoadAlready(t)
    BY <2>2, <1>3, NullAssumption
      DEF LoadAlready, Goto, Lock, Unlock, slotVars, threadVars, workerVars,
          TypeOK, MutexDiscipline, SlotDiscipline, SlotFields, At, OneOwner,
          Holding
  <2>3. CASE LoadModel(t)
    BY <2>3, <1>3, NullAssumption
      DEF LoadModel, Goto, Lock, Unlock, slotVars, threadVars, workerVars,
          TypeOK, MutexDiscipline, SlotDiscipline, SlotFields, At, OneOwner,
          Holding
  <2>4. CASE LoadFails(t)
    BY <2>4, <1>3, NullAssumption
      DEF LoadFails, Goto, Lock, Unlock, slotVars, threadVars, workerVars,
          TypeOK, MutexDiscipline, SlotDiscipline, SlotFields, At, OneOwner,
          Holding
  <2>5. CASE LoadSession(t)
    BY <2>5, <1>3, NullAssumption
      DEF LoadSession, Goto, Lock, Unlock, slotVars, threadVars, workerVars,
          TypeOK, MutexDiscipline, SlotDiscipline, SlotFields, At, OneOwner,
          Holding
  <2>6. CASE LoadDone(t)
    BY <2>6, <1>3, NullAssumption
      DEF LoadDone, Goto, Lock, Unlock, slotVars, threadVars, workerVars,
          TypeOK, MutexDiscipline, SlotDiscipline, SlotFields, At, OneOwner,
          Holding
  <2>7. CASE UnloadLock(t)
    BY <2>7, <1>3, NullAssumption
      DEF UnloadLock, Goto, Lock, Unlock, slotVars, threadVars, workerVars,
          TypeOK, MutexDiscipline, SlotDiscipline, SlotFields, At, OneOwner,
          Holding
  <2>8. CASE UnloadSession(t)
    BY <2>8, <1>3, NullAssumption
      DEF UnloadSession, Goto, Lock, Unlock, slotVars, threadVars,
          workerVars, TypeOK, MutexDiscipline, SlotDiscipline, SlotFields,
          At, OneOwner, Holding
  <2>9. CASE UnloadModel(t)
    BY <2>9, <1>3, NullAssumption
      DEF UnloadModel, Goto, Lock, Unlock, slotVars, threadVars, workerVars,
          TypeOK, MutexDiscipline, SlotDiscipline, SlotFields, At, OneOwner,
          Holding
  <2>10. CASE UnloadDone(t)
    BY <2>10, <1>3, NullAssumption
      DEF UnloadDone, Goto, Lock, Unlock, slotVars, threadVars, workerVars,
          TypeOK, MutexDiscipline, SlotDiscipline, SlotFields, At, OneOwner,
          Holding
  <2>11. CASE ResolveSlot(t)
    BY <2>11, <1>3, NullAssumption
      DEF ResolveSlot, Goto, Lock, Unlock, slotVars, threadVars, workerVars,
          TypeOK, MutexDiscipline, SlotDiscipline, SlotFields, At, OneOwner,
          Holding
  <2>12. CASE ResolveSlotUnavailable(t)
    BY <2>12, <1>3, NullAssumption
      DEF ResolveSlotUnavailable, Goto, Lock, Unlock, slotVars, threadVars,
          workerVars, TypeOK, MutexDiscipline, SlotDiscipline, SlotFields,
          At, OneOwner, Holding
  <2>13. CASE RunDone(t)
    BY <2>13, <1>3, NullAssumption
      DEF RunDone, Goto, Lock, Unlock, slotVars, threadVars, workerVars,
          TypeOK, MutexDiscipline, SlotDiscipline, SlotFields, At, OneOwner,
          Holding
  <2>14. CASE SpawnWorker(t)
    BY <2>14, <1>3, NullAssumption
      DEF SpawnWorker, Goto, Lock, Unlock, slotVars, threadVars, workerVars,
          TypeOK, MutexDiscipline, SlotDiscipline, SlotFields, At, OneOwner,
          Holding
  <2>24. CASE SpawnFails(t)
    BY <2>24, <1>3, NullAssumption
      DEF SpawnFails, Goto, Lock, Unlock, slotVars, threadVars,
          workerVars, TypeOK, MutexDiscipline, SlotDiscipline, SlotFields,
          At, OneOwner, Holding
  <2>15. CASE StreamReturn(t)
    BY <2>15, <1>3, NullAssumption
      DEF StreamReturn, Goto, Lock, Unlock, slotVars, threadVars,
          workerVars, TypeOK, MutexDiscipline, SlotDiscipline, SlotFields,
          At, OneOwner, Holding
  <2>16. CASE ExtractFind(t)
    BY <2>16, <1>3, NullAssumption
      DEF ExtractFind, Goto, Lock, Unlock, slotVars, threadVars, workerVars,
          TypeOK, MutexDiscipline, SlotDiscipline, SlotFields, At, OneOwner,
          Holding
  <2>17. CASE ExtractNone(t)
    BY <2>17, <1>3, NullAssumption
      DEF ExtractNone, Goto, Lock, Unlock, slotVars, threadVars, workerVars,
          TypeOK, MutexDiscipline, SlotDiscipline, SlotFields, At, OneOwner,
          Holding
  <2>18. CASE ExtractFamily(t)
    BY <2>18, <1>3, NullAssumption
      DEF ExtractFamily, Goto, Lock, Unlock, slotVars, threadVars,
          workerVars, TypeOK, MutexDiscipline, SlotDiscipline, SlotFields,
          At, OneOwner, Holding
  <2>19. CASE ExtractReject(t)
    BY <2>19, <1>3, NullAssumption
      DEF ExtractReject, Goto, Lock, Unlock, slotVars, threadVars,
          workerVars, TypeOK, MutexDiscipline, SlotDiscipline, SlotFields,
          At, OneOwner, Holding
  <2>20. CASE ExtractEncode(t)
    BY <2>20, <1>3, NullAssumption
      DEF ExtractEncode, Goto, Lock, Unlock, slotVars, threadVars,
          workerVars, TypeOK, MutexDiscipline, SlotDiscipline, SlotFields,
          At, OneOwner, Holding
  <2>21. CASE ExtractDone(t)
    BY <2>21, <1>3, NullAssumption
      DEF ExtractDone, Goto, Lock, Unlock, slotVars, threadVars, workerVars,
          TypeOK, MutexDiscipline, SlotDiscipline, SlotFields, At, OneOwner,
          Holding
  <2>22. CASE ListSlot(t)
    BY <2>22, <1>3, NullAssumption
      DEF ListSlot, Goto, Lock, Unlock, slotVars, threadVars, workerVars,
          TypeOK, MutexDiscipline, SlotDiscipline, SlotFields, At, OneOwner,
          Holding
  <2>23. CASE ListDone(t)
    BY <2>23, <1>3, NullAssumption
      DEF ListDone, Goto, Lock, Unlock, slotVars, threadVars, workerVars,
          TypeOK, MutexDiscipline, SlotDiscipline, SlotFields, At, OneOwner,
          Holding
  <2>. QED
    BY <1>3, <2>1, <2>2, <2>3, <2>4, <2>5, <2>6, <2>7, <2>8, <2>9, <2>10,
    <2>11, <2>12, <2>13, <2>14, <2>15, <2>16, <2>17, <2>18, <2>19, <2>20,
    <2>21, <2>22, <2>23, <2>24
      DEF HandlerStep
<1>4. ASSUME NEW w \in Workers, WorkerStep(w)
      PROVE  OneOwner'
  BY <1>4, NullAssumption
    DEF WorkerStep, WorkerStart, WorkerDone, Goto, Lock, Unlock, slotVars,
        threadVars, workerVars, TypeOK, MutexDiscipline, SlotDiscipline,
        SlotFields, At, OneOwner, Holding
<1>. QED BY <1>1, <1>2, <1>3, <1>4 DEF Next, Crashed

(* The server starts with every slot either loaded with its own model or empty. *)
LEMMA InitIInv == Init => IInv
<1>. SUFFICES ASSUME Init PROVE IInv
  OBVIOUS
<1>1. TypeOK
  <2>1. live \subseteq Models
    BY DEF Init
  <2>2. slot \in [Threads -> Slots] /\ wslot \in [Workers -> Slots]
    BY SlotsAssumption DEF Init
  <2>. QED BY <2>1, <2>2 DEF Init, TypeOK, PCs
<1>2. MutexDiscipline
  BY DEF Init, MutexDiscipline, Holding
<1>3. SlotDiscipline
  BY DEF Init, SlotDiscipline, SlotFields, At
<1>4. UseDiscipline
  BY DEF Init, UseDiscipline, Computing
<1>5. OneOwner
  BY NullAssumption DEF Init, OneOwner
<1>. QED BY <1>1, <1>2, <1>3, <1>4, <1>5 DEF IInv

(* IInv holds in every reachable state. *)
THEOREM Invariant == Spec => []IInv
<1>1. IInv /\ [Next]_vars => IInv'
  BY TypeOKStep, MutexDisciplineStep, SlotDisciplineStep, UseDisciplineStep, OneOwnerStep
     DEF IInv
<1>. QED BY InitIInv, <1>1, PTL DEF Spec

(* Type correctness of the whole server state. *)
THEOREM TypeCorrect == Spec => []TypeOK
<1>1. IInv => TypeOK
  BY DEF IInv
<1>. QED BY Invariant, <1>1, PTL

(* IInv is strong enough for what a reader of slot->session needs, locked or not. *)
LEMMA SessionFacts == ASSUME IInv PROVE SessionNotDangling /\ SlotConsistent
<1>1. SessionNotDangling
  BY NullAssumption
     DEF IInv, TypeOK, SlotDiscipline, SlotFields, At, OneOwner, SessionNotDangling
<1>2. SlotConsistent
  BY DEF IInv, SlotDiscipline, SlotFields, At, SlotConsistent
<1>. QED BY <1>1, <1>2

(* No model is leaked or shared by the load and unload handlers; slot->session
   never dangles, since load assigns the model before the session and unload
   clears the session before the model; and the next holder of a mutex finds
   loaded, session and model in agreement. *)
THEOREM SlotsAreSound == Spec => []SlotsSound
<1>1. IInv => SlotsSound
  BY SessionFacts DEF IInv, SlotsSound
<1>. QED BY Invariant, <1>1, PTL

(* IInv is strong enough for the requests that compute under a mutex. *)
LEMMA UseFacts == ASSUME IInv PROVE LockedUseLive /\ LockedExclusive
<1>1. LockedUseLive
  BY SessionFacts DEF IInv, TypeOK, UseDiscipline, SessionNotDangling, LockedUseLive
<1>2. ASSUME NEW t1 \in Threads, NEW t2 \in Threads, use[t1] = use[t2], use[t1] # Null
      PROVE  t1 = t2
  <2>1. /\ session[slot[t1]] = use[t1] /\ session[slot[t2]] = use[t1]
        /\ slot[t1] \in Slots /\ slot[t2] \in Slots
        /\ mutex[slot[t1]] = t1 /\ mutex[slot[t2]] = t2
    BY <1>2 DEF IInv, TypeOK, UseDiscipline, MutexDiscipline, Computing, Holding
  <2>2. model[slot[t1]] = use[t1] /\ model[slot[t2]] = use[t1]
    BY <2>1, <1>2, SessionFacts DEF SessionNotDangling
  <2>3. slot[t1] = slot[t2]
    BY <2>1, <2>2, <1>2 DEF IInv, OneOwner
  <2>. QED BY <2>1, <2>3
<1>. QED BY <1>1, <1>2 DEF LockedExclusive

(* A request that computes under its mutex has the slot's own live session,
   and no other request computes with it. *)
THEOREM LockedUseIsSafe == Spec => []LockedUse
<1>1. IInv => LockedUse
  BY UseFacts DEF LockedUse
<1>. QED BY Invariant, <1>1, PTL

(* A step of anyone leaves alive the model that a request computes with. *)
LEMMA KeepsUsedModels ==
    ASSUME IInv, [Next]_vars, NEW r \in Threads, use[r] # Null
    PROVE  use[r] \in live'
<1>1. /\ use[r] = session[slot[r]] /\ pc[r] \in Computing
      /\ slot[r] \in Slots /\ mutex[slot[r]] = r
      /\ use[r] = model[slot[r]] /\ use[r] \in live
  <2>1. /\ use[r] = session[slot[r]] /\ pc[r] \in Computing
        /\ slot[r] \in Slots /\ mutex[slot[r]] = r
    BY DEF IInv, TypeOK, UseDiscipline, MutexDiscipline, Computing, Holding
  <2>. QED BY <2>1, SessionFacts DEF SessionNotDangling
<1>2. ASSUME NEW t \in Threads, LoadModel(t)
      PROVE  use[r] \in live'
  <2>1. t # r /\ slot[t] \in Slots /\ mutex[slot[t]] = t
    BY <1>1, <1>2 DEF LoadModel, Computing, IInv, TypeOK, MutexDiscipline, Holding
  <2>2. model[slot[t]] # use[r]
    BY <1>1, <2>1 DEF IInv, OneOwner
  <2>. QED BY <1>1, <1>2, <2>2 DEF LoadModel
<1>3. ASSUME NEW t \in Threads, UnloadModel(t)
      PROVE  use[r] \in live'
  <2>1. t # r /\ slot[t] \in Slots /\ mutex[slot[t]] = t
    BY <1>1, <1>3 DEF UnloadModel, Computing, IInv, TypeOK, MutexDiscipline, Holding
  <2>2. model[slot[t]] # use[r]
    BY <1>1, <2>1 DEF IInv, OneOwner
  <2>. QED BY <1>1, <1>3, <2>2 DEF UnloadModel
<1>4. CASE live' = live
  BY <1>1, <1>4
<1>5. \/ live' = live
      \/ \E t \in Threads : LoadModel(t) \/ UnloadModel(t)
  <2>1. ASSUME NEW t \in Threads, HandlerStep(t)
        PROVE  live' = live \/ LoadModel(t) \/ UnloadModel(t)
    BY <2>1 DEF HandlerStep, LoadLock, LoadAlready, LoadFails, LoadSession, LoadDone,
       UnloadLock, UnloadSession, UnloadDone, ResolveSlot, ResolveSlotUnavailable,
       RunDone, SpawnWorker, SpawnFails, StreamReturn, ExtractFind, ExtractNone, ExtractFamily,
       ExtractReject, ExtractEncode, ExtractDone, ListSlot, ListDone, slotVars
  <2>2. ASSUME NEW t \in Threads, NEW op \in Ops, NEW s \in Slots, Receive(t, op, s)
        PROVE  live' = live
    BY <2>2 DEF Receive, slotVars
  <2>3. ASSUME NEW w \in Workers, WorkerStep(w)
        PROVE  live' = live
    BY <2>3 DEF WorkerStep, WorkerStart, WorkerDone, slotVars
  <2>4. CASE UNCHANGED vars
    BY <2>4 DEF vars, slotVars
  <2>. QED BY <2>1, <2>2, <2>3, <2>4 DEF Next, Crashed
<1>. QED BY <1>2, <1>3, <1>4, <1>5

(* No step destroys a model under a request that holds its slot's mutex. *)
THEOREM NoFree == Spec => NoFreeUnderLock
<1>1. IInv /\ [Next]_vars => [\A t \in Threads : use[t] # Null => use[t] \in live']_vars
  BY KeepsUsedModels
<1>. QED BY Invariant, <1>1, PTL DEF Spec, NoFreeUnderLock

-----------------------------------------------------------------------------
(* Who destroys a model *)

\* A load that goes on to the registry finds its slot empty.
LEMMA LoadFindsNone ==
    ASSUME IInv, NEW t \in Threads, LoadModel(t)
    PROVE  model[slot[t]] = Null /\ session[slot[t]] = Null /\ live \subseteq live'
<1>1. slot[t] \in Slots /\ mutex[slot[t]] = t /\ pc[t] = "loading"
  BY DEF LoadModel, IInv, TypeOK, MutexDiscipline, Holding
<1>2. /\ loaded[slot[t]] <=> session[slot[t]] # Null
      /\ session[slot[t]] = model[slot[t]]
  BY <1>1 DEF IInv, SlotDiscipline, SlotFields, At
<1>3. model[slot[t]] = Null /\ session[slot[t]] = Null
  BY <1>2 DEF LoadModel
<1>4. PICK m \in Models : live' = (live \ {model[slot[t]]}) \cup {m}
  BY DEF LoadModel
<1>5. Null \notin live
  BY NullAssumption DEF IInv, TypeOK
<1>6. QED
  BY <1>3, <1>4, <1>5

\* live and session change by a load or an unload alone.
LEMMA WhoChanges ==
    ASSUME [Next]_vars
    PROVE  \/ live' = live /\ session' = session
           \/ \E t \in Threads : LoadModel(t) \/ UnloadModel(t) \/ LoadSession(t) \/ UnloadSession(t)
<1>1. ASSUME NEW t \in Threads, HandlerStep(t)
      PROVE  \/ live' = live /\ session' = session
             \/ LoadModel(t) \/ UnloadModel(t) \/ LoadSession(t) \/ UnloadSession(t)
  BY <1>1 DEF HandlerStep, LoadLock, LoadAlready, LoadFails, LoadDone,
     UnloadLock, UnloadDone, ResolveSlot, ResolveSlotUnavailable,
     RunDone, SpawnWorker, SpawnFails, StreamReturn, ExtractFind, ExtractNone, ExtractFamily,
     ExtractReject, ExtractEncode, ExtractDone, ListSlot, ListDone, slotVars
<1>2. ASSUME NEW t \in Threads, NEW op \in Ops, NEW s \in Slots, Receive(t, op, s)
      PROVE  live' = live /\ session' = session
  BY <1>2 DEF Receive, slotVars
<1>3. ASSUME NEW w \in Workers, WorkerStep(w)
      PROVE  live' = live /\ session' = session
  BY <1>3 DEF WorkerStep, WorkerStart, WorkerDone, slotVars
<1>4. CASE UNCHANGED vars
  BY <1>4 DEF vars, slotVars
<1>. QED BY <1>1, <1>2, <1>3, <1>4 DEF Next, Crashed

\* What a step destroys is the model of the slot that it unloads.
OnlyUnloadDestroys ==
    [][\A m \in live \ live' :
          \E t \in Threads : pc[t] = "resetModel" /\ model[slot[t]] = m]_vars

\* No model is destroyed but by its unload: a load never replaces one, since it
\* answers "already_loaded" whenever the slot still has one (server.cpp's load
\* and unload handlers).
THEOREM UnloadAloneDestroys == Spec => OnlyUnloadDestroys
<1>1. IInv /\ [Next]_vars =>
         [\A m \in live \ live' :
             \E t \in Threads : pc[t] = "resetModel" /\ model[slot[t]] = m]_vars
  <2>1. ASSUME IInv, NEW t \in Threads, LoadModel(t) PROVE live \ live' = {}
    BY <2>1, LoadFindsNone
  <2>2. ASSUME NEW t \in Threads, UnloadModel(t)
        PROVE  \A m \in live \ live' : pc[t] = "resetModel" /\ model[slot[t]] = m
    BY <2>2 DEF UnloadModel
  <2>3. ASSUME NEW t \in Threads, LoadSession(t) \/ UnloadSession(t) PROVE live' = live
    BY <2>3 DEF LoadSession, UnloadSession
  <2>. QED BY <2>1, <2>2, <2>3, WhoChanges
<1>. QED BY Invariant, <1>1, PTL DEF Spec, OnlyUnloadDestroys

\* While nobody unloads, who has seen a session still finds one.
Unloading == {"unload", "unloading", "resetModel", "clearLoaded"}
SeenInv ==
    /\ ~crashed
    /\ \A t \in Threads : pc[t] \notin Unloading
    /\ \A t \in Threads : pc[t] \in {"spawn", "family", "prepare"} => session[slot[t]] # Null
    /\ \A w \in Workers : wpc[w] = "start" => session[wslot[w]] # Null
    /\ WorkerSessionLive

\* Models and sessions only come then.
LEMMA OnlyLoads ==
    ASSUME IInv, SeenInv, [Next]_vars
    PROVE  /\ live \subseteq live'
           /\ \A s \in Slots : session[s] # Null => session'[s] # Null
<1>1. ASSUME NEW t \in Threads, LoadModel(t)
      PROVE  live \subseteq live' /\ session' = session
  BY <1>1, LoadFindsNone DEF LoadModel
<1>2. ASSUME NEW t \in Threads, LoadSession(t)
      PROVE  /\ live' = live
             /\ \A s \in Slots : session[s] # Null => session'[s] # Null
  <2>1. slot[t] \in Slots /\ mutex[slot[t]] = t /\ pc[t] = "setSession"
    BY <1>2 DEF LoadSession, IInv, TypeOK, MutexDiscipline, Holding
  <2>2. model[slot[t]] # Null
    BY <2>1, NullAssumption DEF IInv, SlotDiscipline, SlotFields, At
  <2>. QED BY <1>2, <2>1, <2>2 DEF LoadSession, IInv, TypeOK
<1>3. ASSUME NEW t \in Threads PROVE ~UnloadModel(t) /\ ~UnloadSession(t)
  BY DEF UnloadModel, UnloadSession, SeenInv, Unloading
<1>. QED BY <1>1, <1>2, <1>3, WhoChanges

LEMMA SeenStays ==
    ASSUME "unload" \notin Ops, IInv, SeenInv, [Next]_vars
    PROVE  SeenInv'
<1>1. /\ live \subseteq live'
      /\ \A s \in Slots : session[s] # Null => session'[s] # Null
  BY OnlyLoads
<1>2. /\ pc \in [Threads -> PCs] /\ slot \in [Threads -> Slots]
      /\ wpc \in [Workers -> {"idle", "start", "run"}] /\ wslot \in [Workers -> Slots]
      /\ wuse \in [Workers -> Models \cup {Null}]
  BY DEF IInv, TypeOK
\* One handler goes on, to where it needs a session only if it saw one.
<1>3. ASSUME NEW t \in Threads, NEW l, NEW s \in Slots,
             l \notin Unloading, l \in {"spawn", "family", "prepare"} => session'[s] # Null,
             pc' = [pc EXCEPT ![t] = l], slot' = [slot EXCEPT ![t] = s],
             UNCHANGED <<workerVars, crashed>>
      PROVE  SeenInv'
  BY <1>1, <1>2, <1>3 DEF SeenInv, WorkerSessionLive, workerVars
<1>4. ASSUME NEW t \in Threads, NEW op \in Ops, NEW s \in Slots, Receive(t, op, s)
      PROVE  SeenInv'
  <2> DEFINE l == IF op = "extract" THEN "find" ELSE op
  <2>1. l \in {"load", "generate", "stream", "find", "list"}
    BY OpsAssumption, "unload" \notin Ops DEF AllOps
  <2>2. pc' = [pc EXCEPT ![t] = l] /\ slot' = [slot EXCEPT ![t] = s]
        /\ UNCHANGED <<workerVars, crashed>>
    BY <1>4 DEF Receive, Goto
  <2> HIDE DEF l
  <2>. QED BY <1>3, <2>1, <2>2 DEF Unloading
<1>5. ASSUME NEW t \in Threads, HandlerStep(t)
      PROVE  SeenInv'
  <2>1. slot[t] \in Slots /\ slot = [slot EXCEPT ![t] = slot[t]] /\ pc = [pc EXCEPT ![t] = pc[t]]
    BY <1>2
  <2>2. ASSUME NEW l \in {"idle", "loading", "setSession", "setLoaded", "run", "return", "encode"},
               pc' = [pc EXCEPT ![t] = l], UNCHANGED <<slot, workerVars, crashed>>
        PROVE  SeenInv'
    BY <1>3, <2>1, <2>2 DEF Unloading
  <2>3. CASE LoadLock(t) \/ LoadAlready(t) \/ LoadModel(t) \/ LoadFails(t) \/ LoadSession(t)
             \/ LoadDone(t)
    BY <2>2, <2>3
    DEF LoadLock, LoadAlready, LoadModel, LoadFails, LoadSession, LoadDone, Goto
  <2>4. CASE UnloadLock(t) \/ UnloadSession(t) \/ UnloadModel(t) \/ UnloadDone(t)
    BY <2>4 DEF UnloadLock, UnloadSession, UnloadModel, UnloadDone, SeenInv, Unloading
  <2>5. CASE ResolveSlot(t)
    <3>1. session'[slot[t]] # Null
      BY <1>1, <2>1, <2>5 DEF ResolveSlot
    <3>2. /\ pc' = [pc EXCEPT ![t] = "run"] \/ pc' = [pc EXCEPT ![t] = "spawn"]
          /\ UNCHANGED <<slot, workerVars, crashed>>
      BY <2>5 DEF ResolveSlot, Goto
    <3>. QED BY <1>3, <2>1, <3>1, <3>2 DEF Unloading
  <2>6. CASE ResolveSlotUnavailable(t) \/ RunDone(t) \/ SpawnFails(t) \/ StreamReturn(t)
             \/ ExtractReject(t) \/ ExtractDone(t) \/ ListDone(t) \/ ExtractNone(t)
    BY <2>2, <2>6 DEF ResolveSlotUnavailable, RunDone, SpawnFails, StreamReturn,
       ExtractReject, ExtractDone, ListDone, ExtractNone, Goto
  <2>7. CASE SpawnWorker(t)
    <3>1. session[slot[t]] # Null
      BY <2>7 DEF SpawnWorker, SeenInv
    <3>2. PICK w \in Workers : /\ wpc' = [wpc EXCEPT ![w] = "start"]
                               /\ wslot' = [wslot EXCEPT ![w] = slot[t]]
      BY <2>7 DEF SpawnWorker
    <3>3. pc' = [pc EXCEPT ![t] = "return"] /\ UNCHANGED <<slot, wuse, crashed>>
      BY <2>7 DEF SpawnWorker, Goto
    <3>. QED BY <1>1, <1>2, <2>1, <3>1, <3>2, <3>3 DEF SeenInv, WorkerSessionLive, Unloading
  <2>8. CASE ExtractFind(t)
    <3>1. PICK s \in todo[t] :
             /\ slot' = [slot EXCEPT ![t] = s]
             /\ pc' = [pc EXCEPT ![t] = IF loaded[s] /\ session[s] # Null
                                        THEN "family" ELSE "find"]
      BY <2>8 DEF ExtractFind, Goto
    <3>2. s \in Slots /\ UNCHANGED <<workerVars, crashed>>
      BY <2>8 DEF ExtractFind, IInv, TypeOK
    <3>3. CASE loaded[s] /\ session[s] # Null
      BY <1>1, <1>3, <3>1, <3>2, <3>3 DEF Unloading
    <3>4. CASE ~(loaded[s] /\ session[s] # Null)
      BY <1>3, <3>1, <3>2, <3>4 DEF Unloading
    <3>. QED BY <3>3, <3>4
  <2>9. CASE ExtractFamily(t)
    <3>1. session[slot[t]] # Null
      BY <2>9 DEF ExtractFamily, SeenInv
    <3>2. /\ \E l \in {"prepare", "find"} : pc' = [pc EXCEPT ![t] = l]
          /\ UNCHANGED <<slot, workerVars, crashed>>
      BY <2>9, <3>1 DEF ExtractFamily, Goto
    <3>. QED BY <1>1, <1>3, <2>1, <3>1, <3>2 DEF Unloading
  <2>10. CASE ExtractEncode(t)
    <3>1. session[slot[t]] # Null
      BY <2>10 DEF ExtractEncode, SeenInv
    <3>. QED BY <2>2, <2>10, <3>1 DEF ExtractEncode, Goto
  <2>11. CASE ListSlot(t)
    <3>1. pc[t] = "list" /\ UNCHANGED <<pc, slot, workerVars, crashed>>
      BY <2>11 DEF ListSlot
    <3>. QED BY <1>3, <2>1, <3>1 DEF Unloading
  <2>. QED BY <1>5, <2>3, <2>4, <2>5, <2>6, <2>7, <2>8, <2>9, <2>10, <2>11 DEF HandlerStep
<1>6. ASSUME NEW w \in Workers, WorkerStep(w)
      PROVE  SeenInv'
  <2>1. CASE WorkerStart(w)
    <3>1. wslot[w] \in Slots /\ session[wslot[w]] # Null
      BY <1>2, <2>1 DEF WorkerStart, SeenInv
    <3>2. session[wslot[w]] \in live
      BY <3>1, SessionFacts DEF SessionNotDangling
    <3>3. /\ wpc' = [wpc EXCEPT ![w] = "run"] /\ wuse' = [wuse EXCEPT ![w] = session[wslot[w]]]
          /\ UNCHANGED <<crashed, session, live, pc, slot, wslot>>
      BY <2>1, <3>1 DEF WorkerStart, slotVars, threadVars
    <3>. QED BY <1>2, <3>2, <3>3 DEF SeenInv, WorkerSessionLive
  <2>2. CASE WorkerDone(w)
    <3>1. /\ wpc' = [wpc EXCEPT ![w] = "idle"] /\ wuse' = [wuse EXCEPT ![w] = Null]
          /\ UNCHANGED <<crashed, session, live, pc, slot, wslot>>
      BY <2>2 DEF WorkerDone, slotVars, threadVars
    <3>. QED BY <1>2, <3>1 DEF SeenInv, WorkerSessionLive
  <2>. QED BY <1>6, <2>1, <2>2 DEF WorkerStep
<1>7. CASE UNCHANGED vars
  BY <1>7 DEF vars, slotVars, threadVars, workerVars, SeenInv, WorkerSessionLive
<1>. QED BY <1>4, <1>5, <1>6, <1>7 DEF Next, Crashed

\* When no client unloads, the handlers that read a session without its mutex
\* are safe as well: no worker computes with a model that is gone, and no null
\* session is called.  Every other pair of endpoints may overlap.
THEOREM SafeWithoutUnload ==
    "unload" \notin Ops => (Spec => [](~crashed /\ WorkerSessionLive))
<1> SUFFICES ASSUME "unload" \notin Ops PROVE Spec => [](~crashed /\ WorkerSessionLive)
  OBVIOUS
<1>1. Init => SeenInv
  BY DEF Init, SeenInv, WorkerSessionLive, Unloading
<1>2. IInv /\ SeenInv /\ [Next]_vars => SeenInv'
  BY SeenStays
<1>3. SeenInv => ~crashed /\ WorkerSessionLive
  BY DEF SeenInv
<1>. QED BY Invariant, <1>1, <1>2, <1>3, PTL DEF Spec

-----------------------------------------------------------------------------
(* While no client calls the streaming endpoint, no worker is ever detached. *)
NoStream == /\ \A t \in Threads : pc[t] \notin {"stream", "spawn"}
            /\ \A w \in Workers : wpc[w] = "idle" /\ wuse[w] = Null

LEMMA NoStreamStays ==
    ASSUME "stream" \notin Ops, TypeOK, NoStream, [Next]_vars
    PROVE  NoStream'
<1>1. pc \in [Threads -> PCs]
  BY DEF TypeOK
<1>2. ASSUME NEW t \in Threads, NEW l, l \notin {"stream", "spawn"},
             pc' = [pc EXCEPT ![t] = l], UNCHANGED <<wpc, wuse>>
      PROVE  NoStream'
  BY <1>1, <1>2 DEF NoStream
<1>3. ASSUME NEW t \in Threads, NEW op \in Ops, NEW s \in Slots, Receive(t, op, s)
      PROVE  NoStream'
  BY <1>2, <1>3, OpsAssumption, "stream" \notin Ops DEF Receive, Goto, workerVars, AllOps
<1>4. ASSUME NEW t \in Threads, HandlerStep(t)
      PROVE  NoStream'
  <2>1. ~SpawnWorker(t) /\ ~SpawnFails(t)
    BY DEF SpawnWorker, SpawnFails, NoStream
  <2>2. CASE LoadLock(t) \/ LoadAlready(t) \/ LoadModel(t) \/ LoadFails(t) \/ LoadSession(t)
             \/ LoadDone(t) \/ UnloadLock(t) \/ UnloadSession(t) \/ UnloadModel(t)
             \/ UnloadDone(t)
    BY <1>2, <2>2 DEF LoadLock, LoadAlready, LoadModel, LoadFails, LoadSession, LoadDone,
       UnloadLock, UnloadSession, UnloadModel, UnloadDone, Goto, workerVars
  <2>3. CASE ResolveSlot(t)
    <3>1. pc[t] = "generate"
      BY <2>3 DEF ResolveSlot, NoStream
    <3>. QED BY <1>2, <2>3, <3>1 DEF ResolveSlot, Goto, workerVars
  <2>4. CASE ResolveSlotUnavailable(t) \/ RunDone(t) \/ StreamReturn(t) \/ ExtractNone(t)
             \/ ExtractReject(t) \/ ExtractDone(t) \/ ListDone(t)
    BY <1>2, <2>4 DEF ResolveSlotUnavailable, RunDone, StreamReturn, ExtractNone,
       ExtractReject, ExtractDone, ListDone, Goto, workerVars
  <2>5. CASE ExtractFind(t)
    <3>1. \E l \in {"family", "find"} : pc' = [pc EXCEPT ![t] = l]
      BY <2>5 DEF ExtractFind, Goto
    <3>. QED BY <1>2, <2>5, <3>1 DEF ExtractFind, workerVars
  <2>6. CASE ExtractFamily(t)
    <3>1. UNCHANGED pc \/ \E l \in {"prepare", "find"} : pc' = [pc EXCEPT ![t] = l]
      BY <2>6 DEF ExtractFamily, Goto
    <3>. QED BY <1>2, <2>6, <3>1 DEF ExtractFamily, workerVars, NoStream
  <2>7. CASE ExtractEncode(t)
    BY <1>2, <2>7 DEF ExtractEncode, Goto, workerVars
  <2>8. CASE ListSlot(t)
    BY <2>8 DEF ListSlot, workerVars, NoStream
  <2>. QED BY <1>4, <2>1, <2>2, <2>3, <2>4, <2>5, <2>6, <2>7, <2>8 DEF HandlerStep
<1>5. ASSUME NEW w \in Workers PROVE ~WorkerStep(w)
  BY DEF WorkerStep, WorkerStart, WorkerDone, NoStream
<1>6. CASE UNCHANGED vars
  BY <1>6 DEF vars, threadVars, workerVars, NoStream
<1>. QED BY <1>3, <1>4, <1>5, <1>6 DEF Next, Crashed

\* The callers of a slot, when no worker computes: the handler inside it.
LEMMA UserFacts ==
    ASSUME IInv, NoStreaming
    PROVE  /\ \A s \in Slots : User[s] = {t \in Threads : use[t] # Null /\ slot[t] = s}
           /\ \A t \in Threads : use[t] # Null => pc[t] \in Computing /\ mutex[slot[t]] = t
<1>1. \A s \in Slots : User[s] = {t \in Threads : use[t] # Null /\ slot[t] = s}
  BY DEF User, NoStreaming
<1>2. \A t \in Threads : use[t] # Null => pc[t] \in Computing /\ mutex[slot[t]] = t
  BY DEF IInv, UseDiscipline, MutexDiscipline, Computing, Holding
<1>. QED BY <1>1, <1>2

\* Nobody is a user of a slot whose mutex is free or held by a handler that does
\* not compute.
LEMMA NoUser ==
    ASSUME IInv, NoStreaming, NEW s \in Slots,
           mutex[s] = Null \/ \E t \in Threads : mutex[s] = t /\ pc[t] \notin Computing
    PROVE  User[s] = {}
<1>1. ASSUME NEW u \in Threads, use[u] # Null, slot[u] = s PROVE FALSE
  <2>1. mutex[s] = u /\ pc[u] \in Computing
    BY <1>1, UserFacts
  <2>. QED BY <2>1, NullAssumption
<1>. QED BY <1>1, UserFacts

\* A handler that computes is the only user of its slot.
LEMMA OneUser ==
    ASSUME IInv, NoStreaming, NEW t \in Threads, use[t] # Null
    PROVE  slot[t] \in Slots /\ User[slot[t]] = {t}
<1>1. slot[t] \in Slots /\ mutex[slot[t]] = t
  BY UserFacts DEF IInv, TypeOK
<1>2. ASSUME NEW u \in Threads, use[u] # Null, slot[u] = slot[t] PROVE u = t
  BY <1>1, <1>2, UserFacts
<1>. QED BY <1>1, <1>2, UserFacts

\* A step that changes what nobody computes with changes no user.
LEMMA SameUsers ==
    ASSUME NoStreaming, UNCHANGED <<use, wuse>>,
           \A t \in Threads : use[t] # Null => slot'[t] = slot[t]
    PROVE  User' = User
<1>1. ASSUME NEW s \in Slots
      PROVE  /\ {t \in Threads : use[t] # Null /\ slot[t] = s}'
                = {t \in Threads : use[t] # Null /\ slot[t] = s}
             /\ {w \in Workers : wuse[w] # Null /\ wslot[w] = s} = {}
             /\ {w \in Workers : wuse[w] # Null /\ wslot[w] = s}' = {}
  BY DEF NoStreaming
<1>. QED BY <1>1 DEF User

\* When one handler starts or stops to compute, only its slot's users change.
LEMMA UsersOf ==
    ASSUME IInv, NoStreaming, NEW t \in Threads, NEW v \in Models \cup {Null},
           use' = [use EXCEPT ![t] = v], UNCHANGED <<slot, wuse>>,
           \A u \in Threads \ {t} : use[u] # Null => slot[u] # slot[t]
    PROVE  User' = [User EXCEPT ![slot[t]] = IF v = Null THEN {} ELSE {t}]
<1>1. slot[t] \in Slots /\ use \in [Threads -> Models \cup {Null}]
  BY DEF IInv, TypeOK
<1>2. /\ use'[t] = v
      /\ \A u \in Threads \ {t} : use'[u] = use[u]
  BY <1>1
<1>3. \A s \in Slots : User'[s] = {u \in Threads : use'[u] # Null /\ slot[u] = s}
  BY DEF User, NoStreaming
<1>4. ASSUME NEW s \in Slots, s # slot[t]
      PROVE  User'[s] = User[s]
  <2>1. User[s] = {u \in Threads : use[u] # Null /\ slot[u] = s}
    BY UserFacts
  <2>2. \A u \in Threads : slot[u] = s => use'[u] = use[u]
    BY <1>2, <1>4
  <2>3. {u \in Threads : use'[u] # Null /\ slot[u] = s}
        = {u \in Threads : use[u] # Null /\ slot[u] = s}
    BY <2>2
  <2>. QED BY <1>3, <2>1, <2>3
<1>5. User'[slot[t]] = IF v = Null THEN {} ELSE {t}
  <2>1. \A u \in Threads : use'[u] # Null /\ slot[u] = slot[t] <=> u = t /\ v # Null
    BY <1>2
  <2>2. User'[slot[t]] = {u \in Threads : u = t /\ v # Null}
    BY <1>1, <1>3, <2>1
  <2>. QED BY <2>2
<1>. DEFINE V == IF v = Null THEN {} ELSE {t}
<1>6. /\ User' = [s \in Slots |-> User'[s]]
      /\ [User EXCEPT ![slot[t]] = V] = [s \in Slots |-> IF s = slot[t] THEN V ELSE User[s]]
  BY DEF User
<1>7. \A s \in Slots : User'[s] = IF s = slot[t] THEN V ELSE User[s]
  BY <1>4, <1>5
<1> HIDE DEF V
<1>8. [s \in Slots |-> User'[s]] = [s \in Slots |-> IF s = slot[t] THEN V ELSE User[s]]
  BY <1>7
<1>9. User' = [User EXCEPT ![slot[t]] = V]
  BY <1>6, <1>8
<1>. QED BY <1>9 DEF V

(* The handlers that neither publish, withdraw nor compute with a model leave both
   refined variables alone. *)
LEMMA SilentStep ==
    ASSUME IInv, NoStreaming, NEW t \in Threads,
           LoadLock(t) \/ LoadAlready(t) \/ LoadModel(t) \/ LoadFails(t) \/
           UnloadLock(t) \/ UnloadModel(t) \/ UnloadDone(t) \/ ResolveSlotUnavailable(t) \/
           SpawnWorker(t) \/ SpawnFails(t) \/ StreamReturn(t) \/ ExtractFind(t) \/ ExtractNone(t) \/ ExtractFamily(t) \/
           ExtractReject(t) \/ ListSlot(t) \/ ListDone(t)
    PROVE  UNCHANGED <<Resident, User>>
<1>1. \A u \in Threads : use[u] # Null => pc[u] \in Computing
  BY UserFacts
<1>2. User' = User
  <2>1. UNCHANGED <<use, wuse>>
    BY DEF LoadLock, LoadAlready, LoadModel, LoadFails, UnloadLock, UnloadModel, UnloadDone,
       ResolveSlotUnavailable, SpawnWorker, SpawnFails, StreamReturn, ExtractFind, ExtractNone, ExtractFamily,
       ExtractReject, ListSlot, ListDone, workerVars
  <2>2. CASE ExtractFind(t)
    <3>1. use[t] = Null
      BY <1>1, <2>2 DEF ExtractFind, Computing
    <3>2. \A u \in Threads \ {t} : slot'[u] = slot[u]
      BY <2>2 DEF ExtractFind, IInv, TypeOK
    <3>. QED BY <2>1, <3>1, <3>2, SameUsers
  <2>3. CASE ~ExtractFind(t)
    <3>1. UNCHANGED slot
      BY <2>3 DEF LoadLock, LoadAlready, LoadModel, LoadFails, UnloadLock, UnloadModel,
         UnloadDone, ResolveSlotUnavailable, SpawnWorker, SpawnFails, StreamReturn, ExtractNone, ExtractFamily,
         ExtractReject, ListSlot, ListDone
    <3>. QED BY <2>1, <3>1, SameUsers
  <2>. QED BY <2>2, <2>3
<1>3. Resident' = Resident
  <2>1. CASE UnloadDone(t)
    <3>1. slot[t] \in Slots /\ mutex[slot[t]] = t /\ pc[t] = "clearLoaded"
      BY <2>1 DEF UnloadDone, IInv, TypeOK, MutexDiscipline, Holding
    <3>2. session[slot[t]] = Null
      BY <3>1, NullAssumption DEF IInv, SlotDiscipline, SlotFields, At
    <3>. QED BY <2>1, <3>2 DEF UnloadDone, Resident, IInv, TypeOK
  <2>2. CASE ~UnloadDone(t)
    BY <2>2 DEF LoadLock, LoadAlready, LoadModel, LoadFails, UnloadLock, UnloadModel,
       ResolveSlotUnavailable, SpawnWorker, SpawnFails, StreamReturn, ExtractFind, ExtractNone, ExtractFamily,
       ExtractReject, ListSlot, ListDone, slotVars, Resident
  <2>. QED BY <2>1, <2>2
<1>. QED BY <1>2, <1>3

(* The steps that the callers of the server can tell apart. *)
LEMMA VisibleStep ==
    ASSUME IInv, NoStreaming, NEW t \in Threads,
           \/ LoadSession(t) \/ LoadDone(t) \/ UnloadSession(t)
           \/ ResolveSlot(t) \/ RunDone(t) \/ ExtractEncode(t) \/ ExtractDone(t)
    PROVE  Promise!Next \/ UNCHANGED <<Resident, User>>
<1>. DEFINE s == slot[t]
<1>1. /\ s \in Slots /\ t \in Threads \cup Workers /\ t # Null
      /\ pc[t] \in Holding => mutex[s] = t
      /\ pc[t] \in Computing /\ ~crashed => use[t] # Null
      /\ session \in [Slots -> Models \cup {Null}] /\ loaded \in [Slots -> BOOLEAN]
      /\ use \in [Threads -> Models \cup {Null}]
  BY NullAssumption DEF IInv, TypeOK, MutexDiscipline, UseDiscipline
<1>2. \A r \in Slots : mutex[r] = Null => (loaded[r] <=> session[r] # Null)
  BY SessionFacts DEF SlotConsistent
<1>r. ASSUME \A r \in Slots : Resident'[r] = Resident[r]
      PROVE  Resident' = Resident
  BY <1>r DEF Resident
<1>f. ASSUME use' = use, UNCHANGED <<slot, workerVars>> PROVE User' = User
  BY <1>f, SameUsers DEF workerVars
\* A handler that takes the mutex begins to use a slot that nobody uses.
<1>b. ASSUME mutex[s] = Null, session[s] # Null, use' = [use EXCEPT ![t] = session[s]],
             UNCHANGED <<slotVars, slot, workerVars>>
      PROVE  Promise!Begin(t, s)
  <2>1. User[s] = {}
    BY <1>1, <1>b, NoUser
  <2>2. \A u \in Threads \ {t} : use[u] # Null => slot[u] # s
    BY <1>1, <1>b, UserFacts, NullAssumption
  <2>3. User' = [User EXCEPT ![s] = {t}]
    BY <1>1, <1>b, <2>2, UsersOf DEF workerVars
  <2>4. Resident[s] /\ Resident' = Resident
    BY <1>1, <1>2, <1>b DEF Resident, slotVars
  <2>. QED BY <2>1, <2>3, <2>4 DEF Promise!Begin
\* A handler that stops to compute leaves the slot without users.
<1>e. ASSUME pc[t] \in Computing, use[t] # Null, use' = [use EXCEPT ![t] = Null],
             UNCHANGED <<slotVars, slot, workerVars>>
      PROVE  Promise!End(t, s)
  <2>1. User[s] = {t}
    BY <1>e, OneUser
  <2>2. \A u \in Threads \ {t} : use[u] # Null => slot[u] # s
    BY <1>1, <1>e, UserFacts
  <2>3. User' = [User EXCEPT ![s] = {}]
    BY <1>1, <1>e, <2>2, UsersOf DEF workerVars
  <2>4. Resident' = Resident
    BY <1>e DEF Resident, slotVars
  <2>. QED BY <2>1, <2>3, <2>4 DEF Promise!End
<1>3. CASE LoadSession(t)
  <2>1. pc[t] = "setSession" /\ mutex[s] = t
    BY <1>1, <1>3 DEF LoadSession, Holding
  <2>2. ~loaded[s] /\ loaded' = loaded
    BY <1>1, <1>3, <2>1 DEF LoadSession, IInv, SlotDiscipline, SlotFields, At
  <2>3. \A r \in Slots : Resident'[r] = Resident[r]
    BY <1>1, <1>3, <2>2 DEF LoadSession, Resident
  <2>. QED BY <1>3, <1>f, <1>r, <2>3 DEF LoadSession
<1>4. CASE LoadDone(t)
  <2>1. pc[t] = "setLoaded" /\ mutex[s] = t
    BY <1>1, <1>4 DEF LoadDone, Holding
  <2>2. ~loaded[s] /\ session[s] # Null
    BY <1>1, <2>1, NullAssumption DEF IInv, SlotDiscipline, SlotFields, At
  <2>3. ~Resident[s] /\ User[s] = {}
    BY <1>1, <2>1, <2>2, NoUser DEF Resident, Computing
  <2>4. Resident' = [Resident EXCEPT ![s] = TRUE]
    BY <1>1, <1>4, <2>2 DEF LoadDone, Resident
  <2>5. User' = User
    BY <1>4, <1>f DEF LoadDone
  <2>. QED BY <1>1, <2>3, <2>4, <2>5 DEF Promise!Load, Promise!Next
<1>5. CASE UnloadSession(t)
  <2>1. pc[t] = "unloading" /\ mutex[s] = t
    BY <1>1, <1>5 DEF UnloadSession, Holding
  <2>2. User[s] = {} /\ User' = User
    BY <1>1, <1>5, <1>f, <2>1, NoUser DEF UnloadSession, Computing
  <2>3. session' = [session EXCEPT ![s] = Null] /\ UNCHANGED loaded
    BY <1>5 DEF UnloadSession
  <2>4. CASE Resident[s]
    <3>1. Resident' = [Resident EXCEPT ![s] = FALSE]
      BY <1>1, <2>3 DEF Resident
    <3>. QED BY <1>1, <2>2, <2>4, <3>1 DEF Promise!Unload, Promise!Next
  <2>5. CASE ~Resident[s]
    <3>1. \A r \in Slots : Resident'[r] = Resident[r]
      BY <1>1, <2>3, <2>5 DEF Resident
    <3>. QED BY <1>r, <2>2, <3>1
  <2>. QED BY <2>4, <2>5
<1>7. CASE ResolveSlot(t)
  <2>1. CASE pc[t] = "generate"
    <3>1. /\ mutex[s] = Null /\ session[s] # Null /\ use' = [use EXCEPT ![t] = session[s]]
          /\ UNCHANGED <<slotVars, slot, workerVars>>
      BY <1>7, <2>1 DEF ResolveSlot, Lock
    <3>. QED BY <1>1, <1>b, <3>1 DEF Promise!Next
  <2>2. CASE pc[t] # "generate"
    <3>1. use' = use /\ UNCHANGED <<slotVars, slot, workerVars>>
      BY <1>7, <2>2 DEF ResolveSlot
    <3>. QED BY <1>f, <3>1 DEF Resident, slotVars
  <2>. QED BY <2>1, <2>2
<1>8. CASE RunDone(t) \/ ExtractDone(t)
  <2>1. /\ pc[t] \in Computing /\ use' = [use EXCEPT ![t] = Null]
        /\ UNCHANGED <<slotVars, slot, workerVars>>
    BY <1>8 DEF RunDone, ExtractDone, Computing
  <2>2. CASE use[t] # Null
    BY <1>1, <1>e, <2>1, <2>2 DEF Promise!Next
  <2>3. CASE use[t] = Null
    <3>1. use' = use
      BY <1>1, <2>1, <2>3
    <3>. QED BY <1>f, <2>1, <3>1 DEF Resident, slotVars
  <2>. QED BY <2>2, <2>3
<1>9. CASE ExtractEncode(t)
  <2>1. mutex[s] = Null /\ UNCHANGED <<slotVars, slot, workerVars>>
    BY <1>9 DEF ExtractEncode, Lock
  <2>2. CASE session[s] # Null
    <3>1. use' = [use EXCEPT ![t] = session[s]]
      BY <1>9, <2>2 DEF ExtractEncode
    <3>. QED BY <1>1, <1>b, <2>1, <2>2, <3>1 DEF Promise!Next
  <2>3. CASE session[s] = Null
    BY <1>9, <1>f, <2>1, <2>3 DEF ExtractEncode, Resident, slotVars
  <2>. QED BY <2>2, <2>3
<1>. QED BY <1>3, <1>4, <1>5, <1>7, <1>8, <1>9

LEMMA SerialStart == Init => Promise!Init
BY NullAssumption DEF Init, Promise!Init, Resident, User

LEMMA SerialStep ==
    ASSUME IInv, NoStreaming, NoStreaming', [Next]_vars
    PROVE  [Promise!Next]_<<Resident, User>>
<1>1. CASE UNCHANGED vars
  BY <1>1 DEF vars, slotVars, threadVars, workerVars, Resident, User
<1>2. ASSUME NEW t \in Threads, NEW op \in Ops, NEW s \in Slots, Receive(t, op, s)
      PROVE  UNCHANGED <<Resident, User>>
  <2>1. use[t] = Null /\ \A u \in Threads \ {t} : slot'[u] = slot[u]
    BY <1>2, UserFacts DEF Receive, Computing, IInv, TypeOK
  <2>2. User' = User
    BY <1>2, <2>1, SameUsers DEF Receive, workerVars
  <2>. QED BY <1>2, <2>2 DEF Receive, slotVars, Resident
<1>3. ASSUME NEW t \in Threads, HandlerStep(t)
      PROVE  Promise!Next \/ UNCHANGED <<Resident, User>>
  BY <1>3, SilentStep, VisibleStep DEF HandlerStep
\* A worker that has not begun to compute, or stops, is no user.
<1>4. ASSUME NEW w \in Workers, WorkerStep(w)
      PROVE  UNCHANGED <<Resident, User>>
  <2>1. UNCHANGED <<slotVars, slot, use>>
    BY <1>4 DEF WorkerStep, WorkerStart, WorkerDone, threadVars
  <2>2. \A v \in Workers : wuse[v] = Null /\ wuse'[v] = Null
    BY DEF NoStreaming
  <2>. QED BY <2>1, <2>2 DEF Resident, User, slotVars
<1>. QED BY <1>1, <1>2, <1>3, <1>4 DEF Next, Crashed

(* Whenever no detached worker is inside a session, the server takes the steps of
   SerialSlots, however many streams there were before. *)
THEOREM Refinement == Spec => PromiseSpec
<1>1. IInv /\ [Next]_vars => [NoStreaming /\ NoStreaming' => Promise!Next]_<<Resident, User>>
  BY SerialStep
<1>. QED BY Invariant, SerialStart, <1>1, PTL DEF Spec, PromiseSpec

(* As long as no client calls /v1/audio/speech/stream, the server implements
   SerialSlots. *)
THEOREM SerialWithoutStreams == "stream" \notin Ops => (Spec => Promise!Spec)
<1> SUFFICES ASSUME "stream" \notin Ops PROVE Spec => Promise!Spec
  OBVIOUS
<1>1. Init => NoStream
  BY DEF Init, NoStream
<1>2. IInv /\ NoStream /\ [Next]_vars => NoStream'
  BY NoStreamStays DEF IInv
<1>3. IInv /\ NoStream /\ NoStream' /\ [Next]_vars => [Promise!Next]_(Promise!vars)
  BY SerialStep DEF NoStream, NoStreaming, Promise!vars
<1>. QED BY Invariant, SerialStart, <1>1, <1>2, <1>3, PTL DEF Spec, Promise!Spec
=============================================================================
