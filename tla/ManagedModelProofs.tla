------------------------- MODULE ManagedModelProofs -------------------------
(***************************************************************************)
(* The models of the ComfyUI nodes, for any number of objects, keys and    *)
(* sessions: as long as a free and a node are not in methods of one object *)
(* at once, at most one session holds weights, ComfyUI's list accounts for *)
(* it once, and between nodes it is the one a free would close.            *)
(*                                                                         *)
(* The argument follows the one open session: from its creation, when none *)
(* is open because a load closes what is resident first, through the list, *)
(* to the close by whichever cleanup reaches it, while objects that share  *)
(* it keep a reference that nobody opens again.                            *)
(***************************************************************************)
EXTENDS ManagedModel, TLAPS

-----------------------------------------------------------------------------
LEMMA ManagedStarts == Init => ManagedInv
<1> USE NullAssumption DEF Threads, Worker, Loop, Init
<1>1. Init => TypeInv
  BY DEF TypeInv, TypeOK, Created
<1>2. Init => Safe
  BY DEF Safe, Apart, Cleaned, Making, Private, Listing, Resident, Accounted, Evicting, Handling
<1>3. QED
  BY <1>1, <1>2 DEF ManagedInv

\* The objects a thread works on are created, whatever the other does.
LEMMA TypesStay ==
    ASSUME TypeInv, Next
    PROVE  TypeInv'
<1> USE NullAssumption DEF Goto, Threads, Worker, Loop, TypeInv, TypeOK, Created
<1>1. ASSUME NEW m \in Managed, NEW k \in Keys, LoadNode(m, k)
      PROVE  TypeInv'
  BY <1>1 DEF LoadNode, Enter, objVars
<1>2. ASSUME NEW m \in Managed, RunNode(m)
      PROVE  TypeInv'
  BY <1>2 DEF RunNode, Enter, objVars
<1>3. ASSUME NEW m \in Managed, UnloadNode(m)
      PROVE  TypeInv'
  BY <1>3 DEF UnloadNode, Enter, objVars
<1>4. ASSUME NEW m \in Managed, FreeMemory(m)
      PROVE  TypeInv'
  BY <1>4 DEF FreeMemory, Enter, objVars
<1>5. ASSUME NEW m \in Managed, PopDead(m)
      PROVE  TypeInv'
  BY <1>5 DEF PopDead, objVars
<1>6. CASE Run
  BY <1>6 DEF Run, objVars
<1>7. CASE LoadAlready
  BY <1>7 DEF LoadAlready, objVars
<1>8. CASE LoadHot
  BY <1>8 DEF LoadHot, Compatible, objVars
<1>9. CASE LoadTake
  BY <1>9 DEF LoadTake
<1>10. CASE LoadCold
  BY <1>10 DEF LoadCold, Compatible, objVars
<1>11. CASE LoadCreate
  BY <1>11 DEF LoadCreate
<1>12. CASE LoadFails
  BY <1>12 DEF LoadFails, objVars
<1>13. CASE LoadActivate
  BY <1>13 DEF LoadActivate, objVars
<1>14. CASE Register
  BY <1>14 DEF Register
<1>15. CASE Free
  BY <1>15 DEF Free, objVars
<1>16. CASE FreeNothing
  BY <1>16 DEF FreeNothing, vars, objVars
<1>17. CASE EvictRefused
  BY <1>17 DEF EvictRefused, objVars
<1>18. CASE Evict
  BY <1>18 DEF Evict, objVars
<1>19. CASE EvictClear
  BY <1>19 DEF EvictClear
<1>20. CASE Pop
  BY <1>20 DEF Pop, objVars
<1>21. CASE IndexError
  BY <1>21 DEF IndexError, objVars
<1>22. ASSUME NEW p \in Threads, Unregister(p)
      PROVE  TypeInv'
  BY <1>22 DEF Unregister
<1>23. ASSUME NEW p \in Threads, Close(p)
      PROVE  TypeInv'
  BY <1>23 DEF Close, objVars
<1>24. ASSUME NEW p \in Threads, Drop(p)
      PROVE  TypeInv'
  BY <1>24 DEF Drop
<1>25. ASSUME NEW p \in Threads, Clear(p)
      PROVE  TypeInv'
  BY <1>25 DEF Clear, objVars
<1>26. QED
  BY <1>1, <1>2, <1>3, <1>4, <1>5, <1>6, <1>7, <1>8, <1>9, <1>10, <1>11, <1>12, <1>13, <1>14,
     <1>15, <1>16, <1>17, <1>18, <1>19, <1>20, <1>21, <1>22, <1>23, <1>24, <1>25
  DEF Next

\* A step without a race leaves the session where the lists say it is.
LEMMA SafeStays ==
    ASSUME TypeInv, Safe, ~raced, ~raced', Next
    PROVE  Safe'
<1> USE NullAssumption DEF Goto, Threads, Worker, Loop, TypeInv, TypeOK, Created
<1>1. ASSUME NEW m \in Managed, NEW k \in Keys, LoadNode(m, k)
      PROVE  Safe'
  BY <1>1 DEF LoadNode, Enter, objVars, Safe, Apart, Cleaned, Making, Private, Listing, Resident,
              Accounted, Evicting, Handling
<1>2. ASSUME NEW m \in Managed, RunNode(m)
      PROVE  Safe'
  BY <1>2, ZenonT(30) DEF RunNode, Enter, objVars, Safe, Apart, Cleaned, Making, Private, Listing, Resident,
              Accounted, Evicting, Handling
<1>3. ASSUME NEW m \in Managed, UnloadNode(m)
      PROVE  Safe'
  BY <1>3, ZenonT(30)
  DEF UnloadNode, Enter, objVars, Safe, Apart, Cleaned, Making, Private, Listing,
      Resident, Accounted, Evicting, Handling
<1>4. ASSUME NEW m \in Managed, FreeMemory(m)
      PROVE  Safe'
  BY <1>4, ZenonT(30)
  DEF FreeMemory, Enter, objVars, Safe, Apart, Cleaned, Making, Private, Listing,
      Resident, Accounted, Evicting, Handling
<1>5. ASSUME NEW m \in Managed, PopDead(m)
      PROVE  Safe'
  BY <1>5 DEF PopDead, objVars, Safe, Apart, Cleaned, Making, Private, Listing, Resident,
              Accounted, Evicting, Handling
<1>6. CASE Run
  BY <1>6 DEF Run, objVars, Safe, Apart, Cleaned, Making, Private, Listing, Resident, Accounted,
              Evicting, Handling
<1>7. CASE LoadAlready
  BY <1>7 DEF LoadAlready, objVars, Safe, Apart, Cleaned, Making, Private, Listing, Resident,
              Accounted, Evicting, Handling
<1>8. CASE LoadHot
  BY <1>8 DEF LoadHot, Compatible, objVars, Safe, Apart, Cleaned, Making, Private, Listing,
              Resident, Accounted, Evicting, Handling
<1>9. CASE LoadTake
  BY <1>9 DEF LoadTake, Safe, Apart, Cleaned, Making, Private, Listing, Resident, Accounted,
              Evicting, Handling
<1>10. CASE LoadCold
  <2>1. Apart'
    BY <1>10 DEF LoadCold, Compatible, objVars, Safe, Apart, Evicting
  <2>2. Cleaned'
    BY <1>10 DEF LoadCold, Compatible, objVars, Safe, Cleaned, Apart, Evicting, Listing
  <2>3. Making'
    BY <1>10 DEF LoadCold, Compatible, objVars, Safe, Making, Apart, Evicting, Cleaned, Resident
  <2>4. Private'
    BY <1>10 DEF LoadCold, Compatible, objVars, Safe, Private, Apart, Evicting
  <2>5. Listing'
    BY <1>10 DEF LoadCold, Compatible, objVars, Safe, Listing, Apart, Evicting, Cleaned, Making,
                 Private
  <2>6. Resident'
    BY <1>10 DEF LoadCold, Compatible, objVars, Safe, Resident, Apart, Evicting, Cleaned, Making,
                 Private
  <2>7. Accounted'
    BY <1>10 DEF LoadCold, Compatible, objVars, Safe, Accounted, Handling, Apart, Evicting,
                 Cleaned, Making, Private, Listing
  <2>8. QED
    BY <2>1, <2>2, <2>3, <2>4, <2>5, <2>6, <2>7 DEF Safe
<1>11. CASE LoadCreate
  <2>1. Apart'
    BY <1>11 DEF LoadCreate, Safe, Apart, Evicting
  <2>2. Cleaned'
    BY <1>11 DEF LoadCreate, Safe, Cleaned, Apart, Evicting, Listing
  <2>3. Making'
    BY <1>11 DEF LoadCreate, Safe, Making, Apart, Evicting, Cleaned, Resident
  <2>4. Private'
    BY <1>11 DEF LoadCreate, Safe, Private, Apart, Evicting
  <2>5. Listing'
    BY <1>11 DEF LoadCreate, Safe, Listing, Apart, Evicting, Cleaned, Making, Private
  <2>6. Resident'
    BY <1>11 DEF LoadCreate, Safe, Resident, Apart, Evicting, Cleaned, Making, Private
  <2>7. Accounted'
    BY <1>11 DEF LoadCreate, Safe, Accounted, Handling, Apart, Evicting, Cleaned, Making, Private,
                 Listing
  <2>8. QED
    BY <2>1, <2>2, <2>3, <2>4, <2>5, <2>6, <2>7 DEF Safe
<1>12. CASE LoadFails
  BY <1>12 DEF LoadFails, objVars, Safe, Apart, Cleaned, Making, Private, Listing, Resident,
               Accounted, Evicting, Handling
<1>13. CASE LoadActivate
  <2>1. Apart'
    BY <1>13 DEF LoadActivate, objVars, Safe, Apart, Evicting
  <2>2. Cleaned'
    BY <1>13 DEF LoadActivate, objVars, Safe, Cleaned, Apart, Evicting, Listing
  <2>3. Making'
    BY <1>13 DEF LoadActivate, objVars, Safe, Making, Apart, Evicting, Cleaned, Resident
  <2>4. Private'
    BY <1>13 DEF LoadActivate, objVars, Safe, Private, Apart, Evicting
  <2>5. Listing'
    BY <1>13 DEF LoadActivate, objVars, Safe, Listing, Apart, Evicting, Cleaned, Making, Private
  <2>6. Resident'
    BY <1>13 DEF LoadActivate, objVars, Safe, Resident, Apart, Evicting, Cleaned, Making, Private
  <2>7. Accounted'
    BY <1>13 DEF LoadActivate, objVars, Safe, Accounted, Handling, Apart, Evicting, Cleaned,
                 Making, Private, Listing
  <2>8. QED
    BY <2>1, <2>2, <2>3, <2>4, <2>5, <2>6, <2>7 DEF Safe
<1>14. CASE Register
  BY <1>14 DEF Register, Safe, Apart, Cleaned, Making, Private, Listing, Resident, Accounted,
               Evicting, Handling
<1>15. CASE Free
  BY <1>15, ZenonT(30) DEF Free, objVars, Safe, Apart, Cleaned, Making, Private, Listing, Resident, Accounted,
               Evicting, Handling
<1>16. CASE FreeNothing
  BY <1>16 DEF FreeNothing, vars, objVars, Safe, Apart, Cleaned, Making, Private, Listing,
               Resident, Accounted, Evicting, Handling
<1>17. CASE EvictRefused
  BY <1>17 DEF EvictRefused, objVars, Safe, Apart, Cleaned, Making, Private, Listing, Resident,
               Accounted, Evicting, Handling
<1>18. CASE Evict
  BY <1>18 DEF Evict, objVars, Safe, Apart, Cleaned, Making, Private, Listing, Resident,
               Accounted, Evicting, Handling
<1>19. CASE EvictClear
  BY <1>19 DEF EvictClear, Safe, Apart, Cleaned, Making, Private, Listing, Resident, Accounted,
               Evicting, Handling
<1>20. CASE Pop
  BY <1>20 DEF Pop, objVars, Safe, Apart, Cleaned, Making, Private, Listing, Resident, Accounted,
               Evicting, Handling
<1>21. CASE IndexError
  BY <1>21 DEF IndexError, objVars, Safe, Apart, Cleaned, Making, Private, Listing, Resident,
               Accounted, Evicting, Handling
<1>22. ASSUME NEW p \in Threads, Unregister(p)
      PROVE  Safe'
  BY <1>22 DEF Unregister, Safe, Apart, Cleaned, Making, Private, Listing, Resident, Accounted,
               Evicting, Handling
<1>23. ASSUME NEW p \in Threads, Close(p)
      PROVE  Safe'
  <2>1. Apart'
    BY <1>23 DEF Close, objVars, Safe, Apart, Evicting
  <2>2. Cleaned'
    BY <1>23 DEF Close, objVars, Safe, Cleaned, Apart, Evicting, Listing
  <2>3. Making'
    BY <1>23 DEF Close, objVars, Safe, Making, Apart, Evicting, Cleaned, Resident
  <2>4. Private'
    BY <1>23 DEF Close, objVars, Safe, Private, Apart, Evicting
  <2>5. Listing'
    BY <1>23 DEF Close, objVars, Safe, Listing, Apart, Evicting, Cleaned, Making, Private
  <2>6. Resident'
    BY <1>23 DEF Close, objVars, Safe, Resident, Apart, Evicting, Cleaned, Making, Private
  <2>7. Accounted'
    BY <1>23 DEF Close, objVars, Safe, Accounted, Handling, Apart, Evicting, Cleaned, Making,
                 Private, Listing
  <2>8. QED
    BY <2>1, <2>2, <2>3, <2>4, <2>5, <2>6, <2>7 DEF Safe
<1>24. ASSUME NEW p \in Threads, Drop(p)
      PROVE  Safe'
  <2>1. Apart'
    BY <1>24 DEF Drop, Safe, Apart, Evicting
  <2>2. Cleaned'
    BY <1>24 DEF Drop, Safe, Cleaned, Apart, Evicting, Listing
  <2>3. Making'
    BY <1>24 DEF Drop, Safe, Making, Apart, Evicting, Cleaned, Resident
  <2>4. Private'
    BY <1>24 DEF Drop, Safe, Private, Apart, Evicting
  <2>5. Listing'
    BY <1>24 DEF Drop, Safe, Listing, Apart, Evicting, Cleaned, Making, Private
  <2>6. Resident'
    BY <1>24 DEF Drop, Safe, Resident, Apart, Evicting, Cleaned, Making, Private
  <2>7. Accounted'
    BY <1>24 DEF Drop, Safe, Accounted, Handling, Apart, Evicting, Cleaned, Making, Private,
                 Listing
  <2>8. QED
    BY <2>1, <2>2, <2>3, <2>4, <2>5, <2>6, <2>7 DEF Safe
<1>25. ASSUME NEW p \in Threads, Clear(p)
      PROVE  Safe'
  BY <1>25 DEF Clear, objVars, Safe, Apart, Cleaned, Making, Private, Listing, Resident,
               Accounted, Evicting, Handling
<1>26. QED
  BY <1>1, <1>2, <1>3, <1>4, <1>5, <1>6, <1>7, <1>8, <1>9, <1>10, <1>11, <1>12, <1>13, <1>14,
     <1>15, <1>16, <1>17, <1>18, <1>19, <1>20, <1>21, <1>22, <1>23, <1>24, <1>25
  DEF Next

LEMMA RacedStays == TypeInv /\ [Next]_vars /\ raced => raced'
  BY DEF TypeInv, TypeOK, Next, vars, Enter, LoadNode, RunNode, UnloadNode, FreeMemory, PopDead,
         Run, LoadAlready, LoadHot, LoadTake, LoadCold, LoadCreate, LoadFails, LoadActivate,
         Register, Free, FreeNothing, EvictRefused, Evict, EvictClear, Pop, IndexError,
         Unregister, Close, Drop, Clear

LEMMA ManagedStays == ManagedInv /\ [Next]_vars => ManagedInv'
<1> SUFFICES ASSUME ManagedInv, [Next]_vars PROVE ManagedInv'
  OBVIOUS
<1>1. CASE UNCHANGED vars
  BY <1>1 DEF vars, objVars, ManagedInv, TypeInv, TypeOK, Created, Safe, Apart, Cleaned, Making,
              Private, Listing, Resident, Accounted, Evicting, Handling
<1>2. CASE Next
  <2>1. TypeInv'
    BY <1>2, TypesStay DEF ManagedInv
  <2>2. ASSUME ~raced' PROVE Safe'
    BY <1>2, <2>2, RacedStays, SafeStays DEF ManagedInv
  <2>3. QED
    BY <2>1, <2>2 DEF ManagedInv
<1>3. QED
  BY <1>1, <1>2

\* Every behaviour has the invariant: every variable has its type, what is listed
\* or worked on was created, and while no free and node are in methods of one
\* object, every place of a load, a cleanup and an eviction has what it relies on.
THEOREM ManagedInvariant == Spec => []ManagedInv
  BY ManagedStarts, ManagedStays, PTL DEF Spec

\* Weights in VRAM belong to one object in ComfyUI's list (core.py:202-204),
\* or a thread is about to put them there or to close them.
THEOREM AccountedHolds == Spec => []Accounted
<1>1. ManagedInv => Accounted
  BY DEF ManagedInv, Safe, Accounted
<1>2. QED
  BY <1>1, ManagedInvariant, PTL

\* Only one model is resident (core.py:176), and between nodes it is the one
\* that the next free or load closes.
THEOREM SingleResidentHolds == Spec => []SingleResident
<1>1. ManagedInv => SingleResident
  BY DEF ManagedInv, Safe, Resident, SingleResident
<1>2. QED
  BY <1>1, ManagedInvariant, PTL

-----------------------------------------------------------------------------
(* A node calls into a closed session only when objects share one *)

\* No two of the objects that were created have one family and path.
KeysApart == \A m, n \in Created : key[m] = key[n] => m = n

\* What a thread drops was closed by it.
Dropping(m) == \E p \in Threads : pc[p] \in {"drop", "evictDrop"} /\ target[p] = m

\* Without the hot path a session belongs to one object, and is open until a
\* cleanup of that object has closed it.
OwnInv ==
    /\ pc[Worker] # "take"
    /\ \A m, n \in Managed : session[m] = session[n] /\ session[m] # Null => m = n
    /\ \A m \in Managed : session[m] \in open \cup {Null} \/ Dropping(m)

LEMMA OwnStarts == Init => OwnInv
  BY DEF Init, OwnInv, Threads, Worker, Loop

\* The steps that close, drop or create nothing.
LEMMA OwnQuiet ==
    ASSUME TypeInv, OwnInv, UNCHANGED <<session, open>>,
           NEW p \in Threads, pc[p] \notin {"drop", "evictDrop"},
           NEW l, pc' = [pc EXCEPT ![p] = l], p = Worker => l # "take",
           \A q \in Threads : q # p => target'[q] = target[q]
    PROVE  OwnInv'
<1>1. \A m \in Managed : Dropping(m) => Dropping(m)'
  BY DEF Dropping, TypeInv, TypeOK
<1>2. pc'[Worker] # "take"
  BY DEF OwnInv, TypeInv, TypeOK, Threads
<1>3. QED
  BY <1>1, <1>2 DEF OwnInv

LEMMA OwnStays == TypeInv /\ OwnInv /\ KeysApart /\ [Next]_vars => OwnInv'
<1> SUFFICES ASSUME TypeInv, OwnInv, KeysApart, [Next]_vars PROVE OwnInv'
  OBVIOUS
<1>0. Worker \in Threads /\ Loop \in Threads /\ Worker # Loop
  BY DEF Threads, Worker, Loop
<1> USE <1>0
<1>1. CASE LoadHot
  <2>1. active \in Created /\ active # self /\ key[active] = key[self]
    BY <1>1 DEF LoadHot, Compatible, TypeInv, TypeOK
  <2>2. self \in Created
    BY <1>1 DEF LoadHot, TypeInv
  <2>3. QED
    BY <2>1, <2>2 DEF KeysApart
<1>2. CASE LoadTake
  BY <1>2 DEF LoadTake, OwnInv
<1>3. CASE LoadCreate
  <2>1. PICK s \in Sessions : /\ \A m \in Managed : session[m] # s
                              /\ session' = [session EXCEPT ![self] = s]
                              /\ open' = open \cup {s}
    BY <1>3 DEF LoadCreate
  <2>2. /\ pc' = [pc EXCEPT ![Worker] = "activate"] /\ target' = target
        /\ pc[Worker] \in {"create", "createToRun"}
    BY <1>3 DEF LoadCreate, Goto
  <2>3. \A m \in Managed : Dropping(m) => Dropping(m)'
    BY <2>2 DEF Dropping, TypeInv, TypeOK
  <2>4. \A m \in Managed : session'[m] = IF m = self THEN s ELSE session[m]
    BY <2>1 DEF TypeInv, TypeOK
  <2>5. pc'[Worker] # "take"
    BY <2>2 DEF TypeInv, TypeOK
  <2>6. QED
    BY <2>1, <2>3, <2>4, <2>5 DEF OwnInv
<1>4. ASSUME NEW p \in Threads, Close(p) PROVE OwnInv'
  <2> DEFINE t == target[p]
  <2>1. /\ pc[p] \in {"close", "evictClose"} /\ open' = open \ {session[t]}
        /\ session' = session /\ target' = target
    BY <1>4 DEF Close, objVars
  <2>2. t \in Managed
    BY <2>1 DEF TypeInv, Created, Threads
  <2>3. PICK l \in {"drop", "evictDrop", "clear", "evictClear"} :
           /\ pc' = [pc EXCEPT ![p] = l]
           /\ session[t] # Null => l \in {"drop", "evictDrop"}
    BY <1>4 DEF Close, Goto
  <2>4. \A m \in Managed : Dropping(m) => Dropping(m)'
    BY <2>1, <2>3 DEF Dropping, TypeInv, TypeOK
  <2>5. session[t] # Null => Dropping(t)'
    BY <2>1, <2>3 DEF Dropping, TypeInv, TypeOK
  <2>6. \A m \in Managed : m # t /\ session[m] \in open => session[m] \in open'
    <3>1. \A s \in open : s # Null
      BY NullAssumption DEF TypeInv, TypeOK
    <3>2. QED
      BY <2>1, <2>2, <3>1 DEF OwnInv
  <2>7. pc'[Worker] # "take"
    BY <2>3 DEF OwnInv, TypeInv, TypeOK
  <2>8. QED
    BY <2>1, <2>4, <2>5, <2>6, <2>7 DEF OwnInv
<1>5. ASSUME NEW p \in Threads, Drop(p) PROVE OwnInv'
  <2> DEFINE t == target[p]
  <2>1. /\ session' = [session EXCEPT ![t] = Null]
        /\ open' = {s \in open : \E m \in Managed : session'[m] = s}
        /\ target' = target
    BY <1>5 DEF Drop
  <2>2. PICK l \in {"clear", "evictClear"} : pc' = [pc EXCEPT ![p] = l]
    BY <1>5 DEF Drop, Goto
  <2>3. \A m \in Managed : m # t /\ Dropping(m) => Dropping(m)'
    BY <2>1, <2>2 DEF Dropping, TypeInv, TypeOK
  <2>4. \A m \in Managed : session'[m] = IF m = t THEN Null ELSE session[m]
    BY <2>1 DEF TypeInv, TypeOK
  <2>5. \A m \in Managed : m # t /\ session[m] \in open => session'[m] \in open'
    BY <2>1, <2>4
  <2>6. pc'[Worker] # "take"
    BY <2>2 DEF OwnInv, TypeInv, TypeOK
  <2>7. QED
    BY <2>3, <2>4, <2>5, <2>6 DEF OwnInv
<1>6. ASSUME UNCHANGED <<session, open>>,
             \E p \in Threads, l \in {"idle", "load", "create", "createToRun", "register", "run",
                                     "unregister", "close", "evict", "evictClose", "pop", "dead"} :
                /\ pc[p] \notin {"drop", "evictDrop"}
                /\ pc' = [pc EXCEPT ![p] = l]
                /\ \A q \in Threads : q # p => target'[q] = target[q]
      PROVE  OwnInv'
  BY <1>6, OwnQuiet
<1>7. CASE UNCHANGED <<session, open, pc, target>>
  BY <1>7 DEF OwnInv, Dropping
<1>8. ASSUME NEW m \in Managed, NEW k \in Keys, LoadNode(m, k) PROVE OwnInv'
  BY <1>6, <1>8 DEF LoadNode, Goto
<1>9. ASSUME NEW m \in Managed, RunNode(m) \/ UnloadNode(m) \/ FreeMemory(m) \/ PopDead(m)
      PROVE  OwnInv'
  <2>1. CASE RunNode(m)
    BY <1>6, <2>1 DEF RunNode, Goto, objVars
  <2>2. CASE UnloadNode(m)
    BY <1>6, <2>2 DEF UnloadNode, Goto, objVars, TypeInv, TypeOK
  <2>3. CASE FreeMemory(m)
    BY <1>6, <2>3 DEF FreeMemory, Goto, objVars, TypeInv, TypeOK
  <2>4. CASE PopDead(m)
    BY <1>7, <2>4 DEF PopDead, objVars
  <2>5. QED
    BY <1>9, <2>1, <2>2, <2>3, <2>4
<1>10. CASE Run \/ LoadFails \/ LoadActivate \/ EvictRefused \/ Evict \/ Pop \/ IndexError
  BY <1>6, <1>10 DEF Run, LoadFails, LoadActivate, EvictRefused, Evict, Pop, IndexError, Goto,
                     objVars
<1>11. CASE LoadAlready \/ Register
  <2>1. then \in {"idle", "run"}
    BY <1>11 DEF LoadAlready, Register, TypeInv
  <2>2. QED
    BY <1>6, <1>11, <2>1 DEF LoadAlready, Register, Goto, objVars
<1>12. CASE LoadCold
  BY <1>6, <1>12 DEF LoadCold, Goto, objVars, TypeInv, TypeOK
<1>13. CASE Free
  BY <1>6, <1>13 DEF Free, Goto, objVars, TypeInv, TypeOK
<1>14. CASE EvictClear
  BY <1>6, <1>14 DEF EvictClear, Goto
<1>15. ASSUME NEW p \in Threads, Unregister(p) PROVE OwnInv'
  BY <1>6, <1>15 DEF Unregister, Goto
<1>16. ASSUME NEW p \in Threads, Clear(p) PROVE OwnInv'
  <2>1. then \in {"idle", "run", "create", "createToRun"}
    BY DEF TypeInv, TypeOK
  <2>2. QED
    BY <1>6, <1>16, <2>1 DEF Clear, Goto, objVars
<1>17. CASE FreeNothing \/ UNCHANGED vars
  BY <1>7, <1>17 DEF FreeNothing, vars, objVars
<1>18. QED
  BY <1>1, <1>2, <1>3, <1>4, <1>5, <1>8, <1>9, <1>10, <1>11, <1>12, <1>13, <1>14, <1>15, <1>16,
     <1>17 DEF Next

\* What core.py:407-408 promises, that a node whose session was freed loads it
\* again, does hold of objects that do not share one: a node runs on a closed
\* session only after the hot path gave it that of another object of the same
\* family and path.  Frees that overlap a node do not matter.
THEOREM OwnSessionOpen == Spec /\ []KeysApart => []NoClosedUse
<1>1. TypeInv /\ OwnInv => NoClosedUse
  <2> SUFFICES ASSUME TypeInv, OwnInv, pc[Worker] = "run", pc[Loop] = "idle"
               PROVE  session[self] \in open \cup {Null}
    BY DEF NoClosedUse
  <2>1. self \in Managed
    BY DEF TypeInv, Created
  <2>2. ~Dropping(self)
    BY DEF Dropping, Threads
  <2>3. QED
    BY <2>1, <2>2 DEF OwnInv
<1>2. QED
  BY <1>1, OwnStarts, OwnStays, ManagedInvariant, PTL DEF Spec, ManagedInv
=============================================================================
