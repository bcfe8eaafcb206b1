--------------------------- MODULE LibraryProofs ---------------------------
(***************************************************************************)
(* What the two libraries under clips_dir keep without a mutex of their    *)
(* own: for any number of request threads, models, clips and ratings, and  *)
(* of voices, references and shapings.                                     *)
(***************************************************************************)
EXTENDS MCLibrary, TLAPS

USE ClockAssumption, NoneAssumption, SlotsAssumption

LEMMA InitIInv == Init => IInv
<1> SUFFICES ASSUME Init PROVE IInv
  OBVIOUS
<1> USE DEF Init, NoJob, NoMeta
<1>1. TypeOK
  BY DEF TypeOK, Job, Meta, Sidecar, NotJson
<1>2. OneHolder /\ FreshName /\ Phases
  BY DEF OneHolder, FreshName, Phases
<1>3. NewestKept /\ Undisturbed
  BY DEF NewestKept, Undisturbed, Shown, Merging
<1>4. QED
  BY <1>1, <1>2, <1>3 DEF IInv

-----------------------------------------------------------------------------
(* Types *)

LEMMA StepTypeOK == TypeOK /\ Phases /\ [Next]_vars => TypeOK'
<1> SUFFICES ASSUME TypeOK, Phases, [Next]_vars PROVE TypeOK'
  OBVIOUS
<1>0. /\ NoJob \in Job /\ NoMeta \in Meta /\ \A t \in Threads : job[t] \in Job
      /\ now \in 0 .. MaxTime
  BY DEF TypeOK, NoJob, NoMeta, Job, Meta
<1>1. ASSUME Tick PROVE TypeOK'
  BY <1>1 DEF Tick, TypeOK
<1>2. ASSUME NEW n \in Names, Delete(n) PROVE TypeOK'
  <2>1. \A t \in Threads : [job[t] EXCEPT !.name = None] \in Job
    BY <1>0 DEF Job
  <2>2. job' \in [Threads -> Job]
    BY <1>0, <1>2, <2>1 DEF Delete
  <2>3. clip' \in [Names -> File \cup {None}]
    BY <1>2 DEF Delete, TypeOK
  <2>4. \A t \in Threads : pc[t] # "write" => job'[t] = job[t]
    BY <1>2 DEF Delete
  <2>5. QED
    BY <1>2, <2>2, <2>3, <2>4 DEF Delete, TypeOK
<1>3. ASSUME NEW t \in Threads, NameClip(t) PROVE TypeOK'
  <2>1. PICK k \in 1 .. MaxSuffix :
          job' = [job EXCEPT ![t].name = <<Timestamp(now), k>>]
    BY <1>3 DEF NameClip
  <2>2. <<Timestamp(now), k>> \in Names
    BY DEF TypeOK, Names
  <2>3. job' = [job EXCEPT ![t] = [job[t] EXCEPT !.name = <<Timestamp(now), k>>]]
    BY <1>0, <2>1 DEF TypeOK
  <2>4. [job[t] EXCEPT !.name = <<Timestamp(now), k>>] \in Job
    BY <1>0, <2>2 DEF Job
  <2>5. job' \in [Threads -> Job] /\ job'[t].name \in Names
    BY <1>0, <2>2, <2>3, <2>4 DEF TypeOK, Job
  <2>6. \A u \in Threads : u # t => job'[u] = job[u]
    BY <2>3 DEF TypeOK
  <2>7. QED
    BY <1>3, <2>5, <2>6 DEF NameClip, Goto, TypeOK
<1>4. ASSUME NEW t \in Threads, Open(t) PROVE TypeOK'
  <2>1. job[t].slot \in File
    BY <1>0, <1>4 DEF Job, File, Open, Phases
  <2>2. clip' \in [Names -> File \cup {None}]
    BY <1>4, <2>1 DEF Open, TypeOK
  <2>3. QED
    BY <1>4, <2>2 DEF Open, Goto, TypeOK
<1>5. ASSUME NEW t \in Threads, Write(t) PROVE TypeOK'
  <2>1. job[t].slot \in File
    BY <1>0, <1>5 DEF Job, File, Write, Phases
  <2>2. clip' \in [Names -> File \cup {None}]
    BY <1>5, <2>1 DEF Write, TypeOK
  <2>3. QED
    BY <1>0, <1>5, <2>2 DEF Write, Done, Goto, TypeOK
<1>6. ASSUME NEW t \in Threads, NEW s \in Slots, Generate(t, s) PROVE TypeOK'
  <2>1. job' = [job EXCEPT ![t] = [job[t] EXCEPT !.slot = s]]
    BY <1>0, <1>6 DEF Generate, TypeOK
  <2>2. [job[t] EXCEPT !.slot = s] \in Job
    BY <1>0 DEF Job
  <2>3. QED
    BY <1>6, <2>1, <2>2 DEF Generate, Goto, TypeOK
<1>7. ASSUME NEW t \in Threads, NEW n \in Names, Upload(t, n) PROVE TypeOK'
  <2>1. job' = [job EXCEPT ![t] = [job[t] EXCEPT !.slot = "upload", !.name = n]]
    BY <1>0, <1>7 DEF Upload, TypeOK
  <2>2. [job[t] EXCEPT !.slot = "upload", !.name = n] \in Job
    BY <1>0 DEF Job
  <2>3. [job[t] EXCEPT !.slot = "upload", !.name = n].name = n
    BY <1>0 DEF Job
  <2>4. QED
    BY <1>7, <2>1, <2>2, <2>3 DEF Upload, Goto, TypeOK
<1>8. ASSUME NEW t \in Threads, NEW n \in Names, NEW r \in Ratings, Rate(t, n, r) PROVE TypeOK'
  <2>1. job' = [job EXCEPT ![t] = [job[t] EXCEPT !.name = n, !.rating = r]]
    BY <1>0, <1>8 DEF Rate, TypeOK
  <2>2. [job[t] EXCEPT !.name = n, !.rating = r] \in Job
    BY <1>0 DEF Job
  <2>3. [job[t] EXCEPT !.name = n, !.rating = r].name = n
    BY <1>0 DEF Job
  <2>4. QED
    BY <1>8, <2>1, <2>2, <2>3 DEF Rate, Goto, TypeOK
<1>9. ASSUME NEW t \in Threads, NEW n \in Names, Score(t, n) PROVE TypeOK'
  <2>1. job' = [job EXCEPT ![t] = [job[t] EXCEPT !.name = n]]
    BY <1>0, <1>9 DEF Score, TypeOK
  <2>2. [job[t] EXCEPT !.name = n] \in Job
    BY <1>0 DEF Job
  <2>3. [job[t] EXCEPT !.name = n].name = n
    BY <1>0 DEF Job
  <2>4. QED
    BY <1>9, <2>1, <2>2, <2>3 DEF Score, Goto, TypeOK
<1>10. ASSUME NEW t \in Threads, Scored(t) PROVE TypeOK'
  <2>1. CASE Done(t)
    BY <1>0, <1>10, <2>1 DEF Scored, Done, Goto, TypeOK
  <2>2. ASSUME NEW x \in Scores, job' = [job EXCEPT ![t].score = x], Goto(t, "read")
        PROVE TypeOK'
    <3>1. job' = [job EXCEPT ![t] = [job[t] EXCEPT !.score = x]]
      BY <1>0, <2>2 DEF TypeOK
    <3>2. [job[t] EXCEPT !.score = x] \in Job
      BY <1>0 DEF Job
    <3>3. [job[t] EXCEPT !.score = x].name = job[t].name /\ job[t].name # None
      BY <1>0, <1>10 DEF Job, Scored, TypeOK
    <3>4. QED
      BY <1>10, <2>2, <3>1, <3>2, <3>3 DEF Scored, Goto, TypeOK
  <2>3. QED
    BY <1>10, <2>1, <2>2 DEF Scored
<1>11. ASSUME NEW t \in Threads, Read(t) PROVE TypeOK'
  <2>1. job[t].name \in Names
    BY <1>0, <1>11 DEF Read, TypeOK, Job
  <2>2. CASE Done(t) /\ UNCHANGED raced
    BY <1>0, <1>11, <2>2 DEF Read, Done, Goto, TypeOK
  <2>3. ASSUME job' = [job EXCEPT ![t].meta = sidecar[job[t].name].meta], Goto(t, "truncate"),
               raced' = raced \cup (IF Merging(job[t].name) = {} THEN {} ELSE {job[t].name})
        PROVE TypeOK'
    <3>1. job' = [job EXCEPT ![t] = [job[t] EXCEPT !.meta = sidecar[job[t].name].meta]]
      BY <1>0, <2>3 DEF TypeOK
    <3>2. [job[t] EXCEPT !.meta = sidecar[job[t].name].meta] \in Job
      <4>1. sidecar[job[t].name].meta \in Meta
        BY <2>1 DEF TypeOK, Sidecar
      <4>2. QED
        BY <1>0, <4>1 DEF Job
    <3>3. [job[t] EXCEPT !.meta = sidecar[job[t].name].meta].name = job[t].name
      BY <1>0 DEF Job
    <3>4. raced' \subseteq Names
      BY <2>1, <2>3 DEF TypeOK
    <3>5. QED
      BY <1>11, <2>1, <2>3, <3>1, <3>2, <3>3, <3>4 DEF Read, Goto, TypeOK
  <2>4. QED
    BY <1>11, <2>2, <2>3 DEF Read
<1>12. ASSUME NEW t \in Threads, Truncate(t) PROVE TypeOK'
  BY <1>0, <1>12 DEF Truncate, Goto, TypeOK, NotJson, Sidecar
<1>13. ASSUME NEW t \in Threads, Flush(t) PROVE TypeOK'
  <2>1. Merged(t) \in Meta
    BY <1>0 DEF Merged, Job, Meta
  <2>2. NotJson("torn") \in Sidecar /\ Json(Merged(t)) \in Sidecar
    BY <1>0, <2>1 DEF NotJson, Json, Sidecar
  <2>3. sidecar' \in [Names -> Sidecar]
    BY <1>13, <2>2 DEF Flush, TypeOK
  <2>4. given' \in [Names -> Meta]
    BY <1>0, <1>13 DEF Flush, TypeOK, Meta, Job
  <2>5. QED
    BY <1>0, <1>13, <2>3, <2>4 DEF Flush, Done, Goto, TypeOK
<1>14. ASSUME NEW t \in Threads, OpenFails(t) PROVE TypeOK'
  BY <1>0, <1>14 DEF OpenFails, Done, Goto, TypeOK
<1>15. CASE UNCHANGED vars
  BY <1>15 DEF vars, TypeOK
<1>16. QED
  BY <1>1, <1>2, <1>3, <1>4, <1>5, <1>6, <1>7, <1>8, <1>9, <1>10, <1>11, <1>12, <1>13, <1>14,
     <1>15 DEF Next

-----------------------------------------------------------------------------
(* Slots and names *)

LEMMA StepPhases == TypeOK /\ Phases /\ [Next]_vars => Phases'
<1> SUFFICES ASSUME TypeOK, Phases, [Next]_vars PROVE Phases'
  OBVIOUS
<1>0. /\ job \in [Threads -> Job] /\ \A t \in Threads : job[t] \in Job
      /\ pc \in [Threads -> {"idle", "name", "open", "write", "scoring", "read", "truncate", "flush"}]
  BY DEF TypeOK
<1> USE <1>0 DEF Phases
<1>1. CASE Tick \/ \E t \in Threads : Open(t) \/ Truncate(t)
  BY <1>1 DEF Tick, Open, Truncate, Goto
<1>2. ASSUME NEW n \in Names, Delete(n) PROVE Phases'
  BY <1>2 DEF Delete, Job
<1>3. ASSUME NEW t \in Threads, NameClip(t) PROVE Phases'
  BY <1>3 DEF NameClip, Goto, Job
<1>4. ASSUME NEW t \in Threads, OpenFails(t) \/ Write(t) \/ Flush(t) PROVE Phases'
  BY <1>4 DEF OpenFails, Write, Flush, Done, Goto, NoJob
<1>5. ASSUME NEW t \in Threads, NEW s \in Slots, Generate(t, s) PROVE Phases'
  BY <1>5 DEF Generate, Goto, Job
<1>6. ASSUME NEW t \in Threads, NEW n \in Names, Upload(t, n) PROVE Phases'
  BY <1>6 DEF Upload, Goto, Job
<1>7. ASSUME NEW t \in Threads, NEW n \in Names, NEW r \in Ratings, Rate(t, n, r) PROVE Phases'
  BY <1>7 DEF Rate, Goto, Job
<1>8. ASSUME NEW t \in Threads, NEW n \in Names, Score(t, n) PROVE Phases'
  BY <1>8 DEF Score, Goto, Job
<1>9. ASSUME NEW t \in Threads, Scored(t) PROVE Phases'
  BY <1>9 DEF Scored, Done, Goto, NoJob, Job
<1>10. ASSUME NEW t \in Threads, Read(t) PROVE Phases'
  BY <1>10 DEF Read, Done, Goto, NoJob, Job
<1>11. CASE UNCHANGED vars
  BY <1>11 DEF vars
<1>12. QED
  BY <1>1, <1>2, <1>3, <1>4, <1>5, <1>6, <1>7, <1>8, <1>9, <1>10, <1>11 DEF Next

\* Only Generate lets a request hold a slot, and only one no other holds.
LEMMA StepSlots ==
  ASSUME TypeOK, [Next]_vars, NEW t \in Threads, job'[t].slot \in Slots
  PROVE  \/ job'[t].slot = job[t].slot
         \/ \E s \in Slots : Generate(t, s) /\ job'[t].slot = s
<1>0. job \in [Threads -> Job] /\ \A u \in Threads : job[u] \in Job
  BY DEF TypeOK
<1> USE <1>0
<1>1. ASSUME NEW u \in Threads, NEW s \in Slots, Generate(u, s)
      PROVE  \/ job'[t].slot = job[t].slot
             \/ Generate(t, s) /\ job'[t].slot = s
  <2>1. u # t => job'[t] = job[t]
    BY <1>1 DEF Generate
  <2>2. u = t => job'[t].slot = s
    BY <1>1 DEF Generate, Job
  <2>3. QED
    BY <1>1, <2>1, <2>2
<1>2. CASE \E u \in Threads, n \in Names : Upload(u, n) \/ Score(u, n) \/ \E r \in Ratings : Rate(u, n, r)
  BY <1>2 DEF Upload, Score, Rate, Job
<1>3. ASSUME NEW u \in Threads, NameClip(u) \/ Scored(u) \/ Read(u)
      PROVE  job'[t].slot = job[t].slot
  <2>1. CASE NameClip(u)
    BY <2>1 DEF NameClip, Job
  <2>2. CASE Scored(u)
    BY <2>2 DEF Scored, Done, NoJob, Job
  <2>3. CASE Read(u)
    BY <2>3 DEF Read, Done, NoJob, Job
  <2>4. QED
    BY <1>3, <2>1, <2>2, <2>3
<1>4. CASE \E u \in Threads : Open(u) \/ OpenFails(u) \/ Write(u) \/ Truncate(u) \/ Flush(u)
  BY <1>4 DEF Open, OpenFails, Write, Truncate, Flush, Done, NoJob
<1>5. CASE \E n \in Names : Delete(n)
  BY <1>5 DEF Delete, Job
<1>6. CASE Tick \/ UNCHANGED vars
  BY <1>6 DEF Tick, vars
<1>7. QED
  BY <1>1, <1>2, <1>3, <1>4, <1>5, <1>6 DEF Next

LEMMA StepOneHolder == TypeOK /\ OneHolder /\ [Next]_vars => OneHolder'
<1> SUFFICES ASSUME TypeOK, OneHolder, [Next]_vars,
                    NEW t \in Threads, NEW u \in Threads, t # u,
                    job'[t].slot \in Slots, job'[u].slot = job'[t].slot
             PROVE  FALSE
  BY DEF OneHolder
<1>1. ASSUME NEW x \in Threads, NEW s \in Slots, Generate(x, s), NEW y \in Threads, y # x,
             job'[y].slot = s
      PROVE  FALSE
  BY <1>1 DEF Generate, TypeOK
<1>2. \/ job'[t].slot = job[t].slot
      \/ \E s \in Slots : Generate(t, s) /\ job'[t].slot = s
  BY StepSlots
<1>3. \/ job'[u].slot = job[u].slot
      \/ \E s \in Slots : Generate(u, s) /\ job'[u].slot = s
  BY StepSlots
<1>4. QED
  BY <1>1, <1>2, <1>3 DEF OneHolder

LEMMA StepFreshName ==
  TypeOK /\ Phases /\ OneHolder /\ FreshName /\ [Next]_vars => FreshName'
<1> SUFFICES ASSUME TypeOK, Phases, OneHolder, FreshName, [Next]_vars,
                    NEW t \in Threads, pc'[t] = "open", job'[t].slot # "upload",
                    clip'[job'[t].name] # None
             PROVE  clip'[job'[t].name] # job'[t].slot
  BY DEF FreshName
<1>0. /\ job \in [Threads -> Job] /\ \A u \in Threads : job[u] \in Job
      /\ pc \in [Threads -> {"idle", "name", "open", "write", "scoring", "read", "truncate", "flush"}]
      /\ clip \in [Names -> File \cup {None}]
  BY DEF TypeOK
<1> USE <1>0
<1>1. CASE NameClip(t)
  BY <1>1 DEF NameClip, Job
<1>2. ASSUME NEW u \in Threads, Open(u) \/ Write(u) PROVE clip'[job'[t].name] # job'[t].slot
  <2>1. u # t /\ pc[t] = "open" /\ job'[t] = job[t]
    BY <1>2 DEF Open, Write, Goto, Done, NoJob
  <2>2. job[t].slot \in Slots /\ job[u].slot # None /\ job[t].name \in Names
    BY <1>2, <2>1 DEF Phases, TypeOK, Job, Open, Write
  <2>3. job[u].slot # job[t].slot
    BY <2>1, <2>2 DEF OneHolder
  <2>4. CASE job[u].name = job[t].name
    <3>1. clip'[job[t].name] \in {clip[job[t].name], job[u].slot}
      BY <1>2, <2>2, <2>4 DEF Open, Write
    <3>2. QED
      BY <2>1, <2>3, <3>1 DEF FreshName
  <2>5. CASE job[u].name # job[t].name
    <3>1. clip'[job[t].name] = clip[job[t].name]
      BY <1>2, <2>2, <2>5 DEF Open, Write
    <3>2. QED
      BY <2>1, <3>1 DEF FreshName
  <2>6. QED
    BY <2>4, <2>5
<1>3. ASSUME NEW n \in Names, Delete(n) PROVE clip'[job'[t].name] # job'[t].slot
  <2>1. pc[t] = "open" /\ job'[t] = job[t]
    BY <1>3 DEF Delete
  <2>2. QED
    BY <1>3, <2>1 DEF Delete, FreshName, TypeOK, Job
<1>4. CASE \E u \in Threads : u # t /\ NameClip(u)
  BY <1>4 DEF NameClip, Goto, FreshName
<1>5. CASE \E u \in Threads, n \in Names : Upload(u, n)
  BY <1>5 DEF Upload, Goto, FreshName, Job
<1>6. CASE \E u \in Threads, s \in Slots : Generate(u, s)
  BY <1>6 DEF Generate, Goto, FreshName
<1>7. CASE \E u \in Threads, n \in Names : Score(u, n) \/ \E r \in Ratings : Rate(u, n, r)
  BY <1>7 DEF Score, Rate, Goto, FreshName
<1>8. CASE \E u \in Threads : OpenFails(u) \/ Scored(u) \/ Read(u) \/ Truncate(u) \/ Flush(u)
  BY <1>8 DEF OpenFails, Scored, Read, Truncate, Flush, Done, Goto, FreshName
<1>9. CASE Tick \/ UNCHANGED vars
  BY <1>9 DEF Tick, vars, FreshName
<1>10. QED
  BY <1>1, <1>2, <1>3, <1>4, <1>5, <1>6, <1>7, <1>8, <1>9 DEF Next

-----------------------------------------------------------------------------
(* Sidecars *)

\* A step that leaves the sidecars and the requests that merge alone.
LEMMA Quiet ==
  ASSUME NewestKept, Undisturbed, UNCHANGED <<sidecar, given, raced>>,
         \A t \in Threads :
           \/ UNCHANGED <<pc[t], job[t]>>
           \/ pc[t] \notin {"truncate", "flush"} /\ pc'[t] \notin {"truncate", "flush"}
  PROVE  NewestKept' /\ Undisturbed'
<1>1. \A n \in Names : Merging(n)' = Merging(n)
  BY DEF Merging
<1>2. NewestKept'
  BY <1>1 DEF NewestKept, Shown
<1>3. Undisturbed'
  BY <1>1 DEF Undisturbed, Merging, Shown
<1>4. QED
  BY <1>2, <1>3

LEMMA StepSidecars ==
  TypeOK /\ Phases /\ NewestKept /\ Undisturbed /\ [Next]_vars => NewestKept' /\ Undisturbed'
<1> SUFFICES ASSUME TypeOK, Phases, NewestKept, Undisturbed, [Next]_vars
             PROVE  NewestKept' /\ Undisturbed'
  OBVIOUS
<1>0. /\ job \in [Threads -> Job] /\ \A u \in Threads : job[u] \in Job
      /\ pc \in [Threads -> {"idle", "name", "open", "write", "scoring", "read", "truncate", "flush"}]
      /\ sidecar \in [Names -> Sidecar] /\ given \in [Names -> Meta]
  BY DEF TypeOK
<1> USE <1>0
<1>1. CASE Tick \/ UNCHANGED vars
  BY <1>1, Quiet DEF Tick, vars
<1>2. ASSUME NEW n \in Names, Delete(n) PROVE NewestKept' /\ Undisturbed'
  <2>1. \A t \in Threads : pc[t] # "write" => UNCHANGED <<pc[t], job[t]>>
    BY <1>2 DEF Delete
  <2>2. UNCHANGED pc
    BY <1>2 DEF Delete
  <2>3. QED
    BY <1>2, <2>1, <2>2, Quiet DEF Delete
<1>3. ASSUME NEW t \in Threads,
             \/ NameClip(t) \/ Open(t) \/ OpenFails(t) \/ Write(t) \/ Scored(t)
             \/ \E s \in Slots : Generate(t, s)
             \/ \E n \in Names : Upload(t, n) \/ Score(t, n) \/ \E r \in Ratings : Rate(t, n, r)
      PROVE NewestKept' /\ Undisturbed'
  <2>1. UNCHANGED <<sidecar, given, raced>>
    BY <1>3 DEF NameClip, Open, OpenFails, Write, Scored, Generate, Upload, Score, Rate
  <2>2. \A u \in Threads : u # t => UNCHANGED <<pc[u], job[u]>>
    BY <1>3 DEF NameClip, Open, OpenFails, Write, Scored, Generate, Upload, Score, Rate, Goto, Done
  <2>3. pc[t] \notin {"truncate", "flush"} /\ pc'[t] \notin {"truncate", "flush"}
    BY <1>3 DEF NameClip, Open, OpenFails, Write, Scored, Generate, Upload, Score, Rate, Goto, Done
  <2>4. QED
    BY <2>1, <2>2, <2>3, Quiet
<1>4. ASSUME NEW t \in Threads, Read(t) PROVE NewestKept' /\ Undisturbed'
  <2> DEFINE n == job[t].name
  <2>0. n \in Names /\ pc[t] = "read"
    BY <1>4 DEF Read, TypeOK, Job
  <2>1. CASE Done(t) /\ UNCHANGED raced
    <3>1. \A u \in Threads : u # t => UNCHANGED <<pc[u], job[u]>>
      BY <2>1 DEF Done, Goto
    <3>2. pc'[t] = "idle"
      BY <2>1 DEF Done, Goto
    <3>3. QED
      BY <1>4, <2>0, <2>1, <3>1, <3>2, Quiet DEF Read
  <2>2. ASSUME sidecar[n].text \in {"none", "json"},
               job' = [job EXCEPT ![t].meta = sidecar[n].meta], Goto(t, "truncate"),
               raced' = raced \cup (IF Merging(n) = {} THEN {} ELSE {n})
        PROVE  NewestKept' /\ Undisturbed'
    <3>1. UNCHANGED <<sidecar, given>>
      BY <1>4 DEF Read
    <3>2. \A u \in Threads : job'[u].name = job[u].name /\ (u # t => UNCHANGED <<pc[u], job[u]>>)
      BY <2>2 DEF Goto, Job
    <3>3. pc'[t] = "truncate" /\ job'[t].meta = sidecar[n].meta
      BY <2>2 DEF Goto, Job
    <3>4. \A m \in Names : Merging(m)' = IF m = n THEN Merging(n) \cup {t} ELSE Merging(m)
      BY <2>0, <3>2, <3>3 DEF Merging
    <3>5. NewestKept'
      BY <2>2, <3>1, <3>4 DEF NewestKept, Shown
    <3>6. ASSUME NEW m \in Names \ raced', NEW u \in Merging(m)'
          PROVE  /\ Merging(m)' = {u}
                 /\ job'[u].meta = given[m]
                 /\ sidecar[m] = IF pc'[u] = "truncate" THEN Shown(given[m]) ELSE NotJson("empty")
      <4>1. CASE m # n
        <5>1. u # t /\ u \in Merging(m) /\ Merging(m)' = Merging(m) /\ m \notin raced
          BY <2>0, <2>2, <3>4, <3>6, <4>1 DEF Merging
        <5>2. QED
          BY <3>2, <3>6, <4>1, <5>1 DEF Undisturbed, Merging
      <4>2. CASE m = n
        <5>1. m \notin raced /\ Merging(m) = {}
          BY <2>2, <3>6, <4>2
        <5>2. sidecar[m] = Shown(given[m])
          BY <5>1 DEF NewestKept
        <5>3. sidecar[m].meta = given[m]
          BY <5>2 DEF Shown, NotJson, Json, Meta
        <5>4. Merging(m)' = {t} /\ u = t
          BY <3>4, <3>6, <4>2, <5>1
        <5>5. QED
          BY <3>3, <4>2, <5>2, <5>3, <5>4
      <4>3. QED
        BY <4>1, <4>2
    <3>7. Undisturbed'
      BY <3>1, <3>6 DEF Undisturbed, Shown
    <3>8. QED
      BY <3>5, <3>7
  <2>3. QED
    BY <1>4, <2>1, <2>2 DEF Read
<1>5. ASSUME NEW t \in Threads, Truncate(t) PROVE NewestKept' /\ Undisturbed'
  <2> DEFINE n == job[t].name
  <2>1. n \in Names /\ pc[t] = "truncate" /\ pc'[t] = "flush"
    BY <1>5 DEF Truncate, Goto, TypeOK, Job
  <2>2. UNCHANGED <<job, given, raced>> /\ \A u \in Threads : u # t => pc'[u] = pc[u]
    BY <1>5 DEF Truncate, Goto
  <2>3. \A m \in Names : Merging(m)' = Merging(m) /\ (m # n => sidecar'[m] = sidecar[m])
    BY <1>5, <2>1, <2>2 DEF Merging, Truncate
  <2>4. t \in Merging(n) /\ sidecar'[n] = NotJson("empty")
    BY <1>5, <2>1 DEF Merging, Truncate
  <2>5. NewestKept'
    BY <2>2, <2>3, <2>4 DEF NewestKept, Shown
  <2>6. ASSUME NEW m \in Names \ raced, NEW u \in Merging(m)
        PROVE  /\ Merging(m) = {u}
               /\ job[u].meta = given[m]
               /\ sidecar'[m] = IF pc'[u] = "truncate" THEN Shown(given[m]) ELSE NotJson("empty")
    <3>1. Merging(m) = {u} /\ job[u].meta = given[m]
      BY <2>6 DEF Undisturbed
    <3>2. CASE m = n
      BY <2>1, <2>4, <3>1, <3>2
    <3>3. CASE m # n
      <4>1. u # t
        BY <2>6, <3>3 DEF Merging
      <4>2. QED
        BY <2>2, <2>3, <2>6, <3>1, <3>3, <4>1 DEF Undisturbed, Merging
    <3>4. QED
      BY <3>2, <3>3, <3>1
  <2>7. Undisturbed'
    BY <2>2, <2>3, <2>6 DEF Undisturbed, Shown
  <2>8. QED
    BY <2>5, <2>7
<1>6. ASSUME NEW t \in Threads, Flush(t) PROVE NewestKept' /\ Undisturbed'
  <2> DEFINE n == job[t].name
  <2>1. n \in Names /\ pc[t] = "flush" /\ pc'[t] = "idle"
    BY <1>6 DEF Flush, Done, Goto, TypeOK, Job
  <2>2. UNCHANGED raced /\ \A u \in Threads : u # t => UNCHANGED <<pc[u], job[u]>>
    BY <1>6 DEF Flush, Done, Goto
  <2>3. \A m \in Names : Merging(m)' = Merging(m) \ {t}
    BY <2>1, <2>2 DEF Merging
  <2>4. \A m \in Names : m # n => t \notin Merging(m) /\ sidecar'[m] = sidecar[m] /\ given'[m] = given[m]
    BY <1>6, <2>1 DEF Merging, Flush
  <2>5. ASSUME n \notin raced PROVE Merging(n) = {t} /\ sidecar'[n] = Shown(given'[n])
    <3>1. t \in Merging(n)
      BY <2>1 DEF Merging
    <3>2. Merging(n) = {t} /\ job[t].meta = given[n] /\ sidecar[n] = NotJson("empty")
      BY <2>1, <2>5, <3>1 DEF Undisturbed
    <3>3. given'[n] = Merged(t)
      BY <1>6, <2>1, <3>2 DEF Flush, Merged
    <3>4. Merged(t) # NoMeta
      BY <2>1 DEF Merged, Phases, NoMeta
    <3>5. sidecar[n].text = "empty" /\ Size(sidecar[n].meta) = 0
      BY <3>2 DEF NotJson, NoMeta, Size
    <3>6. Size(Merged(t)) \in Nat
      BY DEF Size
    <3>7. sidecar'[n] = Json(Merged(t))
      BY <1>6, <2>1, <3>5, <3>6 DEF Flush
    <3>8. QED
      BY <3>2, <3>3, <3>4, <3>7 DEF Shown
  <2>6. NewestKept'
    <3>1. ASSUME NEW m \in Names \ raced', Merging(m)' = {} PROVE sidecar'[m] = Shown(given'[m])
      <4>1. CASE m = n
        BY <2>2, <2>5, <3>1, <4>1
      <4>2. CASE m # n
        BY <2>2, <2>3, <2>4, <3>1, <4>2 DEF NewestKept
      <4>3. QED
        BY <4>1, <4>2
    <3>2. QED
      BY <3>1 DEF NewestKept, Shown
  <2>7. ASSUME NEW m \in Names \ raced', NEW u \in Merging(m)'
        PROVE  /\ Merging(m)' = {u}
               /\ job'[u].meta = given'[m]
               /\ sidecar'[m] = IF pc'[u] = "truncate" THEN Shown(given'[m]) ELSE NotJson("empty")
    <3>1. m # n
      BY <2>2, <2>3, <2>5, <2>7
    <3>2. u # t /\ u \in Merging(m) /\ Merging(m)' = Merging(m) /\ u \in Threads
      BY <2>3, <2>4, <2>7, <3>1 DEF Merging
    <3>3. QED
      BY <2>2, <2>4, <2>7, <3>1, <3>2 DEF Undisturbed
  <2>8. Undisturbed'
    BY <2>7 DEF Undisturbed, Shown
  <2>9. QED
    BY <2>6, <2>8
<1>7. QED
  BY <1>1, <1>2, <1>3, <1>4, <1>5, <1>6 DEF Next

-----------------------------------------------------------------------------
\* Every reachable state of the clips library satisfies the invariant, for any
\* number of threads, models and clips.
THEOREM Invariant == Spec => []IInv
<1>1. IInv /\ [Next]_vars => IInv'
  BY StepTypeOK, StepPhases, StepOneHolder, StepFreshName, StepSidecars DEF IInv
<1>2. QED
  BY InitIInv, <1>1, PTL DEF Spec

\* The clip handlers' variables keep their types.
THEOREM TypeCorrect == Spec => []TypeOK
<1>1. IInv => TypeOK
  BY DEF IInv
<1>2. QED
  BY Invariant, <1>1, PTL

\* An undisturbed sidecar holds the newest rating and score answered with ok:
\* POST /v1/clips/rate and /v1/clips/score keep each other's fields.
THEOREM SidecarsNewest == Spec => []NewestKept
<1>1. IInv => NewestKept
  BY DEF IInv
<1>2. QED
  BY Invariant, <1>1, PTL

\* No save overwrites a clip its own slot saved: the slot's mutex makes
\* unique_clip_path and the opening of the file one step among its requests.
THEOREM OwnClips == Spec => OwnClipsKept
<1> DEFINE Kept == \A t \in Threads : Saves(t) /\ clip[job[t].name] # None =>
                     clip[job[t].name] # job[t].slot
<1>1. IInv => [Kept]_vars
  BY DEF IInv, FreshName, Saves
<1>2. QED
  BY Invariant, <1>1, PTL DEF OwnClipsKept

\* At most one request is between its reading of a sidecar and its writing it
\* back.
MergedApart == \A n \in Names : \A t, u \in Merging(n) : t = u

Unraced == raced = {}

LEMMA RacedNever ==
  TypeOK /\ Unraced /\ MergedApart' /\ [Next]_vars => Unraced'
<1> SUFFICES ASSUME TypeOK, Unraced, MergedApart', [Next]_vars PROVE raced' = {}
  BY DEF Unraced
<1>1. ASSUME NEW t \in Threads, Read(t) PROVE raced' = {}
  <2>1. PICK n \in Names : n = job[t].name /\ pc[t] = "read"
    BY <1>1 DEF Read, TypeOK, Job
  <2>2. CASE Done(t) /\ UNCHANGED raced
    BY <2>2 DEF Unraced
  <2>3. CASE /\ job' = [job EXCEPT ![t].meta = sidecar[n].meta] /\ Goto(t, "truncate")
             /\ raced' = raced \cup (IF Merging(n) = {} THEN {} ELSE {n})
    <3>1. \A u \in Threads : job'[u].name = job[u].name
      BY <2>3 DEF TypeOK, Job
    <3>2. pc'[t] = "truncate" /\ \A u \in Threads : u # t => pc'[u] = pc[u]
      BY <2>3 DEF TypeOK, Goto
    <3>3. t \in Merging(n)' /\ \A u \in Merging(n) : u # t /\ u \in Merging(n)'
      BY <2>1, <3>1, <3>2 DEF Merging
    <3>4. \A u, v \in Merging(n)' : u = v
      BY DEF MergedApart
    <3>5. Merging(n) = {}
      BY <3>3, <3>4
    <3>6. QED
      BY <2>3, <3>5 DEF Unraced
  <2>4. QED
    BY <1>1, <2>1, <2>2, <2>3 DEF Read
<1>2. CASE UNCHANGED raced
  BY <1>2 DEF Unraced
<1>3. QED
  BY <1>1, <1>2
  DEF Next, vars, Tick, Delete, NameClip, Open, OpenFails, Write, Scored, Truncate, Flush,
      Generate, Upload, Score, Rate

\* "Merge into the existing sidecar (preserve score fields)", server.cpp:1570,
\* does hold while no two requests merge into one sidecar at once: a score is
\* lost through such an overlap only, never through a deletion, a scoring that
\* fails or the order of ratings and scores.
THEOREM ScoresPreserved == Spec /\ []MergedApart => []ScorePreserved
<1>1. Init => Unraced
  BY DEF Init, Unraced
<1>2. ASSUME IInv, Unraced, NEW n \in Names, Merging(n) = {}, given[n].score # None
      PROVE  sidecar[n].meta.score # None
  <2>1. sidecar[n] = Shown(given[n])
    BY <1>2 DEF IInv, NewestKept, Unraced
  <2>2. given[n] # NoMeta
    BY <1>2 DEF NoMeta
  <2>3. sidecar[n].meta = given[n]
    BY <2>1, <2>2 DEF Shown, Json
  <2>4. QED
    BY <1>2, <2>3
<1>3. IInv => TypeOK
  BY DEF IInv
<1>4. IInv /\ Unraced => ScorePreserved
  BY <1>2 DEF ScorePreserved
<1>5. QED
  BY <1>1, <1>3, <1>4, RacedNever, Invariant, PTL DEF Spec

-----------------------------------------------------------------------------
(* The voices *)

\* A request that ends with an error.
Quit(c) ==
    /\ \E from \in {"load", "create", "encode", "name"} : Leave(c, from)
    /\ UNCHANGED <<voice, shape, seq, temp, saved, clash>>

\* The steps of a request that goes on.
LoadOn(c, n) ==
    /\ Step(c, "load", "load") /\ n \in work[c].loads
    /\ \E need \in {"all", "some", "met"} :
         work' = [work EXCEPT ![c] = [@ EXCEPT !.loads = work[c].loads \ {n}, !.need = need]]
    /\ UNCHANGED <<voice, shape, seq, temp, saved, clash>>

MixOn(c) ==
    /\ Step(c, "load", "create")
    /\ work' = [work EXCEPT ![c] = [@ EXCEPT !.need = "all"]]
    /\ UNCHANGED <<voice, shape, seq, temp, saved, clash>>

CreateOn(c) ==
    /\ Step(c, "create", "fill")
    /\ voice' = [voice EXCEPT ![work[c].out] = "empty"]
    /\ UNCHANGED <<shape, seq, temp, work, saved, clash>>


EncodeOn(c) ==
    /\ Step(c, "encode", "name")
    /\ work' = [work EXCEPT ![c] = [@ EXCEPT !.seq = 0, !.of = temp[work[c].seq]]]
    /\ UNCHANGED <<voice, shape, seq, temp, saved, clash>>

NameOn(c, n) ==
    /\ Step(c, "name", "create")
    /\ work' = [work EXCEPT ![c] = [@ EXCEPT !.out = n, !.of = "none"]]
    /\ UNCHANGED <<voice, shape, seq, temp, saved, clash>>

LEMMA Locals ==
    ASSUME NEW w \in Work
    PROVE  /\ w.out \in Voices \cup {"none"} /\ w.loads \in SUBSET Voices
           /\ w.need \in {"all", "some", "met"} /\ w.shape \in Shapes \cup {0}
           /\ w.seq \in 0 .. MaxSeq /\ w.of \in Callers \cup {"none"}
           /\ \A o \in Voices \cup {"none"} : [w EXCEPT !.out = o] \in Work
           /\ \A o \in Voices : [w EXCEPT !.out = o, !.of = "none"] \in Work
           /\ \A o \in Voices, s \in Shapes : [w EXCEPT !.out = o, !.shape = s] \in Work
           /\ \A o \in Voices, from \in SUBSET Voices, need \in {"all", "some", "met"} :
                [w EXCEPT !.out = o, !.loads = from, !.need = need] \in Work
           /\ \A from \in SUBSET Voices, need \in {"all", "some", "met"} :
                [w EXCEPT !.loads = from, !.need = need] \in Work
           /\ [w EXCEPT !.need = "all"] \in Work
           /\ \A k \in 0 .. MaxSeq : [w EXCEPT !.seq = k] \in Work
           /\ \A k \in 0 .. MaxSeq, o \in Callers \cup {"none"} : [w EXCEPT !.seq = k, !.of = o] \in Work
           /\ \A n \in Voices : w.loads \ {n} \in SUBSET Voices
           /\ 0 \in 0 .. MaxSeq
<1>1. 0 \in 0 .. MaxSeq
  BY ShapesAssumption
<1>2. QED
  BY <1>1 DEF Work

LEMMA FreeLocals == Free \in Work
<1>1. 0 \in 0 .. MaxSeq
  BY ShapesAssumption
<1>2. QED
  BY <1>1 DEF Work, Free


\* A step is a deletion or a step of one request.
LEMMA VoiceSteps ==
    ASSUME VoiceTypeOK, VoiceNext
    PROVE  \/ \E n \in Voices : DeleteVoice(n) \/ DeleteShape(n)
           \/ \E c \in Callers :
                 \/ Quit(c) \/ MixOn(c) \/ CreateOn(c) \/ Fill(c) \/ PutDone(c)
                 \/ Draw(c) \/ Drawn(c) \/ WriteTemp(c) \/ EncodeOn(c)
                 \/ \E n \in Voices :
                       \/ UploadVoice(c, n) \/ LoadOn(c, n) \/ NameOn(c, n)
                       \/ \E from \in SUBSET Voices, need \in {"all", "some"} : Make(c, from, need, n)
                       \/ \E s \in Shapes : PutShape(c, n, s)
<1>1. \A a, b \in Voices : {a, b} \in SUBSET Voices /\ {a} \cup {b} \in SUBSET Voices
  OBVIOUS
<1>2. ASSUME NEW c \in Callers, Mix(c) PROVE MixOn(c) \/ Quit(c)
  BY <1>2 DEF Mix, MixOn, Quit
<1>3. ASSUME NEW c \in Callers, Create(c) PROVE CreateOn(c) \/ Quit(c)
  BY <1>3 DEF Create, CreateOn, Quit
<1>4. ASSUME NEW c \in Callers, Encode(c) PROVE EncodeOn(c) \/ Quit(c)
  BY <1>4 DEF Encode, EncodeOn, Quit
<1>5. ASSUME NEW c \in Callers, Name(c) PROVE (\E n \in Voices : NameOn(c, n)) \/ Quit(c)
  BY <1>5 DEF Name, NameOn, Quit
<1>6. ASSUME NEW c \in Callers, NEW n \in Voices, LoadVoice(c, n)
      PROVE  LoadOn(c, n) \/ Quit(c)
  <2>1. CASE voice[n] # "whole" /\ work[c].need = "all"
    BY <1>6, <2>1 DEF LoadVoice, Quit
  <2>2. CASE ~(voice[n] # "whole" /\ work[c].need = "all")
    <3> DEFINE need == IF work[c].need = "some" /\ voice[n] = "whole" THEN "met" ELSE work[c].need
    <3>1. work[c] \in Work
      BY DEF VoiceTypeOK
    <3>2. work' = [work EXCEPT ![c] = [@ EXCEPT !.loads = work[c].loads \ {n}, !.need = need]]
      BY <1>6, <2>2 DEF LoadVoice
    <3>3. need \in {"all", "some", "met"}
      BY <3>1, Locals
    <3> HIDE DEF need
    <3>4. QED
      BY <1>6, <2>2, <3>2, <3>3 DEF LoadVoice, LoadOn
  <2>3. QED
    BY <2>1, <2>2
<1>7. ASSUME NEW c \in Callers, NEW n \in Voices, NEW a \in Voices, NEW b \in Voices,
             Blend(c, a, b, n) \/ Shift(c, a, b, n) \/ DiscoverDirection(c, {a}, {b}, n)
      PROVE  \E from \in SUBSET Voices, need \in {"all", "some"} : Make(c, from, need, n)
  BY <1>1, <1>7 DEF Blend, Shift, DiscoverDirection
<1>8. QED
  BY <1>2, <1>3, <1>4, <1>5, <1>6, <1>7 DEF VoiceNext

LEMMA VoiceTypesStay ==
    ASSUME VoiceTypeOK, Placed, VoiceNext PROVE VoiceTypeOK'
<1>1. ASSUME NEW c \in Callers, Quit(c) PROVE VoiceTypeOK'
  <2>1. voice' \in [Voices -> {"none", "empty", "whole", "short"}] /\ saved' \in [Voices -> Shapes \cup {0}]
    BY <1>1 DEF VoiceTypeOK, Quit
  <2>2. shape' \in [Voices -> [text : {"none", "empty", "torn", "json"}, is : Shapes \cup {0}]]
    BY <1>1 DEF VoiceTypeOK, Quit
  <2>3. seq' \in 0 .. MaxSeq /\ temp' \in [0 .. MaxSeq -> Callers \cup {"none"}]
    BY <1>1 DEF VoiceTypeOK, Quit
  <2>4. at' \in [Callers -> {"idle", "load", "create", "fill", "draw", "temp", "encode", "name", "put"}]
    BY <1>1 DEF VoiceTypeOK, At, Step, Quit, Leave
  <2>5. clash' \subseteq Voices \cup {"seq"}
    BY <1>1 DEF VoiceTypeOK, At, Step, Quit, Leave
  <2>6. work' \in [Callers -> Work]
    BY <1>1, Locals, FreeLocals DEF VoiceTypeOK, Quit, Leave
  <2>7. QED
    BY <2>1, <2>2, <2>3, <2>4, <2>5, <2>6 DEF VoiceTypeOK
<1>2. ASSUME NEW c \in Callers, MixOn(c) PROVE VoiceTypeOK'
  <2>1. voice' \in [Voices -> {"none", "empty", "whole", "short"}] /\ saved' \in [Voices -> Shapes \cup {0}]
    BY <1>2 DEF VoiceTypeOK, MixOn
  <2>2. shape' \in [Voices -> [text : {"none", "empty", "torn", "json"}, is : Shapes \cup {0}]]
    BY <1>2 DEF VoiceTypeOK, MixOn
  <2>3. seq' \in 0 .. MaxSeq /\ temp' \in [0 .. MaxSeq -> Callers \cup {"none"}]
    BY <1>2 DEF VoiceTypeOK, MixOn
  <2>4. at' \in [Callers -> {"idle", "load", "create", "fill", "draw", "temp", "encode", "name", "put"}]
    BY <1>2 DEF VoiceTypeOK, At, Step, MixOn
  <2>5. clash' \subseteq Voices \cup {"seq"}
    BY <1>2 DEF VoiceTypeOK, At, Step, MixOn
  <2>6. work' \in [Callers -> Work]
    BY <1>2, Locals DEF VoiceTypeOK, MixOn
  <2>7. QED
    BY <2>1, <2>2, <2>3, <2>4, <2>5, <2>6 DEF VoiceTypeOK
<1>3. ASSUME NEW c \in Callers, CreateOn(c) PROVE VoiceTypeOK'
  <2>1. voice' \in [Voices -> {"none", "empty", "whole", "short"}] /\ saved' \in [Voices -> Shapes \cup {0}]
    BY <1>3 DEF VoiceTypeOK, CreateOn
  <2>2. shape' \in [Voices -> [text : {"none", "empty", "torn", "json"}, is : Shapes \cup {0}]]
    BY <1>3 DEF VoiceTypeOK, CreateOn
  <2>3. seq' \in 0 .. MaxSeq /\ temp' \in [0 .. MaxSeq -> Callers \cup {"none"}]
    BY <1>3 DEF VoiceTypeOK, CreateOn
  <2>4. at' \in [Callers -> {"idle", "load", "create", "fill", "draw", "temp", "encode", "name", "put"}]
    BY <1>3 DEF VoiceTypeOK, At, Step, CreateOn
  <2>5. clash' \subseteq Voices \cup {"seq"}
    BY <1>3 DEF VoiceTypeOK, At, Step, CreateOn
  <2>6. work' \in [Callers -> Work]
    BY <1>3, Locals DEF VoiceTypeOK, CreateOn
  <2>7. QED
    BY <2>1, <2>2, <2>3, <2>4, <2>5, <2>6 DEF VoiceTypeOK
<1>4. ASSUME NEW c \in Callers, Fill(c) PROVE VoiceTypeOK'
  <2>1. voice' \in [Voices -> {"none", "empty", "whole", "short"}] /\ saved' \in [Voices -> Shapes \cup {0}]
    BY <1>4 DEF VoiceTypeOK, Fill
  <2>2. shape' \in [Voices -> [text : {"none", "empty", "torn", "json"}, is : Shapes \cup {0}]]
    BY <1>4 DEF VoiceTypeOK, Fill
  <2>3. seq' \in 0 .. MaxSeq /\ temp' \in [0 .. MaxSeq -> Callers \cup {"none"}]
    BY <1>4 DEF VoiceTypeOK, Fill
  <2>4. at' \in [Callers -> {"idle", "load", "create", "fill", "draw", "temp", "encode", "name", "put"}]
    BY <1>4 DEF VoiceTypeOK, At, Step, Fill, Leave
  <2>5. clash' \subseteq Voices \cup {"seq"}
    BY <1>4 DEF VoiceTypeOK, At, Step, Fill, Leave
  <2>6. work' \in [Callers -> Work]
    BY <1>4, Locals, FreeLocals DEF VoiceTypeOK, Fill, Leave
  <2>7. QED
    BY <2>1, <2>2, <2>3, <2>4, <2>5, <2>6 DEF VoiceTypeOK
<1>5. ASSUME NEW c \in Callers, PutDone(c) PROVE VoiceTypeOK'
  <2>1. voice' \in [Voices -> {"none", "empty", "whole", "short"}] /\ saved' \in [Voices -> Shapes \cup {0}]
    <3>1. work[c].shape \in Shapes \cup {0}
      BY Locals DEF VoiceTypeOK
    <3>2. QED
      BY <1>5, <3>1 DEF PutDone, VoiceTypeOK
  <2>2. shape' \in [Voices -> [text : {"none", "empty", "torn", "json"}, is : Shapes \cup {0}]]
    <3>1. work[c] \in Work /\ work[c].shape \in Shapes \cup {0}
      BY Locals DEF VoiceTypeOK
    <3>2. \A r : Written(r, work[c].shape) \in
              [text : {"none", "empty", "torn", "json"}, is : Shapes \cup {0}]
      BY <3>1 DEF Written, NoShape, Shaped
    <3>3. QED
      BY <1>5, <3>2 DEF PutDone, VoiceTypeOK
  <2>3. seq' \in 0 .. MaxSeq /\ temp' \in [0 .. MaxSeq -> Callers \cup {"none"}]
    BY <1>5 DEF VoiceTypeOK, PutDone, Shaped, NoShape, Leave
  <2>4. at' \in [Callers -> {"idle", "load", "create", "fill", "draw", "temp", "encode", "name", "put"}]
    BY <1>5 DEF VoiceTypeOK, At, Step, PutDone, NoShape, Leave
  <2>5. clash' \subseteq Voices \cup {"seq"}
    <3>1. work[c] \in Work
      BY DEF VoiceTypeOK
    <3>2. work[c].out \in Voices \cup {"none"}
      BY <3>1, Locals
    <3>3. clash' = clash \/ (work[c].out # "none" /\ clash' = clash \cup {work[c].out})
      BY <1>5 DEF PutDone
    <3>4. QED
      BY <3>2, <3>3 DEF VoiceTypeOK
  <2>6. work' \in [Callers -> Work]
    BY <1>5, Locals, FreeLocals DEF VoiceTypeOK, PutDone, Written, Shaped, NoShape, Leave
  <2>7. QED
    BY <2>1, <2>2, <2>3, <2>4, <2>5, <2>6 DEF VoiceTypeOK
<1>6. ASSUME NEW c \in Callers, Draw(c) PROVE VoiceTypeOK'
  <2>1. voice' \in [Voices -> {"none", "empty", "whole", "short"}] /\ saved' \in [Voices -> Shapes \cup {0}]
    BY <1>6 DEF VoiceTypeOK, Draw
  <2>2. shape' \in [Voices -> [text : {"none", "empty", "torn", "json"}, is : Shapes \cup {0}]]
    BY <1>6 DEF VoiceTypeOK, Draw
  <2>3. seq' \in 0 .. MaxSeq /\ temp' \in [0 .. MaxSeq -> Callers \cup {"none"}]
    BY <1>6 DEF VoiceTypeOK, Draw
  <2>4. at' \in [Callers -> {"idle", "load", "create", "fill", "draw", "temp", "encode", "name", "put"}]
    BY <1>6 DEF VoiceTypeOK, At, Step, Draw
  <2>5. clash' \subseteq Voices \cup {"seq"}
    BY <1>6 DEF VoiceTypeOK, At, Step, Draw
  <2>6. work' \in [Callers -> Work]
    BY <1>6, Locals DEF VoiceTypeOK, Draw
  <2>7. QED
    BY <2>1, <2>2, <2>3, <2>4, <2>5, <2>6 DEF VoiceTypeOK
<1>7. ASSUME NEW c \in Callers, Drawn(c) PROVE VoiceTypeOK'
  <2>1. voice' \in [Voices -> {"none", "empty", "whole", "short"}] /\ saved' \in [Voices -> Shapes \cup {0}]
    BY <1>7 DEF VoiceTypeOK, Drawn
  <2>2. shape' \in [Voices -> [text : {"none", "empty", "torn", "json"}, is : Shapes \cup {0}]]
    BY <1>7 DEF VoiceTypeOK, Drawn
  <2>3. seq' \in 0 .. MaxSeq /\ temp' \in [0 .. MaxSeq -> Callers \cup {"none"}]
    <3>1. work[c] \in Work /\ work[c].seq < MaxSeq /\ work[c].seq \in 0 .. MaxSeq
      BY <1>7, Locals DEF VoiceTypeOK, Placed, At, Drawn, Step
    <3>2. seq' = work[c].seq + 1 /\ temp' = temp
      BY <1>7 DEF Drawn
    <3> DEFINE k == work[c].seq
    <3>3. k < MaxSeq /\ k \in 0 .. MaxSeq /\ seq' = k + 1
      BY <3>1, <3>2
    <3> HIDE DEF k
    <3>4. seq' \in 0 .. MaxSeq
      BY <3>3, ShapesAssumption
    <3>5. QED
      BY <3>2, <3>4 DEF VoiceTypeOK
  <2>4. at' \in [Callers -> {"idle", "load", "create", "fill", "draw", "temp", "encode", "name", "put"}]
    BY <1>7 DEF VoiceTypeOK, At, Step, Drawn
  <2>5. clash' \subseteq Voices \cup {"seq"}
    BY <1>7 DEF VoiceTypeOK, At, Step, Drawn
  <2>6. work' \in [Callers -> Work]
    BY <1>7, Locals DEF VoiceTypeOK, Drawn
  <2>7. QED
    BY <2>1, <2>2, <2>3, <2>4, <2>5, <2>6 DEF VoiceTypeOK
<1>8. ASSUME NEW c \in Callers, WriteTemp(c) PROVE VoiceTypeOK'
  <2>1. voice' \in [Voices -> {"none", "empty", "whole", "short"}] /\ saved' \in [Voices -> Shapes \cup {0}]
    BY <1>8 DEF VoiceTypeOK, WriteTemp
  <2>2. shape' \in [Voices -> [text : {"none", "empty", "torn", "json"}, is : Shapes \cup {0}]]
    BY <1>8 DEF VoiceTypeOK, WriteTemp
  <2>3. seq' \in 0 .. MaxSeq /\ temp' \in [0 .. MaxSeq -> Callers \cup {"none"}]
    BY <1>8 DEF VoiceTypeOK, WriteTemp
  <2>4. at' \in [Callers -> {"idle", "load", "create", "fill", "draw", "temp", "encode", "name", "put"}]
    BY <1>8 DEF VoiceTypeOK, At, Step, WriteTemp
  <2>5. clash' \subseteq Voices \cup {"seq"}
    BY <1>8 DEF VoiceTypeOK, At, Step, WriteTemp
  <2>6. work' \in [Callers -> Work]
    BY <1>8, Locals DEF VoiceTypeOK, WriteTemp
  <2>7. QED
    BY <2>1, <2>2, <2>3, <2>4, <2>5, <2>6 DEF VoiceTypeOK
<1>9. ASSUME NEW c \in Callers, EncodeOn(c) PROVE VoiceTypeOK'
  <2>1. voice' \in [Voices -> {"none", "empty", "whole", "short"}] /\ saved' \in [Voices -> Shapes \cup {0}]
    BY <1>9 DEF VoiceTypeOK, EncodeOn
  <2>2. shape' \in [Voices -> [text : {"none", "empty", "torn", "json"}, is : Shapes \cup {0}]]
    BY <1>9 DEF VoiceTypeOK, EncodeOn
  <2>3. seq' \in 0 .. MaxSeq /\ temp' \in [0 .. MaxSeq -> Callers \cup {"none"}]
    BY <1>9 DEF VoiceTypeOK, EncodeOn
  <2>4. at' \in [Callers -> {"idle", "load", "create", "fill", "draw", "temp", "encode", "name", "put"}]
    BY <1>9 DEF VoiceTypeOK, At, Step, EncodeOn
  <2>5. clash' \subseteq Voices \cup {"seq"}
    BY <1>9 DEF VoiceTypeOK, At, Step, EncodeOn
  <2>6. work' \in [Callers -> Work]
    BY <1>9, Locals DEF VoiceTypeOK, At, Step, EncodeOn
  <2>7. QED
    BY <2>1, <2>2, <2>3, <2>4, <2>5, <2>6 DEF VoiceTypeOK
<1>10. ASSUME NEW c \in Callers, NEW n \in Voices, UploadVoice(c, n) PROVE VoiceTypeOK'
  <2>1. voice' \in [Voices -> {"none", "empty", "whole", "short"}] /\ saved' \in [Voices -> Shapes \cup {0}]
    BY <1>10 DEF VoiceTypeOK, UploadVoice
  <2>2. shape' \in [Voices -> [text : {"none", "empty", "torn", "json"}, is : Shapes \cup {0}]]
    BY <1>10 DEF VoiceTypeOK, UploadVoice
  <2>3. seq' \in 0 .. MaxSeq /\ temp' \in [0 .. MaxSeq -> Callers \cup {"none"}]
    BY <1>10 DEF VoiceTypeOK, UploadVoice
  <2>4. at' \in [Callers -> {"idle", "load", "create", "fill", "draw", "temp", "encode", "name", "put"}]
    BY <1>10 DEF VoiceTypeOK, At, Step, UploadVoice
  <2>5. clash' \subseteq Voices \cup {"seq"}
    BY <1>10 DEF VoiceTypeOK, At, Step, UploadVoice
  <2>6. work' \in [Callers -> Work]
    BY <1>10, Locals DEF VoiceTypeOK, UploadVoice
  <2>7. QED
    BY <2>1, <2>2, <2>3, <2>4, <2>5, <2>6 DEF VoiceTypeOK
<1>11. ASSUME NEW c \in Callers, NEW n \in Voices, LoadOn(c, n) PROVE VoiceTypeOK'
  <2>1. voice' \in [Voices -> {"none", "empty", "whole", "short"}] /\ saved' \in [Voices -> Shapes \cup {0}]
    BY <1>11 DEF VoiceTypeOK, LoadOn
  <2>2. shape' \in [Voices -> [text : {"none", "empty", "torn", "json"}, is : Shapes \cup {0}]]
    BY <1>11 DEF VoiceTypeOK, LoadOn
  <2>3. seq' \in 0 .. MaxSeq /\ temp' \in [0 .. MaxSeq -> Callers \cup {"none"}]
    BY <1>11 DEF VoiceTypeOK, LoadOn
  <2>4. at' \in [Callers -> {"idle", "load", "create", "fill", "draw", "temp", "encode", "name", "put"}]
    BY <1>11 DEF VoiceTypeOK, At, Step, LoadOn
  <2>5. clash' \subseteq Voices \cup {"seq"}
    BY <1>11 DEF VoiceTypeOK, At, Step, LoadOn
  <2>6. work' \in [Callers -> Work]
    <3>1. PICK need \in {"all", "some", "met"} :
            work' = [work EXCEPT ![c] = [@ EXCEPT !.loads = work[c].loads \ {n}, !.need = need]]
      BY <1>11 DEF LoadOn
    <3> DEFINE w == [work[c] EXCEPT !.loads = work[c].loads \ {n}, !.need = need]
    <3>2. work[c] \in Work
      BY DEF VoiceTypeOK
    <3>3. work[c].loads \ {n} \in SUBSET Voices
      BY <3>2, Locals
    <3>4. w \in Work
      BY <3>2, <3>3, Locals
    <3>5. work' = [work EXCEPT ![c] = w]
      BY <3>1
    <3> HIDE DEF w
    <3>6. QED
      BY <3>4, <3>5 DEF VoiceTypeOK
  <2>7. QED
    BY <2>1, <2>2, <2>3, <2>4, <2>5, <2>6 DEF VoiceTypeOK
<1>12. ASSUME NEW c \in Callers, NEW n \in Voices, NameOn(c, n) PROVE VoiceTypeOK'
  <2>1. voice' \in [Voices -> {"none", "empty", "whole", "short"}] /\ saved' \in [Voices -> Shapes \cup {0}]
    BY <1>12 DEF VoiceTypeOK, NameOn
  <2>2. shape' \in [Voices -> [text : {"none", "empty", "torn", "json"}, is : Shapes \cup {0}]]
    BY <1>12 DEF VoiceTypeOK, NameOn
  <2>3. seq' \in 0 .. MaxSeq /\ temp' \in [0 .. MaxSeq -> Callers \cup {"none"}]
    BY <1>12 DEF VoiceTypeOK, NameOn
  <2>4. at' \in [Callers -> {"idle", "load", "create", "fill", "draw", "temp", "encode", "name", "put"}]
    BY <1>12 DEF VoiceTypeOK, At, Step, NameOn
  <2>5. clash' \subseteq Voices \cup {"seq"}
    BY <1>12 DEF VoiceTypeOK, At, Step, NameOn
  <2>6. work' \in [Callers -> Work]
    BY <1>12, Locals DEF VoiceTypeOK, NameOn
  <2>7. QED
    BY <2>1, <2>2, <2>3, <2>4, <2>5, <2>6 DEF VoiceTypeOK
<1>13. ASSUME NEW c \in Callers, NEW n \in Voices, NEW from \in SUBSET Voices,
             NEW need \in {"all", "some"}, Make(c, from, need, n) PROVE VoiceTypeOK'
  <2>1. voice' \in [Voices -> {"none", "empty", "whole", "short"}] /\ saved' \in [Voices -> Shapes \cup {0}]
    BY <1>13 DEF VoiceTypeOK, Make
  <2>2. shape' \in [Voices -> [text : {"none", "empty", "torn", "json"}, is : Shapes \cup {0}]]
    BY <1>13 DEF VoiceTypeOK, Make
  <2>3. seq' \in 0 .. MaxSeq /\ temp' \in [0 .. MaxSeq -> Callers \cup {"none"}]
    BY <1>13 DEF VoiceTypeOK, Make
  <2>4. at' \in [Callers -> {"idle", "load", "create", "fill", "draw", "temp", "encode", "name", "put"}]
    BY <1>13 DEF VoiceTypeOK, At, Step, Make
  <2>5. clash' \subseteq Voices \cup {"seq"}
    BY <1>13 DEF VoiceTypeOK, At, Step, Make
  <2>6. work' \in [Callers -> Work]
    BY <1>13, Locals DEF VoiceTypeOK, Make
  <2>7. QED
    BY <2>1, <2>2, <2>3, <2>4, <2>5, <2>6 DEF VoiceTypeOK
<1>14. ASSUME NEW c \in Callers, NEW n \in Voices, NEW s \in Shapes, PutShape(c, n, s) PROVE VoiceTypeOK'
  <2>1. voice' \in [Voices -> {"none", "empty", "whole", "short"}] /\ saved' \in [Voices -> Shapes \cup {0}]
    BY <1>14 DEF VoiceTypeOK, PutShape, NoShape, Disturbed
  <2>2. shape' \in [Voices -> [text : {"none", "empty", "torn", "json"}, is : Shapes \cup {0}]]
    BY <1>14 DEF VoiceTypeOK, PutShape, NoShape, Disturbed
  <2>3. seq' \in 0 .. MaxSeq /\ temp' \in [0 .. MaxSeq -> Callers \cup {"none"}]
    BY <1>14 DEF VoiceTypeOK, PutShape, NoShape, Disturbed
  <2>4. at' \in [Callers -> {"idle", "load", "create", "fill", "draw", "temp", "encode", "name", "put"}]
    BY <1>14 DEF VoiceTypeOK, At, Step, PutShape, Disturbed
  <2>5. clash' \subseteq Voices \cup {"seq"}
    BY <1>14 DEF VoiceTypeOK, At, Step, PutShape, Disturbed
  <2>6. work' \in [Callers -> Work]
    BY <1>14, Locals DEF VoiceTypeOK, PutShape, NoShape, Disturbed
  <2>7. QED
    BY <2>1, <2>2, <2>3, <2>4, <2>5, <2>6 DEF VoiceTypeOK
<1>15. ASSUME NEW n \in Voices, DeleteVoice(n) PROVE VoiceTypeOK'
  <2>1. voice' \in [Voices -> {"none", "empty", "whole", "short"}] /\ saved' \in [Voices -> Shapes \cup {0}]
    BY <1>15 DEF VoiceTypeOK, At, DeleteVoice, Unlinked
  <2>2. shape' \in [Voices -> [text : {"none", "empty", "torn", "json"}, is : Shapes \cup {0}]]
    BY <1>15 DEF VoiceTypeOK, At, DeleteVoice, Unlinked
  <2>3. seq' \in 0 .. MaxSeq /\ temp' \in [0 .. MaxSeq -> Callers \cup {"none"}]
    BY <1>15 DEF VoiceTypeOK, At, DeleteVoice, Unlinked
  <2>4. at' \in [Callers -> {"idle", "load", "create", "fill", "draw", "temp", "encode", "name", "put"}]
    BY <1>15 DEF VoiceTypeOK, At, DeleteVoice, Unlinked
  <2>5. clash' \subseteq Voices \cup {"seq"}
    BY <1>15 DEF VoiceTypeOK, At, DeleteVoice, Unlinked
  <2>6. work' \in [Callers -> Work]
    BY <1>15, Locals DEF VoiceTypeOK, At, DeleteVoice, Unlinked
  <2>7. QED
    BY <2>1, <2>2, <2>3, <2>4, <2>5, <2>6 DEF VoiceTypeOK
<1>16. ASSUME NEW n \in Voices, DeleteShape(n) PROVE VoiceTypeOK'
  <2>1. voice' \in [Voices -> {"none", "empty", "whole", "short"}] /\ saved' \in [Voices -> Shapes \cup {0}]
    BY <1>16 DEF VoiceTypeOK, At, DeleteShape, Unlinked, Disturbed
  <2>2. shape' \in [Voices -> [text : {"none", "empty", "torn", "json"}, is : Shapes \cup {0}]]
    BY <1>16 DEF VoiceTypeOK, At, DeleteShape, NoShape, Unlinked, Disturbed
  <2>3. seq' \in 0 .. MaxSeq /\ temp' \in [0 .. MaxSeq -> Callers \cup {"none"}]
    BY <1>16 DEF VoiceTypeOK, At, DeleteShape, NoShape, Unlinked, Disturbed
  <2>4. at' \in [Callers -> {"idle", "load", "create", "fill", "draw", "temp", "encode", "name", "put"}]
    BY <1>16 DEF VoiceTypeOK, At, DeleteShape, Unlinked, Disturbed
  <2>5. clash' \subseteq Voices \cup {"seq"}
    BY <1>16 DEF VoiceTypeOK, At, DeleteShape, Unlinked, Disturbed
  <2>6. work' \in [Callers -> Work]
    BY <1>16, Locals DEF VoiceTypeOK, At, DeleteShape, NoShape, Unlinked, Disturbed
  <2>7. QED
    BY <2>1, <2>2, <2>3, <2>4, <2>5, <2>6 DEF VoiceTypeOK
<1>17. QED
  BY VoiceSteps, <1>1, <1>2, <1>3, <1>4, <1>5, <1>6, <1>7, <1>8, <1>9, <1>10, <1>11,
     <1>12, <1>13, <1>14, <1>15, <1>16

\* A request works on what its place asks for.
LEMMA PlacedStays ==
    ASSUME VoiceTypeOK, Placed, VoiceNext
    PROVE  Placed'
<1>1. ASSUME NEW c \in Callers, Quit(c)
      PROVE  Placed'
  BY <1>1, VoicesAssumption, ShapesAssumption, FreeLocals
  DEF Step, VoiceTypeOK, Placed, Work, At, Quit, Leave, Free
<1>2. ASSUME NEW c \in Callers, MixOn(c)
      PROVE  Placed'
  BY <1>2, VoicesAssumption, ShapesAssumption
  DEF Step, VoiceTypeOK, Placed, Work, At, MixOn
<1>3. ASSUME NEW c \in Callers, CreateOn(c)
      PROVE  Placed'
  BY <1>3, VoicesAssumption, ShapesAssumption
  DEF Step, VoiceTypeOK, Placed, Work, At, CreateOn
<1>4. ASSUME NEW c \in Callers, Fill(c)
      PROVE  Placed'
  BY <1>4, VoicesAssumption, ShapesAssumption, FreeLocals
  DEF Step, VoiceTypeOK, Placed, Work, At, Fill, Leave, Free
<1>5. ASSUME NEW c \in Callers, PutDone(c)
      PROVE  Placed'
  BY <1>5, VoicesAssumption, ShapesAssumption, FreeLocals
  DEF Step, VoiceTypeOK, Placed, Work, At, PutDone, Written, Shaped, NoShape, Leave, Free
<1>6. ASSUME NEW c \in Callers, Draw(c)
      PROVE  Placed'
  BY <1>6, VoicesAssumption, ShapesAssumption
  DEF Step, VoiceTypeOK, Placed, Work, At, Draw
<1>7. ASSUME NEW c \in Callers, Drawn(c)
      PROVE  Placed'
  BY <1>7, VoicesAssumption, ShapesAssumption
  DEF Step, VoiceTypeOK, Placed, Work, At, Drawn
<1>8. ASSUME NEW c \in Callers, WriteTemp(c)
      PROVE  Placed'
  BY <1>8, VoicesAssumption, ShapesAssumption
  DEF Step, VoiceTypeOK, Placed, Work, At, WriteTemp
<1>9. ASSUME NEW c \in Callers, EncodeOn(c)
      PROVE  Placed'
  BY <1>9, VoicesAssumption, ShapesAssumption
  DEF Step, VoiceTypeOK, Placed, Work, At, EncodeOn
<1>10. ASSUME NEW c \in Callers, NEW n \in Voices, UploadVoice(c, n)
      PROVE  Placed'
  BY <1>10, VoicesAssumption, ShapesAssumption
  DEF Step, VoiceTypeOK, Placed, Work, At, UploadVoice
<1>11. ASSUME NEW c \in Callers, NEW n \in Voices, LoadOn(c, n)
      PROVE  Placed'
  BY <1>11, VoicesAssumption, ShapesAssumption
  DEF Step, VoiceTypeOK, Placed, Work, At, LoadOn
<1>12. ASSUME NEW c \in Callers, NEW n \in Voices, NameOn(c, n)
      PROVE  Placed'
  BY <1>12, VoicesAssumption, ShapesAssumption
  DEF Step, VoiceTypeOK, Placed, Work, At, NameOn
<1>13. ASSUME NEW c \in Callers, NEW n \in Voices, NEW from \in SUBSET Voices,
             NEW need \in {"all", "some"}, Make(c, from, need, n)
      PROVE  Placed'
  BY <1>13, VoicesAssumption, ShapesAssumption
  DEF Step, VoiceTypeOK, Placed, Work, At, Make
<1>14. ASSUME NEW c \in Callers, NEW n \in Voices, NEW s \in Shapes, PutShape(c, n, s)
      PROVE  Placed'
  BY <1>14, VoicesAssumption, ShapesAssumption
  DEF Step, VoiceTypeOK, Placed, Work, At, PutShape, NoShape, Disturbed
<1>15. ASSUME NEW n \in Voices, DeleteVoice(n)
      PROVE  Placed'
  BY <1>15, VoicesAssumption, ShapesAssumption
  DEF VoiceTypeOK, Placed, Work, At, DeleteVoice, Unlinked
<1>16. ASSUME NEW n \in Voices, DeleteShape(n)
      PROVE  Placed'
  BY <1>16, VoicesAssumption, ShapesAssumption
  DEF VoiceTypeOK, Placed, Work, At, DeleteShape, NoShape, Unlinked, Disturbed
<1>17. QED
  BY VoiceSteps, <1>1, <1>2, <1>3, <1>4, <1>5, <1>6, <1>7, <1>8, <1>9, <1>10, <1>11,
     <1>12, <1>13, <1>14, <1>15, <1>16

\* A voice is emptied by a request that is about to fill it, and forgotten by that
\* request when it is deleted.
LEMMA WholeStays ==
    ASSUME VoiceTypeOK, Placed, VoicesWhole, VoiceNext
    PROVE  VoicesWhole'
<1>1. ASSUME NEW c \in Callers, Quit(c)
      PROVE  VoicesWhole'
  BY <1>1, VoicesAssumption, ShapesAssumption, FreeLocals
  DEF Step, VoiceTypeOK, Placed, VoicesWhole, Work, At, Quit, Leave, Free
<1>2. ASSUME NEW c \in Callers, MixOn(c)
      PROVE  VoicesWhole'
  BY <1>2, VoicesAssumption, ShapesAssumption
  DEF Step, VoiceTypeOK, Placed, VoicesWhole, Work, At, MixOn
<1>3. ASSUME NEW c \in Callers, CreateOn(c)
      PROVE  VoicesWhole'
  BY <1>3, VoicesAssumption, ShapesAssumption
  DEF Step, VoiceTypeOK, Placed, VoicesWhole, Work, At, CreateOn
<1>4. ASSUME NEW c \in Callers, Fill(c)
      PROVE  VoicesWhole'
  BY <1>4, VoicesAssumption, ShapesAssumption, FreeLocals
  DEF Step, VoiceTypeOK, Placed, VoicesWhole, Work, At, Fill, Leave, Free
<1>5. ASSUME NEW c \in Callers, PutDone(c)
      PROVE  VoicesWhole'
  BY <1>5, VoicesAssumption, ShapesAssumption, FreeLocals
  DEF Step, VoiceTypeOK, Placed, VoicesWhole, Work, At, PutDone, Written, Shaped, NoShape, Leave, Free
<1>6. ASSUME NEW c \in Callers, Draw(c)
      PROVE  VoicesWhole'
  BY <1>6, VoicesAssumption, ShapesAssumption
  DEF Step, VoiceTypeOK, Placed, VoicesWhole, Work, At, Draw
<1>7. ASSUME NEW c \in Callers, Drawn(c)
      PROVE  VoicesWhole'
  BY <1>7, VoicesAssumption, ShapesAssumption
  DEF Step, VoiceTypeOK, Placed, VoicesWhole, Work, At, Drawn
<1>8. ASSUME NEW c \in Callers, WriteTemp(c)
      PROVE  VoicesWhole'
  BY <1>8, VoicesAssumption, ShapesAssumption
  DEF Step, VoiceTypeOK, Placed, VoicesWhole, Work, At, WriteTemp
<1>9. ASSUME NEW c \in Callers, EncodeOn(c)
      PROVE  VoicesWhole'
  BY <1>9, VoicesAssumption, ShapesAssumption
  DEF Step, VoiceTypeOK, Placed, VoicesWhole, Work, At, EncodeOn
<1>10. ASSUME NEW c \in Callers, NEW n \in Voices, UploadVoice(c, n)
      PROVE  VoicesWhole'
  BY <1>10, VoicesAssumption, ShapesAssumption
  DEF Step, VoiceTypeOK, Placed, VoicesWhole, Work, At, UploadVoice
<1>11. ASSUME NEW c \in Callers, NEW n \in Voices, LoadOn(c, n)
      PROVE  VoicesWhole'
  BY <1>11, VoicesAssumption, ShapesAssumption
  DEF Step, VoiceTypeOK, Placed, VoicesWhole, Work, At, LoadOn
<1>12. ASSUME NEW c \in Callers, NEW n \in Voices, NameOn(c, n)
      PROVE  VoicesWhole'
  BY <1>12, VoicesAssumption, ShapesAssumption
  DEF Step, VoiceTypeOK, Placed, VoicesWhole, Work, At, NameOn
<1>13. ASSUME NEW c \in Callers, NEW n \in Voices, NEW from \in SUBSET Voices,
             NEW need \in {"all", "some"}, Make(c, from, need, n)
      PROVE  VoicesWhole'
  BY <1>13, VoicesAssumption, ShapesAssumption
  DEF Step, VoiceTypeOK, Placed, VoicesWhole, Work, At, Make
<1>14. ASSUME NEW c \in Callers, NEW n \in Voices, NEW s \in Shapes, PutShape(c, n, s)
      PROVE  VoicesWhole'
  BY <1>14, VoicesAssumption, ShapesAssumption
  DEF Step, VoiceTypeOK, Placed, VoicesWhole, Work, At, PutShape, NoShape, Disturbed
<1>15. ASSUME NEW n \in Voices, DeleteVoice(n)
      PROVE  VoicesWhole'
  BY <1>15, VoicesAssumption, ShapesAssumption
  DEF VoiceTypeOK, Placed, VoicesWhole, Work, At, DeleteVoice, Unlinked
<1>16. ASSUME NEW n \in Voices, DeleteShape(n)
      PROVE  VoicesWhole'
  BY <1>16, VoicesAssumption, ShapesAssumption
  DEF VoiceTypeOK, Placed, VoicesWhole, Work, At, DeleteShape, NoShape, Unlinked, Disturbed
<1>17. QED
  BY VoiceSteps, <1>1, <1>2, <1>3, <1>4, <1>5, <1>6, <1>7, <1>8, <1>9, <1>10, <1>11,
     <1>12, <1>13, <1>14, <1>15, <1>16

\* A step that passes the sidecar of m by, and those who write one.
LEMMA ShapelyAside ==
    ASSUME NEW m \in Voices, Shapely(m), UNCHANGED <<shape, saved>>, m \in clash => m \in clash',
           \A d \in Callers : /\ at'[d] = "put" <=> at[d] = "put"
                              /\ at[d] = "put" => work'[d].out = work[d].out
    PROVE  Shapely(m)'
<1>1. Shaping(m)' = Shaping(m)
  BY DEF Shaping
<1>2. CASE m \in clash
  BY <1>2 DEF Shapely
<1>3. CASE m \notin clash
  <2>1. /\ \A d, e \in At("put") : work[d].out = m /\ work[e].out = m => d = e
        /\ \A d \in At("put") : work[d].out = m => shape[m] = NoShape("empty")
        /\ (\A d \in At("put") : work[d].out # m) => Shaping(m) = saved[m]
    BY <1>3 DEF Shapely
  <2>2. At("put")' = At("put")
    BY DEF At
  <2>3. \A d \in At("put") : work'[d].out = work[d].out
    BY DEF At
  <2>4. QED
    BY <1>1, <2>1, <2>2, <2>3 DEF Shapely
<1>4. QED
  BY <1>2, <1>3

\* A sidecar is written by one request, or disturbed.
LEMMA ShapelyStays ==
    ASSUME VoiceTypeOK, Placed, \A n \in Voices : Shapely(n), NEW m \in Voices, VoiceNext
    PROVE  Shapely(m)'
<1>1. ASSUME NEW c \in Callers, Quit(c)
      PROVE  Shapely(m)'
  <2>1. \A d \in Callers : /\ at'[d] = "put" <=> at[d] = "put"
                           /\ at[d] = "put" => work'[d].out = work[d].out
    BY <1>1 DEF Quit, Leave, Step, VoiceTypeOK
  <2>2. UNCHANGED <<shape, saved>> /\ (m \in clash => m \in clash')
    BY <1>1 DEF Quit
  <2>3. QED
    BY <2>1, <2>2, ShapelyAside
<1>2. ASSUME NEW c \in Callers, MixOn(c)
      PROVE  Shapely(m)'
  <2>1. \A d \in Callers : /\ at'[d] = "put" <=> at[d] = "put"
                           /\ at[d] = "put" => work'[d].out = work[d].out
    BY <1>2 DEF MixOn, Step, VoiceTypeOK
  <2>2. UNCHANGED <<shape, saved>> /\ (m \in clash => m \in clash')
    BY <1>2 DEF MixOn
  <2>3. QED
    BY <2>1, <2>2, ShapelyAside
<1>3. ASSUME NEW c \in Callers, CreateOn(c)
      PROVE  Shapely(m)'
  <2>1. \A d \in Callers : /\ at'[d] = "put" <=> at[d] = "put"
                           /\ at[d] = "put" => work'[d].out = work[d].out
    BY <1>3 DEF CreateOn, Step, VoiceTypeOK
  <2>2. UNCHANGED <<shape, saved>> /\ (m \in clash => m \in clash')
    BY <1>3 DEF CreateOn
  <2>3. QED
    BY <2>1, <2>2, ShapelyAside
<1>4. ASSUME NEW c \in Callers, Fill(c)
      PROVE  Shapely(m)'
  <2>1. \A d \in Callers : /\ at'[d] = "put" <=> at[d] = "put"
                           /\ at[d] = "put" => work'[d].out = work[d].out
    BY <1>4 DEF Fill, Leave, Step, VoiceTypeOK
  <2>2. UNCHANGED <<shape, saved>> /\ (m \in clash => m \in clash')
    BY <1>4 DEF Fill
  <2>3. QED
    BY <2>1, <2>2, ShapelyAside
<1>5. ASSUME NEW c \in Callers, PutDone(c)
      PROVE  Shapely(m)'
  <2> DEFINE n == work[c].out
  <2>1. /\ at[c] = "put" /\ at'[c] = "idle" /\ clash \subseteq clash' /\ clash' \subseteq clash \cup {n}
        /\ \A d \in Callers \ {c} : at'[d] = at[d] /\ work'[d] = work[d]
    BY <1>5 DEF PutDone, Leave, Step, VoiceTypeOK
  <2>2. CASE m # n
    <3>1. shape'[m] = shape[m] /\ saved'[m] = saved[m]
      BY <1>5, <2>2 DEF PutDone, VoiceTypeOK
    <3>2. QED
      BY <2>1, <2>2, <3>1 DEF Shapely, Shaping, At
  <2>3. CASE m = n /\ m \notin clash'
    <3>1. n # "none"
      BY <2>3, VoicesAssumption
    <3>2. work[c].shape \in Nat
      <4>1. work[c].shape \in Shapes \cup {0}
        BY Locals DEF VoiceTypeOK
      <4>2. \A k \in Shapes \cup {0} : k \in Nat
        BY ShapesAssumption
      <4>3. QED
        BY <4>1, <4>2
    <3>3. shape[m] = NoShape("empty") /\ \A d \in Callers \ {c} : at[d] = "put" => work[d].out # m
      BY <2>1, <2>3 DEF Shapely, At
    <3>4. shape'[m] = Written(shape[m], work[c].shape) /\ saved'[m] = work[c].shape
      BY <1>5, <2>3, <3>1, VoicesAssumption DEF PutDone, VoiceTypeOK
    <3>5. shape'[m] = Shaped(work[c].shape)
      BY <3>2, <3>3, <3>4 DEF Written, NoShape
    <3>6. Shaping(m)' = saved'[m]
      BY <3>4, <3>5 DEF Shaping, Shaped
    <3>7. QED
      BY <2>1, <3>3, <3>6 DEF Shapely, At
  <2>4. CASE m \in clash'
    BY <2>4 DEF Shapely
  <2>5. QED
    BY <2>2, <2>3, <2>4
<1>6. ASSUME NEW c \in Callers, Draw(c)
      PROVE  Shapely(m)'
  <2>1. \A d \in Callers : /\ at'[d] = "put" <=> at[d] = "put"
                           /\ at[d] = "put" => work'[d].out = work[d].out
    BY <1>6 DEF Draw, Step, VoiceTypeOK
  <2>2. UNCHANGED <<shape, saved>> /\ (m \in clash => m \in clash')
    BY <1>6 DEF Draw
  <2>3. QED
    BY <2>1, <2>2, ShapelyAside
<1>7. ASSUME NEW c \in Callers, Drawn(c)
      PROVE  Shapely(m)'
  <2>1. \A d \in Callers : /\ at'[d] = "put" <=> at[d] = "put"
                           /\ at[d] = "put" => work'[d].out = work[d].out
    BY <1>7 DEF Drawn, Step, VoiceTypeOK
  <2>2. UNCHANGED <<shape, saved>> /\ (m \in clash => m \in clash')
    BY <1>7 DEF Drawn
  <2>3. QED
    BY <2>1, <2>2, ShapelyAside
<1>8. ASSUME NEW c \in Callers, WriteTemp(c)
      PROVE  Shapely(m)'
  <2>1. \A d \in Callers : /\ at'[d] = "put" <=> at[d] = "put"
                           /\ at[d] = "put" => work'[d].out = work[d].out
    BY <1>8 DEF WriteTemp, Step, VoiceTypeOK
  <2>2. UNCHANGED <<shape, saved>> /\ (m \in clash => m \in clash')
    BY <1>8 DEF WriteTemp
  <2>3. QED
    BY <2>1, <2>2, ShapelyAside
<1>9. ASSUME NEW c \in Callers, EncodeOn(c)
      PROVE  Shapely(m)'
  <2>1. \A d \in Callers : /\ at'[d] = "put" <=> at[d] = "put"
                           /\ at[d] = "put" => work'[d].out = work[d].out
    BY <1>9 DEF EncodeOn, Step, VoiceTypeOK
  <2>2. UNCHANGED <<shape, saved>> /\ (m \in clash => m \in clash')
    BY <1>9 DEF EncodeOn
  <2>3. QED
    BY <2>1, <2>2, ShapelyAside
<1>10. ASSUME NEW c \in Callers, NEW n \in Voices, UploadVoice(c, n)
      PROVE  Shapely(m)'
  <2>1. \A d \in Callers : /\ at'[d] = "put" <=> at[d] = "put"
                           /\ at[d] = "put" => work'[d].out = work[d].out
    BY <1>10 DEF UploadVoice, Step, VoiceTypeOK
  <2>2. UNCHANGED <<shape, saved>> /\ (m \in clash => m \in clash')
    BY <1>10 DEF UploadVoice
  <2>3. QED
    BY <2>1, <2>2, ShapelyAside
<1>11. ASSUME NEW c \in Callers, NEW n \in Voices, LoadOn(c, n)
      PROVE  Shapely(m)'
  <2>1. \A d \in Callers : /\ at'[d] = "put" <=> at[d] = "put"
                           /\ at[d] = "put" => work'[d].out = work[d].out
    BY <1>11 DEF LoadOn, Step, VoiceTypeOK
  <2>2. UNCHANGED <<shape, saved>> /\ (m \in clash => m \in clash')
    BY <1>11 DEF LoadOn
  <2>3. QED
    BY <2>1, <2>2, ShapelyAside
<1>12. ASSUME NEW c \in Callers, NEW n \in Voices, NameOn(c, n)
      PROVE  Shapely(m)'
  <2>1. \A d \in Callers : /\ at'[d] = "put" <=> at[d] = "put"
                           /\ at[d] = "put" => work'[d].out = work[d].out
    BY <1>12 DEF NameOn, Step, VoiceTypeOK
  <2>2. UNCHANGED <<shape, saved>> /\ (m \in clash => m \in clash')
    BY <1>12 DEF NameOn
  <2>3. QED
    BY <2>1, <2>2, ShapelyAside
<1>13. ASSUME NEW c \in Callers, NEW n \in Voices, NEW from \in SUBSET Voices,
             NEW need \in {"all", "some"}, Make(c, from, need, n)
      PROVE  Shapely(m)'
  <2>1. \A d \in Callers : /\ at'[d] = "put" <=> at[d] = "put"
                           /\ at[d] = "put" => work'[d].out = work[d].out
    BY <1>13 DEF Make, Step, VoiceTypeOK
  <2>2. UNCHANGED <<shape, saved>> /\ (m \in clash => m \in clash')
    BY <1>13 DEF Make
  <2>3. QED
    BY <2>1, <2>2, ShapelyAside
<1>14. ASSUME NEW c \in Callers, NEW n \in Voices, NEW s \in Shapes, PutShape(c, n, s)
      PROVE  Shapely(m)'
  BY <1>14, VoicesAssumption, ShapesAssumption
  DEF Step, VoiceTypeOK, Shapely, Shaping, NoShape, Work, At, PutShape, Disturbed
<1>15. ASSUME NEW n \in Voices, DeleteVoice(n)
      PROVE  Shapely(m)'
  <2>1. \A d \in Callers : /\ at'[d] = "put" <=> at[d] = "put"
                           /\ at[d] = "put" => work'[d].out = work[d].out
    BY <1>15 DEF DeleteVoice, Unlinked, VoiceTypeOK
  <2>2. UNCHANGED <<shape, saved>> /\ (m \in clash => m \in clash')
    BY <1>15 DEF DeleteVoice
  <2>3. QED
    BY <2>1, <2>2, ShapelyAside
<1>16. ASSUME NEW n \in Voices, DeleteShape(n)
      PROVE  Shapely(m)'
  BY <1>16, VoicesAssumption, ShapesAssumption
  DEF VoiceTypeOK, Shapely, Shaping, NoShape, Work, At, DeleteShape, Unlinked, Disturbed
<1>17. QED
  BY VoiceSteps, <1>1, <1>2, <1>3, <1>4, <1>5, <1>6, <1>7, <1>8, <1>9, <1>10, <1>11,
     <1>12, <1>13, <1>14, <1>15, <1>16

\* The numbers of two references are two numbers, or two requests drew at once.
LEMMA NumberedStays ==
    ASSUME VoiceTypeOK, Placed, Numbered, VoiceNext
    PROVE  Numbered'
<1>1. ASSUME NEW c \in Callers, Quit(c)
      PROVE  Numbered'
  BY <1>1, VoicesAssumption, ShapesAssumption, FreeLocals
  DEF Step, VoiceTypeOK, Placed, Numbered, Work, At, Quit, Leave, Free
<1>2. ASSUME NEW c \in Callers, MixOn(c)
      PROVE  Numbered'
  BY <1>2, VoicesAssumption, ShapesAssumption
  DEF Step, VoiceTypeOK, Placed, Numbered, Work, At, MixOn
<1>3. ASSUME NEW c \in Callers, CreateOn(c)
      PROVE  Numbered'
  BY <1>3, VoicesAssumption, ShapesAssumption
  DEF Step, VoiceTypeOK, Placed, Numbered, Work, At, CreateOn
<1>4. ASSUME NEW c \in Callers, Fill(c)
      PROVE  Numbered'
  BY <1>4, VoicesAssumption, ShapesAssumption, FreeLocals
  DEF Step, VoiceTypeOK, Placed, Numbered, Work, At, Fill, Leave, Free
<1>5. ASSUME NEW c \in Callers, PutDone(c)
      PROVE  Numbered'
  BY <1>5, VoicesAssumption, ShapesAssumption, FreeLocals
  DEF Step, VoiceTypeOK, Placed, Numbered, Work, At, PutDone, Written, Shaped, NoShape, Leave, Free
<1>6. ASSUME NEW c \in Callers, Draw(c)
      PROVE  Numbered'
  BY <1>6, VoicesAssumption, ShapesAssumption
  DEF Step, VoiceTypeOK, Placed, Numbered, Work, At, Draw
<1>7. ASSUME NEW c \in Callers, Drawn(c)
      PROVE  Numbered'
  BY <1>7, VoicesAssumption, ShapesAssumption
  DEF Step, VoiceTypeOK, Placed, Numbered, Work, At, Drawn
<1>8. ASSUME NEW c \in Callers, WriteTemp(c)
      PROVE  Numbered'
  BY <1>8, VoicesAssumption, ShapesAssumption
  DEF Step, VoiceTypeOK, Placed, Numbered, Work, At, WriteTemp
<1>9. ASSUME NEW c \in Callers, EncodeOn(c)
      PROVE  Numbered'
  BY <1>9, VoicesAssumption, ShapesAssumption
  DEF Step, VoiceTypeOK, Placed, Numbered, Work, At, EncodeOn
<1>10. ASSUME NEW c \in Callers, NEW n \in Voices, UploadVoice(c, n)
      PROVE  Numbered'
  BY <1>10, VoicesAssumption, ShapesAssumption
  DEF Step, VoiceTypeOK, Placed, Numbered, Work, At, UploadVoice
<1>11. ASSUME NEW c \in Callers, NEW n \in Voices, LoadOn(c, n)
      PROVE  Numbered'
  BY <1>11, VoicesAssumption, ShapesAssumption
  DEF Step, VoiceTypeOK, Placed, Numbered, Work, At, LoadOn
<1>12. ASSUME NEW c \in Callers, NEW n \in Voices, NameOn(c, n)
      PROVE  Numbered'
  BY <1>12, VoicesAssumption, ShapesAssumption
  DEF Step, VoiceTypeOK, Placed, Numbered, Work, At, NameOn
<1>13. ASSUME NEW c \in Callers, NEW n \in Voices, NEW from \in SUBSET Voices,
             NEW need \in {"all", "some"}, Make(c, from, need, n)
      PROVE  Numbered'
  BY <1>13, VoicesAssumption, ShapesAssumption
  DEF Step, VoiceTypeOK, Placed, Numbered, Work, At, Make
<1>14. ASSUME NEW c \in Callers, NEW n \in Voices, NEW s \in Shapes, PutShape(c, n, s)
      PROVE  Numbered'
  BY <1>14, VoicesAssumption, ShapesAssumption
  DEF Step, VoiceTypeOK, Placed, Numbered, Work, At, PutShape, NoShape, Disturbed
<1>15. ASSUME NEW n \in Voices, DeleteVoice(n)
      PROVE  Numbered'
  BY <1>15, VoicesAssumption, ShapesAssumption
  DEF VoiceTypeOK, Placed, Numbered, Work, At, DeleteVoice, Unlinked
<1>16. ASSUME NEW n \in Voices, DeleteShape(n)
      PROVE  Numbered'
  BY <1>16, VoicesAssumption, ShapesAssumption
  DEF VoiceTypeOK, Placed, Numbered, Work, At, DeleteShape, NoShape, Unlinked, Disturbed
<1>17. QED
  BY VoiceSteps, <1>1, <1>2, <1>3, <1>4, <1>5, <1>6, <1>7, <1>8, <1>9, <1>10, <1>11,
     <1>12, <1>13, <1>14, <1>15, <1>16

LEMMA VoiceStarts == VoiceInit => VoiceInv
  BY VoicesAssumption, ShapesAssumption
  DEF VoiceInit, VoiceInv, VoiceTypeOK, Placed, VoicesWhole, Shapely, Numbered, At, Shaping,
      NoShape, Free, Work


LEMMA VoiceStays == VoiceInv /\ [VoiceNext]_voiceVars => VoiceInv'
<1>1. VoiceInv /\ VoiceNext => VoiceInv'
  BY VoiceTypesStay, PlacedStays, WholeStays, ShapelyStays, NumberedStays DEF VoiceInv
<1>2. VoiceInv /\ UNCHANGED voiceVars => VoiceInv'
  BY DEF VoiceInv, voiceVars, VoiceTypeOK, Placed, VoicesWhole, Shapely, Shaping, Numbered, At
<1>3. QED
  BY <1>1, <1>2

LEMMA VoiceInvariant == VoiceSpec => []VoiceInv
  BY VoiceStarts, VoiceStays, PTL DEF VoiceSpec

\* No request truncates a voice and fails before it writes it, and a synthesis
\* is shaped by what was saved last unless two requests wrote the sidecar at once
\* or its write failed: for any number of requests, of voices and of shapings.
THEOREM VoicesKeptHolds == VoiceSpec => []VoicesKept
<1>1. VoiceInv => VoicesKept
  BY DEF VoiceInv, Shapely, VoicesKept, ShapeKept
<1>2. QED
  BY VoiceInvariant, <1>1, PTL

\* Every embedding of POST /v1/voices/extract is of its own request's reference,
\* as long as no two requests increment the counter at once.
THEOREM OwnEmbeddingHolds == VoiceSpec => []OwnEmbedding
<1>1. VoiceInv => OwnEmbedding
  BY DEF VoiceInv, Numbered, OwnEmbedding
<1>2. QED
  BY VoiceInvariant, <1>1, PTL

-----------------------------------------------------------------------------
\* The inductive invariants of the two libraries hold, whichever of them is
\* followed.
THEOREM LibraryInvHolds == LibrarySpec => []LibraryInv
<1>1. LibraryInit => LibraryInv
  BY InitIInv, VoiceStarts DEF LibraryInit, LibraryInv
<1>2. LibraryInv /\ [LibraryNext]_<<library, vars, voiceVars>> => LibraryInv'
  <2>1. IInv /\ [Next]_vars => IInv'
    BY StepTypeOK, StepPhases, StepOneHolder, StepFreshName, StepSidecars DEF IInv
  <2>2. VoiceInv /\ [VoiceNext]_voiceVars => VoiceInv'
    BY VoiceStays
  <2>3. [LibraryNext]_<<library, vars, voiceVars>> => [Next]_vars /\ [VoiceNext]_voiceVars
    BY DEF LibraryNext
  <2>4. QED
    BY <2>1, <2>2, <2>3 DEF LibraryInv
<1>3. QED
  BY <1>1, <1>2, PTL DEF LibrarySpec
=============================================================================
