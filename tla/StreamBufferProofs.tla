------------------------- MODULE StreamBufferProofs -------------------------
(***************************************************************************)
(* The stream carries every chunk once and in order, no complete response  *)
(* lacks one, and no wakeup is lost: for any number of chunks.             *)
(***************************************************************************)
EXTENDS StreamBuffer, SequenceTheorems, TLAPS

\* The first n chunks, in the order the family emitted them.
Chunks(n) == [k \in 1..n |-> k]

\* The order of the chunks, by itself, bounds what can have been sent.
LEMMA ChunksLength ==
    ASSUME NEW n \in Nat, NEW s \in Seq(Nat), NEW b \in Seq(Nat),
           s \o b = Chunks(n)
    PROVE  Len(s) + Len(b) = n /\ Len(s) \in Nat /\ Len(b) \in Nat
<1>1. /\ s \o b \in Seq(Nat)
      /\ Len(s \o b) = Len(s) + Len(b)
      /\ Len(s) \in Nat /\ Len(b) \in Nat
  BY ConcatProperties, LenProperties
<1>2. DOMAIN (s \o b) = 1..Len(s \o b)
  BY <1>1, LenProperties
<1>3. DOMAIN Chunks(n) = 1..n
  BY DEF Chunks
<1>4. 1..n = 1..(Len(s) + Len(b))
  BY <1>1, <1>2, <1>3
<1>5. QED
  BY <1>1, <1>4

LEMMA AppendChunk ==
    ASSUME NEW n \in Nat, NEW s \in Seq(Nat), NEW b \in Seq(Nat),
           s \o b = Chunks(n)
    PROVE  s \o Append(b, n + 1) = Chunks(n + 1)
<1> DEFINE t == s \o Append(b, n + 1)
<1>1. /\ Len(s \o b) = Len(s) + Len(b)
      /\ \A i \in 1..(Len(s) + Len(b)) :
            (s \o b)[i] = IF i <= Len(s) THEN s[i] ELSE b[i - Len(s)]
  BY ConcatProperties
<1>2. Len(s) + Len(b) = n /\ Len(s) \in Nat /\ Len(b) \in Nat
  BY ChunksLength
<1>3. \A i \in 1..n : (IF i <= Len(s) THEN s[i] ELSE b[i - Len(s)]) = i
  BY <1>1, <1>2 DEF Chunks
<1>4. /\ Append(b, n + 1) \in Seq(Nat)
      /\ Len(Append(b, n + 1)) = Len(b) + 1
      /\ \A i \in 1..Len(b) : Append(b, n + 1)[i] = b[i]
      /\ Append(b, n + 1)[Len(b) + 1] = n + 1
  BY AppendProperties
<1>5. /\ t \in Seq(Nat)
      /\ Len(t) = n + 1
      /\ \A i \in 1..(n + 1) :
            t[i] = IF i <= Len(s) THEN s[i] ELSE Append(b, n + 1)[i - Len(s)]
  BY <1>2, <1>4, ConcatProperties
<1>6. ASSUME NEW i \in 1..(n + 1) PROVE t[i] = i
  <2>1. CASE i <= Len(s)
    BY <1>2, <1>3, <1>5, <2>1
  <2>2. CASE i > Len(s) /\ i <= n
    <3>1. i - Len(s) \in 1..Len(b)
      BY <1>2, <2>2
    <3>2. QED
      BY <1>2, <1>3, <1>4, <1>5, <2>2, <3>1
  <2>3. CASE i = n + 1
    BY <1>2, <1>4, <1>5, <2>3
  <2>4. QED
    BY <1>2, <2>1, <2>2, <2>3
<1>7. t = [i \in 1..(n + 1) |-> t[i]]
  BY <1>5, LenProperties
<1>8. QED
  BY <1>6, <1>7 DEF Chunks

LEMMA InitIInv == Init => IInv
<1>1. <<>> \o <<>> = [k \in 1..0 |-> k]
  <2>1. <<>> \in Seq(Nat)
    BY EmptySeq
  <2>2. <<>> \o <<>> = <<>>
    BY <2>1, ConcatEmptySeq
  <2>3. <<>> = [k \in 1..0 |-> k]
    OBVIOUS
  <2>4. QED
    BY <2>2, <2>3
<1>2. Init => InOrder
  BY <1>1 DEF Init, InOrder
<1>3. Init => TypeOK
  <2>1. <<>> \in Seq(Nat) /\ Len(<<>>) = 0
    OBVIOUS
  <2>2. Init => sent \in Seq(Nat) /\ Len(sent) = 0 /\ buffer \in Seq(Nat)
    BY <2>1 DEF Init
  <2>3. Init => produced \in Nat /\ produced = 0
    BY DEF Init
  <2>4. Init => Len(sent) <= produced
    <3>1. ASSUME Init PROVE Len(sent) = 0 /\ produced = 0
      BY <3>1, <2>2, <2>3
    <3>2. QED
      BY <3>1
  <2>5. QED
    BY <2>2, <2>3, <2>4 DEF Init, TypeOK
<1>4. QED
  BY <1>2, <1>3 DEF Init, IInv, NotForgotten, Ready

LEMMA StepIInv == IInv /\ [Next]_vars => IInv'
<1> SUFFICES ASSUME IInv, [Next]_vars PROVE IInv'
  OBVIOUS
<1> USE DEF IInv, TypeOK, InOrder, NotForgotten, Ready, sbufVars
<1>1. CASE OnAudio
  <2>1. sent \o buffer' = [k \in 1..(produced + 1) |-> k]
    <3>1. sent \in Seq(Nat) /\ buffer \in Seq(Nat) /\ produced \in Nat
      OBVIOUS
    <3>2. sent \o Append(buffer, produced + 1) = Chunks(produced + 1)
      BY <3>1, AppendChunk DEF Chunks
    <3>3. QED
      BY <1>1, <3>2 DEF OnAudio, Chunks
  <2>2. buffer' \in Seq(Nat) /\ produced' \in Nat /\ Len(sent) <= produced'
    BY <1>1 DEF OnAudio
  <2>3. QED
    BY <1>1, <2>1, <2>2 DEF OnAudio, Locked, Notify
<1>2. CASE Finish
  BY <1>2 DEF Finish, Locked, Notify
<1>3. CASE LoopShutdown
  BY <1>3 DEF LoopShutdown, End
<1>4. CASE LoopNotWritable
  BY <1>4 DEF LoopNotWritable, End
<1>5. CASE LoopProvide
  BY <1>5 DEF LoopProvide, Proceed
<1>6. CASE Write
  <2>1. (sent \o buffer) \o <<>> = sent \o buffer /\ sent \o buffer \in Seq(Nat)
    OBVIOUS
  <2>2. sent' \o buffer' = [k \in 1..produced' |-> k]
    BY <1>6, <2>1 DEF Write
  <2>3. Len(sent') <= produced'
    BY <1>6 DEF Write
  <2>4. QED
    BY <1>6, <2>1, <2>2, <2>3 DEF Write
<1>7. CASE WriteFails
  BY <1>7 DEF WriteFails, End
<1>8. CASE CheckMore
  BY <1>8 DEF CheckMore
<1>9. CASE CheckDone
  BY <1>9 DEF CheckDone, End
<1>10. CASE Wake
  BY <1>10 DEF Wake, Proceed
<1>11. CASE ClientGone
  BY <1>11 DEF ClientGone
<1>12. CASE Stop
  BY <1>12 DEF Stop
<1>13. CASE UNCHANGED vars
  BY <1>13 DEF vars
<1>14. QED
  BY <1>1, <1>2, <1>3, <1>4, <1>5, <1>6, <1>7, <1>8, <1>9, <1>10, <1>11, <1>12, <1>13
  DEF Next, WorkerStep, ProviderStep, Over

\* The inductive invariant holds for every number of chunks: what the mutex
\* and the notifications of StreamBuf are for.
THEOREM Invariant == Spec => []IInv
<1>1. Init => IInv
  BY InitIInv
<1>2. IInv /\ [Next]_vars => IInv'
  BY StepIInv
<1>3. QED
  BY <1>1, <1>2, PTL DEF Spec

\* Every chunk on_audio is given is sent or buffered, once and in order.
THEOREM Ordered == Spec => []InOrder
<1>1. IInv => InOrder
  BY DEF IInv
<1>2. QED
  BY <1>1, Invariant, PTL

\* A response with its last chunk marker carries the whole audio.
THEOREM Whole == Spec => []CompleteIsWhole
<1>1. IInv => CompleteIsWhole
  <2> SUFFICES ASSUME IInv, response = "complete" PROVE wpc = "end" /\ Len(sent) = produced
    BY DEF CompleteIsWhole
  <2>1. buffer = <<>> /\ wpc = "end"
    BY DEF IInv
  <2>2. Len(sent) = produced
    BY <2>1, ChunksLength DEF IInv, TypeOK, InOrder, Chunks
  <2>3. QED
    BY <2>1, <2>2
<1>2. QED
  BY <1>1, Invariant, PTL

\* The provider never sleeps through the chunk or the end it waits for.
THEOREM NoLostWakeup == Spec => []NotForgotten
<1>1. IInv => NotForgotten
  BY DEF IInv
<1>2. QED
  BY <1>1, Invariant, PTL
=============================================================================
