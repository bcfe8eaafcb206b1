---------------------------- MODULE StreamBuffer ----------------------------
(***************************************************************************)
(* One response of POST /v1/audio/speech/stream: the detached worker fills *)
(* a StreamBuf, the chunked content provider empties it into the socket    *)
(* (src/server/server.cpp), httplib calls the provider until it is done    *)
(* (third_party/httplib/httplib.h, write_content_chunked).                 *)
(*                                                                         *)
(* The k-th chunk the family emits is the number k; each was encoded as a  *)
(* WAV file of its own.  Which session the worker computes with is module  *)
(* ModelSlots.                                                             *)
(***************************************************************************)
EXTENDS Naturals, Sequences

CONSTANT MaxChunks  \* bound: chunks a run_tts call emits

VARIABLES
    wpc,       \* the worker: "run" in run_tts, "end" afterwards
    produced,  \* how many chunks it has emitted
    buffer,    \* StreamBuf::buffer
    done,      \* StreamBuf::done
    ok,        \* StreamBuf::ok
    notified,  \* a notify_one reached the provider in cv.wait
    ppc,       \* the pool thread: where it is in the loop and the provider
    sent,      \* the chunks the socket took
    response,  \* "open", or how the chunked response ended
    client,    \* the other end of the socket
    stopping   \* svr_sock_ == INVALID_SOCKET

sbufVars == <<buffer, done, ok>>
vars == <<wpc, produced, sbufVars, notified, ppc, sent, response, client, stopping>>

Init ==
    /\ wpc = "run"
    /\ produced = 0
    /\ buffer = <<>>
    /\ done = FALSE
    /\ ok = TRUE
    /\ notified = FALSE
    /\ ppc = "loop"
    /\ sent = <<>>
    /\ response = "open"
    /\ client = "reading"
    /\ stopping = FALSE

-----------------------------------------------------------------------------
\* sbuf->mtx is the provider's while it writes to the socket and then looks
\* at done; every other critical section is one step.
Locked == ppc \in {"write", "check"}

\* cv.notify_one() reaches the provider only while it waits.
Notify == notified' = (notified \/ ppc = "wait")

\* on_audio: append and notify; it always asks the family to go on.
OnAudio ==
    /\ wpc = "run" /\ produced < MaxChunks
    /\ ~Locked
    /\ produced' = produced + 1
    /\ buffer' = Append(buffer, produced + 1)
    /\ Notify
    /\ UNCHANGED <<wpc, done, ok, ppc, sent, response, client, stopping>>

\* Mutant: the worker does not notify at the end.
FinishSilently ==
    /\ wpc = "run" /\ ~Locked
    /\ \E result \in BOOLEAN : ok' = result
    /\ done' = TRUE
    /\ wpc' = "end"
    /\ UNCHANGED <<produced, buffer, notified, ppc, sent, response, client, stopping>>

\* run_tts returns, with or without an error.
Finish ==
    /\ wpc = "run" /\ ~Locked
    /\ \E result \in BOOLEAN : ok' = result
    /\ done' = TRUE
    /\ wpc' = "end"
    /\ Notify
    /\ UNCHANGED <<produced, buffer, ppc, sent, response, client, stopping>>

-----------------------------------------------------------------------------
End(how) == response' = how /\ ppc' = "ended"

\* while (data_available && !is_shutting_down()) ...: the loop ends quietly
\* when the server stops; the response stays without its last chunk marker.
LoopShutdown ==
    /\ ppc = "loop" /\ stopping
    /\ End("truncated")
    /\ UNCHANGED <<wpc, produced, sbufVars, notified, sent, client, stopping>>

\* ... if (!strm.is_writable()) return false ...
LoopNotWritable ==
    /\ ppc = "loop" /\ ~stopping
    /\ client = "gone"
    /\ End("aborted")
    /\ UNCHANGED <<wpc, produced, sbufVars, notified, sent, client, stopping>>

Ready == buffer # <<>> \/ done

\* Where the provider goes on once its predicate holds.
Proceed == ppc' = IF buffer # <<>> THEN "write" ELSE "check"

\* ... else call the provider: lock, and wait unless there is something.  A
\* client that is gone may not be noticed by is_writable.
LoopProvide ==
    /\ ppc = "loop" /\ ~stopping
    /\ IF Ready THEN Proceed ELSE ppc' = "wait"
    /\ notified' = FALSE
    /\ UNCHANGED <<wpc, produced, sbufVars, sent, response, client, stopping>>

\* cv.wait returns, notified or spuriously, and tests the predicate again.
Wake ==
    /\ ppc = "wait"
    /\ IF Ready THEN Proceed ELSE UNCHANGED ppc
    /\ notified' = FALSE
    /\ UNCHANGED <<wpc, produced, sbufVars, sent, response, client, stopping>>

\* Mutant: the buffer is not cleared after the write.
WriteKeeps ==
    /\ ppc = "write"
    /\ sent' = sent \o buffer
    /\ ppc' = "check"
    /\ UNCHANGED <<wpc, produced, sbufVars, notified, response, client, stopping>>

\* sink.write takes everything, and the buffer is cleared.
Write ==
    /\ ppc = "write"
    /\ sent' = sent \o buffer
    /\ buffer' = <<>>
    /\ ppc' = "check"
    /\ UNCHANGED <<wpc, produced, done, ok, notified, response, client, stopping>>

\* The socket fails or its 600 s write timeout expires: return false.
WriteFails ==
    /\ ppc = "write"
    /\ End("aborted")
    /\ UNCHANGED <<wpc, produced, sbufVars, notified, sent, client, stopping>>

\* Not done yet: return true, and the loop goes on.
CheckMore ==
    /\ ppc = "check" /\ ~done
    /\ ppc' = "loop"
    /\ UNCHANGED <<wpc, produced, sbufVars, notified, sent, response, client, stopping>>

\* sink.done() writes the last chunk marker, before sbuf->ok is looked at; or
\* the socket refuses it.
CheckDone ==
    /\ ppc = "check" /\ done
    /\ \E how \in {"complete", "aborted"} : End(how)
    /\ UNCHANGED <<wpc, produced, sbufVars, notified, sent, client, stopping>>

-----------------------------------------------------------------------------
\* The client disconnects.
ClientGone ==
    /\ client = "reading"
    /\ client' = "gone"
    /\ UNCHANGED <<wpc, produced, sbufVars, notified, ppc, sent, response, stopping>>

\* Server::stop() (module Shutdown).
Stop ==
    /\ ~stopping
    /\ stopping' = TRUE
    /\ UNCHANGED <<wpc, produced, sbufVars, notified, ppc, sent, response, client>>

WorkerStep == OnAudio \/ Finish
ProviderStep ==
    \/ LoopShutdown \/ LoopNotWritable \/ LoopProvide
    \/ Write \/ WriteFails \/ CheckMore \/ CheckDone

Over == wpc = "end" /\ ppc = "ended" /\ UNCHANGED vars

Next == WorkerStep \/ ProviderStep \/ Wake \/ ClientGone \/ Stop \/ Over

Spec == Init /\ [][Next]_vars

-----------------------------------------------------------------------------
(* Properties *)

TypeOK ==
    /\ wpc \in {"run", "end"}
    /\ produced \in Nat
    /\ buffer \in Seq(Nat)
    /\ done \in BOOLEAN /\ ok \in BOOLEAN /\ notified \in BOOLEAN
    /\ ppc \in {"loop", "wait", "write", "check", "ended"}
    /\ sent \in Seq(Nat) /\ Len(sent) <= produced
    /\ response \in {"open", "complete", "aborted", "truncated"}
    /\ client \in {"reading", "gone"}
    /\ stopping \in BOOLEAN

\* Every chunk the family emitted was sent, or is buffered, exactly once and
\* in order: however the worker's appends fall between the provider's write
\* and its clear.
InOrder == sent \o buffer = [k \in 1..produced |-> k]

\* A response that ends with its last chunk marker is whole: it carries every
\* chunk of a worker that had finished.
CompleteIsWhole == response = "complete" => wpc = "end" /\ Len(sent) = produced

\* No lost wakeup: the provider is not left waiting for a worker that is done.
NotForgotten == ppc = "wait" /\ Ready => notified

\* The inductive invariant behind the three.
IInv ==
    /\ TypeOK
    /\ InOrder
    /\ NotForgotten
    /\ done <=> wpc = "end"
    /\ ppc = "write" => buffer # <<>>
    /\ ppc = "check" => buffer = <<>>
    /\ response = "complete" => done /\ buffer = <<>>
    /\ response # "open" <=> ppc = "ended"
=============================================================================
