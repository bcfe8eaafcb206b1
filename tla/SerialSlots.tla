---------------------------- MODULE SerialSlots ----------------------------
(***************************************************************************)
(* What the HTTP server promises its callers about a model slot, without   *)
(* threads, locks or pointers: a slot holds at most one model, the model   *)
(* is computed with by at most one request at a time, and it is neither    *)
(* loaded over nor unloaded while a request computes with it.              *)
(***************************************************************************)
CONSTANTS Slots,    \* the configured model ids
          Callers   \* whoever may compute with a model

VARIABLES resident, \* resident[s]: slot s offers a model to requests
          users     \* users[s]: the callers that compute with it

vars == <<resident, users>>

Init == /\ resident \in [Slots -> BOOLEAN]
        /\ users = [s \in Slots |-> {}]

\* A model becomes available in an empty slot.
Load(s) == /\ ~resident[s]
           /\ users[s] = {}
           /\ resident' = [resident EXCEPT ![s] = TRUE]
           /\ UNCHANGED users

\* The model is withdrawn: only from a slot nobody computes with.
Unload(s) == /\ resident[s]
             /\ users[s] = {}
             /\ resident' = [resident EXCEPT ![s] = FALSE]
             /\ UNCHANGED users

\* Caller c starts to compute with the model of slot s, alone ...
Begin(c, s) == /\ resident[s]
               /\ users[s] = {}
               /\ users' = [users EXCEPT ![s] = {c}]
               /\ UNCHANGED resident

\* ... and is finished with it.
End(c, s) == /\ users[s] = {c}
             /\ users' = [users EXCEPT ![s] = {}]
             /\ UNCHANGED resident

Next == \E s \in Slots :
            \/ Load(s)
            \/ Unload(s)
            \/ \E c \in Callers : Begin(c, s) \/ End(c, s)

Spec == Init /\ [][Next]_vars
=============================================================================
