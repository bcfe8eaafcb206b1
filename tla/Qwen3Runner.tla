---------------------------- MODULE Qwen3Runner ----------------------------
(***************************************************************************)
(* The runner every session computes its transformers with                 *)
(* (framework/models/qwen3/runner.cpp): a llama.cpp context with its KV    *)
(* cache, an optional second context, and tables read beside the model.    *)
(*                                                                         *)
(* A runner is a record [kv, kv2]: how many rows each cache holds.  A      *)
(* forward pass is the set of its outcomes [why, r]: why it was refused    *)
(* ("none" when it was not) and the runner it leaves.  llama.cpp, which    *)
(* the repository takes from a submodule, decodes a batch only if its      *)
(* positions continue the cached ones and fit the context.                 *)
(***************************************************************************)
EXTENDS Naturals, Sequences, FiniteSets

CONSTANTS
    NCtx,     \* rows a context holds (RunnerConfig::n_ctx)
    NUBatch   \* rows of a physical batch

ASSUME RunnerAssumption == NCtx \in Nat \ {0} /\ NUBatch \in Nat \ {0}

CacheRows == 0..NCtx
NoContext == NCtx + 1  \* kv2 of a runner without a second context

Runners == [kv : CacheRows, kv2 : CacheRows \cup {NoContext}]

Loaded == [kv |-> 0, kv2 |-> NoContext]

\* llama_decode on a cache of len rows: n rows from position pos.
Verdict(len, n, pos) ==
    IF pos # len THEN "positions" ELSE IF pos + n > NCtx THEN "context" ELSE "none"

\* What a pass comes to that llama_decode judges so: it may also fail of itself,
\* before its rows are in the cache or after, when one of its outputs is null.
Outcomes(why, before, after) ==
    {[why |-> "fault", r |-> before]} \cup
    (IF why = "none" THEN {[why |-> w, r |-> after] : w \in {"none", "fault"}}
     ELSE {[why |-> why, r |-> before]})

\* One decode on the main cache.
Decode(r, n, pos) == Outcomes(Verdict(r.kv, n, pos), r, [r EXCEPT !.kv = pos + n])

ForwardTokens(r, n, pos) == Decode(r, n, pos)
ForwardGetEmbeddings(r, n, pos) == Decode(r, n, pos)

\* Embeddings go in chunks of NUBatch rows; the chunks before a refused one
\* stay in the cache.
ForwardEmbeddings(r, n, pos) ==
    IF pos # r.kv THEN {[why |-> "positions", r |-> r]}
    ELSE LET Before(i) == [r EXCEPT !.kv = pos + i * NUBatch]
             size(i) == IF n < (i + 1) * NUBatch THEN n - i * NUBatch ELSE NUBatch
             reached == {i \in 0..n : i * NUBatch < n /\ pos + i * NUBatch <= NCtx}
             refused == {i \in reached : pos + i * NUBatch + size(i) > NCtx}
         IN  {[why |-> "fault", r |-> Before(i)] : i \in reached} \cup
             {[why |-> "context", r |-> Before(i)] : i \in refused} \cup
             (IF pos + n > NCtx THEN {}
              ELSE {[why |-> w, r |-> [r EXCEPT !.kv = pos + n]] : w \in {"none", "fault"}})

ClearKv(r) == [r EXCEPT !.kv = 0]

-----------------------------------------------------------------------------
(* The second context, for guidance: the same weights, a cache of its own. *)

HasSecondary(r) == r.kv2 # NoContext

InitSecondary(r) ==
    IF HasSecondary(r) THEN {[why |-> "none", r |-> r]}
    ELSE {[why |-> "none", r |-> [r EXCEPT !.kv2 = 0]], [why |-> "fault", r |-> r]}

ClearSecondary(r) == IF HasSecondary(r) THEN [r EXCEPT !.kv2 = 0] ELSE r

ForwardTokensSecondary(r, n, pos) ==
    IF ~HasSecondary(r) THEN {[why |-> "fault", r |-> r]}
    ELSE Outcomes(Verdict(r.kv2, n, pos), r, [r EXCEPT !.kv2 = pos + n])

-----------------------------------------------------------------------------
(* The code predictor: one sub-step per fine codebook, each from an empty  *)
(* cache with the rows of all sub-steps before it.                         *)

\* predict_one_step, for asked books on a runner whose tables hold books.
PredictOneStep(r, asked, books) ==
    IF books = 0 \/ asked # books THEN {[why |-> "fault", r |-> r]}
    ELSE {[why |-> "fault", r |-> ClearKv(r)]} \cup
         UNION {{[o EXCEPT !.why = IF k + 1 = books \/ @ # "none" THEN @ ELSE "fault"]
                 : o \in Decode(ClearKv(r), k + 2, 0)} : k \in 0..(books - 1)}
=============================================================================
