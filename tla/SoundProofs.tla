---------------------------- MODULE SoundProofs ----------------------------
(***************************************************************************)
(* Proofs about what turns a request into sound, apart from the speech     *)
(* models: for any lengths of prompts and clips, any sizes of chunks and   *)
(* tiles, any files and any sequence of requests.                          *)
(*                                                                         *)
(*  - An ACE-Step session: no forward pass starts behind the rows that are *)
(*    cached, and the DiT is conditioned on this request alone.            *)
(*  - The tiles of its autoencoder, and the chunks of MOSS-SFX, leave no   *)
(*    sample of a clip silent; MOSS-SFX's text encoder takes one text.     *)
(*  - The graphs: every tensor they read is filled for this call, and what *)
(*    the callers make room for is what one convolution after another does *)
(*    to the length of a signal.                                           *)
(*  - The boot: one model of a family, and the preferred file in a role.   *)
(*  - The sessions one after another: what is proved of each holds of all. *)
(***************************************************************************)
EXTENDS MCGeneration, SpeechProofs

-----------------------------------------------------------------------------
(* A session of ACE-Step *)

\* What a forward pass leaves, when its position is where the cache ends: it is
\* refused for another reason, or the cache has n rows more.
LEMMA DecodeContinues ==
    ASSUME NEW r \in Runners, NEW n \in Nat, NEW pos \in Nat, r.kv = pos,
           NEW o \in Decode(r, n, pos)
    PROVE  /\ o.r \in Runners /\ o.r.kv2 = r.kv2
           /\ o.why \in {"none", "fault", "context"}
           /\ o.why = "none" => o.r.kv = pos + n
BY RunnerAssumption DEF Decode, Outcomes, Verdict, Runners, CacheRows, NoContext

\* The same of the second context.
LEMMA SecondaryContinues ==
    ASSUME NEW r \in Runners, NEW n \in Nat, NEW pos \in Nat, HasSecondary(r) => r.kv2 = pos,
           NEW o \in ForwardTokensSecondary(r, n, pos)
    PROVE  /\ o.r \in Runners /\ o.r.kv = r.kv
           /\ o.why \in {"none", "fault", "context"}
           /\ o.why = "none" => o.r.kv2 = pos + n
BY RunnerAssumption
   DEF ForwardTokensSecondary, Outcomes, HasSecondary, Verdict, Runners, CacheRows, NoContext

\* The unconditional prefill leaves the main cache alone, and its rows in the
\* second.
LEMMA UncondPrefilled ==
    ASSUME NEW r \in Runners, NEW u \in PrefillUncond(r)
    PROVE  /\ u.r \in Runners /\ u.r.kv = r.kv
           /\ u.why \in {"none", "fault", "context"}
           /\ u.why = "none" /\ req.cfg => u.r.kv2 = PUncond
<1>1. CASE ~req.cfg
  BY <1>1 DEF PrefillUncond
<1>2. CASE req.cfg
  <2>1. PICK i \in InitSecondary(r) :
          u \in IF i.why # "none" THEN {i}
                ELSE ForwardTokensSecondary(ClearSecondary(i.r), PUncond, 0)
    BY <1>2 DEF PrefillUncond
  <2>2. i.r \in Runners /\ i.r.kv = r.kv /\ i.why \in {"none", "fault"}
    BY <2>1, RunnerAssumption DEF InitSecondary, Runners, CacheRows, NoContext
  <2>3. CASE i.why # "none"
    BY <2>1, <2>2, <2>3
  <2>4. CASE i.why = "none"
    <3> DEFINE c == ClearSecondary(i.r)
    <3>1. c \in Runners /\ c.kv = r.kv /\ (HasSecondary(c) => c.kv2 = 0)
      BY <2>2, RunnerAssumption DEF ClearSecondary, HasSecondary, Runners, CacheRows, NoContext
    <3>2. u \in ForwardTokensSecondary(c, PUncond, 0)
      BY <2>1, <2>4
    <3>3. PUncond \in Nat /\ 0 + PUncond = PUncond
      BY AceAssumption
    <3> HIDE DEF c
    <3>4. QED
      BY <3>1, <3>2, <3>3, SecondaryContinues
  <2>5. QED
    BY <2>3, <2>4
<1>3. QED
  BY <1>1, <1>2

\* Any pass leaves a runner and one of the verdicts.
LEMMA PassLeaves ==
    ASSUME NEW r \in Runners, NEW n \in Nat, NEW pos \in Nat,
           NEW o \in Decode(r, n, pos) \cup ForwardTokensSecondary(r, n, pos)
    PROVE  o.r \in Runners /\ o.why \in {"none", "fault", "positions", "context"}
BY RunnerAssumption
   DEF Decode, Outcomes, ForwardTokensSecondary, HasSecondary, Verdict, Runners, CacheRows, NoContext

-----------------------------------------------------------------------------
(* Where the weights are *)

\* Cloning and moving the weights change one field of what is known of them.
LEMMA WeightsLeft ==
    ASSUME weights \in [caches : BOOLEAN, home : Homes, detok : Homes \cup {"none"}]
    PROVE  /\ Cloned \in [caches : BOOLEAN, home : Homes, detok : Homes]
           /\ Cloned.caches = weights.caches /\ Cloned.home = weights.home
           /\ Cloned.detok \in {weights.detok, weights.home}
           /\ \A w \in Ensured :
                 /\ w \in [caches : BOOLEAN, home : Homes, detok : Homes \cup {"none"}]
                 /\ w.caches = weights.caches /\ w.detok = weights.detok
BY DEF Cloned, Ensured, Homes

-----------------------------------------------------------------------------
(* Positions *)

Reasoning == {"prefill_reasoning", "reason", "merge", "encode_text"}

\* Where a pass is about to start is where its cache ends.
PositionsInv ==
    /\ AceTypeOK
    /\ pc \in Reasoning => te.kv = 0
    /\ pc \in {"encode_repaint", "encode_cover", "start_lm", "prefill_reasoning"} => made = 0
    /\ pc = "prefill_reasoning" => lm.kv = 0
    /\ pc = "reason" => lm.kv = P1 + made
    /\ pc = "code" => made > 0 /\ lm.kv = P2 + made - 1
                      /\ (req.cfg => lm.kv2 = PUncond + made - 1)

LEMMA PositionsInit == AceInit => PositionsInv
BY RunnerAssumption
   DEF AceInit, PositionsInv, AceTypeOK, Loaded, Runners, CacheRows, NoContext, NoRequest,
       MusicRequests, MusicModes, Phases, Homes, Reasoning

\* What is refused for its position is the empty text, if that has tokens.
NullTextAlone ==
    refusal' = "positions" => refusal = "positions" \/ (NullTokens # 0 /\ EncodeLyrics)

LEMMA PositionsStep ==
    ASSUME PositionsInv, [AceNext]_aceVars
    PROVE  PositionsInv' /\ NullTextAlone
<1> USE AceAssumption
    DEF PositionsInv, NullTextAlone, AceTypeOK, sessionVars, Goto, Return, Phases, Reasoning
<1>1. CASE UnknownMode
  BY <1>1 DEF UnknownMode, Age, NoRequest, MusicRequests, MusicModes
<1>2. ASSUME NEW m \in MusicModes, NEW c \in Codes \cup {0}, NEW a \in Audio,
             NEW full \in BOOLEAN, NEW cfg \in BOOLEAN, RunMusic(m, c, a, full, cfg)
      PROVE  PositionsInv' /\ NullTextAlone
  BY <1>2 DEF RunMusic, Age, MusicRequests, MusicModes
<1>3. CASE EncodeRepaint
  BY <1>3 DEF EncodeRepaint, MusicRequests
<1>4. CASE EncodeCover
  BY <1>4 DEF EncodeCover, MusicRequests, PerCode
<1>5. CASE StartLm
  <2>1. ClearKv(lm) \in Runners /\ ClearKv(lm).kv = 0 /\ ClearKv(te) \in Runners
        /\ ClearKv(te).kv = 0
    BY RunnerAssumption DEF ClearKv, Runners, CacheRows
  <2>2. lm' = ClearKv(lm) /\ te' = ClearKv(te)
    BY <1>5 DEF StartLm
  <2>3. pc' \in {"idle", "merge", "prefill_reasoning"} /\ made' = made
    BY <1>5 DEF StartLm
  <2>4. made = 0
    BY <1>5 DEF StartLm
  <2>5. QED
    BY <1>5, <2>1, <2>2, <2>3, <2>4 DEF StartLm
<1>6. CASE PrefillReasoning
  <2>1. PICK o \in ForwardTokens(lm, P1, 0) :
          /\ lm' = o.r /\ refusal' = o.why
          /\ IF o.why = "none" THEN \E next \in {"reason", "merge"} : Goto(next) ELSE Return
    BY <1>6 DEF PrefillReasoning
  <2>2. /\ o.r \in Runners /\ o.why \in {"none", "fault", "context"}
        /\ o.why = "none" => o.r.kv = P1
    BY <1>6, <2>1, DecodeContinues DEF PrefillReasoning, ForwardTokens
  <2>3. QED
    BY <1>6, <2>1, <2>2 DEF PrefillReasoning
<1>7. CASE Reason
  <2>1. PICK o \in ForwardTokens(lm, 1, P1 + made) :
          /\ lm' = o.r /\ refusal' = o.why /\ made' = made + 1
          /\ IF o.why = "none" THEN \E next \in {"reason", "merge"} : Goto(next) ELSE Return
    BY <1>7 DEF Reason
  <2>2. /\ o.r \in Runners /\ o.why \in {"none", "fault", "context"}
        /\ o.why = "none" => o.r.kv = P1 + made + 1
    BY <1>7, <2>1, DecodeContinues DEF Reason, ForwardTokens
  <2>3. QED
    BY <1>7, <2>1, <2>2 DEF Reason
<1>8. CASE ReasonCut \/ CodesDone \/ DitDone \/ VaeDecode
  BY <1>8 DEF ReasonCut, CodesDone, DitDone, VaeDecode
<1>9. CASE Merge
  BY <1>9 DEF Merge, MusicRequests
<1>10. CASE EncodeText
  <2>1. CASE Return /\ UNCHANGED <<te, cond, refusal>>
    BY <1>10, <2>1 DEF EncodeText
  <2>2. ASSUME NEW o \in ForwardGetEmbeddings(te, TeLen, 0),
               te' = o.r, refusal' = o.why, cond' = [cond EXCEPT !.te = "this"],
               IF o.why = "none" THEN Goto("encode_lyrics") ELSE Return
        PROVE  PositionsInv' /\ NullTextAlone
    <3>1. o.r \in Runners /\ o.why \in {"none", "fault", "context"}
      BY <1>10, <2>2, DecodeContinues DEF EncodeText, ForwardGetEmbeddings
    <3>2. QED
      BY <1>10, <2>2, <3>1 DEF EncodeText
  <2>3. QED
    BY <1>10, <2>1, <2>2 DEF EncodeText
<1>11. CASE EncodeLyrics
  <2>1. NullTokens = 0 => UNCHANGED refusal
    BY <1>11 DEF EncodeLyrics
  <2>2. te' \in Runners /\ refusal' \in {"none", "fault", "positions", "context"}
    BY <1>11, PassLeaves DEF EncodeLyrics, ForwardGetEmbeddings
  <2>3. cond' \in [{"te", "lyric", "src"} -> {"none", "earlier", "this"}]
    BY <1>11 DEF EncodeLyrics
  <2>4. pc' \in {"idle", "prefill_codes"} /\ UNCHANGED <<lm, lat, weights, req, todo, made>>
    BY <1>11 DEF EncodeLyrics
  <2>5. QED
    BY <1>11, <2>1, <2>2, <2>3, <2>4
<1>12. CASE PrefillCodes
  <2>1. CASE Return /\ UNCHANGED <<lm, made, refusal>>
    BY <1>12, <2>1 DEF PrefillCodes
  <2>2. ASSUME NEW u \in PrefillUncond(ClearKv(lm)),
               NEW o \in IF u.why = "none" THEN ForwardTokens(u.r, P2, 0) ELSE {u},
               lm' = o.r, refusal' = o.why,
               \/ o.why = "none" /\ made' = 1 /\ Goto("code")
               \/ UNCHANGED made /\ Return
        PROVE  PositionsInv' /\ NullTextAlone
    <3>1. ClearKv(lm) \in Runners /\ ClearKv(lm).kv = 0
      BY RunnerAssumption DEF ClearKv, Runners, CacheRows
    <3>2. /\ u.r \in Runners /\ u.r.kv = 0 /\ u.why \in {"none", "fault", "context"}
          /\ u.why = "none" /\ req.cfg => u.r.kv2 = PUncond
      BY <2>2, <3>1, UncondPrefilled
    <3>3. /\ o.r \in Runners /\ o.why \in {"none", "fault", "context"}
          /\ o.why = "none" => o.r.kv = P2 /\ (req.cfg => o.r.kv2 = PUncond)
      <4>1. CASE u.why = "none"
        BY <2>2, <3>2, <4>1, DecodeContinues DEF ForwardTokens
      <4>2. CASE u.why # "none"
        BY <2>2, <3>2, <4>2
      <4>3. QED
        BY <4>1, <4>2
    <3>4. QED
      BY <1>12, <2>2, <3>3 DEF PrefillCodes
  <2>3. QED
    BY <1>12, <2>1, <2>2 DEF PrefillCodes
<1>13. CASE NextCode
  <2>1. PICK o \in ForwardTokens(lm, 1, P2 + made - 1) :
        \E u \in IF o.why = "none" /\ req.cfg
                 THEN ForwardTokensSecondary(o.r, 1, PUncond + made - 1) ELSE {o} :
          /\ lm' = u.r /\ refusal' = u.why
          /\ IF u.why # "none" THEN UNCHANGED made /\ Return
             ELSE \/ made' = made + 1 /\ Goto("code")
                  \/ UNCHANGED made /\ Goto("detokenize")
    BY <1>13 DEF NextCode
  <2>2. PICK u \in IF o.why = "none" /\ req.cfg
                   THEN ForwardTokensSecondary(o.r, 1, PUncond + made - 1) ELSE {o} :
          /\ lm' = u.r /\ refusal' = u.why
          /\ IF u.why # "none" THEN UNCHANGED made /\ Return
             ELSE \/ made' = made + 1 /\ Goto("code")
                  \/ UNCHANGED made /\ Goto("detokenize")
    BY <2>1
  <2>3. P2 + made - 1 \in Nat /\ PUncond + made - 1 \in Nat /\ lm.kv = P2 + made - 1
        /\ (req.cfg => lm.kv2 = PUncond + made - 1)
    BY <1>13 DEF NextCode
  <2>4. /\ o.r \in Runners /\ o.r.kv2 = lm.kv2 /\ o.why \in {"none", "fault", "context"}
        /\ o.why = "none" => o.r.kv = P2 + made
    <3>1. o.why = "none" => o.r.kv = P2 + made - 1 + 1
      BY <2>1, <2>3, DecodeContinues DEF ForwardTokens
    <3>2. QED
      BY <2>1, <2>3, <3>1, DecodeContinues DEF ForwardTokens
  <2>5. /\ u.r \in Runners /\ u.why \in {"none", "fault", "context"}
        /\ u.why = "none" => u.r.kv = P2 + made /\ (req.cfg => u.r.kv2 = PUncond + made)
    <3>1. CASE o.why = "none" /\ req.cfg
      <4>1. u.why = "none" => u.r.kv2 = PUncond + made - 1 + 1
        BY <2>2, <2>3, <2>4, <3>1, SecondaryContinues
      <4>2. QED
        BY <2>2, <2>3, <2>4, <3>1, <4>1, SecondaryContinues
    <3>2. CASE ~(o.why = "none" /\ req.cfg)
      BY <2>2, <2>4, <3>2
    <3>3. QED
      BY <3>1, <3>2
  <2>6. QED
    BY <1>13, <2>2, <2>5 DEF NextCode
<1>14. CASE Detokenize
  <2>1. made * PerCode \in Nat
    BY DEF PerCode
  <2>2. lat' \in [src : Nat, repaint : Nat, cover : Nat]
    BY <1>14, <2>1 DEF Detokenize
  <2>3. cond' \in [{"te", "lyric", "src"} -> {"none", "earlier", "this"}]
    BY <1>14 DEF Detokenize
  <2>4. weights' \in [caches : BOOLEAN, home : Homes, detok : Homes \cup {"none"}]
    BY <1>14, WeightsLeft DEF Detokenize
  <2>5. QED
    BY <1>14, <2>2, <2>3, <2>4 DEF Detokenize
<1>15. CASE BuildContext
  <2>1. weights' \in [caches : BOOLEAN, home : Homes, detok : Homes \cup {"none"}]
    BY <1>15 DEF BuildContext
  <2>2. /\ UNCHANGED <<lm, te, cond, lat, req, todo, refusal>>
        /\ made' \in {made, 0} /\ pc' \in {"idle", "dit"}
    BY <1>15 DEF BuildContext
  <2>3. QED
    BY <2>1, <2>2
<1>16. CASE DitStep
  BY <1>16, WeightsLeft DEF DitStep
<1>17. CASE UNCHANGED aceVars
  BY <1>17 DEF aceVars
<1>18. QED
  BY <1>1, <1>2, <1>3, <1>4, <1>5, <1>6, <1>7, <1>8, <1>9, <1>10, <1>11, <1>12, <1>13,
     <1>14, <1>15, <1>16, <1>17 DEF AceNext

\* Whatever earlier requests left in the caches, and whatever failed since, the
\* only pass that is refused for its position is that of the empty text, which
\* session.cpp:1024-1034 encodes at position 0 behind the caption.
THEOREM OnlyNullTextRefused == AceSpec => [][NullTextAlone]_aceVars
<1>1. PositionsInv /\ [AceNext]_aceVars => PositionsInv'
  BY PositionsStep
<1>2. PositionsInv /\ [AceNext]_aceVars => [NullTextAlone]_aceVars
  BY PositionsStep
<1>3. QED
  BY PositionsInit, <1>1, <1>2, PTL DEF AceSpec

\* So no pass is (AcePositions) when the empty text has no tokens, as it has none
\* in Qwen3's vocabulary.
THEOREM AcePositionsHold == NullTokens = 0 => (AceSpec => []AcePositions)
<1> SUFFICES ASSUME NullTokens = 0 PROVE AceSpec => []AcePositions
  OBVIOUS
<1>1. AceInit => AcePositions
  BY DEF AceInit, AcePositions
<1>2. AcePositions /\ [NullTextAlone]_aceVars => AcePositions'
  BY DEF AcePositions, NullTextAlone, aceVars
<1>3. QED
  BY <1>1, <1>2, OnlyNullTextRefused, PTL DEF AceSpec

-----------------------------------------------------------------------------
(* Conditioning *)

Prompting == {"start_lm", "prefill_reasoning", "reason", "merge", "encode_text"}
Coding == {"prefill_codes", "code", "detokenize"}
Diffusing == {"dit", "vae"}

\* What the session's buffers tell of the request, phase by phase.
ConditioningInv ==
    /\ AceTypeOK
    /\ pc = "encode_repaint" => req.mode = "repaint" /\ lat.repaint = 0
    /\ pc \notin {"idle", "encode_repaint"} => (lat.repaint > 0 <=> req.mode = "repaint")
    /\ pc \in Prompting \cup {"encode_lyrics"} \cup Coding => req.mode # "cover" /\ lat.cover = 0
    /\ pc \in {"context"} \cup Diffusing => (lat.cover > 0 <=> req.mode = "cover")
    /\ pc \in {"encode_lyrics"} \cup Coding => cond.te = "this"
    /\ pc \in Coding => cond.lyric = "this"
    /\ pc \in {"context"} \cup Diffusing /\ req.mode # "cover" =>
          /\ cond = [te |-> "this", lyric |-> "this", src |-> "this"]
          /\ weights.detok # "none"
    /\ pc \in Diffusing \/ weights.home = "gpu" => weights.caches

LEMMA ConditioningInit == AceInit => ConditioningInv
BY RunnerAssumption
   DEF AceInit, ConditioningInv, AceTypeOK, Loaded, Runners, CacheRows, NoContext, NoRequest,
       MusicRequests, MusicModes, Phases, Homes, Prompting, Coding, Diffusing

\* The phases of the request change what the invariant speaks of; the runners'
\* types are kept by AceTypeStays.
LEMMA ConditioningStep ==
    ASSUME ConditioningInv, AceTypeOK', [AceNext]_aceVars
    PROVE  ConditioningInv'
<1> USE AceAssumption
    DEF ConditioningInv, AceTypeOK, sessionVars, Goto, Return, Phases, Prompting, Coding,
        Diffusing
<1>1. CASE UnknownMode
  BY <1>1 DEF UnknownMode
<1>2. ASSUME NEW m \in MusicModes, NEW c \in Codes \cup {0}, NEW a \in Audio,
             NEW full \in BOOLEAN, NEW cfg \in BOOLEAN, RunMusic(m, c, a, full, cfg)
      PROVE  ConditioningInv'
  <2>1. lat'.repaint = 0 /\ weights' = weights /\ req'.mode = m
    BY <1>2 DEF RunMusic
  <2>2. pc' = IF m = "repaint" THEN "encode_repaint" ELSE "encode_cover"
    BY <1>2 DEF RunMusic
  <2>3. pc # "vae" /\ pc # "dit" /\ (weights.home = "gpu" => weights.caches)
    BY <1>2 DEF RunMusic
  <2>4. QED
    BY <2>1, <2>2, <2>3
<1>3. CASE EncodeRepaint
  BY <1>3 DEF EncodeRepaint
<1>4. CASE EncodeCover
  <2>1. lat'.repaint = lat.repaint /\ req' = req /\ weights' = weights
    BY <1>4 DEF EncodeCover
  <2>2. \/ pc' = "idle"
        \/ pc' = "context" /\ req.mode = "cover" /\ lat'.cover > 0
        \/ pc' = "start_lm" /\ req.mode # "cover" /\ lat'.cover = 0
    BY <1>4 DEF EncodeCover, PerCode, MusicRequests
  <2>3. lat.repaint > 0 <=> req.mode = "repaint"
    BY <1>4 DEF EncodeCover
  <2>4. weights.home = "gpu" => weights.caches
    OBVIOUS
  <2>5. QED
    BY <2>1, <2>2, <2>3, <2>4
<1>5. CASE StartLm
  BY <1>5 DEF StartLm
<1>6. CASE PrefillReasoning \/ Reason
  BY <1>6 DEF PrefillReasoning, Reason
<1>7. CASE ReasonCut \/ CodesDone \/ DitDone \/ VaeDecode
  BY <1>7 DEF ReasonCut, CodesDone, DitDone, VaeDecode
<1>8. CASE Merge
  BY <1>8 DEF Merge
<1>9. CASE EncodeText
  <2>1. pc' \in {"idle", "encode_lyrics"} /\ lat' = lat /\ weights' = weights /\ req' = req
    BY <1>9 DEF EncodeText
  <2>2. pc' = "encode_lyrics" => cond'.te = "this"
    BY <1>9 DEF EncodeText
  <2>3. pc = "encode_text"
    BY <1>9 DEF EncodeText
  <2>4. QED
    BY <2>1, <2>2, <2>3
<1>10. CASE EncodeLyrics
  BY <1>10 DEF EncodeLyrics
<1>11. CASE PrefillCodes
  BY <1>11 DEF PrefillCodes
<1>12. CASE NextCode
  BY <1>12 DEF NextCode
<1>13. CASE Detokenize
  <2>1. /\ pc' \in {"idle", "context"} /\ req' = req /\ req.mode # "cover"
        /\ lat'.cover = 0 /\ lat'.repaint = lat.repaint /\ weights'.home = weights.home
        /\ weights'.caches = weights.caches
    BY <1>13, WeightsLeft DEF Detokenize
  <2>2. pc' = "context" => cond' = [te |-> "this", lyric |-> "this", src |-> "this"]
    BY <1>13 DEF Detokenize
  <2>3. (lat.repaint > 0 <=> req.mode = "repaint") /\ (weights.home = "gpu" => weights.caches)
    BY <1>13 DEF Detokenize
  <2>4. Cloned.detok # "none"
    BY WeightsLeft DEF Homes
  <2>5. pc' = "context" => weights'.detok # "none"
    BY <1>13, <2>4 DEF Detokenize
  <2>6. QED
    BY <2>1, <2>2, <2>3, <2>5
<1>14. CASE BuildContext
  BY <1>14 DEF BuildContext
<1>15. CASE DitStep
  <2>1. weights'.caches = weights.caches /\ weights'.detok = weights.detok
    BY <1>15, WeightsLeft DEF DitStep
  <2>2. QED
    BY <1>15, <2>1 DEF DitStep
<1>16. CASE UNCHANGED aceVars
  BY <1>16 DEF aceVars
<1>17. QED
  BY <1>1, <1>2, <1>3, <1>4, <1>5, <1>6, <1>7, <1>8, <1>9, <1>10, <1>11, <1>12, <1>13,
     <1>14, <1>15, <1>16 DEF AceNext

LEMMA AceTypeStays == AceTypeOK /\ [AceNext]_aceVars => AceTypeOK'
<1> SUFFICES ASSUME AceTypeOK, [AceNext]_aceVars PROVE AceTypeOK'
  OBVIOUS
<1> DEFINE Whys == {"none", "fault", "positions", "context"}
<1> USE AceAssumption DEF AceTypeOK, sessionVars, Goto, Return, Phases
<1>1. ClearKv(lm) \in Runners /\ ClearKv(te) \in Runners
  BY RunnerAssumption DEF ClearKv, Runners, CacheRows
<1>2. CASE UnknownMode
  BY <1>2 DEF UnknownMode, Age, NoRequest, MusicRequests, MusicModes
<1>3. ASSUME NEW m \in MusicModes, NEW c \in Codes \cup {0}, NEW a \in Audio,
             NEW full \in BOOLEAN, NEW cfg \in BOOLEAN, RunMusic(m, c, a, full, cfg)
      PROVE  AceTypeOK'
  BY <1>3 DEF RunMusic, Age, MusicRequests, MusicModes
<1>4. CASE EncodeRepaint \/ EncodeCover
  BY <1>4 DEF EncodeRepaint, EncodeCover, MusicRequests, PerCode
<1>5. CASE StartLm
  BY <1>1, <1>5 DEF StartLm
<1>6. CASE PrefillReasoning
  <2>1. PICK o \in ForwardTokens(lm, P1, 0) : lm' = o.r /\ refusal' = o.why
    BY <1>6 DEF PrefillReasoning
  <2>2. o.r \in Runners /\ o.why \in Whys
    BY <2>1, PassLeaves DEF ForwardTokens
  <2>3. QED
    BY <1>6, <2>1, <2>2 DEF PrefillReasoning
<1>7. CASE Reason
  <2>1. PICK o \in ForwardTokens(lm, 1, P1 + made) : lm' = o.r /\ refusal' = o.why
    BY <1>7 DEF Reason
  <2>2. o.r \in Runners /\ o.why \in Whys
    BY <2>1, PassLeaves DEF ForwardTokens
  <2>3. QED
    BY <1>7, <2>1, <2>2 DEF Reason
<1>8. CASE ReasonCut \/ CodesDone \/ DitDone \/ VaeDecode \/ BuildContext \/ DitStep
  <2>1. CASE ReasonCut \/ CodesDone \/ DitDone \/ VaeDecode
    BY <2>1 DEF ReasonCut, CodesDone, DitDone, VaeDecode
  <2>2. CASE BuildContext
    <3>1. \/ pc' = "idle" /\ UNCHANGED <<weights, made>>
          \/ pc' = "dit" /\ weights' = [weights EXCEPT !.caches = TRUE] /\ made' = 0
      BY <2>2, ZenonT(30) DEF BuildContext
    <3>2. UNCHANGED <<lm, te, cond, lat, req, todo, refusal>>
      BY <2>2 DEF BuildContext
    <3>3. CASE pc' = "idle" /\ UNCHANGED <<weights, made>>
      BY <3>2, <3>3
    <3>4. CASE pc' = "dit" /\ weights' = [weights EXCEPT !.caches = TRUE] /\ made' = 0
      BY <3>2, <3>4
    <3>5. QED
      BY <3>1, <3>3, <3>4
  <2>3. CASE DitStep
    BY <2>3, WeightsLeft DEF DitStep
  <2>4. QED
    BY <1>8, <2>1, <2>2, <2>3
<1>9. CASE Merge
  BY <1>9 DEF Merge, MusicRequests
<1>10. ASSUME te' \in Runners, refusal' \in Whys,
              cond' \in [{"te", "lyric", "src"} -> {"none", "earlier", "this"}],
              pc' \in Phases, UNCHANGED <<lm, lat, weights, req, todo, made>>
       PROVE  AceTypeOK'
  BY <1>10
<1>11. CASE EncodeText
  <2>1. ASSUME NEW o \in ForwardGetEmbeddings(te, TeLen, 0)
        PROVE  o.r \in Runners /\ o.why \in Whys
    BY <2>1, PassLeaves DEF ForwardGetEmbeddings
  <2>2. te' \in Runners /\ refusal' \in Whys
    BY <1>11, <2>1 DEF EncodeText
  <2>3. QED
    BY <1>10, <1>11, <2>2 DEF EncodeText
<1>12. CASE EncodeLyrics
  <2>1. ASSUME NEW o \in ForwardGetEmbeddings(te, NullTokens, 0)
        PROVE  o.r \in Runners /\ o.why \in Whys
    BY <2>1, PassLeaves DEF ForwardGetEmbeddings
  <2>2. te' \in Runners /\ refusal' \in Whys
    BY <1>12, <2>1 DEF EncodeLyrics
  <2>3. QED
    BY <1>10, <1>12, <2>2 DEF EncodeLyrics
<1>13. ASSUME lm' \in Runners, refusal' \in Whys, made' \in Nat, pc' \in Phases,
              UNCHANGED <<te, cond, lat, weights, req, todo>>
       PROVE  AceTypeOK'
  BY <1>13
<1>14. CASE PrefillCodes
  <2>1. ASSUME NEW u \in PrefillUncond(ClearKv(lm)),
               NEW o \in IF u.why = "none" THEN ForwardTokens(u.r, P2, 0) ELSE {u}
        PROVE  o.r \in Runners /\ o.why \in Whys
    <3>1. u.r \in Runners /\ u.why \in Whys
      BY <1>1, UncondPrefilled
    <3>2. CASE u.why = "none"
      BY <2>1, <3>1, <3>2, PassLeaves DEF ForwardTokens
    <3>3. CASE u.why # "none"
      BY <2>1, <3>1, <3>3
    <3>4. QED
      BY <3>2, <3>3
  <2>2. lm' \in Runners /\ refusal' \in Whys
    BY <1>14, <2>1 DEF PrefillCodes
  <2>3. QED
    BY <1>13, <1>14, <2>2 DEF PrefillCodes
<1>15. CASE NextCode
  <2>1. P2 + made - 1 \in Nat /\ PUncond + made - 1 \in Nat
    OBVIOUS
  <2>2. ASSUME NEW o \in ForwardTokens(lm, 1, P2 + made - 1)
        PROVE  o.r \in Runners /\ o.why \in Whys
    BY <2>1, <2>2, PassLeaves DEF ForwardTokens
  <2>3. ASSUME NEW o \in ForwardTokens(lm, 1, P2 + made - 1),
               NEW u \in IF o.why = "none" /\ req.cfg
                         THEN ForwardTokensSecondary(o.r, 1, PUncond + made - 1) ELSE {o}
        PROVE  u.r \in Runners /\ u.why \in Whys
    <3>1. CASE o.why = "none" /\ req.cfg
      BY <2>1, <2>2, <2>3, <3>1, PassLeaves
    <3>2. CASE ~(o.why = "none" /\ req.cfg)
      BY <2>2, <2>3, <3>2
    <3>3. QED
      BY <3>1, <3>2
  <2>4. lm' \in Runners /\ refusal' \in Whys
    BY <1>15, <2>3 DEF NextCode
  <2>5. QED
    BY <1>13, <1>15, <2>4 DEF NextCode
<1>16. CASE Detokenize
  <2>1. made * PerCode \in Nat
    BY DEF PerCode
  <2>2. lat' \in [src : Nat, repaint : Nat, cover : Nat]
    BY <1>16, <2>1 DEF Detokenize
  <2>3. cond' \in [{"te", "lyric", "src"} -> {"none", "earlier", "this"}]
    BY <1>16 DEF Detokenize
  <2>4. weights' \in [caches : BOOLEAN, home : Homes, detok : Homes \cup {"none"}]
    BY <1>16, WeightsLeft DEF Detokenize
  <2>5. QED
    BY <1>16, <2>2, <2>3, <2>4 DEF Detokenize
<1>17. CASE UNCHANGED aceVars
  BY <1>17 DEF aceVars
<1>18. QED
  BY <1>2, <1>3, <1>4, <1>5, <1>6, <1>7, <1>8, <1>9, <1>11, <1>12, <1>14, <1>15, <1>16, <1>17
  DEF AceNext

\* An ACE-Step session's variables keep their types, whatever the empty text's
\* tokens and wherever a pass starts.
THEOREM AceTypes == AceSpec => []AceTypeOK
<1>1. AceInit => AceTypeOK
  BY PositionsInit DEF PositionsInv
<1>2. QED
  BY <1>1, AceTypeStays, PTL DEF AceSpec

\* While the DiT runs, the latents kept in the session tell this request's mode,
\* and, unless it is a cover, text, lyrics and codes are its own and the weights of
\* the detokenizer are cloned (AceConditioning), also when a pass is refused on the
\* way.
THEOREM AceConditioningHolds == AceSpec => []AceConditioning
<1>1. ConditioningInv /\ AceTypeOK' /\ [AceNext]_aceVars => ConditioningInv'
  BY ConditioningStep
<1>2. ConditioningInv => AceConditioning
  BY DEF ConditioningInv, AceConditioning, AceTypeOK, IsCover, IsRepaint, Diffusing
<1>3. QED
  BY ConditioningInit, AceTypes, <1>1, <1>2, PTL DEF AceSpec

\* The detokenizer's weights are cloned before they can move.
ClonedInv ==
    /\ AceTypeOK
    /\ weights.detok # "gpu"
    /\ pc \in {"context"} \cup Diffusing \/ weights.home = "gpu" => weights.detok # "none"

LEMMA ClonedStep ==
    ASSUME ClonedInv, AceTypeOK', req.mode # "cover", [AceNext]_aceVars
    PROVE  ClonedInv'
<1> USE DEF ClonedInv, Goto, Return, Diffusing
<1>1. CASE Detokenize
  <2>1. weights' = Cloned \/ (weights' = weights /\ pc' = "idle")
    BY <1>1 DEF Detokenize
  <2>2. weights \in [caches : BOOLEAN, home : Homes, detok : Homes \cup {"none"}]
    BY DEF AceTypeOK
  <2>3. weights.detok # "none" => Cloned.detok = weights.detok
    BY <2>2 DEF Cloned
  <2>4. weights.detok = "none" => Cloned.detok = weights.home /\ weights.home # "gpu"
    BY <2>2 DEF Cloned
  <2>5. Cloned.home = weights.home /\ Cloned.detok \in Homes
    BY <2>2, WeightsLeft
  <2>6. "none" \notin Homes
    BY DEF Homes
  <2>7. QED
    BY <2>1, <2>3, <2>4, <2>5, <2>6
<1>2. CASE DitStep
  <2>1. weights'.detok = weights.detok
    BY <1>2, WeightsLeft DEF DitStep, AceTypeOK
  <2>2. pc = "dit"
    BY <1>2 DEF DitStep
  <2>3. QED
    BY <2>1, <2>2
<1>3. CASE BuildContext
  <2>1. weights' = weights \/ weights' = [weights EXCEPT !.caches = TRUE]
    BY <1>3 DEF BuildContext
  <2>2. weights'.detok = weights.detok
    BY <2>1 DEF AceTypeOK
  <2>3. pc = "context"
    BY <1>3 DEF BuildContext
  <2>4. QED
    BY <2>2, <2>3
<1>4. CASE DitDone \/ VaeDecode \/ UNCHANGED aceVars
  BY <1>4 DEF DitDone, VaeDecode, aceVars, sessionVars
<1>5. ASSUME UNCHANGED weights, pc' \notin {"context"} \cup Diffusing
      PROVE  ClonedInv'
  BY <1>5
<1>6. CASE UnknownMode \/ EncodeRepaint \/ StartLm \/ PrefillReasoning \/ Reason \/ ReasonCut
  BY <1>5, <1>6 DEF UnknownMode, EncodeRepaint, StartLm, PrefillReasoning, Reason, ReasonCut,
     sessionVars
<1>7. CASE Merge \/ EncodeText \/ EncodeLyrics \/ PrefillCodes \/ NextCode \/ CodesDone
  BY <1>5, <1>7 DEF Merge, EncodeText, EncodeLyrics, PrefillCodes, NextCode, CodesDone, sessionVars
<1>8. CASE EncodeCover
  BY <1>5, <1>8 DEF EncodeCover
<1>9. ASSUME NEW m \in MusicModes, NEW c \in Codes \cup {0}, NEW a \in Audio,
             NEW full \in BOOLEAN, NEW cfg \in BOOLEAN, RunMusic(m, c, a, full, cfg)
      PROVE  ClonedInv'
  BY <1>5, <1>9 DEF RunMusic
<1>10. QED
  BY <1>1, <1>2, <1>3, <1>4, <1>6, <1>7, <1>8, <1>9 DEF AceNext

\* What detokenizer_runner.cpp:175-178 promises (DetokFromHost), and a cover that
\* comes first on a session breaks, holds of a session that no cover is asked of:
\* then every pass of the DiT comes after a detokenization.
THEOREM DetokOfSongs == AceSpec /\ [](req.mode # "cover") => []DetokFromHost
<1>1. AceInit => ClonedInv
  BY ConditioningInit DEF AceInit, ClonedInv, ConditioningInv, Diffusing
<1>2. ClonedInv /\ AceTypeOK' /\ req.mode # "cover" /\ [AceNext]_aceVars => ClonedInv'
  BY ClonedStep
<1>3. ClonedInv => DetokFromHost
  BY DEF ClonedInv, DetokFromHost
<1>4. QED
  BY <1>1, <1>2, <1>3, AceTypes, PTL DEF AceSpec

-----------------------------------------------------------------------------
(* The tiles of the autoencoder *)

LEMMA Times ==
    ASSUME NEW a \in Int, NEW b \in Int, NEW u \in Nat
    PROVE  /\ a * u \in Int /\ (a - b) * u = a * u - b * u
           /\ a < b => a * u + u <= b * u
           /\ a <= b => a * u <= b * u
<1>1. a * u \in Int /\ (a - b) * u = a * u - b * u
  OBVIOUS
<1>2. ASSUME NEW c \in Nat PROVE c * u >= 0
  OBVIOUS
<1>3. a <= b => a * u <= b * u
  <2> SUFFICES ASSUME a <= b PROVE a * u <= b * u
    OBVIOUS
  <2>1. (b - a) * u >= 0
    BY <1>2
  <2>2. QED
    BY <2>1
<1>4. a < b => a * u + u <= b * u
  <2> SUFFICES ASSUME a < b PROVE a * u + u <= b * u
    OBVIOUS
  <2>1. (b - a - 1) * u >= 0
    BY <1>2
  <2>2. (b - a - 1) * u = b * u - a * u - u
    OBVIOUS
  <2>3. QED
    BY <2>1, <2>2
<1>5. QED
  BY <1>1, <1>3, <1>4

\* The samples up to the end of a tile that ends at frame f, when another
\* follows: the last frame's first is still silent.
Upto(f) == (0 .. f * Up - 1) \ {(f - 1) * Up}

VaeInv ==
    /\ clip \in Nat /\ from \in Nat /\ slow \in BOOLEAN
    /\ where \in {"idle", "tile", "done", "failed"}
    /\ clip \in Clips \cup {0} /\ from <= clip /\ sound \subseteq 0 .. clip * Up - 1
    /\ where = "tile" =>
          /\ from < clip
          /\ \/ from = 0 /\ sound = {}
             \/ from > 0 /\ from + Lap < clip /\ sound = Upto(from + Lap)
    /\ where = "done" => sound = 0 .. clip * Up - 1

\* A sample is weighed by a tile unless the fade in or the fade out is zero there.
LEMMA WeighedIs ==
    ASSUME VaeInv, where = "tile", NEW x \in Int
    PROVE  x \in Weighed <=>
              /\ x \in from * Up .. To * Up - 1
              /\ ~(from > 0 /\ x = from * Up)
              /\ ~(To < clip /\ x = (To - 1) * Up)
<1> DEFINE F == from * Up
           L == To * Up
<1>1. To \in Nat /\ from \in Nat /\ Up \in Nat \ {0, 1}
  BY VaeAssumption DEF VaeInv, To
<1>2. F \in Int /\ L \in Int /\ (To - from) * Up = L - F
  BY <1>1, Times
<1>3. (To - from - 1) * Up = L - F - Up /\ (To - 1) * Up = L - Up
  <2>1. To - from \in Int /\ To \in Int /\ 1 \in Int /\ 1 * Up = Up
    BY <1>1
  <2>2. (To - from - 1) * Up = (To - from) * Up - 1 * Up /\ (To - 1) * Up = To * Up - 1 * Up
    BY <1>1, <2>1, Times
  <2>3. QED
    BY <1>2, <2>1, <2>2
<1>4. Weighed = {F + i : i \in {j \in 0 .. L - F - 1 :
                                  ~(from > 0 /\ j = 0) /\ ~(To < clip /\ j = L - F - Up)}}
  BY <1>2, <1>3 DEF Weighed, FadedIn, FadedOut
<1> HIDE DEF F, L
<1>5. x \in Weighed <=> /\ x - F \in 0 .. L - F - 1
                        /\ ~(from > 0 /\ x - F = 0) /\ ~(To < clip /\ x - F = L - F - Up)
  <2>1. ASSUME x \in Weighed
        PROVE  /\ x - F \in 0 .. L - F - 1
               /\ ~(from > 0 /\ x - F = 0) /\ ~(To < clip /\ x - F = L - F - Up)
    BY <1>2, <1>4, <2>1
  <2>2. ASSUME /\ x - F \in 0 .. L - F - 1
               /\ ~(from > 0 /\ x - F = 0) /\ ~(To < clip /\ x - F = L - F - Up)
        PROVE  x \in Weighed
    <3>1. F + (x - F) = x
      BY <1>2
    <3>2. QED
      BY <1>2, <1>4, <2>2, <3>1
  <2>3. QED
    BY <2>1, <2>2
<1>6. QED
  BY <1>1, <1>2, <1>3, <1>5 DEF F, L

\* What is heard once the tile is mixed in: everything up to its end, but for
\* the sample the next tile will bring.
LEMMA MixedIn ==
    ASSUME VaeInv, where = "tile"
    PROVE  sound \cup Weighed = IF To >= clip THEN 0 .. clip * Up - 1 ELSE Upto(To)
<1> DEFINE F == from * Up
           L == To * Up
           O == (from + Lap) * Up
<1>1. /\ To \in Nat /\ from \in Nat /\ Up \in Nat \ {0, 1} /\ Lap \in Nat /\ Lap > 1 /\ Lap < Tile
      /\ Tile \in Nat /\ clip \in Nat /\ from < To /\ To <= clip
      /\ To < clip => To = from + Tile
  BY VaeAssumption DEF VaeInv, To
<1>2. /\ F \in Int /\ L \in Int /\ O \in Int /\ Up > 1
      /\ 0 <= F /\ (To - 1) * Up = L - Up /\ (from + Lap - 1) * Up = O - Up
      /\ F + Up <= L
  <2>1. 0 * Up = 0 /\ 1 * Up = Up
    BY <1>1
  <2>2. 0 * Up <= F
    BY <1>1, Times
  <2>3. (To - 1) * Up = L - 1 * Up /\ (from + Lap - 1) * Up = O - 1 * Up
    BY <1>1, Times
  <2>4. QED
    BY <1>1, <2>1, <2>2, <2>3, Times
<1>3. F + Up < O
  <2>1. F + Up <= (from + 1) * Up
    BY <1>1, Times
  <2>2. (from + 1) * Up + Up <= O
    BY <1>1, Times
  <2>3. QED
    BY <1>2, <2>1, <2>2, <1>1
<1>4. from > 0 => O <= L
  BY <1>1, Times DEF VaeInv, To
<1>5. from > 0 /\ To < clip => O < L
  <2> SUFFICES ASSUME from > 0, To < clip PROVE O < L
    OBVIOUS
  <2>1. from + Lap < To /\ from + Lap \in Int
    BY <1>1
  <2>2. O + Up <= L
    BY <1>1, <2>1, Times
  <2> HIDE DEF O, L
  <2>3. QED
    BY <1>2, <1>1, <2>2
<1>6. ASSUME NEW x \in Int
      PROVE  x \in Weighed <=> /\ F <= x /\ x <= L - 1
                               /\ ~(from > 0 /\ x = F) /\ ~(To < clip /\ x = L - Up)
  BY <1>2, WeighedIs
<1>7. ASSUME NEW x
      PROVE  x \in Weighed => x \in Int
  BY VaeAssumption, <1>1, <1>2 DEF Weighed
<1>8. F = 0 \/ from > 0
  BY <1>1
<1>9. /\ from = 0 => sound = {}
      /\ from > 0 => sound = (0 .. O - 1) \ {O - Up}
  BY <1>1, <1>2 DEF VaeInv, Upto
<1>10. L = clip * Up \/ To < clip
  BY <1>1
<1>11. ~(To >= clip) <=> To < clip
  BY <1>1
<1> HIDE DEF F, L, O
<1>12. CASE To >= clip
  <2>1. ASSUME NEW x \in Int PROVE x \in sound \cup Weighed <=> x \in 0 .. L - 1
    BY <1>12, <1>1, <1>2, <1>3, <1>4, <1>6, <1>8, <1>9, <2>1
  <2>2. sound \cup Weighed = 0 .. L - 1
    BY <1>7, <1>9, <1>1, <2>1
  <2>3. QED
    BY <1>12, <1>10, <1>11, <2>2
<1>13. CASE To < clip
  <2>1. ASSUME NEW x \in Int PROVE x \in sound \cup Weighed <=> x \in (0 .. L - 1) \ {L - Up}
    BY <1>13, <1>1, <1>2, <1>3, <1>4, <1>5, <1>6, <1>8, <1>9
  <2>2. sound \cup Weighed = (0 .. L - 1) \ {L - Up}
    BY <1>7, <1>9, <1>1, <2>1
  <2>3. QED
    BY <1>13, <1>2, <1>11, <2>2 DEF Upto, L
<1>14. QED
  BY <1>12, <1>13, <1>11

LEMMA VaeStarts == VaeInit => VaeInv
<1> SUFFICES ASSUME VaeInit PROVE VaeInv
  OBVIOUS
<1>1. clip \in Nat /\ from \in Nat /\ clip \in Clips \cup {0} /\ from <= clip
  BY DEF VaeInit
<1>5. slow \in BOOLEAN
  BY Zenon DEF VaeInit
<1>2. sound \subseteq 0 .. clip * Up - 1
  BY DEF VaeInit
<1>3. where = "idle"
  BY DEF VaeInit
<1>4. QED
  BY <1>1, <1>2, <1>3, <1>5 DEF VaeInv

LEMMA VaeStays == VaeInv /\ [VaeNext]_vaeVars => VaeInv'
<1> SUFFICES ASSUME VaeInv, [VaeNext]_vaeVars PROVE VaeInv'
  OBVIOUS
<1>1. Upto(To)' = Upto(To') /\ 0 * Up = 0
  BY VaeAssumption DEF Upto
<1>2. ASSUME NEW n \in Clips, DecodeClip(n) PROVE VaeInv'
  <2>1. n \in Nat /\ n > 0 /\ slow' \in BOOLEAN
    BY <1>2, VaeAssumption DEF DecodeClip, VaeInv
  <2>2. QED
    BY <1>2, <2>1 DEF DecodeClip, VaeInv
<1>3. ASSUME Mix, where = "tile", clip' = clip, slow' \in BOOLEAN PROVE VaeInv'
  <2>1. /\ To \in Nat /\ clip \in Nat /\ from \in Nat /\ from < clip /\ To <= clip
        /\ To < clip => To = from + Tile
        /\ Next0 = from + (Tile - Lap) /\ Tile - Lap > 0 /\ Lap \in Nat /\ Tile \in Nat
        /\ clip \in Clips \cup {0}
    BY <1>3, VaeAssumption DEF VaeInv, To, Next0
  <2>2. CASE To >= clip
    <3>1. sound' = 0 .. clip * Up - 1 /\ where' = "done" /\ from' = from
      BY <1>3, <2>2, MixedIn DEF Mix
    <3>2. QED
      BY <1>3, <2>1, <3>1 DEF VaeInv
  <2>3. CASE ~(To >= clip)
    <3>1. sound' = Upto(To) /\ where' = "tile" /\ from' = Next0
      BY <1>3, <2>3, MixedIn DEF Mix
    <3>2. Next0 > 0 /\ Next0 + Lap = To /\ Next0 + Lap < clip /\ Next0 \in Nat /\ Next0 < clip
      BY <2>1, <2>3
    <3>3. sound' = Upto(from' + Lap) /\ Upto(from' + Lap) = Upto(from + Lap)'
      BY <3>1, <3>2 DEF Upto
    <3>4. To * Up <= clip * Up /\ To * Up \in Int /\ clip * Up \in Int
      BY <2>1, <2>3, Times, VaeAssumption
    <3>5. sound' \subseteq 0 .. clip * Up - 1
      BY <3>1, <3>4 DEF Upto
    <3>6. QED
      BY <1>3, <2>1, <3>1, <3>2, <3>3, <3>5 DEF VaeInv
  <2>4. QED
    BY <2>2, <2>3
<1>4. ASSUME where' # "tile", where' # "done", where' \in {"idle", "failed"},
             clip' = clip, from' = from, sound' = sound, slow' = slow
      PROVE  VaeInv'
  BY <1>4 DEF VaeInv
<1>5. CASE DecodeBlocks
  <2>1. CASE Mix /\ UNCHANGED slow
    BY <1>3, <1>5, <2>1 DEF DecodeBlocks, VaeInv
  <2>2. CASE slow' = TRUE /\ UNCHANGED <<from, sound, where>>
    BY <1>5, <2>2 DEF DecodeBlocks, VaeInv, Upto
  <2>3. QED
    BY <1>5, <2>1, <2>2 DEF DecodeBlocks
<1>6. CASE DecodeOps
  <2>1. CASE Mix
    BY <1>3, <1>6, <2>1 DEF DecodeOps, VaeInv
  <2>2. CASE where' = "failed" /\ UNCHANGED <<from, sound>>
    BY <1>4, <1>6, <2>2 DEF DecodeOps
  <2>3. QED
    BY <1>6, <2>1, <2>2 DEF DecodeOps
<1>7. CASE AnswerVae
  BY <1>4, <1>7 DEF AnswerVae
<1>8. CASE UNCHANGED vaeVars
  BY <1>8 DEF vaeVars, VaeInv, Upto
<1>9. QED
  BY <1>2, <1>5, <1>6, <1>7, <1>8 DEF VaeNext

\* A clip that was decoded is heard from its first sample to its last
\* (decode's loop over the tiles and its two fades).
THEOREM VaeTiledHolds == VaeSpec => []VaeTiled
<1>1. VaeInv => VaeTiled
  BY DEF VaeInv, VaeTiled
<1>2. QED
  BY <1>1, VaeStarts, VaeStays, PTL DEF VaeSpec

-----------------------------------------------------------------------------
(* The chunks of MOSS-SFX *)

\* What any forward pass leaves, wherever it starts.
LEMMA DecodeTypes ==
    ASSUME NEW r \in Runners, NEW n \in Nat, NEW pos \in Nat, NEW o \in Decode(r, n, pos)
    PROVE  o.r \in Runners /\ o.why \in {"none", "fault", "positions", "context"}
<1>1. Verdict(r.kv, n, pos) = "none" => pos + n \in CacheRows
  BY RunnerAssumption DEF Verdict, CacheRows
<1>2. \/ /\ Verdict(r.kv, n, pos) = "none"
         /\ o.why \in {"none", "fault"} /\ o.r = [r EXCEPT !.kv = pos + n]
      \/ o.why \in {"fault", "positions", "context"} /\ o.r = r
  BY DEF Decode, Outcomes, Verdict
<1>3. QED
  BY <1>1, <1>2 DEF Runners

\* Whole chunks that are over before frame f.
LEMMA ChunkOf ==
    ASSUME NEW f \in 1..Latent
    PROVE  \E c \in 0..Latent : c < Chunks /\ f \in ChunkFrames(c) \cup {ChunkEnd(c)}
<1> DEFINE c == (f - 1) \div VaeChunk
           last == (Latent + VaeChunk - 1) \div VaeChunk
<1>1. /\ VaeChunk \in Nat \ {0} /\ Latent \in Nat \ {0} /\ f \in Nat
      /\ 1 <= f /\ f <= Latent
  BY SfxAssumption
<1>2. /\ c \in Nat /\ c * VaeChunk <= f - 1 /\ f - 1 < (c + 1) * VaeChunk
      /\ c <= f - 1
  <2>1. ASSUME NEW n \in Nat, NEW d \in Nat \ {0}
        PROVE  /\ n \div d \in Nat /\ (n \div d) * d <= n /\ n < (n \div d + 1) * d
               /\ n \div d <= n
    OBVIOUS
  <2>2. f - 1 \in Nat
    BY <1>1
  <2> HIDE DEF c
  <2>3. QED
    BY <1>1, <2>1, <2>2 DEF c
<1>3. c < last
  <2>1. /\ last \in Nat /\ Latent + VaeChunk - 1 < (last + 1) * VaeChunk
    <3>1. ASSUME NEW n \in Nat, NEW d \in Nat \ {0}
          PROVE  n \div d \in Nat /\ n < (n \div d + 1) * d
      OBVIOUS
    <3>2. Latent + VaeChunk - 1 \in Nat
      BY <1>1
    <3> HIDE DEF last
    <3>3. QED
      BY <1>1, <3>1, <3>2 DEF last
  <2>2. (last + 1) * VaeChunk = last * VaeChunk + VaeChunk /\ last * VaeChunk \in Int
    BY <1>1, <2>1, Times
  <2> HIDE DEF c, last
  <2>3. ASSUME last <= c PROVE FALSE
    <3>1. last * VaeChunk <= c * VaeChunk /\ c * VaeChunk \in Int
      BY <1>1, <1>2, <2>1, <2>3, Times
    <3>2. QED
      BY <1>1, <1>2, <2>1, <2>2, <3>1
  <2>4. QED
    BY <1>2, <2>1, <2>3
<1>4. last = Chunks
  BY DEF Chunks
<1> HIDE DEF c, last
<1>5. c * VaeChunk \in Int /\ (c + 1) * VaeChunk \in Int
  BY <1>1, <1>2, Times
<1>6. ChunkEnd(c) \in Int /\ f <= ChunkEnd(c)
  BY <1>1, <1>2, <1>5 DEF ChunkEnd
<1>7. f \in ChunkFrames(c) \cup {ChunkEnd(c)}
  BY <1>1, <1>2, <1>5, <1>6 DEF ChunkFrames
<1>8. c \in 0..Latent
  BY <1>1, <1>2
<1>9. QED
  BY <1>3, <1>4, <1>7, <1>8

\* The chunks before the next one are heard; after the last, all of them are.
SfxInv ==
    /\ step \in Nat /\ wish.samples \in Nat
    /\ stage \in {"decode", "answered"} =>
          \A c \in Nat : c < step => ChunkFrames(c) \subseteq heard
    /\ stage = "answered" => step >= Chunks

LEMMA SfxStarts == SfxInit => SfxInv
BY DEF SfxInit, SfxInv

LEMMA SfxStays == SfxInv /\ [SfxNext]_sfxVars => SfxInv'
<1> SUFFICES ASSUME SfxInv, [SfxNext]_sfxVars PROVE SfxInv'
  OBVIOUS
<1>1. ASSUME step' = step, wish' = wish, heard' = heard,
             stage' \in {"find", "bind_dit", "bind_vae", "open_te", "idle", "cond",
                         "negative", "denoise"}
      PROVE  SfxInv'
  BY <1>1 DEF SfxInv
<1>2. CASE FindFiles \/ BindDit \/ BindVae \/ OpenTe
  BY <1>1, <1>2 DEF FindFiles, BindDit, BindVae, OpenTe, Drop, Turn
<1>3. ASSUME NEW n \in Asked, NEW neg \in NegativeLens, NEW guided \in BOOLEAN,
             RunSfx(n, neg, guided)
      PROVE  SfxInv'
  BY <1>3, SfxAssumption DEF RunSfx, Turn, SfxInv
<1>4. CASE EncodePrompt \/ EncodeNegative
  BY <1>1, <1>4 DEF EncodePrompt, EncodeNegative, Encode, Turn
<1>5. CASE EnsureBackend
  BY <1>1, <1>5 DEF EnsureBackend, Turn
<1>6. CASE DenoiseStep
  BY <1>6 DEF DenoiseStep, Turn, SfxInv
<1>7. CASE Denoised
  BY <1>7 DEF Denoised, Turn, SfxInv
<1>8. CASE DecodeSfxChunk
  <2>1. ASSUME heard' = heard \cup ChunkFrames(step), step' = step + 1, stage' = "decode",
               wish' = wish, stage = "decode"
        PROVE  SfxInv'
    BY <2>1 DEF SfxInv
  <2>2. QED
    BY <1>1, <1>8, <2>1 DEF DecodeSfxChunk, Turn
<1>9. CASE Crop
  BY <1>9, SfxAssumption DEF Crop, Turn, SfxInv
<1>10. CASE AnswerSfx
  BY <1>1, <1>10 DEF AnswerSfx, Turn
<1>11. CASE UNCHANGED sfxVars
  BY <1>11 DEF sfxVars, SfxInv
<1>12. QED
  BY <1>2, <1>3, <1>4, <1>5, <1>6, <1>7, <1>8, <1>9, <1>10, <1>11 DEF SfxNext

\* The chunks of a sound effect tile the answer, for any length of the latent,
\* of a chunk and of what was asked (vae decode and the crop of run_sfx).
THEOREM SfxTiledHolds == SfxSpec => []SfxTiled
<1>1. ASSUME SfxInv, stage = "answered", NEW f \in 1..Length
      PROVE  f \in heard \cup {ChunkEnd(c) : c \in 0..Latent}
  <2>1. f \in 1..Latent
    BY <1>1, SfxAssumption DEF SfxInv, Length
  <2>2. PICK c \in 0..Latent : c < Chunks /\ f \in ChunkFrames(c) \cup {ChunkEnd(c)}
    BY <2>1, ChunkOf
  <2>3. Chunks \in Int
    BY SfxAssumption DEF Chunks
  <2>4. c \in Nat /\ c < step
    BY <1>1, <2>2, <2>3, SfxAssumption DEF SfxInv
  <2>5. ChunkFrames(c) \subseteq heard
    BY <1>1, <2>4 DEF SfxInv
  <2>6. QED
    BY <2>2, <2>5
<1>2. SfxInv => SfxTiled
  BY <1>1 DEF SfxTiled
<1>3. QED
  BY <1>2, SfxStarts, SfxStays, PTL DEF SfxSpec

\* The variables of a session keep their types.
LEMMA SfxTypeStarts == SfxInit => SfxTypeOK
BY RunnerAssumption DEF SfxInit, SfxTypeOK, Loaded, Runners, CacheRows, Unread, NoGraph

LEMMA ChunkIn == ASSUME NEW c \in Nat PROVE ChunkFrames(c) \subseteq 1..Latent
<1> DEFINE before == c * VaeChunk
<1>1. before \in Nat /\ Latent \in Nat /\ VaeChunk \in Nat
  BY SfxAssumption
<1>2. ChunkEnd(c) \in Nat /\ ChunkEnd(c) <= Latent
  BY <1>1, SfxAssumption DEF ChunkEnd
<1> HIDE DEF before
<1>3. \A e \in Nat : e <= Latent => before + 1 .. e \subseteq 1..Latent /\ before + 1 .. e - 1 \subseteq 1..Latent
  BY <1>1
<1>4. QED
  BY <1>2, <1>3 DEF ChunkFrames, before

LEMMA SfxTypeStays == SfxTypeOK /\ [SfxNext]_sfxVars => SfxTypeOK'
<1> SUFFICES ASSUME SfxTypeOK, [SfxNext]_sfxVars PROVE SfxTypeOK'
  OBVIOUS
<1> USE DEF SfxTypeOK, Turn
<1>1. CASE FindFiles
  BY <1>1 DEF FindFiles
<1>2. ASSUME NEW at, Drop(at) PROVE SfxTypeOK'
  BY <1>2 DEF Drop, Unread
<1>3. CASE BindDit
  BY <1>2, <1>3 DEF BindDit
<1>4. CASE BindVae
  BY <1>2, <1>4 DEF BindVae
<1>5. CASE OpenTe
  BY <1>2, <1>5 DEF OpenTe
<1>6. ASSUME NEW n \in Asked, NEW neg \in NegativeLens, NEW guided \in BOOLEAN,
             RunSfx(n, neg, guided)
      PROVE  SfxTypeOK'
  BY <1>6, SfxAssumption DEF RunSfx
<1>7. ASSUME NEW n \in Nat, NEW at, NEW to \in {"negative", "denoise"}, Encode(at, n, to)
      PROVE  SfxTypeOK'
  <2>1. PICK o \in IF n = 0 THEN {[why |-> "none", r |-> enc]} ELSE ForwardGetEmbeddings(enc, n, 0) :
          /\ enc' = o.r /\ fault' = o.why
          /\ stage' = IF o.why = "none" THEN to ELSE "idle"
    BY <1>7 DEF Encode
  <2>2. o.r \in Runners /\ o.why \in {"none", "fault", "positions", "context"}
    BY <2>1, DecodeTypes DEF ForwardGetEmbeddings
  <2>3. QED
    BY <1>7, <2>1, <2>2 DEF Encode
<1>8. CASE EncodePrompt \/ EncodeNegative
  BY <1>7, <1>8, SfxAssumption DEF EncodePrompt, EncodeNegative
<1>9. CASE EnsureBackend
  BY <1>9 DEF EnsureBackend
<1>10. CASE DenoiseStep
  <2>1. PICK g \in GraphFor(Latent, TextRows) :
           dit' = [dit EXCEPT !.graph = g] /\ step' \in {step, step + 1} /\ stage' \in {stage, "idle"}
    BY <1>10 DEF DenoiseStep
  <2>2. g \in {NoGraph, [t |-> Latent, ct |-> TextRows]}
    BY <2>1 DEF GraphFor
  <2>3. QED
    BY <1>10, <2>1, <2>2 DEF DenoiseStep
<1>11. CASE Denoised \/ Crop \/ AnswerSfx
  <2>1. /\ UNCHANGED <<enc, sfx, dit, wish, heard, fault>>
        /\ step' \in {step, 0} /\ stage' \in {"decode", "answered", "idle"}
    BY <1>11 DEF Denoised, Crop, AnswerSfx
  <2>2. QED
    BY <2>1
<1>12. CASE DecodeSfxChunk
  <2>1. /\ UNCHANGED <<enc, sfx, dit, wish, fault>>
        /\ heard' \in {heard, heard \cup ChunkFrames(step)}
        /\ step' \in {step, step + 1} /\ stage' \in {stage, "idle"}
    BY <1>12 DEF DecodeSfxChunk
  <2>2. ChunkFrames(step) \subseteq 1..Latent
    BY ChunkIn
  <2>3. QED
    BY <2>1, <2>2
<1>13. CASE UNCHANGED sfxVars
  BY <1>13 DEF sfxVars
<1>14. QED
  BY <1>1, <1>3, <1>4, <1>5, <1>6, <1>8, <1>9, <1>10, <1>11, <1>12, <1>13 DEF SfxNext

\* Whatever fails, a MOSS-SFX session keeps frames of the clip only as heard,
\* and a graph of no other lengths than those of a pass.
THEOREM SfxTypes == SfxSpec => []SfxTypeOK
  BY SfxTypeStarts, SfxTypeStays, PTL DEF SfxSpec

\* Why a prompt is refused, and since when: there are rows of an earlier one,
\* and from the first on no other comes in.
RefusedBehindRows == fault = "positions" => enc.kv # 0
TakesOneText == [][enc.kv # 0 => enc' = enc]_sfxVars

LEMMA RowsStay ==
    ASSUME SfxTypeOK, RefusedBehindRows, [SfxNext]_sfxVars
    PROVE  RefusedBehindRows' /\ (enc.kv # 0 => enc' = enc)
<1> USE DEF RefusedBehindRows
<1>1. ASSUME NEW n \in Nat, NEW at, NEW to, Encode(at, n, to)
      PROVE  RefusedBehindRows' /\ (enc.kv # 0 => enc' = enc)
  <2>1. CASE n = 0
    BY <1>1, <2>1 DEF Encode
  <2>2. CASE n # 0
    <3>1. PICK o \in Decode(enc, n, 0) : enc' = o.r /\ fault' = o.why
      BY <1>1, <2>2 DEF Encode, ForwardGetEmbeddings
    <3>2. enc.kv \in Nat
      BY RunnerAssumption DEF SfxTypeOK, Runners, CacheRows
    <3>3. \/ o = [why |-> "fault", r |-> enc]
          \/ enc.kv # 0 /\ o = [why |-> "positions", r |-> enc]
          \/ enc.kv = 0 /\ o.why \in {"context", "none", "fault"}
      BY <3>1, <3>2 DEF Decode, Outcomes, Verdict
    <3>4. QED
      BY <3>1, <3>3
  <2>3. QED
    BY <2>1, <2>2
<1>2. CASE EncodePrompt \/ EncodeNegative
  <2>1. CondLen \in Nat /\ wish.negative \in Nat
    BY SfxAssumption DEF SfxTypeOK
  <2>2. QED
    BY <1>1, <1>2, <2>1 DEF EncodePrompt, EncodeNegative
<1>3. CASE UNCHANGED enc /\ fault' \in {fault, "none"}
  BY <1>3
<1>4. QED
  BY <1>2, <1>3
  DEF SfxNext, FindFiles, BindDit, BindVae, OpenTe, Drop, RunSfx, EnsureBackend, DenoiseStep,
      Denoised, DecodeSfxChunk, Crop, AnswerSfx, sfxVars

\* What runner.h:263-264 asks for, a cache that is cleared between prompts, is
\* missed from the first prompt on that leaves rows in it: none is refused for
\* its position before, and after it the text encoder takes no row again for as
\* long as the session lives.
THEOREM OneTextPerSession == SfxSpec => []RefusedBehindRows /\ TakesOneText
<1>1. SfxInit => RefusedBehindRows
  BY DEF SfxInit, RefusedBehindRows
<1>2. SfxTypeOK /\ RefusedBehindRows /\ [SfxNext]_sfxVars => RefusedBehindRows'
  BY RowsStay
<1>3. SfxTypeOK /\ RefusedBehindRows /\ [SfxNext]_sfxVars => [enc.kv # 0 => enc' = enc]_sfxVars
  BY RowsStay
<1>4. QED
  BY <1>1, <1>2, <1>3, SfxTypes, PTL DEF SfxSpec, TakesOneText

-----------------------------------------------------------------------------
(* The lengths of the networks *)

\* Half a kernel of padding on either side keeps the length, dilated or not.
LEMMA ConvKeeps ==
    ASSUME NEW t \in Nat \ {0}
    PROVE  /\ Conv(t, 7, 1, 3, 1) = t /\ Conv(t, 7, 1, 3 * 1, 1) = t
           /\ Conv(t, 7, 1, 3 * 3, 3) = t /\ Conv(t, 7, 1, 3 * 9, 9) = t
           /\ Conv(t, 1, 1, 0, 1) = t
<1>1. Quotient(t - 1, 1) = t - 1
  BY DEF Quotient
<1>2. ASSUME NEW k \in Int, NEW p \in Int, NEW d \in Int, t + 2 * p - d * (k - 1) - 1 = t - 1
      PROVE  Conv(t, k, 1, p, d) = t
  BY <1>1, <1>2 DEF Conv
<1>3. /\ t + 2 * 3 - 1 * (7 - 1) - 1 = t - 1 /\ t + 2 * (3 * 1) - 1 * (7 - 1) - 1 = t - 1
      /\ t + 2 * (3 * 3) - 3 * (7 - 1) - 1 = t - 1 /\ t + 2 * (3 * 9) - 9 * (7 - 1) - 1 = t - 1
      /\ t + 2 * 0 - 1 * (1 - 1) - 1 = t - 1
  OBVIOUS
<1>4. /\ 3 * 1 \in Int /\ 3 * 3 \in Int /\ 3 * 9 \in Int
  OBVIOUS
<1>5. QED
  BY <1>2, <1>3, <1>4

LEMMA SkipKeeps == ASSUME NEW t PROVE Skip(t, t) = t
BY DEF Skip

-----------------------------------------------------------------------------
(* ACE-Step *)

LEMMA AceUnitsKeep ==
    ASSUME NEW t \in Nat \ {0}
    PROVE  AceUnits(t) = t
<1>1. AceUnit(t, 1) = t /\ AceUnit(t, 3) = t /\ AceUnit(t, 9) = t
  BY ConvKeeps, SkipKeeps DEF AceUnit
<1>2. QED
  BY <1>1 DEF AceUnits

\* An even stride s makes s frames of each.
LEMMA AceUpTimes ==
    ASSUME NEW t \in Nat \ {0}
    PROVE  /\ AceUp(t, 10) = 10 * t /\ AceUp(t, 6) = 6 * t
           /\ AceUp(t, 4) = 4 * t /\ AceUp(t, 2) = 2 * t
<1>1. /\ ConvT(t, 2 * 10, 10, 10 \div 2) = 10 * t /\ ConvT(t, 2 * 6, 6, 6 \div 2) = 6 * t
      /\ ConvT(t, 2 * 4, 4, 4 \div 2) = 4 * t /\ ConvT(t, 2 * 2, 2, 2 \div 2) = 2 * t
  BY DEF ConvT
<1>2. /\ AceUnits(10 * t) = 10 * t /\ AceUnits(6 * t) = 6 * t
      /\ AceUnits(4 * t) = 4 * t /\ AceUnits(2 * t) = 2 * t
  BY AceUnitsKeep
<1>3. QED
  BY <1>1, <1>2 DEF AceUp

LEMMA AceDecodes ==
    ASSUME NEW t \in Nat \ {0}
    PROVE  AceDecoded(t) = 1920 * t
<1>1. AceUp(t, 10) = 10 * t /\ AceUp(10 * t, 6) = 60 * t /\ AceUp(60 * t, 4) = 240 * t
  BY AceUpTimes
<1>2. AceUp(240 * t, 4) = 960 * t /\ AceUp(960 * t, 2) = 1920 * t
  BY AceUpTimes
<1>3. Conv(t, 7, 1, 3, 1) = t /\ Conv(1920 * t, 7, 1, 3, 1) = 1920 * t
  BY ConvKeeps
<1>4. QED
  BY <1>1, <1>2, <1>3 DEF AceDecoded

-----------------------------------------------------------------------------
(* MOSS-SFX *)

LEMMA SfxUnitsKeep ==
    ASSUME NEW t \in Nat \ {0}
    PROVE  SfxUnits(t) = t
<1>1. SfxUnit(t, 1) = t /\ SfxUnit(t, 3) = t /\ SfxUnit(t, 9) = t
  BY ConvKeeps, SkipKeeps DEF SfxUnit
<1>2. QED
  BY <1>1 DEF SfxUnits

\* The sub-graphs lose a frame at each odd stride.
LEMMA SfxUpTimes ==
    ASSUME NEW t \in Nat \ {0}
    PROVE  /\ SfxGraphUp(t, 8) = 8 * t /\ SfxGraphUp(t, 5) = 5 * t - 1
           /\ SfxGraphUp(t, 4) = 4 * t /\ SfxGraphUp(t, 3) = 3 * t - 1
           /\ SfxGraphUp(t, 2) = 2 * t
<1>1. /\ SfxGraphConvT(t, 8) = 8 * t /\ SfxGraphConvT(t, 5) = 5 * t - 1
      /\ SfxGraphConvT(t, 4) = 4 * t /\ SfxGraphConvT(t, 3) = 3 * t - 1
      /\ SfxGraphConvT(t, 2) = 2 * t
  BY DEF SfxGraphConvT, ConvT, SfxPad
<1>2. /\ SfxUnits(8 * t) = 8 * t /\ SfxUnits(5 * t - 1) = 5 * t - 1 /\ SfxUnits(4 * t) = 4 * t
      /\ SfxUnits(3 * t - 1) = 3 * t - 1 /\ SfxUnits(2 * t) = 2 * t
  BY SfxUnitsKeep
<1>3. QED
  BY <1>1, <1>2 DEF SfxGraphUp

LEMMA SfxDecodes ==
    ASSUME NEW t \in Nat \ {0}
    PROVE  SfxDecoded(t) = 960 * t - 26
<1>1. SfxGraphUp(t, 8) = 8 * t /\ SfxGraphUp(8 * t, 5) = 40 * t - 1
  BY SfxUpTimes
<1>2. SfxGraphUp(40 * t - 1, 4) = 160 * t - 4 /\ SfxGraphUp(160 * t - 4, 3) = 480 * t - 13
  BY SfxUpTimes
<1>3. SfxGraphUp(480 * t - 13, 2) = 960 * t - 26
  BY SfxUpTimes
<1>4. Conv(t, 7, 1, 3, 1) = t /\ Conv(960 * t - 26, 7, 1, 3, 1) = 960 * t - 26
  BY ConvKeeps
<1>5. QED
  BY <1>1, <1>2, <1>3, <1>4 DEF SfxDecoded

-----------------------------------------------------------------------------
(* Qwen3-TTS *)

LEMMA CausalKeeps ==
    ASSUME NEW t \in Nat \ {0}
    PROVE  Causal(t, 7, 1, 1) = t /\ Causal(t, 3, 1, 1) = t /\ Causal(t, 1, 1, 1) = t
<1>1. Quotient(t - 1, 1) = t - 1
  BY DEF Quotient
<1>2. Conv(t + 6, 7, 1, 0, 1) = t /\ Conv(t + 2, 3, 1, 0, 1) = t /\ Conv(t, 1, 1, 0, 1) = t
  <2>1. /\ t + 6 + 2 * 0 - 1 * (7 - 1) - 1 = t - 1 /\ t + 2 + 2 * 0 - 1 * (3 - 1) - 1 = t - 1
        /\ t + 2 * 0 - 1 * (1 - 1) - 1 = t - 1
    OBVIOUS
  <2>2. QED
    BY <1>1, <2>1 DEF Conv
<1>3. /\ t + (7 - 1) * 1 - (1 - 1) = t + 6 /\ t + (3 - 1) * 1 - (1 - 1) = t + 2
      /\ t + (1 - 1) * 1 - (1 - 1) = t /\ t # 0
  OBVIOUS
<1>4. QED
  BY <1>2, <1>3 DEF Causal

\* A stride divides the length that is a multiple of it.
LEMMA EncBlockDivides ==
    ASSUME NEW t \in Nat \ {0}
    PROVE  /\ QwenEncBlock(4 * t, 4) = t /\ QwenEncBlock(5 * t, 5) = t
           /\ QwenEncBlock(6 * t, 6) = t /\ QwenEncBlock(8 * t, 8) = t
<1>1. ASSUME NEW u \in Nat \ {0}
      PROVE  Skip(u, Causal(Causal(u, 3, 1, 1), 1, 1, 1)) = u
  BY CausalKeeps, SkipKeeps
<1>2. /\ Causal(4 * t, 2 * 4, 4, 1) = t /\ Causal(5 * t, 2 * 5, 5, 1) = t
      /\ Causal(6 * t, 2 * 6, 6, 1) = t /\ Causal(8 * t, 2 * 8, 8, 1) = t
  <2>1. ASSUME NEW s \in {4, 5, 6, 8}
        PROVE  Causal(s * t, 2 * s, s, 1) = Quotient(s * t - s, s) + 1 \/ Quotient(s * t - s, s) < 0
    <3>1. s * t \in Nat /\ s * t # 0
      OBVIOUS
    <3>2. s * t + (2 * s - 1) * 1 - (s - 1) = s * t + s
      OBVIOUS
    <3>3. s * t + s + 2 * 0 - 1 * (2 * s - 1) - 1 = s * t - s /\ s * t + s # 0
      OBVIOUS
    <3>4. Quotient(s * t - s, s) \in Int
      BY DEF Quotient
    <3>5. QED
      BY <3>1, <3>2, <3>3, <3>4 DEF Causal, Conv
  <2>2. /\ Quotient(4 * t - 4, 4) = t - 1 /\ Quotient(5 * t - 5, 5) = t - 1
        /\ Quotient(6 * t - 6, 6) = t - 1 /\ Quotient(8 * t - 8, 8) = t - 1
    BY DEF Quotient
  <2>3. QED
    BY <2>1, <2>2
<1>3. /\ 4 * t \in Nat \ {0} /\ 5 * t \in Nat \ {0} /\ 6 * t \in Nat \ {0} /\ 8 * t \in Nat \ {0}
  OBVIOUS
<1>4. QED
  BY <1>1, <1>2, <1>3 DEF QwenEncBlock

LEMMA SeanetDivides ==
    ASSUME NEW t \in Nat \ {0}
    PROVE  QwenSeanet(960 * t) = t
<1>1. /\ QwenEncBlock(4 * (240 * t), 4) = 240 * t /\ QwenEncBlock(5 * (48 * t), 5) = 48 * t
      /\ QwenEncBlock(6 * (8 * t), 6) = 8 * t /\ QwenEncBlock(8 * t, 8) = t
  <2>1. 240 * t \in Nat \ {0} /\ 48 * t \in Nat \ {0} /\ 8 * t \in Nat \ {0}
    OBVIOUS
  <2>2. QED
    BY <2>1, EncBlockDivides
<1>2. 960 * t = 4 * (240 * t) /\ 240 * t = 5 * (48 * t) /\ 48 * t = 6 * (8 * t)
  OBVIOUS
<1>3. Causal(960 * t, 7, 1, 1) = 960 * t /\ Causal(t, 3, 1, 1) = t
  BY CausalKeeps
<1>4. QED
  BY <1>1, <1>2, <1>3 DEF QwenSeanet

-----------------------------------------------------------------------------
(* MOSS-TTS *)

LEMMA MossLengths ==
    ASSUME NEW t \in Nat \ {0}
    PROVE  MossDecoded(t) = 1920 * t /\ MossEncoded(1920 * t) = t
<1>1. ASSUME NEW u PROVE MossStage(u, u) = u
  BY SkipKeeps DEF MossStage
<1>2. MossDecoded(t) = 1920 * t
  <2>1. /\ PatchUp(t, 2) = t * 2 /\ PatchUp(t * 2, 2) = t * 2 * 2
        /\ PatchUp(t * 2 * 2, 2) = t * 2 * 2 * 2 /\ PatchUp(t * 2 * 2 * 2, 240) = 1920 * t
    BY DEF PatchUp
  <2>2. QED
    BY <1>1, <2>1 DEF MossDecoded
<1>3. MossPadded(1920 * t) = 1920 * t
  BY DEF MossPadded
<1>4. /\ (1920 * t) \div 240 = 8 * t /\ (8 * t) \div 2 = 4 * t /\ (4 * t) \div 2 = 2 * t
      /\ (2 * t) \div 2 = t
  OBVIOUS
<1>5. /\ PatchDown(1920 * t, 240) = 8 * t /\ PatchDown(8 * t, 2) = 4 * t
      /\ PatchDown(4 * t, 2) = 2 * t /\ PatchDown(2 * t, 2) = t
  BY <1>4 DEF PatchDown
<1>6. MossEncoded(1920 * t) = t
  BY <1>1, <1>3, <1>4, <1>5 DEF MossEncoded
<1>7. QED
  BY <1>2, <1>6

-----------------------------------------------------------------------------
(* What follows *)

JobInv == job.t \in Nat \ {0}

LEMMA NoCallSize == NoCall.t \in Nat \ {0}
<1>1. NoCall.t = CHOOSE t \in Sizes : TRUE
  BY DEF NoCall
<1>2. (CHOOSE t \in Sizes : TRUE) \in Sizes
  BY GraphsAssumption
<1>3. QED
  BY <1>1, <1>2, GraphsAssumption

LEMMA JobStarts == GraphsInit => JobInv
BY NoCallSize DEF GraphsInit, JobInv

LEMMA JobStays == JobInv /\ [GraphsNext]_graphVars => JobInv'
<1> SUFFICES ASSUME JobInv, [GraphsNext]_graphVars PROVE JobInv'
  OBVIOUS
<1>1. ASSUME NEW c \in Calls, CallGraph(c) PROVE JobInv'
  BY <1>1, GraphsAssumption DEF CallGraph, Calls, JobInv
<1>2. CASE Build \/ Allocate \/ Upload \/ Compute
  BY <1>2 DEF Build, Allocate, Upload, Compute, JobInv
<1>3. CASE Finish
  BY <1>3, NoCallSize DEF Finish, JobInv
<1>4. CASE UNCHANGED graphVars
  BY <1>4 DEF graphVars, JobInv
<1>5. QED
  BY <1>1, <1>2, <1>3, <1>4 DEF GraphsNext

\* What a codec or an autoencoder makes of a call of any number of frames is
\* what its caller has room for (vae_runner.cpp and codec.cpp of the models).
THEOREM GraphFitsHolds == GraphsSpec => []GraphFits
<1>1. GraphsInit => JobInv
  BY JobStarts
<1>2. JobInv /\ [GraphsNext]_graphVars => JobInv'
  BY JobStays
<1>3. JobInv => GraphFits
  <2> DEFINE t == job.t
  <2> SUFFICES ASSUME t \in Nat \ {0} PROVE GraphFits
    BY DEF JobInv
  <2> HIDE DEF t
  <2>1. MossDecoded(t) = 1920 * t /\ MossEncoded(1920 * t) = t
    BY MossLengths
  <2>2. QwenSeanet(960 * t) = t
    BY SeanetDivides
  <2>3. AceDecoded(t) = 1920 * t
    BY AceDecodes
  <2>4. SfxDecoded(t) <= 960 * t
    <3>1. SfxDecoded(t) = 960 * t - 26
      BY SfxDecodes
    <3>2. QED
      BY <3>1
  <2>5. QED
    BY <2>1, <2>2, <2>3, <2>4 DEF GraphFits, t
<1>4. QED
  BY <1>1, <1>2, <1>3, PTL DEF GraphsSpec

-----------------------------------------------------------------------------
(* The tensors of the graphs *)

\* What is meant for a tensor that is uploaded from buffer b: it depends on the
\* call alone, so that no upload is overtaken by another from the same buffer.
Meant(c, b) ==
    CASE b[1] \in {"timbre_pos", "timbre_slide_mask"} -> <<b[1], c.refer>>
      [] b[1] \in {"lyric_pos", "lyric_slide_mask"} -> <<b[1], c.lyric>>
      [] b[1] = "pos_buf" -> <<"pos", c.t>>
      [] b[1] = "w16" -> <<"w", b[2]>>
      [] b[1] \in {"pos_q", "positions"} -> <<b[1], c.t>>
      [] b[1] = "mask" /\ c.g \notin {"moss_decode", "moss_encode"} -> <<b[1], c.t>>
      [] OTHER -> <<b[1], b[2]>>

LEMMA AceDitMeant ==
    ASSUME NEW c, NEW u \in AceDitInputs(c)
    PROVE  u.what = Meant(c, u.buf)
<1>1. CASE u \in {Own("x_t", 0, 0), Own("gss", 0, 0)} \cup TimeInputs \cup TextInputs(c.text)
  BY <1>1 DEF TimeInputs, TextInputs, Own, Meant
<1>2. CASE u \in TimbreInputs(c.refer)
  BY <1>2 DEF TimbreInputs, Own, Meant
<1>3. CASE u \in LyricInputs(c.lyric)
  BY <1>3 DEF LyricInputs, Own, Meant
<1>4. CASE u \in {Own("sst", i, i) : i \in 1..Layers}
  BY <1>4 DEF Own, Meant
<1>5. CASE u \in {SelfAttn(i, c.t) : i \in 1..Layers}
  BY <1>5 DEF SelfAttn, Meant
<1>6. QED
  BY <1>1, <1>2, <1>3, <1>4, <1>5 DEF AceDitInputs

LEMMA UploadsMeant ==
    ASSUME NEW c \in Calls, NEW u \in Uploads(c)
    PROVE  u.what = Meant(c, u.buf)
<1>1. CASE c.g = "ace_dit"
  BY <1>1, AceDitMeant DEF Uploads
<1>2. CASE c.g = "ace_vae"
  BY <1>2 DEF Uploads, AceVaeInputs, Own, ConvWeight, Meant
<1>3. CASE c.g = "sfx_vae"
  BY <1>3 DEF Uploads, SfxVaeInputs, Own, Meant
<1>4. CASE c.g = "sfx_dit"
  BY <1>4 DEF Uploads, SfxDitUploads, Own, Meant
<1>5. CASE c.g = "qwen_decode"
  BY <1>5 DEF Uploads, QwenDecodeInputs, Own, Meant
<1>6. CASE c.g = "qwen_encode"
  BY <1>6 DEF Uploads, QwenEncodeUploads, Own, Meant
<1>7. CASE c.g = "moss_decode"
  BY <1>7 DEF Uploads, MossDecodeInputs, MossStages, Own, Meant
<1>8. CASE c.g = "moss_encode"
  BY <1>8 DEF Uploads, MossEncodeInputs, MossStages, Own, Meant
<1>9. CASE c.g \in {"speaker", "projection"}
  BY <1>9 DEF Uploads, SpeakerInputs, ProjectionInputs, Own, Meant
<1>10. c.g \in Kinds
  BY DEF Calls, Kinds
<1>11. QED
  BY <1>1, <1>2, <1>3, <1>4, <1>5, <1>6, <1>7, <1>8, <1>9, <1>10 DEF Kinds

\* Everything that is needed is uploaded, but for the codec's encoder.
LEMMA NeededUploaded ==
    ASSUME NEW c \in Calls, c.g # "qwen_encode"
    PROVE  Needed(c) = {u.to : u \in Uploads(c)}
<1>1. CASE c.g = "sfx_dit"
  <2>1. SfxDitUploads(c) \cup {Own("pos_q", 0, c.t)} = Uploads(c)
    BY <1>1 DEF Uploads, SfxDitUploads
  <2>2. QED
    BY <1>1, <2>1 DEF Needed
<1>2. CASE c.g # "sfx_dit"
  BY <1>2 DEF Needed
<1>3. QED
  BY <1>1, <1>2

\* What a call has done by each of its steps.
FilledInv ==
    /\ job \in Calls
    /\ wts \in [{"codec", "speaker"} -> {"none", "fresh", "filled", "dangling"}]
    /\ st \in {"allocate", "upload"} => queue = Uploads(job)
    /\ st = "upload" => \A k \in Hung : wts[k] = "fresh"
    /\ GraphFilled

LEMMA NoCallIsCall == NoCall \in Calls
<1>1. (CHOOSE t \in Sizes : TRUE) \in Sizes
  BY GraphsAssumption
<1>2. QED
  BY <1>1 DEF NoCall, Calls, Kinds

LEMMA FilledStarts == GraphsInit => FilledInv
BY NoCallIsCall DEF GraphsInit, FilledInv, GraphFilled

LEMMA FilledStays == FilledInv /\ [GraphsNext]_graphVars => FilledInv'
<1> SUFFICES ASSUME FilledInv, [GraphsNext]_graphVars PROVE FilledInv'
  OBVIOUS
<1>1. ASSUME NEW c \in Calls, CallGraph(c) PROVE FilledInv'
  BY <1>1 DEF CallGraph, FilledInv, GraphFilled
<1>2. CASE Build
  <2>1. /\ st' = "upload" => job.g = "sfx_dit"
        /\ st' \in {"upload", "allocate"} => queue' = Uploads(job)
        /\ st' \in {"upload", "allocate", "refused"} /\ job' = job /\ wts' = wts
    BY <1>2 DEF Build
  <2>2. job.g = "sfx_dit" => Hung' = {}
    BY <2>1 DEF Hung
  <2>3. QED
    BY <2>1, <2>2 DEF FilledInv, GraphFilled
<1>3. CASE Allocate
  BY <1>3 DEF Allocate, FilledInv, GraphFilled, Hung
<1>4. CASE Upload
  <2>1. /\ queue = Uploads(job) /\ job' = job /\ queue' = queue
        /\ \A k \in Hung : wts[k] = "fresh"
        /\ mem' = {u.to : u \in Received} /\ st' = "compute"
    BY <1>4 DEF Upload, FilledInv
  <2>2. Received = Uploads(job)
    BY <2>1, UploadsMeant DEF Received, FilledInv
  <2>3. job.g # "qwen_encode" => Needed(job) = mem'
    BY <2>1, <2>2, NeededUploaded DEF FilledInv
  <2>4. job.g # "qwen_encode" => \A k \in Hung : wts'[k] = "filled"
    BY <1>4, <2>1 DEF Upload, FilledInv, Hung
  <2>5. Needed(job)' = Needed(job) /\ Hung' = Hung
    BY <2>1 DEF Hung
  <2>6. GraphFilled'
    BY <2>1, <2>3, <2>4, <2>5 DEF GraphFilled, Filled
  <2>7. wts' \in [{"codec", "speaker"} -> {"none", "fresh", "filled", "dangling"}]
    BY <1>4 DEF Upload, FilledInv
  <2>8. QED
    BY <2>1, <2>6, <2>7 DEF FilledInv
<1>5. CASE Compute
  BY <1>5 DEF Compute, FilledInv, GraphFilled
<1>6. CASE Finish
  BY <1>6, NoCallIsCall DEF Finish, FilledInv, GraphFilled
<1>7. CASE UNCHANGED graphVars
  <2>1. Hung' = Hung /\ Needed(job)' = Needed(job)
    BY <1>7 DEF graphVars, Hung
  <2>2. QED
    BY <1>7, <2>1 DEF graphVars, FilledInv, GraphFilled, Filled
<1>8. QED
  BY <1>1, <1>2, <1>3, <1>4, <1>5, <1>6, <1>7 DEF GraphsNext

\* A graph computes with the tensors this call meant and with weights in memory
\* that is allocated, whatever calls came before it and however they ended: every graph
\* but that of the Qwen3-TTS codec's encoder, whose positions and mask nothing fills.
THEOREM GraphFilledHolds == GraphsSpec => []GraphFilled
<1>1. FilledInv => GraphFilled
  BY DEF FilledInv
<1>2. QED
  BY <1>1, FilledStarts, FilledStays, PTL DEF GraphsSpec

\* What is uploaded is asked for, also where something asked for is not.
LEMMA UploadsNeeded ==
    ASSUME NEW c \in Calls
    PROVE  {u.to : u \in Uploads(c)} \subseteq Needed(c)
<1>1. CASE c.g = "qwen_encode"
  <2>1. QwenEncodeUploads \subseteq QwenEncodeInputs(c)
    BY DEF QwenEncodeUploads, QwenEncodeInputs
  <2>2. Uploads(c) = QwenEncodeUploads
    BY <1>1 DEF Uploads
  <2>3. Needed(c) = {u.to : u \in QwenEncodeInputs(c)}
    BY <1>1 DEF Needed
  <2>4. QED
    BY <2>1, <2>2, <2>3
<1>2. CASE c.g # "qwen_encode"
  BY <1>2, NeededUploaded
<1>3. QED
  BY <1>1, <1>2

\* The inputs are in memory between the upload and the computation alone.
GraphTypeInv == GraphsTypeOK /\ FilledInv /\ (st # "compute" => mem = {})

LEMMA GraphTypeStarts == GraphsInit => GraphTypeInv
<1> SUFFICES ASSUME GraphsInit PROVE GraphTypeInv
  OBVIOUS
<1>1. NotKept \in [t : Sizes \cup {0}, ct : Nat, built : BOOLEAN]
  BY DEF NotKept
<1>2. QED
  BY <1>1, FilledStarts, NoCallIsCall DEF GraphsInit, GraphTypeInv, GraphsTypeOK

LEMMA GraphTypeStays == GraphTypeInv /\ [GraphsNext]_graphVars => GraphTypeInv'
<1> SUFFICES ASSUME GraphTypeInv, [GraphsNext]_graphVars PROVE GraphTypeInv'
  OBVIOUS
<1> DEFINE Graph == [t : Sizes \cup {0}, ct : Nat, built : BOOLEAN]
           Weights == [{"codec", "speaker"} -> {"none", "fresh", "filled", "dangling"}]
           Places == {"idle", "build", "allocate", "upload", "compute", "read", "refused"}
           Results == {"none", "good", "garbage"}
<1>0. FilledInv' /\ job' \in Calls /\ wts' \in Weights
  BY FilledStays DEF GraphTypeInv, FilledInv
<1>1. NotKept \in Graph /\ KeptFor \in Graph
  <2>1. job.t \in Sizes /\ job.text \in Prompts \cup {0}
    BY DEF GraphTypeInv, FilledInv, Calls
  <2>2. (IF job.text > 0 THEN job.text ELSE 1) \in Nat
    <3>1. \A n \in Prompts \cup {0} : n \in Nat
      BY GraphsAssumption
    <3>2. QED
      BY <2>1, <3>1
  <2>3. QED
    BY <2>1, <2>2 DEF NotKept, KeptFor
<1>2. /\ kept \in Graph /\ queue \subseteq Uploads(job) /\ mem \subseteq Needed(job)
      /\ st \in Places /\ got \in Results /\ (st # "compute" => mem = {})
  BY DEF GraphTypeInv, GraphsTypeOK
<1>3. /\ kept' \in Graph /\ queue' \subseteq Uploads(job') /\ mem' \subseteq Needed(job')
      /\ st' \in Places /\ got' \in Results /\ (st' # "compute" => mem' = {})
  <2> HIDE DEF Graph
  <2>1. ASSUME NEW c \in Calls, CallGraph(c) PROVE <1>3!:
    BY <1>2, <2>1 DEF CallGraph
  <2>2. CASE Build
    BY <1>1, <1>2, <2>2 DEF Build
  <2>3. CASE Allocate
    BY <1>1, <1>2, <2>3 DEF Allocate
  <2>4. CASE Upload
    <3>1. Received \subseteq Uploads(job)
      BY <1>2 DEF Received
    <3>2. mem' \subseteq {u.to : u \in Uploads(job)}
      BY <2>4, <3>1 DEF Upload
    <3>3. mem' \subseteq Needed(job)
      BY <3>2, UploadsNeeded DEF GraphTypeInv, FilledInv
    <3>4. QED
      BY <1>2, <2>4, <3>3 DEF Upload
  <2>5. CASE Compute
    BY <1>2, <2>5 DEF Compute
  <2>6. CASE Finish
    BY <1>2, <2>6 DEF Finish
  <2>7. CASE UNCHANGED graphVars
    BY <1>2, <2>7 DEF graphVars
  <2>8. QED
    BY <2>1, <2>2, <2>3, <2>4, <2>5, <2>6, <2>7 DEF GraphsNext
<1>4. QED
  BY <1>0, <1>3 DEF GraphTypeInv, GraphsTypeOK

\* A tensor that holds an input belongs to the call that is served, and nothing
\* is collected for upload but what that call wants.
THEOREM GraphTypes == GraphsSpec => []GraphsTypeOK
<1>1. GraphTypeInv => GraphsTypeOK
  BY DEF GraphTypeInv
<1>2. QED
  BY <1>1, GraphTypeStarts, GraphTypeStays, PTL DEF GraphsSpec

-----------------------------------------------------------------------------
(* The boot *)

\* A model that is loaded was the first of its family; with --lazy there is none.
BootInv ==
    /\ OnePerFamily
    /\ \A i \in LoadedSlots : slot[i].family \in eager /\ ~line.lazy

LEMMA BootStarts == BootInit => BootInv
<1> SUFFICES ASSUME BootInit PROVE BootInv
  OBVIOUS
<1>1. DOMAIN slot = {}
  BY DEF BootInit
<1>2. QED
  BY <1>1 DEF BootInv, OnePerFamily, LoadedSlots

\* What a slot holds whose model the start loads.
Loads(s) ==
    /\ ~line.lazy /\ s.family \notin eager
    /\ s.family \in Registered /\ s.listing \in Listings[s.family]
    /\ \E given : s.bound = Bound(s.family, s.listing, given)
    /\ Complete(s.family, s.bound)

\* What is put into the slot of the next model.
LEMMA RegisterPuts ==
    ASSUME Register
    PROVE  \E m, s :
             /\ slot' = [i \in DOMAIN slot \cup {m.id} |-> IF i = m.id THEN s ELSE slot[i]]
             /\ eager' = (IF line.lazy THEN eager ELSE eager \cup {m.family})
             /\ s.family = m.family /\ line' = line
             /\ m = Head(models) /\ s.loaded \in BOOLEAN
             /\ s.loaded => Loads(s)
<1> DEFINE m == Head(models)
           fresh == [family |-> m.family, path |-> m.path, loaded |-> FALSE,
                     bound |-> <<>>, listing |-> <<>>]
           Put(s) == slot' = [i \in DOMAIN slot \cup {m.id} |-> IF i = m.id THEN s ELSE slot[i]]
           of(l) == Bound(m.family, l, Given(m.path, l))
           filled(l) == [fresh EXCEPT !.loaded = TRUE, !.bound = of(l), !.listing = l]
<1>1. eager' = (IF line.lazy THEN eager ELSE eager \cup {m.family}) /\ line' = line
  BY DEF Register
<1>0. m = Head(models)
  OBVIOUS
<1>2. CASE Put(fresh)
  <2>1. fresh.family = m.family /\ fresh.loaded = FALSE
    OBVIOUS
  <2> HIDE DEF fresh
  <2>2. QED
    BY <1>0, <1>1, <1>2, <2>1
<1>3. ASSUME ~Put(fresh)
      PROVE  /\ ~Deferred(m) /\ m.family \in Registered
             /\ \E l \in Listings[m.family] : Complete(m.family, of(l)) /\ Put(filled(l))
  BY <1>3 DEF Register
<1>4. CASE ~Put(fresh)
  <2>1. ~line.lazy /\ m.family \notin eager /\ m.family \in Registered
    BY <1>3, <1>4 DEF Deferred
  <2>2. PICK l \in Listings[m.family] : Complete(m.family, of(l)) /\ Put(filled(l))
    BY <1>3, <1>4
  <2>3. /\ filled(l).family = m.family /\ filled(l).loaded = TRUE
        /\ filled(l).bound = of(l) /\ filled(l).listing = l
    OBVIOUS
  <2> DEFINE s == filled(l)
  <2> HIDE DEF filled, s
  <2>4. Put(s) /\ s.family = m.family /\ s.bound = of(l) /\ s.listing = l
        /\ s.loaded = TRUE
    BY <2>2, <2>3 DEF s
  <2>5. Loads(s)
    BY <2>1, <2>2, <2>4 DEF Loads
  <2> HIDE DEF m
  <2>6. QED
    BY <1>0, <1>1, <2>4, <2>5
<1>5. QED
  BY <1>2, <1>4

LEMMA BootStays == BootInv /\ [BootNext]_bootVars => BootInv'
<1> SUFFICES ASSUME BootInv, [BootNext]_bootVars PROVE BootInv'
  OBVIOUS
<1>1. CASE Register
  <2>1. PICK m, s :
             /\ slot' = [i \in DOMAIN slot \cup {m.id} |-> IF i = m.id THEN s ELSE slot[i]]
             /\ eager' = (IF line.lazy THEN eager ELSE eager \cup {m.family})
             /\ s.family = m.family /\ line' = line
             /\ s.loaded => ~line.lazy /\ m.family \notin eager
    BY <1>1, RegisterPuts DEF Loads
  <2>2. ASSUME NEW i \in LoadedSlots'
        PROVE  \/ i = m.id /\ slot'[i] = s /\ s.loaded
               \/ i # m.id /\ i \in LoadedSlots /\ slot'[i] = slot[i]
    BY <2>1 DEF LoadedSlots
  <2>3. ASSUME NEW i \in LoadedSlots'
        PROVE  slot'[i].family \in eager' /\ ~line'.lazy
    BY <2>1, <2>2 DEF BootInv
  <2>4. ASSUME NEW i \in LoadedSlots', NEW j \in LoadedSlots', slot'[i].family = slot'[j].family
        PROVE  i = j
    BY <2>1, <2>2, <2>4 DEF BootInv, OnePerFamily
  <2>5. QED
    BY <2>3, <2>4 DEF BootInv, OnePerFamily
<1>2. CASE slot' = slot /\ eager' = eager /\ line' = line
  BY <1>2 DEF BootInv, OnePerFamily, LoadedSlots
<1>3. QED
  BY <1>1, <1>2 DEF BootNext, BadConfig, Resolve, Alias, Serve, BootDone, bootVars

\* "For each FAMILY, only the first model is loaded eagerly" (main.cpp:231-232):
\* two models of a family never share the device's memory at the start.
THEOREM OnePerFamilyHolds == BootSpec => []OnePerFamily
<1>1. BootInv => OnePerFamily
  BY DEF BootInv
<1>2. QED
  BY <1>1, BootStarts, BootStays, PTL DEF BootSpec

\* The first match of a listing is one, and is there if there is any; the same
\* holds of the last.
LEMMA Found ==
    ASSUME NEW l, NEW n \in Nat, DOMAIN l = 1..n, NEW kinds, "none" \notin kinds
    PROVE  /\ FirstOf(l, kinds) \in (Range(l) \cap kinds) \cup {"none"}
           /\ Range(l) \cap kinds # {} => FirstOf(l, kinds) \in Range(l) \cap kinds
<1> DEFINE found == {i \in DOMAIN l : l[i] \in kinds}
<1>1. CASE found = {}
  BY <1>1 DEF FirstOf, Range
<1>2. CASE found # {}
  <2>1. found \subseteq Nat
    OBVIOUS
  <2> DEFINE less == {p \in Nat \X Nat : p[1] < p[2]}
  <2>2. IsWellFoundedOn(less, Nat)
    BY NatLessThanWellFounded, Zenon DEF OpToRel
  <2> HIDE DEF less
  <2>3. PICK i \in found : \A k \in found : <<k, i>> \notin less
    BY <1>2, <2>1, <2>2, WFMin
  <2>4. ASSUME NEW k \in found PROVE i <= k
    <3>1. k \in Nat /\ i \in Nat /\ <<k, i>> \notin less
      BY <2>1, <2>3
    <3> HIDE DEF found
    <3>2. ~(k < i)
      BY <3>1 DEF less
    <3>3. QED
      BY <3>1, <3>2
  <2> DEFINE first == CHOOSE j \in found : \A k \in found : j <= k
  <2>5. first \in found
    <3> HIDE DEF found
    <3>1. \E j \in found : \A k \in found : j <= k
      BY <2>3, <2>4
    <3>2. QED
      BY <3>1
  <2>6. FirstOf(l, kinds) = l[first]
    BY <1>2 DEF FirstOf
  <2> HIDE DEF first
  <2>7. QED
    BY <2>5, <2>6 DEF Range
<1>3. QED
  BY <1>1, <1>2

LEMMA FoundFirst ==
    ASSUME NEW l \in Seq(STRING), NEW kinds, "none" \notin kinds
    PROVE  /\ FirstOf(l, kinds) \in (Range(l) \cap kinds) \cup {"none"}
           /\ Range(l) \cap kinds # {} => FirstOf(l, kinds) \in Range(l) \cap kinds
<1>1. Len(l) \in Nat /\ DOMAIN l = 1..Len(l)
  OBVIOUS
<1>2. QED
  BY <1>1, Found

LEMMA FoundLast ==
    ASSUME NEW l \in Seq(STRING), NEW kinds, "none" \notin kinds
    PROVE  /\ LastOf(l, kinds) \in (Range(l) \cap kinds) \cup {"none"}
           /\ Range(l) \cap kinds # {} => LastOf(l, kinds) \in Range(l) \cap kinds
<1> DEFINE r == Reverse(l)
           n == Len(l)
<1>1. n \in Nat /\ DOMAIN l = 1..n /\ r = [i \in 1..n |-> l[(n - i) + 1]]
  BY DEF Reverse
<1> HIDE DEF n, r
<1>2. DOMAIN r = 1..n /\ \A i \in 1..n : r[i] = l[(n - i) + 1] /\ (n - i) + 1 \in 1..n
  BY <1>1
<1>3. ASSUME NEW i \in 1..n PROVE \E k \in 1..n : r[k] = l[i]
  <2>1. (n - i) + 1 \in 1..n /\ (n - ((n - i) + 1)) + 1 = i
    BY <1>1
  <2>2. QED
    BY <1>2, <2>1
<1>4. Range(r) = Range(l)
  BY <1>1, <1>2, <1>3 DEF Range
<1>5. LastOf(l, kinds) = FirstOf(r, kinds)
  BY DEF LastOf, r
<1>6. QED
  BY <1>1, <1>2, <1>4, <1>5, Found

\* find_gguf prefers, whatever the order of the directory.
LEMMA FoundPreferred ==
    ASSUME NEW l \in Seq(STRING), NEW kinds, NEW preferred, "none" \notin kinds
    PROVE  LET f == FindGguf(l, kinds, preferred)
               p == Range(l) \cap kinds \cap preferred
           IN  /\ f \in (Range(l) \cap kinds) \cup {"none"}
               /\ p # {} => f \in p
<1> DEFINE p == LastOf(l, kinds \cap preferred)
<1>1. /\ p \in (Range(l) \cap kinds \cap preferred) \cup {"none"}
      /\ Range(l) \cap kinds \cap preferred # {} => p \in Range(l) \cap kinds \cap preferred
  BY FoundLast
<1>2. FirstOf(l, kinds) \in (Range(l) \cap kinds) \cup {"none"}
  BY FoundFirst
<1>3. FindGguf(l, kinds, preferred) = IF p # "none" THEN p ELSE FirstOf(l, kinds)
  BY DEF FindGguf
<1> HIDE DEF p
<1>4. QED
  BY <1>1, <1>2, <1>3

\* The files of an ACE-Step directory that has one for each role.
LEMMA AceRoles ==
    ASSUME NEW l \in Seq(STRING), Complete("ace_step", AceBound(l))
    PROVE  LET b == AceBound(l)
           IN  /\ b.dit = IF "turbo" \in Range(l) THEN "turbo" ELSE "base"
               /\ b.lm = IF "lm17" \in Range(l) THEN "lm17" ELSE "lm4"
               /\ IF Range(l) \cap Text16 = {} THEN b.te = "te8"
                  ELSE b.te \in Range(l) \cap Text16
               /\ b.vae = "vae"
<1> DEFINE denoiser == FindGguf(l, DitFiles, {"turbo"})
           lang == FindGguf(l, LmFiles, {"lm17"})
           decoder == FindGguf(l, {"vae"}, {})
           full == FirstOf(l, Text16)
           text == FindGguf(l, TextFiles, {})
           coded == IF full # "none" THEN full ELSE text
<1>1. AceBound(l) = [dit |-> denoiser, lm |-> lang, te |-> coded, vae |-> decoder]
  BY DEF AceBound
<1>2. denoiser # "none" /\ lang # "none" /\ coded # "none" /\ decoder # "none"
  BY <1>1 DEF Complete
<1>3. /\ denoiser \in (Range(l) \cap DitFiles) \cup {"none"}
      /\ Range(l) \cap DitFiles \cap {"turbo"} # {} =>
            denoiser \in Range(l) \cap DitFiles \cap {"turbo"}
  BY FoundPreferred DEF DitFiles
<1>4. /\ lang \in (Range(l) \cap LmFiles) \cup {"none"}
      /\ Range(l) \cap LmFiles \cap {"lm17"} # {} =>
            lang \in Range(l) \cap LmFiles \cap {"lm17"}
  BY FoundPreferred DEF LmFiles
<1>5. /\ full \in (Range(l) \cap Text16) \cup {"none"}
      /\ Range(l) \cap Text16 # {} => full \in Range(l) \cap Text16
  BY FoundFirst DEF Text16
<1>6. text \in (Range(l) \cap TextFiles) \cup {"none"}
  BY FoundPreferred DEF TextFiles, Text16
<1>7. decoder \in {"vae", "none"}
  BY FoundPreferred
<1> HIDE DEF denoiser, lang, decoder, full, text
<1>8. denoiser = IF "turbo" \in Range(l) THEN "turbo" ELSE "base"
  BY <1>2, <1>3 DEF DitFiles
<1>9. lang = IF "lm17" \in Range(l) THEN "lm17" ELSE "lm4"
  BY <1>2, <1>4 DEF LmFiles
<1>10. IF Range(l) \cap Text16 = {} THEN coded = "te8" ELSE coded \in Range(l) \cap Text16
  BY <1>2, <1>5, <1>6 DEF TextFiles, Text16
<1>11. QED
  BY <1>1, <1>2, <1>7, <1>8, <1>9, <1>10

\* The codec of a Qwen3-TTS directory.
LEMMA TtsRoles ==
    ASSUME NEW l \in Seq(STRING)
    PROVE  TtsBound(l).codec = IF "codec16" \in Range(l) THEN "codec16"
                               ELSE IF "codec8" \in Range(l) THEN "codec8" ELSE "none"
<1> DEFINE full == FirstOf(l, {"codec16"})
           short == FirstOf(l, {"codec8"})
<1>1. TtsBound(l).codec = IF full # "none" THEN full ELSE short
  BY DEF TtsBound
<1>2. /\ full \in (Range(l) \cap {"codec16"}) \cup {"none"}
      /\ Range(l) \cap {"codec16"} # {} => full \in Range(l) \cap {"codec16"}
      /\ short \in (Range(l) \cap {"codec8"}) \cup {"none"}
      /\ Range(l) \cap {"codec8"} # {} => short \in Range(l) \cap {"codec8"}
  BY FoundFirst
<1> HIDE DEF full, short
<1>3. QED
  BY <1>1, <1>2

\* The files of one slot.
SlotRight(s) ==
    LET l == Range(s.listing)    b == s.bound
    IN  /\ s.family = "ace_step" =>
             /\ b.dit = IF "turbo" \in l THEN "turbo" ELSE "base"
             /\ b.lm = IF "lm17" \in l THEN "lm17" ELSE "lm4"
             /\ IF l \cap Text16 = {} THEN b.te = "te8" ELSE b.te \in l \cap Text16
             /\ b.vae = "vae"
        /\ s.family = "qwen3_tts" =>
             b.codec = IF "codec16" \in l THEN "codec16"
                       ELSE IF "codec8" \in l THEN "codec8" ELSE "none"

LEMMA LoadsRight == ASSUME NEW s, Loads(s) PROVE SlotRight(s)
<1>1. s.listing \in Seq(STRING)
  BY BootAssumption DEF Loads
<1>2. CASE s.family = "ace_step"
  <2>1. s.bound = AceBound(s.listing) /\ Complete("ace_step", s.bound)
    BY <1>2 DEF Loads, Bound
  <2>2. QED
    BY <1>1, <1>2, <2>1, AceRoles DEF SlotRight
<1>3. CASE s.family = "qwen3_tts"
  <2>1. s.bound = TtsBound(s.listing)
    BY <1>3 DEF Loads, Bound
  <2>2. QED
    BY <1>1, <1>3, <2>1, TtsRoles DEF SlotRight
<1>4. QED
  BY <1>2, <1>3 DEF SlotRight

\* ACE-Step and Qwen3-TTS are loaded with the variants their loaders prefer and
\* with a text encoder and a codec in sixteen bits where there is one, in whatever
\* order the directory is iterated and whichever of its files the registry took.
THEOREM RolesRightHolds == BootSpec => []RolesRight
<1>1. RolesRight <=> \A i \in LoadedSlots : SlotRight(slot[i])
  BY DEF RolesRight, SlotRight
<1>2. BootInit => RolesRight
  BY <1>1 DEF BootInit, LoadedSlots
<1>3. ASSUME RolesRight, [BootNext]_bootVars PROVE RolesRight'
  <2>1. CASE Register
    <3>1. PICK m, s :
               /\ slot' = [i \in DOMAIN slot \cup {m.id} |-> IF i = m.id THEN s ELSE slot[i]]
               /\ s.loaded => Loads(s)
      BY <2>1, RegisterPuts
    <3>2. ASSUME NEW i \in LoadedSlots' PROVE SlotRight(slot'[i])
      BY <1>1, <1>3, <3>1, LoadsRight DEF LoadedSlots
    <3>3. QED
      BY <3>2 DEF RolesRight, SlotRight
  <2>2. CASE slot' = slot
    BY <1>3, <2>2 DEF RolesRight, LoadedSlots
  <2>3. QED
    BY <1>3, <2>1, <2>2 DEF BootNext, BadConfig, Resolve, Alias, Serve, BootDone, bootVars
<1>4. QED
  BY <1>2, <1>3, PTL DEF BootSpec

\* What a scan finds are entries.
LEMMA DiscoveredEntries ==
    ASSUME NEW root \in Seq(Entries), NEW found \in Discovered(root)
    PROVE  found \in Seq(Entries)
<1> DEFINE known == {i \in DOMAIN root : root[i].family \in Registered}
           n == Cardinality(known)
<1>1. n \in Nat
  <2>1. DOMAIN root = 1..Len(root) /\ Len(root) \in Nat
    OBVIOUS
  <2>2. IsFiniteSet(1..Len(root))
    BY <2>1, FS_Interval
  <2>3. IsFiniteSet(known)
    BY <2>1, <2>2, FS_Subset
  <2>4. QED
    BY <2>3, FS_CardinalityType
<1>2. PICK nth \in [1..n -> known] : found = [i \in 1..n |-> root[nth[i]]]
  BY DEF Discovered
<1>3. \A i \in known : root[i] \in Entries
  OBVIOUS
<1> HIDE DEF known, n
<1>4. \A i \in 1..n : root[nth[i]] \in Entries
  BY <1>2, <1>3
<1>5. QED
  BY <1>1, <1>2, <1>4

LEMMA BootTypeStarts == BootInit => BootTypeOK
<1> SUFFICES ASSUME BootInit PROVE BootTypeOK
  OBVIOUS
<1>1. DOMAIN slot = {}
  BY DEF BootInit
<1>2. models \in Seq(Entries)
  BY BootAssumption DEF BootInit
<1>3. QED
  BY <1>1, <1>2 DEF BootInit, BootTypeOK

LEMMA BootTypeStays == BootTypeOK /\ [BootNext]_bootVars => BootTypeOK'
<1> SUFFICES ASSUME BootTypeOK, [BootNext]_bootVars PROVE BootTypeOK'
  OBVIOUS
<1> USE DEF BootTypeOK
\* Up to the loads the slots are left alone.
<1>1. ASSUME UNCHANGED <<line, eager, slot>>, models' \in Seq(Entries),
             boot' \in {"resolve", "alias", "load", "serve", "exit"}
      PROVE  BootTypeOK'
  BY <1>1
<1>2. CASE Resolve
  <2>1. line.config \in Seq(Entries) /\ line.root \in Seq(Entries) /\ line.single \in Seq(Entries)
    BY BootAssumption
  <2>2. \/ models' = line.single \/ models' = line.config
        \/ models' \in Discovered(line.root)
    BY <1>2 DEF Resolve
  <2>3. models' \in Seq(Entries)
    BY <2>1, <2>2, DiscoveredEntries
  <2>4. UNCHANGED <<line, eager, slot>> /\ boot' \in {"alias", "exit"}
    BY <1>2 DEF Resolve, BootAt
  <2>5. QED
    BY <1>1, <2>3, <2>4
<1>3. CASE Alias
  <2>1. line.alias \in STRING
    BY BootAssumption
  <2>2. \/ models' = models
        \/ Len(models) = 1 /\ models' = [models EXCEPT ![1].id = line.alias]
    BY <1>3 DEF Alias
  <2>3. CASE Len(models) = 1 /\ models' = [models EXCEPT ![1].id = line.alias]
    <3> DEFINE named == [models[1] EXCEPT !.id = line.alias]
    <3>1. models \in [1..1 -> Entries] /\ models[1] \in Entries
      BY <2>3
    <3>2. named \in Entries
      BY <2>1, <3>1 DEF Entries
    <3>3. models' = [models EXCEPT ![1] = named]
      BY <2>3
    <3> HIDE DEF named
    <3>4. models' \in [1..1 -> Entries]
      BY <3>1, <3>2, <3>3
    <3>5. models' \in Seq(Entries)
      BY <3>4
    <3>6. QED
      BY <1>1, <1>3, <3>5 DEF Alias, BootAt
  <2>4. CASE models' = models
    BY <1>1, <1>3, <2>4 DEF Alias, BootAt
  <2>5. QED
    BY <2>2, <2>3, <2>4
<1>4. CASE Register
  <2>1. PICK m, s :
             /\ slot' = [i \in DOMAIN slot \cup {m.id} |-> IF i = m.id THEN s ELSE slot[i]]
             /\ eager' = (IF line.lazy THEN eager ELSE eager \cup {m.family})
             /\ line' = line /\ m = Head(models) /\ s.loaded \in BOOLEAN
    BY <1>4, RegisterPuts
  <2>2. models # <<>> /\ models' = Tail(models) /\ boot' = boot
    BY <1>4 DEF Register
  <2>3. m \in Entries /\ models' \in Seq(Entries)
    BY <2>1, <2>2, HeadTailProperties
  <2>4. m.id \in STRING /\ m.family \in STRING
    BY <2>3 DEF Entries
  <2>5. QED
    BY <2>1, <2>2, <2>3, <2>4
<1>5. CASE BadConfig \/ Serve
  BY <1>1, <1>5 DEF BadConfig, Serve, BootAt
<1>6. CASE UNCHANGED bootVars
  BY <1>1, <1>6 DEF bootVars
<1>7. QED
  BY <1>2, <1>3, <1>4, <1>5, <1>6 DEF BootNext, BootDone

\* From the configuration to the slots: what is registered are entries, whichever
\* source they came from, and every slot says whether its model is loaded.
THEOREM BootTypes == BootSpec => []BootTypeOK
BY BootTypeStarts, BootTypeStays, PTL DEF BootSpec

-----------------------------------------------------------------------------
(* One after another *)

\* The sessions, the graphs and the boot do not disturb one another: what runs
\* beside the others takes its own steps only, so that all that is proved of
\* each of them holds of a behaviour that follows any one of them.
THEOREM SessionsApart ==
    GenSpec => /\ AceSpec /\ VaeSpec /\ TtsSpec /\ SfxSpec /\ Spec
               /\ GraphsSpec /\ BootSpec
<1>1. GenInit => /\ AceInit /\ VaeInit /\ TtsInit /\ SfxInit /\ Init
                 /\ GraphsInit /\ BootInit
  BY DEF GenInit
<1>2. [GenNext]_<<family, Others>> =>
         /\ [AceNext]_aceVars /\ [VaeNext]_vaeVars /\ [TtsNext]_ttsVars
         /\ [SfxNext]_sfxVars /\ [Next]_vars
         /\ [GraphsNext]_graphVars /\ [BootNext]_bootVars
  <2>1. UNCHANGED Others =>
           UNCHANGED <<aceVars, vaeVars, ttsVars, sfxVars, vars, graphVars, bootVars>>
    BY DEF Others
  <2>2. ASSUME NEW f, IdleBut(f)
        PROVE  /\ f # "ace" => UNCHANGED aceVars
               /\ f # "vae" => UNCHANGED vaeVars
               /\ f # "tts" => UNCHANGED ttsVars
               /\ f # "sfx" => UNCHANGED sfxVars
               /\ f # "moss" => UNCHANGED vars
               /\ f # "graphs" => UNCHANGED graphVars
               /\ f # "boot" => UNCHANGED bootVars
    BY <2>2 DEF IdleBut
  <2>3. QED
    BY <2>1, <2>2 DEF GenNext
<1>3. QED
  BY <1>1, <1>2, PTL
     DEF GenSpec, AceSpec, VaeSpec, TtsSpec, SfxSpec, Spec, GraphsSpec, BootSpec

\* Whatever runs, its variables have their types, for any tokens of the empty
\* text and any file names.
THEOREM GenTypes == GenSpec => []GenTypeOK
<1>1. VaeInv => VaeTypeOK
  BY DEF VaeInv, VaeTypeOK
<1>2. IInv => TypeOK
  BY DEF IInv
<1>3. AceTypeOK /\ VaeTypeOK /\ TtsTypeOK /\ SfxTypeOK /\ TypeOK /\ GraphsTypeOK /\ BootTypeOK
        => GenTypeOK
  BY DEF GenTypeOK
<1>4. QED
  BY <1>1, <1>2, <1>3, SessionsApart, AceTypes, VaeStarts, VaeStays, TtsTypes, SfxTypes,
     Invariant, GraphTypes, BootTypes, PTL DEF VaeSpec
=============================================================================
