----------------------------- MODULE ModelBoot -----------------------------
(***************************************************************************)
(* Which models the server starts with, and which files each is made of:   *)
(* main() up to build_server (server/main.cpp), the directory scan and the *)
(* registry (framework/runtime/discovery.cpp, registry.cpp, manifest.cpp)  *)
(* and the first part of each family's load (models/*/loader.cpp).         *)
(*                                                                         *)
(* A file is its kind, a directory the sequence in which its iterator      *)
(* yields them, which nothing fixes.  What a load binds is a record of the *)
(* file each role gets.  Options that name a file of their own are left    *)
(* out.                                                                    *)
(***************************************************************************)
EXTENDS Naturals, SequencesExt

CONSTANTS
    Registered,   \* the families that are compiled in
    CommandLines, \* bound: configurations and options the server is started with
    Listings      \* bound: what the iterator of a family's directory yields

\* The files of each family that its loader can tell apart.
DitFiles == {"turbo", "base"}
LmFiles == {"lm17", "lm4"}
Text16 == {"te_bf16", "te_f16"}
TextFiles == Text16 \cup {"te8"}
FilesOf(family) ==
    CASE family = "ace_step" -> DitFiles \cup LmFiles \cup TextFiles \cup {"vae"}
      [] family = "qwen3_tts" -> {"talker", "predictor", "codec16", "codec8", "speaker"}
      [] family = "moss_tts" -> {"backbone", "extras", "cut_extras", "old_extras"}
      [] family = "moss_sfx_v2" -> {"sfx_dit", "sfx_vae"}
      [] OTHER -> {}

Compiled == {"ace_step", "qwen3_tts", "moss_tts", "moss_sfx_v2"}

\* A model of the configuration; its path is a directory or one of its files.
Entries == [id : STRING, family : STRING, path : STRING]
ASSUME BootAssumption ==
    /\ Registered \subseteq Compiled
    /\ Listings \in [Registered -> SUBSET Seq(STRING)]
    /\ \A f \in Registered : \A l \in Listings[f] : Range(l) \subseteq FilesOf(f)
    /\ \A c \in CommandLines :
         /\ c.config \in Seq(Entries) /\ c.root \in Seq(Entries) /\ c.single \in Seq(Entries)
         /\ Len(c.single) <= 1 /\ c.lazy \in BOOLEAN /\ c.alias \in STRING

VARIABLES
    line,    \* what the server was started with
    models,  \* cfg.models: what is still to be registered
    eager,   \* eager_families
    slot,    \* slots: id -> [family, path, loaded, bound, listing]: the files bound,
             \* and what the directory yielded
    boot     \* where main() is

bootVars == <<line, models, eager, slot, boot>>

BootInit ==
    /\ line \in CommandLines
    /\ models = line.config
    /\ eager = {} /\ slot = <<>>
    /\ boot = "resolve"

BootAt(place) == boot' = place

-----------------------------------------------------------------------------
(* Which file a role gets *)

\* The first file of a kind in the order of the directory, and the last.
FirstOf(listing, kinds) ==
    LET found == {i \in DOMAIN listing : listing[i] \in kinds}
    IN  IF found = {} THEN "none" ELSE listing[CHOOSE i \in found : \A k \in found : i <= k]
LastOf(listing, kinds) == FirstOf(Reverse(listing), kinds)

\* Mutant: the first match, whatever variant is preferred.
FindGgufFirst(listing, kinds, preferred) == FirstOf(listing, kinds)

\* find_gguf: the preferred variant if there is one.
FindGguf(listing, kinds, preferred) ==
    LET p == LastOf(listing, kinds \cap preferred)
    IN  IF p # "none" THEN p ELSE FirstOf(listing, kinds)

\* The DiT is turbo and the language model that of 1.7B unless the options say
\* otherwise; of the text encoders the first in sixteen bits.
AceBound(listing) ==
    LET full == FirstOf(listing, Text16)
    IN  [dit |-> FindGguf(listing, DitFiles, {"turbo"}),
         lm |-> FindGguf(listing, LmFiles, {"lm17"}),
         te |-> IF full # "none" THEN full ELSE FindGguf(listing, TextFiles, {}),
         vae |-> FindGguf(listing, {"vae"}, {})]

\* By name, in the directory: the codec in half precision first.
TtsBound(listing) ==
    LET full == FirstOf(listing, {"codec16"})
    IN  [talker |-> FirstOf(listing, {"talker"}),
         predictor |-> FirstOf(listing, {"predictor"}),
         codec |-> IF full # "none" THEN full ELSE FirstOf(listing, {"codec8"}),
         speaker |-> FirstOf(listing, {"speaker"})]

\* Heads and codec come from the file beside the backbone; a codec that is cut
\* off there is looked for in the file of an older release.
MossBound(listing, file, sidecar) ==
    [backbone |-> file, heads |-> sidecar,
     codec |-> IF sidecar = "extras" THEN sidecar ELSE FirstOf(listing, {"old_extras"})]

\* A directory: the first file that is not extras, the first that is.  A file
\* has extras of its own name, or none.
MossFiles(listing, given) ==
    LET sidecars == {"extras", "cut_extras"}
    IN  IF given = "directory"
        THEN MossBound(listing, FirstOf(listing, {"backbone"}),
                       FirstOf(listing, sidecars \cup {"old_extras"}))
        ELSE MossBound(listing, given,
                       IF given = "backbone" THEN FirstOf(listing, sidecars) ELSE "none")

\* A directory: the last file of each name.  A file is the DiT, whatever it is.
SfxFiles(listing, given) ==
    IF given = "directory"
    THEN [dit |-> LastOf(listing, {"sfx_dit"}), vae |-> LastOf(listing, {"sfx_vae"})]
    ELSE [dit |-> given, vae |-> "none"]

\* What a family's load binds when it is given a directory or one of its files.
Bound(family, listing, given) ==
    CASE family = "ace_step" -> AceBound(listing)
      [] family = "qwen3_tts" -> TtsBound(listing)
      [] family = "moss_tts" -> MossFiles(listing, given)
      [] family = "moss_sfx_v2" -> SfxFiles(listing, given)

\* Roles a family cannot do without; MOSS-TTS wants its backbone to be one.
Complete(family, b) ==
    CASE family = "ace_step" -> \A r \in {"dit", "lm", "te", "vae"} : b[r] # "none"
      [] family = "qwen3_tts" -> b.talker # "none" /\ b.predictor # "none"
      [] family = "moss_tts" -> b.backbone = "backbone" /\ b.heads # "none"
      [] family = "moss_sfx_v2" -> b.dit # "none"

\* FamilyRegistryLoader::load: a directory is replaced by its first file.
Given(path, listing) ==
    IF path # "directory" THEN path
    ELSE IF listing = <<>> THEN "directory" ELSE Head(listing)

-----------------------------------------------------------------------------
(* main *)

\* The configuration does not parse, an entry of it lacks a field, or the path
\* of --model or --model-dir does not exist.
BadConfig ==
    /\ boot = "resolve"
    /\ BootAt("exit")
    /\ UNCHANGED <<line, models, eager, slot>>

\* discover_models: directories that name no family are passed over, the others
\* come in the order of their ids, which is that of the root here.
Discovered(root) ==
    LET kept == {i \in DOMAIN root : root[i].family \in Registered}
        n == Cardinality(kept)
    IN  {[i \in 1..n |-> root[nth[i]]] :
           nth \in {f \in [1..n -> kept] : \A i, k \in 1..n : i < k => f[i] < f[k]}}

\* --model wins over the configuration; without either the directory is scanned.
Resolve ==
    /\ boot = "resolve"
    /\ IF line.single # <<>>
       THEN /\ models' = line.single
            /\ BootAt(IF line.single[1].family \in Registered THEN "alias" ELSE "exit")
       ELSE /\ IF line.config = <<>> THEN models' \in Discovered(line.root)
               ELSE models' = line.config
            /\ BootAt("alias")
    /\ UNCHANGED <<line, eager, slot>>

\* --alias renames the only model there is.
Alias ==
    /\ boot = "alias"
    /\ IF line.alias = "" THEN UNCHANGED models /\ BootAt("load")
       ELSE IF Len(models) # 1 THEN UNCHANGED models /\ BootAt("exit")
       ELSE models' = [models EXCEPT ![1].id = line.alias] /\ BootAt("load")
    /\ UNCHANGED <<line, eager, slot>>

\* Mutant: a model is deferred if its id was seen before.
DeferredById(m) == line.lazy \/ m.id \in DOMAIN slot

\* A family has one model loaded at the start; with --lazy none is.
Deferred(m) == line.lazy \/ m.family \in eager

\* The next model gets its slot, loaded or not; the slot of its id is replaced.
Register ==
    /\ boot = "load" /\ models # <<>>
    /\ LET m == Head(models)
           fresh == [family |-> m.family, path |-> m.path, loaded |-> FALSE,
                     bound |-> <<>>, listing |-> <<>>]
           Put(s) == slot' = [i \in DOMAIN slot \cup {m.id} |-> IF i = m.id THEN s ELSE slot[i]]
       IN  /\ eager' = IF line.lazy THEN eager ELSE eager \cup {m.family}
           /\ \/ Put(fresh)                   \* deferred, or the load throws
              \/ /\ ~Deferred(m) /\ m.family \in Registered
                 /\ \E l \in Listings[m.family] :
                      LET b == Bound(m.family, l, Given(m.path, l))
                      IN  /\ m.path = "directory" \/ m.path \in Range(l)
                          /\ Complete(m.family, b)
                          /\ Put([fresh EXCEPT !.loaded = TRUE, !.bound = b, !.listing = l])
    /\ models' = Tail(models)
    /\ UNCHANGED <<line, boot>>

Serve ==
    /\ boot = "load" /\ models = <<>>
    /\ BootAt("serve")
    /\ UNCHANGED <<line, models, eager, slot>>

BootDone == boot \in {"serve", "exit"} /\ UNCHANGED bootVars

BootNext == BadConfig \/ Resolve \/ Alias \/ Register \/ Serve \/ BootDone

BootSpec == BootInit /\ [][BootNext]_bootVars

-----------------------------------------------------------------------------
(* Properties *)

LoadedSlots == {i \in DOMAIN slot : slot[i].loaded}

BootTypeOK ==
    /\ line \in CommandLines /\ DOMAIN slot \subseteq STRING
    /\ models \in Seq(Entries)
    /\ eager \subseteq STRING
    /\ \A i \in DOMAIN slot : slot[i].loaded \in BOOLEAN
    /\ boot \in {"resolve", "alias", "load", "serve", "exit"}

\* "For each FAMILY, only the first model is loaded eagerly" (main.cpp:231-232):
\* two models of a family never share the memory of the device at the start.
OnePerFamily ==
    \A i, j \in LoadedSlots : slot[i].family = slot[j].family => i = j

\* ACE-Step and Qwen3-TTS find their files whichever of them the registry took
\* and in whatever order the directory is iterated: the DiT and the language
\* model the loader prefers if they are there, a text encoder and a codec in
\* sixteen bits if there is one.  Which of two such text encoders it is the order
\* decides.
RolesRight ==
    \A i \in LoadedSlots :
      LET l == Range(slot[i].listing)    b == slot[i].bound
      IN  /\ slot[i].family = "ace_step" =>
               /\ b.dit = IF "turbo" \in l THEN "turbo" ELSE "base"
               /\ b.lm = IF "lm17" \in l THEN "lm17" ELSE "lm4"
               /\ IF l \cap Text16 = {} THEN b.te = "te8" ELSE b.te \in l \cap Text16
               /\ b.vae = "vae"
          /\ slot[i].family = "qwen3_tts" =>
               b.codec = IF "codec16" \in l THEN "codec16"
                         ELSE IF "codec8" \in l THEN "codec8" ELSE "none"

\* "each per-family loader already knows how to resolve its own files within a
\* directory" (discovery.cpp:23-25): a model that is loaded from a directory goes
\* without no file its loader would find there.
DirectoryLoads ==
    \A i \in LoadedSlots :
      LET found == Bound(slot[i].family, slot[i].listing, "directory")
      IN  slot[i].path = "directory" =>
            \A r \in DOMAIN found : slot[i].bound[r] = "none" => found[r] = "none"
=============================================================================
