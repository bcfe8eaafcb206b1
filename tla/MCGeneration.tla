---------------------------- MODULE MCGeneration ----------------------------
(***************************************************************************)
(* Small instances of what generates sound: the boot that binds the files  *)
(* of a model, the sessions, and the graphs they compute.  They share no   *)
(* state but weights that are read, so that a behaviour follows one of     *)
(* them: family names it.                                                  *)
(***************************************************************************)
EXTENDS AceStep, AceVae, Qwen3Tts, MossSfx, MossDelay, ComputeGraphs, MCModelBoot

CONSTANT Families

VARIABLE family

Others == <<aceVars, vaeVars, ttsVars, sfxVars, vars, graphVars, bootVars>>

\* What does not run starts where one of its behaviours does.
GenInit ==
    /\ family \in Families
    /\ AceInit /\ VaeInit /\ TtsInit /\ SfxInit /\ Init /\ GraphsInit /\ BootInit
    /\ family # "tts" => order = CHOOSE o \in Requests : TRUE
    /\ family # "moss" => mode = "tts" /\ codec /\ total_S = 3
    /\ family # "boot" => line = CHOOSE l \in CommandLines : TRUE

\* The sessions that do not run.
IdleBut(f) ==
    /\ family = f
    /\ UNCHANGED family
    /\ f = "ace" \/ UNCHANGED aceVars
    /\ f = "vae" \/ UNCHANGED vaeVars
    /\ f = "tts" \/ UNCHANGED ttsVars
    /\ f = "sfx" \/ UNCHANGED sfxVars
    /\ f = "moss" \/ UNCHANGED vars
    /\ f = "graphs" \/ UNCHANGED graphVars
    /\ f = "boot" \/ UNCHANGED bootVars

GenNext ==
    \/ IdleBut("ace") /\ AceNext
    \/ IdleBut("vae") /\ VaeNext
    \/ IdleBut("tts") /\ TtsNext
    \/ IdleBut("sfx") /\ SfxNext
    \/ IdleBut("moss") /\ Next
    \/ IdleBut("graphs") /\ GraphsNext
    \/ IdleBut("boot") /\ BootNext

GenSpec == GenInit /\ [][GenNext]_<<family, Others>>

\* The variables of the module that runs have their types.
GenTypeOK ==
    /\ family = "ace" => AceTypeOK
    /\ family = "vae" => VaeTypeOK
    /\ family = "tts" => TtsTypeOK
    /\ family = "sfx" => SfxTypeOK
    /\ family = "moss" => TypeOK
    /\ family = "graphs" => GraphsTypeOK
    /\ family = "boot" => BootTypeOK

-----------------------------------------------------------------------------
(* Instances *)

AllFamilies == {"ace", "vae", "tts", "sfx", "moss", "graphs", "boot"}

AllModes == {"tts", "voice_clone", "streaming"}
MCLeads == {1, 2}
MCTails == {2}
MCRefLengths == {1, 3}

Speech(mod, stream, text, instruct, language, voice, transcript, limit) ==
    [mode |-> mod, stream |-> stream, text |-> text, instruct |-> instruct,
     language |-> language, voice |-> voice, transcript |-> transcript, limit |-> limit]

MCRequests ==
    {Speech("tts", FALSE, 1, 0, TRUE, "none", 0, 1),
     Speech("tts", TRUE, 2, 0, FALSE, "named", 0, 1),
     Speech("streaming", FALSE, 1, 0, FALSE, "none", 0, 1),
     Speech("design", TRUE, 1, 2, FALSE, "none", 0, 4),
     Speech("clone", FALSE, 2, 1, TRUE, "audio", 1, 4),
     Speech("clone", TRUE, 1, 0, TRUE, "embedding", 0, 1),
     Speech("clone", TRUE, 1, 0, TRUE, "none", 0, 1)}
=============================================================================
