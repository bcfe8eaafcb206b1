---------------------------- MODULE MCModelBoot ----------------------------
(***************************************************************************)
(* Small instances of ModelBoot for TLC: the configurations, options and   *)
(* directories a server is started with.                                   *)
(***************************************************************************)
EXTENDS ModelBoot

Entry(id, fam, path) == [id |-> id, family |-> fam, path |-> path]
Started(config, root, single, lazy, alias) ==
    [config |-> config, root |-> root, single |-> single, lazy |-> lazy, alias |-> alias]

TwoAce == <<Entry("a", "ace_step", "directory"), Entry("b", "ace_step", "base"),
            Entry("q", "qwen3_tts", "talker")>>
Twice == <<Entry("a", "ace_step", "directory"), Entry("a", "qwen3_tts", "talker"),
           Entry("b", "ace_step", "base")>>
Root == <<Entry("a", "ace_step", "directory"), Entry("m", "moss_tts", "directory"),
          Entry("n", "other", "directory"), Entry("q", "qwen3_tts", "directory"),
          Entry("s", "moss_sfx_v2", "directory")>>

MCLines ==
    {Started(TwoAce, Root, <<>>, lazy, "") : lazy \in BOOLEAN} \cup
    {Started(<<>>, Root, <<>>, FALSE, ""),
     Started(Twice, <<>>, <<>>, FALSE, ""),
     Started(TwoAce, Root, <<Entry("m", "moss_tts", "backbone")>>, FALSE, "x"),
     Started(TwoAce, Root, <<>>, FALSE, "x"),
     Started(<<>>, <<>>, <<Entry("o", "other", "file")>>, FALSE, "")}

MCListings ==
    [ace_step |-> {d \o m \o t \o <<"vae">> : d \in SetToSeqs(DitFiles),
                                                m \in SetToSeqs(LmFiles),
                                                t \in SetToSeqs(TextFiles)}
                  \cup {<<"base", "te8", "vae", "lm4">>, <<"turbo">>},
     qwen3_tts |-> {<<"codec8", "talker", "codec16", "predictor", "speaker">>,
                    <<"talker", "predictor">>},
     moss_tts |-> SetToSeqs({"backbone", "cut_extras", "old_extras"})
                  \cup SetToSeqs({"backbone", "extras"}),
     moss_sfx_v2 |-> SetToSeqs({"sfx_dit", "sfx_vae"}) \cup {<<>>}]

MCRegistered == {"ace_step", "qwen3_tts", "moss_tts", "moss_sfx_v2"}
=============================================================================
