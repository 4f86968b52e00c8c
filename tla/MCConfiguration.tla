-------------------------- MODULE MCConfiguration --------------------------
(***************************************************************************)
(* Configuration for TLC: files of up to one line of any kind, or of two   *)
(* that set a few options, and command lines with up to one option.        *)
(***************************************************************************)
EXTENDS Configuration, TLC

MCNameOf == "default" :> "default" @@ "nord" :> "nord" @@ "unnamed" :> "" @@ "mine" :> "Mine"

MCNanoseconds == "1s" :> "1000000000"

Texts == {"true", "30", "1s", "F", "nord", "unnamed", ""}
Lines(keys, texts) == [key : keys, text : texts]
Few == Lines({"statusbar", "colorscheme", "temperatures", "url"}, {"true", "nord", ""})

MCUserFiles ==
    {<<l>> : l \in NoSign \cup Lines(Options \cup {"logfile", "url"}, Texts)} \cup
    {<<l, m>> : l \in Few, m \in Few}

MCArguments ==
    LET flagsOf(o) == CASE o \in Flags -> {"true"}
                        [] o \in Ints -> {"30", "1s"}
                        [] o = "tempscale" -> {"F"}
                        [] o = "colorscheme" -> Schemes \cup {"Mine", ""}
                        [] OTHER -> {"a=b", "all", ""}
        taken == FromConf \cup DOMAIN OwnDefault
    IN  [flags : {<< >>} \cup UNION {[{o} -> flagsOf(o)] : o \in taken},
         do : {"run", "write", "list", "version"}]
=============================================================================
