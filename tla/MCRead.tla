--------------------------------- MODULE MCRead --------------------------------
(***************************************************************************)
(* Makefiles of a few lines, in worlds that each have the lines for one    *)
(* kind of trouble.                                                        *)
(***************************************************************************)
EXTENDS MakefileMeaning

MCDotted == {".x", ".SUFFIXES", ".PHONY", ".NOTINTERMEDIATE", ".INTERMEDIATE", ".SECONDARY",
             ".PRECIOUS", ".SILENT", ".IGNORE", ".NOTPARALLEL", ".SECONDEXPANSION"}
MCReferences == "$V" :> "V"
MCPatterns == {"%"}
MCVariables == {"V", "W", "U", ".RECIPEPREFIX", ".EXTRA_PREREQS"}
MCCommandLine == {"W"}
MCGoals == {"a", "b", ".x"}

L(kind) == [pre |-> "", kind |-> kind, name |-> "", names |-> <<>>, value |-> <<>>, mod |-> {},
            deps |-> <<>>, colon |-> ":", semicolon |-> FALSE]
Named(kind, name) == [L(kind) EXCEPT !.name = name]
Files(kind, names) == [L(kind) EXCEPT !.names = names]
RuleOf(names, deps) == [L("rule") EXCEPT !.names = names, !.deps = deps]
Recipe(pre) == [L("shell") EXCEPT !.pre = pre]
Text == <<L("shell")>>
Set(name, value) == [Named("assign", name) EXCEPT !.value = value]
MCCommandLineValue == Text
NamesText(words) == <<[L("words") EXCEPT !.deps = words]>>
TargetSet(name, t, value) ==
    [Named("target variable", name) EXCEPT !.names = <<t>>, !.value = value]

Pool == [
    conditionals |-> {Named("ifdef", "V"), Named("ifndef", "V"), L("else"),
                      Named("else ifdef", "W"), L("endif"), Set("V", Text)},
    recipes |-> {RuleOf(<<"a">>, <<"b">>), RuleOf(<<"a">>, <<".x">>), RuleOf(<<>>, <<>>),
                 Recipe("tab"), Recipe(">"), Set(".RECIPEPREFIX", <<Recipe(">")>>),
                 Named("export", "V"), L("blank")},
    branches |-> {RuleOf(<<"a">>, <<>>), Recipe("tab"), Named("ifdef", "V"), L("else"), L("endif"),
                  [RuleOf(<<"b", "a">>, <<".x">>) EXCEPT !.semicolon = TRUE]},
    defines |-> {Named("define", "V"), L("endef"), Named("ifdef", "V"), L("endif"),
                 RuleOf(<<"a">>, <<>>), Named("eval", "V"), Recipe("tab")},
    includes |-> {Files("include", <<"m">>), Files("-include", <<"m", "n">>), RuleOf(<<"a">>, <<>>),
                  Recipe("tab"), Named("ifdef", "W"), L("endif")},
    targets |-> {RuleOf(<<".x", "a">>, <<>>), RuleOf(<<"b", "%">>, <<>>), RuleOf(<<"%">>, <<"b">>),
                 [RuleOf(<<"a">>, <<"b">>) EXCEPT !.colon = "::", !.semicolon = TRUE],
                 [RuleOf(<<"a", "b">>, <<>>) EXCEPT !.colon = "&:", !.semicolon = TRUE],
                 RuleOf(<<".SUFFIXES">>, <<"a">>), RuleOf(<<".SUFFIXES">>, <<>>), L("vpath"),
                 RuleOf(<<"a">>, <<".x">>)},
    origins |-> {[Set("W", Text) EXCEPT !.mod = {"override", "export"}], Set("U", Text),
                 [Named("undefine", "U") EXCEPT !.mod = {"override"}], Named("undefine", "U"),
                 L("unexport"), [Set("U", <<>>) EXCEPT !.mod = {"override", "private"}],
                 [Named("target variable", "U") EXCEPT !.names = <<"a", "%">>],
                 [Named("target variable", "W") EXCEPT !.names = <<"a">>, !.mod = {"override"}],
                 [Named("target variable", "W") EXCEPT !.names = <<"a">>]},
    specials |-> {RuleOf(<<".NOTINTERMEDIATE">>, <<"b">>), RuleOf(<<".NOTINTERMEDIATE">>, <<>>),
                  [RuleOf(<<".NOTINTERMEDIATE">>, <<>>) EXCEPT !.colon = "::"],
                  RuleOf(<<".INTERMEDIATE">>, <<"a">>), RuleOf(<<".INTERMEDIATE">>, <<"b">>),
                  RuleOf(<<".SECONDARY">>, <<"b">>), RuleOf(<<".SECONDARY">>, <<>>),
                  [RuleOf(<<".PHONY">>, <<"b">>) EXCEPT !.colon = "::"],
                  [RuleOf(<<".PHONY", ".PRECIOUS">>, <<"a">>) EXCEPT !.colon = "::"],
                  RuleOf(<<".NOTPARALLEL", ".SILENT">>, <<"a">>), RuleOf(<<".IGNORE">>, <<>>),
                  RuleOf(<<"a">>, <<"b", ".WAIT", ".x", "|", "b">>),
                  RuleOf(<<"a">>, <<"b">>)},
    second |-> {RuleOf(<<".SECONDEXPANSION">>, <<>>), RuleOf(<<"a", "b">>, <<"$V", ".x">>),
                [RuleOf(<<"a">>, <<"b">>) EXCEPT !.semicolon = TRUE],
                RuleOf(<<".PHONY", ".NOTPARALLEL">>, <<"$V", "a">>),
                Set("V", NamesText(<<"b", "|", ".x">>)),
                TargetSet("V", "a", NamesText(<<".x">>)), TargetSet("V", "%", <<>>),
                [TargetSet("V", "a", NamesText(<<"b">>)) EXCEPT !.mod = {"private"}],
                Set(".EXTRA_PREREQS", NamesText(<<"b", "c">>)),
                TargetSet(".EXTRA_PREREQS", "a", NamesText(<<"c">>))}]

MCWorlds == DOMAIN Pool
MCLinesOf(w) == Pool[w]
MCMaxLines(w) == CASE w \in {"conditionals", "branches", "defines"} -> 5
                   [] w \in {"targets", "origins", "specials"} -> 3 [] OTHER -> 4
MCSources(w) == IF w = "includes" THEN <<"MAKEFILES", "makefile">> ELSE <<"makefile">>
================================================================================
