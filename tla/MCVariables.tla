------------------------------- MODULE MCVariables -------------------------------
EXTENDS VariableMeaning

\* b is built for a; % matches both, b% only b

MCNames == {"V", "W"}
MCParameters == {"0", "1", "2", "i"}
MCAlphabet == Chars("%-./0123456789\\abcx")
MCHere == Chars("/c")
MCTargets == {"a", "b"}
MCAbove == [f \in MCTargets |-> IF f = "b" THEN <<"a">> ELSE <<>>]
MCOrder(w) ==
    IF w \in {"commands", "oneshell", "other", "otheroneshell", "noflags"} THEN <<"a">> ELSE <<"b", "a">>
MCPatterns == <<"%", "b%">>
MCMatches(p, f) == p = "%" \/ f = "b"
MCGivenName == "V"
MCGivenValue == <<Text(<<"g">>), Ref("W")>>

L(kind, name) == [kind |-> kind, scope |-> "global", name |-> name, flavor |-> "=",
                  value |-> <<>>, mod |-> {}]
D(scope, name, flavor, value) ==
    [kind |-> "define", scope |-> scope, name |-> name, flavor |-> flavor, value |-> value,
     mod |-> {}]
M(line, mod) == [line EXCEPT !.mod = mod]
T(string) == AsWords(Chars(string))
x == T("x")
y == T("y")
RW == <<Ref("W")>>
RV == <<Ref("V")>>
LateW == <<LateRef("W")>>

\* One world for each of the subjects: flavors, targets that inherit, private,
\* patterns, origins, exports, and $(shell)
F(name, args) == <<Fn(name, args)>>
P(name, texts) == F(name, [i \in DOMAIN texts |-> T(texts[i])])
R1 == <<Ref("1")>>
R2 == <<Ref("2")>>
GV(value) == D("global", "V", "=", value)
GW(value) == D("global", "W", "=", value)

FileWords == {"", "a", "a.b", "b a.b a", "a/b.a/b", "../a/./b.a", "/a//../b/", ".a./b."}
Few == {"a", "b a.b a", "b.a ../a.a b.a"}
Fixes == {"a", "b", ".a", "a.b", "b a"}
Patterns_ == {"a", "%", "a%b", "%.a", "%a", "\\%a", "a%", "\\\\%a%"}
Percents == {"", "x%", "%x", "x", "x%\\%", "\\%"}
Texts ==
    {P("subst", <<f, r, t>>) :
        f \in Fixes \cup {"", "aa", "a a"}, r \in {"", "a", "bb"}, t \in FileWords \cup {"aaa a"}}
      \cup {P("patsubst", <<p, r, t>>) :
                p \in Patterns_, r \in Percents, t \in Few \cup {"%a \\%a", "\\xa ab aab"}}
      \cup {P(f, <<t>>) :
                f \in {"firstword", "lastword", "words", "strip", "notdir", "suffix", "dir",
                       "basename", "abspath", "sort", "error", "warning"},
                t \in FileWords}
      \cup {P(f, <<t, u>>) : f \in {"join", "findstring"}, t \in Fixes, u \in FileWords}
      \cup {P(f, <<t, u>>) : f \in {"addprefix", "addsuffix"}, t \in {"", "a", ".a"}, u \in FileWords}
      \cup {P(f, <<p, t>>) : f \in {"filter", "filter-out"}, p \in Patterns_ \cup {"a b.a", "%.a a"},
                             t \in Few \cup {"%a", "ab a b"}}
      \cup {P("word", <<n, t>>) : n \in {"0", "1", "3", "-1", "+2", "a", ""}, t \in FileWords}
      \cup {P("wordlist", <<n, m, t>>) : n \in {"0", "1", "2", "3"}, m \in {"0", "1", "2", "9", "-1"},
                                          t \in FileWords}
      \cup {F("intcmp", <<T(n), T(m)>> \o SubSeq(<<x, y, <<Ref("V")>>>>, 1, k)) :
                n \in {"0", "-0", "7", "12", "-3", "+3", "010", "a", ""},
                m \in {"0", "7", "-12", "3", "10"}, k \in 0 .. 3}
      \cup {<<SubstRef("W", Chars(p), Chars(r))>> : p \in Patterns_ \cup {".b"}, r \in Percents}

Pool == [
  texts |-> {GV(t) : t \in Texts},
  calls |->
    {GW(R1 \o R2), GW(<<Ref("2")>> \o F("if", <<R2, F("call", <<T("W"), R2>>)>>)),
     GW(F("foreach", <<T("i"), R1, <<Ref("i"), Ref("2")>>>>)),
     GW(F("let", <<T("1 2"), R1, <<Ref("2"), Ref("1")>>>>)), GW(T("b.x b")), GW(<<Ref("V")>>),
     GV(F("call", <<T("W"), T("a b"), y>>)), GV(F("call", <<T("W"), x>>)), GV(F("call", <<T(""), x>>)),
     GV(R2 \o R1),
     GV(F("call", <<T("W"), F("call", <<T("W"), x>>), y>>)),
     GV(F("foreach", <<T("W"), T("x y"), F("call", <<T("W"), <<Ref("W")>>>>)>>)),
     GV(F("foreach", <<T("W"), T("x y"), <<Shell("W")>>>>)),
     GV(F("let", <<T("W 1"), T("x y x"), <<Ref("1"), Ref("W")>>>>)),
     GV(F("let", <<T("W W i"), x, <<Ref("i"), Ref("W")>>>>)),
     D("b", "W", "=", R2 \o x), D("b", "V", "+=", <<SubstRef("W", Chars("b"), Chars("a"))>>), L("export", "W")},
  parts |->
    {GV(F(f, args)) : f \in {"if", "or", "and"},
                     args \in {<<x, y, RV>>, <<RW, RV, y>>, <<RW, RW, x>>, <<RW, x>>}}
      \cup {GV(F(f, <<T(n)>>)) : f \in {"origin", "flavor", "value"}, n \in {"V", "W"}}
      \cup {GW(x), GW(<<>>), D("global", "W", ":=", RV), D("b", "W", "+=", x),
            M(D("b", "W", ":=", x), {"override"}),
            D("b", "V", "+=", F("value", <<T("W")>>)), D("b", "W", "+=", <<>>),
            D("b", "V", ":=", <<SubstRef("W", Chars("x"), Chars("a"))>>)},

  flavors |->
    {D("global", "V", f, RW) : f \in {"=", ":=", "?=", "+="}}
      \cup {D("global", "V", ":::=", LateW), D("global", "V", "!=", LateW),
            D("global", "V", "+=", x),
            D("global", "W", "=", y), D("global", "W", ":=", RV), D("global", "W", "+=", x),
            L("undefine", "V")},
  targets |->
    {D("b", "V", f, v) : f \in {"=", ":=", "?=", "+="}, v \in {x, RW}}
      \cup {D("a", "V", "+=", y), D("a", "V", "=", y), D("b", "W", "=", RV),
            D("global", "V", ":=", y), D("global", "W", "=", y)},
  private |->
    {M(D("a", "V", "=", x), {"private"}), D("a", "V", "+=", x), D("b", "V", "+=", y),
     M(D("b", "W", "+=", RV), {"private"}), M(D("global", "V", "=", y), {"private"}),
     D("global", "V", "+=", RW), D("global", "W", ":=", x), D("a", "W", ":=", y),
     M(D("b", "V", "?=", x), {"private"}), L("export", "V")},
  patterns |->
    {D("%", "V", f, x) : f \in {"=", ":=", "?=", "+="}}
      \cup {D("b%", "V", "+=", RW), D("b%", "V", "=", RW), D("b", "V", "+=", y),
            D("global", "W", "=", x), D("global", "W", "=", RW), D("a", "W", "=", y),
            D("global", "V", "=", x)},
  origins |->
    {M(D("global", "V", "=", x), {"override"}), M(D("b", "V", "+=", x), {"override"}),
     M(D("%", "V", "=", x), {"override"}), M(L("undefine", "V"), {"override"}),
     D("global", "V", "=", y), D("global", "V", "+=", y), D("b", "V", "=", y),
     D("b", "V", "+=", x), D("%", "V", "=", y), D("%", "V", "+=", x), D("%", "V", ":=", x),
     D("global", "W", ":=", RV)},
  exports |->
    {M(D("global", "V", "=", x), {"export"}), M(D("b", "V", "=", x), {"export"}),
     M(D("a", "V", "=", y), {"unexport"}), M(D("%", "W", "=", x), {"export"}),
     M(D("b", "V", "?=", x), {"export"}), D("global", "V", "=", RW), D("b", "V", "+=", RW),
     D("%", "W", "?=", y), D("global", "W", "=", y), L("export", "V"), L("unexport", "V"),
     L("export all", ""), L("unexport all", ""), L("undefine", "V")},
  shell |->
    {D("global", "V", f, <<Shell("V")>>) : f \in {"=", ":=", "+="}}
      \cup {D("global", "W", "=", <<Shell("V"), Ref("W")>>), D("global", "W", "=", <<Shell("W")>>),
            D("b", "V", "=", <<Shell("W")>> \o x), M(D("global", "W", "=", RV), {"export"}),
            M(D("b", "V", "+=", <<Shell("V")>>), {"export"}), L("export", "V")}]
\* Recipes, for a usual shell, with .ONESHELL, and with shells and flags that
\* are not
ShellOfWorld ==
    [commands |-> [shell |-> Chars("/bin/sh"), flags |-> Chars("-c"), one_shell |-> FALSE],
     oneshell |-> [shell |-> Chars("/bin/sh"), flags |-> Chars("-ec"), one_shell |-> TRUE],
     other |-> [shell |-> Chars("/b/;z"), flags |-> Chars("-e  -x"), one_shell |-> FALSE],
     otheroneshell |-> [shell |-> Chars("/b/;z"), flags |-> Chars("-e"), one_shell |-> TRUE],
     noflags |-> [shell |-> Chars("/b/sh"), flags |-> <<>>, one_shell |-> FALSE]]
MCShellOf(w) == ShellOfWorld[IF w \in DOMAIN ShellOfWorld THEN w ELSE "commands"]
RecipeLines ==
    {[L("recipe", "") EXCEPT !.value = Chars(t)] :
        t \in {"a", " ", "'", "a ''", "\\", "\n", "\\\n\t", "=b", ";", " -@", ":", "\nV", "+\n"}}
      \cup {GV(<<Text(Chars("-a\n+b"))>>), GV(<<Text(Chars("'a\n"))>>)}

MCWorlds == DOMAIN Pool \cup DOMAIN ShellOfWorld
MCLinesOf(w) == IF w \in DOMAIN ShellOfWorld THEN RecipeLines ELSE Pool[w]
MCMaxLines(w) == CASE w = "texts" -> 1 [] w \in {"calls", "parts"} -> 2 [] OTHER -> 3
MCGivenIn(w) ==
    CASE w \in {"origins", "parts"} -> {Env, EnvOverride, Command}
      [] w = "exports" -> {Env, Command}
      [] w \in {"flavors", "shell"} -> {Default, Env}
      [] OTHER -> {Default}
================================================================================
