----------------------------- MODULE MCImplicit -----------------------------
(***************************************************************************)
(* Every pair of rules with one or two prerequisites over four suffixes,   *)
(* with one file on disk or none and one file mentioned or none; and       *)
(* makefiles picked for one thing each: match-anything and terminal rules, *)
(* directories, prefixes, peers, cancelled and redefined rules, suffix     *)
(* rules, and rules that lead back to each other; search paths, and disks  *)
(* that recipes change, each with streams that give the names of when they *)
(* were opened or those there now.                                         *)
(***************************************************************************)
EXTENDS Implicit

N(e) == <<"x", e>>
Pct(e) == [pre |-> <<>>, suf |-> <<e>>]
D(e) == [pre |-> <<>>, suf |-> <<e>>, percent |-> TRUE, oo |-> FALSE]
Named(n) == [pre |-> n, suf |-> <<>>, percent |-> FALSE, oo |-> FALSE]
Rule(ts, ds) == [targets |-> ts, deps |-> ds, cmds |-> 1, terminal |-> FALSE]
To(e, f) == Rule(<<Pct(e)>>, <<D(f)>>)
All(f) == Rule(<<[pre |-> <<>>, suf |-> <<>>]>>, <<D(f)>>)
Terminal(r) == [r EXCEPT !.terminal = TRUE]
Cancelled(r) == [r EXCEPT !.cmds = 0]
Second(r) == [r EXCEPT !.cmds = 2]

Ext == {"a", "b", "c", "d"}
Singles == {To(p[1], p[2]) : p \in {q \in Ext \X Ext : q[1] # q[2]}}
Doubles == {Rule(<<Pct(p[1])>>, <<D(p[2]), D(p[3])>>) :
              p \in {q \in Ext \X Ext \X Ext :
                       q[1] # q[2] /\ q[2] # q[3] /\ q[1] # q[3]}}
Pool == Singles \cup Doubles

Pair(n) == <<Directory(n), Within(n)>>
On(names) == {Pair(n) : n \in names}

Plain == [alias |-> << >>, unreadable |-> {}, late |-> FALSE]
Makefile == [define |-> <<>>, disk |-> On({N("d")}), fs |-> Plain, goals |-> {N("a"), N("b")},
             explicit |-> {}, vpath |-> <<>>, general |-> <<>>, suffixes |-> <<>>, one |-> <<>>,
             two |-> <<>>, builtin |-> <<>>, recipes |-> <<>>,
             names |-> {N(e) : e \in {"a", "b", "c", "d"}}]
Of(rs) == [Makefile EXCEPT !.define = rs]
At(d, n) == <<d, "/">> \o n
Vpath(p, ds) == [pattern |-> p, dirs |-> ds]
For(e) == <<[pre |-> <<>>, suf |-> <<e>>, percent |-> TRUE]>>
Only(n) == <<[pre |-> n, suf |-> <<>>, percent |-> FALSE]>>
Adds(names) == [adds |-> On(names), removes |-> {}]
Removing(names) == [adds |-> {}, removes |-> On(names)]
From(d, e) == [pre |-> <<d, "/">>, suf |-> <<e>>, percent |-> TRUE, oo |-> FALSE]
In(e) == <<"s", "/", "x", e>>
Lib(e) == [pre |-> <<"l">>, suf |-> <<e>>]

Picked ==
    [long |-> Of(<<To("a", "b"), To("b", "c"), To("c", "d")>>),
     any |-> Of(<<All("d"), To("b", "c"), To("c", "d")>>),
     anyonly |-> [Of(<<All("d"), Terminal(All("e"))>>) EXCEPT
                    !.goals = {<<"x">>, N("a")}],
     terminal |-> Of(<<Terminal(To("a", "b")), To("b", "d"),
                       Terminal(To("a", "d"))>>),
     stems |-> [Of(<<To("a", "d"),
                     Rule(<<Lib("a")>>, <<D("d")>>)>>) EXCEPT
                  !.disk = On({N("d"), <<"l", "x", "d">>}),
                  !.goals = {<<"l", "x", "a">>, N("a")}],
     subdir |-> [Of(<<To("a", "b"), To("b", "d")>>) EXCEPT
                   !.disk = On({In("d")}), !.goals = {In("a"), In("b")}],
     peers |-> [Of(<<Rule(<<Lib("a"), Pct("b")>>, <<D("d")>>),
                     To("c", "b")>>) EXCEPT
                  !.goals = {N("b"), N("c"), <<"l", "x", "a">>}],
     cancelled |-> Of(<<Cancelled(To("a", "d")), To("b", "d")>>),
     redefined |-> [Makefile EXCEPT
                      !.define = <<To("a", "d"), To("b", "d"),
                                   Second(To("a", "d"))>>,
                      !.builtin = <<Second(To("b", "d")), To("b", "c")>>],
     named |-> [Of(<<Rule(<<Pct("a")>>, <<Named(<<"y">>), D("d")>>),
                     To("b", "a")>>) EXCEPT !.explicit = {<<"y">>}],
     vpath |-> [Of(<<To("a", "c"), To("c", "b")>>) EXCEPT
                  !.vpath = <<Vpath(For("b"), <<<<<<"s", "/">>>>>>)>>, !.disk = On({At("s", N("b"))})],
     paths |-> [Of(<<To("a", "c"), To("b", "d")>>) EXCEPT
                  !.vpath = <<Vpath(For("d"), <<<<<<"s">>, <<"u">>>>>>), Vpath(For("c"), <<<<<<"t">>>>>>),
                              Vpath(For("d"), <<>>), Vpath(For("d"), <<<<Here, <<"t">>>>>>),
                              Vpath(Only(N("c")), <<<<<<"s">>>>>>), Vpath(For("b"), <<<<Here>>>>)>>,
                  !.general = <<<<"u">>, <<"s">>>>,
                  !.disk = On({At("s", N("d")), At("s", N("c")), At("u", N("b"))}),
                  !.explicit = {At("t", N("a")), At("u", N("a"))},
                  !.recipes = <<Adds({At("t", N("d"))}), [Adds({At("t", N("c"))}) EXCEPT
                                                           !.removes = On({At("s", N("c"))})]>>],
     order |-> [Of(<<To("a", "d"), To("b", "d")>>) EXCEPT
                  !.vpath = <<Vpath(For("d"), <<<<<<"s">>, <<"u">>>>>>), Vpath(For("d"), <<<<<<"t">>>>>>)>>,
                  !.general = <<<<"v">>>>, !.disk = On({At("t", N("d")), At("v", N("d"))}),
                  !.recipes = <<Adds({At("u", N("d"))}), Removing({At("t", N("d"))})>>],
     forgotten |-> [Of(<<To("a", "d"), To("b", "d")>>) EXCEPT
                  !.vpath = <<Vpath(For("d"), <<<<<<"s">>>>>>), Vpath(<<>>, <<>>)>>,
                  !.disk = On({At("s", N("d"))})],
     made |-> [Of(<<To("a", "c"), To("b", "c"), To("c", "d"), To("e", "c")>>) EXCEPT
                  !.disk = {}, !.goals = {N("a"), N("b"), N("e")},
                  !.recipes = <<Adds({N("d")}), Removing({N("d")})>>],
     unlinked |-> [Of(<<To("a", "d"), To("b", "c"), To("a", "c")>>) EXCEPT
                  !.recipes = <<[Removing({N("d")}) EXCEPT !.adds = On({N("c")})]>>],
     directory |-> [Of(<<Rule(<<Pct("a")>>, <<From("o", "c")>>),
                         Rule(<<Pct("b")>>, <<From("o", "c"), D("d")>>)>>) EXCEPT
                  !.names = {At("o", N("c")), N("d")},
                  !.recipes = <<Adds({At("o", N("c"))}), Removing({At("o", N("c"))})>>],
     alias |-> [Of(<<Rule(<<Pct("a")>>, <<From("s", "c")>>),
                     Rule(<<Pct("b")>>, <<From("t", "c")>>)>>) EXCEPT
                  !.fs.alias = <<"t">> :> <<"s">>, !.disk = On({At("s", N("d"))}),
                  !.names = {At("s", N("c")), At("t", N("c")), At("t", N("d")), At("s", N("b"))},
                  !.recipes = <<Adds({At("s", N("c"))}), Adds({At("s", N("b"))})>>],
     unreadable |-> [Of(<<Rule(<<Pct("a")>>, <<From("s", "c")>>), To("b", "d")>>) EXCEPT
                  !.fs.unreadable = {<<"s">>}, !.vpath = <<Vpath(For("d"), <<<<<<"s">>, <<"t">>>>>>)>>,
                  !.disk = On({At("s", N("c")), At("s", N("d")), At("t", N("d"))}),
                  !.names = {At("s", N("c")), At("s", N("b")), N("d")},
                  !.recipes = <<Removing({At("t", N("d"))})>>],
     suffixes |-> [Of(<<To("a", "d"), To("a", "b")>>) EXCEPT
                     !.suffixes = <<<<"b">>, <<"d">>, <<"a">>>>,
                     !.one = <<0, 1, 0>>,
                     !.two = [p \in (1 .. 3) \X (1 .. 3) |->
                                IF p = <<2, 1>> \/ p = <<2, 3>> THEN 2 ELSE 0],
                     !.goals = {N("a"), N("b"), <<"x">>}],
     loops |-> [Of(<<To("g", "a"), To("a", "b"), To("b", "c"), To("b", "e"),
                     To("c", "a"), To("e", "d"), To("z", "c")>>) EXCEPT
                  !.goals = {N("g"), N("z")}]]

\* the names that may be on a disk, in no order of theirs
MCOrder == <<N("c"), N("d"), N("a"), N("b"), <<"l", "x", "d">>>>

MCWorlds ==
    {[Picked[k] EXCEPT !.fs.late = late] : k \in DOMAIN Picked, late \in BOOLEAN} \cup
    {[Of(<<r, q>>) EXCEPT !.disk = On({N(d)}), !.explicit = e] :
       r \in Pool, q \in Pool, d \in {"c", "d"}, e \in {{}, {<<"y", "b">>, N("c")}}}
=============================================================================
