----------------------------- MODULE VariableMeaning -----------------------------
(***************************************************************************)
(* What the lines of a makefile say a variable is worth in a recipe, told  *)
(* from the lines alone (make.texi, "Setting Variables", "Target-specific  *)
(* Variable Values", "Communicating Variables to a Sub-make"): the         *)
(* innermost scope that defines it counts, += adds to what the scopes      *)
(* further out have, what is deferred is expanded in the recipe, what is   *)
(* not when its line is read.  There are no sets, chains or flags here.    *)
(***************************************************************************)
EXTENDS Variables, TextMeaning, CommandMeaning

(***************************************************************************)
(* Scopes, the innermost first.  A private variable counts where it is     *)
(* near.                                                                   *)
(***************************************************************************)
Everywhere == [kind |-> "global", target |-> ""]
InTarget(f) == [kind |-> "own", target |-> f]
InPattern(f) == [kind |-> "pattern", target |-> f]

Near(scope) == [scope |-> scope, near |-> TRUE]
Far(scope) == [scope |-> scope, near |-> FALSE]
\* what a function gives a value, on top of the other scopes; bound has the words
Giving(bound, scopes) == <<Near([kind |-> "bound", target |-> bound])>> \o scopes
RecipeScopes(f) ==
    <<Near(InTarget(f)), Near(InPattern(f))>>
      \o (IF Above[f] = <<>> THEN <<>>
          ELSE <<Far(InTarget(Above[f][1])), Far(InPattern(Above[f][1]))>>)
      \o <<Far(Everywhere)>>

\* where a line's own text is expanded when it is read
LineScopes(l) ==
    IF l.scope \in Targets THEN <<Near(InTarget(l.scope)), Far(Everywhere)>>
    ELSE <<Near(Everywhere)>>

Concerns(i, scope, n) ==
    /\ scope.kind # "bound" /\ lines[i].name = n
    /\ CASE scope.kind = "global" -> lines[i].kind = "undefine" \/ lines[i].scope = "global"
         [] scope.kind = "own" -> lines[i].scope = scope.target
         [] OTHER -> /\ lines[i].scope \in Range(Patterns)
                     /\ Matches(lines[i].scope, scope.target)

\* in the order they count: those of shorter patterns first
LengthOf(i, scope) == IF scope.kind = "pattern" THEN Rank(lines[i].scope) ELSE 0
CountsBefore(i, j, scope) ==
    LengthOf(i, scope) < LengthOf(j, scope) \/ (LengthOf(i, scope) = LengthOf(j, scope) /\ i < j)
LinesAbout(scope, n, k) ==
    SetToSortSeq({i \in 1 .. k : Concerns(i, scope, n)}, LAMBDA i, j : CountsBefore(i, j, scope))

(***************************************************************************)
(* What one scope says of a variable after k lines                         *)
(***************************************************************************)
RECURSIVE Ask

Nothing == [said |-> FALSE, inherit |-> TRUE, parts |-> <<>>, simple |-> FALSE, origin |-> -1]
AtFirst(scope, n) ==
    IF scope.kind = "global" /\ n = GivenName /\ given # Default
    THEN [said |-> TRUE, inherit |-> FALSE, parts |-> <<[w |-> GivenValue, late |-> TRUE]>>,
          simple |-> FALSE, origin |-> given]
    ELSE IF scope.kind = "bound" /\ n \in DOMAIN scope.target
    THEN [said |-> TRUE, inherit |-> FALSE, parts |-> <<[w |-> scope.target[n], late |-> FALSE]>>,
          simple |-> TRUE, origin |-> Automatic]
    ELSE Nothing

Late(w) == <<[w |-> w, late |-> TRUE]>>
AtOnce(i, w) == <<[w |-> Ask[<<"eval", LineScopes(lines[i]), w, i - 1, {}, FALSE>>].w, late |-> FALSE]>>

\* what was given on the command line, or with -e, is what a target gets as well
CommandWins(i, scope) ==
    /\ scope.kind # "global" /\ "override" \notin lines[i].mod
    /\ Ask[<<"scope", Everywhere, lines[i].name, i - 1>>].origin \in {Command, EnvOverride}

KnownBefore(i, m, scope) ==
    \/ m.said
    \/ Ask[<<"parts", LineScopes(lines[i]), lines[i].name,
             IF scope.kind = "pattern" THEN Len(lines) ELSE i - 1>>].def

\* l is the i-th line, m what was said before it, and then it says new
Plain(m, l, i, new) ==
    CASE l.flavor \in {":=", ":::="} ->
           [new EXCEPT !.inherit = FALSE, !.simple = l.flavor = ":=", !.parts = AtOnce(i, l.value)]
      [] l.flavor = "!=" ->
           [new EXCEPT !.inherit = FALSE, !.simple = FALSE, !.parts = Late(AtOnce(i, l.value)[1].w)]
      [] OTHER -> [new EXCEPT !.inherit = FALSE, !.simple = FALSE, !.parts = Late(l.value)]
Added(m, new, parts) ==
    IF parts = <<[w |-> <<>>, late |-> FALSE]>> THEN m ELSE [new EXCEPT !.parts = @ \o parts]
Says(m, l, i, scope, new) ==
    CASE l.kind = "undefine" -> Nothing
      [] l.kind \in {"export", "unexport"} ->   \* these define it as well, as with :=
           IF m.said THEN m ELSE [new EXCEPT !.inherit = FALSE, !.simple = TRUE]
      [] l.flavor = "?=" -> IF KnownBefore(i, m, scope) THEN m ELSE Plain(m, l, i, new)
      [] l.flavor = "+=" /\ (m.said \/ scope.kind # "global") ->
           Added(m, new, IF m.simple THEN AtOnce(i, l.value) ELSE Late(l.value))
      [] OTHER -> Plain(m, l, i, new)

SaidBy(m, l, i, scope) ==
    IF OriginOf(l) < m.origin THEN m
    ELSE IF CommandWins(i, scope)
    THEN [m EXCEPT !.said = TRUE, !.origin = given, !.inherit = FALSE, !.parts = Late(GivenValue)]
    ELSE Says(m, l, i, scope, [m EXCEPT !.said = TRUE, !.origin = OriginOf(l)])

SaidIn(scope, n, k) ==
    FoldLeft(LAMBDA m, i : SaidBy(m, lines[i], i, scope), AtFirst(scope, n), LinesAbout(scope, n, k))

\* the last line about it says whether it is private; for all targets, any line
AnyPrivate(scope, about) ==
    /\ about # <<>>
    /\ IF scope.kind = "global" THEN \E j \in DOMAIN about : "private" \in lines[about[j]].mod
       ELSE "private" \in lines[Last(about)].mod
IsPrivate(scope, n, k) == AnyPrivate(scope, LinesAbout(scope, n, k))

\* the definition that counts, in these scopes: what m, said in the first, and,
\* if it adds to them, the ones further out come to
Outside(scopes, n, k) == Ask[<<"parts", Tail(scopes), n, k>>]
Together(m, scopes, n, k) ==
    IF ~m.said \/ (~Head(scopes).near /\ IsPrivate(Head(scopes).scope, n, k))
    THEN Outside(scopes, n, k)
    ELSE [def |-> TRUE, origin |-> m.origin, simple |-> m.simple, own |-> m.parts,
          parts |-> (IF m.inherit THEN Outside(scopes, n, k).parts ELSE <<>>) \o m.parts]
Parts(scopes, n, k) ==
    IF scopes = <<>> THEN [def |-> FALSE, parts |-> <<>>, own |-> <<>>, simple |-> FALSE, origin |-> -1]
    ELSE Together(Ask[<<"scope", Head(scopes).scope, n, k>>], scopes, n, k)

(***************************************************************************)
(* The environment                                                         *)
(***************************************************************************)
\* what a line says of the export of its variable
ToldOfExport(i) ==
    CASE lines[i].kind = "export" -> "export"
      [] lines[i].kind = "unexport" -> "noexport"
      [] lines[i].kind = "undefine" ->
           IF OriginOf(lines[i]) >= Ask[<<"scope", Everywhere, lines[i].name, i - 1>>].origin
           THEN "forgotten" ELSE "default"
      [] OTHER -> Told(lines[i])

LastTold(about, otherwise) ==
    IF about = <<>> THEN otherwise
    ELSE IF ToldOfExport(Last(about)) = "forgotten" THEN "default" ELSE ToldOfExport(Last(about))
SaidOfExport(scope, n, k) ==
    LastTold(SelectSeq(LinesAbout(scope, n, k), LAMBDA i : ToldOfExport(i) # "default"),
             IF scope.kind = "global" /\ n = GivenName /\ given \in {Env, EnvOverride}
             THEN "export" ELSE "default")

AllExported(k) ==
    FoldLeft(LAMBDA all, l : IF l.kind \in {"export all", "unexport all"}
                             THEN l.kind = "export all" ELSE all,
             FALSE, SubSeq(lines, 1, k))

\* the innermost scope that says so decides; if none does, where the value is from
Deciding(scopes, n, k) ==
    SelectInSeq(scopes, LAMBDA c : /\ c.near \/ ~IsPrivate(c.scope, n, k)
                                   /\ SaidOfExport(c.scope, n, k) # "default")
Decided(scopes, j, n, k, counts) ==
    /\ counts.def
    /\ IF j = 0 THEN \/ AllExported(k) /\ counts.origin # Automatic
                     \/ counts.origin \in {Command, Env, EnvOverride}
       ELSE SaidOfExport(scopes[j].scope, n, k) = "export"
SaidExported(scopes, n, k) ==
    Decided(scopes, Deciding(scopes, n, k), n, k, Ask[<<"parts", scopes, n, k>>])

(***************************************************************************)
(* Values                                                                  *)
(***************************************************************************)
\* what make got of n from its own environment
FromOutside(n) == IF n = GivenName /\ given \in {Env, EnvOverride} THEN GivenValue ELSE <<>>

\* a variable that is needed for its own value is an error, but for the shell of
\* $(shell) it is what make was started with
InParts(parts, scopes, k, busy, shell) ==
    FoldLeft(LAMBDA r, p :
               Joined(r, IF p.late THEN Ask[<<"eval", scopes, p.w, k, busy, shell>>]
                         ELSE Result(p.w)),
             Result(<<>>), parts)
ValueOfParts(m, scopes, n, k, busy, shell) ==
    IF <<"in", n>> \in busy /\ <<"called", n>> \notin busy /\ m.origin # Automatic
    THEN IF shell THEN Result(FromOutside(n)) ELSE Failed
    ELSE InParts(m.parts, scopes, k, busy \cup {<<"in", n>>}, shell)
ValueOf(scopes, n, k, busy, shell) ==
    ValueOfParts(Ask[<<"parts", scopes, n, k>>], scopes, n, k, busy, shell)

\* what came from the environment and was left alone goes there as it came
AsItCame(counts, scopes, n, k, busy, shell) ==
    IF counts.origin \in {Env, EnvOverride} THEN Result(counts.parts[1].w)
    ELSE ValueOf(scopes, n, k, busy, shell)
InEnvironment(scopes, n, k, busy, shell) ==
    AsItCame(Ask[<<"parts", scopes, n, k>>], scopes, n, k, busy, shell)

(***************************************************************************)
(* Functions                                                               *)
(***************************************************************************)
Worded(words) == [i \in DOMAIN words |-> Text(words[i])]
SaidSubst(r, w) ==
    IF ~r.ok THEN Failed
    ELSE Result(Worded(SaidSubstReference(WordsRead(AsText(r.w)), PatternOf(w[3]), w[4])))

\* the i-th argument, the empty text if there is none
Arg(args, i, scopes, k, busy, shell) ==
    Ask[<<"eval", scopes, IF i > Len(args) THEN <<>> ELSE args[i], k, busy, shell>>]
AllArgs(args, scopes, k, busy, shell) ==
    [i \in DOMAIN args |-> Arg(args, i, scopes, k, busy, shell)]

\* in the scopes with what is bound; of a call's, the parameters it has not are empty
Body(words, bound, scopes, k, busy, shell) ==
    Ask[<<"eval", Giving(bound, scopes), words, k, busy, shell>>]
EachBody(name, list, words, scopes, k, busy, shell) ==
    IF ~list.ok THEN Failed
    ELSE FoldLeft(LAMBDA r, w : Joined(r, Body(words, [n \in {name} |-> <<w>>], scopes, k, busy, shell)),
                  Result(<<>>), list.w)
\* one word for each name, the last has what is left; the last of equal names counts
Share(names, words, n) ==
    IF n = Last(names) THEN SubSeq(words, Len(names), Len(words))
    ELSE PlacedWords(words, SelectLastInSeq(names, LAMBDA m : m = n),
                     SelectLastInSeq(names, LAMBDA m : m = n))
LetBody(names, list, words, scopes, k, busy, shell) ==
    IF ~list.ok THEN Failed
    ELSE Body(words, [n \in Range(names) |-> Share(names, list.w, n)], scopes, k, busy, shell)

ArgumentNamed(args, n) ==
    FoldLeft(LAMBDA w, i : IF n = ToString(i - 1) THEN args[i].w ELSE w, <<>>,
             [i \in DOMAIN args |-> i])
SaidCall(args, scopes, k, busy, shell) ==
    IF \E i \in DOMAIN args : ~args[i].ok THEN Failed
    ELSE IF args[1].w = <<>> THEN Result(<<>>)
    ELSE Body(<<Ref(NameOf(args[1].w[1]))>>,
              [n \in {"0", "1", "2"} \cap Parameters |-> ArgumentNamed(args, n)],
              scopes, k, busy \cup {<<"called", NameOf(args[1].w[1])>>}, shell)

\* the first argument that is true, or that is not; expanded up to there
Until(args, stop, scopes, k, busy, shell) ==
    FoldLeft(LAMBDA r, i : IF r.found THEN r
                           ELSE [found |-> ~Arg(args, i, scopes, k, busy, shell).ok
                                           \/ (Arg(args, i, scopes, k, busy, shell).w # <<>>) = stop,
                                 i |-> i],
             [found |-> FALSE, i |-> 1], [i \in DOMAIN args |-> i]).i

Chosen(args, condition, scopes, k, busy, shell) ==
    IF ~condition.ok THEN Failed
    ELSE Arg(args, IF condition.w # <<>> THEN 2 ELSE 3, scopes, k, busy, shell)

Compared(args, l, r, scopes, k, busy, shell) ==
    IF ~IsInteger(l) \/ ~IsInteger(r) THEN Failed
    ELSE IF Len(args) = 2
    THEN Result(IF Value(l) = Value(r) THEN <<Text(Numeral(Value(l)))>> ELSE <<>>)
    ELSE Arg(args, CASE Value(l) < Value(r) -> 3
                     [] Value(l) = Value(r) -> 4
                     [] OTHER -> IF Len(args) = 5 THEN 5 ELSE 4, scopes, k, busy, shell)
SaidIntCmp(args, l, r, scopes, k, busy, shell) ==
    IF ~l.ok \/ ~r.ok THEN Failed
    ELSE Compared(args, AsText(l.w), AsText(r.w), scopes, k, busy, shell)

OriginWord(counts) ==
    CASE ~counts.def -> "undefined"
      [] counts.origin = Env -> "environment"
      [] counts.origin = InFile -> "file"
      [] counts.origin = EnvOverride -> "environment override"
      [] counts.origin = Command -> "command line"
      [] counts.origin = Override -> "override"
      [] counts.origin = Automatic -> "automatic"
Introspected(name, counts) ==
    CASE name = "origin" -> Worded(WordsRead(Chars(OriginWord(counts))))
      [] name = "flavor" ->
           Worded(WordsRead(Chars(IF ~counts.def THEN "undefined"
                                  ELSE IF counts.simple THEN "simple" ELSE "recursive")))
      [] name = "value" -> FlattenSeq([i \in DOMAIN counts.own |-> counts.own[i].w])

AsWorded(said) == IF said.ok THEN Result(Worded(said.words)) ELSE Failed
OfTexts(name, args) ==
    IF \E i \in DOMAIN args : ~args[i].ok THEN Failed
    ELSE AsWorded(Ask[<<"texts", name, [i \in DOMAIN args |-> AsText(args[i].w)]>>])

Function(name, args, scopes, k, busy, shell) ==
    CASE name = "foreach" ->
           EachBody(NameOf(args[1][1]), Arg(args, 2, scopes, k, busy, shell), args[3], scopes, k, busy, shell)
      [] name = "let" ->
           LetBody([i \in DOMAIN args[1] |-> NameOf(args[1][i])], Arg(args, 2, scopes, k, busy, shell),
                   args[3], scopes, k, busy, shell)
      [] name = "call" -> SaidCall(AllArgs(args, scopes, k, busy, shell), scopes, k, busy, shell)
      [] name = "if" -> Chosen(args, Arg(args, 1, scopes, k, busy, shell), scopes, k, busy, shell)
      [] name \in {"or", "and"} ->
           Arg(args, Until(args, name = "or", scopes, k, busy, shell), scopes, k, busy, shell)
      [] name = "intcmp" ->
           SaidIntCmp(args, Arg(args, 1, scopes, k, busy, shell), Arg(args, 2, scopes, k, busy, shell),
                      scopes, k, busy, shell)
      [] name \in {"origin", "flavor", "value"} ->
           Result(Introspected(name, Ask[<<"parts", scopes, NameOf(args[1][1]), k>>]))
      [] OTHER -> OfTexts(name, AllArgs(args, scopes, k, busy, shell))

EvalWord(scopes, w, k, busy, shell) ==
    CASE w[1] = "ref" -> ValueOf(scopes, w[2], k, busy, shell)
      [] w[1] = "shell" ->
           IF ~SaidExported(scopes, w[2], k) THEN Result(<<>>)
           ELSE InEnvironment(scopes, w[2], k, busy, TRUE)
      [] w[1] = "late" -> Result(<<Ref(w[2])>>)
      [] w[1] = "subst" -> SaidSubst(ValueOf(scopes, w[2], k, busy, shell), w)
      [] w[1] = "fn" -> Function(w[2], w[3], scopes, k, busy, shell)
      [] OTHER -> Result(<<w>>)
Eval(scopes, words, k, busy, shell) ==
    FoldLeft(LAMBDA r, w : IF r.ok THEN Joined(r, EvalWord(scopes, w, k, busy, shell)) ELSE r,
             Result(<<>>), words)

Ask == [c \in Any |->
    CASE c[1] = "eval" -> Eval(c[2], c[3], c[4], c[5], c[6])
      [] c[1] = "scope" -> SaidIn(c[2], c[3], c[4])
      [] c[1] = "parts" -> Parts(c[2], c[3], c[4])
      [] c[1] = "texts" -> SaidOf(c[2], c[3])]

(***************************************************************************)
(* Makefiles for which make does not do what the lines say; the README     *)
(* tells how each was observed.                                            *)
(***************************************************************************)
For(i, kinds) == lines[i].kind = "define" /\ lines[i].scope \in kinds
Same(i, j) == lines[i].name = lines[j].name
Overrides(i) == "override" \in lines[i].mod

\* an override += of a target is cut off from what it adds to by a weaker line
AppendCutOff ==
    \E i, j \in DOMAIN lines :
        /\ i < j /\ Same(i, j) /\ For(i, Targets \cup Range(Patterns))
        /\ lines[j].scope = lines[i].scope
        /\ Overrides(i) /\ lines[i].flavor = "+=" /\ ~Overrides(j)

\* a pattern's := after its own +=, with += for the target, still adds to what is outside
AppendKept ==
    \E i, j \in DOMAIN lines :
        /\ i # j /\ Same(i, j) /\ For(i, Range(Patterns)) /\ For(j, Range(Patterns))
        /\ lines[i].flavor = "+=" /\ lines[j].flavor = ":="

\* ?= for a target, where the variable is known, marks the one that is there
MarksAnother ==
    \E i \in DOMAIN lines :
        /\ For(i, Targets \cup Range(Patterns)) /\ lines[i].flavor = "?="
        /\ \/ lines[i].mod # {}
           \/ /\ lines[i].scope \in Range(Patterns)
              /\ \/ \E j \in DOMAIN lines : i # j /\ For(j, Range(Patterns)) /\ Same(i, j)
                 \/ Ask[<<"scope", Everywhere, lines[i].name, Len(lines)>>].said

\* a line for a pattern takes back what an earlier one said of export and private
MarksTakenBack ==
    \E i, j \in DOMAIN lines :
        /\ i # j /\ Same(i, j) /\ For(i, Range(Patterns)) /\ For(j, Range(Patterns))
        /\ lines[i].mod \ {"override"} # lines[j].mod \ {"override"}

\* what is private for a target is in the environment of what it is built for
PrivateExported ==
    \E i, j \in DOMAIN lines :
        /\ Same(i, j) /\ "private" \in lines[i].mod
        /\ \/ ToldOfExport(j) = "export" \/ AllExported(Len(lines))
           \/ lines[i].name = GivenName /\ given # Default

\* $(V:a=b) and $(call V) of what only adds nothing to V find nothing
EmptyAppend ==
    \E i \in DOMAIN lines :
        /\ lines[i].kind = "define" /\ lines[i].scope # "global"
        /\ lines[i].flavor = "+=" /\ lines[i].value = <<>>

\* $(intcmp) of two negative numbers compares them as if they were not
NegativeCompared ==
    \E i \in {i \in DOMAIN lines : lines[i].kind = "define"} : \E j \in DOMAIN lines[i].value :
        /\ lines[i].value[j][1] = "fn" /\ lines[i].value[j][2] = "intcmp"
        /\ \A a \in 1 .. 2 : IsPrefix(<<"-">>, AsText(lines[i].value[j][3][a]))

\* a pattern's += and := handle what was given for make as if it were their own text
PatternReset ==
    /\ given \in {Command, EnvOverride}
    /\ \E i \in DOMAIN lines :
         /\ For(i, Range(Patterns)) /\ lines[i].name = GivenName
         /\ lines[i].flavor \in {"+=", ":="} /\ ~Overrides(i)

Otherwise == AppendCutOff \/ AppendKept \/ MarksAnother \/ MarksTakenBack \/ EmptyAppend
                \/ NegativeCompared \/ PatternReset

(***************************************************************************)
(* Properties                                                              *)
(***************************************************************************)
\* In each recipe a variable is worth what the lines say: for the target, for
\* the patterns it matches, the shorter first, for the target it is built for,
\* for all; private ones only where they are said; by the origins' strength;
\* and a variable that leads back to itself is told, and nothing else is
\* (do_variable_definition, record_target_var, initialize_file_variables,
\* lookup_variable, variable_append, recursively_expand_for_file).
ValuesAsDefined == seen = <<>> \/ Otherwise \/
    \A n \in Names :
        Last(seen).value[n] = ValueOf(RecipeScopes(Last(seen).target), n, Len(lines), {}, FALSE)

SaysEnvironment(environment, scopes, exported) ==
    IF environment.ok
    THEN environment.w =
           [n \in exported |-> InEnvironment(scopes, n, Len(lines), {}, FALSE).w]
    ELSE \E n \in exported : ~InEnvironment(scopes, n, Len(lines), {}, FALSE).ok
SaysScopes(recipe, scopes) ==
    SaysEnvironment(recipe.environment, scopes,
                    {n \in Names : SaidExported(scopes, n, Len(lines))})
\* The environment of a recipe has exactly the variables that the lines say are
\* exported, each with the value that the recipe sees, whatever recipes ran
\* before (target_environment, should_export).
EnvironmentAsDefined ==
    seen = <<>> \/ Otherwise \/ PrivateExported
      \/ SaysScopes(Last(seen), RecipeScopes(Last(seen).target))

\* the text of the recipe: what was read of it, and in a line of it what its
\* references are worth
RecipeRead == FlattenSeq([i \in DOMAIN lines |-> IF lines[i].kind = "recipe" THEN lines[i].value ELSE <<>>])
WorthIn(scopes, line) ==
    FlattenSeq([i \in DOMAIN line |->
        IF line[i] \in Names THEN AsText(ValueOf(scopes, line[i], Len(lines), {}, FALSE).w)
        ELSE <<line[i]>>])

\* For each line of a recipe, and for each line that its references expand to,
\* the commands that make runs are those the text says, in its order, with the
\* flags in front of it: the shell gets the very text of the line, through all
\* the quoting, or make runs the very words that the shell would have made of
\* it, and then nothing else is in the line that a shell would see to
\* (chop_commands, start_job_command, construct_command_argv_internal).
CommandsAsShell ==
    seen = <<>> \/
      RunAsSaid(Last(seen).commands,
                SaidCommands(RecipeRead \o <<Newline>>, ShellOf(world),
                             LAMBDA line : WorthIn(RecipeScopes(Last(seen).target), line)),
                ShellOf(world))
================================================================================
