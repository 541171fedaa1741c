-------------------------------- MODULE Variables --------------------------------
(***************************************************************************)
(* The variables of GNU Make (variable.c, expand.c, and record_target_var  *)
(* of read.c): the sets they are kept in, one for all targets, one for     *)
(* each target and one for the patterns each target matches; how a line    *)
(* defines one; and what a recipe and its environment get of them.         *)
(*                                                                         *)
(* A makefile is read line by line, each line chosen from those of the     *)
(* world; then the recipes of the world's targets run.  A value is a       *)
(* sequence of words: text, a reference, $$(NAME), a substitution          *)
(* reference, $(shell echo $$NAME) or a function.  The blanks between      *)
(* words are left out.  A recipe is a text of characters, in which the     *)
(* name of a variable stands for a reference to it.  For TLC only.         *)
(***************************************************************************)
EXTENDS CommandLines, TLC

CONSTANTS Worlds,       \* identifiers of the makefiles to consider
          LinesOf(_),   \* the lines they are written with
          MaxLines(_),  \* how many of them
          GivenIn(_),   \* where V may come from before the makefile is read
          Names,        \* of variables
          Parameters,   \* names that only functions give a value
          Targets,
          Above,        \* the target that a target is built for, if any
          Order(_),     \* the targets whose recipes run, one after the other
          Patterns,     \* a sequence, by their length
          Matches(_, _),\* whether a pattern matches a target
          GivenName, GivenValue,
          ShellOf(_)    \* the shell of the recipes, its flags, whether .ONESHELL is given

VARIABLES world, given, lines, st, todo, seen

vars == <<world, given, lines, st, todo, seen>>

(***************************************************************************)
(* Words                                                                   *)
(***************************************************************************)
Text(x) == <<"text", x>>
Ref(n) == <<"ref", n>>
LateRef(n) == <<"late", n>>
SubstRef(n, pattern, replace) == <<"subst", n, pattern, replace>>
Shell(n) == <<"shell", n>>
Fn(name, args) == <<"fn", name, args>>

\* words as one text, a text as words, and a word that is a variable's name
AsText(words) == Spaced([i \in DOMAIN words |-> words[i][2]])
AsWords(t) == [i \in DOMAIN Tokens(t) |-> Text(Tokens(t)[i])]
NameOf(word) == word[2][1]

(***************************************************************************)
(* A variable.  Stronger origins have greater numbers.                     *)
(***************************************************************************)
Default == 0  Env == 1  InFile == 2  EnvOverride == 3  Command == 4  Override == 5
Automatic == 6
Undefined == [origin |-> -1, value |-> <<>>, recursive |-> FALSE, append |-> FALSE,
              export |-> "default", private |-> FALSE]
IsDefined(v) == v.origin >= 0

GlobalSet == <<"global", "">>
Own(f) == <<"own", f>>
Pat(f) == <<"pat", f>>
NoNames == [n \in Names \cup Parameters |-> Undefined]
SetNames == {GlobalSet} \cup {Own(f) : f \in Targets} \cup {Pat(f) : f \in Targets}

\* a variable is known by its set and its name
Var(s, id) == s.sets[id[1]][id[2]]
With(s, id, v) == [s EXCEPT !.sets[id[1]][id[2]] = v]

\* a chain of sets, from the innermost; a private variable is seen where it is local
GlobalChain == <<[set |-> GlobalSet, local |-> TRUE]>>
Level(s, f, local) ==
    <<[set |-> Own(f), local |-> local]>>
      \o (IF f \in s.patterned THEN <<[set |-> Pat(f), local |-> local]>> ELSE <<>>)
Beyond == <<[set |-> GlobalSet, local |-> FALSE]>>

\* initialize_file_variables: while makefiles are read a target has no parent
ReadingChain(f) == <<[set |-> Own(f), local |-> TRUE]>> \o Beyond
FileChain(s, f) ==
    Level(s, f, TRUE)
      \o (IF Above[f] = <<>> THEN <<>> ELSE Level(s, Above[f][1], FALSE)) \o Beyond

\* lookup_variable
IsSeen(v, local) == IsDefined(v) /\ (local \/ ~v.private)
Found(chain, name, i) == IF i = 0 THEN <<>> ELSE <<chain[i].set, name>>
lookup_variable(s, chain, name) ==
    Found(chain, name, SelectInSeq(chain, LAMBDA c : IsSeen(s.sets[c.set][name], c.local)))

(***************************************************************************)
(* Expansion.  busy: the variables being expanded; shell: an environment   *)
(* for $(shell) is being made.  A result r is r.ok and the words r.w.      *)
(***************************************************************************)
Result(w) == [ok |-> TRUE, w |-> w]
Failed == [ok |-> FALSE, w |-> <<>>]
Joined(a, b) == IF a.ok /\ b.ok THEN Result(a.w \o b.w) ELSE Failed

\* Call[<<"Expand", ...>>] and so on: the functions that call each other
RECURSIVE Call

\* what $(call) runs may lead back to itself, 32767 times
Called(id) == <<<<"called", id[1]>>, id[2]>>

\* recursively_expand_for_file, in the chain of that file
recursively_expand(s, chain, id, busy, shell) ==
    IF id \in busy /\ Called(id) \notin busy
    THEN IF ~shell THEN Failed
         ELSE Result(IF id[2] = GivenName /\ given \in {Env, EnvOverride} THEN GivenValue
                     ELSE <<>>)
    ELSE IF Var(s, id).append
         THEN Call[<<"Append", s, chain, 1, id[2], busy \cup {id}, shell>>]
         ELSE Call[<<"Expand", s, chain, Var(s, id).value, busy \cup {id}, shell>>]

reference_variable(s, chain, id, busy, shell) ==
    IF id = <<>> THEN Result(<<>>)
    ELSE IF Var(s, id).value = <<>> /\ ~Var(s, id).append THEN Result(<<>>)
    ELSE IF Var(s, id).recursive THEN recursively_expand(s, chain, id, busy, shell)
    ELSE Result(Var(s, id).value)

\* what a shell started by $(shell) has for NAME
InShell(environment, name) ==
    IF ~environment.ok THEN Failed
    ELSE Result(IF name \in DOMAIN environment.w THEN environment.w[name] ELSE <<>>)

(***************************************************************************)
(* Functions that expand their arguments, or in a scope of their own       *)
(***************************************************************************)
\* push_new_variable_scope, and variables in it; bound has their words
Scope(chain) == <<"scope", ToString(Len(chain))>>
Within(chain) == <<[set |-> Scope(chain), local |-> TRUE]>> \o chain
Bound(words) == [Undefined EXCEPT !.origin = Automatic, !.value = words]
Pushed(s, chain, bound) ==
    [s EXCEPT !.sets = (Scope(chain) :> [n \in DOMAIN NoNames |->
                           IF n \in DOMAIN bound THEN Bound(bound[n]) ELSE Undefined]) @@ @]
Inside(s, chain, bound, words, busy, shell) ==
    Call[<<"Expand", Pushed(s, chain, bound), Within(chain), words, busy, shell>>]

\* r are the expanded words of the list
func_foreach(s, chain, name, r, body, busy, shell) ==
    FoldLeft(LAMBDA all, w : IF all.ok THEN Joined(all, Inside(s, chain, name :> <<w>>, body, busy, shell))
                             ELSE all,
             Result(<<>>), IF r.ok THEN r.w ELSE <<>>)

\* the last name has the rest of the list
ShareOf(names, words, i) ==
    IF i = Len(names) THEN SubSeq(words, i, Len(words))
    ELSE IF i <= Len(words) THEN <<words[i]>> ELSE <<>>
Shares(names, words) ==
    [n \in Range(names) |->
        ShareOf(names, words, SelectLastInSeq(names, LAMBDA m : m = n))]
func_let(s, chain, names, r, body, busy, shell) ==
    IF ~r.ok THEN Failed
    ELSE Inside(s, chain, Shares(names, r.w), body, busy, shell)

\* $(0), $(1), ...; those of a call around it are hidden
Numbered(args, max_args) ==
    [n \in {ToString(i) : i \in 0 .. (IF Len(args) > max_args THEN Len(args) ELSE max_args) - 1} |->
        IF \E i \in DOMAIN args : n = ToString(i - 1)
        THEN args[CHOOSE i \in DOMAIN args : n = ToString(i - 1)] ELSE <<>>]
CallOf(s, chain, id, args, busy, shell) ==
    IF id = <<>> THEN Result(<<>>)
    ELSE IF Var(s, id).value = <<>> THEN Result(<<>>)
    ELSE Inside([s EXCEPT !.max_args = IF Len(args) > @ THEN Len(args) ELSE @], chain,
                Numbered(args, s.max_args), <<Ref(id[2])>>, busy \cup {Called(id)}, shell)
func_call(s, chain, r, busy, shell) ==
    IF ~r.ok THEN Failed
    ELSE IF r.args[1] = <<>> THEN Result(<<>>)
    ELSE CallOf(s, chain, lookup_variable(s, chain, NameOf(r.args[1][1])), r.args, busy, shell)

OriginName(v) ==
    CASE v.origin = Default -> "default"
      [] v.origin = Env -> "environment"
      [] v.origin = InFile -> "file"
      [] v.origin = EnvOverride -> "environment override"
      [] v.origin = Command -> "command line"
      [] v.origin = Override -> "override"
      [] v.origin = Automatic -> "automatic"
About(s, name, id) ==
    IF id = <<>> THEN (IF name = "value" THEN <<>> ELSE AsWords(Chars("undefined")))
    ELSE CASE name = "origin" -> AsWords(Chars(OriginName(Var(s, id))))
           [] name = "flavor" -> AsWords(Chars(IF Var(s, id).recursive THEN "recursive" ELSE "simple"))
           [] name = "value" -> Var(s, id).value

\* conditions are expanded one by one; the first that settles it is the last
Part(s, chain, args, i, busy, shell) ==
    IF i > Len(args) THEN Result(<<>>) ELSE Call[<<"Expand", s, chain, args[i], busy, shell>>]
IsTrue(r) == r.w # <<>>
func_if(s, chain, args, r, busy, shell) ==
    IF ~r.ok THEN Failed ELSE Part(s, chain, args, IF IsTrue(r) THEN 2 ELSE 3, busy, shell)
func_or(s, chain, args, busy, shell) ==
    FoldLeft(LAMBDA r, a : IF ~r.ok \/ IsTrue(r) THEN r
                           ELSE Call[<<"Expand", s, chain, a, busy, shell>>],
             Result(<<>>), args)
func_and(s, chain, args, busy, shell) ==
    FoldLeft(LAMBDA r, a : IF ~r.ok \/ ~IsTrue(r) THEN r
                           ELSE Call[<<"Expand", s, chain, a, busy, shell>>],
             Part(s, chain, args, 1, busy, shell), Tail(args))

\* less, equal, greater; greater is as equal if there are four arguments
IntCmpPart(args, cmp) == IF cmp < 0 THEN 3 ELSE IF cmp = 0 \/ Len(args) < 5 THEN 4 ELSE 5
IntCmp(s, chain, args, l, r, busy, shell) ==
    IF ~l.ok \/ ~r.ok THEN Failed
    ELSE IF Len(args) = 2
    THEN Result(IF intcmp(l, r) = 0 THEN <<Text(EqualNumber(l))>> ELSE <<>>)
    ELSE Part(s, chain, args, IntCmpPart(args, intcmp(l, r)), busy, shell)
func_intcmp(s, chain, args, a, b, busy, shell) ==
    IF ~a.ok \/ ~b.ok THEN Failed
    ELSE IntCmp(s, chain, args, parse_textint(AsText(a.w)), parse_textint(AsText(b.w)), busy, shell)

\* the arguments, all expanded; what comes of the function
ArgsOf(s, chain, args, busy, shell) ==
    FoldLeft(LAMBDA r, a : IF ~r.ok THEN r ELSE
               LET e == Call[<<"Expand", s, chain, a, busy, shell>>]
               IN [ok |-> e.ok, args |-> Append(r.args, e.w)],
             [ok |-> TRUE, args |-> <<>>], args)
AsResult(y) == IF y.ok THEN Result(AsWords(y.t)) ELSE Failed
OnTexts(name, r) ==
    IF ~r.ok THEN Failed
    ELSE AsResult(Call[<<"Texts", name, [i \in DOMAIN r.args |-> AsText(r.args[i])]>>])

handle_function(s, chain, name, args, busy, shell) ==
    CASE name = "foreach" ->
           func_foreach(s, chain, NameOf(args[1][1]), Part(s, chain, args, 2, busy, shell), args[3],
                        busy, shell)
      [] name = "let" ->
           func_let(s, chain, [i \in DOMAIN args[1] |-> NameOf(args[1][i])],
                    Part(s, chain, args, 2, busy, shell), args[3], busy, shell)
      [] name = "call" -> func_call(s, chain, ArgsOf(s, chain, args, busy, shell), busy, shell)
      [] name = "if" -> func_if(s, chain, args, Part(s, chain, args, 1, busy, shell), busy, shell)
      [] name = "or" -> func_or(s, chain, args, busy, shell)
      [] name = "and" -> func_and(s, chain, args, busy, shell)
      [] name = "intcmp" ->
           func_intcmp(s, chain, args, Part(s, chain, args, 1, busy, shell),
                       Part(s, chain, args, 2, busy, shell), busy, shell)
      [] name \in {"origin", "flavor", "value"} ->
           Result(About(s, name, lookup_variable(s, chain, NameOf(args[1][1]))))
      [] OTHER -> OnTexts(name, ArgsOf(s, chain, args, busy, shell))

\* $(V:a=b): nothing, if what V itself has is empty
SubstitutedIn(r, pattern, replace) ==
    IF ~r.ok THEN Failed ELSE Result(AsWords(SubstReference(AsText(r.w), pattern, replace)))
substitution_reference(s, chain, id, word, busy, shell) ==
    IF id = <<>> THEN Result(<<>>)
    ELSE IF Var(s, id).value = <<>> THEN Result(<<>>)
    ELSE SubstitutedIn(reference_variable(s, chain, id, busy, shell), word[3], word[4])

ExpandWord(s, chain, word, busy, shell) ==
    CASE word[1] = "ref" -> reference_variable(s, chain, lookup_variable(s, chain, word[2]), busy, shell)
      [] word[1] = "shell" ->
           InShell(Call[<<"Environment", s, chain, busy, TRUE>>], word[2])
      [] word[1] = "late" -> Result(<<Ref(word[2])>>)
      [] word[1] = "subst" ->
           substitution_reference(s, chain, lookup_variable(s, chain, word[2]), word, busy, shell)
      [] word[1] = "fn" -> handle_function(s, chain, word[2], word[3], busy, shell)
      [] OTHER -> Result(<<word>>)

\* variable_expand_string
Expand(s, chain, words, busy, shell) ==
    FoldLeft(LAMBDA r, word : IF r.ok THEN Joined(r, ExpandWord(s, chain, word, busy, shell))
                              ELSE r,
             Result(<<>>), words)

\* variable_append: what the sets further out have, then the value of this one.
\* The sets that are local are those before the first parent.
Hides(v, local) == ~IsDefined(v) \/ (~local /\ v.private)

\* v is what the i-th set has, outer what those further out have
AppendTo(s, chain, v, local, outer, busy, shell) ==
    IF Hides(v, local) THEN outer
    ELSE Joined(IF v.append THEN outer ELSE Result(<<>>),
                IF v.recursive THEN Call[<<"Expand", s, chain, v.value, busy, shell>>]
                ELSE Result(v.value))

variable_append(s, chain, i, name, busy, shell) ==
    IF i > Len(chain) THEN Result(<<>>)
    ELSE AppendTo(s, chain, s.sets[chain[i].set][name], chain[i].local,
                  Call[<<"Append", s, chain, i + 1, name, busy, shell>>], busy, shell)

(***************************************************************************)
(* target_environment                                                      *)
(***************************************************************************)
should_export(s, v) ==
    \/ v.export = "export"
    \/ /\ v.export = "default" /\ v.origin \notin {Default, Automatic}
       /\ s.export_all \/ v.origin \in {Command, Env, EnvOverride}

\* where the table gets a variable from: the innermost set that has it; of the
\* global set only what is to be exported.  Private ones are not left out.
Holds(s, c, name) ==
    /\ IsDefined(s.sets[c.set][name])
    /\ c.set # GlobalSet \/ should_export(s, s.sets[c.set][name])
Entry(s, chain, name) ==
    Found(chain, name, SelectInSeq(chain, LAMBDA c : Holds(s, c, name)))

\* a variable that does not say whether it is exported asks the sets further out
AskOuter_Never(s, id, outer) == s  \* (mutant) and is then left as it is
AskOuter(s, id, outer) ==
    IF Var(s, id).export = "default" /\ outer # id /\ IsDefined(Var(s, outer))
    THEN [s EXCEPT !.sets[id[1]][id[2]].export = Var(s, outer).export]
    ELSE s
Settle(s, chain, id) ==
    IF id = <<>> THEN s
    ELSE FoldLeft(LAMBDA a, c : AskOuter(a, id, <<c.set, id[2]>>), s, chain)
Settled(s, chain) ==
    FoldLeft(LAMBDA a, n : Settle(a, chain, Entry(a, chain, n)), s, SetToSeq(Names))

ValueInEnvironment(s, chain, id, busy, shell) ==
    IF Var(s, id).recursive /\ Var(s, id).origin \notin {Env, EnvOverride}
    THEN recursively_expand(s, chain, id, busy, shell)
    ELSE Result(Var(s, id).value)

\* s is settled
IsExported(s, id) == id # <<>> /\ should_export(s, Var(s, id))
Exported(s, chain) == {n \in Names : IsExported(s, Entry(s, chain, n))}

AllExpanded(table) ==
    [ok |-> \A n \in DOMAIN table : table[n].ok, w |-> [n \in DOMAIN table |-> table[n].w]]
EnvironmentOf(s, chain, busy, shell) ==
    AllExpanded([n \in Exported(s, chain) |->
                    ValueInEnvironment(s, chain, Entry(s, chain, n), busy, shell)])

Environment(s, chain, busy, shell) == EnvironmentOf(Settled(s, chain), chain, busy, shell)

Call == [c \in Any |->
    CASE c[1] = "Expand" -> Expand(c[2], c[3], c[4], c[5], c[6])
      [] c[1] = "Append" -> variable_append(c[2], c[3], c[4], c[5], c[6], c[7])
      [] c[1] = "Environment" -> Environment(c[2], c[3], c[4], c[5])
      [] c[1] = "Texts" -> expand_builtin_function(c[2], c[3])]

expand(s, chain, words) == Call[<<"Expand", s, chain, words, {}, FALSE>>]

(***************************************************************************)
(* Definitions                                                             *)
(***************************************************************************)
\* define_variable_in_set: a stronger definition stays; export and private stay
Stronger(old, origin) ==
    origin < (IF given = EnvOverride /\ old.origin = Env THEN EnvOverride ELSE old.origin)
define_variable_in_set(s, id, value, origin, recursive) ==
    IF Stronger(Var(s, id), origin) THEN s
    ELSE [s EXCEPT !.sets[id[1]][id[2]] =
            [@ EXCEPT !.value = value, !.origin = origin, !.recursive = recursive]]

\* POSIX :::= doubles the dollars of what it has expanded
Doubled(r) ==
    [r EXCEPT !.w = [i \in DOMAIN @ |-> IF @[i][1] = "ref" THEN LateRef(@[i][2]) ELSE @[i]]]

\* The variable is defined as id with the words r.w, and the definition d done
Define(s, d, id, r, recursive, append) ==
    IF ~r.ok THEN [s |-> [s EXCEPT !.fatal = TRUE], id |-> id]
    ELSE [s |-> [define_variable_in_set(s, id, r.w, d.origin, recursive)
                   EXCEPT !.sets[id[1]][id[2]].append = append],
          id |-> id]

\* +=: old is the variable that is there, or <<>>; new the words to add
AddTo(s, d, id, old, new, append) ==
    IF new.ok /\ new.w = <<>> THEN [s |-> s, id |-> old]
    ELSE Define(s, d, id, Joined(Result(Var(s, old).value), new), Var(s, old).recursive, append)
Appended(s, d, id, old, append) ==
    IF old = <<>> THEN Define(s, d, id, Result(d.value), TRUE, append)
    ELSE AddTo(s, d, id, old,
               IF Var(s, old).recursive THEN Result(d.value) ELSE expand(s, d.chain, d.value),
               append)
\* for a target: not from further out, if the target has a definition without +=
AppendedFor(s, d, id) ==
    IF IsDefined(Var(s, id)) THEN Appended(s, d, id, id, Var(s, id).append)
    ELSE Appended(s, d, id, <<>>, TRUE)

\* do_variable_definition.  d: name, value, flavor, origin, the chain it is
\* looked at in and whether it is for a target; the first set is the target's.
\* id is the variable, found what the name stands for now.
Defined(s, d, id, found) ==
    CASE d.flavor = "=" -> Define(s, d, id, Result(d.value), TRUE, FALSE)
      [] d.flavor = ":=" -> Define(s, d, id, expand(s, d.chain, d.value), FALSE, FALSE)
      [] d.flavor = ":::=" -> Define(s, d, id, Doubled(expand(s, d.chain, d.value)), TRUE, FALSE)
      [] d.flavor = "!=" ->     \* V != echo '...'
           Define(s, d, id, expand(s, d.chain, d.value), TRUE, FALSE)
      [] d.flavor = "?=" ->
           IF found # <<>> THEN [s |-> s, id |-> found]
           ELSE Define(s, d, id, Result(d.value), TRUE, FALSE)
      [] d.flavor = "+=" ->
           IF d.target THEN AppendedFor(s, d, id) ELSE Appended(s, d, id, found, FALSE)

do_variable_definition(s, d) ==
    Defined(s, d, <<IF d.target THEN d.chain[1].set ELSE GlobalSet, d.name>>,
            lookup_variable(s, d.chain, d.name))

OriginOf(l) == IF "override" \in l.mod THEN Override ELSE InFile
Told(l) == IF "export" \in l.mod THEN "export"
           ELSE IF "unexport" \in l.mod THEN "noexport" ELSE "default"
Definition(l, chain, target) ==
    [name |-> l.name, value |-> l.value, flavor |-> l.flavor, origin |-> OriginOf(l),
     chain |-> chain, target |-> target]

\* eval: what the modifiers say is said of whatever variable was found
Modify(r, l) ==
    IF r.s.fatal THEN r.s
    ELSE [r.s EXCEPT !.sets[r.id[1]][r.id[2]] =
            [@ EXCEPT !.export = IF Told(l) # "default" THEN Told(l) ELSE @,
                      !.private = @ \/ "private" \in l.mod]]

(***************************************************************************)
(* record_target_var                                                       *)
(***************************************************************************)
Specific(s, id, l) ==
    [s EXCEPT !.sets[id[1]][id[2]] =
        [@ EXCEPT !.private = "private" \in l.mod,
                  !.export = IF Told(l) # "default" THEN Told(l) ELSE @]]

\* what was said on the command line counts more than what a target says;
\* v is known as id, or is a pattern's
CommandCounts(s, v, id, global) ==
    /\ v.origin # Override /\ global # <<>> /\ global # id
    /\ Var(s, global).origin \in {EnvOverride, Command}

Reset(v, global) ==
    [v EXCEPT !.value = global.value, !.origin = global.origin,
              !.recursive = global.recursive, !.append = FALSE]

CommandKept(s, id, global) ==
    IF CommandCounts(s, Var(s, id), id, global)
    THEN With(s, id, Reset(Var(s, id), Var(s, global))) ELSE s

Recorded_Weak(r, l) ==  \* (mutant) the command line is forgotten
    IF r.s.fatal THEN r.s ELSE Specific(r.s, r.id, l)

Recorded(r, l) ==
    IF r.s.fatal THEN r.s
    ELSE CommandKept(Specific(r.s, r.id, l), r.id, lookup_variable(r.s, GlobalChain, l.name))

record_target_var(s, l, f) ==
    Recorded(do_variable_definition(s, Definition(l, ReadingChain(f), TRUE)), l)

\* create_pattern_var: after those with patterns as long, before longer ones
Rank(p) == SelectInSeq(Patterns, LAMBDA q : q = p)
create_pattern_var(s, p) ==
    [s EXCEPT !.pattern_vars =
        SelectSeq(@, LAMBDA q : Rank(q.pattern) <= Rank(p.pattern)) \o <<p>>
          \o SelectSeq(@, LAMBDA q : Rank(q.pattern) > Rank(p.pattern))]

PatternVariable(s, l, v, global) ==
    [pattern |-> l.scope, name |-> l.name, flavor |-> l.flavor,
     var |-> IF CommandCounts(s, v, <<>>, global) THEN Reset(v, Var(s, global)) ELSE v]

PatternRead(s, l, r) ==
    IF ~r.ok THEN [s EXCEPT !.fatal = TRUE]
    ELSE create_pattern_var(s, PatternVariable(s, l,
            [Undefined EXCEPT !.value = r.w, !.origin = OriginOf(l), !.export = Told(l),
                              !.private = "private" \in l.mod],
            lookup_variable(s, GlobalChain, l.name)))

record_pattern_var(s, l) ==
    PatternRead(s, l, IF l.flavor = ":=" THEN expand(s, GlobalChain, l.value) ELSE Result(l.value))

(***************************************************************************)
(* initialize_file_variables, when a recipe is about to run                *)
(***************************************************************************)
PatternChain(f) == <<[set |-> Pat(f), local |-> TRUE]>> \o GlobalChain

\* one pattern variable p for the target f
PatternDefinition(f, p) ==
    [name |-> p.name, value |-> p.var.value, flavor |-> p.flavor, origin |-> p.var.origin,
     chain |-> PatternChain(f), target |-> TRUE]
DefineFromPattern(s, f, p) ==
    IF p.flavor = ":="
    THEN [s |-> define_variable_in_set(s, <<Pat(f), p.name>>, p.var.value, p.var.origin, FALSE),
          id |-> <<Pat(f), p.name>>]
    ELSE do_variable_definition(s, PatternDefinition(f, p))

MarkedAs(r, v) ==
    IF r.s.fatal THEN r.s
    ELSE [r.s EXCEPT !.sets[r.id[1]][r.id[2]] =
            [@ EXCEPT !.export = v.export, !.private = v.private]]

FromPattern(s, f, p) == IF s.fatal THEN s ELSE MarkedAs(DefineFromPattern(s, f, p), p.var)

FromPatterns(s, f, matching) ==
    FoldLeft(LAMBDA a, p : FromPattern(a, f, p),
             [s EXCEPT !.searched = @ \cup {f},
                       !.patterned = IF matching = <<>> THEN @ ELSE @ \cup {f}],
             matching)
SearchPatterns(s, f) ==
    IF f \in s.searched THEN s
    ELSE FromPatterns(s, f, SelectSeq(s.pattern_vars, LAMBDA p : Matches(p.pattern, f)))

initialize_file_variables(s, f) ==
    SearchPatterns(IF Above[f] = <<>> THEN s ELSE SearchPatterns(s, Above[f][1]), f)

(***************************************************************************)
(* The run: the makefile is read, then the recipes run                     *)
(***************************************************************************)
Given == [Undefined EXCEPT !.value = GivenValue, !.origin = given, !.recursive = TRUE,
                           !.export = IF given = Command THEN "default" ELSE "export"]

Init ==
    /\ world \in Worlds
    /\ given \in GivenIn(world)
    /\ lines = <<>>
    /\ st = [sets |-> [x \in SetNames |->
                IF x = GlobalSet /\ given # Default
                THEN [NoNames EXCEPT ![GivenName] = Given] ELSE NoNames],
             max_args |-> 0, pattern_vars |-> <<>>, patterned |-> {}, searched |-> {},
             recipe |-> <<>>, export_all |-> FALSE, fatal |-> FALSE]
    /\ todo = Order(world)
    /\ seen = <<>>

Reading == ~st.fatal /\ Len(lines) < MaxLines(world) /\ todo = Order(world) /\ seen = <<>>

Read(l) == /\ lines' = Append(lines, l)
           /\ UNCHANGED <<world, given, todo, seen>>

\* eval: a definition for all targets
GlobalLine(l) ==
    /\ l.kind = "define" /\ l.scope = "global"
    /\ st' = Modify(do_variable_definition(st, Definition(l, GlobalChain, FALSE)), l)
    /\ Read(l)

TargetLine(l) ==
    /\ l.kind = "define" /\ l.scope \in Targets
    /\ st' = record_target_var(st, l, l.scope)
    /\ Read(l)

PatternLine(l) ==
    /\ l.kind = "define" /\ l.scope \in Range(Patterns)
    /\ st' = record_pattern_var(st, l)
    /\ Read(l)

\* undefine_variable_in_set
UndefineLine(l) ==
    /\ l.kind = "undefine"
    /\ st' = IF OriginOf(l) < st.sets[GlobalSet][l.name].origin THEN st
             ELSE With(st, <<GlobalSet, l.name>>, Undefined)
    /\ Read(l)

\* export NAME, unexport NAME; export alone
ExportLine(l) ==
    /\ l.kind \in {"export", "unexport"}
    /\ LET v == st.sets[GlobalSet][l.name]
       IN st' = With(st, <<GlobalSet, l.name>>,
                     [v EXCEPT !.origin = IF IsDefined(v) THEN @ ELSE InFile,
                               !.export = IF l.kind = "export" THEN "export" ELSE "noexport"])
    /\ Read(l)

ExportAllLine(l) ==
    /\ l.kind \in {"export all", "unexport all"}
    /\ st' = [st EXCEPT !.export_all = l.kind = "export all"]
    /\ Read(l)

\* text of the recipe that all targets have
RecipeText(l) ==
    /\ l.kind = "recipe"
    /\ st' = [st EXCEPT !.recipe = @ \o l.value]
    /\ Read(l)

\* the commands of the recipe; a line is expanded where the target is
ExpandedText(s, chain, line) ==
    FlattenSeq([i \in DOMAIN line |->
        IF line[i] \in Names THEN AsText(expand(s, chain, <<Ref(line[i])>>).w) ELSE <<line[i]>>])
Lines(s) == execute_file_commands(s.recipe \o <<Newline>>, ShellOf(world))
Commands(s, chain) ==
    FlattenSeq([i \in DOMAIN Lines(s) |->
        StartJob(ExpandedText(s, chain, Lines(s)[i]), MarksOf(Lines(s)[i]), ShellOf(world))])

\* a recipe is expanded in the chain of its target and gets its environment;
\* s is settled for it
Recipe(s, f, chain) ==
    /\ seen' = Append(seen, [target |-> f,
                             commands |-> Commands(s, chain),
                             value |-> [n \in Names |-> expand(s, chain, <<Ref(n)>>)],
                             environment |-> EnvironmentOf(s, chain, {}, FALSE)])
    /\ st' = [s EXCEPT !.fatal = ~Last(seen').environment.ok]

Execute(s, f) ==
    IF s.fatal THEN st' = s /\ UNCHANGED seen
    ELSE Recipe(Settled(s, FileChain(s, f)), f, FileChain(s, f))

RunRecipe ==
    /\ ~st.fatal /\ todo # <<>>
    /\ Execute(initialize_file_variables(st, Head(todo)), Head(todo))
    /\ todo' = Tail(todo)
    /\ UNCHANGED <<world, given, lines>>

ReadLine == \E l \in LinesOf(world) :
    \/ GlobalLine(l) \/ TargetLine(l) \/ PatternLine(l) \/ UndefineLine(l)
    \/ ExportLine(l) \/ ExportAllLine(l) \/ RecipeText(l)

Next == (Reading /\ ReadLine) \/ RunRecipe

Spec == Init /\ [][Next]_vars
================================================================================
