---------------------------- MODULE MakefileMeaning ----------------------------
(***************************************************************************)
(* What the lines of a makefile mean, told without a reader's state: which *)
(* lines stand in a branch that is read, which belong to the text of a     *)
(* define or to a recipe, and what rules they make; then what variables a  *)
(* file sees that is considered for others.  Read is compared with it once *)
(* everything has been read, and again as goals are considered.            *)
(***************************************************************************)
EXTENDS Read, FiniteSetsExt

Lines == history.lines
Line(i) == Lines[i].l
SameFrame(i, j) == Lines[i].frame = Lines[j].frame

Opens == {"ifdef", "ifndef", "ifeq"}
Elses == {"else", "else ifdef"}
Closing == Definitions \cup Directives \cup {"rule", "eval", "target variable"}

(***************************************************************************)
(* The lines before i have been told apart: m.active are those that count, *)
(* m.text the text of defines, m.recipe the lines of recipes.  m.above is  *)
(* for the files that have been considered.                                *)
(***************************************************************************)
Told == [active |-> {}, text |-> {}, recipe |-> {}, above |-> <<>>]

\* the lines of i's makefile that are conditionals, before i
ConditionalsBefore(m, i) ==
    {j \in 1 .. i - 1 : /\ SameFrame(i, j) /\ Line(j).kind \in Conditionals
                        /\ j \notin m.text \cup m.recipe}

Depth(m, i, open, upto) ==
    LET c == {j \in ConditionalsBefore(m, i) : j >= open /\ j <= upto}
    IN Cardinality({j \in c : Line(j).kind \in Opens})
         - Cardinality({j \in c : Line(j).kind = "endif"})

\* the conditionals that i stands in, by the line that opens them
Around(m, i) ==
    {o \in ConditionalsBefore(m, i) :
       /\ Line(o).kind \in Opens
       /\ \A j \in o .. i - 1 : Depth(m, i, o, j) > 0}

\* the lines at which a branch of o begins, before i
Branches(m, i, o) ==
    {o} \cup {j \in ConditionalsBefore(m, i) :
                /\ j > o /\ Line(j).kind \in Elses
                /\ Depth(m, i, o, j) = 1}

\* the value of a variable just before line i is read
TextOf(m, i) ==
    IF Line(i).kind # "define" THEN Line(i).value
    ELSE LET last == Max({j \in m.text : \A k \in i + 1 .. j : k \in m.text} \cup {i})
         IN [k \in 1 .. last - i - 1 |-> Line(i + k)]
ValueBefore(m, i, name) ==
    LET set == {j \in m.active : j < i /\ Line(j).kind \in Definitions /\ Line(j).name = name}
    IN IF name \in CommandLine THEN CommandLineValue
       ELSE IF set = {} THEN <<>>
       ELSE IF Line(Max(set)).kind = "undefine" THEN <<>> ELSE TextOf(m, Max(set))

Condition(m, j) ==
    LET v == ValueBefore(m, j, Line(j).name)
    IN CASE Line(j).kind = "else" -> TRUE
         [] Line(j).kind = "ifndef" -> v = <<>>
         [] Line(j).kind = "ifeq" -> v = Line(j).value
         [] OTHER -> v # <<>>

\* i stands in a branch that is read: in each conditional around it, the first
\* whose condition holds
IsRead(m, i) ==
    \A o \in Around(m, i) :
        LET b == Branches(m, i, o)
        IN /\ Condition(m, Max(b))
           /\ \A j \in b \ {Max(b)} : ~Condition(m, j)

\* the define whose text i is: one that counts ends with its own endef, one that
\* does not with the first
InText(m, i) ==
    \E d \in 1 .. i - 1 :
        /\ SameFrame(d, i) /\ Line(d).kind = "define" /\ d \notin m.text
        /\ \A j \in d + 1 .. i - 1 :
             IF d \in m.active
             THEN Cardinality({k \in d .. j : Line(k).kind = "define"})
                    > Cardinality({k \in d .. j : Line(k).kind = "endef"})
             ELSE Line(j).kind # "endef"

\* the rule that a recipe line at i would belong to
LastRule(m, i) ==
    LET closing == {j \in m.active : j < i /\ SameFrame(i, j) /\ Line(j).kind \in Closing}
    IN IF closing = {} \/ Line(Max(closing)).kind # "rule" THEN {} ELSE {Max(closing)}

Prefix(m, i) ==
    LET v == ValueBefore(m, i, ".RECIPEPREFIX")
    IN IF v = <<>> THEN "tab" ELSE v[1].pre

Tell(m, i) ==
    IF InText(m, i) THEN [m EXCEPT !.text = @ \cup {i}]
    ELSE IF Line(i).pre = Prefix(m, i) /\ LastRule(m, i) # {}
    THEN [m EXCEPT !.recipe = @ \cup {i},
                   !.active = IF IsRead(m, i) THEN @ \cup {i} ELSE @]
    ELSE IF Line(i).kind \in Closing /\ IsRead(m, i) THEN [m EXCEPT !.active = @ \cup {i}] ELSE m

ToldLines == FoldLeft(Tell, Told, [i \in DOMAIN Lines |-> i])

(***************************************************************************)
(* The rules                                                               *)
(***************************************************************************)
RuleLines(m, t) ==
    {i \in m.active : Line(i).kind = "rule" /\ i \notin m.recipe /\ Contains(Line(i).names, t)}
RecipeOf(m, i) ==
    (IF Line(i).semicolon THEN <<i>> ELSE <<>>)
      \o SetToSortSeq({j \in m.recipe \cap m.active : LastRule(m, j) = {i}}, LAMBDA a, b : a < b)
Single(m, t) ==
    {i \in RuleLines(m, t) : Line(i).colon # "::" /\ Line(i).names[1] \notin Patterns}
WithRecipe(m, t) == {i \in Single(m, t) : RecipeOf(m, i) # <<>>}

\* the prerequisite list of line i is expanded once more when all has been read
IsLate(m, i) ==
    /\ Range(Line(i).deps) \cap DOMAIN References # {}
    /\ \E j \in RuleLines(m, ".SECONDEXPANSION") : j <= i

\* a considered file, the one it is considered for, and so on to the goal
Above(m, t) == IF t \in DOMAIN m.above THEN m.above[t] ELSE <<>>

\* the last line that gives the variable to one of these, as seen from a file
\* (inherited: from one it is considered for)
Given(m, names, name, inherited) ==
    LET set == {j \in m.active : /\ Line(j).kind = "target variable" /\ Line(j).name = name
                                 /\ Range(Line(j).names) \cap names # {}}
    IN IF set = {} \/ (inherited /\ "private" \in Line(Max(set)).mod) THEN {} ELSE {Max(set)}

IsPrivate(m, name) ==
    \E j \in m.active :
        /\ Line(j).kind \in Definitions /\ Line(j).name = name /\ "private" \in Line(j).mod
        /\ \A k \in m.active : k > j /\ Line(k).name = name => Line(k).kind # "undefine"

\* the value of a variable at the end, for a file that is considered: a target's
\* variables are in effect for its prerequisites too, save private ones
FinalValue(m, t, name) ==
    LET above == Above(m, t)
        own(k) == Given(m, {above[k]}, name, k > 1)
        said(k) == IF own(k) # {} THEN own(k) ELSE Given(m, Patterns, name, k > 1)
        nearest == {k \in DOMAIN above : said(k) # {}}
    IN IF nearest # {} THEN TextOf(m, Max(said(Min(nearest))))
       ELSE IF IsPrivate(m, name) THEN <<>>
       ELSE ValueBefore(m, Len(Lines) + 1, name)

\* the words of line i's prerequisite list, for a target: a file is no prerequisite
\* of those it is considered for
Words(m, t, i) ==
    LET words == IF ~IsLate(m, i) THEN Line(i).deps
                 ELSE FlattenSeq([k \in DOMAIN Line(i).deps |->
                        IF Line(i).deps[k] \in DOMAIN References
                        THEN WordsOf(FinalValue(m, t, References[Line(i).deps[k]]))
                        ELSE <<Line(i).deps[k]>>])
    IN SelectSeq(words, LAMBDA w : ~Contains(Above(m, t), w))
IsName(words, k) == words[k] \notin {"|", ".WAIT"}
IsOrderOnly(words, k) == \E j \in 1 .. k - 1 : words[j] = "|"
NamesIn(words) == SelectSeq(words, LAMBDA w : w \notin {"|", ".WAIT"})

\* .EXTRA_PREREQS: of a target that has variables, its own only
Extra(m, t) ==
    LET own == {j \in m.active : Line(j).kind = "target variable" /\ Contains(Line(j).names, t)}
        given == Given(m, {t}, ".EXTRA_PREREQS", FALSE)
        words == IF given # {} THEN WordsOf(TextOf(m, Max(given)))
                 ELSE IF own # {} \/ ~db.files[t].target THEN <<>>
                 ELSE WordsOf(ValueBefore(m, Len(Lines) + 1, ".EXTRA_PREREQS"))
    IN IF Contains(words, t) THEN <<>>
       ELSE SelectSeq(NamesIn(words), LAMBDA w : ~Contains(Above(m, t), w))

PrerequisitesOf(m, t) ==
    UNION {Range(NamesIn(Words(m, t, i))) : i \in RuleLines(m, t)} \cup Range(Extra(m, t))

\* The files that were considered, in their order: each is considered for the last
\* one before it that has it as a prerequisite, a goal for none.
Place(m, t) ==
    LET for == {k \in DOMAIN db.considered :
                  /\ db.considered[k] \in DOMAIN m.above
                  /\ t \in PrerequisitesOf(m, db.considered[k])}
    IN [m EXCEPT !.above =
          @ @@ (t :> <<t>> \o (IF for = {} THEN <<>> ELSE m.above[db.considered[Max(for)]]))]

Meaning == FoldLeft(Place, ToldLines, db.considered)

\* what a target's lists are is settled: none is expanded once more, or it has been
Settled(m, t) == t \in DOMAIN m.above \/ ~\E i \in RuleLines(m, t) : IsLate(m, i)

\* how often a name is a prerequisite of a target, by its rules
Times(m, t, name, order_only) ==
    FoldSet(LAMBDA i, n : n + Cardinality({k \in DOMAIN Words(m, t, i) :
                                /\ Words(m, t, i)[k] = name
                                /\ IsOrderOnly(Words(m, t, i), k) = order_only}),
            0, Single(m, t))

\* The lines of a makefile that are acted upon are those that stand in the
\* branches conditionals select (each in the first of its conditional whose
\* condition holds as the lines before it left the variables), however the
\* conditionals, defines, included makefiles and $(eval)s nest; the others,
\* the text of defines among them, have no effect of their own (eval,
\* conditional_line, do_define).
SkippedIsSkipped(m) ==
    Over =>
      LET acted == Range(history.acted)
          owed == m.active \ {i \in m.recipe : \E r \in LastRule(m, i) : Line(r).names = <<>>}
      IN /\ acted \subseteq m.active
         /\ owed \ acted \subseteq (IF db.fatal # NoFatal THEN {Len(Lines)} ELSE {})

\* Reading ends with the error for an else or an endif that stands alone, a
\* second else, a conditional or a define without its end, exactly when the
\* makefile has it (conditional_line, eval, do_define).
StructureErrors(m) ==
    Over =>
      LET stray(i) ==
             /\ Line(i).kind \in Elses \cup {"endif"} /\ i \notin m.text \cup m.recipe
             /\ Around(m, i) = {}
          twice(i) ==
             /\ Line(i).kind \in Elses /\ i \notin m.text \cup m.recipe
             /\ Around(m, i) # {}
             /\ Line(Max(Branches(m, i, Max(Around(m, i))))).kind = "else"
      IN /\ (db.fatal = "extraneous conditional") <=> (\E i \in DOMAIN Lines : stray(i))
         /\ (db.fatal = "only one else") <=> (\E i \in DOMAIN Lines : twice(i))

\* Each target has the recipe of the last of its rules that has one: the lines
\* that begin with the recipe prefix of the moment between that rule and the
\* next thing that is read, across conditionals; it has the prerequisites of
\* all its rules, those of the rule with the recipe first.  Where a list is
\* expanded once more it is when the target is considered, with the values that
\* variables have for it at the end, those it has from the targets it is
\* considered for included; only prerequisites it is itself considered for are
\* dropped (record_files, split_prereqs, expand_deps, update_file_1).
RecipesBelong(m) ==
    Over /\ db.fatal = NoFatal =>
      \A t \in DOMAIN db.files \ (Patterns \cup {".SUFFIXES"}) :
           ~db.files[t].double_colon /\ Settled(m, t) =>
             /\ db.files[t].cmds = IF WithRecipe(m, t) = {} THEN <<>>
                                   ELSE RecipeOf(m, Max(WithRecipe(m, t)))
             /\ \A d \in NamesOf(db.files[t].deps) \cup DOMAIN db.files, o \in BOOLEAN :
                  Cardinality({k \in DOMAIN db.files[t].deps :
                                 /\ db.files[t].deps[k].name = d
                                 /\ db.files[t].deps[k].order_only = o}) = Times(m, t, d, o)
             /\ WithRecipe(m, t) # {} =>
                  IsPrefix(NamesIn(Words(m, t, Max(WithRecipe(m, t)))),
                           [k \in DOMAIN db.files[t].deps |-> db.files[t].deps[k].name])
             /\ db.files[t].target <=> RuleLines(m, t) # {} \/ ".PHONY" \in db.files[t].marks

\* Considering a goal reaches every prerequisite of every file it reaches, those
\* included that only the second expansion names (update_file_1, expand_deps).
WalkIsComplete(m) ==
    \A t \in Range(db.considered) : PrerequisitesOf(m, t) \subseteq Range(db.considered)

\* What the special targets list, in rules of any order and kind, is what has
\* their mark at the end; no file is both intermediate and not, and make says so
\* exactly when it would be; what a makefile mentions is no intermediate file
\* that is deleted.  A list that is expanded once more marks nothing, and gets
\* no .WAIT from .NOTPARALLEL; a target with variables of its own does not get
\* the global .EXTRA_PREREQS (snap_deps, snap_file).
SpecialTargetsCount(m) ==
    Over =>
      LET listed(s) == UNION {Range(NamesIn(Line(i).deps)) :
                                i \in {i \in RuleLines(m, s) : ~IsLate(m, i)}}
          bare(s) == /\ RuleLines(m, s) # {}
                     /\ \/ \A i \in RuleLines(m, s) : Line(i).deps = <<>>
                        \/ \E i \in RuleLines(m, s) : Line(i).deps = <<>> /\ Line(i).colon = "::"
          not == listed(".NOTINTERMEDIATE")
          may == listed(".INTERMEDIATE") \cup listed(".SECONDARY")
          mentioned == UNION {Range(NamesIn(Line(i).deps)) \cup
                                (IF Line(i).colon = "::" THEN {} ELSE Range(Line(i).names)) :
                                i \in {i \in m.active : Line(i).kind = "rule"
                                                         /\ i \notin m.recipe
                                                         /\ Line(i).names # <<>>
                                                         /\ Line(i).names[1] \notin Patterns
                                                         /\ ~IsLate(m, i)}}
      IN /\ db.snapped \/ db.fatal \in {"both .INTERMEDIATE", "both .SECONDARY", "mutually exclusive"} =>
              (db.snapped <=> not \cap may = {}
                                /\ ~(bare(".NOTINTERMEDIATE") /\ bare(".SECONDARY")))
         /\ db.snapped =>
              \A t \in DOMAIN db.files :
                LET marks == db.files[t].marks
                IN /\ \A s \in {".PRECIOUS", ".PHONY", ".SILENT"} : s \in marks <=> t \in listed(s)
                   /\ ".NOTINTERMEDIATE" \in marks \/ ".INTERMEDIATE" \in marks
                        <=> t \in not \cup may
                              \/ (bare(".NOTINTERMEDIATE") \/ bare(".SECONDARY"))
                   /\ t \in not => ".INTERMEDIATE" \notin marks
                   /\ t \in may => ".NOTINTERMEDIATE" \notin marks
                   /\ t \in mentioned => db.files[t].explicit
                   /\ [k \in DOMAIN db.files[t].extra |-> db.files[t].extra[k].name]
                        = Extra(m, t)
                   /\ t \in listed(".NOTPARALLEL") /\ ~(\E i \in RuleLines(m, t) : IsLate(m, i)) =>
                        \A k \in DOMAIN db.files[t].deps : k > 1 => db.files[t].deps[k].wait_here

\* The default goal is the first target, of the makefiles and of the texts they
\* evaluate but not of MAKEFILES, that is no pattern, has no dot in front and is
\* no suffix (check_specials).
DefaultGoalIsFirst(m) ==
    Over /\ db.fatal = NoFatal =>
      LET before(i) == {j \in RuleLines(m, ".SUFFIXES") : j < i}
          suffixes(i) == UNION {Range(Line(j).deps) :
                                  j \in {j \in before(i) : \A k \in before(i) :
                                           k > j => Line(k).deps # <<>>}}
          goals(i) == {k \in DOMAIN Line(i).names :
                         /\ Line(i).names[k] \notin Dotted \cup Patterns \cup suffixes(i)
                         /\ \A n \in 1 .. k : Line(i).names[n] \notin Patterns}
          rules == {i \in m.active \ m.recipe :
                      /\ Line(i).kind = "rule" /\ goals(i) # {}
                      /\ Lines[i].source = 0 \/ Lines[i].evaluated}
      IN db.default_goal = IF rules = {} THEN <<>>
                           ELSE <<Line(Min(rules)).names[Min(goals(Min(rules)))]>>

\* The recipe of a target sees each of its prerequisites: once in $^, as often
\* as the makefile names it in $+, and in $| those that are order-only and nothing
\* else; $< is the first of the rule with the recipe (set_file_variables).
AutomaticAsWritten(m) ==
    db.snapped =>
      \A t \in DOMAIN db.files \ (Patterns \cup {".SUFFIXES"}) :
           ~db.files[t].double_colon /\ Settled(m, t) =>
             LET is == set_file_variables(db.files[t].deps)
                 named(o) == {d \in NamesOf(db.files[t].deps) : Times(m, t, d, o) > 0}
                 main == IF WithRecipe(m, t) = {} THEN <<>> ELSE Words(m, t, Max(WithRecipe(m, t)))
                 normal == {k \in DOMAIN main : IsName(main, k) /\ ~IsOrderOnly(main, k)}
             IN /\ Range(is.caret) = named(FALSE) /\ IsInjective(is.caret)
                /\ Range(is.bar) = named(TRUE) \ named(FALSE) /\ IsInjective(is.bar)
                /\ \A d \in named(FALSE) :
                     Cardinality({k \in DOMAIN is.plus : is.plus[k] = d}) = Times(m, t, d, FALSE)
                /\ normal # {} => is.less = main[Min(normal)]

\* What the rules of a makefile mean, taken one by one, is what make has of them.
RulesAsWritten ==
    LET m == Meaning
    IN /\ RecipesBelong(m) /\ WalkIsComplete(m) /\ DefaultGoalIsFirst(m)
       /\ SpecialTargetsCount(m) /\ AutomaticAsWritten(m)

\* make acts on the lines that conditionals select, and on no others.
BranchesAsWritten ==
    LET m == ToldLines IN SkippedIsSkipped(m) /\ StructureErrors(m)
================================================================================
