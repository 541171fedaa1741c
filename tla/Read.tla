---------------------------------- MODULE Read ----------------------------------
(***************************************************************************)
(* How GNU Make reads makefiles (read.c): eval goes from line to line with *)
(* the rule it has not recorded yet, the conditionals that are open, the   *)
(* recipe prefix of the moment, and a new frame for each makefile that is  *)
(* included and each text that $(eval) reads.                              *)
(*                                                                         *)
(* A line is a record of what stands on it; every next line of a makefile  *)
(* is chosen from those of the world, so that a behaviour is a makefile.   *)
(* The value of a variable is the sequence of the lines of its text; a     *)
(* prerequisite list is a sequence of words: names, "|", ".WAIT", and, with *)
(* $$, references to variables.  Once all has been read snap_deps (file.c)  *)
(* gives the special targets their effect; with .SECONDEXPANSION goals are  *)
(* then considered (remake.c), and each file on the way has its references  *)
(* expanded.  The walk is one over files that are there and up to date.     *)
(* The module is for TLC only.                                             *)
(***************************************************************************)
EXTENDS Integers, Sequences, SequencesExt, FiniteSets

CONSTANTS Worlds,       \* identifiers of the makefiles to consider
          LinesOf(_),   \* the lines they are written with
          MaxLines(_),  \* the number of lines read at most
          Sources(_),   \* the makefiles read one after the other: "MAKEFILES", "makefile"
          Dotted,       \* the targets that begin with a dot
          Patterns,     \* those with a %
          References,   \* the words that are references, with the variable
          Variables,    \* names of variables
          CommandLine,  \* those set on the command line
          CommandLineValue,
          Goals,        \* the files that may be asked for
          MaxGoals      \* the number of goals considered at most

VARIABLES world,
          frames,       \* the evals that are under way, the innermost last
          db,           \* what has been read: variables, files, the default goal
          history       \* the lines read, with the frame; those that were acted upon

vars == <<world, frames, db, history>>

NoFatal == ""
Top == Last(frames)
Replace(f) == [frames EXCEPT ![Len(frames)] = f]

(***************************************************************************)
(* Frames                                                                  *)
(***************************************************************************)
\* rest: what $(eval) still has to read; a makefile's lines are chosen
NewFrame(id, set_default, fixed, rest) ==
    [id |-> id, set_default |-> set_default, fixed |-> fixed, rest |-> rest,
     include |-> <<>>, conditionals |-> <<>>, ignoring |-> FALSE,
     in_ignored_define |-> FALSE, no_targets |-> FALSE, also_make |-> FALSE,
     filenames |-> <<>>, deps |-> <<>>, two_colon |-> FALSE, commands |-> <<>>,
     define |-> <<>>]

NewFile == [target |-> FALSE, explicit |-> FALSE, double_colon |-> FALSE, deps |-> <<>>,
            cmds |-> <<>>, entries |-> <<>>, also_make |-> <<>>, marks |-> {}, extra |-> <<>>]

Undefined == [defined |-> FALSE, value |-> <<>>, origin |-> "file", export |-> "default",
              private |-> FALSE]

Init ==
    /\ world \in Worlds
    /\ frames = <<NewFrame(1, Head(Sources(world)) # "MAKEFILES", FALSE, <<>>)>>
    /\ db = [variables |-> [v \in Variables |->
                IF v \in CommandLine
                THEN [Undefined EXCEPT !.defined = TRUE, !.value = CommandLineValue,
                                       !.origin = "command"]
                ELSE Undefined],
             target_variables |-> <<>>, pattern_variables |-> <<>>,
             files |-> [n \in {".SUFFIXES", ".DEFAULT"} |-> NewFile], pattern_rules |-> <<>>,
             default_goal |-> <<>>, cmd_prefix |-> "tab", export_all |-> FALSE,
             vpaths |-> 0, read_files |-> <<>>, sources |-> Tail(Sources(world)),
             ids |-> 1, flags |-> {}, snapped |-> FALSE, fatal |-> NoFatal,
             goals |-> 0, considered |-> <<>>]
    /\ history = [lines |-> <<>>, acted |-> <<>>]

Reading == frames # <<>> /\ db.fatal = NoFatal
Over == db.snapped \/ db.fatal # NoFatal

\* lookup_file and enter_file: the files are those that have been mentioned
File(d, t) == IF t \in DOMAIN d.files THEN d.files[t] ELSE NewFile
enter_file(d, names) ==
    [d EXCEPT !.files = [n \in DOMAIN @ \cup names |-> File(d, n)]]

(***************************************************************************)
(* Variables                                                               *)
(***************************************************************************)
Strength(origin) == SelectInSeq(<<"file", "command", "override">>, LAMBDA o : o = origin)
OriginOf(l) == IF "override" \in l.mod THEN "override" ELSE "file"

Modified(v, l) ==
    [v EXCEPT !.export = IF "export" \in l.mod THEN "export"
                         ELSE IF "unexport" \in l.mod THEN "noexport" ELSE @,
              !.private = @ \/ "private" \in l.mod]

\* the definition counts unless a stronger one is there; RECIPEPREFIX works at once
SetVariable(d, l, value) ==
    LET old == d.variables[l.name]
        new == IF old.defined /\ Strength(old.origin) > Strength(OriginOf(l)) THEN old
               ELSE [old EXCEPT !.defined = TRUE, !.value = value, !.origin = OriginOf(l)]
    IN [d EXCEPT !.variables[l.name] = Modified(new, l),
                 !.cmd_prefix = IF l.name # ".RECIPEPREFIX" THEN @
                                ELSE IF new.value = <<>> THEN "tab" ELSE new.value[1].pre]

do_undefine(d, l) ==
    IF d.variables[l.name].defined
         /\ Strength(d.variables[l.name].origin) > Strength(OriginOf(l))
    THEN d
    ELSE [d EXCEPT !.variables[l.name] = Undefined]

\* a target keeps one value of a variable, a pattern all that were given; what
\* was said on the command line counts more unless the line says override
record_target_var(d, l) ==
    LET global == d.variables[l.name]
        won == OriginOf(l) # "override" /\ global.origin = "command"
        v == [name |-> l.name,
              value |-> IF won THEN global.value ELSE l.value,
              origin |-> IF won THEN "command" ELSE OriginOf(l),
              private |-> "private" \in l.mod]
        record(a, t) ==
            IF t \in Patterns
            THEN [a EXCEPT !.pattern_variables = Append(@, [v |-> v, target |-> t])]
            ELSE LET same(r) == r.target = t /\ r.v.name = l.name
                     old == SelectSeq(a.target_variables, same)
                     kept == IF old # <<>> /\ Strength(old[1].v.origin) > Strength(v.origin)
                             THEN [old[1].v EXCEPT !.private = v.private] ELSE v
                 IN [a EXCEPT !.target_variables =
                       Append(SelectSeq(@, LAMBDA r : ~same(r)), [v |-> kept, target |-> t])]
    IN FoldLeft(record, enter_file(d, Range(l.names) \ Patterns), l.names)

(***************************************************************************)
(* Rules                                                                   *)
(***************************************************************************)
Fatal(d, message) == [d EXCEPT !.fatal = message]

\* again: a text that is expanded once more when all has been read
NewDep(name, order_only, wait_here, again) ==
    [name |-> name, order_only |-> order_only, wait_here |-> wait_here, again |-> again]
NamesOf(deps) == {deps[k].name : k \in {k \in DOMAIN deps : deps[k].again = <<>>}}

\* what follows the first | is order-only; a .WAIT is for the name after it
split_prereqs(words) ==
    LET next(a, w) ==
            IF w = "|" /\ ~a.order_only THEN [a EXCEPT !.order_only = TRUE, !.wait = FALSE]
            ELSE IF w = ".WAIT" THEN [a EXCEPT !.wait = TRUE]
            ELSE [a EXCEPT !.deps = Append(@, NewDep(w, a.order_only, a.wait, <<>>)),
                           !.wait = FALSE]
    IN FoldLeft(next, [deps |-> <<>>, order_only |-> FALSE, wait |-> FALSE], words).deps

\* with .SECONDEXPANSION a text with a $ stays as it is for now
Prerequisites(d, words) ==
    IF ".SECONDEXPANSION" \in d.flags /\ Range(words) \cap DOMAIN References # {}
    THEN <<NewDep("", FALSE, FALSE, words)>>
    ELSE split_prereqs(words)

\* the names become files that are mentioned
enter_prereqs(d, names) ==
    [d EXCEPT !.files = [n \in DOMAIN @ \cup names |->
          [File(d, n) EXCEPT !.explicit = @ \/ n \in names]]]

\* one target of a rule: f its frame, with the prerequisites
RecordSingle(d, f, t) ==
    LET file == File(d, t)
        cmds == IF f.commands # <<>> THEN f.commands
                ELSE IF t = ".DEFAULT" /\ f.deps = <<>> THEN <<>> ELSE file.cmds
        kept == IF t = ".SUFFIXES" /\ f.deps = <<>> THEN <<>> ELSE file.deps
    IN IF file.double_colon THEN Fatal(d, "both : and ::")
       ELSE [enter_file(d, {t}) EXCEPT !.files[t] =
                [file EXCEPT !.target = TRUE, !.explicit = TRUE, !.cmds = cmds,
                             !.deps = IF f.commands # <<>> THEN f.deps \o kept
                                      ELSE kept \o f.deps]]

RecordDouble(d, f, t) ==
    IF File(d, t).target /\ ~File(d, t).double_colon THEN Fatal(d, "both : and ::")
    ELSE [enter_file(d, {t}) EXCEPT !.files[t] =
            [@ EXCEPT !.target = TRUE, !.double_colon = TRUE,
                      !.entries = Append(@, [deps |-> f.deps, cmds |-> f.commands])]]

record_files(d, f) ==
    LET deps == Prerequisites(d, f.deps)
        rule == [f EXCEPT !.deps = deps]
        one(a, t) ==
            IF a.fatal # NoFatal THEN a
            ELSE IF f.two_colon THEN RecordDouble(a, rule, t) ELSE RecordSingle(a, rule, t)
        all == FoldLeft(one, enter_prereqs(d, NamesOf(deps)), f.filenames)
        implicit(t) == t \in Patterns
    IN IF f.also_make /\ f.commands = <<>> THEN Fatal(d, "grouped targets must provide a recipe")
       ELSE IF implicit(f.filenames[1])
       THEN IF \E i \in DOMAIN f.filenames : ~implicit(f.filenames[i])
            THEN Fatal(d, "mixed implicit and normal rules")
            ELSE [d EXCEPT !.pattern_rules =
                    Append(@, [targets |-> f.filenames, deps |-> deps, cmds |-> f.commands,
                               terminal |-> f.two_colon])]
       ELSE IF f.also_make /\ all.fatal = NoFatal
       THEN [all EXCEPT !.files =
               [n \in DOMAIN @ |-> IF Contains(f.filenames, n)
                                   THEN [@[n] EXCEPT !.also_make = f.filenames] ELSE @[n]]]
       ELSE all

\* record_waiting_files: the rule that was read last is complete
Recorded == IF Top.filenames = <<>> THEN db ELSE record_files(db, Top)
Cleared(f) ==
    [f EXCEPT !.filenames = <<>>, !.commands = <<>>, !.no_targets = FALSE,
              !.also_make = FALSE]

\* Some special targets count at once.  The first target that does not begin with
\* a dot and is no suffix is the default goal; while there is none, targets after
\* one with a % are not looked at.
check_specials(d, targets, set_default) ==
    LET sought == d.default_goal = <<>> /\ set_default
        seen == {i \in DOMAIN targets :
                   sought => \A k \in 1 .. i : targets[k] \notin Patterns}
        eligible == {i \in seen : /\ targets[i] \notin Dotted
                                  /\ targets[i] \notin NamesOf(File(d, ".SUFFIXES").deps)}
    IN [d EXCEPT !.flags = @ \cup ({targets[i] : i \in seen}
                                     \cap {".POSIX", ".SECONDEXPANSION", ".ONESHELL"}),
                 !.default_goal =
                    IF ~sought \/ eligible = {} THEN @
                    ELSE <<targets[CHOOSE i \in eligible : \A k \in eligible : i <= k]>>]

(***************************************************************************)
(* Reading a line                                                          *)
(***************************************************************************)
Readable ==
    IF ~Reading \/ Len(history.lines) = MaxLines(world) THEN {}
    ELSE IF Top.fixed THEN (IF Top.rest = <<>> THEN {} ELSE {Head(Top.rest)})
    ELSE LinesOf(world)

\* the frame with the line taken from what it still has to read
Read(f) == IF f.fixed THEN [f EXCEPT !.rest = Tail(@)] ELSE f

Seen(l, acted) ==
    history' = [lines |-> Append(history.lines,
                             [l |-> l, frame |-> Top.id, source |-> Len(db.sources),
                              evaluated |-> \E i \in DOMAIN frames : frames[i].fixed]),
                acted |-> IF acted THEN Append(history.acted, Len(history.lines) + 1)
                          ELSE history.acted]

\* a line of a recipe: it begins with the prefix, and a rule has been read
IsRecipe(l) == l.pre = db.cmd_prefix /\ (Top.no_targets \/ Top.filenames # <<>>)
Evaluated(l) == Top.define = <<>> /\ ~IsRecipe(l)

RecipeLine(l) ==
    /\ Top.define = <<>> /\ IsRecipe(l)
    /\ LET taken == ~Top.no_targets /\ ~Top.ignoring
       IN /\ frames' = Replace([Read(Top) EXCEPT
                          !.commands = IF taken THEN Append(@, Len(history.lines) + 1) ELSE @])
          /\ Seen(l, taken)
    /\ UNCHANGED <<world, db>>

Blank(l) ==
    /\ Top.define = <<>> /\ l.kind = "blank"
    /\ frames' = Replace(Read(Top))
    /\ Seen(l, FALSE)
    /\ UNCHANGED <<world, db>>

Definitions == {"assign", "undefine", "define"}
Conditionals == {"ifdef", "ifndef", "ifeq", "else", "else ifdef", "endif"}

\* a definition that is not read; a define has its text passed over
IgnoredDefinition(l) ==
    /\ Evaluated(l) /\ l.kind \in Definitions /\ Top.ignoring
    /\ frames' = Replace([Read(Top) EXCEPT !.in_ignored_define = @ \/ l.kind = "define"])
    /\ Seen(l, FALSE)
    /\ UNCHANGED <<world, db>>

Definition(l) ==
    /\ Evaluated(l) /\ l.kind \in Definitions /\ ~Top.ignoring
    /\ db' = IF Recorded.fatal # NoFatal \/ l.kind = "define" THEN Recorded
             ELSE IF l.kind = "undefine" THEN do_undefine(Recorded, l)
             ELSE SetVariable(Recorded, l, l.value)
    /\ frames' = Replace([Cleared(Read(Top)) EXCEPT
                    !.define = IF l.kind = "define" THEN <<[l |-> l, levels |-> 1, text |-> <<>>]>>
                               ELSE @])
    /\ Seen(l, TRUE)
    /\ UNCHANGED world

\* do_define: a line of the text, or the endef that ends it
DefineText(l) ==
    /\ Top.define # <<>>
    /\ LET d == Top.define[1]
           directive == l.pre # db.cmd_prefix
           levels == IF directive /\ l.kind = "define" /\ l.mod = {} THEN d.levels + 1
                     ELSE IF directive /\ l.kind = "endef" THEN d.levels - 1 ELSE d.levels
       IN IF levels = 0
          THEN /\ db' = SetVariable(db, d.l, d.text)
               /\ frames' = Replace([Read(Top) EXCEPT !.define = <<>>])
          ELSE /\ frames' = Replace([Read(Top) EXCEPT
                               !.define = <<[d EXCEPT !.levels = levels, !.text = Append(@, l)]>>])
               /\ UNCHANGED db
    /\ Seen(l, FALSE)
    /\ UNCHANGED world

\* text of a define that is not read: any endef ends it
IgnoredText(l) ==
    /\ Evaluated(l) /\ Top.in_ignored_define /\ l.kind \notin Definitions \cup {"blank"}
    /\ frames' = Replace([Read(Top) EXCEPT !.in_ignored_define = l.kind # "endef"])
    /\ Seen(l, FALSE)
    /\ UNCHANGED <<world, db>>

(***************************************************************************)
(* conditional_line: 0 interpreting, 1 not yet, 2 no more                   *)
(***************************************************************************)
Holds(l) ==
    LET v == db.variables[l.name]
    IN CASE l.kind = "ifndef" -> v.value = <<>>
         [] l.kind = "ifeq" -> v.value = l.value
         [] OTHER -> v.value # <<>>

Ignores(stack) == \E i \in DOMAIN stack : stack[i].ignoring # 0

\* a level of its own; inside what is ignored the condition is not looked at
Opened(stack, l) ==
    Append(stack, [ignoring |-> IF Ignores(stack) \/ ~Holds(l) THEN 1 ELSE 0,
                   seen_else |-> FALSE])

ElseTurned_Again(i) == IF i = 0 THEN 1 ELSE 0  \* (mutant) a branch may follow one that was read
ElseTurned(i) == IF i = 0 THEN 2 ELSE IF i = 1 THEN 0 ELSE i

\* else with a condition: that one is opened a level deeper and raised
Else(stack, l) ==
    LET top == Last(stack)
        turned == Append(Front(stack), [top EXCEPT !.ignoring = ElseTurned(@)])
        inner == Opened(turned, l)
    IN IF l.kind = "else"
       THEN Append(Front(stack), [Last(turned) EXCEPT !.seen_else = TRUE])
       ELSE Append(Front(stack),
                   [Last(turned) EXCEPT !.ignoring = IF @ < 2 THEN Last(inner).ignoring ELSE @])

ConditionalLine(l) ==
    /\ Evaluated(l) /\ ~Top.in_ignored_define /\ l.kind \in Conditionals
    /\ LET stack == Top.conditionals
           else == l.kind \in {"else", "else ifdef"}
           error == IF stack = <<>> /\ (else \/ l.kind = "endif") THEN "extraneous conditional"
                    ELSE IF else /\ Last(stack).seen_else THEN "only one else" ELSE NoFatal
           now == IF error # NoFatal THEN stack
                  ELSE IF l.kind = "endif" THEN Front(stack)
                  ELSE IF else THEN Else(stack, l) ELSE Opened(stack, l)
       IN /\ frames' = Replace([Read(Top) EXCEPT !.conditionals = now, !.ignoring = Ignores(now)])
          /\ db' = Fatal(db, error)
    /\ Seen(l, FALSE)
    /\ UNCHANGED world

(***************************************************************************)
(* What is left: directives and rules                                      *)
(***************************************************************************)
Directives == {"export", "unexport", "vpath", "include", "-include"}
Interpreted(l) == Evaluated(l) /\ ~Top.in_ignored_define /\ ~Top.ignoring

Ignored(l) ==
    /\ Evaluated(l) /\ ~Top.in_ignored_define /\ Top.ignoring
    /\ l.kind \notin Definitions \cup Conditionals \cup {"blank"}
    /\ frames' = Replace(Read(Top))
    /\ Seen(l, FALSE)
    /\ UNCHANGED <<world, db>>

Export(l) ==
    /\ Interpreted(l) /\ l.kind \in {"export", "unexport"}
    /\ db' = IF l.name = "" THEN [Recorded EXCEPT !.export_all = l.kind = "export"]
             ELSE [Recorded EXCEPT !.variables[l.name] =
                     [@ EXCEPT !.defined = TRUE,
                               !.export = IF l.kind = "export" THEN "export" ELSE "noexport"]]
    /\ frames' = Replace(Cleared(Read(Top)))
    /\ Seen(l, TRUE)
    /\ UNCHANGED world

Vpath(l) ==
    /\ Interpreted(l) /\ l.kind = "vpath"
    /\ db' = [Recorded EXCEPT !.vpaths = @ + 1]
    /\ frames' = Replace(Cleared(Read(Top)))
    /\ Seen(l, TRUE)
    /\ UNCHANGED world

Include(l) ==
    /\ Interpreted(l) /\ l.kind \in {"include", "-include"}
    /\ db' = Recorded
    /\ frames' = Replace([Cleared(Read(Top)) EXCEPT
                    !.include = [i \in DOMAIN l.names |->
                                   [name |-> l.names[i], dontcare |-> l.kind = "-include"]]])
    /\ Seen(l, TRUE)
    /\ UNCHANGED world

\* eval_makefile: the next file of an include line is opened, or is not there
OpenIncluded ==
    /\ Reading /\ Top.include # <<>>
    /\ LET i == Head(Top.include)
           below == Replace([Top EXCEPT !.include = Tail(@)])
       IN \E found \in BOOLEAN :
            /\ db' = [db EXCEPT !.read_files =
                         <<[name |-> i.name, dontcare |-> i.dontcare, error |-> ~found,
                            no_default_goal |-> ~Top.set_default]>> \o @,
                      !.ids = IF found THEN @ + 1 ELSE @]
            /\ frames' = IF found
                         THEN Append(below, NewFrame(db.ids + 1, Top.set_default, FALSE, <<>>))
                         ELSE below
    /\ UNCHANGED <<world, history>>

\* $(eval $(V)) on a line: the rule before it is recorded, then the text is read.
\* The text may set the default goal wherever it stands.
EvalLine(l) ==
    /\ Interpreted(l) /\ l.kind = "eval" /\ l.pre # db.cmd_prefix
    /\ db' = [Recorded EXCEPT !.ids = @ + 1]
    /\ frames' = Append(Replace(Cleared(Read(Top))),
                        NewFrame(db.ids + 1, TRUE, TRUE,
                                 db.variables[l.name].value))
    /\ Seen(l, TRUE)
    /\ UNCHANGED world

\* the rule that is waiting from now on: its recipe may begin on its own line
Waiting(f, l) ==
    [f EXCEPT !.no_targets = l.names = <<>>, !.filenames = l.names, !.deps = l.deps,
              !.two_colon = l.colon = "::", !.also_make = l.colon = "&:",
              !.commands = IF l.semicolon /\ l.names # <<>> THEN <<Len(history.lines) + 1>>
                           ELSE <<>>]

Rule(l) ==
    /\ Interpreted(l) /\ l.kind = "rule" /\ l.pre # db.cmd_prefix
    /\ frames' = Replace(Waiting(Cleared(Read(Top)), l))
    /\ db' = IF Recorded.fatal # NoFatal \/ l.names = <<>> THEN Recorded
             ELSE check_specials(Recorded, l.names, Top.set_default)
    /\ Seen(l, TRUE)
    /\ UNCHANGED world

TargetVariable(l) ==
    /\ Interpreted(l) /\ l.kind = "target variable" /\ l.pre # db.cmd_prefix
    /\ db' = IF Recorded.fatal # NoFatal THEN Recorded ELSE record_target_var(Recorded, l)
    /\ frames' = Replace(Cleared(Read(Top)))
    /\ Seen(l, TRUE)
    /\ UNCHANGED world

\* a command where none can be, or a line that is nothing make knows
Lost(l) ==
    /\ Interpreted(l) /\ l.kind \notin Definitions \cup Conditionals \cup Directives \cup {"blank"}
    /\ l.pre = db.cmd_prefix \/ l.kind \in {"shell", "endef"}
    /\ db' = IF l.pre = db.cmd_prefix THEN Fatal(db, "recipe commences before first target")
             ELSE IF Recorded.fatal # NoFatal THEN Recorded
             ELSE Fatal(Recorded, "missing separator")
    /\ frames' = Replace(Cleared(Read(Top)))
    /\ Seen(l, FALSE)
    /\ UNCHANGED world

\* the end of a makefile, or of the text of an eval; after MAKEFILES the makefile
EndOfFile ==
    /\ Reading /\ Top.include = <<>> /\ (Top.fixed => Top.rest = <<>>)
    /\ LET last == Len(frames) = 1 /\ db.sources # <<>>
       IN /\ db' = IF Top.define # <<>> THEN Fatal(db, "missing endef")
                   ELSE IF Top.conditionals # <<>> THEN Fatal(db, "missing endif")
                   ELSE [Recorded EXCEPT !.sources = IF last THEN Tail(@) ELSE @,
                                         !.ids = IF last THEN @ + 1 ELSE @]
          /\ frames' = IF last THEN <<NewFrame(db.ids + 1, TRUE, FALSE, <<>>)>>
                       ELSE Front(frames)
    /\ UNCHANGED <<world, history>>

LineRead(l) ==
    /\ Top.include = <<>>
    /\ \/ RecipeLine(l) \/ Blank(l) \/ IgnoredDefinition(l) \/ Definition(l) \/ DefineText(l)
       \/ IgnoredText(l) \/ ConditionalLine(l) \/ Ignored(l) \/ Export(l) \/ Vpath(l)
       \/ Include(l) \/ EvalLine(l) \/ Rule(l) \/ TargetVariable(l) \/ Lost(l)

(***************************************************************************)
(* snap_deps: the special targets                                          *)
(***************************************************************************)
Marking == {".PRECIOUS", ".LOW_RESOLUTION_TIME", ".PHONY", ".NOTINTERMEDIATE", ".INTERMEDIATE",
            ".SECONDARY", ".IGNORE", ".SILENT"}
Global == {".IGNORE", ".SILENT", ".NOTPARALLEL"}

\* the rules of a special target: of a :: one the first only, where it is Global
RulesOf(d, s) ==
    LET file == File(d, s)
    IN IF s \notin DOMAIN d.files THEN <<>>
       ELSE IF ~file.double_colon THEN <<file.deps>>
       ELSE IF s \in Global THEN <<file.entries[1].deps>>
       ELSE [i \in DOMAIN file.entries |-> file.entries[i].deps]
Listed(d, s) == UNION {NamesOf(deps) : deps \in Range(RulesOf(d, s))}
Bare(d, s) == Contains(RulesOf(d, s), <<>>)
IsTarget(d, t) == File(d, t).target \/ t \in Listed(d, ".PHONY")

\* the marks of a file, each named for the special target it is from
MarksOf(d, t) ==
    LET listed == {s \in Marking : t \in Listed(d, s)}
        intermediate == \/ listed \cap {".INTERMEDIATE", ".SECONDARY"} # {}
                        \/ Bare(d, ".SECONDARY") /\ ".NOTINTERMEDIATE" \notin listed
        not == \/ ".NOTINTERMEDIATE" \in listed
               \/ Bare(d, ".NOTINTERMEDIATE") /\ ~intermediate
    IN (listed \ {".INTERMEDIATE", ".NOTINTERMEDIATE"})
         \cup (IF intermediate THEN {".INTERMEDIATE"} ELSE {})
         \cup (IF not THEN {".NOTINTERMEDIATE"} ELSE {})

Waited(d, t, deps) ==
    IF t \notin Listed(d, ".NOTPARALLEL") THEN deps
    ELSE [k \in DOMAIN deps |-> [deps[k] EXCEPT !.wait_here = @ \/ k > 1]]

WordsOf(value) == FlattenSeq([i \in DOMAIN value |-> value[i].deps])

\* .EXTRA_PREREQS: a file that has variables of its own is asked for its own only
expand_extra_prereqs(d, t) ==
    LET own == SelectSeq(d.target_variables, LAMBDA r : r.target = t)
        extra == SelectSeq(own, LAMBDA r : r.v.name = ".EXTRA_PREREQS")
        value == IF extra # <<>> THEN extra[1].v.value
                 ELSE IF own = <<>> /\ IsTarget(d, t) THEN d.variables[".EXTRA_PREREQS"].value
                 ELSE <<>>
        prereqs == split_prereqs(WordsOf(value))
    IN IF t \in NamesOf(prereqs) THEN <<>> ELSE prereqs

snap_file(d, t) ==
    [d.files[t] EXCEPT !.target = IsTarget(d, t),
                       !.marks = MarksOf(d, t),
                       !.deps = Waited(d, t, @),
                       !.entries = [i \in DOMAIN @ |-> [@[i] EXCEPT !.deps = Waited(d, t, @)]],
                       !.extra = expand_extra_prereqs(d, t)]

snap_deps(d) ==
    LET not == Listed(d, ".NOTINTERMEDIATE")
        known == enter_file(d, Range(WordsOf(d.variables[".EXTRA_PREREQS"].value)))
    IN IF Listed(d, ".INTERMEDIATE") \cap not # {} THEN Fatal(d, "both .INTERMEDIATE")
       ELSE IF Listed(d, ".SECONDARY") \cap not # {} THEN Fatal(d, "both .SECONDARY")
       ELSE IF Bare(d, ".SECONDARY") /\ Bare(d, ".NOTINTERMEDIATE")
       THEN Fatal(d, "mutually exclusive")
       ELSE LET files == [t \in DOMAIN known.files |-> snap_file(known, t)]
            IN enter_file([known EXCEPT
                             !.files = files,
                             !.export_all = @ \/ IsTarget(d, ".EXPORT_ALL_VARIABLES"),
                             !.flags = @ \cup {s \in Global : Bare(d, s) /\ IsTarget(d, s)}],
                          UNION {NamesOf(files[t].extra) : t \in DOMAIN files})

\* once the last makefile has been read
Snap ==
    /\ frames = <<>> /\ ~Over
    /\ db' = LET snapped == snap_deps(db)
             IN [snapped EXCEPT !.snapped = snapped.fatal = NoFatal]
    /\ UNCHANGED <<world, frames, history>>

(***************************************************************************)
(* Second expansion.  above is a file with those it is considered for, the *)
(* nearest first: each has the next as its parent.                         *)
(***************************************************************************)
\* the variables of that name that are set for t: its own, that of the patterns
Said(d, t, name) ==
    LET own == SelectSeq(d.target_variables, LAMBDA r : r.target = t /\ r.v.name = name)
        of_pattern == SelectSeq(d.pattern_variables, LAMBDA r : r.v.name = name)
        stronger(v, r) == [(IF Strength(v.origin) > Strength(r.v.origin) THEN v ELSE r.v)
                             EXCEPT !.private = r.v.private]
    IN [k \in DOMAIN own |-> own[k].v]
         \o (IF of_pattern = <<>> THEN <<>>
             ELSE <<FoldLeft(stronger, Head(of_pattern).v, of_pattern)>>)

InScope_Own(d, above, name) == Said(d, Head(above), name)  \* (mutant) no parent yet

\* those seen from a file: of its parents the ones that are not private
InScope(d, above, name) ==
    FlattenSeq([k \in DOMAIN above |->
        SelectSeq(Said(d, above[k], name), LAMBDA v : k = 1 \/ ~v.private)])

ValueFor(d, above, name) ==
    LET seen == InScope(d, above, name)
    IN IF seen # <<>> THEN Head(seen).value
       ELSE IF d.variables[name].private THEN <<>> ELSE d.variables[name].value

Expanded(d, above, deps) ==
    LET second(words) ==
            FlattenSeq([i \in DOMAIN words |->
                IF words[i] \in DOMAIN References
                THEN WordsOf(ValueFor(d, above, References[words[i]]))
                ELSE <<words[i]>>])
    IN FlattenSeq([k \in DOMAIN deps |->
            IF deps[k].again = <<>> THEN <<deps[k]>> ELSE split_prereqs(second(deps[k].again))])

\* the lists of a file, in the order they are looked at
ListsOf(file) ==
    IF file.double_colon
    THEN <<file.entries[1].deps, file.extra>>
           \o [i \in 1 .. Len(file.entries) - 1 |-> file.entries[i + 1].deps]
    ELSE <<file.deps, file.extra>>

\* the file's lists are expanded, and the names in them become files
expand_deps(d, above) ==
    LET t == Head(above)
        file == d.files[t]
        new == [file EXCEPT !.deps = Expanded(d, above, @),
                            !.entries = [i \in DOMAIN @ |->
                               [@[i] EXCEPT !.deps = Expanded(d, above, @)]]]
    IN enter_prereqs([d EXCEPT !.files[t] = new],
                     NamesOf(new.deps)
                       \cup UNION {NamesOf(new.entries[i].deps) : i \in DOMAIN new.entries})

\* prerequisites that the file is itself considered for are circular
DropCircular(d, above) ==
    LET kept(deps) == SelectSeq(deps, LAMBDA x : ~Contains(above, x.name))
    IN [d EXCEPT !.files[Head(above)] =
          [@ EXCEPT !.deps = kept(@), !.extra = kept(@),
                    !.entries = [i \in DOMAIN @ |-> [@[i] EXCEPT !.deps = kept(@)]]]]

\* update_file and check_dep: the file, then each of its prerequisites with it as
\* the parent; one that was considered before is not looked at again
\* (the arguments are a triple)
update_file[c \in Any] ==
    LET d == c[1]  t == c[3]  here == <<t>> \o c[2]
        now == DropCircular(expand_deps([d EXCEPT !.considered = Append(@, t)], here), here)
        prerequisites == FlattenSeq(ListsOf(now.files[t]))
    IN IF Contains(d.considered, t) THEN d
       ELSE FoldLeft(LAMBDA a, x : update_file[<<a, here, x.name>>], now, prerequisites)

\* update_goal_chain: the next goal
ConsiderGoal ==
    /\ db.snapped /\ ".SECONDEXPANSION" \in db.flags /\ db.goals < MaxGoals
    /\ \E t \in (Goals \cap DOMAIN db.files) \ Range(db.considered) :
          db' = update_file[<<[db EXCEPT !.goals = @ + 1], <<>>, t>>]
    /\ UNCHANGED <<world, frames, history>>

(***************************************************************************)
(* set_file_variables (commands.c): what a recipe is given.  Those of       *)
(* .EXTRA_PREREQS are no part of it.                                        *)
(***************************************************************************)
NamesAlong(deps) == [k \in DOMAIN deps |-> deps[k].name]
Normal(deps) == SelectSeq(deps, LAMBDA d : ~d.order_only)

\* $<
First(deps) == IF Normal(deps) = <<>> THEN "" ELSE Normal(deps)[1].name

\* where a name is both, its first entry and the one compared become normal
Upgraded(deps) ==
    LET compare(a, k) ==
            LET i == SelectInSeq(a, LAMBDA d : d.name = a[k].name)
            IN IF a[k].order_only = a[i].order_only THEN a
               ELSE [a EXCEPT ![k].order_only = FALSE, ![i].order_only = FALSE]
    IN FoldLeft(compare, deps, [k \in DOMAIN deps |-> k])

\* each name once, where it comes first
Once(deps) ==
    LET add(a, d) == IF d.name \in NamesOf(a) THEN a ELSE Append(a, d)
    IN FoldLeft(add, <<>>, deps)

set_file_variables(deps) ==
    LET once == Once(Upgraded(deps))
    IN [less |-> First(deps), plus |-> NamesAlong(Normal(deps)),
        caret |-> NamesAlong(Normal(once)),
        bar |-> NamesAlong(SelectSeq(once, LAMBDA d : d.order_only))]

Next == (\E l \in Readable : LineRead(l)) \/ OpenIncluded \/ EndOfFile \/ Snap \/ ConsiderGoal

Spec == Init /\ [][Next]_vars
================================================================================
