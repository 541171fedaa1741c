------------------------------- MODULE Options -------------------------------
(***************************************************************************)
(* The command switches of GNU Make (main.c) and their way from a make to  *)
(* the makes it starts: decode_env_switches takes them from MAKEFLAGS,     *)
(* decode_switches from the command line, a makefile may add to them,      *)
(* define_makeflags writes them back, target_environment (variable.c)      *)
(* hands them on.                                                          *)
(*                                                                         *)
(* Texts are sequences of tokens: one character each, except the long      *)
(* names, the numbers and the references to variables.  The table keeps    *)
(* one switch of each sort it has.  The module is for TLC only.            *)
(***************************************************************************)
EXTENDS Integers, Sequences, SequencesExt, FiniteSets

CONSTANTS Worlds,     \* identifiers of the command lines to consider
          World(_)    \* words of the command line, what the makefile adds to
                      \* MAKEFLAGS, the lines that start makes

VARIABLES world,
          make,       \* the make that runs: its switches and variables
          pc,         \* how far it has come
          passed      \* the makes above it as they were when they started the next

vars == <<world, make, pc, passed>>

(***************************************************************************)
(* The table                                                               *)
(***************************************************************************)
Switch(c, var, type, toenv, noarg, default) ==
    [c |-> c, var |-> var, type |-> type, toenv |-> toenv, noarg |-> noarg,
     default |-> default]

INVALID_JOB_SLOTS == -1

\* c, variable, type, toenv, noarg_value and default_value ({}: none)
Switches == <<
    Switch("E", "eval_strings", "strlist", FALSE, {}, {}),
    Switch("k", "keep_going", "flag", TRUE, {}, {0}),
    Switch("n", "just_print", "flag", TRUE, {}, {}),
    Switch("S", "keep_going", "flag_off", TRUE, {}, {0}),
    Switch("w", "print_directory", "flag", TRUE, {}, {-1}),
    Switch("C", "directories", "strlist", FALSE, {}, {}),
    Switch("I", "include_dirs", "strlist", TRUE, {}, {}),
    Switch("j", "arg_job_slots", "positive_int", TRUE, {0}, {INVALID_JOB_SLOTS}),
    Switch("O", "output_sync", "string", TRUE, {<<"target">>}, {}),
    Switch("jobserver-auth", "jobserver_auth", "string", TRUE, {}, {}),
    Switch("trace", "trace", "flag", TRUE, {}, {}),
    Switch("no-print-directory", "print_directory", "flag_off", TRUE, {}, {-1}),
    Switch("shuffle", "shuffle_mode", "string", TRUE, {<<"random">>}, {}),
    Switch("jobserver-style", "jobserver_style", "string", FALSE, {}, {})>>

Defaults ==
    [eval_strings |-> <<>>, keep_going |-> 0, just_print |-> 0,
     print_directory |-> -1, directories |-> <<>>, include_dirs |-> <<>>,
     arg_job_slots |-> INVALID_JOB_SLOTS, output_sync |-> <<>>,
     jobserver_auth |-> <<>>, trace |-> 0, shuffle_mode |-> <<>>,
     jobserver_style |-> <<>>]

ShortNames == {"E", "k", "n", "S", "w", "C", "I", "j", "O"}
short_option(c) == c \in ShortNames
FromEnv(cs) == cs.var # "directories"    \* the column env
Named(c) == SelectSeq(Switches, LAMBDA cs : cs.c = c)

Digits == {"1", "2", "3", "4"}
ToNumber(d) == CHOOSE i \in 1 .. 4 : <<"1", "2", "3", "4">>[i] = d

(***************************************************************************)
(* Quoting, splitting and expanding                                        *)
(***************************************************************************)
quote_for_env_Blank(in) ==  \* (mutant) a blank is not quoted
    FlattenSeq([i \in DOMAIN in |->
        IF in[i] = "$" THEN <<"$", "$">>
        ELSE IF in[i] = "\\" THEN <<"\\", in[i]>> ELSE <<in[i]>>])

quote_for_env(in) ==
    FlattenSeq([i \in DOMAIN in |->
        IF in[i] = "$" THEN <<"$", "$">>
        ELSE IF in[i] \in {" ", "\\"} THEN <<"\\", in[i]>> ELSE <<in[i]>>])

\* variable_expand: refs gives the values of the references in the text,
\* which are inserted as they are; any other variable is undefined
Expand(text, refs) ==
    FoldLeft(LAMBDA a, t :
        IF a.dollar THEN [out |-> IF t = "$" THEN Append(a.out, t) ELSE a.out,
                          dollar |-> FALSE]
        ELSE IF t = "$" THEN [a EXCEPT !.dollar = TRUE]
        ELSE IF t \in DOMAIN refs THEN [a EXCEPT !.out = @ \o refs[t]]
        ELSE [a EXCEPT !.out = Append(@, t)],
        [out |-> <<>>, dollar |-> FALSE], text).out

NoRefs == [t \in {} |-> <<>>]

\* the loop of decode_env_switches: a blank ends a word, also at the end of
\* the value, and a backslash takes the next character as it is
Words(value) ==
    LET step(a, t) ==
            IF a.quoted THEN [a EXCEPT !.word = Append(@, t), !.quoted = FALSE]
            ELSE IF t = "\\" THEN [a EXCEPT !.quoted = TRUE, !.blank = FALSE]
            ELSE IF t # " " THEN [a EXCEPT !.word = Append(@, t), !.blank = FALSE]
            ELSE IF a.blank THEN a
            ELSE [a EXCEPT !.words = Append(@, a.word), !.word = <<>>, !.blank = TRUE]
        end == FoldLeft(step, [words |-> <<>>, word |-> <<>>, quoted |-> FALSE,
                               blank |-> TRUE], value)
        last == IF end.quoted THEN Append(end.word, "\\") ELSE end.word
    IN IF \A i \in DOMAIN value : value[i] = " " THEN <<>>
       ELSE Append(end.words, last)

(***************************************************************************)
(* decode_switches.  d is the make so far; an argument is <<>> or <<text>> *)
(***************************************************************************)
IndexOf(t, text) == IF \E i \in DOMAIN text : text[i] = t
                    THEN SelectInSeq(text, LAMBDA x : x = t) ELSE 0

\* handle_non_switch_argument: the chain of command variables has the newest
\* first; an old one keeps its place
HandleNonSwitch(d, word, env) ==
    LET eq == IndexOf("=", word)
        simple == eq > 1 /\ word[eq - 1] = ":"
        name == SubSeq(word, 1, IF simple THEN eq - 2 ELSE eq - 1)
        text == SubSeq(word, eq + 1, Len(word))
        v == [name |-> name, recursive |-> ~simple,
              value |-> IF simple THEN Expand(text, NoRefs) ELSE text]
        old == SelectInSeq(d.command_variables, LAMBDA c : c.name = name)
    IN IF word = <<"-">> THEN d
       ELSE IF eq > 1
       THEN [d EXCEPT !.command_variables =
                IF old = 0 THEN <<v>> \o @ ELSE [@ EXCEPT ![old] = v]]
       ELSE IF env THEN d
       ELSE [d EXCEPT !.goals = Append(@, word)]

Bad(d) == [d EXCEPT !.bad = TRUE]

\* one switch with its argument
Set(d, cs, arg, env) ==
    LET old == d.o[cs.var]
        set(val) == [d EXCEPT !.o[cs.var] = val]
        text == IF arg = <<>> THEN CHOOSE a \in cs.noarg : TRUE ELSE arg[1]
    IN IF env /\ ~FromEnv(cs) THEN d
       ELSE IF cs.type = "flag" THEN set(1)
       ELSE IF cs.type = "flag_off" THEN set(0)
       ELSE IF cs.type = "positive_int"
            THEN IF arg = <<>> THEN set(CHOOSE a \in cs.noarg : TRUE)
                 ELSE IF Len(text) = 1 /\ text[1] \in Digits
                 THEN set(ToNumber(text[1])) ELSE Bad(d)
       ELSE IF text = <<>> THEN Bad(d)
       ELSE IF cs.type = "string" THEN set(text)
       ELSE IF Contains(old, text) THEN d
       ELSE set(Append(old, text))

TakesNoArg(cs) == cs.type \in {"flag", "flag_off"}

\* an argument left out may be the next word: a number for -j, any word when
\* an argument is required
NextIsArg(cs, words) ==
    /\ words # <<>>
    /\ \/ ~TakesNoArg(cs) /\ cs.noarg = {}
       \/ cs.type = "positive_int" /\ \A i \in DOMAIN words[1] : words[1][i] \in Digits

RECURSIVE decode_switches(_, _, _), DecodeShort(_, _, _, _)

\* the letters of one word
DecodeShort(d, letters, words, env) ==
    IF letters = <<>> THEN decode_switches(d, words, env)
    ELSE IF Named(letters[1]) = <<>>
    THEN DecodeShort(Bad(d), Tail(letters), words, env)
    ELSE LET cs == Named(letters[1])[1]
         IN IF TakesNoArg(cs)
            THEN DecodeShort(Set(d, cs, <<>>, env), Tail(letters), words, env)
            ELSE IF Len(letters) > 1
            THEN decode_switches(Set(d, cs, <<Tail(letters)>>, env), words, env)
            ELSE IF NextIsArg(cs, words)
            THEN decode_switches(Set(d, cs, <<words[1]>>, env), Tail(words), env)
            ELSE decode_switches(IF cs.noarg = {} THEN Bad(d) ELSE Set(d, cs, <<>>, env),
                                 words, env)

decode_switches(d, words, env) ==
    IF words = <<>> THEN d
    ELSE LET w == words[1]
             rest == Tail(words)
         IN IF w = <<"-", "-">>
            THEN FoldLeft(LAMBDA a, x : HandleNonSwitch(a, x, env), d, rest)
            ELSE IF Len(w) < 2 \/ w[1] # "-"
            THEN decode_switches(HandleNonSwitch(d, w, env), rest, env)
            ELSE IF w[2] # "-" THEN DecodeShort(d, Tail(w), rest, env)
            ELSE IF Named(w[3]) = <<>> THEN decode_switches(Bad(d), rest, env)
            ELSE LET cs == Named(w[3])[1]
                 IN IF Len(w) > 3
                    THEN decode_switches(Set(d, cs, <<SubSeq(w, 5, Len(w))>>, env), rest, env)
                    ELSE IF NextIsArg(cs, rest)
                    THEN decode_switches(Set(d, cs, <<rest[1]>>, env), Tail(rest), env)
                    ELSE decode_switches(Set(d, cs, <<>>, env), rest, env)

\* the value of MAKEFLAGS or GNUMAKEFLAGS, expanded; a first word that is
\* neither a switch nor a definition gets a dash
decode_env_switches(d, value) ==
    LET ws == Words(value)
        first == ws[1]
    IN IF ws = <<>> THEN d
       ELSE IF first[1] # "-" /\ ~Contains(first, "=")
       THEN decode_switches(d, <<<<"-">> \o first>> \o Tail(ws), TRUE)
       ELSE decode_switches(d, ws, TRUE)

(***************************************************************************)
(* define_makeflags                                                        *)
(***************************************************************************)
NumberText(n) == <<(<<"1", "2", "3", "4">>)[n]>>

\* ADD_FLAG: the arguments the switch is written with, <<>> for none
ToWrite(cs, val) ==
    IF cs.type \in {"flag", "flag_off"}
    THEN IF (val = 0) = (cs.type = "flag_off") /\ val \notin cs.default
         THEN <<<<>>>> ELSE <<>>
    ELSE IF cs.type = "positive_int"
    THEN IF val \in cs.default THEN <<>>
         ELSE IF val \in cs.noarg THEN <<<<>>>> ELSE <<NumberText(val)>>
    ELSE IF cs.type = "string" THEN IF val = <<>> THEN <<>> ELSE <<val>>
    ELSE val

FlagsToWrite(o, makefile) ==
    FlattenSeq([i \in DOMAIN Switches |->
        LET cs == Switches[i]
            args == ToWrite(cs, o[cs.var])
        IN IF ~cs.toenv \/ (makefile /\ cs.c = "n") THEN <<>>
           ELSE [k \in DOMAIN args |-> [cs |-> cs, arg |-> args[k]]]])

EvalRef == "$(-*-eval-flags-*-)"
OverridesRef == "$(MAKEOVERRIDES)"

\* letters first, then a word for each of the others; without its dash
define_makeflags(m, all, makefile) ==
    LET flags == FlagsToWrite(m.o, makefile)
        simple(f) == TakesNoArg(f.cs) /\ short_option(f.cs.c)
        letters == [i \in DOMAIN SelectSeq(flags, simple) |->
                        SelectSeq(flags, simple)[i].cs.c]
        word(f) == (IF short_option(f.cs.c) THEN <<" ", "-", f.cs.c>>
                    ELSE <<" ", "-", "-", f.cs.c>>)
                   \o (IF f.arg = <<>> THEN <<>>
                       ELSE (IF short_option(f.cs.c) THEN <<>> ELSE <<"=">>)
                            \o quote_for_env(f.arg))
        others == SelectSeq(flags, LAMBDA f : ~simple(f))
    IN letters
       \o FlattenSeq([i \in DOMAIN others |-> word(others[i])])
       \o (IF m.o.eval_strings # <<>> THEN <<" ", EvalRef>> ELSE <<>>)
       \o (IF all /\ m.MAKEOVERRIDES # <<>>
           THEN <<" ", "-", "-", " ", OverridesRef>> ELSE <<>>)

\* what the references in MAKEFLAGS stand for
Refs(m) == [t \in {EvalRef, OverridesRef} |->
              IF t = EvalRef THEN m.eval_flags ELSE m.MAKEOVERRIDES]

JoinedBy(texts) ==
    FlattenSeq([i \in DOMAIN texts |->
        IF i = Len(texts) THEN texts[i] ELSE Append(texts[i], " ")])

(***************************************************************************)
(* main, stage by stage                                                    *)
(***************************************************************************)
NewMake(argv, environment, open) ==
    [o |-> Defaults, command_variables |-> <<>>, goals |-> <<>>, bad |-> FALSE,
     argv |-> argv, MAKEFLAGS |-> environment, MAKEOVERRIDES |-> <<>>,
     eval_flags |-> <<>>, argv_slots |-> INVALID_JOB_SLOTS,
     job_slots |-> 0, master |-> FALSE, open |-> open]

Init ==
    /\ world \in Worlds
    /\ make = NewMake(World(world).argv, <<>>, FALSE)
    /\ pc = "environment"
    /\ passed = <<>>

DecodeEnvironment ==
    /\ pc = "environment"
    /\ make' = decode_env_switches(make, Expand(make.MAKEFLAGS, Refs(make)))
    /\ pc' = "command line"
    /\ UNCHANGED <<world, passed>>

\* --shuffle=random becomes the seed drawn; a -j of the command line counts
\* before one of the environment.  A switch in error ends make here.
DecodeCommandLine ==
    /\ pc = "command line"
    /\ LET d == decode_switches([make EXCEPT !.o.arg_job_slots = INVALID_JOB_SLOTS,
                                             !.bad = FALSE],
                                make.argv, FALSE)
           j == d.o.arg_job_slots
       IN /\ make' = [d EXCEPT
                        !.argv_slots = j,
                        !.o.arg_job_slots = IF j = INVALID_JOB_SLOTS
                                            THEN make.o.arg_job_slots ELSE j,
                        !.o.shuffle_mode = IF @ = <<"random">> THEN <<"seed">>
                                           ELSE IF @ = <<"none">> THEN <<>> ELSE @]
          /\ pc' = IF d.bad THEN "usage" ELSE "jobserver"
    /\ UNCHANGED <<world, passed>>

\* a pipe is known by its descriptors, a fifo by its name, in a temporary
\* directory that has a blank in its name
PipeAuth == <<"R,W">>
FifoAuth == <<"fifo:", "t", " ", "m">>
Fifo(auth) == auth # <<>> /\ auth[1] = "fifo:"

\* the authorization jobserver_setup comes to, or a fatal error; a fifo that
\* cannot be made gives way to a pipe if no style was asked for
FatalError == <<"fatal error">>

jobserver_setup(style) ==
    (IF style \in {<<>>, <<"fifo">>} THEN {FifoAuth} ELSE {})
        \cup (IF style \in {<<>>, <<"pipe">>} THEN {PipeAuth} ELSE {FatalError})

\* A fifo is opened by its name: it is there as long as its master runs.  The
\* descriptors of a pipe are open in a make that was started by a recursive
\* line; in any other their numbers may be those of files that have nothing
\* to do with the jobserver.
jobserver_parse_auth(m) ==
    Fifo(m.o.jobserver_auth) \/ (m.o.jobserver_auth # <<"-2,-2">> /\ m.open)

ValidateJobs(m) ==
    IF m.o.jobserver_auth = <<>> THEN m
    ELSE IF m.argv_slots # INVALID_JOB_SLOTS
    THEN [m EXCEPT !.o.jobserver_auth = <<>>]
    ELSE IF jobserver_parse_auth(m) THEN m
    ELSE [m EXCEPT !.o.jobserver_auth = <<>>, !.o.arg_job_slots = 1]

MakeOverrides(m) ==
    LET cv == m.command_variables
    IN JoinedBy([i \in DOMAIN cv |->
          quote_for_env(cv[i].name) \o (IF cv[i].recursive THEN <<>> ELSE <<":">>)
            \o <<"=">> \o quote_for_env(cv[i].value)])

EvalFlags(m) ==
    JoinedBy([i \in DOMAIN m.o.eval_strings |->
                <<"-", "E">> \o quote_for_env(m.o.eval_strings[i])])

\* the jobserver is joined or not, and MAKEFLAGS defined for the makefiles
Prepare ==
    /\ pc = "jobserver"
    /\ LET m == [ValidateJobs(make) EXCEPT !.MAKEOVERRIDES = MakeOverrides(make)]
           f == [m EXCEPT !.MAKEFLAGS = define_makeflags(m, FALSE, FALSE)]
       IN make' = [f EXCEPT !.eval_flags = EvalFlags(f)]
    /\ pc' = "makefile"
    /\ UNCHANGED <<world, passed>>

\* MAKEFLAGS += text in the makefile: set_special_var decodes it at once.
\* After the makefiles it is decoded again, and -j chosen between what it says
\* and what was known before.
ReadMakefiles ==
    /\ pc = "makefile"
    /\ LET old == make.o.arg_job_slots
           text == World(world).makefile[Len(passed) + 1]
           set == IF text = <<>> THEN make
                  ELSE [make EXCEPT !.MAKEFLAGS = @ \o <<" ">> \o text]
           now == IF text = <<>> THEN make
                  ELSE decode_env_switches(set, Expand(set.MAKEFLAGS, Refs(set)))
           again == decode_env_switches([now EXCEPT !.o.arg_job_slots = INVALID_JOB_SLOTS],
                                        Expand(now.MAKEFLAGS, Refs(now)))
           j == again.o.arg_job_slots
       IN make' =
            IF j = INVALID_JOB_SLOTS \/ again.argv_slots # INVALID_JOB_SLOTS
            THEN [again EXCEPT !.o.arg_job_slots = old]
            ELSE IF j # old THEN [again EXCEPT !.o.jobserver_auth = <<>>]
            ELSE again
    /\ pc' = "slots"
    /\ UNCHANGED <<world, passed>>

\* the final choice; a make that may run more than one job sets up a
\* jobserver.  MAKEFLAGS is defined again, with the command variables.
Defined(m) == [m EXCEPT !.MAKEFLAGS = define_makeflags(m, TRUE, FALSE)]

ChooseSlots ==
    /\ pc = "slots"
    /\ LET slots == IF make.o.jobserver_auth # <<>> THEN 0
                    ELSE IF make.o.arg_job_slots = INVALID_JOB_SLOTS THEN 1
                    ELSE make.o.arg_job_slots
       IN \/ /\ slots <= 1
             /\ make' = Defined([make EXCEPT !.job_slots = slots])
             /\ pc' = "run"
          \/ /\ slots > 1
             /\ \E auth \in jobserver_setup(make.o.jobserver_style) :
                   IF auth = FatalError THEN pc' = "fatal" /\ UNCHANGED make
                   ELSE /\ make' = Defined([make EXCEPT !.job_slots = 0, !.master = TRUE,
                                                        !.o.jobserver_auth = auth])
                        /\ pc' = "run"
    /\ UNCHANGED <<world, passed>>

Invalid == <<" ", "-", "-", "jobserver-auth", "=", "-2,-2">>

\* target_environment: MAKEFLAGS expanded; a jobserver that is a pipe is taken
\* from a line that is not recursive, before the command variables
Invalidates(m, recursive) ==
    ~recursive /\ m.o.jobserver_auth # <<>> /\ ~Fifo(m.o.jobserver_auth)

target_environment_AtEnd(m, recursive) ==  \* (mutant) the switch is put last
    LET value == Expand(m.MAKEFLAGS, Refs(m))
    IN IF Invalidates(m, recursive) THEN value \o Invalid ELSE value

target_environment(m, recursive) ==
    LET value == Expand(m.MAKEFLAGS, Refs(m))
        before == IF Contains(m.MAKEFLAGS, OverridesRef)
                  THEN SubSeq(value, 1, IndexFirstSubSeq(<<" ", "-", "-", " ">>, value) - 1)
                  ELSE value
        after == SubSeq(value, Len(before) + 1, Len(value))
    IN IF Invalidates(m, recursive) THEN before \o Invalid \o after ELSE value

StartMake ==
    /\ pc = "run"
    /\ Len(passed) < Len(World(world).lines)
    /\ LET l == World(world).lines[Len(passed) + 1]
       IN /\ \E open \in BOOLEAN :
                /\ l.recursive => open
                /\ make' = NewMake(l.argv, target_environment(make, l.recursive), open)
          /\ passed' = Append(passed, make)
    /\ pc' = "environment"
    /\ UNCHANGED world

Next == DecodeEnvironment \/ DecodeCommandLine \/ Prepare \/ ReadMakefiles
            \/ ChooseSlots \/ StartMake

Spec == Init /\ [][Next]_vars

(***************************************************************************)
(* Properties                                                              *)
(***************************************************************************)
Above == passed[Len(passed)]
Started == World(world).lines[Len(passed)]

\* A make that is given no switches of its own has, when it reads its
\* makefiles, those of the make above it, except -j and the jobserver, also
\* those the makefiles there added and whatever their arguments contain, and
\* the variables of its command line: what define_makeflags writes is what
\* decode_env_switches reads.  A variable of := with a dollar sign is not
\* among them: its value is expanded once too often on the way.
SwitchesPassedOn ==
    pc = "makefile" /\ passed # <<>> /\ Started.argv = <<>> =>
        /\ \A i \in DOMAIN Switches :
              Switches[i].toenv /\ Switches[i].var \notin {"arg_job_slots", "jobserver_auth"}
                => make.o[Switches[i].var] = Above.o[Switches[i].var]
        /\ \A i \in DOMAIN Above.argv :
              Len(Above.argv[i]) > 2 /\ Above.argv[i][2] = "E"
                => Contains(make.o.eval_strings, SubSeq(Above.argv[i], 3, Len(Above.argv[i])))
        /\ \A i \in DOMAIN Above.command_variables :
              LET v == Above.command_variables[i]
              IN (v.recursive \/ ~Contains(v.value, "$"))
                     /\ (\E k \in DOMAIN Above.argv : IsPrefix(v.name, Above.argv[k]))
                 => Contains(make.command_variables, v)

\* The jobserver of the make above is joined by the makes that a recursive
\* line starts without a -j of their own, and when it is a fifo, which has a
\* name, by those that a plain line starts too (as the tests say, features/
\* jobserver:84-110).  One that has its own -j sets up a jobserver for it, and
\* one that a plain line starts below a pipe runs one job at a time, whatever
\* files it has open.
JobserverJoined ==
    pc = "run" /\ passed # <<>> /\ Above.o.jobserver_auth # <<>>
        /\ World(world).makefile[Len(passed) + 1] = <<>>
        => IF make.argv_slots # INVALID_JOB_SLOTS THEN make.master = (make.argv_slots > 1)
           ELSE IF Started.recursive \/ Fifo(Above.o.jobserver_auth)
           THEN make.job_slots = 0 /\ make.o.jobserver_auth = Above.o.jobserver_auth
                    /\ ~make.master
           ELSE make.job_slots = 1 /\ make.o.jobserver_auth = <<>>

=============================================================================
