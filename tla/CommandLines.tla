------------------------------ MODULE CommandLines ------------------------------
(***************************************************************************)
(* What make runs for the text of a recipe: chop_commands (commands.c)     *)
(* cuts it into lines, start_job_command takes the command lines of one    *)
(* after the other, and construct_command_argv (job.c) makes the words of  *)
(* one itself, if it can tell what the shell would make of it, and hands   *)
(* the line to the shell otherwise.  A shell is set.shell, set.flags and   *)
(* whether .ONESHELL is given, set.one_shell.  For TLC only.               *)
(***************************************************************************)
EXTENDS TextFunctions

Newline == "\n"
recipe_prefix == "\t"
IsBlank(c) == c \in {" ", recipe_prefix}
Marks == {"-", "@", "+"}

\* the backquote is left out
sh_chars == Range(Chars("#;*?[]&|<>(){}$^~!")) \cup {"\""}
sh_cmds == {Chars(c) : c \in {".", ":", "cd", "exec", "exit", "if", "set", "test", "while"}}
default_shell == Chars("/bin/sh")
BourneNames == {Chars(c) : c \in {"sh", "bash", "dash", "ksh", "rksh", "zsh", "ash"}}
is_bourne_compatible_shell(shell) ==
    SubSeq(shell, SelectLastInSeq(shell, LAMBDA c : c = "/") + 1, Len(shell)) \in BourneNames

(***************************************************************************)
(* Lines                                                                   *)
(***************************************************************************)
\* the newline at p ends a line
EndsLine(t, p) == t[p] = Newline /\ Backslashes(t, p) % 2 = 0

RECURSIVE LinesFrom(_, _)
LineEnd(t, p) ==
    IF \E q \in p .. Len(t) : EndsLine(t, q)
    THEN CHOOSE q \in p .. Len(t) : EndsLine(t, q) /\ \A r \in p .. q - 1 : ~EndsLine(t, r)
    ELSE Len(t) + 1
LinesFrom(t, p) ==
    IF p > Len(t) THEN <<>>
    ELSE <<SubSeq(t, p, LineEnd(t, p) - 1)>> \o LinesFrom(t, LineEnd(t, p) + 1)

chop_commands(t, one_shell) ==
    IF ~one_shell THEN LinesFrom(t, 1)
    ELSE <<IF t # <<>> /\ Last(t) = Newline THEN Front(t) ELSE t>>

\* where the -, @, + and blanks in front of a line are over, and what they were
MarksEnd(t) == FirstFrom(t, 1, LAMBDA c : ~IsBlank(c) /\ c \notin Marks)
MarksOf(t) == Range(SubSeq(t, 1, MarksEnd(t) - 1)) \cap Marks

(***************************************************************************)
(* The words that make itself makes of a line.  a.p is the next character, *)
(* a.words the words that are complete, a.word the one that is read.       *)
(* Double quotes are among sh_chars.                                       *)
(***************************************************************************)
AtStart == [p |-> 1, words |-> <<>>, word |-> <<>>, instring |-> FALSE,
            word_has_equals |-> FALSE, seen_nonequals |-> FALSE,
            last_argument_was_empty |-> FALSE, over |-> FALSE, slow |-> FALSE, rest |-> 0]
Slow(a) == [a EXCEPT !.slow = TRUE, !.over = TRUE]
EndOfLine(a) == [a EXCEPT !.over = TRUE, !.rest = a.p]
Takes(a, chars) == [a EXCEPT !.word = @ \o chars, !.p = @ + Len(chars)]
IsAt(t, p, c) == p \in DOMAIN t /\ t[p] = c
BlanksFrom(t, p) == FirstFrom(t, p, LAMBDA c : ~IsBlank(c))

InString(t, a, restp) ==
    IF t[a.p] = "'"
    THEN [a EXCEPT !.instring = FALSE, !.p = @ + 1,
                   !.last_argument_was_empty = @ \/ a.word = <<>>]
    ELSE IF t[a.p] = "\\" /\ IsAt(t, a.p + 1, Newline) THEN Takes(a, <<"\\", Newline>>)
    ELSE IF t[a.p] = Newline /\ restp THEN EndOfLine(a)
    ELSE Takes(a, <<t[a.p]>>)

Backslash(t, a) ==
    IF a.p = Len(t) THEN [a EXCEPT !.p = @ + 1]
    ELSE IF t[a.p + 1] # Newline THEN [Takes(a, <<t[a.p + 1]>>) EXCEPT !.p = @ + 1]
    ELSE [a EXCEPT !.p = IF a.word = <<>> THEN BlanksFrom(t, @ + 2) ELSE @ + 2]

WordOver(t, a) ==
    [a EXCEPT !.words = Append(@, a.word), !.word = <<>>, !.last_argument_was_empty = FALSE,
              !.seen_nonequals = @ \/ ~a.word_has_equals, !.word_has_equals = FALSE,
              !.p = BlanksFrom(t, @)]
\* the command is not one of the shell's own
NotOfShell_Never(a) == a  \* (mutant) builtin commands are run as programs
NotOfShell(a) == IF Len(a.words) = 1 /\ a.words[1] \in sh_cmds THEN Slow(a) ELSE a

Plainly(t, a, restp, one_shell) ==
    CASE t[a.p] \in sh_chars -> Slow(a)
      [] t[a.p] = Newline ->
           IF one_shell THEN Slow(a) ELSE IF restp THEN EndOfLine(a) ELSE Takes(a, <<Newline>>)
      [] t[a.p] = "=" ->
           IF a.seen_nonequals THEN [Takes(a, <<"=">>) EXCEPT !.word_has_equals = TRUE] ELSE Slow(a)
      [] t[a.p] = "\\" -> Backslash(t, a)
      [] t[a.p] = "'" -> [a EXCEPT !.instring = TRUE, !.p = @ + 1]
      [] IsBlank(t[a.p]) -> NotOfShell(WordOver(t, a))
      [] OTHER -> Takes(a, <<t[a.p]>>)

RECURSIVE Scan(_, _, _, _)
Scan(t, a, restp, one_shell) ==
    IF a.over \/ a.p > Len(t) THEN a
    ELSE Scan(t, IF a.instring THEN InString(t, a, restp) ELSE Plainly(t, a, restp, one_shell),
              restp, one_shell)

LastWord(a) ==
    IF a.slow \/ a.instring THEN Slow(a)
    ELSE NotOfShell(IF a.word # <<>> \/ a.last_argument_was_empty
                    THEN [a EXCEPT !.words = Append(@, a.word)] ELSE a)

\* flags that say no more than that the next argument is a command
PlainFlags == {Chars("-c"), Chars("-ec")}
Fast(t, set, restp) ==
    IF set.shell # default_shell \/ set.flags \notin PlainFlags THEN Slow(AtStart)
    ELSE LastWord(Scan(t, AtStart, restp, set.one_shell))

(***************************************************************************)
(* The line for the shell: the shell, its flags and the line, with all     *)
(* that is special quoted, are made into words in the same way.            *)
(***************************************************************************)
RECURSIVE Words(_)

\* the first newline that is not after a backslash
RestAt(t) ==
    IF \E p \in DOMAIN t : t[p] = Newline /\ ~IsAt(t, p - 1, "\\")
    THEN CHOOSE p \in DOMAIN t :
            /\ t[p] = Newline /\ ~IsAt(t, p - 1, "\\")
            /\ \A q \in 1 .. p - 1 : t[q] = Newline => IsAt(t, q - 1, "\\")
    ELSE 0

QuotedIn(c, special) == IF c \in special THEN <<"\\", c>> ELSE <<c>>
QuotedAll(t, special) == FlattenSeq([i \in DOMAIN t |-> QuotedIn(t[i], special)])
ForShell(t, set) ==
    QuotedAll(set.shell, sh_chars) \o <<" ">> \o set.flags \o <<" ">>
      \o QuotedAll(t, sh_chars \cup {"\\", "'", " ", recipe_prefix})

\* with default_shell and -c
Words(t) ==
    LET a == LastWord(Scan(t, AtStart, FALSE, FALSE))
    IN IF a.slow THEN Words(ForShell(t, [shell |-> default_shell, flags |-> Chars("-c")]))
       ELSE a.words

\* an empty line has no command; the test counts the characters of the shell's name
\* as they are and fails when one of them had to be quoted
EmptyFor(line, set) == line = <<>> /\ QuotedAll(set.shell, sh_chars) = set.shell

ByShell(t, set, fast) ==
    LET line == IF RestAt(t) = 0 THEN t ELSE SubSeq(t, 1, RestAt(t) - 1)
    IN [argv |-> IF EmptyFor(line, set) THEN <<>> ELSE Words(ForShell(line, set)),
        rest |-> IF RestAt(t) # 0 THEN SubSeq(t, RestAt(t) + 1, Len(t))
                 ELSE IF fast.rest # 0 THEN SubSeq(t, fast.rest + 1, Len(t)) ELSE <<>>]

\* .ONESHELL: all lines, without their marks if the shell is a Bourne shell
WithoutMarks(t) ==
    FlattenSeq([i \in DOMAIN LinesFrom(t, 1) |->
        LET l == LinesFrom(t, 1)[i]
        IN SubSeq(l, MarksEnd(l), Len(l))
             \o (IF i < Len(LinesFrom(t, 1)) \/ (t # <<>> /\ EndsLine(t, Len(t)))
                 THEN <<Newline>> ELSE <<>>)])
\* what is beyond the newline at p, once the text has been moved in its place
Moved(t, moved, p) ==
    IF p = 0 \/ p = Len(moved) THEN <<>>
    ELSE IF p < Len(moved) THEN SubSeq(moved, p + 1, Len(moved)) ELSE SubSeq(t, p + 1, Len(t))
ByOneShell(t, set, fast, moved) ==
    [argv |-> <<set.shell>> \o Words(set.flags) \o <<moved>>, rest |-> Moved(t, moved, fast.rest)]

construct_command_argv_internal(t, set, fast) ==
    IF ~fast.slow
    THEN [argv |-> fast.words,
          rest |-> IF fast.rest = 0 THEN <<>> ELSE SubSeq(t, fast.rest + 1, Len(t))]
    ELSE IF ~set.one_shell THEN ByShell(t, set, fast)
    ELSE ByOneShell(t, set, fast, IF is_bourne_compatible_shell(set.shell) THEN WithoutMarks(t) ELSE t)
construct_command_argv(t, set) ==
    IF BlanksFrom(t, 1) > Len(t) THEN [argv |-> <<>>, rest |-> <<>>]
    ELSE construct_command_argv_internal(SubSeq(t, BlanksFrom(t, 1), Len(t)), set,
                                         Fast(SubSeq(t, BlanksFrom(t, 1), Len(t)), set, TRUE))

(***************************************************************************)
(* start_job_command                                                       *)
(***************************************************************************)
WithoutPrefixes(t) ==
    FlattenSeq([i \in DOMAIN t |->
        IF t[i] = recipe_prefix /\ IsAt(t, i - 1, Newline) THEN <<>> ELSE <<t[i]>>])

\* an empty command is not worth a shell
IsNothing(argv) ==
    Len(argv) = 3 /\ is_bourne_compatible_shell(argv[1]) /\ argv[2] \in PlainFlags /\ argv[3] = <<":">>
Started(argv, flags) ==
    IF argv = <<>> THEN <<>> ELSE IF IsNothing(argv) THEN <<>>
    ELSE <<[argv |-> argv, flags |-> flags]>>

\* t is what is left of a line; marks found on it so far; + counts for what follows
RECURSIVE StartJob(_, _, _)
StartNext(c, flags, given, set) ==
    Started(c.argv, flags) \o StartJob(c.rest, given \cup (flags \cap {"+"}), set)
StartJob(t, given, set) ==
    IF t = <<>> THEN <<>>
    ELSE StartNext(construct_command_argv(WithoutPrefixes(SubSeq(t, MarksEnd(t), Len(t))), set),
                   given \cup MarksOf(t), given, set)

\* the lines of a recipe that is more than blanks and marks
execute_file_commands(t, set) ==
    IF \A i \in DOMAIN t : IsBlank(t[i]) \/ t[i] \in Marks \cup {Newline} THEN <<>>
    ELSE chop_commands(t, set.one_shell)
================================================================================
