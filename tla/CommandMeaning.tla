----------------------------- MODULE CommandMeaning -----------------------------
(***************************************************************************)
(* What the text of a recipe says is run (make.texi, "Recipe Syntax",      *)
(* "Using One Shell", "Recipe Execution"): each line by a shell of its     *)
(* own, or by nothing else than what that shell would do.  The shell's own *)
(* reading of quotes is that of POSIX, one character after the other.      *)
(***************************************************************************)
EXTENDS CommandLines

\* what a shell reads: the words, and whether there is more to it than words
NothingRead == [mode |-> "plain", word |-> <<>>, open |-> FALSE, words |-> <<>>, simple |-> TRUE]
Adds(a, c) == [a EXCEPT !.word = Append(@, c), !.open = TRUE, !.mode = IF @ = "quoted" THEN @ ELSE "plain"]
Closes(a) ==
    IF a.open THEN [a EXCEPT !.words = Append(@, a.word), !.word = <<>>, !.open = FALSE] ELSE a
ShellReads(a, c) ==
    CASE a.mode = "quoted" /\ c = "'" -> [a EXCEPT !.mode = "plain"]
      [] a.mode = "escaped" /\ c = Newline -> [a EXCEPT !.mode = "plain"]
      [] a.mode # "plain" -> Adds(a, c)
      [] c = "'" -> [a EXCEPT !.mode = "quoted", !.open = TRUE]
      [] c = "\\" -> [a EXCEPT !.mode = "escaped"]
      [] IsBlank(c) -> Closes(a)
      [] OTHER -> [Adds(a, c) EXCEPT
                     !.simple = @ /\ c \notin sh_chars \cup {Newline} /\ (c # "=" \/ a.words # <<>>)]
HasRead(t) == FoldLeft(ShellReads, NothingRead, t)
ReadToEnd(t) == Closes(IF HasRead(t).mode = "escaped" THEN Adds(HasRead(t), "\\") ELSE HasRead(t))
ShellWords(t) == ReadToEnd(t).words
\* the words are all there is to it, and they are a program
IsSimple(t) ==
    /\ ReadToEnd(t).simple /\ ReadToEnd(t).mode # "quoted"
    /\ ShellWords(t) # <<>> => Head(ShellWords(t)) \notin sh_cmds

\* a newline is part of a line if it is quoted by a backslash that is not
LineRead(a, c) ==
    IF c = Newline /\ ~a.quoted THEN [lines |-> Append(a.lines, <<>>), quoted |-> FALSE]
    ELSE [lines |-> [a.lines EXCEPT ![Len(a.lines)] = Append(@, c)], quoted |-> c = "\\" /\ ~a.quoted]
LinesOfText(t) == FoldLeft(LineRead, [lines |-> <<<<>>>>, quoted |-> FALSE], t).lines

InFront(t) == {i \in DOMAIN t : \A j \in 1 .. i : IsBlank(t[j]) \/ t[j] \in Marks}
TextOf(t) == SubSeq(t, Cardinality(InFront(t)) + 1, Len(t))
MarksIn(t) == {t[i] : i \in InFront(t)} \cap Marks
\* a line that goes on may begin with the recipe prefix
Continued(t) ==
    FlattenSeq([i \in DOMAIN t |->
        IF i > 1 /\ t[i] = recipe_prefix /\ t[i - 1] = Newline THEN <<>> ELSE <<t[i]>>])

\* the commands of one line, with the marks of the line
CommandsOf(line, marks) ==
    LET parts == LinesOfText(line)
    IN [i \in DOMAIN parts |->
          [text |-> Continued(TextOf(parts[i])),
           flags |-> marks \cup MarksIn(parts[i])
                       \cup (UNION {MarksIn(parts[j]) : j \in 1 .. i - 1} \cap {"+"})]]

OneCommand(t, set) ==
    [text |-> IF is_bourne_compatible_shell(set.shell)
              THEN FoldLeft(LAMBDA all, l : all \o <<Newline>> \o TextOf(l),
                            TextOf(Head(LinesOfText(Continued(t)))), Tail(LinesOfText(Continued(t))))
              ELSE TextOf(Continued(t)),
     flags |-> MarksIn(t)]

\* nothing is run for it
IsIdle(c, set) ==
    \/ \A i \in DOMAIN c.text : IsBlank(c.text[i])
    \/ set.flags \in PlainFlags /\ is_bourne_compatible_shell(set.shell) /\ c.text = <<":">>
    \/ set.shell = default_shell /\ IsSimple(c.text) /\ ShellWords(c.text) = <<>>

SaidCommands(t, set, Expanded(_)) ==
    LET whole == LinesOfText(t)
        all == IF \A i \in DOMAIN t : IsBlank(t[i]) \/ t[i] \in Marks \cup {Newline} THEN <<>>
               ELSE IF set.one_shell
               THEN <<OneCommand(Expanded(IF Last(t) = Newline THEN Front(t) ELSE t), set)>>
               ELSE FlattenSeq([i \in DOMAIN whole |->
                                   CommandsOf(Expanded(whole[i]), MarksIn(whole[i]))])
    IN SelectSeq(all, LAMBDA c : ~IsIdle(c, set))

\* the shell gets the text, or the words that it would make of it are run
Runs(command, said, set) ==
    /\ command.flags = said.flags
    /\ \/ command.argv = <<set.shell>> \o ShellWords(set.flags) \o <<said.text>>
       \/ /\ set.shell = default_shell /\ IsSimple(said.text)
          /\ command.argv = ShellWords(said.text)

(***************************************************************************)
(* Texts of which make makes something else; the README tells of each.     *)
(***************************************************************************)
\* a backslash at the very end is lost
EndsQuoted(c) == HasRead(c.text).mode = "escaped"

\* an empty word is lost if the line is continued right after it with a blank
LosesEmpty(c) ==
    \E i \in 1 .. Len(c.text) - 2 :
        /\ c.text[i] = "\\" /\ c.text[i + 1] = Newline /\ IsBlank(c.text[i + 2])
        /\ HasRead(SubSeq(c.text, 1, i - 1)).open /\ HasRead(SubSeq(c.text, 1, i - 1)).word = <<>>

\* with .ONESHELL, what is after a newline in quotes is run once more by itself
RunsRestAgain(c, set) ==
    /\ set.one_shell
    /\ \E i \in DOMAIN c.text :
         c.text[i] = Newline /\ HasRead(SubSeq(c.text, 1, i - 1)).mode = "quoted"

RunAsSaid(commands, said, set) ==
    \/ \E i \in DOMAIN said :
         EndsQuoted(said[i]) \/ LosesEmpty(said[i]) \/ RunsRestAgain(said[i], set)
    \/ Len(commands) = Len(said) /\ \A i \in DOMAIN said : Runs(commands[i], said[i], set)
================================================================================
