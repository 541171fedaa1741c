------------------------------- MODULE TextMeaning -------------------------------
(***************************************************************************)
(* What the functions on texts come to (make.texi, "Functions for String   *)
(* Substitution and Analysis", "Functions for File Names", "Functions for  *)
(* Conditionals"), told word by word, without places and counts.           *)
(***************************************************************************)
EXTENDS TextFunctions

\* the words of a text, read from the left; the last one may still grow
WordsRead(t) ==
    FoldLeft(LAMBDA r, c :
               IF c = Blank THEN [r EXCEPT !.grows = FALSE]
               ELSE IF r.grows THEN [r EXCEPT !.words = Append(Front(@), Append(Last(@), c))]
               ELSE [grows |-> TRUE, words |-> Append(r.words, <<c>>)],
             [grows |-> FALSE, words |-> <<>>], t).words

(***************************************************************************)
(* A pattern, read from the left: backslashes before a % stand for half as *)
(* many, and an odd one takes the meaning of the %.  What follows the %    *)
(* that counts is as it is.                                                *)
(***************************************************************************)
Quotes(n) == [i \in 1 .. n |-> "\\"]
ReadOne(r, c) ==
    CASE r.stem -> [r EXCEPT !.after = Append(@, c)]
      [] ~r.stem /\ c = "\\" -> [r EXCEPT !.quotes = @ + 1]
      [] ~r.stem /\ c = "%" /\ r.quotes % 2 = 0 ->
           [r EXCEPT !.before = @ \o Quotes(r.quotes \div 2), !.quotes = 0, !.stem = TRUE]
      [] ~r.stem /\ c = "%" /\ r.quotes % 2 = 1 ->
           [r EXCEPT !.before = @ \o Quotes(r.quotes \div 2) \o <<c>>, !.quotes = 0]
      [] OTHER -> [r EXCEPT !.before = @ \o Quotes(r.quotes) \o <<c>>, !.quotes = 0]
Unread == [before |-> <<>>, after |-> <<>>, stem |-> FALSE, quotes |-> 0]
Complete(r) == [r EXCEPT !.before = @ \o Quotes(r.quotes), !.quotes = 0]
PatternOf(t) == Complete(FoldLeft(ReadOne, Unread, t))

\* the stems with which a word matches: none or one
Stems(p, w) ==
    {s \in {SubSeq(w, Len(p.before) + 1, j) : j \in Len(p.before) .. Len(w)} :
        p.stem /\ w = p.before \o s \o p.after}
Matching(p, w) == Stems(p, w) # {} \/ (~p.stem /\ w = p.before)

SubstitutedWord(p, r, w) ==
    CASE ~Matching(p, w) -> w
      [] Matching(p, w) /\ ~(p.stem /\ r.stem) ->
           r.before \o (IF r.stem THEN <<"%">> ELSE <<>>) \o r.after
      [] OTHER -> r.before \o (CHOOSE s \in Stems(p, w) : TRUE) \o r.after
Substituted(words, p, r) == [i \in DOMAIN words |-> SubstitutedWord(p, r, words[i])]

\* a pattern without % stands for the end of a word
AtEnd(p) == IF p.stem THEN p ELSE [p EXCEPT !.before = <<>>, !.stem = TRUE, !.after = p.before]
PlainEnd(t) == [Unread EXCEPT !.stem = TRUE, !.after = t]
SaidSubstReference(words, p, replace) ==
    Substituted(words, AtEnd(p), IF p.stem THEN PatternOf(replace) ELSE PlainEnd(replace))

RECURSIVE SubstText(_, _, _)
SubstText(t, from, to) ==
    IF t = <<>> THEN <<>>
    ELSE IF IsPrefix(from, t) THEN to \o SubstText(SubSeq(t, Len(from) + 1, Len(t)), from, to)
    ELSE <<Head(t)>> \o SubstText(Tail(t), from, to)

(***************************************************************************)
(* Names, numbers, order                                                   *)
(***************************************************************************)
\* the last component of a name, and its suffix
LastPart(w) ==
    CHOOSE b \in {SubSeq(w, i, Len(w)) : i \in 1 .. Len(w) + 1} :
        /\ "/" \notin Range(b)
        /\ b = w \/ w[Len(w) - Len(b)] = "/"
EndOf(b) ==
    IF "." \notin Range(b) THEN <<>>
    ELSE CHOOSE e \in {SubSeq(b, i, Len(b)) : i \in 1 .. Len(b)} :
            Head(e) = "." /\ "." \notin Range(Tail(e))
Without(w, e) == SubSeq(w, 1, Len(w) - Len(e))
DirectoryOf(w) == IF Without(w, LastPart(w)) = <<>> THEN Chars("./") ELSE Without(w, LastPart(w))

Onto(path, c) ==
    CASE c \in {<<>>, Chars(".")} -> path
      [] c = Chars("..") -> IF path = <<>> THEN path ELSE Front(path)
      [] OTHER -> Append(path, c)
\* the names between the slashes, some of them empty
Parted(t) ==
    FoldLeft(LAMBDA r, c : IF c = "/" THEN Append(r, <<>>) ELSE Append(Front(r), Append(Last(r), c)),
             <<<<>>>>, t)
Absolute(w) ==
    FoldLeft(Onto, <<>>, Parted(IF Head(w) = "/" THEN w ELSE Here \o <<"/">> \o w))
PathOf(names) ==
    IF names = <<>> THEN <<"/">> ELSE FoldLeft(LAMBDA t, c : t \o <<"/">> \o c, <<>>, names)

RECURSIVE LexLess(_, _)
LexLess(v, w) ==
    /\ w # <<>>
    /\ \/ v = <<>> \/ Code(Head(v)) < Code(Head(w))
       \/ Head(v) = Head(w) /\ LexLess(Tail(v), Tail(w))

\* an integer: its digits and a sign before them
IsInteger(t) == t # <<>> /\ IsNumeral(IF t[1] \in {"-", "+"} THEN Tail(t) ELSE t)
Value(t) ==
    CASE t[1] = "-" -> 0 - NumberOf(Tail(t)) [] t[1] = "+" -> NumberOf(Tail(t)) [] OTHER -> NumberOf(t)
RECURSIVE Numeral(_)
Numeral(n) ==
    IF n < 0 THEN <<"-">> \o Numeral(-n)
    ELSE IF n < 10 THEN <<Digits[n + 1]>> ELSE Numeral(n \div 10) \o <<Digits[(n % 10) + 1]>>

\* those of the words with these places
Places(words, first, last) ==
    SelectSeq([i \in DOMAIN words |-> <<i, words[i]>>], LAMBDA p : first <= p[1] /\ p[1] <= last)
PlacedWords(words, first, last) ==
    [i \in DOMAIN Places(words, first, last) |-> Places(words, first, last)[i][2]]

(***************************************************************************)
(* A function of texts a: the words it comes to, or an error               *)
(***************************************************************************)
Come(words) == [ok |-> TRUE, words |-> SelectSeq(words, LAMBDA w : w # <<>>)]
Error == [ok |-> FALSE, words |-> <<>>]
Each(t, Op(_)) == Come([i \in DOMAIN WordsRead(t) |-> Op(WordsRead(t)[i])])

AnyMatches(patterns, w) == \E i \in DOMAIN patterns : Matching(PatternOf(patterns[i]), w)
IsIn(t, part) == \E i \in 1 .. Len(t) + 1, j \in 0 .. Len(t) : SubSeq(t, i, j) = part

SaidOf(name, a) ==
    CASE name = "word" ->
           IF ~IsInteger(a[1]) THEN Error ELSE IF Value(a[1]) < 1 THEN Error
           ELSE Come(PlacedWords(WordsRead(a[2]), Value(a[1]), Value(a[1])))
      [] name = "wordlist" ->
           IF ~IsInteger(a[1]) \/ ~IsInteger(a[2]) THEN Error
           ELSE IF Value(a[1]) < 1 \/ Value(a[2]) < 0 THEN Error
           ELSE Come(PlacedWords(WordsRead(a[3]), Value(a[1]), Value(a[2])))
      [] name = "subst" ->
           Come(WordsRead(IF a[1] = <<>> THEN a[3] \o a[2] ELSE SubstText(a[3], a[1], a[2])))
      [] name = "patsubst" -> Come(Substituted(WordsRead(a[3]), PatternOf(a[1]), PatternOf(a[2])))
      [] name = "firstword" -> Come(PlacedWords(WordsRead(a[1]), 1, 1))
      [] name = "lastword" -> Come(PlacedWords(WordsRead(a[1]), Len(WordsRead(a[1])), Len(a[1])))
      [] name = "words" -> Come(<<Numeral(Len(WordsRead(a[1])))>>)
      [] name = "join" ->
           Come([i \in 1 .. Cardinality(DOMAIN WordsRead(a[1]) \cup DOMAIN WordsRead(a[2])) |->
                    FlattenSeq(PlacedWords(WordsRead(a[1]), i, i) \o PlacedWords(WordsRead(a[2]), i, i))])
      [] name = "findstring" -> Come(IF IsIn(a[2], a[1]) THEN WordsRead(a[1]) ELSE <<>>)
      [] name = "strip" -> Come(WordsRead(a[1]))
      [] name = "notdir" -> Each(a[1], LastPart)
      [] name = "suffix" -> Each(a[1], LAMBDA w : EndOf(LastPart(w)))
      [] name = "basename" -> Each(a[1], LAMBDA w : Without(w, EndOf(LastPart(w))))
      [] name = "dir" -> Each(a[1], DirectoryOf)
      [] name = "addprefix" -> Each(a[2], LAMBDA w : a[1] \o w)
      [] name = "addsuffix" -> Each(a[2], LAMBDA w : w \o a[1])
      [] name = "abspath" -> Each(a[1], LAMBDA w : PathOf(Absolute(w)))
      [] name = "filter" -> Come(SelectSeq(WordsRead(a[2]), LAMBDA w : AnyMatches(WordsRead(a[1]), w)))
      [] name = "filter-out" -> Come(SelectSeq(WordsRead(a[2]), LAMBDA w : ~AnyMatches(WordsRead(a[1]), w)))
      [] name = "sort" -> Come(SetToSortSeq(Range(WordsRead(a[1])), LexLess))
      [] name = "error" -> Error
      [] OTHER -> Come(<<>>)
================================================================================
