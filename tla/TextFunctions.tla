------------------------------ MODULE TextFunctions ------------------------------
(***************************************************************************)
(* The functions on texts of function.c.  A text is a sequence of          *)
(* characters; its words are what blanks separate.  A result is r.ok and   *)
(* the text r.t; what make dies of is not ok.  The functions that expand   *)
(* their own arguments are in module Variables.  For TLC only.             *)
(***************************************************************************)
EXTENDS Integers, Sequences, SequencesExt, FiniteSets

CONSTANTS Alphabet,     \* the characters, in the order of their codes
          Here          \* the directory make was started in

Blank == " "
Chars(string) == [i \in 1 .. Len(string) |-> SubSeq(string, i, i)]

Yields(t) == [ok |-> TRUE, t |-> t]
Dies == [ok |-> FALSE, t |-> <<>>]

(***************************************************************************)
(* Words: next_token, end_of_token, find_next_token                        *)
(***************************************************************************)
\* the first place from p on where Test holds, or just beyond the end
FirstFrom(t, p, Test(_)) ==
    IF \E i \in p .. Len(t) : Test(t[i])
    THEN CHOOSE i \in p .. Len(t) : Test(t[i]) /\ \A j \in p .. i - 1 : ~Test(t[j])
    ELSE Len(t) + 1
next_token(t, p) == FirstFrom(t, p, LAMBDA c : c # Blank)
end_of_token(t, p) == FirstFrom(t, p, LAMBDA c : c = Blank)

RECURSIVE TokensFrom(_, _)
TokensFrom(t, p) ==
    IF p > Len(t) THEN <<>>
    ELSE <<SubSeq(t, p, end_of_token(t, p) - 1)>>
           \o TokensFrom(t, next_token(t, end_of_token(t, p)))
Tokens(t) == TokensFrom(t, next_token(t, 1))

Spaced(words) ==
    FoldLeft(LAMBDA t, w : IF t = <<>> THEN w ELSE t \o <<Blank>> \o w, <<>>, words)

(***************************************************************************)
(* Substitution                                                            *)
(***************************************************************************)
\* the first occurrence of subst from t on, or 0 if there is none
OccursAt(text, subst, p) == SubSeq(text, p, p + Len(subst) - 1) = subst
strstr(text, t, subst) ==
    IF \E p \in t .. Len(text) - Len(subst) + 1 : OccursAt(text, subst, p)
    THEN CHOOSE p \in t .. Len(text) - Len(subst) + 1 :
            OccursAt(text, subst, p) /\ \A q \in t .. p - 1 : ~OccursAt(text, subst, q)
    ELSE 0

\* an occurrence at p that is not a whole word
StruckOut(text, subst, p) ==
    \/ p > 1 /\ text[p - 1] # Blank
    \/ p + Len(subst) <= Len(text) /\ text[p + Len(subst)] # Blank

RECURSIVE SubstFrom(_, _, _, _, _)
\* the occurrence at p is next, what is before t is done
SubstAt(text, t, p, subst, replace, by_word) ==
    IF p = 0 THEN SubSeq(text, t, Len(text))
    ELSE SubSeq(text, t, p - 1)
           \o (IF by_word /\ StruckOut(text, subst, p) THEN subst ELSE replace)
           \o (IF p + Len(subst) > Len(text) THEN <<>>
               ELSE SubstFrom(text, p + Len(subst), subst, replace, by_word))
SubstFrom(text, t, subst, replace, by_word) ==
    SubstAt(text, t,
            IF subst = <<>> THEN end_of_token(text, next_token(text, t))
            ELSE strstr(text, t, subst),
            subst, replace, by_word)

subst_expand(text, subst, replace, by_word) ==
    IF subst = <<>> /\ ~by_word THEN text \o replace
    ELSE SubstFrom(text, 1, subst, replace, by_word)

(***************************************************************************)
(* Patterns.  find_percent: the text without the backslashes that quote,   *)
(* and the place of the first % that is not quoted, or 0.                  *)
(***************************************************************************)
Backslashes(t, p) ==
    Cardinality({i \in 1 .. p - 1 : \A j \in i .. p - 1 : t[j] = "\\"})

\* p is the next %, after n backslashes: half of them go
Halved(t, p, n) ==
    SubSeq(t, 1, p - n - 1) \o [i \in 1 .. n \div 2 |-> "\\"] \o SubSeq(t, p, Len(t))

RECURSIVE UnquoteFrom(_, _)
UnquoteAt(t, p, n) ==
    IF p > Len(t) THEN [t |-> t, at |-> 0]
    ELSE IF n % 2 = 0 THEN [t |-> Halved(t, p, n), at |-> p - n + n \div 2]
    ELSE UnquoteFrom(Halved(t, p, n), p - n + n \div 2 + 1)
UnquoteFrom(t, from) ==
    UnquoteAt(t, FirstFrom(t, from, LAMBDA c : c = "%"),
              Backslashes(t, FirstFrom(t, from, LAMBDA c : c = "%")))
find_percent(t) == UnquoteFrom(t, 1)

Before(pat) == SubSeq(pat.t, 1, pat.at - 1)
After(pat) == SubSeq(pat.t, pat.at + 1, Len(pat.t))

pattern_matches(pat, w) ==
    IF pat.at = 0 THEN w = pat.t
    ELSE /\ Len(w) >= Len(Before(pat)) + Len(After(pat))
         /\ IsPrefix(Before(pat), w)
         /\ SubSeq(w, Len(w) - Len(After(pat)) + 1, Len(w)) = After(pat)

Replaced(w, pat, rep) ==
    IF ~pattern_matches(pat, w) THEN w
    ELSE IF rep.at = 0 THEN rep.t
    ELSE Before(rep) \o SubSeq(w, pat.at, Len(w) - Len(After(pat))) \o After(rep)

patsubst_expand_pat(text, pat, rep) ==
    IF pat.at = 0 THEN subst_expand(text, pat.t, rep.t, TRUE)
    ELSE Spaced([i \in DOMAIN Tokens(text) |-> Replaced(Tokens(text)[i], pat, rep)])

patsubst_expand(text, pattern, replace) ==
    patsubst_expand_pat(text, find_percent(pattern), find_percent(replace))

\* $(V:a=b), in variable_expand_string
Suffix(t) == [t |-> <<"%">> \o t, at |-> 1]
SubstReferenceFor(text, pat, pattern, replace) ==
    IF pat.at = 0 THEN patsubst_expand_pat(text, Suffix(pat.t), Suffix(replace))
    ELSE patsubst_expand_pat(text, pat, find_percent(replace))
SubstReference(text, pattern, replace) ==
    SubstReferenceFor(text, find_percent(pattern), pattern, replace)

(***************************************************************************)
(* Words by their places                                                   *)
(***************************************************************************)
Digits == Chars("0123456789")
DigitValue(c) == SelectInSeq(Digits, LAMBDA d : d = c) - 1
IsNumeral(t) == t # <<>> /\ \A i \in DOMAIN t : t[i] \in Range(Digits)
NumberOf(t) == FoldLeft(LAMBDA n, c : 10 * n + DigitValue(c), 0, t)

Stripped(t) == SubSeq(t, next_token(t, 1), Len(t) + 1 - next_token(Reverse(t), 1))

\* parse_numeric: p holds n.ok and the number n.n
Signed(t, sign) == IF IsNumeral(t) THEN [ok |-> TRUE, n |-> sign * NumberOf(t)]
                   ELSE [ok |-> FALSE, n |-> 0]
parse_numeric(t) ==
    IF t # <<>> /\ t[1] \in {"-", "+"}
    THEN Signed(Tail(t), IF t[1] = "-" THEN -1 ELSE 1) ELSE Signed(t, 1)

WordAt(words, n) ==
    IF ~n.ok \/ n.n < 1 THEN Dies
    ELSE Yields(IF n.n > Len(words) THEN <<>> ELSE words[n.n])
func_word(a) == WordAt(Tokens(a[2]), parse_numeric(Stripped(a[1])))

Between(words, first, last) ==
    IF ~first.ok \/ ~last.ok \/ first.n < 1 \/ last.n < 0 THEN Dies
    ELSE Yields(Spaced(SubSeq(words, first.n, IF last.n < Len(words) THEN last.n ELSE Len(words))))
func_wordlist(a) ==
    Between(Tokens(a[3]), parse_numeric(Stripped(a[1])), parse_numeric(Stripped(a[2])))

func_firstword(a) == IF Tokens(a[1]) = <<>> THEN <<>> ELSE Head(Tokens(a[1]))
func_lastword(a) == IF Tokens(a[1]) = <<>> THEN <<>> ELSE Last(Tokens(a[1]))
func_words(a) == <<Digits[Len(Tokens(a[1])) + 1]>>

PairOf(v, w, i) == (IF i > Len(v) THEN <<>> ELSE v[i]) \o (IF i > Len(w) THEN <<>> ELSE w[i])
JoinedWords(v, w) ==
    [i \in 1 .. (IF Len(v) > Len(w) THEN Len(v) ELSE Len(w)) |-> PairOf(v, w, i)]
func_join(a) == Spaced(JoinedWords(Tokens(a[1]), Tokens(a[2])))

func_findstring(a) == IF a[1] = <<>> \/ strstr(a[2], 1, a[1]) # 0 THEN a[1] ELSE <<>>
func_strip(a) == Spaced(Tokens(a[1]))

(***************************************************************************)
(* Names of files                                                          *)
(***************************************************************************)
EachWord(a, Op(_)) == Spaced([i \in DOMAIN Tokens(a) |-> Op(Tokens(a)[i])])

\* the last of these characters of a word
Stop(w, stops) == SelectLastInSeq(w, LAMBDA c : c \in stops)
IsDot(w, p) == p > 0 /\ w[p] = "."

NotDir(w) == SubSeq(w, Stop(w, {"/"}) + 1, Len(w))
SuffixOf(w) == IF IsDot(w, Stop(w, {"/", "."})) THEN SubSeq(w, Stop(w, {"/", "."}), Len(w)) ELSE <<>>
func_notdir_suffix(name, a) ==
    EachWord(a[1], LAMBDA w : IF name = "suffix" THEN SuffixOf(w) ELSE NotDir(w))

DirOf(w) == IF Stop(w, {"/"}) = 0 THEN Chars("./") ELSE SubSeq(w, 1, Stop(w, {"/"}))
BaseName(w) == IF IsDot(w, Stop(w, {"/", "."})) THEN SubSeq(w, 1, Stop(w, {"/", "."}) - 1) ELSE w
func_basename_dir(name, a) ==
    EachWord(a[1], LAMBDA w : IF name = "basename" THEN BaseName(w) ELSE DirOf(w))

func_addsuffix_addprefix(name, a) ==
    EachWord(a[2], LAMBDA w : IF name = "addprefix" THEN a[1] \o w ELSE w \o a[1])

\* abspath: one component of name after the other is put on the path, or takes
\* the last one from it
RECURSIVE ComponentsFrom(_, _)
ComponentsFrom(t, p) ==
    IF p > Len(t) THEN <<>>
    ELSE <<SubSeq(t, p, FirstFrom(t, p, LAMBDA c : c = "/") - 1)>>
           \o ComponentsFrom(t, FirstFrom(t, FirstFrom(t, p, LAMBDA c : c = "/"),
                                          LAMBDA c : c # "/"))
Components(t) == ComponentsFrom(t, FirstFrom(t, 1, LAMBDA c : c # "/"))

\* to the previous /, but not beyond the root
Back(path) ==
    IF Len(path) > 1
    THEN SubSeq(path, 1, SelectLastInSeq(Front(path), LAMBDA c : c = "/")) ELSE path
OneComponent(path, c) ==
    CASE c = Chars(".") -> path
      [] c = Chars("..") -> Back(path)
      [] OTHER -> path \o (IF Last(path) = "/" THEN <<>> ELSE <<"/">>) \o c
NoLastSlash(path) == IF Len(path) > 1 /\ Last(path) = "/" THEN Front(path) ELSE path
abspath(name) ==
    NoLastSlash(FoldLeft(OneComponent, IF name[1] = "/" THEN <<"/">> ELSE Here, Components(name)))
func_abspath(a) == EachWord(a[1], abspath)

(***************************************************************************)
(* Filter and sort                                                         *)
(***************************************************************************)
\* words are killed by any pattern; equal words are chained in a hash table
func_filter_filterout(name, a) ==
    Spaced(SelectSeq(Tokens(a[2]),
        LAMBDA w : (\E i \in DOMAIN Tokens(a[1]) :
                      pattern_matches(find_percent(Tokens(a[1])[i]), w)) = (name = "filter")))

Code(c) == SelectInSeq(Alphabet, LAMBDA d : d = c)
\* alpha_compare
Earlier(v, w) ==
    \E k \in 0 .. Len(v) :
        /\ k < Len(w) /\ SubSeq(v, 1, k) = SubSeq(w, 1, k)
        /\ k = Len(v) \/ Code(v[k + 1]) < Code(w[k + 1])
Uniquified(words) ==
    Spaced(FoldLeft(LAMBDA u, w : IF u # <<>> /\ Last(u) = w THEN u ELSE Append(u, w), <<>>, words))
func_sort(a) == Uniquified(SortSeq(Tokens(a[1]), Earlier))

(***************************************************************************)
(* Numbers compared as texts.  parse_textint: n.ok, the sign and the       *)
(* digits without the zeros at the front.                                  *)
(***************************************************************************)
Digested(digits, negative) ==
    [ok |-> IsNumeral(digits),
     digits |-> SubSeq(digits, FirstFrom(digits, 1, LAMBDA c : c # "0"), Len(digits)),
     sign |-> IF FirstFrom(digits, 1, LAMBDA c : c # "0") > Len(digits) THEN 0
              ELSE IF negative THEN -1 ELSE 1]
parse_textint(t) ==
    IF t # <<>> /\ t[1] \in {"-", "+"} THEN Digested(Tail(t), t[1] = "-") ELSE Digested(t, FALSE)

\* less than, equal to or greater than 0; the sign is not looked at again
intcmp(l, r) ==
    IF l.sign # r.sign THEN l.sign - r.sign
    ELSE IF Len(l.digits) # Len(r.digits) THEN Len(l.digits) - Len(r.digits)
    ELSE IF l.digits = r.digits THEN 0 ELSE IF Earlier(l.digits, r.digits) THEN -1 ELSE 1

\* what there is for two arguments
EqualNumber(l) ==
    (IF l.sign < 0 THEN <<"-">> ELSE <<>>) \o (IF l.sign = 0 THEN <<"0">> ELSE l.digits)

(***************************************************************************)
(* The table: a are the arguments, expanded                                *)
(***************************************************************************)
expand_builtin_function(name, a) ==
    CASE name = "word" -> func_word(a)
      [] name = "wordlist" -> func_wordlist(a)
      [] name = "subst" -> Yields(subst_expand(a[3], a[1], a[2], FALSE))
      [] name = "patsubst" -> Yields(patsubst_expand(a[3], a[1], a[2]))
      [] name = "firstword" -> Yields(func_firstword(a))
      [] name = "lastword" -> Yields(func_lastword(a))
      [] name = "words" -> Yields(func_words(a))
      [] name = "join" -> Yields(func_join(a))
      [] name = "findstring" -> Yields(func_findstring(a))
      [] name = "strip" -> Yields(func_strip(a))
      [] name \in {"notdir", "suffix"} -> Yields(func_notdir_suffix(name, a))
      [] name \in {"dir", "basename"} -> Yields(func_basename_dir(name, a))
      [] name \in {"addprefix", "addsuffix"} -> Yields(func_addsuffix_addprefix(name, a))
      [] name = "abspath" -> Yields(func_abspath(a))
      [] name \in {"filter", "filter-out"} -> Yields(func_filter_filterout(name, a))
      [] name = "sort" -> Yields(func_sort(a))
      [] name = "error" -> Dies
      [] name \in {"warning", "info"} -> Yields(<<>>)
================================================================================
