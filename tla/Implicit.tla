------------------------------ MODULE Implicit ------------------------------
(***************************************************************************)
(* Implicit rules of GNU Make: the chain of pattern rules (rule.c) and the *)
(* search for a rule that can make a file (implicit.c: pattern_search).    *)
(*                                                                         *)
(* A name is a sequence of tokens, each standing for one character, "/"    *)
(* among them.  The makefile's pattern and suffix rules are put on the     *)
(* chain, then files are searched for, one at a time and in any order, as  *)
(* the walk happens to ask, while recipes change the disk.  A search       *)
(* recurses for prerequisites that do not exist; what it leaves behind for *)
(* the next one is the data base of files, in st.files, and what is known  *)
(* of directories, in st.cache, the names ruled impossible among it.       *)
(*                                                                         *)
(* Left out: second expansion of prerequisites, wildcards, archive         *)
(* members, .EXTRA_PREREQS and file variables.  The module is recursive    *)
(* and for TLC only.                                                       *)
(***************************************************************************)
EXTENDS Directories

CONSTANT Worlds  \* the makefiles to consider, each with definitions, suffix rules,
                 \* vpath directives, disk, names mentioned, and what each recipe
                 \* adds to the disk and removes

VARIABLES world,      \* the one chosen
          todo,       \* definitions not read yet
          directives, \* vpath directives not read yet
          vpaths,     \* the chain of search paths
          rules,      \* pattern_rules
          st,         \* what searches read and leave behind
          found,      \* for each name searched, the rule and its target found
          phase,      \* "read" then "search"
          begun,      \* recipes that have changed the disk
          ended       \* those that have been reaped

vars == <<world, todo, directives, vpaths, rules, st, found, phase, begun, ended>>

(***************************************************************************)
(* Names and patterns                                                      *)
(***************************************************************************)
LastSlash(n) ==        \* a slash at the end does not count
    LET at == {i \in 1 .. (Len(n) - 1) : n[i] = "/"}
    IN IF at = {} THEN 0 ELSE CHOOSE i \in at : \A j \in at : j <= i
Dir(n) == SubSeq(n, 1, LastSlash(n))
Base(n) == SubSeq(n, LastSlash(n) + 1, Len(n))

HasSlash(p) == "/" \in Range(p.pre) \cup Range(p.suf)
MatchAnything(p) == p.pre = <<>> /\ p.suf = <<>>

\* check_lastslash: the directory of the name is set aside for a pattern
\* that has none
Checked(n, p) == LastSlash(n) # 0 /\ ~HasSlash(p)

\* The text the pattern is compared with, and how long the stem would be.
\* The length is checked before the directory is taken off.
Text(n, p) == IF Checked(n, p) THEN Base(n) ELSE n

Matches(n, p) ==
    LET t == Text(n, p)
        fixed == Len(p.pre) + Len(p.suf)
    IN /\ fixed + 1 <= Len(n)
       /\ fixed <= Len(t)
       /\ IsPrefix(p.pre, t) /\ IsSuffix(p.suf, t)

Stem(n, p) == LET t == Text(n, p)
              IN SubSeq(t, Len(p.pre) + 1, Len(t) - Len(p.suf))

\* the stem as $* has it, with the directory put back
FullStem(n, p) == (IF Checked(n, p) THEN Dir(n) ELSE <<>>) \o Stem(n, p)

DepName(n, p, d) ==
    IF ~d.percent THEN d.pre
    ELSE (IF Checked(n, p) THEN Dir(n) ELSE <<>>)
           \o d.pre \o Stem(n, p) \o d.suf

(***************************************************************************)
(* rule.c: the chain                                                       *)
(***************************************************************************)
DepsEqual(r, q) ==
    /\ Len(r.deps) = Len(q.deps)
    /\ \A i \in DOMAIN r.deps : r.deps[i] = q.deps[i]

\* new_pattern_rule's test: some target of the new rule is every target of
\* the old one
Duplicates(r, q) ==
    /\ \E i \in DOMAIN r.targets :
         \A j \in DOMAIN q.targets : r.targets[i] = q.targets[j]
    /\ DepsEqual(r, q)

NewPatternRule(chain, r, override) ==
    LET dup == {i \in DOMAIN chain : Duplicates(r, chain[i])}
        first == CHOOSE i \in dup : \A j \in dup : i <= j
    IN IF dup = {} THEN Append(chain, r)
       ELSE IF override THEN Append(RemoveAt(chain, first), r)
       ELSE chain

\* convert_suffix_rule
SuffixRule(target, source, cmds) ==
    [targets |-> <<[pre |-> <<>>, suf |-> target]>>,
     deps |-> IF source = <<>> THEN <<>>
              ELSE <<[pre |-> <<>>, suf |-> source[1], percent |-> TRUE,
                      oo |-> FALSE]>>,
     cmds |-> cmds, terminal |-> FALSE]

\* convert_to_pattern: for each suffix the rule that only disqualifies
\* match-anything rules, the one-suffix rule and every two-suffix rule there
\* is.  w.suffixes is a sequence; w.one and w.two give a recipe or 0.
ConvertToPattern(chain, w) ==
    LET S == w.suffixes
        two(i) == SelectSeq([j \in DOMAIN S |->
                               SuffixRule(S[j], <<S[i]>>, w.two[<<i, j>>])],
                            LAMBDA r : r.cmds # 0)
        of(i) == <<SuffixRule(S[i], <<>>, 0)>>
                 \o (IF w.one[i] = 0 THEN <<>>
                     ELSE <<SuffixRule(<<>>, <<S[i]>>, w.one[i])>>)
                 \o two(i)
        all == FoldLeft(LAMBDA acc, i : acc \o of(i), <<>>,
                        [i \in DOMAIN S |-> i])
    IN FoldLeft(LAMBDA acc, r : NewPatternRule(acc, r, FALSE), chain, all)

(***************************************************************************)
(* The data base of files, as far as the search needs it                   *)
(***************************************************************************)
NewFile == [target |-> FALSE, explicit |-> FALSE, inter |-> FALSE,
            notinter |-> FALSE, tried |-> FALSE, deps |-> <<>>, cmds |-> 0,
            stem |-> <<>>, also |-> {}]

Known(s, n) == n \in DOMAIN s.files
FileOf(s, n) == IF Known(s, n) THEN s.files[n] ELSE NewFile
Put(s, n, f) == [s EXCEPT !.files = Replaced(@, n, f)]
EnterFile(s, n) == IF Known(s, n) THEN s ELSE Put(s, n, NewFile)

(***************************************************************************)
(* pattern_search, first part: the rules worth trying, shortest stem first *)
(***************************************************************************)
Candidates(n, recursing, used) ==
    {<<i, t>> \in (DOMAIN rules) \X (1 .. 3) :
       /\ t \in DOMAIN rules[i].targets
       /\ ~(rules[i].deps # <<>> /\ rules[i].cmds = 0)   \* cancelled
       /\ i \notin used                                  \* in_use
       /\ ~(recursing /\ MatchAnything(rules[i].targets[t])
                      /\ ~rules[i].terminal)
       /\ Matches(n, rules[i].targets[t])}

StemLen(n, c) == Len(FullStem(n, rules[c[1]].targets[c[2]]))

TryRules(n, recursing, used) ==
    LET all == Candidates(n, recursing, used)
        specific == \E c \in all : ~MatchAnything(rules[c[1]].targets[c[2]])
        usable == {c \in all :
            LET r == rules[c[1]] IN
            /\ ~(r.deps = <<>> /\ r.cmds = 0)
            /\ ~(/\ specific /\ ~r.terminal
                 /\ \E j \in DOMAIN r.targets :
                      MatchAnything(r.targets[j]))}
    IN SetToSortSeq(usable,
         LAMBDA c, d : \/ StemLen(n, c) < StemLen(n, d)
                       \/ /\ StemLen(n, c) = StemLen(n, d)
                          /\ c[1] < d[1] \/ (c[1] = d[1] /\ c[2] < d[2]))

(***************************************************************************)
(* pattern_search, second part: trying them                                *)
(***************************************************************************)
\* a prerequisite that counts whether it exists or not: a target, or a
\* prerequisite of the file itself
Explicit(s, f, d) ==
    \/ FileOf(s, d).target
    \/ \E i \in DOMAIN f.deps : f.deps[i].name = d

Targets(s) == {n \in DOMAIN s.files : s.files[n].target}

\* mentioned by this rule, or by another
Mentions(s, d, nm) == ~d.percent \/ FileOf(s, nm).explicit

Pat(s, d, nm, file, at) ==
    [name |-> nm, oo |-> d.oo, explicit |-> Mentions(s, d, nm), file |-> file, pattern |-> at]

None == [ok |-> FALSE]

\* c is [f, n, used, compat, pass]; r is [s, pats, ok, kill, compat].
\* Call[<<"TryDeps", c, cand, j, r>>] and so on: what calls each other.
RECURSIVE Call

\* the prerequisite nm of the candidate counts, as p
Take(c, cand, j, r, p) == Call[<<"TryDeps", c, cand, j + 1, [r EXCEPT !.pats = Append(@, p)]>>]
TakeAsIs(c, cand, j, r, d, nm) == Take(c, cand, j, r, Pat(r.s, d, nm, None, <<>>))

\* q is what the search for nm returned; the name is ruled impossible
\* unless some rule mentions it
Searched(c, cand, j, r, d, nm, q) ==
    IF q.ok THEN Take(c, cand, j, [r EXCEPT !.s = q.s], Pat(r.s, d, nm, q.f, q.cand))
    ELSE [r EXCEPT !.ok = FALSE,
                   !.s = IF Known(r.s, nm) THEN q.s
                         ELSE [q.s EXCEPT !.cache = FileImpossible(@, nm)]]

\* nm is not where it should be; v is what a search along the paths found
Elsewhere(c, cand, j, r, d, nm, v) ==
    LET r1 == [r EXCEPT !.s.cache = v.c, !.compat = @ \/ Known(r.s, nm)]
    IN IF v.name # <<>> THEN TakeAsIs(c, cand, j, r1, d, nm)
       ELSE IF c.pass = 0 THEN [r1 EXCEPT !.ok = FALSE]
       ELSE Searched(c, cand, j, r1, d, nm,
                     Call[<<"Search", r1.s, NewFile, nm, TRUE, c.used \cup {cand[1]}, c.compat>>])

\* e is what file_exists_p said of nm
There(c, cand, j, r, d, nm, e) ==
    LET r1 == [r EXCEPT !.s.cache = e.c]
    IN IF e.yes \/ (Known(r.s, nm) /\ c.compat) THEN TakeAsIs(c, cand, j, r1, d, nm)
       ELSE Elsewhere(c, cand, j, r1, d, nm,
                      VpathSearch(e.c, vpaths, DOMAIN r.s.files, Targets(r.s), nm))

Wanted(c, cand, j, r, d, nm) ==
    IF Explicit(r.s, c.f, nm) THEN TakeAsIs(c, cand, j, r, d, nm)
    ELSE There(c, cand, j, r, d, nm, FileExistsP(r.s.cache, nm))

MarkIntermediate(s, d, nm) ==
    IF Known(s, nm) /\ ~Mentions(s, d, nm) THEN [s EXCEPT !.files[nm].inter = TRUE] ELSE s

\* i is what file_impossible_p said of nm
Possible(c, cand, j, r, d, nm, i) ==
    LET s == [r.s EXCEPT !.cache = i.c]
    IN IF i.yes THEN [r EXCEPT !.s = s, !.ok = FALSE, !.kill = TRUE]
       ELSE Wanted(c, cand, j, [r EXCEPT !.s = MarkIntermediate(s, d, nm)], d, nm)

TryDep(c, cand, j, r, d, nm) ==
    Possible(c, cand, j, r, d, nm, FileImpossibleP(r.s.cache, nm))

TryDeps(c, cand, j, r) ==
    LET rule == rules[cand[1]]
    IN IF j > Len(rule.deps) \/ ~r.ok THEN r
       ELSE TryDep(c, cand, j, r, rule.deps[j],
                   DepName(c.n, rule.targets[cand[2]], rule.deps[j]))

Tried(c, tries, k, out, t) ==
    IF t.ok THEN t @@ [k |-> k, out |-> out]
    ELSE Call[<<"TryFrom", c, tries, k + 1, IF t.kill THEN out \cup {k} ELSE out, t>>]

\* the rules from the k-th on; out is those ruled out for good
TryFrom(c, tries, k, out, r) ==
    IF k > Len(tries) THEN [r EXCEPT !.ok = FALSE] @@ [k |-> 0, out |-> out]
    ELSE IF k \in out \/ (c.pass = 1 /\ rules[tries[k][1]].terminal)
    THEN Call[<<"TryFrom", c, tries, k + 1, out, r>>]
    ELSE Tried(c, tries, k, out,
               Call[<<"TryDeps", c, tries[k], 1,
                      [r EXCEPT !.pats = <<>>, !.ok = TRUE, !.kill = FALSE]>>])

\* an intermediate file becomes the target of the rule found for it
Made(g, p) ==
    [g EXCEPT !.deps = p.file.deps, !.cmds = p.file.cmds,
              !.stem = p.file.stem, !.also = p.file.also,
              !.target = TRUE, !.tried = TRUE,
              !.explicit = @ \/ p.explicit,
              !.inter = @ \/ ~(g.explicit \/ p.explicit \/ g.notinter)]

Enter(s, p, recursing, terminal) ==
    LET s1 == IF ~p.file.ok THEN s
              ELSE FoldLeft(EnterFile, Put(s, p.name, Made(FileOf(s, p.name), p)),
                            [i \in DOMAIN p.file.deps |-> p.file.deps[i].name])
        s2 == IF recursing THEN s1 ELSE EnterFile(s1, p.name)
    IN IF ~p.file.ok /\ terminal /\ ~recursing
       THEN Put(s2, p.name, [FileOf(s2, p.name) EXCEPT !.tried = TRUE])
       ELSE s2

DepsFrom(pats, f) ==
    [f EXCEPT !.deps = [i \in DOMAIN pats |-> [name |-> pats[i].name, oo |-> pats[i].oo]] \o @]

Chain_NotEntered(s, f, pats, recursing, terminal) ==
    [s |-> s, f |-> DepsFrom(pats, f)]  \* (mutant) no intermediate file is entered

\* third part: the prerequisites of the rule found, last one first, put in
\* front of those the file has; intermediate files become targets
Chain(s, f, pats, recursing, terminal) ==
    [s |-> FoldLeft(LAMBDA t, p : Enter(t, p, recursing, terminal), s, Reverse(pats)),
     f |-> DepsFrom(pats, f)]

PeerName(rule, i, stem) ==
    rule.targets[i].pre \o stem \o rule.targets[i].suf

EnterTarget(s, p) == Put(EnterFile(s, p), p, [FileOf(s, p) EXCEPT !.target = TRUE])

\* the rule of cand is the file's: ch is what Chain has entered
Chosen(ch, cand, rule, stem) ==
    LET peers == {PeerName(rule, i, stem) : i \in DOMAIN rule.targets \ {cand[2]}}
    IN [ok |-> TRUE, cand |-> cand, s |-> FoldLeft(EnterTarget, ch.s, SetToSeq(peers)),
        f |-> [ok |-> TRUE] @@ [ch.f EXCEPT !.cmds = rule.cmds, !.target = TRUE,
                                            !.stem = stem, !.also = peers]]

Context(f, n, used, compat, pass) ==
    [f |-> f, n |-> n, used |-> used, compat |-> compat, pass |-> pass]
Begun(s, compat) == [s |-> s, pats |-> <<>>, ok |-> FALSE, kill |-> FALSE, compat |-> compat]

Found(f, n, recursing, tries, t) ==
    LET cand == tries[t.k]
        rule == rules[cand[1]]
    IN Chosen(Chain(t.s, IF recursing \/ ~Known(t.s, n) THEN f ELSE t.s.files[n],
                    t.pats, recursing, rule.terminal),
              cand, rule, FullStem(n, rule.targets[cand[2]]))

\* after both passes: once more with compatibility rules, if a file was in their way
SecondPass(f, n, recursing, used, compat, tries, t) ==
    IF t.ok THEN Found(f, n, recursing, tries, t)
    ELSE IF t.compat /\ ~compat THEN Call[<<"Search", t.s, f, n, recursing, used, TRUE>>]
    ELSE [ok |-> FALSE, s |-> t.s]

FirstPass_Only(f, n, recursing, used, compat, tries, t) ==  \* (mutant) no second pass
    IF t.ok THEN Found(f, n, recursing, tries, t) ELSE [ok |-> FALSE, s |-> t.s]

FirstPass(f, n, recursing, used, compat, tries, t) ==
    SecondPass(f, n, recursing, used, compat, tries,
               IF t.ok THEN t
               ELSE Call[<<"TryFrom", Context(f, n, used, compat, 1), tries, 1, t.out,
                           Begun(t.s, t.compat)>>])

Search(s, f, n, recursing, used, compat) ==
    LET tries == TryRules(n, recursing, used)
    IN IF tries = <<>> THEN [ok |-> FALSE, s |-> s]
       ELSE FirstPass(f, n, recursing, used, compat, tries,
                      Call[<<"TryFrom", Context(f, n, used, compat, 0), tries, 1, {},
                             Begun(s, FALSE)>>])

Call == [c \in Any |->
    CASE c[1] = "Search" -> Search(c[2], c[3], c[4], c[5], c[6], c[7])
      [] c[1] = "TryFrom" -> TryFrom(c[2], c[3], c[4], c[5], c[6])
      [] c[1] = "TryDeps" -> TryDeps(c[2], c[3], c[4], c[5])]

(***************************************************************************)
(* Reading the makefile, then searching                                    *)
(***************************************************************************)
Mentioned(w) == [n \in w.explicit \cup w.goals |->
                   [NewFile EXCEPT !.explicit = n \in w.explicit]]

Init == /\ world \in Worlds
        /\ todo = world.define
        /\ directives = world.vpath
        /\ vpaths = <<>>
        /\ rules = <<>>
        /\ st = [files |-> Mentioned(world),
                 cache |-> NoCache(world.disk, world.fs)]
        /\ found = << >>
        /\ phase = "read"
        /\ begun = {} /\ ended = {}

\* create_pattern_rule for the next pattern rule of the makefile
Define == /\ phase = "read" /\ todo # <<>>
          /\ rules' = NewPatternRule(rules, Head(todo), TRUE)
          /\ todo' = Tail(todo)
          /\ UNCHANGED <<world, directives, vpaths, st, found, phase, begun, ended>>

\* the next vpath directive of the makefile
Directive == /\ phase = "read" /\ todo = <<>> /\ directives # <<>>
             /\ vpaths' = ConstructVpathList(vpaths, Head(directives))
             /\ st' = [st EXCEPT !.cache = Entered(@, Head(directives))]
             /\ directives' = Tail(directives)
             /\ UNCHANGED <<world, todo, rules, found, phase, begun, ended>>

\* install_default_implicit_rules: a built-in rule overrides nothing
WithBuiltIn(chain) ==
    FoldLeft(LAMBDA acc, r : NewPatternRule(acc, r, FALSE), chain,
             world.builtin)

\* snap_implicit_rules looks whether the directories of prerequisites exist
Snapped(c, chain) ==
    FoldLeft(LAMBDA a, d : IF d.percent /\ Slash(d.pre) > 1
                           THEN DirFileExistsP(a, Directory(d.pre), <<>>).c ELSE a,
             c, FoldLeft(LAMBDA ds, r : ds \o r.deps, <<>>, chain))

\* once the makefiles are read: suffix rules first, then the built-in rules,
\* then the search paths
Convert == /\ phase = "read" /\ todo = <<>> /\ directives = <<>>
           /\ rules' = WithBuiltIn(ConvertToPattern(rules, world))
           /\ st' = [st EXCEPT !.cache =
                        Entered(Snapped(@, rules'), General(world.general))]
           /\ vpaths' = BuildVpathLists(vpaths, world.general)
           /\ phase' = "search"
           /\ UNCHANGED <<world, todo, directives, found, begun, ended>>

NotFound == <<0, 0>>

\* what the search for n has found becomes the file's
Remembered(q, n) ==
    Put(q.s, n, IF ~q.ok THEN [FileOf(q.s, n) EXCEPT !.tried = TRUE]
                ELSE [FileOf(q.s, n) EXCEPT
                        !.deps = q.f.deps, !.cmds = q.f.cmds, !.stem = q.f.stem,
                        !.also = q.f.also, !.target = TRUE, !.tried = TRUE])

\* try_implicit_rule for a file that has no recipe
TryImplicitRule(n) ==
    /\ phase = "search"
    /\ n \notin DOMAIN found
    /\ ~FileOf(st, n).tried /\ FileOf(st, n).cmds = 0
    /\ LET q == Search(st, FileOf(st, n), n, FALSE, {}, FALSE)
       IN /\ st' = Remembered(q, n)
          /\ found' = (n :> IF q.ok THEN q.cand ELSE NotFound) @@ found
    /\ UNCHANGED <<world, todo, directives, vpaths, rules, phase, begun, ended>>

Recipe(k) == world.recipes[k]

\* a recipe changes the disk, and make does not know yet
Write(k) == /\ phase = "search" /\ k \notin begun
            /\ begun' = begun \cup {k}
            /\ st' = [st EXCEPT !.cache.disk = (@ \ Recipe(k).removes) \cup Recipe(k).adds]
            /\ UNCHANGED <<world, todo, directives, vpaths, rules, found, phase, ended>>

\* reap_children: some child finished
Reap(k) == /\ k \in begun \ ended
           /\ ended' = ended \cup {k}
           /\ st' = [st EXCEPT !.cache.count = @ + 1]
           /\ UNCHANGED <<world, todo, directives, vpaths, rules, found, phase, begun>>

Next == \/ Define \/ Directive \/ Convert
        \/ \E n \in world.goals : TryImplicitRule(n)
        \/ \E k \in DOMAIN world.recipes : Write(k) \/ Reap(k)

Spec == Init /\ [][Next]_vars

-----------------------------------------------------------------------------
\* Nothing has been written that make was not told of
Settled == begun = ended

\* there, where make can read the directory
OnDisk(n) == Stat(st.cache, n) /\ Real(st.cache, Directory(n)) \notin st.cache.fs.unreadable

\* What the directives say: one is in force unless a later one removes its
\* pattern or all; they are followed in order, and VPATH after them.
InForce(k) ==
    LET V == world.vpath
    IN /\ V[k].dirs # <<>>
       /\ ~ \E m \in (k + 1) .. Len(V) : V[m].dirs = <<>> /\ V[m].pattern \in {<<>>, V[k].pattern}
Places(n) ==
    LET V == world.vpath
        for(k) == IF InForce(k) /\ PatternMatches(V[k].pattern[1], n) THEN V[k].dirs[1] ELSE <<>>
    IN FlattenSeq([k \in DOMAIN V |-> for(k)]) \o world.general

\* the name a search along the paths should find: the first that exists or
\* is mentioned (as a target, if n is one), "." aside
PathNames(n) ==
    LET ds == Places(n)
    IN [i \in DOMAIN ds |-> (IF Last(ds[i]) = "/" THEN ds[i] ELSE ds[i] \o <<"/">>) \o n]
OnPath(n) ==
    LET names == SelectSeq(PathNames(n), LAMBDA m :
            /\ m # <<".", "/">> \o n
            /\ OnDisk(m) \/ (Known(st, m) /\ (FileOf(st, m).target \/ ~FileOf(st, n).target)))
    IN IF names = <<>> THEN <<>> ELSE names[1]

IsThere(f, d, compat) ==
    Explicit(st, f, d) \/ OnDisk(d) \/ (Known(st, d) /\ compat) \/ OnPath(d) # <<>>

\* What a search is for: a rule can make n if each of its prerequisites is
\* there, or is mentioned, or can itself be made by rules not used on the way.
RECURSIVE Derivable(_, _, _, _)
Derivable(f, n, recursing, used) ==
    \E k \in DOMAIN TryRules(n, recursing, used) :
        LET cand == TryRules(n, recursing, used)[k]
            rule == rules[cand[1]]
        IN \A j \in DOMAIN rule.deps :
             LET nm == DepName(n, rule.targets[cand[2]], rule.deps[j])
             IN \/ IsThere(f, nm, TRUE)
                \/ /\ ~rule.terminal
                   /\ Derivable(NewFile, nm, TRUE, used \cup {cand[1]})

SearchAgrees(n) ==
    found'[n] # NotFound <=> Derivable(FileOf(st, n), n, FALSE, {})

\* rule i may be followed by rule j in a chain of intermediate files
Leads(i, j) ==
    \E d \in DOMAIN rules[i].deps, t \in DOMAIN rules[j].targets :
        LET a == rules[i].deps[d].suf  b == rules[j].targets[t].suf
        IN a = b \/ a = <<>> \/ b = <<>>
RECURSIVE After(_, _)
After(is, k) ==
    IF k = 0 THEN is
    ELSE After(is \cup {j \in DOMAIN rules : \E i \in is : Leads(i, j)}, k - 1)
NoLoops ==
    \A i \in DOMAIN rules :
        i \notin After({j \in DOMAIN rules : Leads(i, j)}, Len(rules))

\* A search finds a rule only if one can make the file, and if no chain of
\* rules leads back to a rule, it finds one whenever there is one: whatever
\* was searched for before, has been ruled impossible since and made after
\* all, with the disk as it is, once the recipes that changed it are reaped.
SearchExact ==
    [][\A n \in world.goals :
         TryImplicitRule(n) /\ Settled =>
           IF NoLoops THEN SearchAgrees(n)
           ELSE found'[n] # NotFound =>
                  Derivable(FileOf(st, n), n, FALSE, {})]_vars

\* the rules whose prerequisites are all there without any chaining
Direct(n) ==
    {c \in Range(TryRules(n, FALSE, {})) :
       \A j \in DOMAIN rules[c[1]].deps :
         IsThere(FileOf(st, n),
            DepName(n, rules[c[1]].targets[c[2]], rules[c[1]].deps[j]),
            FALSE)}

\* A rule whose prerequisites are all there wins over one that needs
\* intermediate files, and of those the one with the shortest stem, then the
\* first defined.
DirectFirst ==
    [][\A n \in world.goals :
         TryImplicitRule(n) /\ Settled /\ Direct(n) # {} =>
           /\ found'[n] \in Direct(n)
           /\ \A c \in Direct(n) :
                \/ StemLen(n, found'[n]) < StemLen(n, c)
                \/ /\ StemLen(n, found'[n]) = StemLen(n, c)
                   /\ found'[n][1] <= c[1]]_vars

\* Every prerequisite a search leaves behind, for the file or for one on the
\* way to it, can be had: it is there, was known before, or is a target by now.
Obtainable(d) ==
    OnDisk(d) \/ OnPath(d) # <<>> \/ Known(st, d)
PrerequisitesObtainable ==
    [][\A g \in world.goals : TryImplicitRule(g) /\ Settled =>
         \A n \in DOMAIN st'.files :
           st'.files[n].cmds # 0 /\ FileOf(st, n).cmds = 0 =>
             \A i \in DOMAIN st'.files[n].deps :
               LET d == st'.files[n].deps[i].name
               IN Obtainable(d) \/ FileOf(st', d).target]_vars

\* Of the rules with one and the same target and the same prerequisites one is
\* kept: the makefile's last; a suffix rule or a built-in one only when the
\* makefile has none.
LaterRuleWins ==
    [][Convert =>
        \A k \in DOMAIN world.define :
            LET r == world.define[k]
                same(q) == q.targets = r.targets /\ DepsEqual(q, r)
                last == \A m \in (k + 1) .. Len(world.define) :
                          ~same(world.define[m])
            IN Len(r.targets) = 1 =>
                 /\ Cardinality({i \in DOMAIN rules' : same(rules'[i])}) = 1
                 /\ last => r \in Range(rules')]_vars

\* A search finds a rule when it should, the one it should, among the rules
\* that the makefile leaves.
SearchRight == SearchExact /\ DirectFirst /\ LaterRuleWins

\* What a search would be told now, and the streams counted
CacheTrue ==
    \A n \in world.names : FileExistsP(st.cache, n).yes <=> OnDisk(n)
PathsRight ==
    \A n \in world.names :
        VpathSearch(st.cache, vpaths, DOMAIN st.files, Targets(st), n).name = OnPath(n)
StreamsCounted ==
    /\ st.cache.open = Cardinality({d \in DOMAIN st.cache.contents : st.cache.contents[d].stream})
    /\ st.cache.open < MaxOpen

\* Once every recipe that changed the disk is reaped, make believes a file
\* exists exactly when it does, under every name of its directory, whatever was
\* read, left half read or ruled impossible before; a name is found along the
\* search paths as the directives say; and no stream is lost or one too many.
FilesFound ==
    /\ phase = "search" /\ Settled => CacheTrue /\ PathsRight
    /\ StreamsCounted
=============================================================================
