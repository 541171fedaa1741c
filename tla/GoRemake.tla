------------------------------ MODULE GoRemake ------------------------------
(***************************************************************************)
(* The Go port's update walk: pkg/remake/remake.go with                    *)
(* ExecuteFileCommands of pkg/commands and the exit status of              *)
(* cmd/gmake/main.go.                                                      *)
(*                                                                         *)
(* The port runs each recipe to its end where C make would start a job, so *)
(* no file is ever seen with a recipe under way and the walk is a          *)
(* computation: an action is one goal of the chain, and the walk below it  *)
(* is the recursive operators UpdateFile, DepLoop and CheckDep over a      *)
(* record s of everything the walk reads and writes.  What waits for       *)
(* running jobs in the source (CmdDepsRunning, .WAIT) is never reached and *)
(* left out, and so are double-colon rules, second expansion, vpath and    *)
(* .LOW_RESOLUTION_TIME.  This module is for TLC only: it is recursive.    *)
(***************************************************************************)
EXTENDS Naturals, Sequences, FiniteSets, SequencesExt

CONSTANTS Files,      \* the names in the makefile
          Worlds,     \* identifiers of the makefiles and disks to consider
          World(_),   \* what an identifier stands for
          MaxRuns     \* how many times make is run

NoStatus == 0  Success == 1  Question == 2  Failed == 3      \* UpdateStatus
Unknown == 0  Nonexistent == 1  OldMtime == 2  NewMtime == 99 \* FileTimestamp

VARIABLES world,      \* the identifier chosen
          s,          \* what the walk reads and writes
          todo,       \* goals still to be considered
          status,     \* UpdateGoalChain's status
          exit,       \* exit status, "none" while make runs
          runs        \* which run of make this is

vars == <<world, s, todo, status, exit, runs>>

Flag(x) == x \in World(world).flags

(***************************************************************************)
(* ChopCommands: a recipe is a sequence of lines, and of a line only its   *)
(* flags and whether its command succeeds are kept.                        *)
(***************************************************************************)
LinesOf(f) == World(world).recipe[f]
Recur(line) == line \in {"make"}
NoError(line) == line \in {"ignored"}
Fails(line) == line \in {"fails", "ignored"}
AnyRecurse(f) == \E i \in DOMAIN LinesOf(f) : Recur(LinesOf(f)[i])
AllRecurse(f) == \A i \in DOMAIN LinesOf(f) : Recur(LinesOf(f)[i])

\* complain: without -k the message is the last thing the process does
Complain(st) == IF Flag("k") THEN st ELSE [st EXCEPT !.dead = TRUE]

\* SetCommandState: a peer only ever moves forward
SetCommandState(st, f, c) ==
    [st EXCEPT !.cs = [g \in Files |->
        IF g = f THEN c
        ELSE IF g \in st.also[f] /\ c > st.cs[g] THEN c ELSE st.cs[g]]]

NotStarted == 0  Running == 2  Finished == 3                  \* CmdState

\* fMtime: what the disk says; an intermediate that is there is none
FMtime(st, f) ==
    LET m == st.disk[f] IN
    [st EXCEPT !.mt[f] = m,
               !.inter = IF m # Nonexistent /\ st.cs[f] = NotStarted
                             /\ f \notin st.tried
                         THEN @ \ {f} ELSE @]

\* TryImplicitRule, as far as the walk sees it: it gives the file the
\* recipe, the prerequisites and the peers its world has for it
TryImplicit(st, f) ==
    IF f \in World(world).phony \cup st.cmds \cup st.tried THEN st
    ELSE LET w == World(world)
             found == f \in w.implicit
         IN [st EXCEPT !.tried = @ \cup {f},
                       !.cmds = IF found THEN @ \cup {f} ELSE @,
                       !.target = IF found THEN @ \cup {f} \cup w.peers[f]
                                  ELSE @,
                       !.deps[f] = IF found THEN w.found[f] \o @ ELSE @,
                       !.also[f] = IF found THEN w.peers[f] ELSE @]

(***************************************************************************)
(* ExecuteFileCommands: the lines one after the other until one fails;     *)
(* each writes the targets.  Neither -n nor -q is looked at.               *)
(***************************************************************************)
Failing(f) == {i \in DOMAIN LinesOf(f) : Fails(LinesOf(f)[i]) /\ ~NoError(LinesOf(f)[i])}
LinesRun(f) == IF Failing(f) = {} THEN Len(LinesOf(f))
               ELSE (CHOOSE i \in Failing(f) : \A j \in Failing(f) : i <= j) - 1
Written(f) == \E i \in 1 .. LinesRun(f) : ~Fails(LinesOf(f)[i])

ExecuteFileCommands(st, f) ==
    [IF Failing(f) # {} THEN st ELSE SetCommandState(st, f, Running) EXCEPT
        !.us[f] = IF Failing(f) # {} THEN Failed ELSE Success,
        !.started = @ + LinesRun(f),
        !.log = IF LinesOf(f) = <<>> THEN @ ELSE Append(@, <<f, Failing(f) = {}>>),
        !.clock = IF Written(f) THEN @ + 1 ELSE @,
        !.disk = [g \in Files |->
                    IF Written(f) /\ f \notin World(world).phony /\ g \in {f} \cup st.also[f]
                    THEN st.clock + 1 ELSE @[g]]]

\* touchFile: reads a byte and writes it back; an empty file has none
TouchFile(st, f) ==
    IF Flag("n") THEN [st EXCEPT !.us[f] = Success]
    ELSE IF st.disk[f] = Nonexistent \/ f \in st.empty
    THEN [st EXCEPT !.us[f] = Failed, !.empty = @ \cup {f},
                    !.disk[f] = IF @ = Nonexistent THEN st.clock + 1 ELSE @,
                    !.clock = IF st.disk[f] = Nonexistent THEN @ + 1 ELSE @]
    ELSE [st EXCEPT !.us[f] = Success, !.disk[f] = st.clock + 1,
                    !.clock = @ + 1]

(***************************************************************************)
(* noticeFinishedFile                                                      *)
(***************************************************************************)
Touching(st, f) ==
    /\ Flag("t") /\ st.us[f] = Success
    /\ f \in st.cmds /\ f \notin World(world).phony
    /\ ~(AnyRecurse(f) /\ AllRecurse(f))

NewTime(st, f) ==
    IF Flag("q") \/ Flag("n") \/ Flag("t")
    THEN IF f \in st.cmds /\ ~AllRecurse(f) THEN NewMtime ELSE Unknown
    ELSE IF f \in st.target \ st.cmds THEN NewMtime ELSE Unknown

Touched(st, f) ==
    IF Touching(st, f) THEN [TouchFile(st, f) EXCEPT !.started = @ + 1] ELSE st

Timed(st, f, timed) ==
    [st EXCEPT !.before[f] = IF @ = Unknown THEN st.mt[f] ELSE @,
               !.mt[f] = IF timed THEN NewTime(st, f) ELSE @]

\* what the file's peers are told, when its recipe ran
TellPeers(st, f, ran) ==
    IF ran /\ st.us[f] # NoStatus
    THEN [st EXCEPT
            !.cs = [g \in Files |-> IF g \in st.also[f] THEN Finished ELSE @[g]],
            !.upd = @ \cup st.also[f],
            !.us = [g \in Files |-> IF g \in st.also[f] THEN st.us[f] ELSE @[g]],
            !.mt = [g \in Files |-> IF g \in st.also[f] \ World(world).phony
                                     THEN st.disk[g] ELSE @[g]]]
    ELSE [st EXCEPT !.us[f] = IF @ = NoStatus THEN Success ELSE @]

NoticeFinishedFile(st, f) ==
    LET ran == st.cs[f] = Running
    IN TellPeers(Timed(Touched([st EXCEPT !.cs[f] = Finished, !.upd = @ \cup {f}], f), f,
                       (ran /\ f \notin World(world).phony) \/ Touching(st, f)),
                 f, ran)

\* the recipe, if there is one and it is not to be touched instead
Execute(st, f) ==
    IF f \notin st.cmds
    THEN IF f \in World(world).phony \cup st.target THEN [st EXCEPT !.us[f] = Success]
         ELSE [Complain(st) EXCEPT !.us[f] = Failed]
    ELSE IF ~Flag("t") \/ AnyRecurse(f) THEN ExecuteFileCommands(st, f)
    ELSE [st EXCEPT !.us[f] = Success]

NoticeIfAlive(st, f) == IF st.dead THEN st ELSE NoticeFinishedFile(st, f)
RemakeFile(st, f) == NoticeIfAlive(Execute(st, f), f)

(***************************************************************************)
(* The walk.  A result r is the state r.s, the status r.st the call        *)
(* returns and r.must, whether the caller must be made.                    *)
(***************************************************************************)
Higher(a, b) == IF a > b THEN a ELSE b
GivesUp(st) == st >= Question /\ ~Flag("k")

\* Call[<<"UpdateFile", st, f>>] and so on: the functions that call each other
RECURSIVE Call

Returned(st, f) == [s |-> st, st |-> st.us[f]]

\* the second half of updateFile1, once every prerequisite was considered
MustMake(r, f, noexist) ==
    LET real == {d \in Range(r.s.deps[f]) : ~d.oo}
        listed == /\ ~noexist /\ f \in r.s.target \ r.s.cmds
                  /\ ~Flag("B") /\ \A d \in real : ~d.changed
    IN /\ ~listed
       /\ \/ r.must
          \/ f \in r.s.cmds /\ Flag("B")
          \/ \E d \in real : r.s.mt[d.f] = Nonexistent /\ d.f \notin r.s.inter

\* the prerequisites that count as changed in the recipe
MarkChanged(st, f, this, noexist) ==
    [st EXCEPT !.deps[f] = [i \in DOMAIN @ |->
        [@[i] EXCEPT !.changed = @ \/ noexist \/ st.mt[st.deps[f][i].f] > this]]]

Decide(r, f, this, noexist) ==
    IF r.st >= Question
    THEN [s |-> NoticeFinishedFile([r.s EXCEPT !.us[f] = r.st], f), st |-> r.st]
    ELSE IF MustMake(r, f, noexist)
    THEN Returned(RemakeFile(MarkChanged(r.s, f, this, noexist), f), f)
    ELSE [s |-> NoticeFinishedFile(MarkChanged(r.s, f, this, noexist), f), st |-> Success]

\* updateFile1: r is what the prerequisites have left
AfterIntermediates(r, f, this, noexist) ==
    IF r.s.dead THEN [s |-> r.s, st |-> Failed]
    ELSE Decide([r EXCEPT !.s.updating = @ \ {f}], f, this, noexist)

AfterPrerequisites(r, f, this, noexist) ==
    AfterIntermediates(IF r.must \/ Flag("B") THEN Call[<<"InterLoop", r, f, 1>>] ELSE r,
                       f, this, noexist)

ConsiderPrerequisites(st, f, this, noexist) ==
    AfterPrerequisites(
        FoldLeft(LAMBDA r, o : Call[<<"DepLoop", r, f, o, 1, this>>],
                 [s |-> st, must |-> noexist, st |-> NoStatus],
                 <<f>> \o SetToSeq(st.also[f])),
        f, this, noexist)

\* a rule with several targets is as old as the oldest of them
NoExist(st, f) == \E g \in {f} \cup st.also[f] : st.mt[g] = Nonexistent
ThisMtime(st, f) ==
    IF NoExist(st, f) THEN st.mt[f]
    ELSE CHOOSE m \in {st.mt[g] : g \in {f} \cup st.also[f]} :
           \A g \in {f} \cup st.also[f] : m <= st.mt[g]

UpdateTimed(st, f) ==
    ConsiderPrerequisites(TryImplicit(st, f), f, ThisMtime(st, f), NoExist(st, f))

UpdateFile1(st, f) ==
    UpdateTimed(IF st.mt[f] = Unknown THEN FMtime(st, f) ELSE st, f)

Without(seq, i) == SubSeq(seq, 1, i - 1) \o SubSeq(seq, i + 1, Len(seq))

\* the i-th prerequisite d has been looked at: c is what CheckDep returned
DepChecked(r, f, owner, i, this, d, c) ==
    LET next == [s |-> c.s, must |-> IF d.oo THEN r.must ELSE c.must, st |-> Higher(r.st, c.st)]
    IN IF c.s.dead \/ GivesUp(Higher(r.st, c.st)) THEN next
       ELSE Call[<<"DepLoop",
                   [next EXCEPT !.s.deps[owner][i].changed =
                      c.s.mt[f] # r.s.mt[d.f] \/ r.s.mt[d.f] = Nonexistent],
                   f, owner, i + 1, this>>]

\* the prerequisites of f (owner is f or a peer of f), from the i-th on
DepLoop(r, f, owner, i, this) ==
    LET ds == r.s.deps[owner]
    IN IF i > Len(ds) \/ r.s.dead THEN r
       ELSE IF ds[i].f \in r.s.updating      \* a circle: the edge is dropped
       THEN Call[<<"DepLoop", [r EXCEPT !.s.deps[owner] = Without(ds, i)], f, owner, i, this>>]
       ELSE DepChecked(r, f, owner, i, this, ds[i],
                       Call[<<"CheckDep", r.s, ds[i].f, this, r.must>>])

InterMade(r, f, i, d, c) ==
    LET next == [r EXCEPT !.s = c.s, !.st = Higher(r.st, c.st)]
    IN IF c.s.dead \/ GivesUp(Higher(r.st, c.st)) THEN next
       ELSE Call[<<"InterLoop",
                   [next EXCEPT !.s.deps[f][i].changed =
                      d \in World(world).phony \cap c.s.cmds \/ c.s.mt[d] # r.s.mt[d]],
                   f, i + 1>>]

\* f must be made: now its intermediate prerequisites must be there as well
InterLoop(r, f, i) ==
    LET ds == r.s.deps[f]
    IN IF i > Len(ds) \/ r.s.dead THEN r
       ELSE IF ds[i].f \notin r.s.inter THEN Call[<<"InterLoop", r, f, i + 1>>]
       ELSE InterMade(r, f, i, ds[i].f,
                      Call[<<"UpdateFile", [r.s EXCEPT !.cons[ds[i].f] = 0], ds[i].f>>])

CheckedUpdate(r, f, this, must) ==
    [s |-> [r.s EXCEPT !.updating = @ \ {f}], st |-> r.st,
     must |-> must \/ r.s.mt[f] = Nonexistent \/ r.s.mt[f] > this]

\* what an intermediate file would be made from
LookThrough(st, f, this, must) ==
    IF st.mt[f] # Nonexistent /\ st.mt[f] > this
    THEN [s |-> [st EXCEPT !.updating = @ \ {f}], st |-> Success, must |-> TRUE]
    ELSE [Call[<<"CheckDeps", [s |-> SetCommandState(st, f, NotStarted),
                               st |-> Success, must |-> must], f, 1, this>>]
            EXCEPT !.s.updating = @ \ {f}]

\* checkDep: an intermediate file is looked through, any other is updated
CheckDep(st, f, this, must) ==
    LET busy == [st EXCEPT !.updating = @ \cup {f}]
    IN IF f \in World(world).phony \/ f \notin st.inter
       THEN CheckedUpdate(Call[<<"UpdateFile", busy, f>>], f, this, must)
       ELSE LookThrough(TryImplicit(busy, f), f, this, must)

ThroughChecked(r, f, i, this, oo, c) ==
    LET next == [s |-> c.s, st |-> Higher(r.st, c.st), must |-> IF oo THEN r.must ELSE c.must]
    IN IF c.s.dead \/ GivesUp(next.st) THEN next
       ELSE Call[<<"CheckDeps", next, f, i + 1, this>>]

CheckDeps(r, f, i, this) ==
    LET ds == r.s.deps[f]
    IN IF i > Len(ds) \/ r.s.dead THEN r
       ELSE IF ds[i].f \in r.s.updating
       THEN Call[<<"CheckDeps", [r EXCEPT !.s.deps[f] = Without(ds, i)], f, i, this>>]
       ELSE ThroughChecked(r, f, i, this, ds[i].oo,
                           Call[<<"CheckDep", r.s, ds[i].f, this, r.must>>])

Considered(st, f) == st.cons[f] = st.considered \/ f \in st.upd
AtLeastSuccess(r) == [s |-> r.s, st |-> Higher(Success, r.st)]

UpdateFile(st, f) ==
    IF Considered(st, f)
    THEN [s |-> st, st |-> IF st.cs[f] = Finished THEN st.us[f] ELSE Success]
    ELSE AtLeastSuccess(UpdateFile1([st EXCEPT !.cons[f] = st.considered,
                                               !.updating = @ \cup {f}], f))

Call == [c \in Any |->
    CASE c[1] = "UpdateFile" -> UpdateFile(c[2], c[3])
      [] c[1] = "DepLoop" -> DepLoop(c[2], c[3], c[4], c[5], c[6])
      [] c[1] = "InterLoop" -> InterLoop(c[2], c[3], c[4])
      [] c[1] = "CheckDep" -> CheckDep(c[2], c[3], c[4], c[5])
      [] c[1] = "CheckDeps" -> CheckDeps(c[2], c[3], c[4], c[5])]

(***************************************************************************)
(* The process: main, one goal of UpdateGoalChain at a time, and the exit. *)
(***************************************************************************)
Fresh(w, disk, empty, clock) ==
    [mt |-> [f \in Files |-> IF f \in w.phony THEN Nonexistent ELSE Unknown],
     before |-> [f \in Files |-> IF f \in w.phony THEN Nonexistent
                                 ELSE Unknown],
     cons |-> [f \in Files |-> 0], us |-> [f \in Files |-> NoStatus],
     cs |-> [f \in Files |-> NotStarted], upd |-> {}, updating |-> {},
     target |-> w.target \cup w.phony \cup Range(w.goals),
     inter |-> w.inter, tried |-> {}, cmds |-> w.cmds,
     deps |-> w.deps, also |-> [f \in Files |-> {}],
     disk |-> disk, empty |-> empty, clock |-> clock,
     log |-> <<>>, started |-> 0, dead |-> FALSE, considered |-> 1]

Init == /\ world \in Worlds
        /\ s = Fresh(World(world), World(world).disk, {}, 10)
        /\ todo = World(world).goals
        /\ status = NoStatus
        /\ exit = "none"
        /\ runs = 1

Goal_LastCounts ==  \* (mutant) the last goal's status is the exit status
    /\ exit = "none" /\ todo # <<>>
    /\ s' = UpdateFile(s, Head(todo)).s
    /\ exit' = IF s'.dead THEN "2" ELSE exit
    /\ todo' = Tail(todo)
    /\ status' = s'.us[Head(todo)]
    /\ UNCHANGED <<world, runs>>

\* one goal of the chain.  A failure does not end the loop, only -q does
Goal ==
    /\ exit = "none" /\ todo # <<>>
    /\ s' = UpdateFile(s, Head(todo)).s
    /\ exit' = IF s'.dead THEN "2" ELSE exit
    /\ LET counts == status < Question
           us == s'.us[Head(todo)]
           stop == counts /\ us # NoStatus /\ Flag("q") /\ ~Flag("k")
       IN /\ todo' = IF stop THEN <<>> ELSE Tail(todo)
          /\ status' = IF counts THEN us ELSE status
    /\ UNCHANGED <<world, runs>>

\* main's mapping of the status to an exit status
ExitStatus(st) ==
    CASE st = Success -> "0"
      [] st = Question -> IF Flag("q") THEN "1" ELSE "0"
      [] OTHER -> "2"

Exit == /\ exit = "none" /\ todo = <<>>
        /\ exit' = ExitStatus(status)
        /\ UNCHANGED <<world, s, todo, status, runs>>

\* make is run again on what the last run left
Again ==
    /\ exit # "none" /\ runs < MaxRuns
    /\ s' = Fresh(World(world), s.disk, s.empty, s.clock)
    /\ todo' = World(world).goals
    /\ status' = NoStatus /\ exit' = "none" /\ runs' = runs + 1
    /\ UNCHANGED world

Next == Goal \/ Exit \/ Again

Spec == Init /\ [][Next]_vars /\ WF_vars(Goal \/ Exit)

-----------------------------------------------------------------------------
RanAt(f) == {i \in DOMAIN s.log : s.log[i][1] = f}
FailedRecipe == \E i \in DOMAIN s.log : ~s.log[i][2]
DepsOf(f) == {s.deps[f][i].f : i \in DOMAIN s.deps[f]}

\* However many goals and targets lead to a file, and intermediate or not,
\* its recipe is run once (Considered, CmdFinished, Updated).
RecipeOnce == \A f \in Files : Cardinality(RanAt(f)) <= 1

\* A recipe runs after those of its prerequisites, also after those of a file
\* the walk first only looked through (checkDep, then the second loop).
PrerequisitesFirst ==
    \A f \in Files : \A d \in DepsOf(f) :
        \A i \in RanAt(f), j \in RanAt(d) : j < i

\* No recipe runs when that of one of its prerequisites failed, with -k or
\* without.
NoneAfterFailure ==
    \A f \in Files : \A d \in DepsOf(f) :
        RanAt(f) # {} => \A j \in RanAt(d) : s.log[j][2]

\* The exit status tells whether a recipe failed, whatever goal it was for
\* and whatever came after it.
FailureIsTold == exit # "none" /\ FailedRecipe => exit = "2"

\* Which recipes run, and in which order
RecipesInOrder == RecipeOnce /\ PrerequisitesFirst /\ NoneAfterFailure

UpToDate(f) ==
    \/ f \in s.inter
    \/ /\ s.disk[f] # Nonexistent
       /\ \A i \in DOMAIN s.deps[f] :
            \/ s.deps[f][i].oo \/ s.deps[f][i].f \in s.inter
            \/ s.disk[s.deps[f][i].f] <= s.disk[f]

\* Where every recipe makes its target, the runs come to an end: after as
\* many runs as the makefile is deep there is nothing left to do and every
\* target is as new as its prerequisites, though a single run may leave
\* targets behind them (a file that was just remade has no known time in
\* checkDep).  Nothing is claimed of intermediate files, whose time checkDep
\* never reads.
Settles ==
    /\ exit = "0" /\ runs = MaxRuns
    /\ World(world).flags \cap {"B", "t", "q"} = {} /\ World(world).phony = {}
    /\ \A f \in Files : World(world).recipe[f] = <<"plain">>
    => s.log = <<>> /\ \A f \in s.cmds : UpToDate(f)

\* What the runs leave behind and what they say of it
RightAtEnd == FailureIsTold /\ Settles

\* Every run is right, by itself and as one of a series: its recipes in their order,
\* each once and none after a failed one, the exit status true of them, and the
\* series comes to rest (remake.go:646, main.go's mapping of the status).
RunsRight == RecipesInOrder /\ RightAtEnd

=============================================================================
