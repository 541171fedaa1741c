-------------------------------- MODULE RemakeInv -------------------------------
(***************************************************************************)
(* The inductive invariant of Remake for makefiles without circular        *)
(* prerequisites, :: rules and grouped rules: what the walk keeps true in  *)
(* the files it has passed and in the calls under way, from which the      *)
(* order of the recipes follows.                                           *)
(***************************************************************************)
EXTENDS Remake

CONSTANT
    Level       \* of each file: what shows that no prerequisite leads back to its target

\* prerequisites are on lower levels than what is made from them
Graded ==
    /\ Level \in [Files -> Nat]
    /\ \A f \in Files : \A i \in DOMAIN Prereqs[f] : Level[Prereqs[f][i].file] < Level[f]

Plain ==
    /\ \A f \in Files : DoubleColon[f] = NoFile /\ AlsoMake[f] = <<>>
    /\ Graded

\* under -q and -n no recipe runs
Builds == ~opt.question /\ ~opt.just_print

Over == pc \in {"end", "exit"}

--------------------------------------------------------------------------------
(* A file *)

Deps(f) == {Prereqs[f][i].file : i \in DOMAIN Prereqs[f]}

Good(f) == f \in updated /\ update_status[f] = us_success
Active(f) == job[f] \in {"running", "ok", "fail"}
Fresh(f) == f \notin updated /\ job[f] = "none"
Looked(f) == last_mtime[f] # UNKNOWN_MTIME \/ f \in updated
Exists(f) == Mtime(f) # NONEXISTENT_MTIME

\* an intermediate file that was not there when make first looked
Unmade(f) == f \in intermediate /\ Looked(f)

\* command_state, update_status and the job of a file say the same; check_dep resets the
\* state of an intermediate file that has been decided, but not what it was decided to
StatesAgree(f) ==
    /\ command_state[f] = "finished" => f \in updated
    /\ f \in updated <=> update_status[f] # us_none
    /\ Active(f) <=> command_state[f] = "running"
    /\ Active(f) => f \notin updated
    /\ job[f] = "reaped" => f \in updated
    /\ f \in updated /\ command_state[f] # "finished" =>
          f \notin Phony /\ (Good(f) \/ f \in intermediate)
    /\ Good(f) => command_state[f] \notin Busy
    /\ ~Looked(f) => command_state[f] = "not_started" /\ job[f] = "none"

\* what make knows of a file's time is what the disk has, up to a recipe not yet reaped
TimesAgree(f) ==
    /\ last_mtime[f] \notin {UNKNOWN_MTIME, NONEXISTENT_MTIME} => disk[f] # NONEXISTENT_MTIME
    /\ f \in Intermediates \ intermediate => Exists(f)

\* an intermediate file that is there was made by its own recipe
MadeOnTheWay(f) ==
    Unmade(f) =>
        /\ f \notin updated => last_mtime[f] = NONEXISTENT_MTIME
        /\ disk[f] # NONEXISTENT_MTIME => job[f] \in {"ok", "reaped"}
        /\ f \in updated /\ ~Good(f) => disk[f] = NONEXISTENT_MTIME

\* a recipe runs, and an intermediate file is made, from prerequisites that are made
MadeFromMade(f) ==
    Active(f) \/ (Good(f) /\ f \in intermediate) => \A d \in Deps(f) : Good(d)

FilesInv ==
    pc # "exit" =>
        \A f \in Files : StatesAgree(f) /\ TimesAgree(f) /\ MadeOnTheWay(f) /\ MadeFromMade(f)

\* without -k the walk never goes on after a failure
NoFailure ==
    ~Over /\ ~opt.keep_going =>
        /\ \A f \in Files : update_status[f] \in {us_success, us_none}
        /\ \A k \in DOMAIN stack : stack[k].dep_status = us_success
        /\ ret.status = us_success

--------------------------------------------------------------------------------
(* The calls under way *)

Update == "update_file"
Update1 == "update_file_1"
Check == "check_dep"

FrameShape(fr) ==
    /\ fr.proc = Update => fr.at \in {"enter", "back"} /\ fr.dep_status = us_success
    /\ fr.proc = Update1 =>
          fr.at \in {"enter", "deps", "dep_back", "inter", "inter_back", "remade"} /\ fr.ad = 1
    /\ fr.proc = Check => fr.at \in {"enter", "updated", "deps", "dep_back"}
    /\ fr.du # NoDep => fr.du[1] = fr.file
    /\ fr.at \in {"dep_back", "inter_back"} => fr.du # NoDep

\* who calls whom, and from where
Called(c, p) ==
    /\ c.proc = Update1 => p.proc = Update /\ p.at = "back" /\ p.file = c.file
    /\ c.proc = Update =>
          \/ p.proc = Check /\ p.at = "updated" /\ p.file = c.file
          \/ p.proc = Update1 /\ p.at = "inter_back" /\ Dep(p.du).file = c.file
    /\ c.proc = Check =>
          /\ p.proc \in {Update1, Check} /\ p.at = "dep_back" /\ Dep(p.du).file = c.file
          /\ p.must_make => c.must_make

\* the walk only goes down
Below(c, p) ==
    /\ Level[c.file] <= Level[p.file]
    /\ p.proc = Update1 \/ p.at = "dep_back" => Level[c.file] < Level[p.file]

Shape(st) ==
    /\ \A k \in 1 .. Len(st) : FrameShape(st[k])
    /\ \A k \in 1 .. Len(st) - 1 : Called(st[k], st[k + 1])
    /\ \A k, m \in 1 .. Len(st) : k < m => Below(st[k], st[m])
    /\ st # <<>> =>
          /\ st[Len(st)].proc = Update
          /\ \E i \in DOMAIN goaldeps : goaldeps[i] = st[Len(st)].file

ControlInv ==
    /\ pc \in {"walk", "new_job", "linear"} <=> stack # <<>>
    /\ pc \in {"new_job", "linear"} => Top.proc = Update1 /\ Top.at = "remade"
    /\ pc \in {"walk", "new_job", "linear", "goal_back"} =>
          entry \in Files /\ goal \in 1 .. Len(goals)
    /\ pc = "walk" /\ Top.at = "dep_back" => (Top.must_make => ret.must_make)
    /\ \A i \in DOMAIN goals : \E k \in DOMAIN goaldeps : goaldeps[k] = goals[i]

\* no list loses a member
ListsKept ==
    /\ first = [f \in Files |-> IF Prereqs[f] = <<>> THEN NoDep ELSE <<f, 1>>]
    /\ next = [n \in Nodes |-> IF n[2] < Len(Prereqs[n[1]]) THEN <<n[1], n[2] + 1>> ELSE NoDep]

\* a file that is marked as being updated has a call under way
MarksInv ==
    ~Over =>
        \A g \in updating : \E k \in DOMAIN stack :
            stack[k].file = g /\ stack[k].proc # Update /\ stack[k].at \notin {"enter", "remade"}

\* what has been considered in this round is decided, waits, or is being gone through
ConsideredInv ==
    ~Over =>
        \A g \in considered :
            \/ g \in updated \/ command_state[g] \in Busy
            \/ \E k \in DOMAIN stack :
                  stack[k].file = g /\ stack[k].proc = Update /\ stack[k].at = "back"

--------------------------------------------------------------------------------
(* What a call has found out so far *)

Position(fr) == IF fr.du = NoDep THEN Len(Prereqs[fr.file]) + 1 ELSE fr.du[2]

\* a prerequisite that does not keep its target from being made; one that is no reason
\* to make it either
Passed(f, i, must_make) ==
    LET d == Prereqs[f][i].file IN
    /\ Good(d) \/ Unmade(d)
    /\ must_make \/ Prereqs[f][i].ignore_mtime \/ d \in intermediate \/ Exists(d)

Scanning(fr) == fr.proc = Update1 /\ fr.at \in {"deps", "dep_back"}
Second(fr) == fr.proc = Update1 /\ fr.at \in {"inter", "inter_back"}
Unhindered(fr) == ~fr.running /\ fr.dep_status = us_success

\* update_file_1: the file itself
OpenOK(fr) ==
    Scanning(fr) \/ Second(fr) =>
        /\ Fresh(fr.file) /\ Looked(fr.file)
        /\ fr.noexist => fr.must_make
        /\ fr.file \in intermediate => fr.noexist

\* the loop over all prerequisites
ScanOK(fr) ==
    Scanning(fr) /\ Unhindered(fr) =>
        \A i \in DOMAIN Prereqs[fr.file] : i < Position(fr) => Passed(fr.file, i, fr.must_make)

\* the loop over those that are intermediate
SecondOK(fr) ==
    Second(fr) /\ Unhindered(fr) =>
        IF fr.must_make \/ opt.always_make
            THEN \A i \in DOMAIN Prereqs[fr.file] :
                    LET d == Prereqs[fr.file][i].file
                    IN  Good(d) \/ (i >= Position(fr) /\ Unmade(d))
            ELSE /\ fr.du = NoDep
                 /\ \A i \in DOMAIN Prereqs[fr.file] : Passed(fr.file, i, FALSE)

Settled(d) == d \in updated \/ d \in Intermediates

\* the loop has looked at .WAIT before the k-th prerequisite
Reached(fr, k) == k < fr.du[2] \/ (k = fr.du[2] /\ fr.at \in {"dep_back", "inter_back"})

\* neither loop goes past .WAIT while a prerequisite before it is running
WaitOK(fr) ==
    Scanning(fr) \/ Second(fr) =>
        /\ fr.du # NoDep =>
              \A i, k \in DOMAIN Prereqs[fr.file] :
                  i < k /\ Prereqs[fr.file][k].wait_here /\ Reached(fr, k) =>
                      Settled(Prereqs[fr.file][i].file)
        /\ ~fr.running =>
              \A i \in DOMAIN Prereqs[fr.file] :
                  i < Position(fr) \/ Second(fr) => Settled(Prereqs[fr.file][i].file)

\* check_dep, called by `caller'
CheckOK(fr, caller) ==
    fr.proc = Check =>
        /\ fr.at = "enter" => ~fr.running /\ (caller = Update1 => Looked(fr.file))
        /\ fr.at = "updated" => fr.file \in Phony \/ fr.file \notin intermediate
        /\ fr.at \in {"deps", "dep_back"} =>
              /\ fr.file \in Intermediates \ Phony /\ Looked(fr.file)
              /\ caller = Update1 \/ fr.file \in updated \/ Active(fr.file) =>
                    Good(fr.file) \/ Unmade(fr.file)
              /\ Good(fr.file) \/ Active(fr.file) =>
                    ~fr.running /\ \A d \in Deps(fr.file) : Good(d)

FrameOK(fr, caller) ==
    OpenOK(fr) /\ ScanOK(fr) /\ SecondOK(fr) /\ WaitOK(fr) /\ CheckOK(fr, caller)

Caller(st, k) == IF k < Len(st) THEN st[k + 1].proc ELSE "update_goal_chain"

FramesInv == \A k \in 1 .. Len(stack) : FrameOK(stack[k], Caller(stack, k))

\* what the caller knows when update_file or update_file_1 has returned
Answered(d) ==
    /\ d \in updated \/ command_state[d] \in Busy
    /\ ret.status = us_success /\ command_state[d] \notin Busy => Good(d)

\* ... and when check_dep has, for a target that is gone through
Learned(d) ==
    /\ d \in updated \/ command_state[d] \in Busy \/ d \in Intermediates
    /\ ret.status = us_success /\ command_state[d] \notin Busy => Good(d) \/ Unmade(d)
    /\ ret.must_make \/ d \in intermediate \/ Exists(d)

TopInv ==
    /\ pc = "new_job" =>
          /\ Fresh(Top.file) /\ Looked(Top.file)
          /\ \A d \in Deps(Top.file) : Good(d)
    /\ pc = "linear" \/ (pc = "walk" /\ Top.at = "remade") =>
          command_state[Top.file] \in {"running", "finished"}
    /\ pc = "walk" =>
          /\ Top.at \in {"back", "updated"} => Answered(Top.file)
          /\ Top.at = "inter_back" => Answered(Dep(Top.du).file)
          /\ Top.proc = Update1 /\ Top.at = "dep_back" => Learned(Dep(Top.du).file)
          /\ Top.proc = Update /\ Top.at = "enter" /\ Len(stack) > 1
                /\ stack[2].at = "inter_back" => Top.file \notin considered

--------------------------------------------------------------------------------

\* each recipe writes at most once
CountInv ==
    now <= Start + Cardinality({f \in Files : job[f] \in {"ok", "fail", "reaped"}})

IdleInv == ~Builds => \A f \in Files : job[f] = "none"

WalkInv == Shape(stack) /\ ControlInv /\ ListsKept /\ MarksInv

BuildInv == FilesInv /\ NoFailure /\ ConsideredInv /\ FramesInv /\ TopInv

IInv == TypeOK /\ CountInv /\ IdleInv /\ WalkInv /\ (Builds => BuildInv)
--------------------------------------------------------------------------------
(* What a run ends with, where no file is intermediate *)

Direct == Plain /\ Intermediates = {}

\* no recipe has to run for f, going by the disk; a recipe that leaves its target alone
\* says nothing of it
Current(f) ==
    Cmds[f] = "lines" /\ f \notin Phony \cup Lazy =>
        /\ disk[f] # NONEXISTENT_MTIME
        /\ \A d \in Counted(f) : disk[d] <= disk[f]

\* a file that is said to be made was made from what is made, or needed nothing
FileAtEnd(f) ==
    /\ disk[f] <= now
    /\ job[f] # "ok" \/ f \in Phony => last_mtime[f] \in {UNKNOWN_MTIME, disk[f]}
    /\ update_status[f] # us_question
    /\ Good(f) => \A d \in Deps(f) : Good(d)
    /\ Good(f) \/ job[f] = "ok" => Current(f)

\* one of the prerequisites before the n-th is a reason to make f
RenewedBefore(f, n) ==
    \E i \in DOMAIN Prereqs[f] :
        /\ i < n /\ ~Prereqs[f][i].ignore_mtime
        /\ Renewed(disk[Prereqs[f][i].file], disk[f])

\* the prerequisites that must_make speaks of are before this one
Extent(fr) == IF Second(fr) THEN Len(Prereqs[fr.file]) + 1 ELSE Position(fr)

\* must_make tells whether there is one, as far as the list has been gone through
FrameAtEnd(fr) ==
    /\ fr.at # "inter_back" /\ fr.dep_status # us_question
    /\ Scanning(fr) \/ Second(fr) =>
          /\ fr.this_mtime = disk[fr.file]
          /\ Unhindered(fr) =>
                (fr.must_make <=>
                    \/ disk[fr.file] = NONEXISTENT_MTIME
                    \/ RenewedBefore(fr.file, Extent(fr)))

\* check_dep starts with what its caller knows
Handed(c, p) == c.proc = Check => c.this_mtime = p.this_mtime /\ (c.must_make <=> p.must_make)

FramesAtEnd ==
    /\ \A k \in 1 .. Len(stack) : FrameAtEnd(stack[k])
    /\ \A k \in 1 .. Len(stack) - 1 : Handed(stack[k], stack[k + 1])

\* a reason to run the recipe of f
Stale(f) ==
    \/ opt.always_make \/ disk[f] = NONEXISTENT_MTIME
    \/ \E d \in Counted(f) : Renewed(disk[d], disk[f])

TopAtEnd ==
    /\ ret.status # us_question
    /\ pc = "walk" /\ Top.at = "dep_back" =>
          LET d == Dep(Top.du).file IN
          Good(d) => (ret.must_make <=> Top.must_make \/ Renewed(disk[d], Top.this_mtime))
    /\ pc = "new_job" => Cmds[Top.file] = "lines" /\ Stale(Top.file)

OnStack(f) == \E k \in DOMAIN stack : stack[k].file = f

\* a file that someone waits for, or that failed
Wanted(f) == command_state[f] \in Busy \/ (f \in updated /\ ~Good(f))

IsGoal(f) == \E k \in DOMAIN goaldeps : goaldeps[k] = f

\* it is a goal, or a prerequisite of what is no further than it is
Claimed(f) ==
    \/ IsGoal(f)
    \/ \E t \in Files : f \in Deps(t) /\ (Wanted(t) \/ OnStack(t))

Failing == \E f \in updated : update_status[f] = us_failed

\* the goals are dropped one by one when they are made, and a failure is not forgotten
GoalsAtEnd ==
    /\ ~any_not_updated
    /\ status \in {us_none, us_failed}
    /\ status = us_failed /\ opt.keep_going => Failing
    /\ status # us_failed =>
          /\ \A f \in Files : Wanted(f) => Claimed(f)
          /\ \A k \in DOMAIN goaldeps : Good(goaldeps[k]) \/ \E i \in DOMAIN goals : goals[i] = goaldeps[k]
          /\ pc \in {"walk", "new_job", "linear", "goal_back"} => entry = goals[goal]
          /\ pc = "end" => goals = <<>>

FilesAtEnd == \A f \in Files : FileAtEnd(f)

\* what make leaves behind
AtExit ==
    /\ Outstanding = {} /\ status \in {us_none, us_failed}
    /\ Failing => status = us_failed
    /\ status = us_failed /\ opt.keep_going => Failing
    /\ status # us_failed =>
          /\ \A f \in updated : Good(f) /\ Current(f)
          /\ \A k \in DOMAIN goaldeps : Good(goaldeps[k])

EndInv ==
    IF pc = "exit"
        THEN AtExit
        ELSE FilesAtEnd /\ FramesAtEnd /\ TopAtEnd /\ GoalsAtEnd

EInv == IInv /\ (Builds => EndInv)
================================================================================
