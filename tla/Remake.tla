--------------------------------- MODULE Remake --------------------------------
(***************************************************************************)
(* The update walk of GNU Make 4.4 (make-4.4/src/remake.c): the goals are  *)
(* gone through again and again, each time as far as the running recipes   *)
(* let the walk go, until all of them are decided.                         *)
(*                                                                         *)
(* The walk is recursive and make is one thread: `stack' holds the calls   *)
(* of update_file, update_file_1 and check_dep, the innermost first, with  *)
(* the locals that outlive a call.  Recipes run beside the walk and change *)
(* the disk at any time; the walk learns of their end only where it reaps  *)
(* children: at the start of a round and inside new_job.                   *)
(*                                                                         *)
(* The files are those of the file table when the makefiles are read, each *)
(* with its recipe: the implicit rule search has been done, and no file is *)
(* found under another name by VPATH.                                      *)
(***************************************************************************)
EXTENDS Integers, Sequences, FiniteSets, FiniteSetsExt

CONSTANTS
    Files,          \* struct file: one for each target, and one for each :: rule of it
    NoFile,         \* the null pointer
    DoubleColon,    \* double_colon: the first entry of a :: target, or NoFile
    Prev,           \* prev: the next entry of a :: target, or NoFile
    Prereqs,        \* deps, as read
    AlsoMake,       \* also_make: the other targets of a grouped rule
    Phony,
    IsTarget,       \* is_target: the files that are the target of some rule
    Cmds,           \* cmds: "none", "blank" or "lines"
    Intermediates,  \* the files mentioned under .INTERMEDIATE
    Goals,          \* the goals make may be given, in order
    Options,        \* the command line switches to consider
    Disks,          \* the modification times on disk to start from
    Start,          \* the time at which make starts
    MayFail,        \* the files whose recipe may fail
    Lazy            \* the files whose recipe may leave its targets alone

\* prerequisites: `ignore_mtime' is order-only, `wait_here' follows .WAIT
PrereqType == [file : Files, ignore_mtime : BOOLEAN, wait_here : BOOLEAN]

OptionType ==
    [slots : Nat \ {0}, keep_going : BOOLEAN, question : BOOLEAN,
     just_print : BOOLEAN, always_make : BOOLEAN]

UNKNOWN_MTIME == 0
NONEXISTENT_MTIME == 1
\* newer than anything a recipe writes: each runs at most once
NEW_MTIME == Start + Cardinality(Files) + 1

us_success == 0
us_none == 1
us_question == 2
us_failed == 3

ASSUME FilesAssumption == IsFiniteSet(Files) /\ NoFile \notin Files
\* file.c:192-200, read.c:2228-2231: the entries of a :: target are a chain that starts
\* at the first one, which all of them point to
ASSUME EntriesAssumption ==
    /\ DoubleColon \in [Files -> Files \cup {NoFile}]
    /\ Prev \in [Files -> Files \cup {NoFile}]
    /\ \A f \in Files :
          DoubleColon[f] # NoFile => DoubleColon[DoubleColon[f]] = DoubleColon[f]
    /\ \A e \in Files : Prev[e] # NoFile =>
          /\ DoubleColon[e] # NoFile /\ DoubleColon[Prev[e]] = DoubleColon[e]
          /\ Prev[e] # DoubleColon[e]
          /\ \A f \in Files \ {e} : Prev[f] # Prev[e]
ASSUME PrereqsAssumption == Prereqs \in [Files -> Seq(PrereqType)]
ASSUME AlsoMakeAssumption ==
    /\ AlsoMake \in [Files -> Seq(Files)]
    \* a grouped rule is not a :: rule here
    /\ \A f \in Files : AlsoMake[f] # <<>> => DoubleColon[f] = NoFile
ASSUME FlagsAssumption ==
    /\ Phony \subseteq Files /\ IsTarget \subseteq Files /\ Intermediates \subseteq Files
    /\ Cmds \in [Files -> {"none", "blank", "lines"}]
    /\ \A f \in Files : Cmds[f] # "none" => f \in IsTarget
ASSUME GoalsAssumption == Goals \subseteq Seq(Files)
ASSUME OptionsAssumption == Options \subseteq OptionType
ASSUME DisksAssumption ==
    /\ Start \in Nat /\ Start > NONEXISTENT_MTIME
    /\ Disks \subseteq [Files -> NONEXISTENT_MTIME .. Start]

VARIABLES
    opt,            \* the switches of this run; never changes
    disk, now,      \* the modification times on disk; the last one given
    job,            \* the recipe of each file: not run, running, ended, reaped
    (* struct file *)
    command_state, update_status, updated, updating, considered, last_mtime, intermediate,
    secondary,      \* the files make found made and will not remove
    (* struct dep *)
    first, next,    \* the lists of prerequisites: file->deps, dep->next
    changed,
    (* update_goal_chain *)
    goaldeps,       \* the goals given to make; never changes
    goals, goal, entry, any_not_updated, status,
    (* control *)
    pc, stack,
    ret             \* what the call that has just returned gave

worldVars == <<opt, goaldeps, disk, now, job>>
stateVars == <<command_state, update_status, updated>>
walkVars == <<updating, considered>>
timeVars == <<last_mtime, intermediate>>
fileVars == <<stateVars, walkVars, timeVars, secondary>>
depVars == <<first, next, changed>>
goalVars == <<goals, goal, entry, any_not_updated, status>>
ctlVars == <<pc, stack, ret>>
vars == <<worldVars, fileVars, depVars, goalVars, ctlVars>>

--------------------------------------------------------------------------------
(* Files and prerequisites *)

\* all entries of one target share its name, its time on disk and `updating'
Name(f) == IF DoubleColon[f] = NoFile THEN f ELSE DoubleColon[f]
Entries(f) == {g \in Files : Name(g) = Name(f)}

Peers(f) == {AlsoMake[f][i] : i \in DOMAIN AlsoMake[f]}
Group(f) == {f} \cup Peers(f)

NoDep == <<NoFile, 0>>
Nodes == UNION {{<<f, i>> : i \in DOMAIN Prereqs[f]} : f \in Files}
Dep(n) == Prereqs[n[1]][n[2]]

\* the nodes of the list that starts at n
ListFrom(n) ==
    LET nodes[m \in Nodes \cup {NoDep}] == IF m = NoDep THEN {} ELSE {m} \cup nodes[next[m]]
    IN nodes[n]

\* a prerequisite is taken out of a list: after lastd, or from the head of f's
Unlink(f, lastd, du) ==
    IF lastd = NoDep
        THEN first' = [first EXCEPT ![f] = next[du]] /\ UNCHANGED next
        ELSE next' = [next EXCEPT ![lastd] = next[du]] /\ UNCHANGED first

--------------------------------------------------------------------------------
(* Modification times *)

\* file_mtime
Mtime(f) == IF last_mtime[f] = UNKNOWN_MTIME THEN disk[Name(f)] ELSE last_mtime[f]

\* g is given the time read from the disk when the times of the files in F are asked for
Fetched(F, g) ==
    \E f \in F : /\ last_mtime[f] = UNKNOWN_MTIME
                 /\ Name(f) = Name(g)
                 /\ g \in updated <=> Name(g) \in updated

\* the times known after those of the files in F have been asked for
Seen(F) ==
    [g \in Files |-> IF Fetched(F, g) THEN disk[Name(g)] ELSE last_mtime[g]]

\* f_mtime: an intermediate file that exists already is not removed later on
Found(F) ==
    intermediate \ {g \in Files :
        /\ \E f \in F : last_mtime[f] = UNKNOWN_MTIME /\ Name(f) = Name(g)
        /\ disk[Name(g)] # NONEXISTENT_MTIME
        /\ command_state[g] = "not_started"}

Look(F) == last_mtime' = Seen(F) /\ intermediate' = Found(F)

--------------------------------------------------------------------------------
(* The state of a file *)

CommandStates == {"not_started", "deps_running", "running", "finished"}
Busy == {"deps_running", "running"}
\* (mutant) a file that waits for its own prerequisites is passed by
BusyEntry_RunningOnly(f) == \E g \in Entries(f) : command_state[g] = "running"

BusyEntry(f) == \E g \in Entries(f) : command_state[g] \in Busy

Rank(state) ==
    IF state = "not_started" THEN 0 ELSE IF state = "deps_running" THEN 1
    ELSE IF state = "running" THEN 2 ELSE 3

\* set_command_state: the other targets of a grouped rule are only moved forward
SetCommandState(f, state) ==
    command_state' = [g \in Files |->
        IF g = f \/ (g \in Peers(f) /\ Rank(state) > Rank(command_state[g]))
            THEN state ELSE command_state[g]]

\* the time a file has after its recipe: under -q and -n it counts as new, otherwise
\* it is looked up again
TimeAfterRecipe ==
    IF opt.question \/ opt.just_print THEN NEW_MTIME ELSE UNKNOWN_MTIME

Newest(T) == IF UNKNOWN_MTIME \in T THEN UNKNOWN_MTIME ELSE Max(T)

\* notice_finished_file, with the times known so far; `ran' is command_state == cs_running
NoticeFinished(f, result, ran, times) ==
    LET others == IF ran THEN Peers(f) ELSE {}
        own == IF ran /\ f \notin Phony THEN [times EXCEPT ![f] = TimeAfterRecipe] ELSE times
        last == DoubleColon[f] # NoFile /\ Entries(f) \subseteq updated \cup {f}
    IN /\ command_state' = [g \in Files |->
                                IF g = f \/ g \in others THEN "finished" ELSE command_state[g]]
       /\ updated' = updated \cup {f} \cup others
       /\ update_status' = [g \in Files |->
                                IF g = f \/ g \in others THEN result ELSE update_status[g]]
       /\ last_mtime' = [g \in Files |->
                             IF g \in others \ Phony THEN disk[g]
                             ELSE IF last /\ g \in Entries(f) THEN Newest({own[e] : e \in Entries(f)})
                             ELSE own[g]]

--------------------------------------------------------------------------------
(* Calls and returns *)

Frame(proc, f, this_mtime, must_make) ==
    [proc |-> proc, at |-> "enter", file |-> f, this_mtime |-> this_mtime,
     noexist |-> FALSE, must_make |-> must_make, dep_status |-> us_success,
     running |-> FALSE, ad |-> 1, du |-> NoDep, lastd |-> NoDep, mtime |-> UNKNOWN_MTIME]

Top == Head(stack)
At(proc, place) == pc = "walk" /\ Top.proc = proc /\ Top.at = place

Continue(frame) == stack' = <<frame>> \o Tail(stack) /\ UNCHANGED <<pc, ret>>
Call(callee, frame) == stack' = <<callee, frame>> \o Tail(stack) /\ UNCHANGED <<pc, ret>>

Return(result, must_make) ==
    /\ ret' = [status |-> result, must_make |-> must_make]
    /\ stack' = Tail(stack)
    /\ pc' = IF Len(stack) = 1 THEN "goal_back" ELSE "walk"

\* fatal, or die in reap_children: the calls under way are abandoned
Die ==
    /\ status' = us_failed
    /\ pc' = "end"
    /\ stack' = <<>>
    /\ UNCHANGED <<ret, goals, goal, entry, any_not_updated>>

Worse(s, t) == IF s > t THEN s ELSE t

Init ==
    /\ opt \in Options
    /\ disk \in Disks
    /\ now = Start
    /\ job = [f \in Files |-> "none"]
    /\ command_state = [f \in Files |-> "not_started"]
    /\ update_status = [f \in Files |-> us_none]
    /\ updated = {}
    /\ updating = {}
    /\ considered = {}
    /\ last_mtime = [f \in Files |-> UNKNOWN_MTIME]
    /\ intermediate = Intermediates
    /\ secondary = {}
    /\ first = [f \in Files |-> IF Prereqs[f] = <<>> THEN NoDep ELSE <<f, 1>>]
    /\ next = [n \in Nodes |-> IF n[2] < Len(Prereqs[n[1]]) THEN <<n[1], n[2] + 1>> ELSE NoDep]
    /\ changed = {}
    /\ goaldeps \in Goals
    /\ goals = goaldeps
    /\ goal = 1
    /\ entry = NoFile
    /\ any_not_updated = FALSE
    /\ status = us_none
    /\ pc = "round"
    /\ stack = <<>>
    /\ ret = [status |-> us_success, must_make |-> FALSE]

--------------------------------------------------------------------------------
(* update_file *)

\* a file that has been gone through in this round is not gone through again; of a ::
\* target, only the first entry is asked how it ended
Pruned ==
    /\ At("update_file", "enter") /\ Name(Top.file) \in considered
    /\ LET f == Name(Top.file)
       IN Return(IF command_state[f] = "finished" THEN update_status[f] ELSE us_success, FALSE)
    /\ UNCHANGED <<worldVars, fileVars, depVars, goalVars>>

UpdateEntry(f, frame) ==
    /\ considered' = considered \cup {f}
    /\ Call(Frame("update_file_1", f, UNKNOWN_MTIME, FALSE), [frame EXCEPT !.file = f, !.at = "back"])

UpdateFile ==
    /\ At("update_file", "enter") /\ Name(Top.file) \notin considered
    /\ UpdateEntry(Name(Top.file), Top)
    /\ UNCHANGED <<worldVars, stateVars, updating, timeVars, secondary, depVars, goalVars>>

\* the next :: rule has to wait until this one is finished
EntryUpdated ==
    /\ At("update_file", "back")
    /\ LET f == Top.file
           worst == Worse(Top.dep_status, ret.status)
       IN IF ret.status # us_success /\ ~opt.keep_going
             THEN Return(ret.status, FALSE) /\ UNCHANGED considered
          ELSE IF command_state[f] \in Busy
             THEN Return(us_success, FALSE) /\ UNCHANGED considered
          ELSE IF Prev[f] = NoFile
             THEN Return(worst, FALSE) /\ UNCHANGED considered
          ELSE UpdateEntry(Prev[f], [Top EXCEPT !.dep_status = worst])
    /\ UNCHANGED <<worldVars, stateVars, updating, timeVars, secondary, depVars, goalVars>>

--------------------------------------------------------------------------------
(* update_file_1 *)

Decided(f) == f \in updated \/ command_state[f] \in {"running", "finished"}

AlreadyDecided ==
    /\ At("update_file_1", "enter") /\ Decided(Top.file)
    /\ LET f == Top.file
       IN Return(IF f \in updated
                    THEN IF update_status[f] > us_none THEN update_status[f] ELSE us_success
                    ELSE IF command_state[f] = "running" THEN us_success ELSE update_status[f],
                 FALSE)
    /\ UNCHANGED <<worldVars, fileVars, depVars, goalVars>>

\* the file is as old as the oldest target of its grouped rule; the search stops at one
\* that does not exist
ConsiderFile ==
    /\ At("update_file_1", "enter") /\ ~Decided(Top.file)
    /\ LET f == Top.file
           looked == IF Mtime(f) = NONEXISTENT_MTIME THEN {f}
                     ELSE {f} \cup {AlsoMake[f][i] : i \in {j \in DOMAIN AlsoMake[f] :
                              \A k \in 1 .. (j - 1) : Mtime(AlsoMake[f][k]) # NONEXISTENT_MTIME}}
           noexist == \E g \in looked : Mtime(g) = NONEXISTENT_MTIME
           exist == {g \in looked : g = f \/ Mtime(g) # NONEXISTENT_MTIME}
       IN /\ updating' = updating \cup {Name(f)}
          /\ Look(looked)
          /\ Continue([Top EXCEPT !.at = "deps", !.noexist = noexist, !.must_make = noexist,
                                  !.this_mtime = Min({Mtime(g) : g \in exist}),
                                  !.du = first[f]])
    /\ UNCHANGED <<worldVars, stateVars, considered, secondary, depVars, goalVars>>

\* the files whose prerequisites are gone through: the file, then its grouped targets
Scanned(f) == <<f>> \o AlsoMake[f]

\* (mutant) .WAIT is ignored
Waits_Never(frame) == frame.du # NoDep /\ FALSE

\* .WAIT: the prerequisites after it are left for a later round
Waits(frame) == frame.du # NoDep /\ Dep(frame.du).wait_here /\ frame.running

\* the list ends; the last one is followed by the loop over intermediate files
ListDone ==
    /\ At("update_file_1", "deps")
    /\ Top.du = NoDep \/ Waits(Top)
    /\ IF Top.ad < Len(Scanned(Top.file))
          THEN Continue([Top EXCEPT !.ad = @ + 1, !.lastd = NoDep,
                                    !.du = first[Scanned(Top.file)[Top.ad + 1]]])
          ELSE Continue([Top EXCEPT !.at = "inter",
                                    !.du = IF Top.must_make \/ opt.always_make
                                              THEN first[Top.file] ELSE NoDep])
    /\ UNCHANGED <<worldVars, fileVars, depVars, goalVars>>

\* "Circular %s <- %s dependency dropped."  The list it is taken from may be that of a
\* grouped target; the head that is set is the file's
CircularDropped ==
    /\ At("update_file_1", "deps")
    /\ Top.du # NoDep /\ ~Waits(Top)
    /\ Name(Dep(Top.du).file) \in updating
    /\ Look({Dep(Top.du).file})
    /\ Unlink(Top.file, Top.lastd, Top.du)
    /\ Continue([Top EXCEPT !.du = next[Top.du]])
    /\ UNCHANGED <<worldVars, stateVars, walkVars, secondary, changed, goalVars>>

CheckPrereq ==
    /\ At("update_file_1", "deps")
    /\ Top.du # NoDep /\ ~Waits(Top)
    /\ LET d == Dep(Top.du).file
       IN /\ Name(d) \notin updating
          /\ Look({d})
          /\ Call(Frame("check_dep", d, Top.this_mtime, Top.must_make),
                  [Top EXCEPT !.at = "dep_back", !.mtime = Mtime(d)])
    /\ UNCHANGED <<worldVars, stateVars, walkVars, secondary, depVars, goalVars>>

\* without -k a failure ends the list, and the next one is gone on with
PrereqChecked ==
    /\ At("update_file_1", "dep_back")
    /\ LET d == Dep(Top.du).file
           worst == Worse(Top.dep_status, ret.status)
           running == Top.running \/ BusyEntry(d)
           back == [Top EXCEPT !.at = "deps", !.dep_status = worst, !.running = running,
                               !.must_make = IF Dep(Top.du).ignore_mtime THEN @ ELSE ret.must_make]
       IN IF worst # us_success /\ ~opt.keep_going
             THEN /\ Continue([back EXCEPT !.du = NoDep])
                  /\ UNCHANGED <<changed, timeVars>>
             ELSE /\ Continue([back EXCEPT !.lastd = Top.du, !.du = next[Top.du]])
                  /\ IF running
                        THEN UNCHANGED <<changed, timeVars>>
                        ELSE /\ changed' = IF Mtime(d) # Top.mtime \/ Top.mtime = NONEXISTENT_MTIME
                                              THEN changed \cup {Top.du} ELSE changed \ {Top.du}
                             /\ Look({d})
    /\ UNCHANGED <<worldVars, stateVars, walkVars, secondary, first, next, goalVars>>

\* the intermediate prerequisites are made only for a target that must be made
SkipOrdinary ==
    /\ At("update_file_1", "inter")
    /\ Top.du # NoDep
    /\ Waits(Top) \/ Dep(Top.du).file \notin intermediate
    /\ Continue([Top EXCEPT !.du = IF Waits(Top) THEN NoDep ELSE next[Top.du]])
    /\ UNCHANGED <<worldVars, fileVars, depVars, goalVars>>

UpdateIntermediate ==
    /\ At("update_file_1", "inter")
    /\ Top.du # NoDep /\ ~Waits(Top)
    /\ LET d == Dep(Top.du).file
       IN /\ d \in intermediate
          /\ Look({d})
          /\ considered' = considered \ {d}
          /\ Call(Frame("update_file", d, UNKNOWN_MTIME, FALSE),
                  [Top EXCEPT !.at = "inter_back", !.mtime = Mtime(d)])
    /\ UNCHANGED <<worldVars, stateVars, updating, secondary, depVars, goalVars>>

IntermediateUpdated ==
    /\ At("update_file_1", "inter_back")
    /\ LET d == Dep(Top.du).file
           worst == Worse(Top.dep_status, ret.status)
           running == Top.running \/ BusyEntry(d)
           back == [Top EXCEPT !.at = "inter", !.dep_status = worst, !.running = running]
           phony_cmds == Top.file \in Phony /\ Cmds[Top.file] # "none"
       IN IF worst # us_success /\ ~opt.keep_going
             THEN /\ Continue([back EXCEPT !.du = NoDep])
                  /\ UNCHANGED <<changed, timeVars>>
             ELSE /\ Continue([back EXCEPT !.du = next[Top.du]])
                  /\ IF running
                        THEN UNCHANGED <<changed, timeVars>>
                        ELSE /\ changed' = IF phony_cmds \/ Mtime(d) # Top.mtime
                                              THEN changed \cup {Top.du} ELSE changed \ {Top.du}
                             /\ IF phony_cmds THEN UNCHANGED timeVars
                                              ELSE Look({d})
    /\ UNCHANGED <<worldVars, stateVars, walkVars, secondary, first, next, goalVars>>

(* the prerequisites have been gone through *)

AllScanned == At("update_file_1", "inter") /\ Top.du = NoDep

PrereqsRunning ==
    /\ AllScanned /\ Top.running
    /\ updating' = updating \ {Name(Top.file)}
    /\ SetCommandState(Top.file, "deps_running")
    /\ Return(us_success, FALSE)
    /\ UNCHANGED <<worldVars, update_status, updated, considered, timeVars, secondary,
                   depVars, goalVars>>

PrereqFailed ==
    /\ AllScanned /\ ~Top.running /\ Top.dep_status # us_success
    /\ updating' = updating \ {Name(Top.file)}
    /\ NoticeFinished(Top.file, IF Top.dep_status = us_none THEN us_failed ELSE Top.dep_status,
                      FALSE, last_mtime)
    /\ Return(Top.dep_status, FALSE)
    /\ UNCHANGED <<worldVars, considered, intermediate, secondary, depVars, goalVars>>

\* what is known once the prerequisites are finished, none of them failed
Prerequisites(f) == ListFrom(first[f])
ChangedNow(f) ==
    changed \cup {n \in Prerequisites(f) : Top.noexist \/ Mtime(Dep(n).file) > Top.this_mtime}

MustMake(f) ==
    LET counted == {n \in Prerequisites(f) : ~Dep(n).ignore_mtime}
        missing == \E n \in counted : /\ Mtime(Dep(n).file) = NONEXISTENT_MTIME
                                      /\ Dep(n).file \notin intermediate
    IN IF DoubleColon[f] # NoFile /\ first[f] = NoDep
          THEN TRUE
       ELSE IF ~Top.noexist /\ f \in IsTarget /\ counted \cap changed = {}
                 /\ Cmds[f] = "none" /\ ~opt.always_make
          THEN FALSE
          ELSE Top.must_make \/ missing \/ (Cmds[f] # "none" /\ opt.always_make)

\* the common part of the actions below
DecideFile ==
    /\ AllScanned /\ ~Top.running /\ Top.dep_status = us_success
    /\ updating' = updating \ {Name(Top.file)}
    /\ changed' = ChangedNow(Top.file)
    /\ intermediate' = Found({Dep(n).file : n \in Prerequisites(Top.file)})

TimesSeen == Seen({Dep(n).file : n \in Prerequisites(Top.file)})

NoNeedToRemake ==
    /\ DecideFile /\ ~MustMake(Top.file)
    /\ NoticeFinished(Top.file, us_success, FALSE, TimesSeen)
    /\ secondary' = secondary \cup {Top.file}
    /\ Return(us_success, FALSE)
    /\ UNCHANGED <<worldVars, considered, first, next, goalVars>>

\* remake_file, a file without a recipe: a target is taken as made, and for another
\* file there is no rule; without -k that is fatal
RemakeWithoutRecipe ==
    /\ DecideFile /\ MustMake(Top.file) /\ Cmds[Top.file] = "none"
    /\ LET f == Top.file
           result == IF f \in Phony \cup IsTarget THEN us_success ELSE us_failed
       IN IF result = us_failed /\ ~opt.keep_going
             THEN /\ Die
                  /\ last_mtime' = TimesSeen
                  /\ UNCHANGED <<command_state, update_status, updated>>
             ELSE /\ NoticeFinished(f, result, FALSE, TimesSeen)
                  /\ Return(result, FALSE)
                  /\ UNCHANGED goalVars
    /\ UNCHANGED <<worldVars, considered, secondary, first, next>>

\* execute_file_commands, a recipe of blanks: it has run
RemakeBlank ==
    /\ DecideFile /\ MustMake(Top.file) /\ Cmds[Top.file] = "blank"
    /\ NoticeFinished(Top.file, us_success, TRUE, TimesSeen)
    /\ Return(us_success, FALSE)
    /\ UNCHANGED <<worldVars, considered, secondary, first, next, goalVars>>

ExecuteFileCommands ==
    /\ DecideFile /\ MustMake(Top.file) /\ Cmds[Top.file] = "lines"
    /\ command_state' = [command_state EXCEPT ![Top.file] = "not_started"]
    /\ last_mtime' = TimesSeen
    /\ pc' = "new_job"
    /\ stack' = <<[Top EXCEPT !.at = "remade"]>> \o Tail(stack)
    /\ UNCHANGED <<worldVars, update_status, updated, considered, secondary, first, next,
                   goalVars, ret>>

\* back from new_job
Remade ==
    /\ At("update_file_1", "remade")
    /\ LET f == Top.file
       IN IF command_state[f] # "finished"
             THEN Return(us_success, FALSE) /\ UNCHANGED updated
             ELSE Return(update_status[f], FALSE) /\ updated' = updated \cup {f}
    /\ UNCHANGED <<worldVars, command_state, update_status, walkVars, timeVars, secondary,
                   depVars, goalVars>>

--------------------------------------------------------------------------------
(* check_dep *)

\* (mutant) the mark of a file that has been looked through stays
ReturnDep_LeavesMark(frame, state) ==
    /\ UNCHANGED updating
    /\ IF state = "same" THEN UNCHANGED command_state ELSE SetCommandState(frame.file, state)
    /\ Return(frame.dep_status, frame.must_make)

ReturnDep(frame, state) ==
    /\ updating' = updating \ {Name(frame.file)}
    /\ IF state = "same" THEN UNCHANGED command_state ELSE SetCommandState(frame.file, state)
    /\ Return(frame.dep_status, frame.must_make)

\* (mutant) the same age counts as newer
Renewed_SameAge(time, this_mtime) == time = NONEXISTENT_MTIME \/ time >= this_mtime

\* a prerequisite for which its target has to be remade
Renewed(time, this_mtime) == time = NONEXISTENT_MTIME \/ time > this_mtime

CheckOrdinary ==
    /\ At("check_dep", "enter")
    /\ Top.file \in Phony \/ Top.file \notin intermediate
    /\ updating' = updating \cup {Name(Top.file)}
    /\ Call(Frame("update_file", Top.file, UNKNOWN_MTIME, FALSE), [Top EXCEPT !.at = "updated"])
    /\ UNCHANGED <<worldVars, stateVars, considered, timeVars, secondary, depVars, goalVars>>

OrdinaryUpdated ==
    /\ At("check_dep", "updated")
    /\ LET t == Mtime(Top.file)
       IN ReturnDep([Top EXCEPT !.dep_status = ret.status,
                                !.must_make = @ \/ Renewed(t, Top.this_mtime)],
                    "same")
    /\ Look({Top.file})
    /\ UNCHANGED <<worldVars, update_status, updated, considered, secondary, depVars,
                   goalVars>>

\* an intermediate file that is newer than the target is enough to remake it
CheckIntermediate ==
    /\ At("check_dep", "enter")
    /\ Top.file \notin Phony /\ Top.file \in intermediate
    /\ LET f == Top.file
           t == Mtime(f)
       IN /\ Look({f})
          /\ IF t # NONEXISTENT_MTIME /\ t > Top.this_mtime
                THEN /\ ReturnDep([Top EXCEPT !.must_make = TRUE], "same")
                     /\ UNCHANGED considered
                ELSE /\ updating' = updating \cup {Name(f)}
                     /\ IF command_state[f] = "running"
                           THEN UNCHANGED command_state
                           ELSE SetCommandState(f, "not_started")
                     /\ considered' = IF command_state[f] = "deps_running"
                                         THEN considered \ {f} ELSE considered
                     /\ Continue([Top EXCEPT !.at = "deps", !.du = first[f]])
    /\ UNCHANGED <<worldVars, update_status, updated, secondary, depVars, goalVars>>

DropFromIntermediate ==
    /\ At("check_dep", "deps")
    /\ Top.du # NoDep
    /\ Name(Dep(Top.du).file) \in updating
    /\ Unlink(Top.file, Top.lastd, Top.du)
    /\ Continue([Top EXCEPT !.du = next[Top.du]])
    /\ UNCHANGED <<worldVars, fileVars, changed, goalVars>>

CheckPrereqOfIntermediate ==
    /\ At("check_dep", "deps")
    /\ Top.du # NoDep
    /\ Name(Dep(Top.du).file) \notin updating
    /\ Call(Frame("check_dep", Dep(Top.du).file, Top.this_mtime, Top.must_make),
            [Top EXCEPT !.at = "dep_back"])
    /\ UNCHANGED <<worldVars, fileVars, depVars, goalVars>>

PrereqOfIntermediateChecked ==
    /\ At("check_dep", "dep_back")
    /\ LET d == Dep(Top.du).file
           worst == Worse(Top.dep_status, ret.status)
           back == [Top EXCEPT !.at = "deps", !.dep_status = worst,
                               !.must_make = IF Dep(Top.du).ignore_mtime THEN @ ELSE ret.must_make]
       IN IF worst # us_success /\ ~opt.keep_going
             THEN Continue([back EXCEPT !.du = NoDep])
             ELSE Continue([back EXCEPT !.running = @ \/ command_state[d] \in Busy,
                                        !.lastd = Top.du, !.du = next[Top.du]])
    /\ UNCHANGED <<worldVars, fileVars, depVars, goalVars>>

IntermediateChecked ==
    /\ At("check_dep", "deps")
    /\ Top.du = NoDep
    /\ ReturnDep(Top, IF Top.running THEN "deps_running" ELSE "same")
    /\ UNCHANGED <<worldVars, update_status, updated, considered, timeVars, secondary,
                   depVars, goalVars>>

--------------------------------------------------------------------------------
(* The job engine, as the walk sees it *)

Ended == {f \in Files : job[f] \in {"ok", "fail"}}
Outstanding == {f \in Files : job[f] = "running"} \cup Ended

\* a recipe ends; one that succeeds leaves its targets alone only if it is lazy
RecipeEnds(f) ==
    /\ job[f] = "running"
    /\ \E result \in {"ok", "fail"}, writes \in BOOLEAN :
          /\ result = "fail" => f \in MayFail /\ ~writes
          /\ result = "ok" => writes \/ f \in Lazy
          /\ job' = [job EXCEPT ![f] = result]
          /\ now' = IF writes THEN now + 1 ELSE now
          /\ disk' = [g \in Files |-> IF writes /\ g \in Group(f) \ Phony THEN now' ELSE disk[g]]
    /\ UNCHANGED <<opt, goaldeps, fileVars, depVars, goalVars, ctlVars>>

\* reap_children notices that a recipe is over; without -k a failure ends the run
Reap(f) ==
    /\ pc \in {"round", "reaping", "new_job", "linear", "end"}
    /\ f \in Ended
    /\ NoticeFinished(f, IF job[f] = "ok" THEN us_success ELSE us_failed, TRUE, last_mtime)
    /\ job' = [job EXCEPT ![f] = "reaped"]
    /\ IF job[f] = "fail" /\ ~opt.keep_going /\ pc # "end"
          THEN Die
          ELSE /\ pc' = IF pc = "round" THEN "reaping" ELSE pc
               /\ UNCHANGED <<stack, ret, goalVars>>
    /\ UNCHANGED <<opt, goaldeps, disk, now, walkVars, intermediate, secondary, depVars>>

\* new_job starts the recipe as soon as there is a slot for it
StartRecipe ==
    /\ pc = "new_job"
    /\ ~opt.question /\ ~opt.just_print
    /\ Cardinality(Outstanding) < opt.slots
    /\ job' = [job EXCEPT ![Top.file] = "running"]
    /\ SetCommandState(Top.file, "running")
    /\ pc' = "linear"
    /\ UNCHANGED <<opt, goaldeps, disk, now, update_status, updated, walkVars, timeVars,
                   secondary, depVars, goalVars, stack, ret>>

\* (mutant) -q goes on as -n does
PretendRecipe_AsPrinted ==
    /\ pc = "new_job"
    /\ opt.question \/ opt.just_print
    /\ NoticeFinished(Top.file, us_success, TRUE, last_mtime)
    /\ pc' = "linear"
    /\ UNCHANGED <<worldVars, walkVars, intermediate, secondary, depVars, goalVars, stack,
                   ret>>

\* -n prints the recipe; -q stops at its first line
PretendRecipe ==
    /\ pc = "new_job"
    /\ opt.question \/ opt.just_print
    /\ IF opt.question
          THEN NoticeFinished(Top.file, us_question, FALSE, last_mtime)
          ELSE NoticeFinished(Top.file, us_success, TRUE, last_mtime)
    /\ pc' = "linear"
    /\ UNCHANGED <<worldVars, walkVars, intermediate, secondary, depVars, goalVars, stack,
                   ret>>

\* with one slot new_job waits for its recipe to end
NewJobReturns ==
    /\ pc = "linear"
    /\ opt.slots = 1 => command_state[Top.file] # "running"
    /\ pc' = "walk"
    /\ UNCHANGED <<worldVars, fileVars, depVars, goalVars, stack, ret>>

--------------------------------------------------------------------------------
(* update_goal_chain *)

\* reap_children (1, 0) returns at once if there is nothing to wait for, and otherwise
\* when what has ended has been reaped
RoundReaped ==
    /\ IF pc = "round" THEN Outstanding = {} ELSE pc = "reaping" /\ Ended = {}
    /\ pc' = "goal"
    /\ goal' = 1
    /\ UNCHANGED <<worldVars, fileVars, depVars, goals, entry, any_not_updated, status, stack,
                   ret>>

\* every entry of a :: goal is handed to update_file in turn
UpdateGoalEntry(f) ==
    /\ entry' = f
    /\ pc' = "walk"
    /\ stack' = <<Frame("update_file", f, UNKNOWN_MTIME, FALSE)>>
    /\ UNCHANGED ret

UpdateGoal ==
    /\ pc = "goal" /\ goal <= Len(goals)
    /\ UpdateGoalEntry(Name(goals[goal]))
    /\ any_not_updated' = FALSE
    /\ UNCHANGED <<worldVars, fileVars, depVars, goals, goal, status>>

\* (mutant) what was considered stays considered
RoundOver_SameRound ==
    /\ pc = "goal" /\ goal > Len(goals)
    /\ pc' = IF goals = <<>> THEN "end" ELSE "round"
    /\ UNCHANGED <<worldVars, stateVars, walkVars, timeVars, secondary, depVars, goalVars,
                   stack, ret>>

\* the walk has reached the end of the goals: another round, or the end
RoundOver ==
    /\ pc = "goal" /\ goal > Len(goals)
    /\ considered' = {}
    /\ pc' = IF goals = <<>> THEN "end" ELSE "round"
    /\ UNCHANGED <<worldVars, stateVars, updating, timeVars, secondary, depVars, goalVars,
                   stack, ret>>

\* -q stops at the first goal that needs work
Stops == opt.question /\ ~opt.keep_going

WithoutGoal == SubSeq(goals, 1, goal - 1) \o SubSeq(goals, goal + 1, Len(goals))

GoalUpdated ==
    /\ pc = "goal_back"
    /\ LET f == entry
           counts == (ret.status # us_success \/ f \in updated) /\ status < us_question
           failed == counts /\ update_status[f] # us_success
           stop == failed /\ Stops
           left == any_not_updated \/ f \notin updated
       IN /\ status' = IF failed THEN update_status[f] ELSE status
          /\ IF counts /\ ~failed THEN Look({f}) ELSE UNCHANGED timeVars
          /\ IF ~stop /\ Prev[f] # NoFile
                THEN /\ UpdateGoalEntry(Prev[f])
                     /\ any_not_updated' = left
                     /\ UNCHANGED <<goals, goal>>
                ELSE /\ IF stop \/ ~left
                           THEN goals' = WithoutGoal /\ UNCHANGED goal
                           ELSE goal' = goal + 1 /\ UNCHANGED goals
                     /\ pc' = IF ~stop THEN "goal" ELSE IF goals' = <<>> THEN "end" ELSE "round"
                     /\ any_not_updated' = FALSE
                     /\ entry' = NoFile
                     /\ UNCHANGED <<stack, ret>>
          \* the end of the goals has been reached if the last one is taken off
          /\ considered' = IF stop /\ goal = Len(goals) THEN {} ELSE considered
    /\ UNCHANGED <<worldVars, stateVars, updating, secondary, depVars>>

\* die waits for the recipes that are still running, then removes the intermediate files
\* that were not there before
RemoveIntermediates ==
    /\ pc = "end"
    /\ Outstanding = {}
    /\ pc' = "exit"
    /\ disk' = [f \in Files |->
                   IF /\ f \in intermediate \ secondary
                      /\ \A k \in DOMAIN goaldeps : goaldeps[k] # f
                      /\ update_status[f] # us_none
                      /\ ~opt.question /\ ~opt.just_print
                       THEN NONEXISTENT_MTIME ELSE disk[f]]
    /\ UNCHANGED <<opt, goaldeps, now, job, fileVars, depVars, goalVars, stack, ret>>

Finished == pc = "exit" /\ UNCHANGED vars

--------------------------------------------------------------------------------

UpdateFileStep == Pruned \/ UpdateFile \/ EntryUpdated

UpdateFile1Step ==
    \/ AlreadyDecided \/ ConsiderFile
    \/ ListDone \/ CircularDropped \/ CheckPrereq \/ PrereqChecked
    \/ SkipOrdinary \/ UpdateIntermediate \/ IntermediateUpdated
    \/ PrereqsRunning \/ PrereqFailed
    \/ NoNeedToRemake \/ RemakeWithoutRecipe \/ RemakeBlank \/ ExecuteFileCommands \/ Remade

CheckDepStep ==
    \/ CheckOrdinary \/ OrdinaryUpdated
    \/ CheckIntermediate \/ DropFromIntermediate \/ CheckPrereqOfIntermediate
    \/ PrereqOfIntermediateChecked \/ IntermediateChecked

JobStep ==
    \/ \E f \in Files : Reap(f)
    \/ StartRecipe \/ PretendRecipe \/ NewJobReturns

GoalStep == RoundReaped \/ UpdateGoal \/ RoundOver \/ GoalUpdated

MakeStep ==
    UpdateFileStep \/ UpdateFile1Step \/ CheckDepStep \/ JobStep \/ GoalStep
    \/ RemoveIntermediates

Next == MakeStep \/ (\E f \in Files : RecipeEnds(f)) \/ Finished

Spec == Init /\ [][Next]_vars

\* make goes on whenever it can, and every recipe ends
FairSpec == Spec /\ WF_vars(MakeStep) /\ \A f \in Files : WF_vars(RecipeEnds(f))

--------------------------------------------------------------------------------
(* Properties *)

Places == {"enter", "back", "deps", "dep_back", "inter", "inter_back", "remade", "updated"}
Times == UNKNOWN_MTIME .. NEW_MTIME
Statuses == us_success .. us_failed

FrameType ==
    [proc : {"update_file", "update_file_1", "check_dep"}, at : Places, file : Files,
     this_mtime : Times, noexist : BOOLEAN, must_make : BOOLEAN, dep_status : Statuses,
     running : BOOLEAN, ad : Nat, du : Nodes \cup {NoDep}, lastd : Nodes \cup {NoDep},
     mtime : Times]

TypeOK ==
    /\ opt \in Options
    /\ disk \in [Files -> NONEXISTENT_MTIME .. NEW_MTIME - 1]
    /\ now \in Start .. NEW_MTIME - 1
    /\ job \in [Files -> {"none", "running", "ok", "fail", "reaped"}]
    /\ command_state \in [Files -> CommandStates]
    /\ update_status \in [Files -> Statuses]
    /\ updated \subseteq Files /\ updating \subseteq Files /\ considered \subseteq Files
    /\ last_mtime \in [Files -> Times]
    /\ intermediate \subseteq Intermediates /\ secondary \subseteq Files
    /\ first \in [Files -> Nodes \cup {NoDep}]
    /\ next \in [Nodes -> Nodes \cup {NoDep}]
    /\ changed \subseteq Nodes
    /\ goaldeps \in Goals /\ goals \in Seq(Files) /\ goal \in Nat \ {0}
    /\ entry \in Files \cup {NoFile}
    /\ any_not_updated \in BOOLEAN
    /\ status \in Statuses
    /\ pc \in {"round", "reaping", "goal", "goal_back", "walk", "new_job", "linear", "end",
              "exit"}
    /\ stack \in Seq(FrameType)
    /\ ret \in [status : Statuses, must_make : BOOLEAN]

\* The prerequisites of a file, those in its list and those of its :: entries
Needs(f) == {Dep(n).file : n \in Prerequisites(f)}
Made(f) == \A e \in Entries(f) : e \in updated /\ update_status[e] = us_success

\* A recipe starts only when every prerequisite of its targets is finished and none
\* has failed, in whatever order recipes end (remake.c:736, 748)
PrerequisitesFirst ==
    [][\A f \in Files : job'[f] = "running" /\ job[f] # "running" =>
          \A g \in Group(f) : \A d \in Needs(g) : Made(d)]_vars

\* No recipe runs twice, and only one of those of a grouped rule runs: the walk may
\* come by a file many times, in many rounds (remake.c:453, 475, 1047)
RecipesRunOnce ==
    [][\A f \in Files : job'[f] = "running" /\ job[f] # "running" =>
          \A g \in Group(f) : job[g] = "none" /\ g \notin updated]_vars

\* The rules of a :: target run one after the other, in the order in which they were
\* read (remake.c:370)
EntriesInOrder ==
    [][\A f \in Files : job'[f] = "running" /\ job[f] # "running" =>
          \A e \in Files : Prev[e] = f => e \in updated]_vars

\* f comes after d and a .WAIT in the list of a target, and nothing else asks for f.  The
\* list of an intermediate file is gone through without regard to .WAIT (remake.c:1158)
AfterWait(f, d) ==
    \E t \in Files \ Intermediates : \E i \in DOMAIN Prereqs[t] : \E j \in 1 .. (i - 1) :
        /\ Prereqs[t][i].file = f /\ Prereqs[t][j].file = d
        /\ \E k \in (j + 1) .. i : Prereqs[t][k].wait_here
        /\ \A k \in DOMAIN goaldeps : goaldeps[k] # f
        /\ \A u \in Files : \A k \in DOMAIN Prereqs[u] :
              Prereqs[u][k].file = f => u = t /\ k = i

\* What is after .WAIT starts when what is before it is finished, unless that is an
\* intermediate file, which is made after all others (remake.c:593, 671)
WaitRespected ==
    [][\A f, d \in Files : job'[f] = "running" /\ job[f] # "running" /\ AfterWait(f, d) =>
          d \in Intermediates \/ Entries(d) \subseteq updated]_vars

\* The order of recipes that rules ask for beside that of their prerequisites
RecipeOrder == RecipesRunOnce /\ EntriesInOrder /\ WaitRespected

\* What the makefile says, whatever the walk does with its lists
Counted(f) == {p.file : p \in {Prereqs[f][i] : i \in {j \in DOMAIN Prereqs[f] : ~Prereqs[f][j].ignore_mtime}}}
Walked(f) == UNION {{Prereqs[g][i].file : i \in DOMAIN Prereqs[g]} : g \in Group(f)}

\* what a file leads to: its entries, its prerequisites, theirs ...
Reach ==
    [f \in Files |->
        LET upto[k \in 0 .. Cardinality(Files)] ==
                IF k = 0 THEN {f}
                ELSE UNION {{e} \cup Entries(e) \cup Walked(e) : e \in upto[k - 1]}
        IN upto[Cardinality(Files)]]

\* a missing intermediate file stands for its prerequisites
Gone(f) == f \in Intermediates \ Phony /\ disk[f] = NONEXISTENT_MTIME

StandsFor(f) ==
    LET upto[k \in 0 .. Cardinality(Files)] ==
            IF k = 0 THEN {f}
            ELSE UNION {IF Gone(e) THEN Counted(e) ELSE {e} : e \in upto[k - 1]}
    IN {e \in upto[Cardinality(Files)] : ~Gone(e)}

Age(f) == Min({disk[g] : g \in Group(f)})

Sources(f) == UNION {StandsFor(d) : d \in UNION {Counted(g) : g \in Group(f)}}

\* a file whose recipe has to run, going by the times on the disk
OutOfDate(f) ==
    /\ Cmds[f] = "lines" /\ ~Gone(f)
    /\ \/ opt.always_make \/ f \in Phony
       \/ Age(f) = NONEXISTENT_MTIME
       \/ DoubleColon[f] # NoFile /\ Prereqs[f] = <<>>
       \/ \E e \in Sources(f) :
             disk[Name(e)] > Age(f) \/ disk[Name(e)] = NONEXISTENT_MTIME

\* the goals and what they need
Asked == UNION {Reach[goaldeps[i]] : i \in DOMAIN goaldeps}

\* After a run that reports success nothing is left to do: every file that was decided
\* is at least as new as its prerequisites, unless its own recipe left it alone
UpToDateAtEnd ==
    pc = "exit" /\ status < us_question /\ ~opt.just_print =>
        /\ \A i \in DOMAIN goaldeps : Entries(goaldeps[i]) \subseteq updated
        /\ \A f \in updated \ (Phony \cup Lazy) :
              Cmds[f] = "lines" /\ ~Gone(f) =>
                  /\ Age(f) # NONEXISTENT_MTIME
                  /\ \A e \in Sources(f) : disk[Name(e)] <= Age(f)

\* No recipe runs without need: its target is out of date on the disk at that moment,
\* or it is an intermediate file on the way to one that is
NeededOnly ==
    [][\A f \in Files : job'[f] = "running" /\ job[f] # "running" =>
          \E g \in Files : f \in Reach[g] /\ (g = f \/ Gone(f)) /\ OutOfDate(g)]_vars

\* make fails if a file it has decided on has failed, and under -k only then: a fatal error
\* leaves the file it is about undecided (remake.c:187-198)
ExitTellsFailure ==
    pc = "exit" =>
        LET failure == \E f \in updated : update_status[f] = us_failed
        IN /\ failure => status = us_failed \/ (opt.question /\ status = us_question)
           /\ status = us_failed /\ opt.keep_going => failure

\* -q answers 1 exactly if some recipe would have to run
QuestionAnswered ==
    pc = "exit" /\ opt.question /\ status # us_failed =>
        (status = us_question <=> \E f \in Asked : OutOfDate(f))

\* What make leaves behind and what it says of it when it is over
RightAtEnd == TypeOK /\ UpToDateAtEnd /\ ExitTellsFailure /\ QuestionAnswered

\* A prerequisite is dropped from a list only if it leads back to the target
OnlyCyclesDropped ==
    [][\A f \in Files : \A n \in Prerequisites(f) :
          n \in Prerequisites(f)' \/ f \in Reach[Dep(n).file]]_vars

\* make removes at the end what its own recipes made on the way, and nothing that was
\* there before (file.c:392, remake.c:864, f_mtime)
OnlyOwnRemoved ==
    [][\A f \in Files :
          disk'[f] = NONEXISTENT_MTIME /\ disk[f] # NONEXISTENT_MTIME => job[f] = "reaped"]_vars

\* The walk takes away no more than it may: cycles from lists, its own files from the disk
NothingElseLost == OnlyCyclesDropped /\ OnlyOwnRemoved

\* The walk comes to an end, whatever the recipes do
Terminates == <>(pc = "exit")

================================================================================
