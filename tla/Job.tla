---------------------------------- MODULE Job ----------------------------------
(***************************************************************************)
(* The job engine of GNU Make 4.4 (make-4.4/src/job.c): the chain of       *)
(* running children, the list of jobs held back by the load limit, the     *)
(* job slots, the tokens of the jobserver, and the functions that move a   *)
(* recipe through them: new_job, start_waiting_jobs, start_waiting_job,    *)
(* start_job_command, reap_children, free_child, and die (main.c).         *)
(*                                                                         *)
(* make is one thread.  `pc' is the place it has reached; the functions    *)
(* that are called from several places keep where they return to in `reap' *)
(* and `sret'.  What make cannot control runs beside it: its children      *)
(* exit, the load goes up and down, and other makes take and return        *)
(* jobserver tokens.  The caller (remake.c) is the environment: it hands   *)
(* over files in any order, waits, and ends the run.                       *)
(***************************************************************************)
EXTENDS Integers, Sequences, FiniteSets

CONSTANTS
    Files,      \* the files that have a recipe
    Recipe,     \* their recipes: the lines each one is chopped into
    AlsoMake,   \* the other targets the recipe of each file makes (a b &: c)
    Precious,   \* the files delete_target leaves alone: .PRECIOUS or phony
    Writers,    \* the files whose commands write the target
    Optional,   \* the files make may only be asked for by -include: dontcare
    Options,    \* the command line switches and special targets to consider
    Exits,      \* the ways a command can end
    Tokens,     \* the tokens the jobserver starts with: -jN makes N - 1
    Peers,      \* TRUE if other makes draw on the same jobserver
    NoFile      \* stands for no file

LineKinds == {"empty", "colon", "command"}
Lines == [kind : LineKinds, noerror : BOOLEAN, recursive : BOOLEAN]

OptionType ==
    [slots : Nat, jobserver : BOOLEAN, not_parallel : BOOLEAN, load : BOOLEAN,
     keep_going : BOOLEAN, ignore_errors : BOOLEAN, question : BOOLEAN,
     just_print : BOOLEAN, delete_on_error : BOOLEAN]

ExitKinds == {"ok", "one", "fail", "signal"}

ASSUME FilesAssumption == IsFiniteSet(Files) /\ NoFile \notin Files
ASSUME RecipeAssumption == Recipe \in [Files -> Seq(Lines)]
ASSUME AlsoMakeAssumption == AlsoMake \in [Files -> SUBSET Files]
\* the targets of one recipe all name each other (read.c:2317, implicit.c:1098): no
\* target is in two groups, of which make warns (read.c:2322)
ASSUME GroupsAssumption ==
    \A f \in Files : \A g \in AlsoMake[f] :
        Recipe[g] = Recipe[f] /\ {g} \cup AlsoMake[g] = {f} \cup AlsoMake[f]
ASSUME OptionsAssumption ==
    /\ Options \subseteq OptionType
    \* main.c: with a jobserver job_slots is 0
    /\ \A o \in Options : o.jobserver => o.slots = 0
ASSUME ExitsAssumption == Exits \subseteq ExitKinds
ASSUME TokensAssumption == Tokens \in Nat
ASSUME PeersAssumption == Peers \in BOOLEAN

VARIABLES
    opt,                \* the switches of this run; never changes
    (* struct file *)
    command_state, update_status,
    target,             \* the file on disk: untouched, changed by the recipe, removed
    (* struct child *)
    line,               \* command_line: the lines used up
    pid,                \* the process of the current line and what became of it
    jobslot,            \* the children that count in job_slots_used
    good_stdin,         \* the children that read the real standard input
    dontcare,           \* the children whose failure is not fatal
    (* job.c *)
    children,           \* the chain
    waiting_jobs,       \* held back by the load, last one first
    job_slots_used, good_stdin_used, commands_started,
    jobserver_tokens,   \* held by this make, the free one included
    (* the jobserver *)
    pool,               \* tokens in the pipe
    others,             \* tokens in the hands of other makes
    (* control *)
    pc,
    reap,               \* reap_children's arguments and its caller
    sret,               \* start_waiting_jobs' caller
    cur,                \* the file of the new_job under way
    exit_status         \* die's argument, -1 before die is called

fileVars == <<command_state, update_status, target>>
childVars == <<line, pid, jobslot, good_stdin, dontcare>>
chainVars == <<children, waiting_jobs, job_slots_used, good_stdin_used, commands_started>>
tokenVars == <<jobserver_tokens, pool, others>>
ctlVars == <<pc, reap, sret, cur, exit_status>>
vars == <<opt, fileVars, childVars, chainVars, tokenVars, ctlVars>>

--------------------------------------------------------------------------------
(* Values *)

CommandStates == {"not_started", "deps_running", "running", "finished"}
UpdateStatuses == {"success", "none", "question", "failed"}

\* "unborn": no process yet; "nospawn": pid < 0, it could not be started;
\* "alive": running; an exit kind: dead and not waited for; "reaped": waited for
PidStates == {"unborn", "nospawn", "alive", "reaped"} \cup ExitKinds

MAKE_SUCCESS == 0
MAKE_TROUBLE == 1
MAKE_FAILURE == 2

ReapCallers == {"swj_take", "new_slot", "tok_swj", "new_linear", "caller", "die"}
SwjCallers == {"new_reap", "tok_check", "round_reap"}
NoCaller == "round_reap"
Locations ==
    {"reap", "swj", "new_token", "acquire", "new_start", "internal", "exit"}
        \cup ReapCallers \cup SwjCallers

NoFrame == [block |-> FALSE, err |-> FALSE, ret |-> "caller"]

Init ==
    /\ opt \in Options
    /\ command_state = [f \in Files |-> "not_started"]
    /\ update_status = [f \in Files |-> "none"]
    /\ target = [f \in Files |-> "old"]
    /\ line = [f \in Files |-> 0]
    /\ pid = [f \in Files |-> "unborn"]
    /\ jobslot = {}
    /\ good_stdin = {}
    /\ dontcare = {}
    /\ children = {}
    /\ waiting_jobs = <<>>
    /\ job_slots_used = 0
    /\ good_stdin_used = FALSE
    /\ commands_started = 0
    /\ jobserver_tokens = 0
    /\ pool = IF opt.jobserver THEN Tokens ELSE 0
    /\ others = 0
    /\ pc = "caller"
    /\ reap = NoFrame
    /\ sret = NoCaller
    /\ cur = NoFile
    /\ exit_status = -1

--------------------------------------------------------------------------------
(* Calls and returns *)

CallReap(block, err, ret) ==
    /\ pc' = "reap"
    /\ reap' = [block |-> block, err |-> err, ret |-> ret]

CallStartWaitingJobs(ret) ==
    /\ pc' = "swj"
    /\ sret' = ret

\* die waits for the jobs that hold a slot; a second call exits at once.  It never
\* returns: the calls under way are abandoned
CallDie(status) ==
    /\ exit_status' = status
    /\ pc' = IF exit_status = -1 THEN "die" ELSE "exit"
    /\ reap' = NoFrame
    /\ sret' = NoCaller
    /\ cur' = NoFile

--------------------------------------------------------------------------------
(* Recipe lines *)

\* -q stops at the first line that has text, unless the line is marked +
QuestionStops(l) == l.kind # "empty" /\ opt.question /\ ~l.recursive

\* (mutant) -n is forgotten
PassedOver_RunsAll(l) == ~QuestionStops(l) /\ l.kind \in {"empty", "colon"}

\* start_job_command goes straight on to the next line
PassedOver(l) ==
    /\ ~QuestionStops(l)
    /\ \/ l.kind \in {"empty", "colon"}
       \/ ~l.recursive /\ opt.just_print

Counted(l) == l.kind # "empty" /\ ~QuestionStops(l)

LinesLeft(c) == {i \in (line[c] + 1) .. Len(Recipe[c]) : ~PassedOver(Recipe[c][i])}

NextLine(c, i) == i \in LinesLeft(c) /\ \A j \in LinesLeft(c) : i <= j

\* the lines up to i are used up; those that were counted add to commands_started
UseLines(c, i) ==
    /\ line' = [line EXCEPT ![c] = i]
    /\ commands_started' = commands_started +
           Cardinality({j \in (line[c] + 1) .. i : Counted(Recipe[c][j])})

\* (mutant) a - holds for the lines after it too: noerror is never cleared
Ignored_Sticks(c) == opt.ignore_errors \/ \E i \in 1 .. line[c] : Recipe[c][i].noerror

\* an unignored failure of the line that is running ends the recipe
Ignored(c) == opt.ignore_errors \/ Recipe[c][line[c]].noerror

--------------------------------------------------------------------------------
(* Pieces of the handlers *)

Group(f) == {f} \cup AlsoMake[f]

\* (mutant) the other targets of the recipe are forgotten
Advance_FileOnly(f, state) == [command_state EXCEPT ![f] = state]

\* set_command_state: the other targets of the recipe are only ever moved forward
Advance(f, state) ==
    [g \in Files |->
        IF g = f \/ (g \in AlsoMake[f] /\ command_state[g] \in {"not_started", "deps_running"})
            THEN state ELSE command_state[g]]

\* notice_finished_file, what job.c sees of it.  The other targets of the recipe
\* follow only if the file counts as running: `ran'
NoticeFinished(f, status, ran) ==
    LET done == IF ran THEN Group(f) ELSE {f}
    IN /\ command_state' = [g \in Files |-> IF g \in done THEN "finished" ELSE command_state[g]]
       /\ update_status' = [g \in Files |-> IF g \in done THEN status ELSE update_status[g]]

\* if (c->good_stdin) good_stdin_used = 0
StdinFree(c) == ~good_stdin_used \/ c \in good_stdin

ReleaseStdin(c) ==
    /\ good_stdin_used' = ~StdinFree(c)
    /\ good_stdin' = good_stdin \ {c}

\* delete_child_targets: the targets of a child that never started are left alone
Deleted(c) ==
    IF pid[c] = "nospawn"
        THEN target
        ELSE [g \in Files |->
                 IF g \in Group(c) \ Precious /\ target[g] = "changed"
                     THEN "removed" ELSE target[g]]

\* start line i: the process may fail to start
Spawn(c, i) ==
    /\ UseLines(c, i)
    /\ \E p \in {"alive", "nospawn"} : pid' = [pid EXCEPT ![c] = p]
    /\ good_stdin' = IF StdinFree(c) THEN good_stdin \cup {c} ELSE good_stdin \ {c}
    /\ good_stdin_used' = TRUE
    /\ command_state' = Advance(c, "running")
    /\ UNCHANGED update_status

\* (mutant) the free token is released as well
FreeChild_FreeToken(held) ==
    /\ jobserver_tokens' = held - 1
    /\ pool' = IF opt.jobserver THEN pool + 1 ELSE pool
    /\ UNCHANGED others

\* free_child, called while this make holds `held' tokens
FreeChild(held) ==
    /\ jobserver_tokens' = held - 1
    /\ pool' = IF opt.jobserver /\ held > 1 THEN pool + 1 ELSE pool
    /\ UNCHANGED others

\* a recipe that ends without a process: all its lines were passed over, or -q;
\* `ran' says whether notice_finished_file then finds the file running
EndsWithoutProcess(c, status, ran) ==
    \/ /\ LinesLeft(c) = {}
       /\ UseLines(c, Len(Recipe[c]))
       /\ status = "success" /\ ran
    \/ \E i \in LinesLeft(c) :
          /\ NextLine(c, i)
          /\ QuestionStops(Recipe[c][i])
          /\ UseLines(c, i)
          /\ status = "question" /\ ran = (command_state[c] = "running")

--------------------------------------------------------------------------------
(* start_waiting_job *)

\* (mutant) the load is heeded even when no job runs
LoadTooHigh_NoJobRuns(c, waiting, held) ==
    /\ opt.load
    /\ command_state' = Advance(c, "running")
    /\ waiting_jobs' = <<c>> \o waiting
    /\ jobserver_tokens' = held
    /\ UNCHANGED <<update_status, target, childVars, children, job_slots_used,
                   good_stdin_used, commands_started, pool, others>>

\* the job goes (back) to the head of the waiting list; it holds its token
LoadTooHigh(c, waiting, held) ==
    /\ opt.load /\ job_slots_used > 0
    /\ command_state' = Advance(c, "running")
    /\ waiting_jobs' = <<c>> \o waiting
    /\ jobserver_tokens' = held
    /\ UNCHANGED <<update_status, target, childVars, children, job_slots_used,
                   good_stdin_used, commands_started, pool, others>>

\* the first line runs and the job goes on the chain
Started(c, waiting, held) ==
    /\ \E i \in LinesLeft(c) :
          NextLine(c, i) /\ ~QuestionStops(Recipe[c][i]) /\ Spawn(c, i)
    /\ children' = children \cup {c}
    /\ IF pid'[c] = "alive"
          THEN /\ job_slots_used' = job_slots_used + 1
               /\ jobslot' = jobslot \cup {c}
          ELSE UNCHANGED <<job_slots_used, jobslot>>
    /\ waiting_jobs' = waiting
    /\ jobserver_tokens' = held
    /\ UNCHANGED <<target, dontcare, pool, others>>

\* no line needed a process: the job is over already
FinishedAtOnce(c, waiting, held) ==
    /\ \E status \in {"success", "question"}, ran \in BOOLEAN :
          EndsWithoutProcess(c, status, ran) /\ NoticeFinished(c, status, ran)
    /\ FreeChild(held)
    /\ dontcare' = dontcare \ {c}
    /\ waiting_jobs' = waiting
    /\ UNCHANGED <<target, pid, jobslot, good_stdin, children,
                   job_slots_used, good_stdin_used>>

StartWaitingJob(c, waiting, held) ==
    Started(c, waiting, held) \/ FinishedAtOnce(c, waiting, held)

--------------------------------------------------------------------------------
(* start_waiting_jobs *)

StartWaitingJobs ==
    /\ pc = "swj"
    /\ IF waiting_jobs = <<>>
          THEN pc' = sret /\ sret' = NoCaller /\ UNCHANGED reap
          ELSE CallReap(FALSE, FALSE, "swj_take") /\ UNCHANGED sret
    /\ UNCHANGED <<opt, fileVars, childVars, chainVars, tokenVars, cur, exit_status>>

TakeWaitingJob ==
    /\ pc = "swj_take"
    /\ \/ /\ StartWaitingJob(Head(waiting_jobs), Tail(waiting_jobs), jobserver_tokens)
          /\ pc' = "swj"
          /\ UNCHANGED sret
       \/ /\ LoadTooHigh(Head(waiting_jobs), Tail(waiting_jobs), jobserver_tokens)
          /\ pc' = sret
          /\ sret' = NoCaller
    /\ UNCHANGED <<opt, reap, cur, exit_status>>

--------------------------------------------------------------------------------
(* reap_children *)

\* a child that never started is handled before any wait
Reapable(c) ==
    /\ c \in children
    /\ \/ pid[c] = "nospawn"
       \/ pid[c] \in ExitKinds /\ \A d \in children : pid[d] # "nospawn"

\* nothing on the chain, or nothing dead and the caller does not block
ReapReturns ==
    /\ pc = "reap"
    /\ \/ children = {}
       \/ ~reap.block /\ \A c \in children : ~Reapable(c)
    /\ pc' = reap.ret
    /\ reap' = NoFrame
    /\ UNCHANGED <<opt, fileVars, childVars, chainVars, tokenVars, sret, cur, exit_status>>

ChildFailed(c) ==
    IF pid[c] = "ok" THEN MAKE_SUCCESS
    ELSE IF pid[c] = "one" /\ opt.question /\ Recipe[c][line[c]].recursive THEN MAKE_TROUBLE
    ELSE MAKE_FAILURE

\* the recipe is over: off the chain, its slot and its token given back
Retire(c, status) ==
    /\ NoticeFinished(c, status, TRUE)
    /\ ReleaseStdin(c)
    /\ pid' = [pid EXCEPT ![c] = IF @ = "nospawn" THEN @ ELSE "reaped"]
    /\ jobslot' = jobslot \ {c}
    /\ job_slots_used' = IF job_slots_used > 0 /\ c \in jobslot
                            THEN job_slots_used - 1 ELSE job_slots_used
    /\ children' = children \ {c}
    /\ FreeChild(jobserver_tokens)
    /\ dontcare' = dontcare \ {c}
    /\ UNCHANGED waiting_jobs

\* an unignored failure: without -k the whole run ends
ReapFailed(c) ==
    /\ pc = "reap" /\ Reapable(c)
    /\ ChildFailed(c) # MAKE_SUCCESS /\ ~Ignored(c)
    /\ Retire(c, IF ChildFailed(c) = MAKE_FAILURE THEN "failed" ELSE "question")
    /\ target' = IF pid[c] = "signal" \/ opt.delete_on_error THEN Deleted(c) ELSE target
    /\ IF ~reap.err /\ c \notin dontcare /\ ~opt.keep_going
          THEN CallDie(ChildFailed(c))
          ELSE /\ reap' = [reap EXCEPT !.block = FALSE]
               /\ UNCHANGED <<pc, sret, cur, exit_status>>
    /\ UNCHANGED <<opt, line, commands_started>>

LineDone(c) == ChildFailed(c) = MAKE_SUCCESS \/ Ignored(c)

\* the next line starts, and reap_children goes on looking
ReapNextLine(c) ==
    /\ pc = "reap" /\ Reapable(c) /\ LineDone(c)
    /\ \E i \in LinesLeft(c) :
          NextLine(c, i) /\ ~QuestionStops(Recipe[c][i]) /\ Spawn(c, i)
    /\ UNCHANGED <<opt, target, jobslot, dontcare, children, waiting_jobs,
                   job_slots_used, tokenVars, ctlVars>>

\* (mutant) the recipe is over when its first line is
ReapRecipeOver_OneLine(c) ==
    /\ pc = "reap" /\ Reapable(c) /\ LineDone(c)
    /\ Retire(c, "success")
    /\ reap' = [reap EXCEPT !.block = FALSE]
    /\ UNCHANGED <<opt, line, commands_started, target, pc, sret, cur, exit_status>>

\* no line is left to run: success, or -q stopped at the next one
ReapRecipeOver(c) ==
    /\ pc = "reap" /\ Reapable(c) /\ LineDone(c)
    /\ \E status \in {"success", "question"} :
          /\ EndsWithoutProcess(c, status, TRUE)
          /\ Retire(c, status)
          /\ target' = IF status = "success" THEN target ELSE Deleted(c)
    /\ reap' = [reap EXCEPT !.block = FALSE]
    /\ UNCHANGED <<opt, pc, sret, cur, exit_status>>

--------------------------------------------------------------------------------
(* new_job *)

\* the caller hands over a file; a blank recipe is finished on the spot
ExecuteFileCommands(f, dc) ==
    /\ pc = "caller" /\ exit_status = -1
    /\ command_state[f] = "not_started"
    /\ dc => f \in Optional
    /\ IF Recipe[f] = <<>>
          THEN /\ NoticeFinished(f, "success", TRUE)
               /\ UNCHANGED <<dontcare, pc, sret, cur>>
          ELSE /\ dontcare' = IF dc THEN dontcare \cup {f} ELSE dontcare
               /\ cur' = f
               /\ CallStartWaitingJobs("new_reap")
               /\ UNCHANGED <<command_state, update_status>>
    /\ UNCHANGED <<opt, target, line, pid, jobslot, good_stdin, chainVars, tokenVars,
                   reap, exit_status>>

NewJobReaps ==
    /\ pc = "new_reap"
    /\ CallReap(FALSE, FALSE, "new_slot")
    /\ UNCHANGED <<opt, fileVars, childVars, chainVars, tokenVars, sret, cur, exit_status>>

\* while (job_slots_used == job_slots) reap_children (1, 0)
WaitForSlot ==
    /\ pc = "new_slot"
    /\ IF opt.slots # 0 /\ job_slots_used = opt.slots
          THEN CallReap(TRUE, FALSE, "new_slot")
          ELSE /\ pc' = IF opt.slots = 0 /\ opt.jobserver THEN "new_token" ELSE "new_start"
               /\ UNCHANGED reap
    /\ UNCHANGED <<opt, fileVars, childVars, chainVars, tokenVars, sret, cur, exit_status>>

\* (mutant) a second job runs without a token
NeedToken_OneMore ==
    /\ pc = "new_token"
    /\ IF jobserver_tokens <= 1
          THEN pc' = "new_start" /\ UNCHANGED reap
          ELSE CallReap(FALSE, FALSE, "tok_swj")
    /\ UNCHANGED <<opt, fileVars, childVars, chainVars, tokenVars, sret, cur, exit_status>>

\* the free token is used before any other
NeedToken ==
    /\ pc = "new_token"
    /\ IF jobserver_tokens = 0
          THEN pc' = "new_start" /\ UNCHANGED reap
          ELSE CallReap(FALSE, FALSE, "tok_swj")
    /\ UNCHANGED <<opt, fileVars, childVars, chainVars, tokenVars, sret, cur, exit_status>>

TokenStartsWaiting ==
    /\ pc = "tok_swj"
    /\ CallStartWaitingJobs("tok_check")
    /\ UNCHANGED <<opt, fileVars, childVars, chainVars, tokenVars, reap, cur, exit_status>>

\* "INTERNAL: no children as we go to sleep on read" stops the model
RecheckToken ==
    /\ pc = "tok_check"
    /\ \/ jobserver_tokens = 0 /\ pc' = "new_start"
       \/ jobserver_tokens # 0 /\ children = {} /\ pc' = "internal"
       \/ jobserver_tokens # 0 /\ children # {} /\ pc' = "acquire"
    /\ UNCHANGED <<opt, fileVars, childVars, chainVars, tokenVars, reap, sret, cur, exit_status>>

\* jobserver_acquire: a token, or woken by SIGCHLD, or by the timer that is
\* set while jobs wait for the load
AcquireToken ==
    /\ pc = "acquire"
    /\ \/ /\ pool > 0
          /\ pool' = pool - 1
          /\ pc' = "new_start"
       \/ /\ \/ \E c \in children : pid[c] \in ExitKinds
             \/ waiting_jobs # <<>>
          /\ pc' = "new_token"
          /\ UNCHANGED pool
    /\ UNCHANGED <<opt, fileVars, childVars, chainVars, jobserver_tokens, others,
                   reap, sret, cur, exit_status>>

StartNewJob ==
    /\ pc = "new_start"
    /\ \/ StartWaitingJob(cur, waiting_jobs, jobserver_tokens + 1)
       \/ LoadTooHigh(cur, waiting_jobs, jobserver_tokens + 1)
    /\ pc' = "new_linear"
    /\ UNCHANGED <<opt, reap, sret, cur, exit_status>>

\* with one slot, or .NOTPARALLEL, new_job waits for its own job to end
NewJobReturns ==
    /\ pc = "new_linear"
    /\ IF (opt.slots = 1 \/ opt.not_parallel) /\ command_state[cur] = "running"
          THEN CallReap(TRUE, FALSE, "new_linear") /\ UNCHANGED cur
          ELSE pc' = "caller" /\ cur' = NoFile /\ UNCHANGED reap
    /\ UNCHANGED <<opt, fileVars, childVars, chainVars, tokenVars, sret, exit_status>>

--------------------------------------------------------------------------------
(* die *)

\* (mutant) the wait never sees that all slots are free
DieWaits_Forever ==
    /\ pc = "die" /\ job_slots_used >= 0
    /\ CallReap(TRUE, exit_status # MAKE_SUCCESS, "die")
    /\ UNCHANGED <<opt, fileVars, childVars, chainVars, tokenVars, sret, cur, exit_status>>

DieWaits ==
    /\ pc = "die" /\ job_slots_used > 0
    /\ CallReap(TRUE, exit_status # MAKE_SUCCESS, "die")
    /\ UNCHANGED <<opt, fileVars, childVars, chainVars, tokenVars, sret, cur, exit_status>>

\* (mutant) make exits with slots in use
DieExits_NoWait ==
    /\ pc = "die"
    /\ IF opt.jobserver /\ jobserver_tokens # 0 /\ exit_status = MAKE_FAILURE
          THEN /\ pool' = pool + jobserver_tokens - 1
               /\ jobserver_tokens' = 0
          ELSE UNCHANGED <<pool, jobserver_tokens>>
    /\ pc' = "exit"
    /\ UNCHANGED <<opt, fileVars, childVars, chainVars, others, reap, sret, cur, exit_status>>

\* clean_jobserver: the tokens go back only when the status is 2
DieExits ==
    /\ pc = "die" /\ job_slots_used = 0
    /\ IF opt.jobserver /\ jobserver_tokens # 0 /\ exit_status = MAKE_FAILURE
          THEN /\ pool' = pool + jobserver_tokens - 1
               /\ jobserver_tokens' = 0
          ELSE UNCHANGED <<pool, jobserver_tokens>>
    /\ pc' = "exit"
    /\ UNCHANGED <<opt, fileVars, childVars, chainVars, others, reap, sret, cur, exit_status>>

--------------------------------------------------------------------------------
(* The caller: update_goal_chain waits, and main ends the run *)

WaitRound ==
    /\ pc = "caller" /\ exit_status = -1
    /\ children # {} \/ waiting_jobs # <<>>
    /\ CallStartWaitingJobs("round_reap")
    /\ UNCHANGED <<opt, fileVars, childVars, chainVars, tokenVars, reap, cur, exit_status>>

RoundReaps ==
    /\ pc = "round_reap"
    /\ CallReap(TRUE, FALSE, "caller")
    /\ UNCHANGED <<opt, fileVars, childVars, chainVars, tokenVars, sret, cur, exit_status>>

\* 0 when nothing is left, 1 when -q found something to do, 2 at any time (the caller
\* meets files that no rule makes)
Finish(status) ==
    /\ pc = "caller" /\ exit_status = -1
    /\ status = MAKE_SUCCESS => children = {} /\ waiting_jobs = <<>>
    /\ status = MAKE_TROUBLE => \E f \in Files : update_status[f] = "question"
    /\ CallDie(status)
    /\ UNCHANGED <<opt, fileVars, childVars, chainVars, tokenVars>>

--------------------------------------------------------------------------------
(* Outside make *)

\* a command ends; it may have written its target
ChildExits(c) ==
    /\ pid[c] = "alive"
    /\ \E e \in Exits : pid' = [pid EXCEPT ![c] = e]
    /\ \E W \in SUBSET (Group(c) \cap Writers) :
          target' = [g \in Files |-> IF g \in W THEN "changed" ELSE target[g]]
    /\ UNCHANGED <<opt, command_state, update_status, line, jobslot, good_stdin,
                   dontcare, chainVars, tokenVars, ctlVars>>

PeerTakesToken ==
    /\ Peers /\ pool > 0
    /\ pool' = pool - 1
    /\ others' = others + 1
    /\ UNCHANGED <<opt, fileVars, childVars, chainVars, jobserver_tokens, ctlVars>>

PeerReturnsToken ==
    /\ others > 0
    /\ pool' = pool + 1
    /\ others' = others - 1
    /\ UNCHANGED <<opt, fileVars, childVars, chainVars, jobserver_tokens, ctlVars>>

\* the process has exited
Exited == pc = "exit" /\ UNCHANGED vars

--------------------------------------------------------------------------------

JobStep ==
    \/ StartWaitingJobs \/ TakeWaitingJob
    \/ ReapReturns
    \/ \E c \in Files : ReapFailed(c) \/ ReapNextLine(c) \/ ReapRecipeOver(c)
    \/ NewJobReaps \/ WaitForSlot \/ NeedToken \/ TokenStartsWaiting \/ RecheckToken
    \/ AcquireToken \/ StartNewJob \/ NewJobReturns
    \/ DieWaits \/ DieExits

Caller ==
    \/ \E f \in Files, dc \in BOOLEAN : ExecuteFileCommands(f, dc)
    \/ WaitRound \/ RoundReaps
    \/ \E s \in {MAKE_SUCCESS, MAKE_TROUBLE, MAKE_FAILURE} : Finish(s)

Outside ==
    \/ \E c \in Files : ChildExits(c)
    \/ PeerTakesToken \/ PeerReturnsToken

Next == JobStep \/ Caller \/ Outside \/ Exited

\* make goes on by itself whenever it can, every command ends, other makes give
\* their tokens back and do not snatch every token that make is woken for
Fairness ==
    /\ WF_vars(JobStep \/ Caller)
    /\ \A c \in Files : WF_vars(ChildExits(c))
    /\ WF_vars(PeerReturnsToken)
    /\ SF_vars(AcquireToken)

Spec == Init /\ [][Next]_vars
FairSpec == Spec /\ Fairness

--------------------------------------------------------------------------------
(* Properties *)

TypeOK ==
    /\ opt \in Options
    /\ command_state \in [Files -> CommandStates]
    /\ update_status \in [Files -> UpdateStatuses]
    /\ target \in [Files -> {"old", "changed", "removed"}]
    /\ line \in [Files -> Nat]
    /\ pid \in [Files -> PidStates]
    /\ jobslot \subseteq Files
    /\ good_stdin \subseteq Files
    /\ dontcare \subseteq Files
    /\ children \subseteq Files
    /\ waiting_jobs \in Seq(Files)
    /\ job_slots_used \in Nat
    /\ good_stdin_used \in BOOLEAN
    /\ commands_started \in Nat
    /\ jobserver_tokens \in Nat
    /\ pool \in Nat
    /\ others \in Nat
    /\ pc \in Locations
    /\ reap \in [block : BOOLEAN, err : BOOLEAN, ret : ReapCallers]
    /\ sret \in SwjCallers
    /\ cur \in Files \cup {NoFile}
    /\ exit_status \in {-1, MAKE_SUCCESS, MAKE_TROUBLE, MAKE_FAILURE}

Live == {c \in Files : pid[c] \in ExitKinds \cup {"alive"}}

WaitingSet == {waiting_jobs[i] : i \in DOMAIN waiting_jobs}

\* A line before the one that is running may have failed without ending the recipe
IgnoredEarlier(c) ==
    \E i \in 1 .. (line[c] - 1) : opt.ignore_errors \/ Recipe[c][i].noerror

\* job_slots_used counts the children that hold a slot; a command that runs without
\* one belongs to a recipe whose first command could not be started and was ignored
\* (job.c:1088, 1642: the slot is given only when the first process starts)
SlotAccounting ==
    /\ jobslot \subseteq children
    /\ job_slots_used = Cardinality(jobslot)
    /\ Live \subseteq children
    /\ \A c \in Live \ jobslot : IgnoredEarlier(c)

\* Every job on the chain or held back by the load stands for one token, and no
\* other token is held: free_child never finds none left (job.c:1148, 1890)
TokenAccounting ==
    pc # "exit" => jobserver_tokens = Cardinality(children) + Len(waiting_jobs)

\* The tokens drawn from the jobserver beside the free one, the one acquired for
\* a job that is about to start included
Drawn == IF pc = "new_start" \/ jobserver_tokens = 0
            THEN jobserver_tokens ELSE jobserver_tokens - 1

\* No token of the jobserver is lost or made up while make runs (job.c:1157)
TokenConservation == opt.jobserver => pool + others + Drawn = Tokens

\* With a jobserver the commands running under this make and the tokens other
\* makes hold never add up to more than the -j the user gave
ParallelismBound ==
    opt.jobserver /\ pc # "exit" => Cardinality(Live) + others + pool <= Tokens + 1

\* Without a load limit, -jN never has more than N slots in use (job.c:1829)
SlotLimit == opt.slots # 0 /\ ~opt.load => job_slots_used <= opt.slots

\* One command at a time with -j1 or .NOTPARALLEL, even when a load limit is set
\* and lines of different recipes could overlap (job.c:1919)
OneAtATime == opt.slots = 1 \/ opt.not_parallel => Cardinality(Live) <= 1

\* Of the commands running at once at most one reads the real standard input, and
\* good_stdin_used says whether one does (job.c:981, 1419)
OneGoodStdin ==
    /\ Cardinality(good_stdin) <= 1
    /\ good_stdin_used <=> good_stdin # {}
    /\ good_stdin \subseteq children

\* reap_children never waits for a process when none exists, which would be the
\* fatal error "wait: No child processes" (job.c:771)
WaitHasChild ==
    pc = "reap" => \A c \in children : pid[c] \in {"nospawn", "alive"} \cup ExitKinds

\* make never goes to sleep on the jobserver with no child to wake it (job.c:1867)
NoSleepWithoutChild == pc # "internal"

\* make exits only when no slot is held: a command that still runs then belongs to
\* no job slot, and its recipe lost the slot before it began, when its first command
\* could not be started and the failure was ignored (main.c:3753, job.c:1088)
ExitWaitsForSlots == pc = "exit" => jobslot = {} /\ \A c \in Live : IgnoredEarlier(c)

\* Who holds a slot, while make runs and when it exits: the count that die waits for
\* is the number of children with one, so that none is left behind by an error on the
\* way, and what runs without one had its first command ignored (job.c:1088, main.c:3753)
SlotsHeld == SlotAccounting /\ ExitWaitsForSlots

\* Unless -q ended the run, every token drawn is back in the pipe when make exits
TokensReturned ==
    pc = "exit" /\ opt.jobserver /\ exit_status # MAKE_TROUBLE => pool + others = Tokens

\* A target is reported successful only when a recipe that makes it has used up all
\* its lines and left the chain (job.c:1051, remake.c:1041)
SuccessMeansDone ==
    \A f \in Files :
        command_state[f] = "finished" /\ update_status[f] = "success" =>
            \E g \in Files : f \in Group(g) /\ LinesLeft(g) = {} /\ g \notin children

\* With .DELETE_ON_ERROR a recipe that failed leaves a changed target behind only
\* if its last command could not be started at all (job.c:1002)
HalfBuiltRemoved ==
    opt.delete_on_error =>
        \A f \in Files \ Precious :
            command_state[f] = "finished" /\ update_status[f] = "failed"
                /\ target[f] = "changed" =>
                    \E g \in Files : f \in Group(g) /\ pid[g] = "nospawn"

\* Under -q and -n only the lines marked + ever run, whichever path a line takes
\* to its process: new_job, the waiting list, or reap_children (job.c:1300, 1401)
DryRunRunsOnlyRecursive ==
    opt.question \/ opt.just_print =>
        \A c \in Live : Recipe[c][line[c]].recursive

\* The targets of one recipe never have it run twice, whichever of them it is run
\* for and however its end and its -q answer are passed on to the others (file.c:925)
OneRunForGroup ==
    \A c \in Files : \A d \in Group(c) \ {c} : pid[c] = "unborn" \/ pid[d] = "unborn"

\* What may be said of recipes and their commands at any moment, over all the paths
\* by which a line is started and a child is reaped
RecipesSafe ==
    /\ OneAtATime
    /\ OneGoodStdin
    /\ OneRunForGroup
    /\ SuccessMeansDone
    /\ HalfBuiltRemoved
    /\ DryRunRunsOnlyRecursive
    /\ TokensReturned

\* a process is needed for the line: it has a command, and -n lets it run
NeedsProcess(l) == l.kind = "command" /\ (opt.just_print => l.recursive)

\* make may go on after the command of c that ran last: it succeeded, or its failure
\* is ignored under -i or by the - of its own line, not of an earlier one
MayGoOn(c) == pid[c] = "ok" \/ opt.ignore_errors \/ Recipe[c][line[c]].noerror

\* what a step does with the lines of c
LinesInOrder(c) ==
    /\ line'[c] # line[c] =>
          /\ line[c] < line'[c]
          /\ \A i \in (line[c] + 1) .. (line'[c] - 1) : ~NeedsProcess(Recipe[c][i])
          /\ IF c \in children THEN pid[c] # "alive" /\ MayGoOn(c)
                                ELSE line[c] = 0 /\ pid[c] = "unborn"
    /\ c \in children /\ c \notin children' /\ update_status'[c] = "success" =>
          /\ pid[c] # "alive" /\ MayGoOn(c)
          /\ \A i \in (line[c] + 1) .. Len(Recipe[c]) : ~NeedsProcess(Recipe[c][i])

\* The lines of a recipe are used in order and each once; nothing follows a command
\* that runs or that failed without being ignored, no command is passed over, and
\* what is reported successful had all its commands run: over new_job, the waiting
\* list, reap_children, several recipes at once and processes that do not start
\* (job.c:986, 1035, 1199)
RecipeInOrder == [][\A c \in Files : LinesInOrder(c)]_vars

\* make does not sleep forever and does not run in circles: it exits
Terminates == <>(pc = "exit")

================================================================================
