--------------------------------- MODULE JobInv --------------------------------
(***************************************************************************)
(* The inductive invariant of Job: what holds between any two steps of     *)
(* make and makes its accounting invariants provable.  Each part is        *)
(* checked by TLC as an invariant of a run and proved in JobProof.         *)
(***************************************************************************)
EXTENDS Job

OnChain == {"nospawn", "alive"} \cup ExitKinds
OffChain == {"unborn", "nospawn", "reaped"}

\* The chain holds exactly the recipes that have a process, or one that could not
\* be started, to be reaped; the slots are those of the children whose first
\* process was started
ChainInv ==
    /\ \A c \in children :
          /\ pid[c] \in OnChain
          /\ line[c] \in 1 .. Len(Recipe[c])
          /\ c \in jobslot \/ pid[c] = "nospawn" \/ IgnoredEarlier(c)
    /\ \A c \in Files \ children : pid[c] \in OffChain
    /\ jobslot \subseteq children
    /\ job_slots_used = Cardinality(jobslot)

\* A recipe that has not run yet
Fresh(c) == c \in Files /\ c \notin children /\ pid[c] = "unborn"

\* Different recipes that have been handed over and have not run yet
WaitList(s) ==
    /\ \A i \in 1 .. Len(s) : Fresh(s[i]) /\ command_state[s[i]] # "not_started"
    /\ \A i, j \in 1 .. Len(s) : s[i] = s[j] => i = j

\* c is not one of the jobs in s
NotIn(c, s) == \A i \in 1 .. Len(s) : s[i] # c

\* The jobs held back by the load are different and have not run yet
WaitingInv == WaitList(waiting_jobs)

\* What has run, or is held back, is not handed over a second time
OnceInv ==
    \A f \in Files : command_state[f] = "not_started" => Fresh(f)

InSwj == pc \in {"swj", "swj_take"} \/ (pc = "reap" /\ reap.ret = "swj_take")

\* new_job has a file and has not started it
InNewJob ==
    \/ pc \in {"new_reap", "new_slot", "new_token", "tok_swj", "tok_check", "acquire", "new_start"}
    \/ pc = "reap" /\ reap.ret \in {"new_slot", "tok_swj"}
    \/ InSwj /\ sret \in {"new_reap", "tok_check"}

\* new_job is after a token of the jobserver
InToken ==
    \/ pc \in {"new_token", "tok_swj", "tok_check", "acquire"}
    \/ pc = "reap" /\ reap.ret = "tok_swj"
    \/ InSwj /\ sret = "tok_check"

CurInv ==
    InNewJob => Fresh(cur) /\ NotIn(cur, waiting_jobs)

\* Where make takes a job off the waiting list there is one; where it is about to
\* sleep on the jobserver there is a child
ControlInv ==
    /\ pc = "swj_take" \/ (pc = "reap" /\ reap.ret = "swj_take") => waiting_jobs # <<>>
    /\ pc = "tok_check" => waiting_jobs = <<>> \/ children # {}
    /\ pc = "acquire" => children # {}
    /\ InToken => opt.slots = 0 /\ opt.jobserver
    /\ pc # "internal"

\* Without a load limit nothing is held back, and the new job finds a slot
SlotInv ==
    opt.slots # 0 /\ ~opt.load =>
        /\ waiting_jobs = <<>>
        /\ job_slots_used <= opt.slots
        /\ pc = "new_start" => job_slots_used < opt.slots

IInv ==
    /\ TypeOK /\ ChainInv /\ WaitingInv /\ OnceInv /\ CurInv /\ ControlInv /\ SlotInv
    /\ TokenAccounting /\ TokenConservation

--------------------------------------------------------------------------------
(* Recipes *)

Linear == opt.slots = 1 \/ opt.not_parallel

\* die has been called or it has not, and what is left when it ends
ExitInv ==
    /\ exit_status # -1 <=> pc \in {"die", "exit"} \/ (pc = "reap" /\ reap.ret = "die")
    /\ pc = "reap" /\ exit_status # -1 => (reap.err <=> exit_status # MAKE_SUCCESS)
    /\ exit_status = MAKE_SUCCESS => children = {} /\ waiting_jobs = <<>>
    /\ pc = "exit" => job_slots_used = 0
    /\ pc = "exit" /\ opt.jobserver /\ exit_status # MAKE_TROUBLE => jobserver_tokens = 0

\* one job at a time: the one whose end new_job waits for
LinearInv ==
    Linear =>
        /\ waiting_jobs = <<>>
        /\ \/ children = {}
           \/ /\ children = {cur} /\ command_state[cur] = "running"
              /\ pc = "new_linear" \/ (pc = "reap" /\ reap.ret = "new_linear")

\* good_stdin_used stands for the one child on the chain that reads standard input
StdinInv ==
    /\ \A c, d \in good_stdin : c = d
    /\ good_stdin_used <=> good_stdin # {}
    /\ good_stdin \subseteq children

Held == {waiting_jobs[i] : i \in 1 .. Len(waiting_jobs)}

\* -q stops before any line of c has run
StopsAtOnce(c) ==
    \E i \in 1 .. Len(Recipe[c]) :
        QuestionStops(Recipe[c][i]) /\ \A j \in 1 .. (i - 1) : PassedOver(Recipe[c][j])

\* a group of targets has one recipe under way: nobody else starts it, and the targets
\* stay unfinished until it ends, but for those -q has stopped at
GroupInv ==
    /\ \A c \in Files : command_state[c] # "deps_running"
    /\ \A c \in Files : command_state[c] = "not_started" => line[c] = 0
    /\ \A c \in children : \A g \in Group(c) : command_state[g] = "running"
    /\ \A c \in Held :
          /\ command_state[c] = "running" /\ line[c] = 0
          /\ \A g \in Group(c) : command_state[g] # "not_started"
    /\ \A c, d \in children \cup Held : d \in Group(c) => c = d
    /\ \A g \in Files : command_state[g] = "finished" =>
          \/ \A h \in Group(g) : command_state[h] = "finished"
          \/ update_status[g] = "question" /\ StopsAtOnce(g)
    /\ InNewJob => command_state[cur] = "not_started"

\* a recipe that has run, or had a process that did not start, is not handed over for
\* another target, and a recipe that is held back has run for none
RunInv ==
    /\ OneRunForGroup
    /\ \A c \in Files : pid[c] # "unborn" => \A g \in Group(c) : command_state[g] # "not_started"
    /\ \A c \in Held : \A g \in Group(c) : pid[g] = "unborn"

SafeInv ==
    /\ IInv /\ ExitInv /\ LinearInv /\ StdinInv /\ GroupInv /\ RunInv
    /\ SuccessMeansDone /\ HalfBuiltRemoved /\ DryRunRunsOnlyRecursive

================================================================================
