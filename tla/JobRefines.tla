------------------------------- MODULE JobRefines ------------------------------
(***************************************************************************)
(* Job implements Jobs: the phases are command_state, the statuses         *)
(* update_status, and make has stopped when it has exited.                 *)
(***************************************************************************)
EXTENDS Job

Phase(state) ==
    IF state = "not_started" THEN "new" ELSE IF state = "finished" THEN "done" ELSE "running"

J == INSTANCE Jobs WITH
        phase <- [f \in Files |-> Phase(command_state[f])],
        status <- update_status,
        stopped <- pc = "exit"

\* Every step of the engine is a step of Jobs or changes nothing the update walk can
\* see: the targets of a recipe are finished together, none is taken back, and the
\* status of a finished file is never revised, although its recipe may go on for
\* another target (file.c:925, remake.c:1041)
ImplementsJobs == J!Spec

\* A recipe that is handed over, held back by the load or waiting for a token is
\* finished, for each of its targets, unless make exits: start_waiting_jobs, the
\* wait on the jobserver and reap_children never leave it behind (job.c:636, 1869, 2139)
RecipesEnd == J!Ends

================================================================================
