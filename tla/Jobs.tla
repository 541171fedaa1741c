---------------------------------- MODULE Jobs ---------------------------------
(***************************************************************************)
(* What the job engine promises to the update walk (remake.c), which sees  *)
(* nothing of slots, tokens, processes or lines: a file handed over is     *)
(* running until it is finished, with the other targets of its recipe, and *)
(* what is finished stays as it is.                                        *)
(***************************************************************************)
EXTENDS FiniteSets

CONSTANTS
    Files,      \* the files that have a recipe
    AlsoMake    \* the other targets the recipe of each file makes

VARIABLES
    phase,      \* "new", "running" or "done"
    status,     \* how it ended
    stopped     \* make has exited

vars == <<phase, status, stopped>>

Group(f) == {f} \cup AlsoMake[f]
Statuses == {"success", "question", "failed"}

TypeOK ==
    /\ phase \in [Files -> {"new", "running", "done"}]
    /\ status \in [Files -> Statuses \cup {"none"}]
    /\ stopped \in BOOLEAN

Init ==
    /\ phase = [f \in Files |-> "new"]
    /\ status = [f \in Files |-> "none"]
    /\ stopped = FALSE

\* the recipe of f starts, or is held back: from now on its targets are not new
Start(f) ==
    /\ ~stopped /\ phase[f] = "new"
    /\ phase' = [g \in Files |-> IF g \in Group(f) /\ phase[g] = "new"
                                    THEN "running" ELSE phase[g]]
    /\ UNCHANGED <<status, stopped>>

\* the recipe of f is over, for all its targets; -q may stop at f before the
\* recipe has started, and then speaks of f alone.  Another target that is already
\* finished keeps the status it has
Finish(f, D, s) ==
    /\ ~stopped /\ phase[f] # "done"
    /\ D = Group(f) \/ (D = {f} /\ phase[f] = "new" /\ s = "question")
    /\ \A g \in D : phase[g] = "done" => status[g] = s
    /\ phase' = [g \in Files |-> IF g \in D THEN "done" ELSE phase[g]]
    /\ status' = [g \in Files |-> IF g \in D THEN s ELSE status[g]]

\* make exits, at the end of the walk or at the failure it has just seen
Stop == ~stopped /\ stopped' = TRUE /\ UNCHANGED <<phase, status>>

Next ==
    \/ \E f \in Files : Start(f)
    \/ \E f \in Files, s \in Statuses : \E D \in {{f}, Group(f)} :
          Finish(f, D, s) /\ UNCHANGED stopped
    \/ Stop

Spec == Init /\ [][Next]_vars

\* and what is handed over is finished, unless make stops first
Ends == \A f \in Files : phase[f] = "running" ~> (phase[f] = "done" \/ stopped)

================================================================================
