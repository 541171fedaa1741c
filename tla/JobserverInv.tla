------------------------------ MODULE JobserverInv ------------------------------
(***************************************************************************)
(* The inductive invariant of Jobserver: what the makes that share a pipe  *)
(* keep true at every step, which the properties of Jobserver follow from. *)
(***************************************************************************)
EXTENDS Jobserver

\* the sum of a function over all makes
SumOver(f) == MapThenSumSet(LAMBDA m : f[m], Makes)

Alive == Awake \cup {"zombie"}

LiveSubs(m) == {s \in Subs(m) : at[s] \in Alive}

LiveMakes == {s \in Makes \ {Master} : at[s] \in Alive}

\* the places where a make may have children
Parenting == Awake \ {"boot", "collect"}

\* between the choice of what to start and its start (new_job)
Starting == {"pre", "reap", "check", "sleep", "read", "start"}

\* the master is never started, and only the master collects
MasterPlace ==
    /\ at[Master] \notin {"unborn", "boot", "zombie"}
    /\ \A m \in Makes : at[m] = "collect" => m = Master

\* what new_job has chosen is still there to be started: nobody else starts it or
\* gives it up
ChosenIsLeft ==
    \A m \in Makes :
        at[m] \in Starting =>
            IF cur[m] = Command THEN todo[m] > 0
            ELSE cur[m] \in Subs(m) /\ at[cur[m]] = "unborn"

\* jobserver_tokens counts the children that run or have not been waited for
ChildrenCounted == \A m \in Makes : jobserver_tokens[m] = Children(m)

\* a make that is not running, boots or collects has no children
IdleOutside == \A m \in Makes : at[m] \notin Parenting => jobserver_tokens[m] = 0

\* a make sleeps on the pipe only with a jobserver and with the free token in use;
\* without a jobserver it starts only when nothing runs
TokenInHand ==
    \A m \in Makes :
        /\ at[m] \in {"pre", "reap", "check", "sleep", "read"} => js_type[m] # "none"
        /\ at[m] \in {"sleep", "read"} => jobserver_tokens[m] > 0
        /\ at[m] = "start" /\ js_type[m] = "none" => jobserver_tokens[m] = 0

\* a make runs only if the master does: makes that would only be started by each
\* other never run
NoOrphans ==
    \A X \in SUBSET (Makes \ {Master}) :
        (\A s \in X : Parent[s] \in X) => \A s \in X : at[s] \notin Alive

\* the tokens a make held are gone with its descriptors, but its commands still run
Excess(m) ==
    IF js_type[m] = "none" /\ jobserver_tokens[m] > 0 THEN jobserver_tokens[m] - 1 ELSE 0

DrawnBy == [m \in Makes |-> Drawn(m)]
ExcessBy == [m \in Makes |-> Excess(m)]

\* no token appears or vanishes
TokensKept == pipe + collected + lost + SumOver(DrawnBy) = Tokens

\* the commands that run without a token belong to makes a signal ended
ExcessCovered == SumOver(ExcessBy) <= lost

\* every slot in use is a command, a dead command, or a make
SlotsKept ==
    SumOver(jobserver_tokens) = SumOver(commands) + SumOver(zombies) + Cardinality(LiveMakes)

\* without a signal nothing is lost, and the master leaves an empty pipe
PeacefulEnd ==
    fatals = 0 =>
        /\ lost = 0
        /\ \A m \in Makes : at[m] # "dying"
        /\ at[Master] = "gone" => pipe = 0

\* a child that has died since the last look has left its mark: a pending SIGCHLD, or
\* a closed duplicate (posixos.c:498, 553)
DeathMarked ==
    \A m \in Makes :
        at[m] \in {"check", "sleep", "read"} /\ HasDead(m) =>
            IF build.pselect THEN sigchld[m] ELSE ~job_rfd[m]

IInv ==
    /\ TypeOK /\ MasterPlace /\ ChosenIsLeft /\ ChildrenCounted /\ IdleOutside
    /\ TokenInHand /\ NoOrphans /\ TokensKept /\ ExcessCovered /\ SlotsKept
    /\ PeacefulEnd /\ DeathMarked
================================================================================
