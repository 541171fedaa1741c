------------------------------- MODULE Jobserver -------------------------------
(***************************************************************************)
(* Several makes on one jobserver (make-4.4/src/posixos.c): a master that  *)
(* made the pipe, the makes its recipes start, and theirs in turn.  Every  *)
(* make runs the token loop of new_job and gives tokens back in free_child *)
(* (job.c); the master collects all of them before it exits                *)
(* (clean_jobserver, main.c).                                              *)
(*                                                                         *)
(* Between the moment a make has looked for dead children and the moment   *)
(* it sleeps on the pipe a child may die.  posixos.c has two ways not to   *)
(* miss it, chosen when make is built: pselect with SIGCHLD blocked        *)
(* everywhere else, and a duplicate of the pipe's descriptor that the      *)
(* handler of SIGCHLD closes.  Both are modelled.                          *)
(***************************************************************************)
EXTENDS Integers, FiniteSets, FiniteSetsExt, TLC

CONSTANTS
    Makes, Master,
    Parent,         \* who starts which make
    Recursive,      \* the makes started by a line marked + or naming $(MAKE)
    Work,           \* how many other commands each make has to run
    Tokens,         \* what jobserver_setup writes: -jN makes N - 1
    Builds,         \* the ways make is built and the styles of the pipe
    MaxFatal        \* how many fatal signals at most

BuildType == [pselect : BOOLEAN, style : {"pipe", "fifo"}]

ASSUME MakesAssumption == IsFiniteSet(Makes) /\ Master \in Makes
ASSUME ParentAssumption ==
    /\ Parent \in [Makes \ {Master} -> Makes]
    /\ \A m \in Makes \ {Master} : Parent[m] # m
ASSUME RecursiveAssumption == Recursive \subseteq Makes
ASSUME WorkAssumption == Work \in [Makes -> Nat]
ASSUME TokensAssumption == Tokens \in Nat
ASSUME BuildsAssumption == Builds \subseteq BuildType
ASSUME MaxFatalAssumption == MaxFatal \in Nat

VARIABLES
    build,
    at,             \* the place each make has reached
    js_type,        \* whether a make uses the jobserver
    jobserver_tokens,
    todo,           \* the commands a make has not started
    commands,       \* its commands that run
    zombies,        \* its commands that are dead and not waited for
    cur,            \* what new_job is about to start
    sigchld,        \* SIGCHLD is pending
    job_rfd,        \* the duplicate descriptor is open
    wfd,            \* the makes that have the write side open
    pipe,           \* the tokens in the pipe
    collected,      \* what the master has read back
    lost,           \* tokens that went with a make that a signal ended
    fatals

procVars == <<todo, commands, zombies>>
vars == <<build, at, js_type, jobserver_tokens, procVars, cur, sigchld, job_rfd, wfd, pipe,
          collected, lost, fatals>>

--------------------------------------------------------------------------------
(* Values *)

Places == {"unborn", "boot", "next", "pre", "reap", "check", "sleep", "read", "start", "wait",
           "collect", "dying", "zombie", "gone"}

Awake == Places \ {"unborn", "zombie", "gone"}

Command == "command"

ASSUME CommandAssumption == Command \notin Makes

Subs(m) == {s \in Makes \ {Master} : Parent[s] = m}

\* the children a make has not waited for
Children(m) == commands[m] + zombies[m] + Cardinality({s \in Subs(m) : at[s] \in Awake \cup {"zombie"}})

DeadSubs(m) == {s \in Subs(m) : at[s] = "zombie"}

HasDead(m) == zombies[m] > 0 \/ DeadSubs(m) # {}

\* the tokens a make has from the pipe: all but the free one
Drawn(m) ==
    IF js_type[m] = "none" \/ jobserver_tokens[m] = 0 THEN 0
    ELSE IF at[m] = "start" THEN jobserver_tokens[m] ELSE jobserver_tokens[m] - 1

Init ==
    /\ build \in Builds
    /\ at = [m \in Makes |-> IF m = Master THEN "next" ELSE "unborn"]
    /\ js_type = [m \in Makes |-> IF m = Master THEN build.style ELSE "none"]
    /\ jobserver_tokens = [m \in Makes |-> 0]
    /\ todo = Work
    /\ commands = [m \in Makes |-> 0]
    /\ zombies = [m \in Makes |-> 0]
    /\ cur = [m \in Makes |-> Command]
    /\ sigchld = [m \in Makes |-> FALSE]
    /\ job_rfd = [m \in Makes |-> m = Master /\ ~build.pselect]
    /\ wfd = {Master}
    /\ pipe = Tokens
    /\ collected = 0 /\ lost = 0 /\ fatals = 0

--------------------------------------------------------------------------------
(* posixos.c *)

\* child_handler and jobserver_signal.  With pselect the signal stays pending
SigChld(m) ==
    IF build.pselect
        THEN /\ sigchld' = [sigchld EXCEPT ![m] = TRUE]
             /\ UNCHANGED job_rfd
        ELSE /\ job_rfd' = [job_rfd EXCEPT ![m] = FALSE]
             /\ UNCHANGED sigchld

\* jobserver_pre_acquire: make sure we have a dup'd descriptor
PreAcquire(m) ==
    /\ at[m] = "pre"
    /\ job_rfd' = [job_rfd EXCEPT ![m] = @ \/ ~build.pselect]
    /\ at' = [at EXCEPT ![m] = "reap"]
    /\ UNCHANGED <<build, js_type, jobserver_tokens, procVars, cur, sigchld, wfd, pipe,
                   collected, lost, fatals>>

\* pselect returns: a signal was pending, or the pipe has something to read
Select(m) ==
    /\ at[m] = "sleep" /\ build.pselect
    /\ \/ /\ sigchld[m]
          /\ sigchld' = [sigchld EXCEPT ![m] = FALSE]
          /\ at' = [at EXCEPT ![m] = "pre"]
       \/ /\ pipe > 0
          /\ at' = [at EXCEPT ![m] = "read"]
          /\ UNCHANGED sigchld
    /\ UNCHANGED <<build, js_type, jobserver_tokens, procVars, cur, job_rfd, wfd, pipe,
                   collected, lost, fatals>>

\* the read that follows does not block: someone may have sniped our token
ReadToken(m) ==
    /\ at[m] = "read"
    /\ IF pipe > 0
          THEN pipe' = pipe - 1 /\ at' = [at EXCEPT ![m] = "start"]
          ELSE at' = [at EXCEPT ![m] = "sleep"] /\ UNCHANGED pipe
    /\ UNCHANGED <<build, js_type, jobserver_tokens, procVars, cur, sigchld, job_rfd, wfd,
                   collected, lost, fatals>>

\* (mutant) the handler of SIGCHLD does not end the read
BlockingRead_Deaf(m) ==
    /\ at[m] = "sleep" /\ ~build.pselect
    /\ pipe > 0
    /\ pipe' = pipe - 1
    /\ at' = [at EXCEPT ![m] = "start"]
    /\ UNCHANGED <<build, js_type, jobserver_tokens, procVars, cur, sigchld, job_rfd, wfd,
                   collected, lost, fatals>>

\* without pselect: the read ends with a token, or with EBADF once the handler has
\* closed the duplicate; after EINTR it is tried again
BlockingRead(m) ==
    /\ at[m] = "sleep" /\ ~build.pselect
    /\ \/ /\ job_rfd[m] /\ pipe > 0
          /\ pipe' = pipe - 1
          /\ at' = [at EXCEPT ![m] = "start"]
       \/ /\ ~job_rfd[m]
          /\ at' = [at EXCEPT ![m] = "pre"]
          /\ UNCHANGED pipe
    /\ UNCHANGED <<build, js_type, jobserver_tokens, procVars, cur, sigchld, job_rfd, wfd,
                   collected, lost, fatals>>

--------------------------------------------------------------------------------
(* new_job *)

\* what is left to start: a command, or a make
Startable(m) ==
    (IF todo[m] > 0 THEN {Command} ELSE {}) \cup {s \in Subs(m) : at[s] = "unborn"}

\* the free token is used first.  A make that has no jobserver runs one job at a time
NewJob(m) ==
    /\ at[m] = "next" /\ Startable(m) # {}
    /\ \E x \in Startable(m) : cur' = [cur EXCEPT ![m] = x]
    /\ at' = [at EXCEPT ![m] =
                 IF js_type[m] = "none"
                     THEN IF Children(m) > 0 THEN "wait" ELSE "start"
                     ELSE IF jobserver_tokens[m] = 0 THEN "start" ELSE "pre"]
    /\ UNCHANGED <<build, js_type, jobserver_tokens, procVars, sigchld, job_rfd, wfd, pipe,
                   collected, lost, fatals>>

\* (mutant) the token of a dead child stays with the make
FreeChild_Kept(m) ==
    /\ jobserver_tokens' = [jobserver_tokens EXCEPT ![m] = @ - 1]
    /\ pipe' = pipe

\* free_child
FreeChild(m) ==
    /\ jobserver_tokens' = [jobserver_tokens EXCEPT ![m] = @ - 1]
    /\ pipe' = IF js_type[m] # "none" /\ jobserver_tokens[m] > 1 THEN pipe + 1 ELSE pipe

\* reap_children takes one dead child: a command, or a make
ReapOne(m) ==
    /\ at[m] \in {"reap", "wait", "dying"}
    /\ \/ /\ zombies[m] > 0
          /\ zombies' = [zombies EXCEPT ![m] = @ - 1]
          /\ at' = [at EXCEPT ![m] = IF @ = "wait" THEN "next" ELSE @]
       \/ \E s \in DeadSubs(m) :
             /\ at' = [at EXCEPT ![m] = IF @ = "wait" THEN "next" ELSE @, ![s] = "gone"]
             /\ UNCHANGED zombies
    /\ FreeChild(m)
    /\ UNCHANGED <<build, js_type, todo, commands, cur, sigchld, job_rfd, wfd, collected,
                   lost, fatals>>

ReapEnds(m) ==
    /\ at[m] = "reap" /\ ~HasDead(m)
    /\ at' = [at EXCEPT ![m] = "check"]
    /\ UNCHANGED <<build, js_type, jobserver_tokens, procVars, cur, sigchld, job_rfd, wfd, pipe,
                   collected, lost, fatals>>

\* (mutant) the duplicate is opened after the dead have been looked for
CheckAgain_Reopens(m) ==
    /\ at[m] = "check"
    /\ job_rfd' = [job_rfd EXCEPT ![m] = @ \/ ~build.pselect]
    /\ at' = [at EXCEPT ![m] = IF jobserver_tokens[m] = 0 THEN "start" ELSE "sleep"]
    /\ UNCHANGED <<build, js_type, jobserver_tokens, procVars, cur, sigchld, wfd, pipe,
                   collected, lost, fatals>>

CheckAgain(m) ==
    /\ at[m] = "check"
    /\ at' = [at EXCEPT ![m] = IF jobserver_tokens[m] = 0 THEN "start" ELSE "sleep"]
    /\ UNCHANGED <<build, js_type, jobserver_tokens, procVars, cur, sigchld, job_rfd, wfd, pipe,
                   collected, lost, fatals>>

\* jobserver_pre_child lets only a recursive command inherit the pipe
Inherits(m, s) == js_type[m] = "pipe" /\ s \in Recursive

\* (mutant) the child is not counted against the tokens
Start_NotCounted(m) ==
    /\ at[m] = "start"
    /\ UNCHANGED jobserver_tokens
    /\ IF cur[m] = Command
          THEN /\ todo' = [todo EXCEPT ![m] = @ - 1]
               /\ commands' = [commands EXCEPT ![m] = @ + 1]
               /\ at' = [at EXCEPT ![m] = "next"]
               /\ UNCHANGED <<js_type, wfd>>
          ELSE /\ at' = [at EXCEPT ![m] = "next", ![cur[m]] = "boot"]
               /\ js_type' = [js_type EXCEPT ![cur[m]] = IF Inherits(m, cur[m]) THEN "pipe" ELSE "none"]
               /\ wfd' = IF Inherits(m, cur[m]) THEN wfd \cup {cur[m]} ELSE wfd
               /\ UNCHANGED <<todo, commands>>
    /\ UNCHANGED <<build, zombies, cur, sigchld, job_rfd, pipe, collected, lost, fatals>>

\* ++jobserver_tokens, and the child is started: a command, or a make
Start(m) ==
    /\ at[m] = "start"
    /\ jobserver_tokens' = [jobserver_tokens EXCEPT ![m] = @ + 1]
    /\ IF cur[m] = Command
          THEN /\ todo' = [todo EXCEPT ![m] = @ - 1]
               /\ commands' = [commands EXCEPT ![m] = @ + 1]
               /\ at' = [at EXCEPT ![m] = "next"]
               /\ UNCHANGED <<js_type, wfd>>
          ELSE /\ at' = [at EXCEPT ![m] = "next", ![cur[m]] = "boot"]
               /\ js_type' = [js_type EXCEPT ![cur[m]] = IF Inherits(m, cur[m]) THEN "pipe" ELSE "none"]
               /\ wfd' = IF Inherits(m, cur[m]) THEN wfd \cup {cur[m]} ELSE wfd
               /\ UNCHANGED <<todo, commands>>
    /\ UNCHANGED <<build, zombies, cur, sigchld, job_rfd, pipe, collected, lost, fatals>>

\* jobserver_parse_auth in the make that was started.  Without the pipe it warns and
\* runs one job at a time; without the fifo, which the master may have removed
\* meanwhile, it dies
Boot(m) ==
    /\ at[m] = "boot"
    /\ build.style = "fifo" => js_type[Master] = "fifo"
    /\ js_type' = [js_type EXCEPT ![m] = IF build.style = "fifo" THEN "fifo" ELSE @]
    /\ wfd' = IF js_type'[m] = "none" THEN wfd ELSE wfd \cup {m}
    /\ job_rfd' = [job_rfd EXCEPT ![m] = ~build.pselect /\ js_type'[m] # "none"]
    /\ at' = [at EXCEPT ![m] = "next"]
    /\ UNCHANGED <<build, jobserver_tokens, procVars, cur, sigchld, pipe, collected, lost, fatals>>

NoFifo(m) ==
    /\ at[m] = "boot" /\ build.style = "fifo" /\ js_type[Master] = "none"
    /\ at' = [at EXCEPT ![m] = "zombie"]
    /\ SigChld(Parent[m])
    /\ UNCHANGED <<build, js_type, jobserver_tokens, procVars, cur, wfd, pipe, collected, lost,
                   fatals>>

\* nothing left to start: wait for what runs
WaitForChildren(m) ==
    /\ at[m] = "next" /\ Startable(m) = {} /\ Children(m) > 0
    /\ at' = [at EXCEPT ![m] = "wait"]
    /\ UNCHANGED <<build, js_type, jobserver_tokens, procVars, cur, sigchld, job_rfd, wfd, pipe,
                   collected, lost, fatals>>

--------------------------------------------------------------------------------
(* The end of a make *)

\* an error: nothing more is started, die waits for the children
GivesUp(m) ==
    /\ at[m] = "next" /\ Startable(m) # {}
    /\ todo' = [todo EXCEPT ![m] = 0]
    /\ at' = [s \in Makes |-> IF s \in Subs(m) /\ at[s] = "unborn" THEN "gone" ELSE at[s]]
    /\ UNCHANGED <<build, js_type, jobserver_tokens, commands, zombies, cur, sigchld, job_rfd,
                   wfd, pipe, collected, lost, fatals>>

\* a make other than the master exits: its descriptors close, its parent is told
Exits(m) ==
    /\ m # Master
    /\ \/ at[m] = "next" /\ Startable(m) = {} /\ Children(m) = 0
       \/ at[m] = "dying" /\ Children(m) = 0
    /\ at' = [at EXCEPT ![m] = "zombie"]
    /\ wfd' = wfd \ {m}
    /\ SigChld(Parent[m])
    /\ UNCHANGED <<build, js_type, jobserver_tokens, procVars, cur, pipe, collected, lost, fatals>>

\* jobserver_acquire_all: the master closes its write side
CollectBegins ==
    /\ at[Master] = "next" /\ Startable(Master) = {} /\ Children(Master) = 0
    /\ at' = [at EXCEPT ![Master] = "collect"]
    /\ wfd' = wfd \ {Master}
    /\ UNCHANGED <<build, js_type, jobserver_tokens, procVars, cur, sigchld, job_rfd, pipe,
                   collected, lost, fatals>>

\* and reads until the end of the file, which comes when no write side is open
Collect ==
    /\ at[Master] = "collect"
    /\ \/ /\ pipe > 0
          /\ pipe' = pipe - 1
          /\ collected' = collected + 1
          /\ UNCHANGED at
       \/ /\ pipe = 0 /\ wfd = {}
          /\ at' = [at EXCEPT ![Master] = "gone"]
          /\ UNCHANGED <<pipe, collected>>
    /\ UNCHANGED <<build, js_type, jobserver_tokens, procVars, cur, sigchld, job_rfd, wfd, lost,
                   fatals>>

\* a fatal signal: the handler closes the jobserver at once, and only then waits for
\* the children, whose tokens cannot be written back any more
Fatal(m) ==
    /\ fatals < MaxFatal
    /\ at[m] \in Awake \ {"dying", "collect"}
    /\ fatals' = fatals + 1
    /\ lost' = lost + Drawn(m)
    /\ js_type' = [js_type EXCEPT ![m] = "none"]
    /\ job_rfd' = [job_rfd EXCEPT ![m] = FALSE]
    /\ wfd' = wfd \ {m}
    /\ todo' = [todo EXCEPT ![m] = 0]
    /\ at' = [s \in Makes |-> IF s = m THEN "dying"
                              ELSE IF s \in Subs(m) /\ at[s] = "unborn" THEN "gone" ELSE at[s]]
    /\ UNCHANGED <<build, jobserver_tokens, commands, zombies, cur, sigchld, pipe, collected>>

\* the master does not collect the tokens when a signal ends it
MasterDies ==
    /\ at[Master] = "dying" /\ Children(Master) = 0
    /\ at' = [at EXCEPT ![Master] = "gone"]
    /\ UNCHANGED <<build, js_type, jobserver_tokens, procVars, cur, sigchld, job_rfd, wfd, pipe,
                   collected, lost, fatals>>

--------------------------------------------------------------------------------
(* The commands *)

CommandEnds(m) ==
    /\ commands[m] > 0
    /\ commands' = [commands EXCEPT ![m] = @ - 1]
    /\ zombies' = [zombies EXCEPT ![m] = @ + 1]
    /\ SigChld(m)
    /\ UNCHANGED <<build, at, js_type, jobserver_tokens, todo, cur, wfd, pipe, collected, lost,
                   fatals>>

--------------------------------------------------------------------------------

MakeStep(m) ==
    \/ NewJob(m) \/ PreAcquire(m) \/ ReapOne(m) \/ ReapEnds(m) \/ CheckAgain(m)
    \/ Select(m) \/ ReadToken(m) \/ BlockingRead(m) \/ Start(m) \/ Boot(m) \/ NoFifo(m)
    \/ WaitForChildren(m) \/ Exits(m)
    \/ m = Master /\ (CollectBegins \/ Collect \/ MasterDies)

Next == \E m \in Makes : MakeStep(m) \/ CommandEnds(m) \/ GivesUp(m) \/ Fatal(m)

\* every make goes on by itself, and every command ends
Fairness ==
    \A m \in Makes : WF_vars(MakeStep(m)) /\ WF_vars(CommandEnds(m))

Spec == Init /\ [][Next]_vars
FairSpec == Spec /\ Fairness

--------------------------------------------------------------------------------
(* Properties *)

TypeOK ==
    /\ build \in Builds
    /\ at \in [Makes -> Places]
    /\ js_type \in [Makes -> {"none", "pipe", "fifo"}]
    /\ jobserver_tokens \in [Makes -> Nat]
    /\ todo \in [Makes -> Nat] /\ commands \in [Makes -> Nat] /\ zombies \in [Makes -> Nat]
    /\ cur \in [Makes -> Makes \cup {Command}]
    /\ sigchld \in [Makes -> BOOLEAN] /\ job_rfd \in [Makes -> BOOLEAN]
    /\ wfd \subseteq Makes
    /\ pipe \in Nat /\ collected \in Nat /\ lost \in Nat /\ fatals \in 0 .. MaxFatal

\* The jobserver is the pool it promises to be, whichever way make is built
Pool == INSTANCE TokenPool WITH
            free <- pipe,
            held <- [m \in Makes |-> Drawn(m)],
            lost <- lost

ImplementsPool == Pool!Spec

\* A make that sleeps on the pipe while a child of its lies dead is about to wake:
\* the death is never missed, however late it comes (posixos.c:498, 553)
NoDeathMissed ==
    \A m \in Makes :
        at[m] = "sleep" /\ HasDead(m) =>
            IF build.pselect THEN sigchld[m] ELSE ~job_rfd[m]

\* The commands of all makes together are never more than -j allows, also while a
\* make dies (posixos.c:240, job.c:1846)
AllCommandsBounded ==
    MapThenSumSet(LAMBDA m : commands[m], Makes) <= Tokens + 1

\* When the master is gone every token it had made is accounted for: read back, still
\* in the pipe because a signal ended the master, or lost with a make that a signal
\* ended; and no other make is left that could hold one (main.c:3722)
MasterFindsAll ==
    at[Master] = "gone" =>
        /\ collected + pipe + lost = Tokens
        /\ fatals = 0 => collected = Tokens
        /\ \A m \in Makes : at[m] \notin Awake

\* All tokens and all commands are accounted for, at any moment and at the end
Accounted == TypeOK /\ AllCommandsBounded /\ MasterFindsAll

\* All makes come to their end, and the master's wait for the end of the pipe too
AllEnd == <>(at[Master] = "gone")
================================================================================
