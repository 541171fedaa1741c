--------------------------------- MODULE Signal ---------------------------------
(***************************************************************************)
(* How GNU Make dies of a signal: fatal_error_signal (make-4.4/src/        *)
(* commands.c) running on top of whatever make was doing in job.c.         *)
(*                                                                         *)
(* A handler may interrupt make wherever the fatal signals are not         *)
(* blocked, and it works on the same chain of children, so the steps       *)
(* between which a signal can fall are actions of their own: the wait for  *)
(* a child, what is then done with its recipe, and the three assignments   *)
(* that take it off the chain.  `stack' holds the frames: main at the      *)
(* bottom, on top of it one for every handler that has begun.  A signal    *)
(* that has arrived and is not blocked is delivered before anything else   *)
(* runs.                                                                   *)
(***************************************************************************)
EXTENDS Integers, Sequences, FiniteSets

CONSTANTS
    Children,       \* the recipes, one child each
    Lines,          \* how many lines each one has
    Precious,       \* those whose target delete_target leaves alone
    Signals,        \* the fatal signals that may arrive
    MaxArrivals,    \* how many arrive at most
    NoChild

\* commands.c:552: the signals that remove the targets being made
Interrupts == {"SIGTERM", "SIGINT", "SIGHUP", "SIGQUIT"}
FatalSignals == Interrupts \cup {"SIGXCPU"}

ASSUME ChildrenAssumption == IsFiniteSet(Children) /\ NoChild \notin Children
ASSUME LinesAssumption == Lines \in [Children -> Nat \ {0}]
ASSUME PreciousAssumption == Precious \subseteq Children
ASSUME SignalsAssumption == Signals \subseteq FatalSignals
ASSUME ArrivalsAssumption == MaxArrivals \in Nat

VARIABLES
    (* the processes and their files *)
    proc,           \* the process of the current line
    target,         \* what is on disk: as before, partly written, removed
    late,           \* the targets written after make deleted them
    (* struct child *)
    left,           \* the lines not yet run
    deleted,        \* the children whose targets were deleted
    (* job.c *)
    chain, job_slots_used,
    (* signals *)
    arrived,        \* how many have arrived
    pending, mask, dfl,
    handling,       \* handling_fatal_signal
    stack,
    intermediates,  \* the intermediate files: kept or removed
    end,            \* how the process ended
    struck          \* history: the jobs on the chain when the first handler began

childVars == <<left, deleted>>
chainVars == <<chain, job_slots_used>>
vars == <<proc, target, late, childVars, chainVars, arrived, pending, mask, dfl,
          handling, stack, intermediates, end, struck>>

--------------------------------------------------------------------------------
(* Values *)

\* "killed" is alive with a SIGTERM of make's to answer
Alive == {"alive", "killed"}
Zombies == {"ok", "fail", "signal"}
ProcStates == {"unborn", "reaped"} \cup Alive \cup Zombies

Places == {"run", "die",                                \* main
           "kill", "delete", "wait", "clean", "again",  \* fatal_error_signal
           "got", "unlink", "off"}                      \* reap_children

\* sig: the signal a handler runs for; at: the place reached; back: where
\* reap_children returns to; child: the one being reaped; saved: the mask to restore
Frames == [sig : Signals \cup {"main"}, at : Places, back : Places,
           child : Children \cup {NoChild}, how : Zombies, saved : SUBSET Signals]

Main == [sig |-> "main", at |-> "run", back |-> "run", child |-> NoChild,
         how |-> "ok", saved |-> {}]

Init ==
    /\ proc = [c \in Children |-> "unborn"]
    /\ target = [c \in Children |-> "old"]
    /\ late = {}
    /\ left = Lines
    /\ deleted = {}
    /\ chain = {} /\ job_slots_used = 0
    /\ arrived = 0 /\ pending = {} /\ mask = {} /\ dfl = {}
    /\ handling = FALSE
    /\ stack = <<Main>>
    /\ intermediates = "kept"
    /\ end = "running"
    /\ struck = {}

--------------------------------------------------------------------------------
(* Frames *)

Top == stack[Len(stack)]

\* the program takes a step only when no signal is due
Running == end = "running" /\ pending \ mask = {}

At(place) == Running /\ Top.at = place

SetTop(frame) == stack' = [stack EXCEPT ![Len(stack)] = frame]

\* the frame when no child is being reaped
Idle == [Top EXCEPT !.back = "run", !.child = NoChild, !.how = "ok"]

Goto(place) == SetTop([Top EXCEPT !.at = place])

--------------------------------------------------------------------------------
(* job.c *)

\* new_job: the fork, the slot and the chain, with the signals blocked throughout
StartJob(c) ==
    /\ At("run") /\ Top.sig = "main"
    /\ proc[c] = "unborn"
    /\ proc' = [proc EXCEPT ![c] = "alive"]
    /\ left' = [left EXCEPT ![c] = @ - 1]
    /\ chain' = chain \cup {c}
    /\ job_slots_used' = job_slots_used + 1
    /\ UNCHANGED <<target, late, deleted, arrived, pending, mask, dfl, handling,
                   stack, intermediates, end, struck>>

\* reap_children: wait() takes a dead child; its status is now only in this frame
Wait(c) ==
    /\ Top.at \in {"run", "die", "wait"} /\ Running
    /\ Top.at = "wait" => job_slots_used > 0
    /\ c \in chain /\ proc[c] \in Zombies
    /\ proc' = [proc EXCEPT ![c] = "reaped"]
    /\ SetTop([Top EXCEPT !.at = "got", !.back = Top.at, !.child = c, !.how = proc[c]])
    /\ UNCHANGED <<target, late, childVars, chainVars, arrived, pending, mask, dfl, handling,
                   intermediates, end, struck>>

\* die, and a handler, wait for slots that no process is left to free:
\* "wait: No child processes", and fatal's own die meets the same error
NothingToWaitFor ==
    /\ Top.at \in {"die", "wait"} /\ Running
    /\ job_slots_used > 0
    /\ chain # {} /\ \A c \in chain : proc[c] = "reaped"
    /\ end' = "trouble"
    /\ UNCHANGED <<proc, target, late, childVars, chainVars, arrived, pending, mask, dfl,
                   handling, stack, intermediates, struck>>

\* delete_child_targets
Delete(cs) ==
    LET todo == cs \ deleted
    IN /\ target' = [c \in Children |->
                        IF c \in todo \ Precious /\ target[c] = "changed" THEN "removed"
                        ELSE target[c]]
       /\ deleted' = deleted \cup todo

\* the line succeeded and there is another: it starts at once, the child stays where
\* it is.  unblock_sigs lets in every fatal signal
NextLine ==
    /\ At("got") /\ Top.how = "ok" /\ left[Top.child] > 0 /\ ~handling
    /\ proc' = [proc EXCEPT ![Top.child] = "alive"]
    /\ left' = [left EXCEPT ![Top.child] = @ - 1]
    /\ deleted' = deleted \ {Top.child}
    /\ mask' = {}
    /\ SetTop([Idle EXCEPT !.at = Top.back])
    /\ UNCHANGED <<target, late, chainVars, arrived, pending, dfl, handling,
                   intermediates, end, struck>>

\* the recipe is over, or make is dying and starts no further line
RecipeOver ==
    /\ At("got")
    /\ LET c == Top.child
           cut == handling /\ Top.how = "ok" /\ left[c] > 0
       IN /\ Top.how = "ok" => left[c] = 0 \/ handling
          /\ IF Top.how = "signal" \/ cut
                THEN Delete({c}) ELSE UNCHANGED <<target, deleted>>
    /\ Goto("unlink")
    /\ UNCHANGED <<proc, late, left, chainVars, arrived, pending, mask, dfl, handling,
                   intermediates, end, struck>>

\* (mutant) the signals are not blocked while the list is changed
FreeSlot_NotBlocked ==
    /\ At("unlink")
    /\ job_slots_used' = IF job_slots_used > 0 THEN job_slots_used - 1 ELSE 0
    /\ Goto("off")
    /\ UNCHANGED <<proc, target, late, childVars, chain, arrived, pending, mask, dfl,
                   handling, intermediates, end, struck>>

\* block_sigs; there is now another slot open
FreeSlot ==
    /\ At("unlink")
    /\ mask' = Signals
    /\ job_slots_used' = IF job_slots_used > 0 THEN job_slots_used - 1 ELSE 0
    /\ Goto("off")
    /\ UNCHANGED <<proc, target, late, childVars, chain, arrived, pending, dfl, handling,
                   intermediates, end, struck>>

\* off the chain; unblock_sigs; without -k a failure then ends the run
OffChain ==
    /\ At("off")
    /\ chain' = chain \ {Top.child}
    /\ mask' = {}
    /\ \E die \in BOOLEAN :
          /\ die => Top.how # "ok" /\ Top.back = "run" /\ ~handling
          /\ SetTop([Idle EXCEPT !.at = IF die THEN "die" ELSE Top.back])
    /\ UNCHANGED <<proc, target, late, childVars, job_slots_used, arrived, pending, dfl,
                   handling, intermediates, end, struck>>

--------------------------------------------------------------------------------
(* main.c *)

\* the goals are done, or make has met an error of its own
Finish ==
    /\ At("run")
    /\ Goto("die")
    /\ UNCHANGED <<proc, target, late, childVars, chainVars, arrived, pending, mask, dfl,
                   handling, intermediates, end, struck>>

\* die, when no job is left: clean up and exit
Die ==
    /\ At("die") /\ job_slots_used = 0
    /\ intermediates' = "removed"
    /\ end' = "exit"
    /\ UNCHANGED <<proc, target, late, childVars, chainVars, arrived, pending, mask, dfl,
                   handling, stack, struck>>

--------------------------------------------------------------------------------
(* fatal_error_signal *)

Arrive(s) ==
    /\ end = "running" /\ arrived < MaxArrivals
    /\ arrived' = arrived + 1
    /\ pending' = pending \cup {s}
    /\ UNCHANGED <<proc, target, late, childVars, chainVars, mask, dfl, handling, stack,
                   intermediates, end, struck>>

\* the frame of a handler that is about to run
HandlerFrame(s) == [sig |-> s, at |-> "kill", back |-> "run", child |-> NoChild,
                    how |-> "ok", saved |-> mask]

\* (mutant) the handler stays installed
Deliver_NotReset(s) ==
    /\ end = "running" /\ s \in pending \ mask
    /\ pending' = pending \ {s}
    /\ handling' = TRUE
    /\ struck' = IF handling THEN struck ELSE chain
    /\ stack' = Append(stack, HandlerFrame(s))
    /\ mask' = mask \cup {s}
    /\ UNCHANGED <<proc, target, late, childVars, chainVars, arrived, dfl, intermediates, end>>

\* the kernel runs the handler, with the signal blocked, or ends the process.  The
\* handler first resets the signal to its default
Deliver(s) ==
    /\ end = "running" /\ s \in pending \ mask
    /\ pending' = pending \ {s}
    /\ IF s \in dfl
          THEN end' = "signal" /\ UNCHANGED <<handling, stack, mask, dfl, struck>>
          ELSE /\ handling' = TRUE
               /\ struck' = IF handling THEN struck ELSE chain
               /\ dfl' = dfl \cup {s}
               /\ stack' = Append(stack, HandlerFrame(s))
               /\ mask' = mask \cup {s}
               /\ UNCHANGED end
    /\ UNCHANGED <<proc, target, late, childVars, chainVars, arrived, intermediates>>

\* SIGTERM is passed on to the children; a terminal sends the others to them itself
KillChildren ==
    /\ At("kill")
    /\ proc' = [c \in Children |->
                   IF Top.sig = "SIGTERM" /\ c \in chain /\ proc[c] = "alive"
                       THEN "killed" ELSE proc[c]]
    /\ Goto("delete")
    /\ UNCHANGED <<target, late, childVars, chainVars, arrived, pending, mask, dfl,
                   handling, intermediates, end, struck>>

\* the targets being made go, whatever their commands are still doing
DeleteTargets ==
    /\ At("delete")
    /\ IF Top.sig \in Interrupts THEN Delete(chain) ELSE UNCHANGED <<target, deleted>>
    /\ Goto("wait")
    /\ UNCHANGED <<proc, late, left, chainVars, arrived, pending, mask, dfl,
                   handling, intermediates, end, struck>>

\* (mutant) the handler does not wait for the children
WaitOver_AtOnce ==
    /\ At("wait")
    /\ Goto("clean")
    /\ UNCHANGED <<proc, target, late, childVars, chainVars, arrived, pending, mask, dfl,
                   handling, intermediates, end, struck>>

WaitOver ==
    /\ At("wait") /\ job_slots_used = 0
    /\ Goto("clean")
    /\ UNCHANGED <<proc, target, late, childVars, chainVars, arrived, pending, mask, dfl,
                   handling, intermediates, end, struck>>

\* remove_intermediates; then make sends itself the signal, or exits for SIGQUIT
SignalAgain ==
    /\ At("clean")
    /\ intermediates' = "removed"
    /\ IF Top.sig = "SIGQUIT"
          THEN end' = "quit" /\ UNCHANGED <<pending, stack>>
          ELSE pending' = pending \cup {Top.sig} /\ Goto("again") /\ UNCHANGED end
    /\ UNCHANGED <<proc, target, late, childVars, chainVars, arrived, mask, dfl, handling, struck>>

\* the handler returns and the mask from before it is back
HandlerReturns ==
    /\ At("again")
    /\ mask' = Top.saved
    /\ stack' = SubSeq(stack, 1, Len(stack) - 1)
    /\ UNCHANGED <<proc, target, late, childVars, chainVars, arrived, pending, dfl,
                   handling, intermediates, end, struck>>

--------------------------------------------------------------------------------
(* The commands, as long as make is there to see what they do *)

Writes(c) ==
    /\ end = "running" /\ proc[c] \in Alive
    /\ target[c] # "changed"
    /\ target' = [target EXCEPT ![c] = "changed"]
    /\ late' = IF c \in deleted THEN late \cup {c} ELSE late
    /\ UNCHANGED <<proc, childVars, chainVars, arrived, pending, mask, dfl, handling,
                   stack, intermediates, end, struck>>

\* a command may catch SIGTERM and end in its own way
Exits(c) ==
    /\ end = "running" /\ proc[c] \in Alive
    /\ \E e \in Zombies : proc' = [proc EXCEPT ![c] = e]
    /\ UNCHANGED <<target, late, childVars, chainVars, arrived, pending, mask, dfl,
                   handling, stack, intermediates, end, struck>>

Gone == end # "running" /\ UNCHANGED vars

--------------------------------------------------------------------------------

Reap ==
    \/ \E c \in Children : Wait(c)
    \/ NothingToWaitFor \/ NextLine \/ RecipeOver \/ FreeSlot \/ OffChain

Handler ==
    \/ KillChildren \/ DeleteTargets \/ WaitOver \/ SignalAgain \/ HandlerReturns

Program ==
    \/ \E c \in Children : StartJob(c)
    \/ Reap \/ Handler \/ Finish \/ Die

Next ==
    \/ Program
    \/ \E s \in Signals : Arrive(s) \/ Deliver(s)
    \/ \E c \in Children : Writes(c) \/ Exits(c)
    \/ Gone

\* make and the kernel go on; every command ends
Fairness ==
    /\ WF_vars(Program)
    /\ \A s \in Signals : WF_vars(Deliver(s))
    /\ \A c \in Children : WF_vars(Exits(c))

Spec == Init /\ [][Next]_vars
FairSpec == Spec /\ Fairness

--------------------------------------------------------------------------------
(* Properties *)

TypeOK ==
    /\ proc \in [Children -> ProcStates]
    /\ target \in [Children -> {"old", "changed", "removed"}]
    /\ late \subseteq Children
    /\ left \in [Children -> Nat]
    /\ deleted \subseteq Children
    /\ chain \subseteq Children /\ job_slots_used \in Nat
    /\ arrived \in 0 .. MaxArrivals
    /\ pending \subseteq Signals /\ mask \subseteq Signals /\ dfl \subseteq Signals
    /\ handling \in BOOLEAN
    /\ stack \in Seq(Frames)
    /\ intermediates \in {"kept", "removed"}
    /\ end \in {"running", "exit", "signal", "quit", "trouble"}
    /\ struck \subseteq Children

\* A handler never finds the list half changed: every process make has not waited
\* for is on the chain, and the slots in use are those of the chain ("children and
\* job_slots_used are always consistent", job.c:1073, 1167)
HandlerFindsOrder ==
    Len(stack) > 1 /\ Top.at = "kill" =>
        /\ job_slots_used = Cardinality(chain)
        /\ \A c \in Children : proc[c] \in Alive \cup Zombies => c \in chain

\* Only a second signal makes make leave while a command still runs (commands.c:566,
\* main.c:3752)
NoneLeftRunning ==
    end # "running" /\ arrived <= 1 => \A c \in Children : proc[c] \notin Alive

\* What the user's ^C cut short is not taken for made: the target of every recipe on
\* the chain when the signal came is gone, or as it was, unless its command wrote
\* it again after make had deleted it (commands.c:572)
NothingHalfBuilt ==
    end \in {"signal", "quit"} /\ arrived <= 1 /\ dfl \subseteq Interrupts =>
        \A c \in struck \ Precious : target[c] = "changed" => c \in late

\* What a single fatal signal leaves: no command and no target half built
NothingLeftOver == TypeOK /\ NoneLeftRunning /\ NothingHalfBuilt

\* Once a handler has begun main is over: its frame stays as it was and no command is
\* started any more (commands.c:605, job.c:1016)
MainIsOver ==
    [][handling => /\ Len(stack') >= 1 /\ stack'[1] = stack[1]
                   /\ \A c \in Children : proc'[c] \in Alive => proc[c] \in Alive]_vars

\* A fatal signal that is handled ends make, when the commands have ended
SignalEndsMake == handling ~> (end # "running")

================================================================================
