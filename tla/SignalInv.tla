------------------------------- MODULE SignalInv -------------------------------
(***************************************************************************)
(* The inductive invariant of Signal: what stays true of the frames, the   *)
(* chain and the targets while handlers interrupt each other.              *)
(***************************************************************************)
EXTENDS Signal

\* reap_children holds a child that wait() has taken
Reaping == {"got", "unlink", "off"}

\* a signal that is delivered now ends make
Doomed == (pending \cap dfl) \ mask

\* main is at the bottom; every frame on top of it is a handler's, whose signal is
\* back to its default and was not blocked when it came
FramesInPlace ==
    /\ stack # <<>>
    /\ \A i \in 1 .. Len(stack) :
          LET f == stack[i]
          IN IF i = 1
                THEN /\ f.sig = "main" /\ f.at \in {"run", "die"} \cup Reaping
                     /\ f.at \in Reaping => f.back \in {"run", "die"}
                ELSE /\ f.sig \in Signals /\ f.sig \in dfl /\ f.sig \notin f.saved
                     /\ f.at \in {"kill", "delete", "wait", "clean", "again"} \cup Reaping
                     /\ f.at \in Reaping => f.back = "wait"

\* each frame that reaps holds a child of its own, waited for and still on the chain
ChildInHand ==
    /\ \A i \in 1 .. Len(stack) :
          stack[i].at \in Reaping => stack[i].child \in chain /\ proc[stack[i].child] = "reaped"
    /\ \A i, j \in 1 .. Len(stack) :
          stack[i].at \in Reaping /\ stack[j].at \in Reaping /\ stack[i].child = stack[j].child
              => i = j

\* the chain is every process that was started and is not waited for, and those in
\* hand; a recipe that has not begun has its lines
ChainTold ==
    /\ \A c \in Children : proc[c] \in Alive \cup Zombies => c \in chain
    /\ \A c \in chain : proc[c] # "unborn"
    /\ \A c \in Children : proc[c] = "unborn" => left[c] > 0

\* only between the two assignments, with the signals blocked, does the count differ
SlotsTold ==
    /\ \A i \in 1 .. Len(stack) : stack[i].at = "off" => i = Len(stack) /\ mask = Signals
    /\ job_slots_used + (IF Top.at = "off" THEN 1 ELSE 0) = Cardinality(chain)

\* once a handler has begun, one is running or make is about to end
MainIsLeft ==
    /\ ~handling => Len(stack) = 1 /\ dfl = {}
    /\ handling /\ end = "running" => Len(stack) > 1 \/ Doomed # {}
    /\ end = "running" =>
          \A i \in 1 .. Len(stack) : stack[i].at = "again" => stack[i].sig \in pending

\* a handler that cleans up has waited for everything
AllWaitedFor == \A i \in 1 .. Len(stack) : stack[i].at \in {"clean", "again"} => chain = {}

\* a single signal ends make only from its own handler
OneSignal ==
    end = "running" =>
        /\ arrived = 0 => pending = {} /\ dfl = {}
        /\ arrived <= 1 => pending \cap dfl = {} \/ chain = {}

\* a target make has deleted, and whose recipe has started no other line, is there
\* only when a command wrote it again
DeletedIsGone == \A c \in deleted \ Precious : target[c] = "changed" => c \in late

\* where the handlers are those of signals that remove targets, the recipes the first
\* one met are on the chain until their targets are deleted
StruckDeleted ==
    handling /\ dfl \subseteq Interrupts =>
        /\ struck \subseteq chain \cup deleted
        /\ \A i \in 2 .. Len(stack) :
              stack[i].at \notin {"kill", "delete"} => struck \subseteq deleted
        /\ end = "running" /\ arrived <= 1 =>
              pending \cap dfl = {} \/ struck \subseteq deleted

IInv ==
    /\ TypeOK /\ FramesInPlace /\ ChildInHand /\ ChainTold /\ SlotsTold /\ MainIsLeft
    /\ AllWaitedFor /\ OneSignal /\ DeletedIsGone /\ StruckDeleted
    /\ NoneLeftRunning /\ NothingHalfBuilt
================================================================================
