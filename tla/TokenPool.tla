------------------------------- MODULE TokenPool -------------------------------
(***************************************************************************)
(* What the jobserver of GNU Make promises: a pool of tokens, of which     *)
(* every make takes one at a time and gives one back at a time.  No make   *)
(* waits for a token while it holds the pool, and the only way a token     *)
(* leaves the game is with a make that a signal ends.                      *)
(***************************************************************************)
EXTENDS Integers

CONSTANTS Makes, Tokens

VARIABLES free, held, lost

vars == <<free, held, lost>>

Init ==
    /\ free = Tokens
    /\ held = [m \in Makes |-> 0]
    /\ lost = 0

Take(m) ==
    /\ free > 0
    /\ free' = free - 1
    /\ held' = [held EXCEPT ![m] = @ + 1]
    /\ UNCHANGED lost

GiveBack(m) ==
    /\ held[m] > 0
    /\ free' = free + 1
    /\ held' = [held EXCEPT ![m] = @ - 1]
    /\ UNCHANGED lost

Die(m) ==
    /\ lost' = lost + held[m]
    /\ held' = [held EXCEPT ![m] = 0]
    /\ UNCHANGED free

\* at the end the master empties the pipe
Collect ==
    /\ \A m \in Makes : held[m] = 0
    /\ free > 0
    /\ free' = free - 1
    /\ UNCHANGED <<held, lost>>

Next ==
    \/ \E m \in Makes : Take(m) \/ GiveBack(m) \/ Die(m)
    \/ Collect

Spec == Init /\ [][Next]_vars
================================================================================
