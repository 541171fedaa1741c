------------------------------ MODULE SignalProof ------------------------------
(***************************************************************************)
(* Proofs about Signal: for every set of recipes, any number of lines, any *)
(* set of fatal signals and any number of arrivals, a handler finds the    *)
(* chain and its count in order, a single signal leaves neither a running  *)
(* command nor a half-built target, and main never goes on once a handler  *)
(* has begun.                                                              *)
(***************************************************************************)
EXTENDS SignalInv, FiniteSetTheorems, TLAPS

USE DEF FatalSignals, Interrupts

--------------------------------------------------------------------------------
(* Frames *)

LEMMA StackNotEmpty ==
    ASSUME NEW st \in Seq(Frames), st # <<>>
    PROVE  Len(st) \in Nat /\ Len(st) >= 1 /\ \A i \in 1 .. Len(st) : st[i] \in Frames
OBVIOUS

LEMMA TopReplaced ==
    ASSUME NEW st \in Seq(Frames), st # <<>>, NEW f \in Frames,
           NEW new, new = [st EXCEPT ![Len(st)] = f]
    PROVE  /\ new \in Seq(Frames) /\ new # <<>> /\ Len(new) = Len(st)
           /\ new[Len(st)] = f
           /\ \A i \in 1 .. Len(st) : i # Len(st) => new[i] = st[i]
OBVIOUS

LEMMA FramePushed ==
    ASSUME NEW st \in Seq(Frames), NEW f \in Frames, NEW new, new = Append(st, f)
    PROVE  /\ new \in Seq(Frames) /\ new # <<>> /\ Len(new) = Len(st) + 1
           /\ new[Len(st) + 1] = f
           /\ \A i \in 1 .. Len(st) : new[i] = st[i]
OBVIOUS

LEMMA FramePopped ==
    ASSUME NEW st \in Seq(Frames), Len(st) > 1,
           NEW new, new = SubSeq(st, 1, Len(st) - 1)
    PROVE  /\ new \in Seq(Frames) /\ new # <<>> /\ Len(new) = Len(st) - 1
           /\ \A i \in 1 .. Len(new) : new[i] = st[i]
<1> DEFINE n == Len(st) - 1
<1>1. n \in Nat \ {0} /\ \A i \in 1 .. n : st[i] \in Frames
  OBVIOUS
<1>2. new = [i \in 1 .. n |-> st[i]]
  BY <1>1
<1>3. new \in [1 .. n -> Frames]
  BY <1>1, <1>2, Zenon
<1>4. new \in Seq(Frames) /\ Len(new) = n
  BY <1>1, <1>2, <1>3
<1> QED BY <1>1, <1>2, <1>4

\* While the program runs, a handler is on the stack or has not begun.
LEMMA RunningFacts ==
    ASSUME TypeOK, FramesInPlace, MainIsLeft, Running
    PROVE  /\ end = "running" /\ pending \subseteq mask
           /\ Len(stack) \in Nat /\ Len(stack) >= 1
           /\ stack \in Seq(Frames) /\ stack # <<>>
           /\ Top \in Frames /\ Top = stack[Len(stack)]
           /\ handling <=> Len(stack) > 1
           /\ Top.sig = "main" <=> Len(stack) = 1
           /\ \A i \in 1 .. Len(stack) : stack[i] \in Frames
<1>1. end = "running" /\ pending \subseteq mask /\ Doomed = {}
  BY DEF Running, Doomed
<1>2. /\ Len(stack) \in Nat /\ Len(stack) >= 1
      /\ \A i \in 1 .. Len(stack) : stack[i] \in Frames
      /\ stack \in Seq(Frames) /\ stack # <<>>
  BY StackNotEmpty DEF TypeOK, FramesInPlace
<1>3. Top \in Frames /\ Top = stack[Len(stack)]
  BY <1>2 DEF Top
<1>4. handling <=> Len(stack) > 1
  BY <1>1, <1>2 DEF MainIsLeft, TypeOK
<1>5. Top.sig = "main" <=> Len(stack) = 1
  <2>1. "main" \notin Signals
    BY SignalsAssumption
  <2>2. CASE Len(stack) = 1
    BY <1>2, <1>3, <2>2 DEF FramesInPlace
  <2>3. CASE Len(stack) # 1
    <3>1. Len(stack) \in 1 .. Len(stack)
      BY <1>2
    <3>2. stack[Len(stack)].sig \in Signals
      BY <2>3, <3>1 DEF FramesInPlace
    <3> QED BY <1>3, <2>1, <2>3, <3>2
  <2> QED BY <2>2, <2>3
<1> QED BY <1>1, <1>2, <1>3, <1>4, <1>5

LEMMA TopSet ==
    ASSUME TypeOK, FramesInPlace, NEW f \in Frames, SetTop(f)
    PROVE  /\ stack' \in Seq(Frames) /\ stack' # <<>>
           /\ Len(stack') = Len(stack) /\ stack'[Len(stack)] = f /\ Top' = f
           /\ \A i \in 1 .. Len(stack) : i # Len(stack) => stack'[i] = stack[i]
<1>1. stack \in Seq(Frames) /\ stack # <<>>
  BY DEF TypeOK, FramesInPlace
<1>2. stack' = [stack EXCEPT ![Len(stack)] = f]
  BY DEF SetTop
<1>3. /\ stack' \in Seq(Frames) /\ stack' # <<>>
      /\ Len(stack') = Len(stack) /\ stack'[Len(stack)] = f
      /\ \A i \in 1 .. Len(stack) : i # Len(stack) => stack'[i] = stack[i]
  BY <1>1, <1>2, TopReplaced
<1> QED BY <1>3 DEF Top

LEMMA PlaceSet ==
    ASSUME TypeOK, FramesInPlace, NEW p \in Places, Goto(p)
    PROVE  /\ stack' \in Seq(Frames) /\ stack' # <<>> /\ Len(stack') = Len(stack)
           /\ Top' = stack'[Len(stack)] /\ Top' \in Frames
           /\ Top'.at = p
           /\ Top'.sig = Top.sig /\ Top'.back = Top.back /\ Top'.child = Top.child
           /\ Top'.how = Top.how /\ Top'.saved = Top.saved
           /\ \A i \in 1 .. Len(stack) : i # Len(stack) => stack'[i] = stack[i]
<1> DEFINE f == [Top EXCEPT !.at = p]
<1>1. Top \in Frames
  BY StackNotEmpty DEF TypeOK, FramesInPlace, Top
<1>2. /\ f \in Frames /\ f.at = p
      /\ f.sig = Top.sig /\ f.back = Top.back /\ f.child = Top.child
      /\ f.how = Top.how /\ f.saved = Top.saved
  BY <1>1 DEF Frames
<1>3. SetTop(f)
  BY DEF Goto
<1> HIDE DEF f
<1> QED BY <1>2, <1>3, TopSet

--------------------------------------------------------------------------------
(* Moves *)

\* The top frame goes to another place; meanwhile targets may be deleted, and the
\* running commands may be sent a signal.
LEMMA PlaceMove ==
    ASSUME IInv, NEW q \in Places, Running, Goto(q),
           Top.at # "off", q \notin {"off", "again"},
           IF Top.sig = "main" THEN q \in {"run", "die"} \cup Reaping
           ELSE q \in {"kill", "delete", "wait", "clean"} \cup Reaping,
           q \in Reaping => Top.at \in Reaping,
           q = "clean" => chain = {},
           q \in {"kill", "delete"} \/ Top.at \notin {"kill", "delete"}
               \/ ~(dfl \subseteq Interrupts) \/ chain \subseteq deleted',
           deleted \subseteq deleted', deleted' \subseteq Children,
           target' \in [Children -> {"old", "changed", "removed"}],
           \A c \in Children : target'[c] = "changed" => target[c] = "changed",
           \A c \in deleted' \ deleted : c \notin Precious => target'[c] # "changed",
           proc' \in [Children -> ProcStates],
           \A c \in Children : proc'[c] = proc[c] \/ {proc[c], proc'[c]} \subseteq Alive,
           UNCHANGED <<late, left, chain, job_slots_used, arrived, pending, mask, dfl,
                       handling, intermediates, end, struck>>
    PROVE  IInv'
<1> USE DEF IInv
<1> DEFINE n == Len(stack)
<1>1. /\ end = "running" /\ pending \subseteq mask
      /\ n \in Nat /\ n >= 1
      /\ Top \in Frames /\ Top = stack[n]
      /\ handling <=> n > 1
      /\ Top.sig = "main" <=> n = 1
  BY RunningFacts
<1>2. /\ stack' \in Seq(Frames) /\ stack' # <<>> /\ Len(stack') = n
      /\ Top' = stack'[n] /\ Top' \in Frames
      /\ Top'.at = q
      /\ Top'.sig = Top.sig /\ Top'.back = Top.back /\ Top'.child = Top.child
      /\ Top'.how = Top.how /\ Top'.saved = Top.saved
      /\ \A i \in 1 .. n : i # n => stack'[i] = stack[i]
  BY PlaceSet
<1>3. TypeOK'
  BY <1>2 DEF TypeOK
<1>4. FramesInPlace'
  BY <1>1, <1>2 DEF FramesInPlace, Reaping
<1>5. ChildInHand'
  <2>1. \A c \in chain : proc[c] = "reaped" => proc'[c] = "reaped"
    BY DEF Alive, TypeOK
  <2>2. \A i \in 1 .. n : /\ stack'[i].child = stack[i].child
                          /\ stack'[i].at \in Reaping => stack[i].at \in Reaping
    BY <1>1, <1>2
  <2> QED BY <1>2, <2>1, <2>2 DEF ChildInHand
<1>6. ChainTold'
  BY DEF ChainTold, Alive, TypeOK
<1>7. SlotsTold'
  BY <1>1, <1>2 DEF SlotsTold
<1>8. MainIsLeft'
  BY <1>1, <1>2 DEF MainIsLeft, Doomed
<1>9. AllWaitedFor'
  BY <1>1, <1>2 DEF AllWaitedFor
<1>10. OneSignal' /\ NoneLeftRunning' /\ NothingHalfBuilt'
  BY <1>1 DEF OneSignal, NoneLeftRunning, NothingHalfBuilt
<1>11. DeletedIsGone'
  BY DEF DeletedIsGone, TypeOK
<1>12. StruckDeleted'
  BY <1>1, <1>2 DEF StruckDeleted
<1> QED BY <1>3, <1>4, <1>5, <1>6, <1>7, <1>8, <1>9, <1>10, <1>11, <1>12

\* make ends: from now on nothing moves.
LEMMA EndMove ==
    ASSUME IInv, end = "running",
           end' \in {"exit", "signal", "quit", "trouble"},
           pending' \subseteq pending, intermediates' \in {"kept", "removed"},
           UNCHANGED <<proc, target, late, left, deleted, chain, job_slots_used, arrived,
                       mask, dfl, handling, stack, struck>>,
           arrived <= 1 => \A c \in chain : proc[c] = "reaped",
           end' \in {"signal", "quit"} /\ arrived <= 1 /\ dfl \subseteq Interrupts =>
               struck \subseteq deleted
    PROVE  IInv'
<1> USE DEF IInv
<1>1. TypeOK'
  BY DEF TypeOK
<1>2. FramesInPlace' /\ ChildInHand' /\ ChainTold' /\ AllWaitedFor'
  BY DEF FramesInPlace, ChildInHand, ChainTold, AllWaitedFor
<1>3. SlotsTold'
  BY DEF SlotsTold, Top
<1>4. MainIsLeft' /\ OneSignal' /\ DeletedIsGone' /\ StruckDeleted'
  BY DEF MainIsLeft, OneSignal, DeletedIsGone, StruckDeleted
<1>5. NoneLeftRunning'
  <2> SUFFICES ASSUME arrived <= 1, NEW c \in Children PROVE proc[c] \notin Alive
    BY DEF NoneLeftRunning
  <2> QED BY DEF ChainTold, Alive
<1>6. NothingHalfBuilt'
  BY DEF NothingHalfBuilt, DeletedIsGone
<1> QED BY <1>1, <1>2, <1>3, <1>4, <1>5, <1>6

--------------------------------------------------------------------------------
(* reap_children *)

LEMMA RecipeOverKeeps ==
    ASSUME IInv, RecipeOver
    PROVE  IInv'
<1> USE DEF IInv
<1>1. /\ Running /\ Top.at = "got" /\ Goto("unlink")
      /\ UNCHANGED <<proc, late, left, chain, job_slots_used, arrived, pending, mask, dfl,
                     handling, intermediates, end, struck>>
  BY DEF RecipeOver, At, chainVars
<1>2. Top.child \in Children
  BY <1>1, RunningFacts DEF ChildInHand, Reaping, TypeOK
<1>3. /\ deleted \subseteq deleted' /\ deleted' \subseteq Children
      /\ target' \in [Children -> {"old", "changed", "removed"}]
      /\ \A c \in Children : target'[c] = "changed" => target[c] = "changed"
      /\ \A c \in deleted' \ deleted : c \notin Precious => target'[c] # "changed"
  BY <1>2 DEF RecipeOver, Delete, TypeOK
<1> QED BY <1>1, <1>3, PlaceMove DEF Places, Reaping, TypeOK

LEMMA WaitKeeps ==
    ASSUME IInv, NEW c \in Children, Wait(c)
    PROVE  IInv'
<1> USE DEF IInv
<1> DEFINE n == Len(stack)
           f == [Top EXCEPT !.at = "got", !.back = Top.at, !.child = c, !.how = proc[c]]
<1>1. /\ Running /\ Top.at \in {"run", "die", "wait"} /\ SetTop(f)
      /\ c \in chain /\ proc[c] \in Zombies
      /\ proc' = [proc EXCEPT ![c] = "reaped"]
      /\ UNCHANGED <<target, late, left, deleted, chain, job_slots_used, arrived, pending,
                     mask, dfl, handling, intermediates, end, struck>>
  BY DEF Wait, childVars, chainVars
<1>2. /\ end = "running" /\ pending \subseteq mask
      /\ n \in Nat /\ n >= 1
      /\ Top \in Frames /\ Top = stack[n]
      /\ handling <=> n > 1
      /\ Top.sig = "main" <=> n = 1
  BY <1>1, RunningFacts
<1>3. /\ f \in Frames /\ f.at = "got" /\ f.back = Top.at /\ f.child = c
      /\ f.sig = Top.sig /\ f.saved = Top.saved
  BY <1>1, <1>2 DEF Frames, Places
<1> HIDE DEF f
<1>4. /\ stack' \in Seq(Frames) /\ stack' # <<>> /\ Len(stack') = n
      /\ stack'[n] = f /\ Top' = f
      /\ \A i \in 1 .. n : i # n => stack'[i] = stack[i]
  BY <1>1, <1>3, TopSet
<1>5. /\ proc' \in [Children -> ProcStates]
      /\ proc'[c] = "reaped" /\ \A d \in Children \ {c} : proc'[d] = proc[d]
      /\ proc[c] # "reaped"
  BY <1>1 DEF TypeOK, ProcStates, Zombies
<1>6. TypeOK'
  BY <1>1, <1>4, <1>5 DEF TypeOK
<1>7. FramesInPlace'
  BY <1>1, <1>2, <1>3, <1>4 DEF FramesInPlace, Reaping
<1>8. ChildInHand'
  <2>1. \A i \in 1 .. n : i # n /\ stack[i].at \in Reaping =>
            stack[i].child \in chain /\ stack[i].child # c
               /\ proc[stack[i].child] = "reaped"
    BY <1>5 DEF ChildInHand
  <2>2. \A d \in chain : proc[d] = "reaped" => proc'[d] = "reaped"
    BY <1>5 DEF TypeOK
  <2>3. \A i \in 1 .. n : stack'[i].at \in Reaping =>
            stack'[i].child \in chain /\ proc'[stack'[i].child] = "reaped"
    BY <1>1, <1>3, <1>4, <1>5, <2>1, <2>2
  <2>4. \A i, j \in 1 .. n :
            stack'[i].at \in Reaping /\ stack'[j].at \in Reaping
               /\ stack'[i].child = stack'[j].child => i = j
    BY <1>3, <1>4, <2>1 DEF ChildInHand
  <2> QED BY <1>1, <1>4, <2>3, <2>4 DEF ChildInHand
<1>9. ChainTold'
  BY <1>1, <1>5 DEF ChainTold, TypeOK
<1>10. SlotsTold'
  BY <1>1, <1>2, <1>3, <1>4 DEF SlotsTold
<1>11. MainIsLeft' /\ AllWaitedFor'
  BY <1>1, <1>2, <1>3, <1>4 DEF MainIsLeft, AllWaitedFor, Doomed
<1>12. OneSignal' /\ NoneLeftRunning' /\ NothingHalfBuilt' /\ DeletedIsGone'
  BY <1>1, <1>2 DEF OneSignal, NoneLeftRunning, NothingHalfBuilt, DeletedIsGone
<1>13. StruckDeleted'
  BY <1>1, <1>2, <1>3, <1>4 DEF StruckDeleted
<1> QED BY <1>6, <1>7, <1>8, <1>9, <1>10, <1>11, <1>12, <1>13

LEMMA NothingToWaitForKeeps ==
    ASSUME IInv, NothingToWaitFor
    PROVE  IInv'
BY EndMove DEF NothingToWaitFor, Running, childVars, chainVars, IInv, TypeOK

\* The frame that has nothing more to reap.
LEMMA IdleSet ==
    ASSUME TypeOK, FramesInPlace, NEW p \in Places, SetTop([Idle EXCEPT !.at = p])
    PROVE  /\ stack' \in Seq(Frames) /\ stack' # <<>> /\ Len(stack') = Len(stack)
           /\ Top' = stack'[Len(stack)] /\ Top' \in Frames
           /\ Top'.at = p /\ Top'.sig = Top.sig /\ Top'.saved = Top.saved
           /\ \A i \in 1 .. Len(stack) : i # Len(stack) => stack'[i] = stack[i]
<1> DEFINE f == [Idle EXCEPT !.at = p]
<1>1. Top \in Frames
  BY StackNotEmpty DEF TypeOK, FramesInPlace, Top
<1>2. f \in Frames /\ f.at = p /\ f.sig = Top.sig /\ f.saved = Top.saved
  BY <1>1 DEF Idle, Frames, Places, Zombies
<1>3. SetTop(f)
  OBVIOUS
<1> HIDE DEF f
<1> QED BY <1>2, <1>3, TopSet

LEMMA NextLineKeeps ==
    ASSUME IInv, NextLine
    PROVE  IInv'
<1> USE DEF IInv
<1> DEFINE n == Len(stack)
           c == Top.child
<1>1. /\ Running /\ Top.at = "got" /\ ~handling /\ left[c] > 0
      /\ proc' = [proc EXCEPT ![c] = "alive"]
      /\ left' = [left EXCEPT ![c] = @ - 1]
      /\ deleted' = deleted \ {c} /\ mask' = {}
      /\ SetTop([Idle EXCEPT !.at = Top.back])
      /\ UNCHANGED <<target, late, chain, job_slots_used, arrived, pending, dfl, handling,
                     intermediates, end, struck>>
  BY DEF NextLine, At, chainVars
<1>2. /\ end = "running" /\ n = 1 /\ Top \in Frames /\ Top = stack[1] /\ dfl = {}
      /\ Top.sig = "main"
  BY <1>1, RunningFacts DEF MainIsLeft
<1>3. Top.back \in {"run", "die"}
  BY <1>1, <1>2 DEF FramesInPlace, Reaping
<1>4. /\ stack' \in Seq(Frames) /\ stack' # <<>> /\ Len(stack') = 1
      /\ Top' = stack'[1] /\ Top' \in Frames
      /\ Top'.at = Top.back /\ Top'.sig = Top.sig
  BY <1>1, <1>2, <1>3, IdleSet DEF Places
<1>5. c \in chain /\ c \in Children
  BY <1>1, <1>2 DEF ChildInHand, Reaping, TypeOK
<1> HIDE DEF c
<1>6. /\ proc' \in [Children -> ProcStates]
      /\ proc'[c] = "alive" /\ \A d \in Children \ {c} : proc'[d] = proc[d]
      /\ left' \in [Children -> Nat]
  BY <1>1, <1>5 DEF TypeOK, ProcStates, Alive
<1>7. TypeOK'
  BY <1>1, <1>4, <1>6 DEF TypeOK
<1>8. FramesInPlace' /\ ChildInHand' /\ AllWaitedFor'
  BY <1>1, <1>2, <1>3, <1>4 DEF FramesInPlace, ChildInHand, AllWaitedFor, Reaping
<1>9. ChainTold'
  BY <1>1, <1>5, <1>6 DEF ChainTold, TypeOK
<1>10. SlotsTold'
  BY <1>1, <1>2, <1>3, <1>4 DEF SlotsTold
<1>11. MainIsLeft' /\ StruckDeleted'
  BY <1>1, <1>2, <1>3, <1>4 DEF MainIsLeft, StruckDeleted
<1>12. OneSignal' /\ NoneLeftRunning' /\ NothingHalfBuilt' /\ DeletedIsGone'
  BY <1>1, <1>2 DEF OneSignal, NoneLeftRunning, NothingHalfBuilt, DeletedIsGone
<1> QED BY <1>7, <1>8, <1>9, <1>10, <1>11, <1>12

LEMMA FreeSlotKeeps ==
    ASSUME IInv, FreeSlot
    PROVE  IInv'
<1> USE DEF IInv
<1> DEFINE n == Len(stack)
<1>1. /\ Running /\ Top.at = "unlink" /\ Goto("off") /\ mask' = Signals
      /\ job_slots_used' = IF job_slots_used > 0 THEN job_slots_used - 1 ELSE 0
      /\ UNCHANGED <<proc, target, late, left, deleted, chain, arrived, pending, dfl,
                     handling, intermediates, end, struck>>
  BY DEF FreeSlot, At, childVars
<1>2. /\ end = "running" /\ pending \subseteq mask
      /\ n \in Nat /\ n >= 1
      /\ Top \in Frames /\ Top = stack[n]
      /\ handling <=> n > 1
      /\ Top.sig = "main" <=> n = 1
  BY <1>1, RunningFacts
<1>3. /\ stack' \in Seq(Frames) /\ stack' # <<>> /\ Len(stack') = n
      /\ Top' = stack'[n] /\ Top' \in Frames
      /\ Top'.at = "off"
      /\ Top'.sig = Top.sig /\ Top'.back = Top.back /\ Top'.child = Top.child
      /\ Top'.saved = Top.saved
      /\ \A i \in 1 .. n : i # n => stack'[i] = stack[i]
  BY <1>1, PlaceSet DEF Places
<1>4. job_slots_used' \in Nat /\ job_slots_used' + 1 = Cardinality(chain)
  <2>1. job_slots_used = Cardinality(chain)
    BY <1>1 DEF SlotsTold, TypeOK
  <2>2. Top.child \in chain
    BY <1>1, <1>2 DEF ChildInHand, Reaping
  <2>3. Cardinality(chain) # 0
    <3>1. IsFiniteSet(chain)
      BY ChildrenAssumption, FS_Subset DEF TypeOK
    <3> QED BY <2>2, <3>1, FS_EmptySet
  <2> QED BY <1>1, <2>1, <2>3 DEF TypeOK
<1>5. TypeOK'
  BY <1>1, <1>3, <1>4 DEF TypeOK
<1>6. FramesInPlace'
  BY <1>1, <1>2, <1>3 DEF FramesInPlace, Reaping
<1>7. ChildInHand'
  BY <1>1, <1>2, <1>3 DEF ChildInHand, Reaping
<1>8. SlotsTold'
  BY <1>1, <1>2, <1>3, <1>4 DEF SlotsTold
<1>9. MainIsLeft' /\ AllWaitedFor'
  BY <1>1, <1>2, <1>3 DEF MainIsLeft, AllWaitedFor, Doomed
<1>10. /\ ChainTold' /\ OneSignal' /\ NoneLeftRunning' /\ NothingHalfBuilt'
       /\ DeletedIsGone'
  BY <1>1, <1>2 DEF ChainTold, OneSignal, NoneLeftRunning, NothingHalfBuilt, DeletedIsGone
<1>11. StruckDeleted'
  BY <1>1, <1>2, <1>3 DEF StruckDeleted
<1> QED BY <1>5, <1>6, <1>7, <1>8, <1>9, <1>10, <1>11

LEMMA OffChainKeeps ==
    ASSUME IInv, OffChain
    PROVE  IInv'
<1> USE DEF IInv
<1> DEFINE n == Len(stack)
           c == Top.child
<1>1. /\ Running /\ Top.at = "off" /\ mask' = {} /\ chain' = chain \ {c}
      /\ UNCHANGED <<proc, target, late, left, deleted, job_slots_used, arrived, pending, dfl,
                     handling, intermediates, end, struck>>
  BY DEF OffChain, At, childVars
<1>2. /\ end = "running" /\ pending \subseteq mask
      /\ n \in Nat /\ n >= 1
      /\ Top \in Frames /\ Top = stack[n]
      /\ handling <=> n > 1
      /\ Top.sig = "main" <=> n = 1
  BY <1>1, RunningFacts
<1>3. Top.back \in IF n = 1 THEN {"run", "die"} ELSE {"wait"}
  BY <1>1, <1>2 DEF FramesInPlace, Reaping
<1>4. PICK die \in BOOLEAN :
          /\ die => Top.back = "run"
          /\ SetTop([Idle EXCEPT !.at = IF die THEN "die" ELSE Top.back])
  BY DEF OffChain
<1> DEFINE p == IF die THEN "die" ELSE Top.back
<1>5. p \in (IF n = 1 THEN {"run", "die"} ELSE {"wait"}) /\ p \in Places
  BY <1>3, <1>4 DEF Places
<1>6. /\ stack' \in Seq(Frames) /\ stack' # <<>> /\ Len(stack') = n
      /\ Top' = stack'[n] /\ Top' \in Frames
      /\ Top'.at = p /\ Top'.sig = Top.sig /\ Top'.saved = Top.saved
      /\ \A i \in 1 .. n : i # n => stack'[i] = stack[i]
  BY <1>4, <1>5, IdleSet
<1> HIDE DEF p
<1>7. c \in chain /\ c \in Children /\ proc[c] = "reaped"
  BY <1>1, <1>2 DEF ChildInHand, Reaping, TypeOK
<1>8. \A i \in 1 .. n : i # n /\ stack[i].at \in Reaping => stack[i].child # c
  BY <1>1, <1>2 DEF ChildInHand, Reaping
<1> HIDE DEF c
<1>9. job_slots_used = Cardinality(chain')
  <2>1. IsFiniteSet(chain)
    BY ChildrenAssumption, FS_Subset DEF TypeOK
  <2>2. Cardinality(chain \ {c}) = Cardinality(chain) - 1
    BY <1>7, <2>1, FS_RemoveElement
  <2> QED BY <1>1, <2>1, <2>2, FS_CardinalityType DEF SlotsTold, TypeOK
<1>10. TypeOK'
  BY <1>1, <1>6 DEF TypeOK
<1>11. FramesInPlace'
  BY <1>1, <1>2, <1>5, <1>6 DEF FramesInPlace, Reaping
<1>12. ChildInHand'
  BY <1>1, <1>2, <1>5, <1>6, <1>8 DEF ChildInHand, Reaping
<1>13. ChainTold'
  BY <1>1, <1>7 DEF ChainTold, Alive, Zombies
<1>14. SlotsTold'
  <2>1. \A i \in 1 .. n : stack'[i].at # "off"
    BY <1>2, <1>5, <1>6 DEF SlotsTold
  <2>2. Top'.at # "off" /\ job_slots_used \in Nat
    BY <1>5, <1>6 DEF TypeOK
  <2> QED BY <1>1, <1>6, <1>9, <2>1, <2>2 DEF SlotsTold
<1>15. MainIsLeft' /\ AllWaitedFor'
  BY <1>1, <1>2, <1>5, <1>6 DEF MainIsLeft, AllWaitedFor, Doomed
<1>16. OneSignal' /\ NoneLeftRunning' /\ NothingHalfBuilt' /\ DeletedIsGone'
  BY <1>1, <1>2 DEF OneSignal, NoneLeftRunning, NothingHalfBuilt, DeletedIsGone
<1>17. StruckDeleted'
  BY <1>1, <1>2, <1>5, <1>6 DEF StruckDeleted
<1> QED BY <1>10, <1>11, <1>12, <1>13, <1>14, <1>15, <1>16, <1>17

--------------------------------------------------------------------------------
(* main.c *)

LEMMA StartJobKeeps ==
    ASSUME IInv, NEW c \in Children, StartJob(c)
    PROVE  IInv'
<1> USE DEF IInv
<1>1. /\ Running /\ Top.at = "run" /\ Top.sig = "main" /\ proc[c] = "unborn"
      /\ proc' = [proc EXCEPT ![c] = "alive"]
      /\ left' = [left EXCEPT ![c] = @ - 1]
      /\ chain' = chain \cup {c} /\ job_slots_used' = job_slots_used + 1
      /\ UNCHANGED <<target, late, deleted, arrived, pending, mask, dfl, handling,
                     stack, intermediates, end, struck>>
  BY DEF StartJob, At
<1>2. /\ end = "running" /\ Len(stack) = 1 /\ Top = stack[1] /\ ~handling /\ dfl = {}
  BY <1>1, RunningFacts DEF MainIsLeft
<1>3. c \notin chain
  BY <1>1 DEF ChainTold
<1>4. Cardinality(chain') = Cardinality(chain) + 1 /\ Cardinality(chain) \in Nat
  <2>1. IsFiniteSet(chain)
    BY ChildrenAssumption, FS_Subset DEF TypeOK
  <2> QED BY <1>1, <1>3, <2>1, FS_AddElement, FS_CardinalityType
<1>5. /\ proc' \in [Children -> ProcStates]
      /\ proc'[c] = "alive" /\ \A d \in Children \ {c} : proc'[d] = proc[d]
  BY <1>1 DEF TypeOK, ProcStates, Alive
<1>6. left[c] > 0 /\ left' \in [Children -> Nat] /\ \A d \in Children \ {c} : left'[d] = left[d]
  BY <1>1 DEF ChainTold, TypeOK
<1>7. TypeOK'
  BY <1>1, <1>5, <1>6 DEF TypeOK
<1>8. FramesInPlace' /\ ChildInHand' /\ AllWaitedFor'
  BY <1>1, <1>2 DEF FramesInPlace, ChildInHand, AllWaitedFor, Reaping
<1>9. ChainTold'
  BY <1>1, <1>5, <1>6 DEF ChainTold, TypeOK
<1>10. SlotsTold'
  <2>1. job_slots_used = Cardinality(chain)
    BY <1>1 DEF SlotsTold, TypeOK
  <2> QED BY <1>1, <1>2, <1>4, <2>1 DEF SlotsTold, Top
<1>11. MainIsLeft' /\ StruckDeleted'
  BY <1>1, <1>2 DEF MainIsLeft, StruckDeleted
<1>12. OneSignal' /\ NoneLeftRunning' /\ NothingHalfBuilt' /\ DeletedIsGone'
  BY <1>1, <1>2 DEF OneSignal, NoneLeftRunning, NothingHalfBuilt, DeletedIsGone
<1> QED BY <1>7, <1>8, <1>9, <1>10, <1>11, <1>12

LEMMA FinishKeeps ==
    ASSUME IInv, Finish
    PROVE  IInv'
<1> USE DEF IInv
<1>1. Running /\ Top.at = "run" /\ Goto("die")
  BY DEF Finish, At
<1>2. Top.sig = "main"
  BY <1>1, RunningFacts DEF FramesInPlace, Reaping
<1> QED BY <1>1, <1>2, PlaceMove DEF Finish, childVars, chainVars, Places, Reaping, TypeOK

LEMMA DieKeeps ==
    ASSUME IInv, Die
    PROVE  IInv'
<1> USE DEF IInv
<1>1. Running /\ Top.at = "die" /\ job_slots_used = 0
  BY DEF Die, At
<1>2. chain = {}
  <2>1. IsFiniteSet(chain) /\ Cardinality(chain) = 0
    BY <1>1, ChildrenAssumption, FS_Subset DEF SlotsTold, TypeOK
  <2> QED BY <2>1, FS_EmptySet
<1> QED BY <1>1, <1>2, EndMove DEF Die, Running, childVars, chainVars

--------------------------------------------------------------------------------
(* The commands *)

LEMMA CommandKeeps ==
    ASSUME IInv, NEW c \in Children, Writes(c) \/ Exits(c)
    PROVE  IInv'
<1> USE DEF IInv
<1>1. /\ end = "running" /\ proc[c] \in Alive
      /\ UNCHANGED <<left, deleted, chain, job_slots_used, arrived, pending, mask, dfl,
                     handling, stack, intermediates, end, struck>>
  BY DEF Writes, Exits, childVars, chainVars
<1>2. /\ proc' \in [Children -> ProcStates]
      /\ proc'[c] \in Alive \cup Zombies /\ \A d \in Children \ {c} : proc'[d] = proc[d]
      /\ target' \in [Children -> {"old", "changed", "removed"}]
      /\ late \subseteq late' /\ late' \subseteq Children
      /\ c \in deleted => target'[c] = target[c] \/ c \in late'
      /\ \A d \in Children \ {c} : target'[d] = target[d]
  BY <1>1 DEF Writes, Exits, TypeOK, ProcStates
<1>3. TypeOK'
  BY <1>1, <1>2 DEF TypeOK
<1>4. FramesInPlace' /\ AllWaitedFor' /\ OneSignal' /\ StruckDeleted'
  BY <1>1 DEF FramesInPlace, AllWaitedFor, OneSignal, StruckDeleted
<1>5. ChildInHand'
  BY <1>1, <1>2 DEF ChildInHand, Alive, TypeOK
<1>6. ChainTold'
  BY <1>1, <1>2 DEF ChainTold, TypeOK, Alive, Zombies
<1>7. SlotsTold' /\ MainIsLeft'
  BY <1>1 DEF SlotsTold, MainIsLeft, Top, Doomed
<1>8. NoneLeftRunning' /\ NothingHalfBuilt'
  BY <1>1 DEF NoneLeftRunning, NothingHalfBuilt
<1>9. DeletedIsGone'
  BY <1>1, <1>2 DEF DeletedIsGone, TypeOK
<1> QED BY <1>3, <1>4, <1>5, <1>6, <1>7, <1>8, <1>9

--------------------------------------------------------------------------------
(* fatal_error_signal *)

LEMMA ArriveKeeps ==
    ASSUME IInv, NEW s \in Signals, Arrive(s)
    PROVE  IInv'
<1> USE DEF IInv
<1>1. /\ end = "running" /\ arrived < MaxArrivals /\ arrived' = arrived + 1
      /\ pending' = pending \cup {s}
      /\ UNCHANGED <<proc, target, late, left, deleted, chain, job_slots_used, mask, dfl,
                     handling, stack, intermediates, end, struck>>
  BY DEF Arrive, childVars, chainVars
<1>2. TypeOK'
  BY <1>1, ArrivalsAssumption DEF TypeOK
<1>3. /\ FramesInPlace' /\ ChildInHand' /\ ChainTold' /\ AllWaitedFor' /\ DeletedIsGone'
      /\ NoneLeftRunning' /\ NothingHalfBuilt'
  BY <1>1 DEF FramesInPlace, ChildInHand, ChainTold, AllWaitedFor, DeletedIsGone,
     NoneLeftRunning, NothingHalfBuilt
<1>4. SlotsTold' /\ MainIsLeft'
  BY <1>1 DEF SlotsTold, MainIsLeft, Top, Doomed
<1>5. arrived' <= 1 => arrived = 0 /\ pending = {} /\ dfl = {}
  BY <1>1 DEF OneSignal, TypeOK
<1>6. OneSignal' /\ StruckDeleted'
  BY <1>1, <1>5 DEF OneSignal, StruckDeleted, TypeOK
<1> QED BY <1>2, <1>3, <1>4, <1>6

LEMMA DeliverKeeps ==
    ASSUME IInv, NEW s \in Signals, Deliver(s)
    PROVE  IInv'
<1> USE DEF IInv
<1>1. /\ end = "running" /\ s \in pending /\ s \notin mask /\ pending' = pending \ {s}
      /\ UNCHANGED <<proc, target, late, left, deleted, chain, job_slots_used, arrived,
                     intermediates>>
  BY DEF Deliver, childVars, chainVars
<1>2. CASE s \in dfl
  <2>1. end' = "signal" /\ UNCHANGED <<handling, stack, mask, dfl, struck>>
    BY <1>2 DEF Deliver
  <2>2. handling
    BY <1>2 DEF MainIsLeft
  <2>3. arrived <= 1 => chain = {}
    BY <1>1, <1>2 DEF OneSignal
  <2>4. arrived <= 1 /\ dfl \subseteq Interrupts => struck \subseteq deleted
    BY <1>1, <1>2, <2>2 DEF StruckDeleted
  <2> QED BY <1>1, <2>1, <2>3, <2>4, EndMove DEF TypeOK
<1>3. CASE s \notin dfl
  <2> DEFINE f == HandlerFrame(s)
             n == Len(stack)
  <2>1. /\ handling' = TRUE /\ struck' = IF handling THEN struck ELSE chain
        /\ dfl' = dfl \cup {s} /\ mask' = mask \cup {s} /\ end' = end
        /\ stack' = Append(stack, f)
    BY <1>3 DEF Deliver
  <2>2. /\ f \in Frames /\ f.sig = s /\ f.at = "kill" /\ f.saved = mask
    BY DEF HandlerFrame, Frames, Places, Zombies, TypeOK
  <2> HIDE DEF f
  <2>3. /\ n \in Nat /\ n >= 1 /\ stack \in Seq(Frames)
    BY StackNotEmpty DEF TypeOK, FramesInPlace
  <2>4. /\ stack' \in Seq(Frames) /\ stack' # <<>> /\ Len(stack') = n + 1
        /\ stack'[n + 1] = f /\ Top' = f
        /\ \A i \in 1 .. n : stack'[i] = stack[i]
    <3>1. /\ stack' \in Seq(Frames) /\ stack' # <<>> /\ Len(stack') = n + 1
          /\ stack'[n + 1] = f
          /\ \A i \in 1 .. n : stack'[i] = stack[i]
      BY <2>1, <2>2, <2>3, FramePushed
    <3> QED BY <3>1 DEF Top
  <2>5. \A i \in 1 .. n : stack[i].at # "off"
    BY <1>1 DEF SlotsTold, TypeOK
  <2>6. job_slots_used = Cardinality(chain)
    <3>1. Top.at # "off"
      BY <2>3, <2>5 DEF Top
    <3> QED BY <3>1 DEF SlotsTold, TypeOK
  <2>7. TypeOK'
    BY <1>1, <2>1, <2>4 DEF TypeOK
  <2>8. FramesInPlace'
    BY <1>1, <2>1, <2>2, <2>3, <2>4 DEF FramesInPlace, Reaping
  <2>9. ChildInHand'
    <3>1. \A i \in 1 .. n + 1 : stack'[i].at \in Reaping => i \in 1 .. n
      BY <2>2, <2>3, <2>4 DEF Reaping
    <3> QED BY <1>1, <2>3, <2>4, <3>1 DEF ChildInHand
  <2>10. ChainTold'
    BY <1>1 DEF ChainTold
  <2>11. SlotsTold'
    <3>1. \A i \in 1 .. n + 1 : stack'[i].at # "off"
      BY <2>2, <2>3, <2>4, <2>5
    <3>2. Top'.at # "off" /\ job_slots_used \in Nat
      BY <2>2, <2>4 DEF TypeOK
    <3> QED BY <1>1, <2>4, <2>6, <3>1, <3>2 DEF SlotsTold
  <2>12. MainIsLeft'
    <3>1. \A i \in 1 .. n : stack[i].at = "again" => stack[i].sig \in pending'
      <4> SUFFICES ASSUME NEW i \in 1 .. n, stack[i].at = "again" PROVE stack[i].sig \in pending'
        OBVIOUS
      <4>1. stack[i].sig \in pending
        BY <1>1 DEF MainIsLeft
      <4>2. stack[i].sig \in dfl
        BY DEF FramesInPlace, Reaping
      <4> QED BY <1>1, <1>3, <4>1, <4>2
    <3> QED BY <1>1, <2>1, <2>2, <2>3, <2>4, <3>1 DEF MainIsLeft
  <2>13. AllWaitedFor'
    BY <1>1, <2>2, <2>3, <2>4 DEF AllWaitedFor
  <2>14. arrived <= 1 => arrived # 0
    BY <1>1 DEF OneSignal
  <2>15. OneSignal' /\ NoneLeftRunning' /\ NothingHalfBuilt' /\ DeletedIsGone'
    BY <1>1, <2>1, <2>14 DEF OneSignal, NoneLeftRunning, NothingHalfBuilt, DeletedIsGone
  <2>16. StruckDeleted'
    <3>1. CASE handling
      <4>1. dfl' \subseteq Interrupts => dfl \subseteq Interrupts
        BY <2>1
      <4>2. pending \cap dfl = {} => pending' \cap dfl' = {}
        BY <1>1, <2>1
      <4> QED BY <1>1, <2>1, <2>2, <2>3, <2>4, <3>1, <4>1, <4>2 DEF StruckDeleted
    <3>2. CASE ~handling
      <4>1. n = 1 /\ dfl = {}
        BY <3>2 DEF MainIsLeft
      <4>2. pending' \cap dfl' = {} /\ struck' = chain
        BY <1>1, <2>1, <3>2, <4>1
      <4>3. stack'[2].at = "kill" /\ Len(stack') = 2
        BY <2>2, <2>4, <4>1
      <4> QED BY <1>1, <4>2, <4>3 DEF StruckDeleted
    <3> QED BY <3>1, <3>2
  <2> QED BY <2>7, <2>8, <2>9, <2>10, <2>11, <2>12, <2>13, <2>15, <2>16
<1> QED BY <1>2, <1>3

LEMMA HandlerPlacesKeep ==
    ASSUME IInv, KillChildren \/ DeleteTargets \/ WaitOver
    PROVE  IInv'
<1> USE DEF IInv
<1>1. CASE KillChildren
  <2>1. Running /\ Top.at = "kill" /\ Goto("delete")
    BY <1>1 DEF KillChildren, At
  <2>2. Top.sig # "main"
    BY <2>1, RunningFacts DEF FramesInPlace, Reaping
  <2>3. /\ proc' \in [Children -> ProcStates]
        /\ \A c \in Children : proc'[c] = proc[c] \/ {proc[c], proc'[c]} \subseteq Alive
    BY <1>1 DEF KillChildren, TypeOK, ProcStates, Alive
  <2> QED BY <1>1, <2>1, <2>2, <2>3, PlaceMove
          DEF KillChildren, childVars, chainVars, Places, Reaping, TypeOK
<1>2. CASE DeleteTargets
  <2>1. /\ Running /\ Top.at = "delete" /\ Goto("wait")
        /\ UNCHANGED <<proc, late, left, chain, job_slots_used, arrived, pending, mask, dfl,
                       handling, intermediates, end, struck>>
    BY <1>2 DEF DeleteTargets, At, chainVars
  <2>2. Top.sig # "main" /\ Top.sig \in dfl
    BY <2>1, RunningFacts DEF FramesInPlace, Reaping
  <2>3. /\ deleted \subseteq deleted' /\ deleted' \subseteq Children
        /\ target' \in [Children -> {"old", "changed", "removed"}]
        /\ \A c \in Children : target'[c] = "changed" => target[c] = "changed"
        /\ \A c \in deleted' \ deleted : c \notin Precious => target'[c] # "changed"
        /\ Top.sig \in Interrupts => chain \subseteq deleted'
    BY <1>2 DEF DeleteTargets, Delete, TypeOK
  <2> QED BY <2>1, <2>2, <2>3, PlaceMove DEF Places, Reaping, TypeOK
<1>3. CASE WaitOver
  <2>1. Running /\ Top.at = "wait" /\ Goto("clean") /\ job_slots_used = 0
    BY <1>3 DEF WaitOver, At
  <2>2. Top.sig # "main"
    BY <2>1, RunningFacts DEF FramesInPlace, Reaping
  <2>3. chain = {}
    <3>1. IsFiniteSet(chain) /\ Cardinality(chain) = 0
      BY <2>1, ChildrenAssumption, FS_Subset DEF SlotsTold, TypeOK
    <3> QED BY <3>1, FS_EmptySet
  <2> QED BY <1>3, <2>1, <2>2, <2>3, PlaceMove
          DEF WaitOver, childVars, chainVars, Places, Reaping, TypeOK
<1> QED BY <1>1, <1>2, <1>3

LEMMA SignalAgainKeeps ==
    ASSUME IInv, SignalAgain
    PROVE  IInv'
<1> USE DEF IInv
<1> DEFINE n == Len(stack)
<1>1. /\ Running /\ Top.at = "clean" /\ intermediates' = "removed"
      /\ UNCHANGED <<proc, target, late, left, deleted, chain, job_slots_used, arrived,
                     mask, dfl, handling, struck>>
  BY DEF SignalAgain, At, childVars, chainVars
<1>2. /\ end = "running" /\ pending \subseteq mask
      /\ n \in Nat /\ n >= 1
      /\ Top \in Frames /\ Top = stack[n]
      /\ handling <=> n > 1
      /\ Top.sig = "main" <=> n = 1
  BY <1>1, RunningFacts
<1>3. n > 1 /\ Top.sig \in Signals /\ Top.sig \in dfl /\ chain = {}
  BY <1>1, <1>2 DEF FramesInPlace, AllWaitedFor, Reaping
<1>4. handling /\ (dfl \subseteq Interrupts => struck \subseteq deleted)
  BY <1>1, <1>2, <1>3 DEF StruckDeleted
<1>5. CASE Top.sig = "SIGQUIT"
  <2>1. end' = "quit" /\ UNCHANGED <<pending, stack>>
    BY <1>5 DEF SignalAgain
  <2> QED BY <1>1, <1>2, <1>3, <1>4, <2>1, EndMove DEF TypeOK
<1>6. CASE Top.sig # "SIGQUIT"
  <2>1. pending' = pending \cup {Top.sig} /\ Goto("again") /\ end' = end
    BY <1>6 DEF SignalAgain
  <2>2. /\ stack' \in Seq(Frames) /\ stack' # <<>> /\ Len(stack') = n
        /\ Top' = stack'[n] /\ Top' \in Frames
        /\ Top'.at = "again"
        /\ Top'.sig = Top.sig /\ Top'.back = Top.back /\ Top'.child = Top.child
        /\ Top'.saved = Top.saved
        /\ \A i \in 1 .. n : i # n => stack'[i] = stack[i]
    BY <2>1, PlaceSet DEF Places
  <2>3. TypeOK'
    BY <1>1, <1>3, <2>1, <2>2 DEF TypeOK
  <2>4. FramesInPlace'
    BY <1>1, <1>2, <1>3, <2>2 DEF FramesInPlace, Reaping
  <2>5. ChildInHand' /\ ChainTold' /\ AllWaitedFor'
    BY <1>1, <1>2, <1>3, <2>2 DEF ChildInHand, ChainTold, AllWaitedFor, Reaping
  <2>6. SlotsTold'
    BY <1>1, <1>2, <2>2 DEF SlotsTold
  <2>7. MainIsLeft'
    BY <1>1, <1>2, <1>3, <2>1, <2>2 DEF MainIsLeft
  <2>8. OneSignal' /\ NoneLeftRunning' /\ NothingHalfBuilt' /\ DeletedIsGone'
    BY <1>1, <1>2, <1>3, <2>1 DEF OneSignal, NoneLeftRunning, NothingHalfBuilt, DeletedIsGone
  <2>9. StruckDeleted'
    BY <1>1, <1>2, <1>4, <2>2 DEF StruckDeleted
  <2> QED BY <2>3, <2>4, <2>5, <2>6, <2>7, <2>8, <2>9
<1> QED BY <1>5, <1>6

LEMMA HandlerReturnsKeeps ==
    ASSUME IInv, HandlerReturns
    PROVE  IInv'
<1> USE DEF IInv
<1> DEFINE n == Len(stack)
<1>1. /\ Running /\ Top.at = "again" /\ mask' = Top.saved
      /\ stack' = SubSeq(stack, 1, Len(stack) - 1)
      /\ UNCHANGED <<proc, target, late, left, deleted, chain, job_slots_used, arrived,
                     pending, dfl, handling, intermediates, end, struck>>
  BY DEF HandlerReturns, At, childVars, chainVars
<1>2. /\ end = "running" /\ pending \subseteq mask
      /\ n \in Nat /\ n >= 1
      /\ Top \in Frames /\ Top = stack[n] /\ stack \in Seq(Frames)
      /\ handling <=> n > 1
      /\ Top.sig = "main" <=> n = 1
  BY <1>1, RunningFacts
<1>3. /\ n > 1 /\ Top.sig \in Signals /\ Top.sig \in dfl /\ Top.sig \notin Top.saved
      /\ Top.saved \subseteq Signals
  BY <1>1, <1>2 DEF FramesInPlace, Reaping, Frames
<1>4. Top.sig \in pending /\ chain = {}
  BY <1>1, <1>2 DEF MainIsLeft, AllWaitedFor
<1>5. /\ stack' \in Seq(Frames) /\ stack' # <<>> /\ Len(stack') = n - 1
      /\ \A i \in 1 .. n - 1 : stack'[i] = stack[i]
  BY <1>1, <1>2, <1>3, FramePopped
<1>6. handling /\ (dfl \subseteq Interrupts => struck \subseteq deleted)
  BY <1>1, <1>2, <1>3 DEF StruckDeleted
<1>7. TypeOK'
  BY <1>1, <1>3, <1>5 DEF TypeOK
<1>8. FramesInPlace'
  BY <1>1, <1>2, <1>5 DEF FramesInPlace
<1>9. ChildInHand' /\ ChainTold' /\ AllWaitedFor'
  <2>1. \A i \in 1 .. n - 1 : i \in 1 .. n
    BY <1>2
  <2>2. ChildInHand'
    BY <1>1, <1>5, <2>1 DEF ChildInHand
  <2>3. AllWaitedFor' /\ ChainTold'
    BY <1>1, <1>5, <2>1 DEF AllWaitedFor, ChainTold
  <2> QED BY <2>2, <2>3
<1>10. SlotsTold'
  <2>1. \A i \in 1 .. n - 1 : stack'[i].at # "off"
    BY <1>2, <1>5 DEF SlotsTold
  <2>2. Top'.at # "off"
    BY <1>2, <1>3, <1>5, <2>1 DEF Top
  <2>3. job_slots_used = Cardinality(chain)
    BY <1>1 DEF SlotsTold, TypeOK
  <2> QED BY <1>1, <1>5, <2>1, <2>2, <2>3 DEF SlotsTold, TypeOK
<1>11. MainIsLeft'
  <2>1. Doomed' # {}
    BY <1>1, <1>3, <1>4 DEF Doomed
  <2> QED BY <1>1, <1>2, <1>5, <1>6, <2>1 DEF MainIsLeft
<1>12. OneSignal' /\ NoneLeftRunning' /\ NothingHalfBuilt' /\ DeletedIsGone'
  BY <1>1, <1>2, <1>4 DEF OneSignal, NoneLeftRunning, NothingHalfBuilt, DeletedIsGone
<1>13. StruckDeleted'
  BY <1>1, <1>2, <1>5, <1>6 DEF StruckDeleted
<1> QED BY <1>7, <1>8, <1>9, <1>10, <1>11, <1>12, <1>13

--------------------------------------------------------------------------------
(* The theorems *)

LEMMA Begins ==
    ASSUME Init
    PROVE  IInv
<1> USE DEF Init
<1>1. stack = <<Main>> /\ Main \in Frames /\ Top = Main /\ Len(stack) = 1 /\ stack[1] = Main
  BY DEF Main, Frames, Places, Zombies, Top
<1>2. TypeOK
  <2>1. stack \in Seq(Frames)
    BY <1>1
  <2>2. /\ left \in [Children -> Nat] /\ arrived \in 0 .. MaxArrivals
        /\ proc \in [Children -> ProcStates]
        /\ target \in [Children -> {"old", "changed", "removed"}]
    BY LinesAssumption, ArrivalsAssumption DEF ProcStates
  <2> QED BY <2>1, <2>2 DEF TypeOK
<1>3. FramesInPlace /\ ChildInHand /\ AllWaitedFor
  BY <1>1 DEF FramesInPlace, ChildInHand, AllWaitedFor, Main, Reaping
<1>4. ChainTold
  BY LinesAssumption DEF ChainTold, Alive, Zombies
<1>5. SlotsTold
  BY <1>1, FS_EmptySet DEF SlotsTold, Main
<1>6. /\ MainIsLeft /\ OneSignal /\ DeletedIsGone /\ StruckDeleted
      /\ NoneLeftRunning /\ NothingHalfBuilt
  BY <1>1 DEF MainIsLeft, OneSignal, DeletedIsGone, StruckDeleted, NoneLeftRunning,
     NothingHalfBuilt, Main
<1> QED BY <1>2, <1>3, <1>4, <1>5, <1>6 DEF IInv

LEMMA Stutters ==
    ASSUME IInv, UNCHANGED vars
    PROVE  IInv'
<1> USE DEF IInv, vars, childVars, chainVars
<1>1. TypeOK' /\ FramesInPlace' /\ ChildInHand' /\ ChainTold' /\ AllWaitedFor'
  BY DEF TypeOK, FramesInPlace, ChildInHand, ChainTold, AllWaitedFor
<1>2. SlotsTold' /\ MainIsLeft' /\ OneSignal' /\ DeletedIsGone' /\ StruckDeleted'
  BY DEF SlotsTold, MainIsLeft, OneSignal, DeletedIsGone, StruckDeleted, Top, Doomed
<1>3. NoneLeftRunning' /\ NothingHalfBuilt'
  BY DEF NoneLeftRunning, NothingHalfBuilt
<1> QED BY <1>1, <1>2, <1>3

LEMMA StepKeeps ==
    ASSUME IInv, [Next]_vars
    PROVE  IInv'
<1>1. ASSUME NEW c \in Children, Wait(c) \/ StartJob(c) \/ Writes(c) \/ Exits(c)
      PROVE  IInv'
  BY <1>1, WaitKeeps, StartJobKeeps, CommandKeeps
<1>2. CASE NothingToWaitFor \/ NextLine \/ RecipeOver \/ FreeSlot \/ OffChain
  BY <1>2, NothingToWaitForKeeps, NextLineKeeps, RecipeOverKeeps, FreeSlotKeeps, OffChainKeeps
<1>3. CASE Handler
  BY <1>3, HandlerPlacesKeep, SignalAgainKeeps, HandlerReturnsKeeps DEF Handler
<1>4. CASE Finish \/ Die
  BY <1>4, FinishKeeps, DieKeeps
<1>5. ASSUME NEW s \in Signals, Arrive(s) \/ Deliver(s)
      PROVE  IInv'
  BY <1>5, ArriveKeeps, DeliverKeeps
<1>6. CASE Gone \/ UNCHANGED vars
  BY <1>6, Stutters DEF Gone
<1> QED BY <1>1, <1>2, <1>3, <1>4, <1>5, <1>6 DEF Next, Program, Reap

\* The inductive invariant holds in every state.
THEOREM SignalInvariance == Spec => []IInv
<1>1. Init => IInv
  BY Begins
<1>2. IInv /\ [Next]_vars => IInv'
  BY StepKeeps
<1> QED BY <1>1, <1>2, PTL DEF Spec

\* Whenever a handler begins, the count of slots is that of the chain and every process
\* make has not waited for is on it: the signals are blocked over the assignments
\* between which this is not so (reap_children, job.c:1073).
THEOREM OrderFound == Spec => []HandlerFindsOrder
<1>1. IInv => HandlerFindsOrder
  BY DEF IInv, SlotsTold, ChainTold, HandlerFindsOrder, TypeOK
<1> QED BY <1>1, SignalInvariance, PTL

\* A single fatal signal leaves no command running and no target half built, however
\* many recipes and lines there are and wherever it falls (commands.c:552).
THEOREM NothingIsLeft == Spec => []NothingLeftOver
<1>1. IInv => NothingLeftOver
  BY DEF IInv, NothingLeftOver
<1> QED BY <1>1, SignalInvariance, PTL

--------------------------------------------------------------------------------

LEMMA StepLeavesMain ==
    ASSUME IInv, [Next]_vars, handling
    PROVE  /\ Len(stack') >= 1 /\ stack'[1] = stack[1]
           /\ \A c \in Children : proc'[c] \in Alive => proc[c] \in Alive
<1> USE DEF IInv
<1> DEFINE n == Len(stack)
           Kept == Len(stack') >= 1 /\ stack'[1] = stack[1]
           Calm == \A c \in Children : proc'[c] \in Alive => proc[c] \in Alive
<1> SUFFICES Kept /\ Calm
  OBVIOUS
<1>1. n \in Nat /\ n >= 1 /\ stack \in Seq(Frames) /\ stack # <<>>
  BY StackNotEmpty DEF TypeOK, FramesInPlace
<1>2. Running => n > 1 /\ Top.sig # "main"
  BY RunningFacts
<1>3. ASSUME NEW f, SetTop(f), Running
      PROVE  Kept
  BY <1>1, <1>2, <1>3 DEF SetTop
<1>4. CASE UNCHANGED <<stack, proc>>
  BY <1>1, <1>4
<1>5. ASSUME NEW c \in Children, Wait(c)
      PROVE  Kept /\ Calm
  <2>1. Kept
    BY <1>3, <1>5 DEF Wait
  <2> QED BY <1>5, <2>1 DEF Wait, Alive, TypeOK
<1>6. ASSUME NEW c \in Children, StartJob(c)
      PROVE  FALSE
  BY <1>2, <1>6 DEF StartJob, At
<1>7. CASE NextLine
  BY <1>7 DEF NextLine
<1>8. CASE RecipeOver \/ FreeSlot \/ Finish \/ DeleteTargets \/ WaitOver
  <2>1. PICK p \in Places : Running /\ Goto(p) /\ proc' = proc
    BY <1>8 DEF RecipeOver, FreeSlot, Finish, DeleteTargets, WaitOver, At, Places,
       childVars, chainVars
  <2>2. Kept
    BY <1>3, <2>1 DEF Goto
  <2> QED BY <2>1, <2>2
<1>9. CASE OffChain
  <2>1. Kept
    BY <1>3, <1>9 DEF OffChain, At
  <2> QED BY <1>9, <2>1 DEF OffChain
<1>10. CASE KillChildren
  <2>1. Kept
    BY <1>3, <1>10 DEF KillChildren, At, Goto
  <2> QED BY <1>10, <2>1 DEF KillChildren, Alive, TypeOK
<1>11. CASE SignalAgain
  <2>1. Kept
    <3>1. CASE UNCHANGED stack
      BY <1>1, <3>1
    <3>2. CASE Goto("again")
      BY <1>3, <1>11, <3>2 DEF SignalAgain, At, Goto
    <3> QED BY <1>11, <3>1, <3>2 DEF SignalAgain
  <2> QED BY <1>11, <2>1 DEF SignalAgain
<1>12. CASE HandlerReturns
  <2>1. n > 1
    BY <1>2, <1>12 DEF HandlerReturns, At
  <2>2. Kept
    BY <1>1, <1>12, <2>1, FramePopped DEF HandlerReturns
  <2> QED BY <1>12, <2>2 DEF HandlerReturns
<1>13. ASSUME NEW s \in Signals, Deliver(s)
       PROVE  Kept /\ Calm
  <2>1. CASE UNCHANGED stack
    BY <1>1, <1>13, <2>1 DEF Deliver
  <2>2. CASE stack' = Append(stack, HandlerFrame(s))
    <3>1. Kept
      BY <1>1, <2>2
    <3> QED BY <1>13, <3>1 DEF Deliver
  <2> QED BY <1>13, <2>1, <2>2 DEF Deliver
<1>14. ASSUME NEW c \in Children, Writes(c) \/ Exits(c)
       PROVE  Kept /\ Calm
  BY <1>1, <1>14 DEF Writes, Exits, Alive, TypeOK
<1>15. ASSUME NEW s \in Signals, Arrive(s)
       PROVE  UNCHANGED <<stack, proc>>
  BY <1>15 DEF Arrive
<1>16. NothingToWaitFor \/ Die \/ Gone \/ UNCHANGED vars => UNCHANGED <<stack, proc>>
  BY DEF NothingToWaitFor, Die, Gone, vars
<1> HIDE DEF Kept, Calm
<1> QED BY <1>4, <1>5, <1>6, <1>7, <1>8, <1>9, <1>10, <1>11, <1>12, <1>13, <1>14, <1>15, <1>16
        DEF Next, Program, Reap, Handler

\* After the first handler has begun no step of main is taken and no process started, in
\* every run.
THEOREM MainEnds == Spec => MainIsOver
<1>1. IInv /\ [Next]_vars =>
          [handling => /\ Len(stack') >= 1 /\ stack'[1] = stack[1]
                       /\ \A c \in Children : proc'[c] \in Alive => proc[c] \in Alive]_vars
  BY StepLeavesMain
<1> QED BY <1>1, SignalInvariance, PTL DEF Spec, MainIsOver
================================================================================
