------------------------------ MODULE StartupProof -----------------------------
(***************************************************************************)
(* Proofs about Startup, for every set of makefiles and every world: what  *)
(* comes through exec, what is left when make is over, and, if -q and -n   *)
(* hold back no makefile, when make starts itself again and when it goes   *)
(* on to the goals.                                                        *)
(***************************************************************************)
EXTENDS Startup, TLAPS

--------------------------------------------------------------------------------
(* What the images have in common *)

\* The world make was started in
WorldInv == world \in {World(i) : i \in Worlds}

\* What the options and the environment say of the jobserver if the parent's pipe can be
\* used, and if it cannot
Served ==
    IF world.auth = "none" \/ world.argvJ # 0
    THEN [auth |-> "none", slots |-> world.argvJ, own |-> FALSE]
    ELSE [auth |-> world.auth, slots |-> world.envJ, own |-> FALSE]

Alone ==
    IF world.auth = "none" \/ world.argvJ # 0
    THEN [auth |-> "none", slots |-> world.argvJ, own |-> FALSE]
    ELSE [auth |-> "none", slots |-> 1, own |-> FALSE]

SlotsOf(j) == IF world.mkJ = 0 \/ world.argvJ # 0 THEN j.slots ELSE world.mkJ
LeavesFrom(j) == j.auth # "none" /\ world.mkJ # 0 /\ world.argvJ = 0 /\ world.mkJ # j.slots

\* What main makes of j when the makefiles have been read
ConfiguredFrom(j) ==
    LET auth == IF LeavesFrom(j) THEN "none" ELSE j.auth
        n == IF auth # "none" THEN 0 ELSE IF SlotsOf(j) = 0 THEN 1 ELSE SlotsOf(j)
    IN  IF n > 1 THEN [auth |-> world.style, slots |-> n, own |-> TRUE]
        ELSE [auth |-> auth, slots |-> n, own |-> FALSE]

Opened == world.auth \in {"fifo", "pipe"}

\* The parallelism of the first image, and so of each
Parallelism == ConfiguredFrom(IF Opened THEN Served ELSE Alone)
Synced == Syncing(Parallelism)

\* The first image leaves the parent's jobserver.
Departs == LeavesFrom(Served)

InRead == pc \in {"read", "configure"}
InWalk == pc \in {"walk", "exec", "goals"}

\* The pipe is shut by the image that leaves the parent's jobserver, and only by it; what
\* an image finds and what it makes of it
PipeInv ==
    /\ pipe \in BOOLEAN
    /\ pipe => Opened
    /\ Opened /\ ~pipe => Departs
    /\ InRead => jobs = Authorized
    /\ InWalk => jobs = Parallelism /\ first # <<>>
    /\ first # <<>> => first[1] = Parallelism /\ first[4] = Synced

\* Whose are the things that are on the disk
LeftInv ==
    /\ left \subseteq {"fifo", "mutex", "temp"}
    /\ pc \in {"boot", "read", "configure"} => left \subseteq {"temp"}
    /\ "fifo" \in left => jobs.own
    /\ pc = "over" => left = {}

ImageInv == WorldInv /\ PipeInv /\ LeftInv

\* main.c settles the number of jobs as the model says it does.
LEMMA AsConfigured ==
    /\ Authorized = IF pipe THEN Served ELSE Alone
    /\ Leaves = LeavesFrom(jobs)
    /\ Configured = ConfiguredFrom(jobs)
<1>1. Authorized = IF pipe THEN Served ELSE Alone
  BY DEF Authorized, Served, Alone
<1>2. Leaves = LeavesFrom(jobs)
  BY DEF Leaves, LeavesFrom
<1>3. Slots = SlotsOf(jobs)
  BY DEF Slots, SlotsOf
<1> QED BY <1>1, <1>2, <1>3 DEF Configured, ConfiguredFrom

\* An image that finds the pipe shut, since an earlier one has left the jobserver, comes to
\* the number of jobs that one came to (main.c, the -j of a makefile against the parent's).
LEMMA SameAgain ==
    ASSUME Opened, LeavesFrom(Served)
    PROVE  ConfiguredFrom(Alone) = ConfiguredFrom(Served)
<1>1. world.auth # "none" /\ world.mkJ # 0 /\ world.argvJ = 0
  BY DEF Opened, LeavesFrom
<1>2. Alone = [auth |-> "none", slots |-> 1, own |-> FALSE]
  BY <1>1 DEF Alone
<1>3. Alone.auth = "none"
  BY <1>2
<1>4. ~LeavesFrom(Alone)
  BY <1>3 DEF LeavesFrom
<1>5. SlotsOf(Alone) = world.mkJ /\ SlotsOf(Served) = world.mkJ
  BY <1>1 DEF SlotsOf
<1> QED BY <1>3, <1>4, <1>5 DEF ConfiguredFrom

LEMMA ImageInit == Init => ImageInv
<1> SUFFICES ASSUME NEW i \in Worlds, InitWorld(World(i)) PROVE ImageInv
  BY DEF Init
<1>1. world = World(i) /\ pc = "boot" /\ pipe = (world.auth \in {"fifo", "pipe"})
      /\ left = {} /\ first = <<>> /\ jobs = NoJobs
  BY DEF InitWorld
<1>2. pipe \in BOOLEAN
  BY <1>1
<1>3. (pipe => Opened) /\ (Opened => pipe)
  BY <1>1 DEF Opened
<1>4. PipeInv
  BY <1>1, <1>2, <1>3 DEF PipeInv, InRead, InWalk
<1> QED BY <1>1, <1>4 DEF ImageInv, WorldInv, LeftInv

--------------------------------------------------------------------------------
(* Every step keeps it *)

\* A step that neither settles the jobs nor starts or ends an image
Within ==
    /\ UNCHANGED <<world, pipe, jobs, left, first>>
    /\ \/ pc' = pc /\ pc # "over"
       \/ pc = "walk" /\ pc' \in {"exec", "goals", "die"}
       \/ pc = "read" /\ pc' = "configure"

LEMMA WithinSteps ==
    ASSUME ReadMakefiles \/ Consider \/ Count \/ Judge
    PROVE  Within
<1>1. CASE ReadMakefiles
  BY <1>1 DEF ReadMakefiles, Within
<1>2. CASE Consider
  BY <1>2 DEF Consider, Within
<1>3. CASE Count
  BY <1>3 DEF Count, Within
<1>4. CASE Judge
  BY <1>4 DEF Judge, Within
<1> QED BY <1>1, <1>2, <1>3, <1>4

\* What is said of the world alone stays as it is.
LEMMA SameWorld ==
    ASSUME world' = world
    PROVE  /\ Opened' = Opened /\ Served' = Served /\ Alone' = Alone
           /\ Parallelism' = Parallelism
           /\ Synced' = Synced /\ Departs' = Departs
           /\ pipe' = pipe => Authorized' = Authorized
BY DEF Opened, Served, Alone, Parallelism, Synced, Departs, ConfiguredFrom, LeavesFrom, SlotsOf, Syncing, Authorized

LEMMA WithinStep ==
    ASSUME ImageInv, Within
    PROVE  ImageInv'
<1>1. world' = world /\ pipe' = pipe /\ jobs' = jobs /\ left' = left /\ first' = first
  BY DEF Within
<1>2. (InRead' => InRead) /\ (InWalk' => InWalk)
  BY DEF Within, InRead, InWalk
<1>3. PipeInv'
  BY <1>1, <1>2, SameWorld DEF ImageInv, PipeInv
<1>4. LeftInv'
  BY <1>1 DEF ImageInv, LeftInv, Within
<1> QED BY <1>1, <1>3, <1>4 DEF ImageInv, WorldInv

LEMMA BootStep ==
    ASSUME ImageInv, Boot
    PROVE  ImageInv'
<1>1. /\ world' = world /\ pipe' = pipe /\ first' = first /\ jobs' = Authorized
      /\ pc = "boot" /\ pc' \in {"read", "die"} /\ left' \in {left, left \cup {"temp"}}
  BY DEF Boot
<1>2. ~InWalk'
  BY <1>1 DEF InWalk
<1>3. PipeInv'
  BY <1>1, <1>2, SameWorld DEF ImageInv, PipeInv
<1>4. LeftInv'
  BY <1>1 DEF ImageInv, LeftInv
<1> QED BY <1>1, <1>3, <1>4 DEF ImageInv, WorldInv

LEMMA ConfigureStep ==
    ASSUME ImageInv, Configure
    PROVE  ImageInv'
<1>1. /\ world' = world /\ pipe' = (pipe /\ ~Leaves) /\ jobs' = Configured
      /\ pc = "configure" /\ pc' = "walk"
  BY DEF Configure
<1>2. /\ left' \subseteq left \cup {"fifo", "mutex"}
      /\ "fifo" \in left' => "fifo" \in left \/ Configured.own
  BY DEF Configure
<1>3. first' = IF first = <<>> THEN <<Configured, opts.list, opts.other, Syncing(Configured)>> ELSE first
  BY DEF Configure
<1>4. jobs = Authorized /\ pipe \in BOOLEAN /\ (pipe => Opened) /\ (Opened /\ ~pipe => Departs)
  BY <1>1 DEF ImageInv, PipeInv, InRead
<1>5. jobs = IF pipe THEN Served ELSE Alone
  BY <1>4, AsConfigured
<1>6. Configured = Parallelism
  BY <1>4, <1>5, AsConfigured, SameAgain DEF Parallelism, Departs
<1>7. pipe' \in BOOLEAN /\ (pipe' <=> pipe /\ ~Leaves)
  BY <1>1, Zenon
<1>8. (pipe' => Opened) /\ (Opened /\ ~pipe' => Departs)
  BY <1>4, <1>5, <1>7, AsConfigured DEF Departs
<1>9. first' # <<>> /\ first'[1] = Parallelism /\ first'[4] = Synced
  BY <1>3, <1>6 DEF ImageInv, PipeInv, Synced
<1>10. PipeInv'
  BY <1>1, <1>6, <1>7, <1>8, <1>9, SameWorld DEF PipeInv, InRead
<1>11. LeftInv'
  BY <1>1, <1>2 DEF ImageInv, LeftInv
<1> QED BY <1>1, <1>10, <1>11 DEF ImageInv, WorldInv

\* What is left when make has cleaned up is at most the copy of standard input.
LEMMA CleanedUp == LeftInv => Cleaned \subseteq {"temp"}
BY DEF LeftInv, Cleaned

LEMMA ReexecStep ==
    ASSUME ImageInv, Reexec
    PROVE  ImageInv'
<1>1. /\ world' = world /\ pipe' = pipe /\ first' = first /\ left' = Cleaned
      /\ pc = "exec" /\ pc' = "boot"
  BY DEF Reexec, PipeKept
<1>2. ~InWalk' /\ ~InRead'
  BY <1>1 DEF InWalk, InRead
<1>3. PipeInv'
  BY <1>1, <1>2, SameWorld DEF ImageInv, PipeInv
<1>4. LeftInv'
  BY <1>1, CleanedUp DEF ImageInv, LeftInv
<1> QED BY <1>1, <1>3, <1>4 DEF ImageInv, WorldInv

LEMMA LastSteps ==
    ASSUME ImageInv, ExecFails \/ Goals \/ Die
    PROVE  ImageInv'
<1>1. /\ UNCHANGED <<world, pipe, first, jobs>>
      /\ \/ pc' = "die" /\ left' = left \ {"temp"} /\ pc = "goals"
         \/ pc' = "over" /\ left' = Cleaned \ {"temp"}
  BY DEF ExecFails, Goals, Die, Unlinked
<1>2. ~InWalk' /\ ~InRead'
  BY <1>1 DEF InWalk, InRead
<1>3. PipeInv'
  BY <1>1, <1>2, SameWorld DEF ImageInv, PipeInv
<1>4. LeftInv'
  BY <1>1, CleanedUp DEF ImageInv, LeftInv
<1> QED BY <1>1, <1>3, <1>4 DEF ImageInv, WorldInv

LEMMA ImageNext == ImageInv /\ [Next \/ Over]_vars => ImageInv'
<1> SUFFICES ASSUME ImageInv, [Next \/ Over]_vars PROVE ImageInv'
  OBVIOUS
<1>1. CASE Boot
  BY <1>1, BootStep
<1>2. CASE ReadMakefiles \/ Consider \/ Count \/ Judge
  BY <1>2, WithinSteps, WithinStep
<1>3. CASE Configure
  BY <1>3, ConfigureStep
<1>4. CASE Reexec
  BY <1>4, ReexecStep
<1>5. CASE ExecFails \/ Goals \/ Die
  BY <1>5, LastSteps
<1>6. CASE UNCHANGED vars
  <2>1. UNCHANGED <<world, pipe, first, jobs, left, pc>>
    BY <1>6 DEF vars
  <2>2. PipeInv'
    BY <2>1, SameWorld DEF ImageInv, PipeInv, InRead, InWalk
  <2>3. LeftInv'
    BY <2>1 DEF ImageInv, LeftInv
  <2> QED BY <2>1, <2>2, <2>3 DEF ImageInv, WorldInv
<1> QED BY <1>1, <1>2, <1>3, <1>4, <1>5, <1>6 DEF Next, Over

\* Whichever image it is: what it finds of the parent's jobserver, what it makes of it, and
\* whose are the fifo, the lock and the copy of standard input.
THEOREM ImageInvariance == Spec => []ImageInv
BY ImageInit, ImageNext, PTL DEF Spec

\* Each image of make has the same part in the jobserver, or as many jobs of its own, and
\* the same use of the output lock; when the last is over, also because exec failed,
\* nothing is left of what they made for themselves (main.c, from decode_env_switches to
\* exec_command, and clean_jobserver).
THEOREM ImagesAgree == Spec => []ImageKept
<1>1. ImageInv => ImageKept
  BY DEF ImageInv, PipeInv, LeftInv, InWalk, Synced, ImageKept, SameParallelism, NothingLeft
<1> QED BY <1>1, ImageInvariance, PTL

--------------------------------------------------------------------------------
(* When make starts itself again, and when it goes on *)

\* -q or -n is given, and some makefile is also a goal, which is then not remade.
HeldBack == world.goals # {} /\ (world.question \/ world.justprint)

\* What has been counted of the makefile at position i
CountedAt(i) ==
    \/ Skipped(readFiles[i])
    \/ /\ readFiles[i] \in updated
       /\ readFiles[i] \in failed => status = "failed"
       /\ readFiles[i] \in changed => status \in {"success", "failed"}

\* What became of a makefile that was not there to be read
Explained(f) ==
    f \in failed \cup changed \cup WhatIf \/ world.rule[f] = "dummy" \/ Skipped(f)

WalkInv ==
    /\ asked = {} /\ imagined = WhatIf
    /\ changed \subseteq updated
    /\ \A f \in changed : ~Skipped(f)
    /\ status \in {"none", "success", "failed"}
    /\ status = "success" => \E f \in Range(readFiles) : f \in changed
    /\ todo \subseteq DOMAIN readFiles
    /\ \A i \in DOMAIN readFiles \ todo : CountedAt(i)
    /\ error \subseteq Range(readFiles)
    /\ error \cap disk \subseteq changed
    /\ \A f \in error \cap world.care : f \in updated => Explained(f)
    /\ anyFailed = MissingSkipped

RoundInv ==
    /\ pc = "configure" => error \subseteq Range(readFiles) /\ error \cap disk = {} /\ changed = {}
    /\ pc = "walk" => WalkInv
    /\ NoNeedlessRestart /\ MakefilesCurrent /\ MissingIsFatal

RestartInv == WorldInv /\ (~HeldBack => RoundInv)

LEMMA WorldHolds == WorldInv => WorldOK(world)
BY WorldsOK DEF WorldInv

LEMMA RestartInit == Init => RestartInv
<1> SUFFICES ASSUME NEW i \in Worlds, InitWorld(World(i)) PROVE RestartInv
  BY DEF Init
<1>1. world = World(i) /\ pc = "boot"
  BY DEF InitWorld
<1> QED BY <1>1 DEF RestartInv, RoundInv, WorldInv, NoNeedlessRestart, MakefilesCurrent, MissingIsFatal

\* A step to another place than those the invariant speaks of
LEMMA Elsewhere ==
    ASSUME RestartInv, world' = world, pc' \in {"boot", "read", "die", "over"}
    PROVE  RestartInv'
BY DEF RestartInv, RoundInv, WorldInv, NoNeedlessRestart, MakefilesCurrent, MissingIsFatal

LEMMA ReadStep ==
    ASSUME RestartInv, ReadMakefiles
    PROVE  RestartInv'
<1>1. /\ world' = world /\ disk' = disk /\ pc' = "configure" /\ changed' = {}
      /\ error' = Range(readFiles') \ disk
  BY DEF ReadMakefiles
<1>2. Range(readFiles)' = Range(readFiles')
  BY DEF Range
<1> QED
  BY <1>1, <1>2 DEF RestartInv, RoundInv, WorldInv, NoNeedlessRestart, MakefilesCurrent, MissingIsFatal

LEMMA WalkStarts ==
    ASSUME RestartInv, Configure
    PROVE  RestartInv'
<1>1. /\ UNCHANGED <<world, restarted, readFiles, error, disk, changed>>
      /\ pc = "configure" /\ pc' = "walk" /\ status' = "none" /\ asked' = {}
      /\ imagined' = WhatIf /\ updated' = {Temp} \cap disk /\ anyFailed' = MissingSkipped
      /\ todo' = {i \in DOMAIN readFiles : ~Skipped(readFiles[i])}
  BY DEF Configure, outside
<1> SUFFICES ASSUME ~HeldBack PROVE WalkInv'
  BY <1>1 DEF RestartInv, RoundInv, WorldInv, HeldBack, NoNeedlessRestart, MakefilesCurrent, MissingIsFatal
<1>2. error \subseteq Range(readFiles) /\ error \cap disk = {} /\ changed = {}
  BY <1>1 DEF RestartInv, RoundInv
<1>3. WhatIf' = WhatIf /\ MissingSkipped' = MissingSkipped /\ Range(readFiles)' = Range(readFiles)
  BY <1>1 DEF WhatIf, MissingSkipped, Skipped, Range
<1>4. \A i \in DOMAIN readFiles' \ todo' : CountedAt(i)'
  BY <1>1 DEF CountedAt, Skipped
<1> QED BY <1>1, <1>2, <1>3, <1>4 DEF WalkInv

\* Nothing is held back, so a makefile that is considered is decided by its rule.
LEMMA Decided ==
    ASSUME RestartInv, pc = "walk", ~HeldBack, NEW f, NEW goal
    PROVE  /\ Outcome(f, goal) \in {"failed", "same", "remade", "written"}
           /\ Outcome(f, goal) \in {"remade", "written"} => ~Skipped(f)
           /\ Outcome(f, goal) \in {"same"} /\ f \in Files =>
                  f \in disk \cup WhatIf \/ world.rule[f] = "dummy" \/ Skipped(f)
<1>1. asked = {} /\ WorldOK(world)
  BY WorldHolds DEF RestartInv, RoundInv, WalkInv
<1>2. ~(goal \in world.goals /\ world.question) /\ ~(goal \in world.goals /\ world.justprint)
  BY DEF HeldBack
<1>3. f \in Files => world.rule[f] \in Rules
  BY <1>1 DEF WorldOK
<1>4. CASE world.needs[f] \cap failed # {}
  <2>1. Outcome(f, goal) = "failed"
    BY <1>4 DEF Outcome
  <2> QED BY <2>1
<1>5. CASE world.needs[f] \cap failed = {} /\ ~Must(f)
  <2>1. Outcome(f, goal) = IF f \in disk \cup WhatIf \/ world.rule[f] # "none" THEN "same" ELSE "failed"
    BY <1>1, <1>5 DEF Outcome
  <2>2. world.rule[f] # "none" => f \in WhatIf \/ f \in disk
    BY <1>5 DEF Must
  <2> QED BY <2>1, <2>2
<1>6. CASE world.needs[f] \cap failed = {} /\ Must(f)
  <2>1. Outcome(f, goal) = CASE world.rule[f] = "remakes" -> "remade"
                             [] world.rule[f] = "fails" -> "failed"
                             [] world.rule[f] = "failsWriting" -> "written"
                             [] OTHER -> "same"
    BY <1>1, <1>2, <1>6 DEF Outcome
  <2>2. world.rule[f] # "none"
    BY <1>6 DEF Must
  <2>3. CASE world.rule[f] = "remakes"
    <3>1. Outcome(f, goal) = "remade"
      BY <2>1, <2>3
    <3> QED BY <2>3, <3>1 DEF Skipped
  <2>4. CASE world.rule[f] = "fails"
    <3>1. Outcome(f, goal) = "failed"
      BY <2>1, <2>4
    <3> QED BY <3>1
  <2>5. CASE world.rule[f] = "failsWriting"
    <3>1. Outcome(f, goal) = "written"
      BY <2>1, <2>5
    <3> QED BY <2>5, <3>1 DEF Skipped
  <2>6. CASE world.rule[f] \notin {"remakes", "fails", "failsWriting"}
    <3>1. Outcome(f, goal) = "same"
      BY <2>1, <2>6
    <3> QED BY <1>3, <2>2, <2>6, <3>1 DEF Rules, Skipped
  <2> QED BY <2>3, <2>4, <2>5, <2>6
<1> QED BY <1>4, <1>5, <1>6

LEMMA ConsiderStep ==
    ASSUME RestartInv, Consider
    PROVE  RestartInv'
<1>1. /\ UNCHANGED <<world, restarted, readFiles, error, todo, status, anyFailed>>
      /\ pc = "walk" /\ pc' \in {"walk", "die"}
  BY DEF Consider
<1>2. CASE pc' = "die"
  BY <1>1, <1>2, Elsewhere
<1>3. CASE pc' = "walk"
  <2> SUFFICES ASSUME ~HeldBack PROVE WalkInv'
    BY <1>1, <1>3 DEF RestartInv, RoundInv, WorldInv, HeldBack, NoNeedlessRestart, MakefilesCurrent, MissingIsFatal
  <2>1. WalkInv /\ WorldOK(world)
    BY <1>1, WorldHolds DEF RestartInv, RoundInv
  <2>2. PICK i \in todo : readFiles[i] \notin updated
            /\ LET goal == readFiles[i]
                   f == Next1(goal)
                   r == Outcome(f, goal)
               IN  /\ updated' = updated \cup {f}
                   /\ failed' = IF r \in {"failed", "written"} THEN failed \cup {f} ELSE failed
                   /\ asked' = IF r = "question" THEN asked \cup {f} ELSE asked
                   /\ imagined' = IF r = "imagined" THEN imagined \cup {f} ELSE imagined
                   /\ IF r \in {"remade", "written"}
                      THEN disk' = disk \cup {f} /\ changed' = changed \cup {f}
                      ELSE disk' = disk /\ changed' = changed
    BY DEF Consider, outside
  <2> DEFINE goal == readFiles[i]
             f == Next1(goal)
             r == Outcome(f, goal)
  <2>3. f \notin updated
    BY <2>2 DEF Next1
  <2>4. /\ r \in {"failed", "same", "remade", "written"}
        /\ r \in {"remade", "written"} => ~Skipped(f)
        /\ r = "same" /\ f \in Files => f \in disk \cup WhatIf \/ world.rule[f] = "dummy" \/ Skipped(f)
    BY <1>1, Decided
  <2>5. /\ updated' = updated \cup {f}
        /\ failed' = IF r \in {"failed", "written"} THEN failed \cup {f} ELSE failed
        /\ IF r \in {"remade", "written"}
           THEN disk' = disk \cup {f} /\ changed' = changed \cup {f}
           ELSE disk' = disk /\ changed' = changed
    BY <2>2
  <2>6. asked' = asked /\ imagined' = imagined
    BY <2>2, <2>4
  <2>7. /\ WhatIf' = WhatIf /\ MissingSkipped' = MissingSkipped /\ Range(readFiles)' = Range(readFiles)
        /\ \A g : Skipped(g)' <=> Skipped(g)
    BY <1>1 DEF WhatIf, MissingSkipped, Skipped, Range
  <2> HIDE DEF r, f
  <2>8. \A g : g # f => (g \in failed' <=> g \in failed) /\ (g \in changed' <=> g \in changed)
    BY <2>5
  <2>9. ASSUME NEW j \in DOMAIN readFiles' \ todo' PROVE CountedAt(j)'
    <3>1. CountedAt(j) /\ (readFiles[j] \in updated => readFiles[j] # f)
      BY <1>1, <2>1, <2>3 DEF WalkInv
    <3> QED BY <1>1, <2>5, <2>7, <2>8, <3>1 DEF CountedAt
  <2>10. ASSUME NEW g \in error \cap world.care, g \in updated' PROVE Explained(g)'
    <3>1. CASE g # f
      <4>1. Explained(g)
        BY <2>1, <2>5, <2>10, <3>1 DEF WalkInv
      <4> QED BY <1>1, <2>7, <2>8, <3>1, <4>1 DEF Explained
    <3>2. CASE g = f
      <4>1. f \in Files
        BY <2>1, <3>2 DEF WorldOK
      <4>2. f \in disk => f \in changed'
        BY <2>1, <2>5, <3>2 DEF WalkInv
      <4>3. CASE r = "failed"
        BY <2>5, <3>2, <4>3 DEF Explained
      <4>4. CASE r = "same"
        BY <1>1, <2>4, <2>7, <3>2, <4>1, <4>2, <4>4 DEF Explained
      <4>5. CASE r \in {"remade", "written"}
        BY <2>5, <3>2, <4>5 DEF Explained
      <4> QED BY <2>4, <4>3, <4>4, <4>5
    <3> QED BY <3>1, <3>2
  <2>11. /\ changed' \subseteq updated' /\ \A g \in changed' : ~Skipped(g)'
         /\ changed \subseteq changed'
    BY <2>1, <2>4, <2>5, <2>7 DEF WalkInv
  <2>12. error' \cap disk' \subseteq changed'
    BY <1>1, <2>1, <2>5 DEF WalkInv
  <2> QED BY <1>1, <2>1, <2>6, <2>7, <2>9, <2>10, <2>11, <2>12 DEF WalkInv
<1> QED BY <1>1, <1>2, <1>3

LEMMA CountStep ==
    ASSUME RestartInv, Count
    PROVE  RestartInv'
<1>1. /\ UNCHANGED <<world, restarted, readFiles, error, updated, failed, asked, imagined, anyFailed,
                      disk, changed>>
      /\ pc = "walk" /\ pc' \in {"walk", "die"}
  BY DEF Count, outside
<1>2. CASE pc' = "die"
  BY <1>1, <1>2, Elsewhere
<1>3. CASE pc' = "walk"
  <2> SUFFICES ASSUME ~HeldBack PROVE WalkInv'
    BY <1>1, <1>3 DEF RestartInv, RoundInv, WorldInv, HeldBack, NoNeedlessRestart, MakefilesCurrent, MissingIsFatal
  <2>1. WalkInv
    BY <1>1 DEF RestartInv, RoundInv
  <2>2. PICK i \in todo : readFiles[i] \in updated /\ todo' = todo \ {i}
            /\ LET f == readFiles[i]
                   held == f \in world.goals /\ (world.question \/ world.justprint)
               IN  status' = IF status \in {"question", "failed"} THEN status
                             ELSE IF f \in failed THEN "failed"
                             ELSE IF f \in asked THEN "question"
                             ELSE IF Remade(f) /\ ~held THEN "success" ELSE status
    BY DEF Count
  <2> DEFINE f == readFiles[i]
  <2>3. (Remade(f) <=> f \in changed) /\ f \notin asked
    BY <2>1 DEF WalkInv, Remade
  <2>4. status' = IF status = "failed" THEN "failed" ELSE IF f \in failed THEN "failed"
                  ELSE IF f \in changed THEN "success" ELSE status
    BY <2>1, <2>2, <2>3 DEF WalkInv, HeldBack
  <2>5. f \in Range(readFiles) /\ i \in DOMAIN readFiles
    BY <2>1 DEF WalkInv, Range
  <2>6. /\ WhatIf' = WhatIf /\ MissingSkipped' = MissingSkipped /\ Range(readFiles)' = Range(readFiles)
        /\ \A g : Skipped(g)' <=> Skipped(g)
        /\ \A g : Explained(g)' <=> Explained(g)
    BY <1>1 DEF WhatIf, MissingSkipped, Skipped, Range, Explained
  <2>7. ASSUME NEW j \in DOMAIN readFiles' \ todo' PROVE CountedAt(j)'
    <3>1. CASE j = i
      BY <1>1, <2>1, <2>2, <2>4, <3>1 DEF CountedAt, WalkInv
    <3>2. CASE j # i
      <4>1. CountedAt(j)
        BY <1>1, <2>1, <2>2, <3>2 DEF WalkInv
      <4> QED BY <1>1, <2>1, <2>4, <2>6, <4>1 DEF CountedAt, WalkInv
    <3> QED BY <3>1, <3>2
  <2>8. /\ status' \in {"none", "success", "failed"}
        /\ status' = "success" => \E g \in Range(readFiles) : g \in changed
    BY <2>1, <2>4, <2>5 DEF WalkInv
  <2>9. todo' \subseteq DOMAIN readFiles
    BY <2>1, <2>2 DEF WalkInv
  <2> QED BY <1>1, <2>1, <2>6, <2>7, <2>8, <2>9 DEF WalkInv
<1> QED BY <1>1, <1>2, <1>3

LEMMA JudgeStep ==
    ASSUME RestartInv, Judge
    PROVE  RestartInv'
<1>1. /\ UNCHANGED <<world, restarted, readFiles, error, updated, failed, asked, imagined, anyFailed,
                      disk, changed, todo, status>>
      /\ pc = "walk" /\ todo = {} /\ pc' \in {"exec", "goals", "die"}
  BY DEF Judge, outside, walk
<1>2. CASE pc' = "die"
  BY <1>1, <1>2, Elsewhere
<1>3. ASSUME ~HeldBack, pc' \in {"exec", "goals"} PROVE RoundInv'
  <2>1. WalkInv
    BY <1>1, <1>3 DEF RestartInv, RoundInv
  <2>2. \A i \in DOMAIN readFiles : CountedAt(i)
    BY <1>1, <2>1 DEF WalkInv
  <2>3. \A f \in Range(readFiles) :
            \/ Skipped(f)
            \/ /\ f \in updated /\ (f \in failed => status = "failed")
               /\ (f \in changed => status \in {"success", "failed"})
    BY <2>2 DEF CountedAt, Range
  <2>4. Range(readFiles)' = Range(readFiles)
    BY <1>1 DEF Range
  <2>5. CASE pc' = "exec"
    <3>1. status = "success" \/ AnyRemade
      BY <2>5 DEF Judge, Verdict
    <3>2. \E f \in Range(readFiles) : f \in changed
      BY <2>1, <3>1 DEF WalkInv, AnyRemade, Remade
    <3> QED BY <1>1, <2>4, <2>5, <3>2 DEF RoundInv, NoNeedlessRestart, MakefilesCurrent, MissingIsFatal
  <2>6. CASE pc' = "goals"
    <3>1. /\ Verdict # "success" /\ ~(Verdict = "failed" /\ AnyRemade) /\ ~anyFailed
          /\ ~(Verdict = "failed" /\ Range(readFiles) \cap world.care \cap (failed \cup asked) # {})
      BY <2>6 DEF Judge
    <3>2. /\ status # "success" /\ (status = "failed" => ~AnyRemade)
          /\ status = "failed" => Range(readFiles) \cap world.care \cap failed = {}
      BY <3>1 DEF Verdict
    <3>3. ASSUME NEW f \in Range(readFiles) \cap changed PROVE f \in failed \ world.care
      <4>1. ~Skipped(f)
        BY <2>1 DEF WalkInv
      <4>2. status = "failed"
        BY <2>3, <3>2, <4>1
      <4> QED BY <3>2, <4>1, <4>2 DEF AnyRemade, Remade
    <3>4. ASSUME NEW f \in error \cap world.care PROVE world.rule[f] = "dummy" \/ f \in asked \cup imagined
      <4>1. ~Skipped(f) /\ f \in Range(readFiles)
        BY <2>1, <3>1 DEF WalkInv, MissingSkipped
      <4>2. f \in updated /\ f \notin failed
        BY <2>3, <3>2, <4>1
      <4>3. f \notin changed
        BY <3>3, <4>1, <4>2
      <4> QED BY <2>1, <4>1, <4>2, <4>3 DEF WalkInv, Explained
    <3> QED BY <1>1, <2>4, <2>6, <3>3, <3>4 DEF RoundInv, NoNeedlessRestart, MakefilesCurrent, MissingIsFatal
  <2> QED BY <1>3, <2>5, <2>6
<1> QED BY <1>1, <1>2, <1>3 DEF RestartInv, WorldInv, HeldBack

LEMMA RestartNext == RestartInv /\ [Next \/ Over]_vars => RestartInv'
<1> SUFFICES ASSUME RestartInv, [Next \/ Over]_vars PROVE RestartInv'
  OBVIOUS
<1>1. CASE Boot \/ Reexec \/ ExecFails \/ Goals \/ Die
  <2>1. world' = world /\ pc' \in {"boot", "read", "die", "over"}
    BY <1>1 DEF Boot, Reexec, ExecFails, Goals, Die
  <2> QED BY <2>1, Elsewhere
<1>2. CASE ReadMakefiles
  BY <1>2, ReadStep
<1>3. CASE Configure
  BY <1>3, WalkStarts
<1>4. CASE Consider
  BY <1>4, ConsiderStep
<1>5. CASE Count
  BY <1>5, CountStep
<1>6. CASE Judge
  BY <1>6, JudgeStep
<1>7. CASE UNCHANGED vars
  <2>1. UNCHANGED <<world, pc, restarted, readFiles, error, updated, failed, asked, imagined,
                    anyFailed, disk, changed, todo, status>>
    BY <1>7 DEF vars
  <2>2. (HeldBack' <=> HeldBack) /\ (WorldInv' <=> WorldInv) /\ Range(readFiles)' = Range(readFiles)
        /\ WhatIf' = WhatIf /\ MissingSkipped' = MissingSkipped
    BY <2>1 DEF HeldBack, WorldInv, Range, WhatIf, MissingSkipped, Skipped
  <2>3. /\ \A g : (Skipped(g)' <=> Skipped(g)) /\ (Explained(g)' <=> Explained(g))
        /\ \A i : CountedAt(i)' <=> CountedAt(i)
    BY <2>1, <2>2 DEF Skipped, Explained, CountedAt
  <2>4. WalkInv => WalkInv'
    BY <2>1, <2>2, <2>3 DEF WalkInv
  <2>5. /\ NoNeedlessRestart => NoNeedlessRestart'
        /\ MakefilesCurrent => MakefilesCurrent'
        /\ MissingIsFatal => MissingIsFatal'
    BY <2>1, <2>2 DEF NoNeedlessRestart, MakefilesCurrent, MissingIsFatal
  <2> QED BY <2>1, <2>2, <2>4, <2>5 DEF RestartInv, RoundInv
<1> QED BY <1>1, <1>2, <1>3, <1>4, <1>5, <1>6, <1>7 DEF Next, Over

\* Unless -q or -n holds back a makefile that is also a goal: make starts itself again only
\* if a makefile it has read was written since; it goes on to the goals only with the
\* makefiles as they are on the disk, but for one that failed and nobody cares for; and
\* one that is cared for and was not there ends make, unless its commands say all is well
\* or -W says it is there (main.c, the makefiles after update_goal_chain).
THEOREM RestartsRight ==
    Spec => [](~HeldBack => NoNeedlessRestart /\ MakefilesCurrent /\ MissingIsFatal)
<1>1. RestartInv => (~HeldBack => NoNeedlessRestart /\ MakefilesCurrent /\ MissingIsFatal)
  BY DEF RestartInv, RoundInv
<1> QED BY <1>1, RestartInit, RestartNext, PTL DEF Spec

================================================================================
