------------------------------ MODULE Startup ------------------------------
(***************************************************************************)
(* The life of a make from exec to exit (main.c): it reads its options and *)
(* makefiles, settles how many jobs may run, remakes the makefiles, and    *)
(* either runs itself again or goes on to the goals.  What one image hands *)
(* to the next is the disk, the descriptors, the environment (which is     *)
(* that of the first image, plus MAKE_RESTARTS) and the rebuilt argv.      *)
(*                                                                         *)
(* A world fixes the command line, the environment, and for each makefile  *)
(* how it is remade, what it includes and what it is made from.            *)
(***************************************************************************)
EXTENDS Integers, Sequences, SequencesExt, FiniteSets

CONSTANTS Files,        \* the makefiles
          Temp,         \* the file make copies its standard input to
          Worlds,       \* the surroundings make may be started in
          World(_)      \* and what each of them is

\* How a makefile is remade: by no rule; by commands that rewrite it, that fail, that
\* write it and then fail, that succeed and leave it alone; or by a rule that would
\* run each time: it is phony, or double-colon with commands and no prerequisites.
Rules == {"none", "remakes", "fails", "failsWriting", "dummy", "phony", "dcolon"}

Auths == {"none", "fifo", "pipe", "shut"}

\* A word of argv: what follows one dash, two dashes or none.  The last letter of a
\* short option may have an argument, in the same word or in the next.
Plain(a) == [dash |-> 0, opt |-> <<>>, arg |-> a]
Short(o, a) == [dash |-> 1, opt |-> o, arg |-> a]
Long(o, a) == [dash |-> 2, opt |-> <<o>>, arg |-> a]

WithArgument == {"f", "I", "file", "temp-stdin"}
HoldsF == {"foo"}                   \* the arguments with an f in them

WorldOK(w) ==
    /\ w.rule \in [Files -> Rules]
    /\ w.includes \in [Files -> Seq(Files)]
    /\ w.needs \in [Files -> SUBSET Files]
    /\ w.present \subseteq Files /\ w.stale \subseteq Files /\ w.care \subseteq Files
    /\ w.goals \subseteq Files /\ w.whatif \subseteq Files
    /\ {w.keep, w.question, w.justprint, w.always} \subseteq BOOLEAN
    /\ w.auth \in Auths
    /\ w.sync \in {"no", "root", "given"}

ASSUME WorldsOK == \A i \in Worlds : WorldOK(World(i))

VARIABLES
    world,
    pc,
    restarted,      \* MAKE_RESTARTS is not zero
    argv,
    opts,           \* what decode_switches made of argv
    disk,           \* the makefiles that exist
    stale,          \* those older than what they are made from
    readFiles,      \* read_files: the makefiles of this image in the order read
    error,          \* d->error: those that could not be read
    changed,        \* those written since this image read them
    todo,           \* the goals of update_goal_chain that are left: positions in readFiles
    updated, failed,    \* file->updated; update_status us_failed
    asked,              \* update_status us_question
    imagined,           \* last_mtime NEW_MTIME: -W, or -n instead of the commands
    status, anyFailed,  \* of the update of the makefiles
    jobs,           \* jobserver_auth, job_slots, master_job_slots
    pipe,           \* the parent's pipe can be used by this image
    left,           \* what make has put on the disk: "fifo", "mutex", "temp"
    first,          \* what the first image decided
    code            \* the exit status

vars == <<world, pc, restarted, argv, opts, disk, stale, readFiles, error, changed, todo,
          updated, failed, asked, imagined, status, anyFailed, jobs, pipe, left, first, code>>

walk == <<todo, updated, failed, asked, imagined, status, anyFailed>>
outside == <<disk, stale, changed>>

NoOpts == [list |-> <<>>, temp |-> 0, other |-> <<>>, wants |-> "", bad |-> FALSE]

\* decode_switches, for the options that name makefiles and for -I and -k
Take(o, opt, arg) ==
    IF opt \in {"f", "file"} THEN [o EXCEPT !.list = Append(@, arg), !.wants = ""]
    ELSE IF opt = "temp-stdin"
    THEN IF arg \in Range(o.list) THEN [o EXCEPT !.wants = ""]     \* a duplicate
         ELSE [o EXCEPT !.list = Append(@, arg), !.temp = Len(o.list) + 1, !.wants = ""]
    ELSE [o EXCEPT !.other = Append(@, <<opt, arg>>), !.wants = ""]

Decode(words) ==
    LET step(o, w) ==
          IF o.wants # "" THEN Take(o, o.wants, w.arg)
          ELSE IF w.dash = 0 THEN Take(o, "goal", w.arg)
          ELSE LET opt == Last(w.opt)
                   head == FoldLeft(LAMBDA r, l : Take(r, l, ""), o, Front(w.opt))
               IN  IF opt \notin WithArgument THEN Take(head, opt, "")
                   ELSE IF w.arg = "" THEN [head EXCEPT !.wants = opt]
                   ELSE Take(head, opt, w.arg)
        o == FoldLeft(step, NoOpts, words)
    IN  [o EXCEPT !.bad = o.wants # ""]

Replacement(o, mfidx) == o.list[mfidx]

Rebuild(words, o) ==
    LET step(r, w) ==
          IF r.skip THEN [r EXCEPT !.skip = FALSE]
          ELSE IF w.dash = 0 THEN [r EXCEPT !.out = Append(@, w)]
          ELSE IF w.dash = 2 /\ w.opt # <<"file">> THEN [r EXCEPT !.out = Append(@, w)]
          ELSE IF w.dash = 1 /\ "f" \notin Range(w.opt) /\ w.arg \notin HoldsF
               THEN [r EXCEPT !.out = Append(@, w)]
          ELSE IF r.mfidx > Len(o.list) THEN [r EXCEPT !.beyond = TRUE]
          ELSE LET mf == Replacement(o, r.mfidx)
                   isTemp == r.mfidx = o.temp
                   before == IF w.dash = 1 /\ "f" \in Range(w.opt) THEN Front(w.opt) ELSE <<>>
                   kept == IF isTemp /\ before # <<>> THEN <<Short(before, "")>> ELSE <<>>
                   new == IF isTemp THEN <<Long("temp-stdin", mf)>>
                          ELSE IF w.dash = 2 THEN <<Short(<<"f">>, mf)>>
                          ELSE IF w.arg = "" THEN <<w, Plain(mf)>>
                          ELSE <<[w EXCEPT !.arg = IF "f" \in Range(w.opt) THEN mf ELSE "f and " \o mf]>>
               IN  [r EXCEPT !.out = @ \o kept \o new, !.mfidx = @ + 1, !.skip = w.arg = ""]
    IN  FoldLeft(step, [out |-> <<>>, mfidx |-> 1, skip |-> FALSE, beyond |-> FALSE], words)

\* The makefiles in the order they are read: each one's includes right after it.
ReadOrder(list, on) ==
    LET sub[f \in Files] == IF f \in on
                            THEN <<f>> \o FlattenSeq([i \in DOMAIN world.includes[f] |->
                                                    sub[world.includes[f][i]]])
                            ELSE <<f>>
    IN  FlattenSeq([i \in DOMAIN list |-> sub[list[i]]])

NoJobs == [auth |-> "none", slots |-> 0, own |-> FALSE]

InitWorld(w) ==
    /\ world = w
    /\ pc = "boot" /\ restarted = FALSE
    /\ argv = w.argv /\ opts = NoOpts
    /\ disk = w.present /\ stale = w.stale
    /\ readFiles = <<>> /\ error = {} /\ changed = {}
    /\ todo = {} /\ updated = {} /\ failed = {} /\ asked = {} /\ imagined = {}
    /\ status = "none" /\ anyFailed = FALSE
    /\ jobs = NoJobs /\ pipe = (w.auth \in {"fifo", "pipe"})
    /\ left = {} /\ first = <<>> /\ code = 0

Init == \E i \in Worlds : InitWorld(World(i))
-----------------------------------------------------------------------------
\* The options are decoded, the parent's jobserver is looked for unless argv has a -j,
\* and standard input is copied to a file when a makefile is read from it.
\* a client of the parent's jobserver uses its descriptors; slots is arg_job_slots
Authorized ==
    IF world.auth = "none" THEN [auth |-> "none", slots |-> world.argvJ, own |-> FALSE]
    ELSE IF world.argvJ # 0 THEN [auth |-> "none", slots |-> world.argvJ, own |-> FALSE]
    ELSE IF pipe THEN [auth |-> world.auth, slots |-> world.envJ, own |-> FALSE]
    ELSE [auth |-> "none", slots |-> 1, own |-> FALSE]

\* enter stdin's copy in the list of makefiles
CopyStdin(o) ==
    IF \E i \in DOMAIN o.list : o.list[i] = "-"
    THEN LET i == CHOOSE i \in DOMAIN o.list : o.list[i] = "-"
         IN  [o EXCEPT !.list[i] = Temp, !.temp = i]
    ELSE o

Boot ==
    /\ pc = "boot"
    /\ opts' = CopyStdin(Decode(argv))
    /\ jobs' = Authorized
    /\ IF opts'.bad
       THEN pc' = "die" /\ code' = 2 /\ UNCHANGED <<disk, left>>
       ELSE /\ pc' = "read"
            /\ left' = IF opts'.temp # 0 THEN left \cup {"temp"} ELSE left
            /\ disk' = IF opts'.temp # 0 THEN disk \cup {Temp} ELSE disk
            /\ UNCHANGED code
    /\ UNCHANGED <<world, restarted, argv, stale, readFiles, error, changed, pipe, first>>
    /\ UNCHANGED walk

\* read_all_makefiles: a makefile that is not there is remembered with its error.
ReadMakefiles ==
    /\ pc = "read"
    /\ readFiles' = ReadOrder(opts.list, disk)
    /\ error' = Range(readFiles') \ disk
    /\ changed' = {}
    /\ pc' = "configure"
    /\ UNCHANGED <<world, restarted, argv, opts, disk, stale, jobs, pipe, left, first, code>>
    /\ UNCHANGED walk

\* The -j of the makefiles counts unless argv has one; a client that is given one
\* leaves its parent's jobserver, and closes the pipe.
Slots == IF world.mkJ = 0 \/ world.argvJ # 0 THEN jobs.slots ELSE world.mkJ
Leaves == jobs.auth # "none" /\ world.mkJ # 0 /\ world.argvJ = 0 /\ world.mkJ # jobs.slots

\* jobserver_auth, job_slots and master_job_slots as they remain; a jobserver of one's
\* own has a file unless it is a pipe
Configured ==
    LET auth == IF Leaves THEN "none" ELSE jobs.auth
        n == IF auth # "none" THEN 0 ELSE IF Slots = 0 THEN 1 ELSE Slots
    IN  IF n > 1 THEN [auth |-> world.style, slots |-> n, own |-> TRUE]
        ELSE [auth |-> auth, slots |-> n, own |-> FALSE]

\* output_sync is given up when there is one job at a time
Syncing(j) == world.sync # "no" /\ j.slots # 1

WhatIf == IF restarted THEN {} ELSE world.whatif

\* Makefiles that would be remade each time are not remade at all.
Skipped(f) == world.rule[f] \in {"phony", "dcolon"}

MissingSkipped == \E f \in error \cap world.care : Skipped(f)

Configure ==
    /\ pc = "configure"
    /\ jobs' = Configured
    /\ pipe' = (pipe /\ ~Leaves)
    /\ left' = left \cup (IF Configured.own /\ Configured.auth = "fifo" THEN {"fifo"} ELSE {})
                    \cup (IF Syncing(Configured) /\ world.sync = "root" THEN {"mutex"} ELSE {})
    /\ first' = IF first = <<>> THEN <<Configured, opts.list, opts.other, Syncing(Configured)>> ELSE first
    /\ todo' = {i \in DOMAIN readFiles : ~Skipped(readFiles[i])}
    /\ anyFailed' = MissingSkipped
    /\ updated' = {Temp} \cap disk /\ failed' = {} /\ asked' = {}
    /\ imagined' = WhatIf
    /\ status' = "none"
    /\ pc' = "walk"
    /\ UNCHANGED <<world, restarted, argv, opts, readFiles, error, code>>
    /\ UNCHANGED outside
-----------------------------------------------------------------------------
(* update_goal_chain (read_files).  -q and -n hold only while a makefile that is a   *)
(* goal of the command line is considered, and what it needs.                         *)

\* (mutant) -B is in force again after each restart
AlwaysMake_Each == world.always

AlwaysMake == world.always /\ ~restarted

\* -W makes a file newest, whether or not it exists.
Must(f) ==
    /\ world.rule[f] # "none"
    /\ \/ f \notin WhatIf /\ (f \notin disk \/ f \in stale \/ world.needs[f] \cap imagined # {})
       \/ AlwaysMake

\* What becomes of f when update_file is done with it, what it needs being done
\* before; goal is the makefile on whose behalf.
Outcome(f, goal) ==
    LET live == goal \in world.goals
    IN  IF world.needs[f] \cap failed # {} THEN "failed"
        ELSE IF world.needs[f] \cap asked # {} THEN "question"
        ELSE IF ~Must(f)
        THEN IF f \in disk \cup WhatIf \/ world.rule[f] # "none" THEN "same" ELSE "failed"
        ELSE IF live /\ world.question THEN "question"
        ELSE IF live /\ world.justprint THEN "imagined"
        ELSE CASE world.rule[f] = "remakes" -> "remade"
               [] world.rule[f] = "fails" -> "failed"
               [] world.rule[f] = "failsWriting" -> "written"
               [] OTHER -> "same"

\* The next goal is at position i.
IsNext(i) == i \in todo /\ \A j \in todo : i <= j

Next1(goal) == IF world.needs[goal] \subseteq updated THEN goal
               ELSE CHOOSE f \in world.needs[goal] : f \notin updated

\* Without -k the failure of a makefile that is cared for ends make on the spot.
Consider ==
    /\ pc = "walk"
    /\ \E i \in {i \in todo : IsNext(i) /\ readFiles[i] \notin updated} :
       LET goal == readFiles[i]
           f == Next1(goal)
           r == Outcome(f, goal)
       IN  /\ updated' = updated \cup {f}
           /\ failed' = IF r \in {"failed", "written"} THEN failed \cup {f} ELSE failed
           /\ asked' = IF r = "question" THEN asked \cup {f} ELSE asked
           /\ imagined' = IF r = "imagined" THEN imagined \cup {f} ELSE imagined
           /\ IF r \in {"remade", "written"}
              THEN /\ disk' = disk \cup {f}
                   /\ changed' = changed \cup {f}
                   /\ stale' = (stale \ {f}) \cup {g \in Files : f \in world.needs[g]}
              ELSE UNCHANGED outside
           /\ IF f \in failed' /\ ~world.keep /\ goal \in world.care
              THEN pc' = "die" /\ code' = 2
              ELSE UNCHANGED <<pc, code>>
    /\ UNCHANGED <<world, restarted, argv, opts, readFiles, error, todo, status, anyFailed,
                   jobs, pipe, left, first>>

\* The time of f is no longer what it was before.
Remade(f) == f \in changed \cup (imagined \ WhatIf)

\* The goal is decided; its status is taken over unless an earlier one failed.  If it
\* failed before on behalf of a goal nobody cares for, there is a complaint now.
Count ==
    /\ pc = "walk"
    /\ \E i \in {i \in todo : IsNext(i) /\ readFiles[i] \in updated} :
       LET f == readFiles[i]
           held == f \in world.goals /\ (world.question \/ world.justprint)
       IN  /\ status' = IF status \in {"question", "failed"} THEN status
                        ELSE IF f \in failed THEN "failed"
                        ELSE IF f \in asked THEN "question"
                        ELSE IF Remade(f) /\ ~held THEN "success" ELSE status
           /\ IF f \in failed \cap world.care /\ ~world.keep
              THEN pc' = "die" /\ code' = 2
              ELSE UNCHANGED <<pc, code>>
           /\ todo' = todo \ {i}
    /\ UNCHANGED <<world, restarted, argv, opts, readFiles, error, updated, failed, asked,
                   imagined, anyFailed, jobs, pipe, left, first>>
    /\ UNCHANGED outside

AnyRemade_Never == FALSE

AnyRemade ==
    \E f \in Range(readFiles) : ~Skipped(f) /\ Remade(f) /\ (f \in failed => f \in world.care)

Verdict == IF anyFailed /\ status = "success" THEN "none" ELSE status

Judge ==
    /\ pc = "walk" /\ todo = {}
    /\ LET bad == \/ anyFailed
                  \/ (Verdict = "failed" /\ Range(readFiles) \cap world.care \cap (failed \cup asked) # {})
       IN  pc' = IF Verdict = "success" \/ (Verdict = "failed" /\ AnyRemade) THEN "exec"
                 ELSE IF bad THEN "die" ELSE "goals"
    /\ code' = IF pc' = "die" THEN 2 ELSE code
    /\ UNCHANGED <<world, restarted, argv, opts, readFiles, error, jobs, pipe, left, first>>
    /\ UNCHANGED walk /\ UNCHANGED outside
-----------------------------------------------------------------------------
\* What is cleaned up before exec: the jobserver, if it is one's own, and the lock.
Cleaned == left \ ({"mutex"} \cup (IF jobs.own THEN {"fifo"} ELSE {}))

\* jobserver_pre_child: the pipe stays open across exec only if the client says so.
\* (mutant) the descriptors of the pipe are closed by exec
PipeKept_Closed == pipe /\ (jobs.auth # "pipe")

PipeKept == pipe

Reexec ==
    /\ pc = "exec"
    /\ ~Rebuild(argv, opts).beyond
    /\ argv' = IF opts.list = <<>> THEN argv ELSE Rebuild(argv, opts).out
    /\ restarted' = TRUE
    /\ left' = Cleaned
    /\ pipe' = PipeKept
    /\ jobs' = NoJobs
    /\ opts' = NoOpts /\ readFiles' = <<>> /\ error' = {} /\ changed' = {}
    /\ todo' = {} /\ updated' = {} /\ failed' = {} /\ asked' = {} /\ imagined' = {}
    /\ status' = "none" /\ anyFailed' = FALSE
    /\ pc' = "boot"
    /\ UNCHANGED <<world, disk, stale, first, code>>

Unlinked(l) == l \ {"temp"}

ExecFails ==
    /\ pc = "exec"
    /\ left' = Unlinked(Cleaned)
    /\ disk' = disk \ {Temp}
    /\ code' = 127
    /\ pc' = "over"
    /\ UNCHANGED <<world, restarted, argv, opts, stale, readFiles, error, changed, jobs, pipe, first>>
    /\ UNCHANGED walk

\* The goals: only what they are given is of interest here.  -W is put in force now.
Goals ==
    /\ pc = "goals"
    /\ left' = left \ {"temp"}
    /\ disk' = disk \ {Temp}
    /\ imagined' = imagined \cup world.whatif
    /\ \E c \in 0..2 : (c = 1 => world.question) /\ code' = c
    /\ pc' = "die"
    /\ UNCHANGED <<world, restarted, argv, opts, stale, readFiles, error, changed, todo, updated,
                   failed, asked, status, anyFailed, jobs, pipe, first>>

Die ==
    /\ pc = "die"
    /\ left' = Cleaned \ {"temp"}
    /\ disk' = disk \ {Temp}
    /\ pc' = "over"
    /\ UNCHANGED <<world, restarted, argv, opts, stale, readFiles, error, changed, jobs, pipe, first, code>>
    /\ UNCHANGED walk

Next == \/ Boot \/ ReadMakefiles \/ Configure \/ Consider \/ Count \/ Judge
        \/ Reexec \/ ExecFails \/ Goals \/ Die

Over == pc = "over" /\ UNCHANGED vars

Spec == Init /\ [][Next \/ Over]_vars /\ WF_vars(Next)
-----------------------------------------------------------------------------
TypeOK ==
    /\ WorldOK(world)
    /\ pc \in {"boot", "read", "configure", "walk", "exec", "goals", "die", "over"}
    /\ {disk, stale, changed, updated, failed, asked, imagined} \subseteq SUBSET (Files \cup {Temp})
    /\ status \in {"none", "success", "question", "failed"}
    /\ jobs.auth \in Auths \ {"shut"}
    /\ left \subseteq {"fifo", "mutex", "temp"}

\* main.c, "infinite restart loop": make does not start itself again for ever, whatever
\* the rules of its makefiles, -B and -W.
RestartEnds == <>(pc = "over")

\* make starts itself again only when a makefile it has read is not any more what it
\* was (main.c, us_success and any_remade).
NoNeedlessRestart == pc = "exec" => Range(readFiles) \cap changed # {}

\* What is built for the goals is built by the makefiles as they are on the disk now,
\* but for one that failed and that nobody cares for (main.c, us_failed), and under -q.
MakefilesCurrent ==
    pc = "goals" /\ status # "question" =>
        Range(readFiles) \cap changed \subseteq failed \ world.care

\* A makefile that is cared for and was not there to be read ends make with an error,
\* except if its commands say all is well (the dummy rules of bug 61226), or were
\* only asked about or printed.
MissingIsFatal ==
    pc = "goals" =>
        \A f \in error \cap world.care : world.rule[f] = "dummy" \/ f \in asked \cup imagined

\* Each image has the options and the makefiles of the first (main.c, the loop that
\* rebuilds argv), where "-" has become the file it was copied to.
ArgumentsKept ==
    /\ pc = "walk" => <<opts.list, opts.other>> = <<first[2], first[3]>>
    /\ pc = "exec" => ~Rebuild(argv, opts).beyond

\* Each image has the same part in the jobserver, or as many jobs of its own, and the
\* same use of the output lock as the first: main.c settles them anew from the same
\* environment, from what exec has left of the descriptors and from argv.
SameParallelism == pc = "walk" => <<jobs, Syncing(jobs)>> = <<first[1], first[4]>>

\* When make is over, also because exec failed, nothing it made for itself is left:
\* no fifo, no lock, no copy of standard input.
NothingLeft == pc = "over" => left = {}

\* When make starts itself again, when it goes on to the goals, and with what arguments
RestartRight == TypeOK /\ ArgumentsKept /\ NoNeedlessRestart /\ MakefilesCurrent /\ MissingIsFatal

\* What exec must keep of the jobserver and of the output lock, and what must not outlive
\* the last image
ImageKept == SameParallelism /\ NothingLeft
=============================================================================
