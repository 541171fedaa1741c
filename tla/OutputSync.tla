------------------------------- MODULE OutputSync -------------------------------
(***************************************************************************)
(* --output-sync: the output of recipes that run at the same time, kept    *)
(* apart (make-4.4/src/output.c, with the mutex of posixos.c and its       *)
(* callers in job.c and main.c).                                           *)
(*                                                                         *)
(* Several makes, each one process, run the recipes of their jobs.  The    *)
(* commands of a synchronised line write to a temporary file of their job; *)
(* output_dump copies that file to the make's own standard output under a  *)
(* lock on a file that all the makes have open.  A line that starts        *)
(* another make is not synchronised, except with -Orecurse, where the      *)
(* other make's standard output is the temporary file.                     *)
(*                                                                         *)
(* What is written is a sequence of chunks: the line as make prints it     *)
(* (number 0), what its command writes, and the "Entering directory" and   *)
(* "Leaving directory" lines.  One step of a make writes one chunk, so     *)
(* that the output of others may fall between any two.                     *)
(***************************************************************************)
EXTENDS Integers, Sequences, FiniteSets, SequencesExt

CONSTANTS
    Makes, Root,
    Jobs,           \* all recipes
    Owner,          \* the make a recipe is run by
    Lines,          \* how many lines it has
    Subs,           \* the lines that start a make: <<job, line>> |-> the make
    Chunks,         \* what a command writes
    Slots,          \* how many jobs a make runs at once
    Modes,          \* the arguments of -O
    MaxFailures,    \* how often fcntl, or the creation of a file, fails at most
    NoMake

ASSUME MakesAssumption == IsFiniteSet(Makes) /\ Root \in Makes /\ NoMake \notin Makes
ASSUME JobsAssumption ==
    IsFiniteSet(Jobs) /\ Owner \in [Jobs -> Makes] /\ {"none", "stdout"} \cap Jobs = {}
ASSUME LinesAssumption == Lines \in [Jobs -> Nat \ {0}]
\* a line that starts a make starts a process of its own
ASSUME SubsAssumption ==
    /\ DOMAIN Subs \subseteq Jobs \X Nat
    /\ Subs \in [DOMAIN Subs -> Makes \ {Root}]
    /\ \A p, q \in DOMAIN Subs : Subs[p] = Subs[q] => p = q
ASSUME ModesAssumption == Modes \subseteq {"line", "target", "recurse"}
ASSUME BoundsAssumption == {Chunks, Slots, MaxFailures} \subseteq Nat

VARIABLES
    option,         \* output_sync_option, which every make is given
    out,            \* the standard output a make was started with: that of the
                    \* root, or the file of a job
    output_sync,    \* what each make does
    osync_handle,   \* whether it has the mutex open
    mutex_file,     \* the file of the mutex exists
    holder,         \* the make that holds the lock
    at,             \* the place of each make, with the job it is busy with
    state, line,    \* of each job
    tmp, tmp_open,  \* its temporary file
    diverted,       \* its running command writes to that file
    left,           \* the chunks the command has still to write; those copied, in a dump
    stdio_traced,
    stdout,         \* what has appeared, in order
    failures

syncVars == <<output_sync, osync_handle, mutex_file>>
jobVars == <<state, line, diverted, left>>
tmpVars == <<tmp, tmp_open>>
given == <<option, out>>
vars == <<given, syncVars, holder, at, jobVars, tmpVars, stdio_traced, stdout, failures>>

--------------------------------------------------------------------------------
(* Values *)

JobsOf(m) == {j \in Jobs : Owner[j] = m}

Recurses(j) == <<j, line[j]>> \in DOMAIN Subs
Started(m) == {j \in Jobs : Recurses(j) /\ Subs[<<j, line[j]>>] = m /\ state[j] = "running"}

Chunk(j, l, k) == [job |-> j, line |-> l, k |-> k]
Entering(m) == [dir |-> m, entering |-> TRUE]
Leaving(m) == [dir |-> m, entering |-> FALSE]

\* child_execute_job: the standard output of the running command, and of message
CommandOut(j) == IF diverted[j] THEN j ELSE out[Owner[j]]

\* append to the standard output of a make, or to the file of a job
Put(sink, c) ==
    IF sink = "stdout"
        THEN stdout' = Append(stdout, c) /\ UNCHANGED tmp
        ELSE tmp' = [tmp EXCEPT ![sink] = Append(@, c)] /\ UNCHANGED stdout

Idle == [place |-> "idle", job |-> "none", then |-> "idle"]
Busy(place, j, then) == [place |-> place, job |-> j, then |-> then]

Init ==
    /\ option \in Modes
    /\ out = [m \in Makes |-> "stdout"]
    /\ output_sync = [m \in Makes |-> option]
    \* main.c:2232, when syncing: by line or by target
    /\ osync_handle = [m \in Makes |-> m = Root /\ option # "recurse"]
    /\ mutex_file = (option # "recurse")
    /\ holder = NoMake
    /\ at = [m \in Makes |-> IF m = Root THEN Idle ELSE Busy("unborn", "none", "idle")]
    /\ state = [j \in Jobs |-> "waiting"]
    /\ line = [j \in Jobs |-> 1]
    /\ tmp = [j \in Jobs |-> <<>>] /\ tmp_open = [j \in Jobs |-> FALSE]
    /\ diverted = [j \in Jobs |-> FALSE]
    /\ left = [j \in Jobs |-> 0]
    /\ stdio_traced = [m \in Makes |-> FALSE]
    /\ stdout = <<>>
    /\ failures = 0

--------------------------------------------------------------------------------
(* posixos.c *)

\* osync_clear: the make that made the file removes it
OsyncClear(m) ==
    /\ osync_handle' = [osync_handle EXCEPT ![m] = FALSE]
    /\ mutex_file' = (mutex_file /\ m # Root)

\* (mutant) the lock is thought to be held when another make has it
Acquire_Try(m) ==
    /\ at[m].place = "dump" /\ tmp[at[m].job] # <<>>
    /\ at' = [at EXCEPT ![m].place = "enter"]
    /\ holder' = IF holder = NoMake /\ osync_handle[m] THEN m ELSE holder
    /\ UNCHANGED <<given, syncVars, jobVars, tmpVars, stdio_traced, stdout, failures>>

\* osync_acquire succeeds: it waits for the lock, or there is no mutex to lock
Acquire(m) ==
    /\ at[m].place = "dump" /\ tmp[at[m].job] # <<>>
    /\ osync_handle[m] => holder = NoMake
    /\ holder' = IF osync_handle[m] THEN m ELSE holder
    /\ at' = [at EXCEPT ![m].place = "enter"]
    /\ UNCHANGED <<given, syncVars, jobVars, tmpVars, stdio_traced, stdout, failures>>

\* or fails: from now on this make does without
AcquireFails(m) ==
    /\ at[m].place = "dump" /\ tmp[at[m].job] # <<>>
    /\ osync_handle[m] /\ failures < MaxFailures
    /\ failures' = failures + 1
    /\ OsyncClear(m)
    /\ at' = [at EXCEPT ![m].place = "enter"]
    /\ UNCHANGED <<given, output_sync, holder, jobVars, tmpVars, stdio_traced, stdout>>

--------------------------------------------------------------------------------
(* output_dump *)

\* there is nothing in the file
DumpNothing(m) ==
    /\ at[m].place = "dump" /\ tmp[at[m].job] = <<>>
    /\ at' = [at EXCEPT ![m].place = at[m].then]
    /\ UNCHANGED <<given, syncVars, holder, jobVars, tmpVars, stdio_traced, stdout, failures>>

\* log_working_directory, entering; not with -Orecurse
DumpEnter(m) ==
    /\ at[m].place = "enter"
    /\ IF output_sync[m] = "recurse" THEN UNCHANGED <<stdout, tmp>>
                                     ELSE Put(out[m], Entering(m))
    /\ at' = [at EXCEPT ![m].place = IF output_sync[m] = "recurse" THEN "pump" ELSE "traced"]
    /\ UNCHANGED <<given, syncVars, holder, jobVars, tmp_open, stdio_traced, failures>>

Pumping(m) == at[m].place \in {"pump", "traced"}

\* pump_from_tmp, a chunk at a time
Pump(m) ==
    LET j == at[m].job IN
    /\ Pumping(m) /\ left[j] < Len(tmp[j])
    /\ left' = [left EXCEPT ![j] = @ + 1]
    /\ LET c == tmp[j][left[j] + 1] IN Put(out[m], c)
    /\ UNCHANGED <<given, syncVars, holder, at, state, line, diverted, tmp_open, stdio_traced,
                   failures>>

\* (mutant) the file is not emptied
DumpEnds_Kept(m) ==
    LET j == at[m].job IN
    /\ Pumping(m) /\ left[j] = Len(tmp[j])
    /\ IF at[m].place = "traced"
          THEN Put(out[m], Leaving(m))
          ELSE UNCHANGED <<stdout, tmp>>
    /\ holder' = IF holder = m THEN NoMake ELSE holder
    /\ left' = [left EXCEPT ![j] = 0]
    /\ at' = [at EXCEPT ![m].place = at[m].then]
    /\ UNCHANGED <<given, syncVars, state, line, diverted, tmp_open, stdio_traced, failures>>

\* (mutant) the lock is not given back
DumpEnds_Locked(m) ==
    LET j == at[m].job IN
    /\ Pumping(m) /\ left[j] = Len(tmp[j])
    /\ IF at[m].place = "traced" /\ out[m] = "stdout"
          THEN stdout' = Append(stdout, Leaving(m)) ELSE UNCHANGED stdout
    /\ tmp' = [tmp EXCEPT ![j] = <<>>]
    /\ left' = [left EXCEPT ![j] = 0]
    /\ at' = [at EXCEPT ![m].place = at[m].then]
    /\ UNCHANGED <<given, syncVars, holder, state, line, diverted, tmp_open, stdio_traced,
                   failures>>

\* leaving, osync_release, and the file is emptied to be used again
DumpEnds(m) ==
    LET j == at[m].job
        sink == out[m]
        leave == at[m].place = "traced" IN
    /\ Pumping(m) /\ left[j] = Len(tmp[j])
    /\ stdout' = IF leave /\ sink = "stdout" THEN Append(stdout, Leaving(m)) ELSE stdout
    /\ tmp' = [t \in Jobs |->
                  IF t = j THEN <<>>
                  ELSE IF leave /\ t = sink THEN Append(tmp[t], Leaving(m)) ELSE tmp[t]]
    /\ holder' = IF osync_handle[m] THEN NoMake ELSE holder
    /\ left' = [left EXCEPT ![j] = 0]
    /\ at' = [at EXCEPT ![m].place = at[m].then]
    /\ UNCHANGED <<given, syncVars, state, line, diverted, tmp_open, stdio_traced, failures>>

--------------------------------------------------------------------------------
(* job.c *)

\* a job gets its turn
NewJob(m, j) ==
    /\ at[m] = Idle /\ j \in JobsOf(m) /\ state[j] = "waiting"
    /\ Cardinality({k \in JobsOf(m) : state[k] \in {"running", "dead"}}) < Slots
    /\ at' = [at EXCEPT ![m] = Busy("start", j, "idle")]
    /\ UNCHANGED <<given, syncVars, holder, jobVars, tmpVars, stdio_traced, stdout, failures>>

\* whether start_job_command synchronises the current line
Synced(m, j) ==
    output_sync[m] # "none" /\ (output_sync[m] = "recurse" \/ ~Recurses(j))

\* start_job_command up to the dump of what has been kept back
StartLine(m) ==
    LET j == at[m].job IN
    /\ at[m].place = "start"
    /\ diverted' = [diverted EXCEPT ![j] = Synced(m, j)]
    /\ at' = [at EXCEPT ![m] = IF Synced(m, j) THEN Busy("print", j, "print")
                                               ELSE Busy("dump", j, "print")]
    /\ UNCHANGED <<given, syncVars, holder, state, line, left, tmpVars, stdio_traced, stdout,
                   failures>>

\* output_start: the temporary file is made; with none of it, or with -Orecurse, the
\* make says once which directory it is in
OutputStart(m) ==
    LET j == at[m].job IN
    /\ at[m].place = "print"
    /\ tmp_open' = [tmp_open EXCEPT ![j] = @ \/ diverted[j]]
    /\ IF output_sync[m] \in {"none", "recurse"} /\ ~stdio_traced[m]
          THEN /\ Put(out[m], Entering(m))
               /\ stdio_traced' = [stdio_traced EXCEPT ![m] = TRUE]
          ELSE UNCHANGED <<stdout, tmp, stdio_traced>>
    /\ at' = [at EXCEPT ![m].place = "run"]
    /\ UNCHANGED <<given, syncVars, holder, jobVars, failures>>

\* setup_tmpfile fails: this make stops to synchronise
SetupFails(m) ==
    LET j == at[m].job IN
    /\ at[m].place = "print" /\ diverted[j] /\ ~tmp_open[j]
    /\ failures < MaxFailures
    /\ failures' = failures + 1
    /\ output_sync' = [output_sync EXCEPT ![m] = "none"]
    /\ OsyncClear(m)
    /\ diverted' = [diverted EXCEPT ![j] = FALSE]
    /\ UNCHANGED <<given, holder, at, state, line, left, tmpVars, stdio_traced, stdout>>

\* the line is printed and its command started.  Its make finds the mutex by name:
\* decode_output_sync_flags
RunLine(m) ==
    LET j == at[m].job IN
    /\ at[m].place = "run"
    /\ Put(CommandOut(j), Chunk(j, line[j], 0))
    /\ state' = [state EXCEPT ![j] = "running"]
    /\ IF Recurses(j)
          THEN LET s == Subs[<<j, line[j]>>] IN
               /\ at' = [at EXCEPT ![m] = Idle,
                            ![s] = IF option = "recurse" \/ mutex_file THEN Idle
                                   ELSE Busy("fatal", "none", "idle")]
               /\ osync_handle' = [osync_handle EXCEPT ![s] = option # "recurse" /\ mutex_file]
               /\ out' = [out EXCEPT ![s] = CommandOut(j)]
               /\ UNCHANGED left
          ELSE /\ at' = [at EXCEPT ![m] = Idle]
               /\ left' = [left EXCEPT ![j] = Chunks]
               /\ UNCHANGED <<osync_handle, out>>
    /\ UNCHANGED <<option, output_sync, mutex_file, holder, line, diverted, tmp_open,
                   stdio_traced, failures>>

\* reap_children: with -Oline the output of a line is written before the next one
Reap(m, j) ==
    /\ at[m] = Idle /\ j \in JobsOf(m) /\ state[j] = "dead"
    /\ IF line[j] < Lines[j]
          THEN /\ line' = [line EXCEPT ![j] = @ + 1]
               /\ at' = [at EXCEPT ![m] = IF output_sync[m] = "line" THEN Busy("dump", j, "start")
                                                                     ELSE Busy("start", j, "start")]
               /\ UNCHANGED state
          ELSE /\ at' = [at EXCEPT ![m] = Busy("dump", j, "close")]
               /\ UNCHANGED <<line, state>>
    /\ UNCHANGED <<given, syncVars, holder, diverted, left, tmpVars, stdio_traced, stdout,
                   failures>>

\* free_child and output_close
FreeChild(m) ==
    LET j == at[m].job IN
    /\ at[m].place = "close"
    /\ state' = [state EXCEPT ![j] = "done"]
    /\ tmp_open' = [tmp_open EXCEPT ![j] = FALSE]
    /\ at' = [at EXCEPT ![m] = Idle]
    /\ UNCHANGED <<given, syncVars, holder, line, diverted, left, tmp, stdio_traced, stdout,
                   failures>>

--------------------------------------------------------------------------------
(* The end of a make, and the commands *)

\* die: output_close (NULL) and osync_clear.  Its parent's command has ended
Die(m) ==
    /\ at[m] = Idle /\ \A j \in JobsOf(m) : state[j] = "done"
    /\ IF stdio_traced[m] THEN Put(out[m], Leaving(m)) ELSE UNCHANGED <<stdout, tmp>>
    /\ stdio_traced' = [stdio_traced EXCEPT ![m] = FALSE]
    /\ OsyncClear(m)
    /\ at' = [at EXCEPT ![m] = Busy("gone", "none", "idle")]
    /\ state' = [j \in Jobs |-> IF j \in Started(m) THEN "dead" ELSE state[j]]
    /\ UNCHANGED <<given, output_sync, holder, line, diverted, left, tmp_open, failures>>

\* fatal: "cannot open output sync mutex"
FatalDies(m) ==
    /\ at[m].place = "fatal"
    /\ at' = [at EXCEPT ![m] = Busy("gone", "none", "idle")]
    /\ state' = [j \in Jobs |-> IF j \in Started(m) THEN "dead" ELSE state[j]]
    /\ UNCHANGED <<given, syncVars, holder, line, diverted, left, tmpVars, stdio_traced, stdout,
                   failures>>

\* a command writes
CommandWrites(j) ==
    /\ state[j] = "running" /\ ~Recurses(j) /\ left[j] > 0
    /\ left' = [left EXCEPT ![j] = @ - 1]
    /\ Put(CommandOut(j), Chunk(j, line[j], Chunks - left[j] + 1))
    /\ UNCHANGED <<given, syncVars, holder, at, state, line, diverted, tmp_open, stdio_traced,
                   failures>>

CommandEnds(j) ==
    /\ state[j] = "running" /\ ~Recurses(j) /\ left[j] = 0
    /\ state' = [state EXCEPT ![j] = "dead"]
    /\ UNCHANGED <<given, syncVars, holder, at, line, diverted, left, tmpVars, stdio_traced,
                   stdout, failures>>

--------------------------------------------------------------------------------

MakeStep(m) ==
    \/ \E j \in Jobs : NewJob(m, j) \/ Reap(m, j)
    \/ StartLine(m) \/ OutputStart(m) \/ RunLine(m) \/ FreeChild(m)
    \/ DumpNothing(m) \/ DumpEnter(m) \/ Pump(m) \/ DumpEnds(m)
    \/ Die(m) \/ FatalDies(m)

Next ==
    \/ \E m \in Makes : MakeStep(m) \/ Acquire(m) \/ AcquireFails(m) \/ SetupFails(m)
    \/ \E j \in Jobs : CommandWrites(j) \/ CommandEnds(j)

\* every make and every command goes on, and the lock is given to one who waits
Fairness ==
    /\ \A m \in Makes : WF_vars(MakeStep(m)) /\ WF_vars(Acquire(m))
    /\ \A j \in Jobs : WF_vars(CommandWrites(j) \/ CommandEnds(j))

Spec == Init /\ [][Next]_vars
FairSpec == Spec /\ Fairness

--------------------------------------------------------------------------------
(* Properties *)

IsChunk(c) == "job" \in DOMAIN c

\* everything a job's commands write, its lines that start a make included
Written(j) ==
    FlattenSeq([l \in 1 .. Lines[j] |->
        [k \in 1 .. (IF <<j, l>> \in DOMAIN Subs THEN 1 ELSE Chunks + 1) |->
            Chunk(j, l, k - 1)]])

Shown(j) == SelectSeq(stdout, LAMBDA c : IsChunk(c) /\ c.job = j)

\* The output of a recipe appears once and in the order it was written, whatever is
\* synchronised and whatever fails (output.c:255, job.c:1356)
InOrder == \A j \in Jobs : IsPrefix(Shown(j), Written(j))

\* a line that starts a make is not synchronised, but with -Orecurse
Direct(c) == option # "recurse" /\ <<c.job, c.line>> \in DOMAIN Subs

\* the recipes that run because a recipe runs, itself included
Below == [r \in Jobs |->
    {j \in Jobs : \A S \in SUBSET Jobs :
        r \in S /\ (\A p \in DOMAIN Subs : p[1] \in S => JobsOf(Subs[p]) \subseteq S) => j \in S}]

\* Chunks kept back together: of one line with -Oline; of lines with no recursive line
\* between them with -Otarget; of all that a recipe of the root starts with -Orecurse
KeptTogether(c, d) ==
    IF option = "recurse" THEN \E r \in JobsOf(Root) : {c.job, d.job} \subseteq Below[r]
    ELSE /\ c.job = d.job
         /\ option = "line" => c.line = d.line
         /\ \A l \in c.line .. d.line : <<c.job, l>> \notin DOMAIN Subs

\* where a chunk that was kept back has appeared
KeptBack == {n \in 1 .. Len(stdout) : IsChunk(stdout[n]) /\ ~Direct(stdout[n])}

\* No synchronised output of another recipe comes between two chunks that were kept
\* back together, unless something failed (output.c:257, posixos.c:709)
Apart ==
    failures = 0 =>
        \A x, z, y \in KeptBack :
            x < z /\ z < y /\ KeptTogether(stdout[x], stdout[y])
                => KeptTogether(stdout[x], stdout[z])

\* The last directory line before each chunk that was kept back names the make the
\* chunk is from, so that a reader of the log knows where a file name belongs
DirectoryKnown ==
    failures = 0 =>
        \A x \in 1 .. Len(stdout) :
            LET c == stdout[x]
                Open == {y \in 1 .. x - 1 :
                            /\ ~IsChunk(stdout[y]) /\ stdout[y].entering
                            /\ \A z \in y .. x - 1 : stdout[z] # Leaving(stdout[y].dir)}
            IN  IsChunk(c) /\ ~Direct(c) =>
                   Open # {} /\ stdout[CHOOSE y \in Open : \A z \in Open : z <= y].dir
                                   = Owner[c.job]

\* What a reader of the log relies on
LogReadable == InOrder /\ DirectoryKnown

\* The lock is given back and the file of the mutex removed before the root ends
NothingLeft ==
    at[Root].place = "gone" =>
        /\ ~mutex_file /\ holder = NoMake
        /\ \A j \in Jobs : tmp[j] = <<>> /\ ~tmp_open[j]

\* The root comes to its end, no one waits for the lock for ever, and everything the
\* recipes wrote has been shown
AllShown ==
    <>[](/\ at[Root].place = "gone"
         /\ failures = 0 => \A j \in Jobs : state[j] = "done"
         /\ \A j \in Jobs : state[j] = "done" => Shown(j) = Written(j)
         /\ NothingLeft)
================================================================================
