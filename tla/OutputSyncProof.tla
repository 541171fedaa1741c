---------------------------- MODULE OutputSyncProof -----------------------------
(***************************************************************************)
(* The output of recipes is kept apart, whatever makes run whatever        *)
(* recipes: the inductive invariant of OutputSync, and the proof.          *)
(*                                                                         *)
(* With -Oline and -Otarget every make writes to the real standard output, *)
(* and what keeps two of them apart is the lock; with -Orecurse no one     *)
(* locks, and what keeps them apart is that a make which another one has   *)
(* started writes to a file of its parent's.  The invariant follows a job  *)
(* from its first line to the last dump of its file: what is in the file   *)
(* belongs together, and nothing that belongs with it has been shown.      *)
(***************************************************************************)
EXTENDS OutputSync, TLAPS

--------------------------------------------------------------------------------
(* The places of a make *)

DumpPlaces == {"dump", "enter", "pump", "traced"}
LockPlaces == {"enter", "pump", "traced"}
PumpPlaces == {"pump", "traced"}
JobPlaces == DumpPlaces \cup {"start", "print", "run", "close"}
Places == JobPlaces \cup {"idle", "unborn", "fatal", "gone"}

Alive(m) == at[m].place \notin {"unborn", "gone"}

\* the make of j is busy with j, at one of these places
Here(j, places) == at[Owner[j]].job = j /\ at[Owner[j]].place \in places
Dumping(j, then) == Here(j, DumpPlaces) /\ at[Owner[j]].then = then

\* the last line of j has ended and been reaped
Finishing(j) == state[j] = "done" \/ Dumping(j, "close") \/ Here(j, {"close"})

\* the current line of j is about to run, runs, or has ended and was not yet reaped
InLine(j) ==
    \/ state[j] = "running"
    \/ state[j] = "dead" /\ ~Here(j, JobPlaces)
    \/ Here(j, {"print", "run"})

Output == [job : Jobs, line : Int, k : Int] \cup [dir : Makes, entering : BOOLEAN]

Turn == [place : Places, job : Jobs \cup {"none"},
         then : {"idle", "print", "start", "close"}]

TypeInv ==
    /\ option \in Modes
    /\ out \in [Makes -> Jobs \cup {"stdout"}]
    /\ output_sync \in [Makes -> Modes \cup {"none"}]
    /\ osync_handle \in [Makes -> BOOLEAN]
    /\ mutex_file \in BOOLEAN
    /\ holder \in Makes \cup {NoMake}
    /\ at \in [Makes -> Turn]
    /\ state \in [Jobs -> {"waiting", "running", "dead", "done"}]
    /\ line \in [Jobs -> Nat]
    /\ tmp \in [Jobs -> Seq(Output)] /\ tmp_open \in [Jobs -> BOOLEAN]
    /\ diverted \in [Jobs -> BOOLEAN]
    /\ left \in [Jobs -> Nat]
    /\ stdio_traced \in [Makes -> BOOLEAN]
    /\ stdout \in Seq(Output)
    /\ failures \in Nat

\* A make is busy with one of its own jobs, which waits or has just ended; a dump for
\* the next line or for the end is one of a job that has run.
TurnOK(m) ==
    /\ at[m].place \notin JobPlaces => at[m].job = "none"
    /\ at[m].place \in JobPlaces =>
          /\ at[m].job \in JobsOf(m)
          /\ state[at[m].job] \in {"waiting", "dead"}
    /\ at[m].place \in DumpPlaces =>
          /\ at[m].then \in {"print", "start", "close"}
          /\ at[m].then # "print" => state[at[m].job] = "dead"
    /\ at[m].place = "close" => state[at[m].job] = "dead"

Turns == \A m \in Makes : TurnOK(m)

\* A job runs only while its make does, and a make only while the line that started it
\* does; so all that runs was started, in the end, by a job of the root.
Family ==
    /\ \A m \in Makes :
          at[m].place \in {"unborn", "fatal", "gone"} =>
             \A j \in JobsOf(m) : state[j] \in {"waiting", "done"}
    /\ \A m \in Makes \ {Root} :
          Alive(m) => \E j \in Started(m), r \in JobsOf(Root) : j \in Below[r]
    /\ at[Root].place \notin {"unborn", "fatal"}
    /\ (\E m \in Makes : Alive(m)) => Alive(Root)

\* The lock is held by the make that dumps, if that make has the mutex.
Locked == \A m \in Makes : holder = m <=> at[m].place \in LockPlaces /\ osync_handle[m]

\* Nothing has failed: every make synchronises and has the mutex.
Synchronises ==
    /\ \A m \in Makes : output_sync[m] = option
    /\ option # "recurse" =>
          /\ Alive(Root) => mutex_file
          /\ \A m \in Makes : Alive(m) => osync_handle[m] /\ at[m].place # "fatal"

\* A line is diverted if it does not start a make, or with -Orecurse; the file is
\* dumped before the end only for a recursive line or by line.
Diverts ==
    \A j \in Jobs :
        /\ state[j] = "running" \/ Here(j, {"print", "run"}) =>
              (diverted[j] <=> option = "recurse" \/ ~Recurses(j))
        /\ Dumping(j, "print") => option # "recurse" /\ ~diverted[j] /\ Recurses(j)
        /\ Dumping(j, "start") => option = "line"

\* Where the makes write: the real standard output, or with -Orecurse the file of the
\* job that runs the make.
Sinks ==
    /\ out[Root] = "stdout"
    /\ option # "recurse" => \A m \in Makes : out[m] = "stdout"
    /\ option = "recurse" => \A m \in Makes \ {Root} : Alive(m) => out[m] \in Started(m)

\* The chunks in the file of a job
Entries(j) == {c \in Range(tmp[j]) : IsChunk(c)}

\* What is in the file of a job belongs together: it is of the recipes below the job,
\* or of the job itself and of lines with no recursive one among them and up to now.
Together ==
    /\ \A j \in Jobs : state[j] = "waiting" => Entries(j) = {}
    /\ \A j \in Jobs : \A c \in Entries(j) :
          IF option = "recurse" THEN c.job \in Below[j]
          ELSE /\ c.job = j /\ c.line <= line[j] /\ ~Direct(c)
               /\ Recurses(j) => ~InLine(j)
               /\ \A l \in c.line .. line[j] - 1 : <<j, l>> \notin DOMAIN Subs
               /\ option = "line" =>
                     /\ c.line = IF Dumping(j, "start") THEN line[j] - 1 ELSE line[j]
                     /\ ~Here(j, {"start"})

\* The jobs whose files are dumped to the real standard output
Top == IF option = "recurse" THEN JobsOf(Root) ELSE Jobs

\* What has been shown of a job that goes on does not belong with what it still writes.
Passed ==
    \A j \in Top : \A n \in KeptBack :
        ~Finishing(j) =>
           IF option = "recurse" THEN stdout[n].job \notin Below[j]
           ELSE stdout[n].job = j =>
                   IF option = "line" THEN stdout[n].line < line[j]
                   ELSE \E l \in stdout[n].line .. line[j] : <<j, l>> \in DOMAIN Subs

\* Up to s nothing was shown that belongs with what is in the file of j, and after it
\* only what is in the file
ShownFrom(j, s) ==
    /\ ~Here(j, PumpPlaces) => s = Len(stdout)
    /\ \A n \in KeptBack :
          /\ n <= s => \A e \in Entries(j) : ~KeptTogether(stdout[n], e)
          /\ n > s => stdout[n] \in Entries(j)

\* The file of a job is dumped as a whole.
Whole == \A j \in Top : \E s \in 0 .. Len(stdout) : ShownFrom(j, s)

\* While nothing has failed
Calm == Synchronises /\ Diverts /\ Sinks /\ Together /\ Passed /\ Whole /\ Apart

IInv == TypeInv /\ Turns /\ Family /\ Locked /\ (failures = 0 => Calm)

--------------------------------------------------------------------------------
(* The recipes below a recipe *)

\* A recipe is below itself.
LEMMA BelowSelf == ASSUME NEW r \in Jobs PROVE r \in Below[r]
BY DEF Below

\* What a make runs is below the recipe that started it.
LEMMA BelowClosed ==
    ASSUME NEW r \in Jobs, NEW p \in DOMAIN Subs, p[1] \in Below[r]
    PROVE  JobsOf(Subs[p]) \subseteq Below[r]
<1> SUFFICES ASSUME NEW k \in JobsOf(Subs[p]),
                    NEW S \in SUBSET Jobs, r \in S,
                    \A q \in DOMAIN Subs : q[1] \in S => JobsOf(Subs[q]) \subseteq S
             PROVE  k \in S
    BY DEF Below, JobsOf
<1> QED BY DEF Below

\* Below is transitive.
LEMMA BelowTransitive ==
    ASSUME NEW r \in Jobs, NEW k \in Below[r] PROVE Below[k] \subseteq Below[r]
<1>1. k \in Jobs /\ Below[r] \in SUBSET Jobs
    BY DEF Below
<1>2. \A p \in DOMAIN Subs : p[1] \in Below[r] => JobsOf(Subs[p]) \subseteq Below[r]
    BY BelowClosed
<1>3. ASSUME NEW x \in Below[k] PROVE x \in Below[r]
    BY <1>1, <1>2 DEF Below
<1> QED BY <1>3

\* A recipe is below another because that one started the make that runs it.
LEMMA BelowFrom ==
    ASSUME NEW r \in Jobs, NEW k \in Below[r], k # r
    PROVE  \E p \in DOMAIN Subs : k \in JobsOf(Subs[p]) /\ p[1] \in Below[r]
<1> SUFFICES ASSUME \A p \in DOMAIN Subs : p[1] \in Below[r] => k \notin JobsOf(Subs[p])
             PROVE  FALSE
    OBVIOUS
<1> DEFINE S == Below[r] \ {k}
<1>1. S \in SUBSET Jobs /\ r \in S
    BY BelowSelf DEF Below
<1>2. \A p \in DOMAIN Subs : p[1] \in S => JobsOf(Subs[p]) \subseteq S
    BY BelowClosed
<1>3. k \in S
    BY <1>1, <1>2 DEF Below
<1> QED BY <1>3

\* What is below two recipes of the root is below the same one.
LEMMA BelowApart ==
    ASSUME NEW r \in JobsOf(Root), NEW q \in JobsOf(Root), r # q
    PROVE  Below[r] \cap Below[q] = {}
<1> DEFINE S == Jobs \ Below[q]
<1>1. r \in Jobs /\ q \in Jobs /\ Owner[r] = Root /\ S \in SUBSET Jobs
    BY DEF JobsOf
<1>2. r \in S
  <2>1. ~ \E p \in DOMAIN Subs : r \in JobsOf(Subs[p])
      BY <1>1, SubsAssumption DEF JobsOf
  <2> QED BY <1>1, <2>1, BelowFrom
<1>3. ASSUME NEW p \in DOMAIN Subs, p[1] \in S, NEW k \in JobsOf(Subs[p]), k \in Below[q]
      PROVE  FALSE
  <2>1. k # q
      BY <1>1, <1>3, SubsAssumption DEF JobsOf
  <2>2. PICK o \in DOMAIN Subs : k \in JobsOf(Subs[o]) /\ o[1] \in Below[q]
      BY <1>1, <1>3, <2>1, BelowFrom
  <2>3. o = p
      BY <1>3, <2>2, SubsAssumption DEF JobsOf
  <2> QED BY <1>3, <2>2, <2>3
<1>4. \A p \in DOMAIN Subs : p[1] \in S => JobsOf(Subs[p]) \subseteq S
  <2>1. ASSUME NEW p \in DOMAIN Subs, p[1] \in S, NEW k \in JobsOf(Subs[p]) PROVE k \in S
      BY <1>3, <2>1 DEF JobsOf
  <2> QED BY <2>1
<1>5. ASSUME NEW k \in Below[r] PROVE k \in S
    BY <1>1, <1>2, <1>4 DEF Below
<1> QED BY <1>5

--------------------------------------------------------------------------------
(* Types *)

\* what Chunk returns
LEMMA ChunkType ==
    ASSUME NEW j \in Jobs, NEW l \in Int, NEW k \in Int
    PROVE  Chunk(j, l, k) \in Output /\ IsChunk(Chunk(j, l, k))
           /\ Chunk(j, l, k).job = j /\ Chunk(j, l, k).line = l
BY DEF Chunk, Output, IsChunk

\* directory lines are not chunks
LEMMA DirType ==
    ASSUME NEW m \in Makes
    PROVE  /\ Entering(m) \in Output /\ Leaving(m) \in Output
           /\ ~IsChunk(Entering(m)) /\ ~IsChunk(Leaving(m))
BY DEF Entering, Leaving, Output, IsChunk

\* every chunk is one of a job
LEMMA OutputType ==
    ASSUME NEW c \in Output, IsChunk(c) PROVE c.job \in Jobs /\ c.line \in Int
BY DEF Output, IsChunk

\* Put keeps the types of what it appends to
LEMMA PutType ==
    ASSUME TypeInv, NEW sink \in Jobs \cup {"stdout"}, NEW c \in Output, Put(sink, c)
    PROVE  tmp' \in [Jobs -> Seq(Output)] /\ stdout' \in Seq(Output)
<1>1. CASE sink = "stdout"
  <2>1. stdout' = Append(stdout, c) /\ tmp' = tmp
      BY <1>1 DEF Put
  <2> QED BY <2>1 DEF TypeInv
<1>2. CASE sink # "stdout"
  <2>1. sink \in Jobs /\ stdout' = stdout /\ tmp' = [tmp EXCEPT ![sink] = Append(@, c)]
      BY <1>2 DEF Put
  <2> QED BY <2>1 DEF TypeInv
<1> QED BY <1>1, <1>2

\* a recursive line starts a make other than the root
LEMMA RecurseType ==
    ASSUME NEW j \in Jobs, Recurses(j)
    PROVE  <<j, line[j]>> \in DOMAIN Subs /\ Subs[<<j, line[j]>>] \in Makes \ {Root}
BY SubsAssumption DEF Recurses

\* turns that are made by Busy or by moving on are turns
LEMMA TurnType ==
    ASSUME NEW p \in Places, NEW j \in Jobs \cup {"none"},
           NEW n \in {"idle", "print", "start", "close"}
    PROVE  /\ Busy(p, j, n) \in Turn
           /\ \A t \in Turn : [t EXCEPT !.place = p] \in Turn
BY DEF Busy, Turn

\* the names of the places are places
LEMMA PlacesFacts ==
    /\ Idle \in Turn
    /\ "idle" \in Places /\ "dump" \in Places /\ "enter" \in Places /\ "pump" \in Places
    /\ "traced" \in Places /\ "start" \in Places /\ "print" \in Places /\ "run" \in Places
    /\ "close" \in Places /\ "fatal" \in Places /\ "gone" \in Places
BY DEF Idle, Turn, Places, JobPlaces, DumpPlaces

\* what a step makes of the turn of one make
LEMMA AtType ==
    ASSUME TypeInv, NEW m \in Makes,
           NEW t \in Turn, at' = [at EXCEPT ![m] = t]
    PROVE  at' \in [Makes -> Turn]
BY DEF TypeInv

\* The types are kept.
LEMMA TypeStep == TypeInv /\ Turns /\ [Next]_vars => TypeInv'
<1> SUFFICES ASSUME TypeInv, Turns, [Next]_vars PROVE TypeInv'
    OBVIOUS
<1> USE DEF given, syncVars, jobVars, tmpVars
<1>t. /\ Root \in Makes /\ NoMake \notin Makes /\ \A j \in Jobs : Owner[j] \in Makes
      /\ Chunks \in Nat /\ "none" \notin Jobs /\ "stdout" \notin Jobs
    BY MakesAssumption, JobsAssumption, BoundsAssumption
<1>j. \A m \in Makes : at[m].place \in JobPlaces => at[m].job \in Jobs /\ Owner[at[m].job] = m
    BY DEF Turns, TurnOK, JobsOf
<1>k. \A m \in Makes : at[m].place \in {"start", "print", "run", "close", "dump", "pump", "traced"}
                         => at[m].job \in Jobs
    BY <1>j DEF JobPlaces, DumpPlaces
<1>d. \A m \in Makes : at[m].place \in {"dump", "pump", "traced"} => at[m].then \in Places
    BY DEF Turns, TurnOK, DumpPlaces, Places, JobPlaces
<1>c. \A j \in Jobs : CommandOut(j) \in Jobs \cup {"stdout"}
    BY <1>t DEF CommandOut, TypeInv
<1>b. ASSUME NEW m \in Makes, NEW p \in Places, at' = [at EXCEPT ![m].place = p]
      PROVE  at' \in [Makes -> Turn]
    <2>1. at[m] \in Turn
        BY DEF TypeInv
    <2>2. [at[m] EXCEPT !.place = p] \in Turn
        BY <2>1 DEF Turn
    <2>3. at' = [at EXCEPT ![m] = [at[m] EXCEPT !.place = p]]
        BY <1>b
    <2> QED BY <2>2, <2>3, AtType
<1>1. ASSUME NEW m \in Makes, NEW j \in Jobs, NewJob(m, j) \/ Reap(m, j) PROVE TypeInv'
  <2>1. at' \in [Makes -> Turn]
    <3>1. \/ at' = [at EXCEPT ![m] = Busy("start", j, "idle")]
          \/ at' = [at EXCEPT ![m] = Busy("dump", j, "start")]
          \/ at' = [at EXCEPT ![m] = Busy("start", j, "start")]
          \/ at' = [at EXCEPT ![m] = Busy("dump", j, "close")]
        BY <1>1 DEF NewJob, Reap
    <3>2. {Busy("start", j, "idle"), Busy("dump", j, "start"), Busy("start", j, "start"),
           Busy("dump", j, "close")} \subseteq Turn
        BY PlacesFacts, TurnType
    <3> QED BY <3>1, <3>2, AtType
  <2>2. state' = state /\ line' \in [Jobs -> Nat]
    <3>1. CASE NewJob(m, j)
      <4>1. state' = state /\ line' = line
          BY <3>1 DEF NewJob
      <4> QED BY <4>1 DEF TypeInv
    <3>2. CASE Reap(m, j)
      <4>1. state' = state /\ (line' = line \/ line' = [line EXCEPT ![j] = @ + 1])
          BY <3>2 DEF Reap
      <4>2. line \in [Jobs -> Nat]
          BY DEF TypeInv
      <4>3. [line EXCEPT ![j] = @ + 1] \in [Jobs -> Nat]
          BY <4>2
      <4> QED BY <4>1, <4>2, <4>3
    <3> QED BY <1>1, <3>1, <3>2
  <2>3. /\ UNCHANGED <<option, out, output_sync, osync_handle, mutex_file, holder, diverted>>
        /\ UNCHANGED <<left, tmp, tmp_open, stdio_traced, stdout, failures>>
      BY <1>1 DEF NewJob, Reap
  <2> QED BY <2>1, <2>2, <2>3 DEF TypeInv
<1>2. ASSUME NEW m \in Makes, StartLine(m) PROVE TypeInv'
  <2>1. at[m].job \in Jobs
      BY <1>2, <1>k DEF StartLine
  <2>2. Busy("print", at[m].job, "print") \in Turn /\ Busy("dump", at[m].job, "print") \in Turn
      BY <2>1, PlacesFacts, TurnType
  <2>3. at' \in [Makes -> Turn]
      BY <1>2, <2>2 DEF StartLine, TypeInv
  <2>4. Synced(m, at[m].job) \in BOOLEAN
      BY DEF Synced
  <2>5. diverted' \in [Jobs -> BOOLEAN]
      BY <1>2, <2>1, <2>4 DEF StartLine, TypeInv
  <2> QED BY <1>2, <2>3, <2>5 DEF StartLine, TypeInv
<1>3. ASSUME NEW m \in Makes, OutputStart(m) PROVE TypeInv'
  <2>1. tmp' \in [Jobs -> Seq(Output)] /\ stdout' \in Seq(Output)
      BY <1>3, PutType, DirType DEF OutputStart, TypeInv
  <2>2. at' \in [Makes -> Turn]
      BY <1>3, <1>b, PlacesFacts DEF OutputStart
  <2>3. tmp_open' \in [Jobs -> BOOLEAN] /\ stdio_traced' \in [Makes -> BOOLEAN]
      BY <1>3, <1>k DEF OutputStart, TypeInv
  <2> QED BY <1>3, <2>1, <2>2, <2>3 DEF OutputStart, TypeInv
<1>4. ASSUME NEW m \in Makes, RunLine(m) PROVE TypeInv'
  <2> DEFINE j == at[m].job
  <2>1. j \in Jobs /\ line[j] \in Int
      BY <1>4, <1>k DEF RunLine, TypeInv
  <2>2. tmp' \in [Jobs -> Seq(Output)] /\ stdout' \in Seq(Output)
      BY <1>4, <1>c, <2>1, PutType, ChunkType DEF RunLine
  <2>3. state' \in [Jobs -> {"waiting", "running", "dead", "done"}]
      BY <1>4, <2>1 DEF RunLine, TypeInv
  <2>4. /\ at' \in [Makes -> Turn] /\ osync_handle' \in [Makes -> BOOLEAN]
        /\ out' \in [Makes -> Jobs \cup {"stdout"}] /\ left' \in [Jobs -> Nat]
    <3>1. CASE Recurses(j)
      <4>1. PICK s : s = Subs[<<j, line[j]>>]
          OBVIOUS
      <4>2. s \in Makes
          BY <2>1, <3>1, <4>1, RecurseType
      <4>3. PICK t : t = IF option = "recurse" \/ mutex_file THEN Idle
                         ELSE Busy("fatal", "none", "idle")
          OBVIOUS
      <4>4. t \in Turn /\ Idle \in Turn
          BY <4>3, PlacesFacts, TurnType
      <4>5. /\ osync_handle' = [osync_handle EXCEPT ![s] = option # "recurse" /\ mutex_file]
            /\ out' = [out EXCEPT ![s] = CommandOut(j)]
            /\ at' = [at EXCEPT ![m] = Idle, ![s] = t]
            /\ left' = left
          BY <1>4, <3>1, <4>1, <4>3 DEF RunLine
      <4>6. at' \in [Makes -> Turn]
          BY <4>4, <4>5 DEF TypeInv
      <4> QED BY <1>c, <2>1, <4>2, <4>5, <4>6 DEF TypeInv
    <3>2. CASE ~Recurses(j)
        BY <1>4, <1>t, <2>1, <3>2, PlacesFacts, AtType DEF RunLine, TypeInv
    <3> QED BY <3>1, <3>2
  <2> QED BY <1>4, <2>2, <2>3, <2>4 DEF RunLine, TypeInv
<1>5. ASSUME NEW m \in Makes, FreeChild(m) PROVE TypeInv'
  <2>1. at' \in [Makes -> Turn]
      BY <1>5, PlacesFacts, AtType DEF FreeChild
  <2> QED BY <1>5, <1>k, <2>1 DEF FreeChild, TypeInv
<1>6. ASSUME NEW m \in Makes, DumpNothing(m) PROVE TypeInv'
  <2>1. at' \in [Makes -> Turn]
      BY <1>6, <1>b, <1>d DEF DumpNothing
  <2> QED BY <1>6, <2>1 DEF DumpNothing, TypeInv
<1>7. ASSUME NEW m \in Makes, DumpEnter(m) PROVE TypeInv'
  <2>1. tmp' \in [Jobs -> Seq(Output)] /\ stdout' \in Seq(Output)
      BY <1>7, PutType, DirType DEF DumpEnter, TypeInv
  <2>2. at' \in [Makes -> Turn]
      BY <1>7, <1>b, PlacesFacts DEF DumpEnter
  <2> QED BY <1>7, <2>1, <2>2 DEF DumpEnter, TypeInv
<1>8. ASSUME NEW m \in Makes, Pump(m) PROVE TypeInv'
  <2> DEFINE j == at[m].job
  <2>1. j \in Jobs
      BY <1>8, <1>k DEF Pump, Pumping
  <2>2. tmp[j][left[j] + 1] \in Output
      BY <1>8, <2>1 DEF Pump, TypeInv
  <2>3. tmp' \in [Jobs -> Seq(Output)] /\ stdout' \in Seq(Output)
      BY <1>8, <2>2, PutType DEF Pump, TypeInv
  <2>4. left' \in [Jobs -> Nat]
      BY <1>8, <2>1 DEF Pump, TypeInv
  <2> QED BY <1>8, <2>3, <2>4 DEF Pump, TypeInv
<1>9. ASSUME NEW m \in Makes, DumpEnds(m) PROVE TypeInv'
  <2> DEFINE j == at[m].job
  <2>1. j \in Jobs
      BY <1>9, <1>k DEF DumpEnds, Pumping
  <2>2. Leaving(m) \in Output
      BY DirType
  <2>3. stdout' \in Seq(Output)
      BY <1>9, <2>2 DEF DumpEnds, TypeInv
  <2>4. tmp' \in [Jobs -> Seq(Output)]
      BY <1>9, <2>2 DEF DumpEnds, TypeInv
  <2>5. at' \in [Makes -> Turn]
      BY <1>9, <1>b, <1>d DEF DumpEnds, Pumping
  <2>6. holder' \in Makes \cup {NoMake} /\ left' \in [Jobs -> Nat]
      BY <1>9, <2>1 DEF DumpEnds, TypeInv
  <2>7. /\ UNCHANGED <<option, out, output_sync, osync_handle, mutex_file, state, line>>
        /\ UNCHANGED <<diverted, tmp_open, stdio_traced, failures>>
      BY <1>9 DEF DumpEnds
  <2> QED BY <2>3, <2>4, <2>5, <2>6, <2>7 DEF TypeInv
<1>10. ASSUME NEW m \in Makes, Die(m) PROVE TypeInv'
  <2>1. tmp' \in [Jobs -> Seq(Output)] /\ stdout' \in Seq(Output)
      BY <1>10, PutType, DirType DEF Die, TypeInv
  <2>2. at' \in [Makes -> Turn]
      BY <1>10, PlacesFacts, TurnType, AtType DEF Die
  <2>3. state' \in [Jobs -> {"waiting", "running", "dead", "done"}]
      BY <1>10 DEF Die, TypeInv
  <2> QED BY <1>10, <2>1, <2>2, <2>3 DEF Die, OsyncClear, TypeInv
<1>11. ASSUME NEW m \in Makes, FatalDies(m) PROVE TypeInv'
  <2>2. at' \in [Makes -> Turn]
      BY <1>11, PlacesFacts, TurnType, AtType DEF FatalDies
  <2>3. state' \in [Jobs -> {"waiting", "running", "dead", "done"}]
      BY <1>11 DEF FatalDies, TypeInv
  <2> QED BY <1>11, <2>2, <2>3 DEF FatalDies, TypeInv
<1>12. ASSUME NEW m \in Makes, Acquire(m) \/ AcquireFails(m) PROVE TypeInv'
  <2>1. at' \in [Makes -> Turn]
      BY <1>12, <1>b, PlacesFacts DEF Acquire, AcquireFails
  <2>2. CASE Acquire(m)
    <3>1. holder' \in Makes \cup {NoMake}
        BY <2>2 DEF Acquire, TypeInv
    <3> QED BY <2>1, <2>2, <3>1 DEF Acquire, TypeInv
  <2>3. CASE AcquireFails(m)
      BY <2>1, <2>3 DEF AcquireFails, OsyncClear, TypeInv
  <2> QED BY <1>12, <2>2, <2>3
<1>13. ASSUME NEW m \in Makes, SetupFails(m) PROVE TypeInv'
    BY <1>13, <1>k DEF SetupFails, OsyncClear, TypeInv
<1>14. ASSUME NEW j \in Jobs, CommandWrites(j) PROVE TypeInv'
  <2>1. line[j] \in Int /\ Chunks - left[j] + 1 \in Int
      BY <1>t DEF TypeInv
  <2>2. tmp' \in [Jobs -> Seq(Output)] /\ stdout' \in Seq(Output)
      BY <1>14, <1>c, <2>1, PutType, ChunkType DEF CommandWrites
  <2>3. left' \in [Jobs -> Nat]
      BY <1>14 DEF CommandWrites, TypeInv
  <2> QED BY <1>14, <2>2, <2>3 DEF CommandWrites, TypeInv
<1>15. ASSUME NEW j \in Jobs, CommandEnds(j) PROVE TypeInv'
    BY <1>15 DEF CommandEnds, TypeInv
<1>16. CASE UNCHANGED vars
    BY <1>16 DEF vars, TypeInv
<1> QED BY <1>1, <1>2, <1>3, <1>4, <1>5, <1>6, <1>7, <1>8, <1>9, <1>10, <1>11, <1>12, <1>13, <1>14,
           <1>15, <1>16 DEF Next, MakeStep
--------------------------------------------------------------------------------
(* Turns *)

\* A make keeps its turn while another one goes on.
LEMMA TurnsKept ==
    ASSUME TypeInv, Turns, NEW m \in Makes,
           \A n \in Makes \ {m} : at'[n] = at[n],
           \A j \in Jobs : state'[j] = state[j] \/ Owner[j] = m \/ state[j] = "running",
           TurnOK(m)'
    PROVE  Turns'
<1>1. ASSUME NEW n \in Makes \ {m} PROVE TurnOK(n)'
  <2>1. TurnOK(n) /\ at'[n] = at[n]
      BY DEF Turns
  <2>2. CASE at[n].place \in JobPlaces
    <3>1. at[n].job \in Jobs /\ Owner[at[n].job] = n /\ state[at[n].job] # "running"
        BY <2>1, <2>2 DEF TurnOK, JobsOf
    <3>2. state'[at[n].job] = state[at[n].job]
        BY <3>1
    <3> QED BY <2>1, <2>2, <3>2 DEF TurnOK
  <2>3. CASE at[n].place \notin JobPlaces
    <3>1. at[n].place \notin DumpPlaces /\ at[n].place # "close"
        BY <2>3 DEF JobPlaces
    <3> QED BY <2>1, <2>3, <3>1 DEF TurnOK
  <2> QED BY <2>2, <2>3
<1> QED BY <1>1 DEF Turns

\* The line that starts a make has not been started before: the make is not there.
LEMMA NotAlive ==
    ASSUME TypeInv, Turns, Family, NEW j \in Jobs, Recurses(j), state[j] # "running"
    PROVE  ~Alive(Subs[<<j, line[j]>>])
<1>1. Subs[<<j, line[j]>>] \in Makes \ {Root}
    BY RecurseType
<1>2. ASSUME Alive(Subs[<<j, line[j]>>]) PROVE FALSE
  <2>1. PICK i \in Started(Subs[<<j, line[j]>>]) : TRUE
      BY <1>1, <1>2 DEF Family
  <2>2. /\ <<i, line[i]>> \in DOMAIN Subs /\ <<j, line[j]>> \in DOMAIN Subs
        /\ Subs[<<i, line[i]>>] = Subs[<<j, line[j]>>]
        /\ state[i] = "running"
      BY <2>1 DEF Started, Recurses
  <2>3. <<i, line[i]>> = <<j, line[j]>>
      BY <2>2, SubsAssumption
  <2> QED BY <2>2, <2>3
<1> QED BY <1>2

\* Turns is kept.
LEMMA TurnsStep == TypeInv /\ TypeInv' /\ Turns /\ Family /\ [Next]_vars => Turns'
<1> SUFFICES ASSUME TypeInv, TypeInv', Turns, Family, [Next]_vars PROVE Turns'
    OBVIOUS
<1> USE DEF given, syncVars, jobVars, tmpVars
<1>j. \A m \in Makes : at[m].place \in JobPlaces =>
         at[m].job \in Jobs /\ Owner[at[m].job] = m /\ state[at[m].job] \in {"waiting", "dead"}
    BY DEF Turns, TurnOK, JobsOf
<1>t. /\ at \in [Makes -> Turn] /\ state \in [Jobs -> {"waiting", "running", "dead", "done"}]
      /\ \A m \in Makes : TurnOK(m)
    BY DEF TypeInv, Turns
<1>r. \A m \in Makes : at[m] = [place |-> at[m].place, job |-> at[m].job, then |-> at[m].then]
    BY <1>t DEF Turn
<1>n. ASSUME NEW m \in Makes, NEW p \in Places, at' = [at EXCEPT ![m].place = p]
      PROVE  /\ at'[m].place = p /\ at'[m].job = at[m].job /\ at'[m].then = at[m].then
             /\ \A n \in Makes \ {m} : at'[n] = at[n]
    BY <1>t, <1>r, <1>n
<1>1. ASSUME NEW m \in Makes, NEW j \in Jobs, NewJob(m, j) PROVE Turns'
  <2>1. at' = [at EXCEPT ![m] = Busy("start", j, "idle")] /\ state' = state
        /\ j \in JobsOf(m) /\ state[j] = "waiting"
      BY <1>1 DEF NewJob
  <2>2. TurnOK(m)'
      BY <1>t, <2>1 DEF TurnOK, Busy, JobPlaces, DumpPlaces, JobsOf
  <2> QED BY <1>t, <2>1, <2>2, TurnsKept
<1>2. ASSUME NEW m \in Makes, NEW j \in Jobs, Reap(m, j) PROVE Turns'
  <2>1. /\ \/ at' = [at EXCEPT ![m] = Busy("start", j, "start")]
           \/ at' = [at EXCEPT ![m] = Busy("dump", j, "start")]
           \/ at' = [at EXCEPT ![m] = Busy("dump", j, "close")]
        /\ state' = state /\ j \in JobsOf(m) /\ state[j] = "dead"
      BY <1>2 DEF Reap
  <2>2. TurnOK(m)'
      BY <1>t, <2>1 DEF TurnOK, Busy, JobPlaces, DumpPlaces, JobsOf
  <2> QED BY <1>t, <2>1, <2>2, TurnsKept
<1>3. ASSUME NEW m \in Makes, StartLine(m) PROVE Turns'
  <2>1. /\ \/ at' = [at EXCEPT ![m] = Busy("print", at[m].job, "print")]
           \/ at' = [at EXCEPT ![m] = Busy("dump", at[m].job, "print")]
        /\ state' = state /\ at[m].place = "start"
      BY <1>3 DEF StartLine
  <2>2. at[m].job \in JobsOf(m) /\ state[at[m].job] \in {"waiting", "dead"}
      BY <1>j, <2>1 DEF JobsOf, JobPlaces
  <2>3. TurnOK(m)'
      BY <1>t, <2>1, <2>2 DEF TurnOK, Busy, JobPlaces, DumpPlaces, JobsOf
  <2> QED BY <1>t, <2>1, <2>3, TurnsKept
<1>4. ASSUME NEW m \in Makes, OutputStart(m) PROVE Turns'
  <2>1. at' = [at EXCEPT ![m].place = "run"] /\ state' = state /\ at[m].place = "print"
      BY <1>4 DEF OutputStart
  <2>2. /\ at'[m].place = "run" /\ at'[m].job = at[m].job /\ at'[m].then = at[m].then
        /\ \A n \in Makes \ {m} : at'[n] = at[n]
      BY <1>n, <2>1, PlacesFacts
  <2>3. TurnOK(m)'
      BY <1>t, <2>1, <2>2 DEF TurnOK, JobPlaces, DumpPlaces, JobsOf
  <2> QED BY <1>t, <2>1, <2>2, <2>3, TurnsKept
<1>5. ASSUME NEW m \in Makes, RunLine(m) PROVE Turns'
  <2>1. PICK j : j = at[m].job
      OBVIOUS
  <2>2. /\ at[m].place = "run" /\ state' = [state EXCEPT ![j] = "running"]
        /\ j \in Jobs /\ Owner[j] = m /\ state[j] \in {"waiting", "dead"}
      BY <1>5, <1>j, <2>1 DEF RunLine, JobPlaces
  <2>3. CASE Recurses(j)
    <3>1. PICK s : s = Subs[<<j, line[j]>>]
        OBVIOUS
    <3>2. s \in Makes /\ ~Alive(s) /\ s # m
        BY <2>2, <2>3, <3>1, RecurseType, NotAlive DEF Alive
    <3>3. at' = [at EXCEPT ![m] = Idle,
                   ![s] = IF option = "recurse" \/ mutex_file THEN Idle
                          ELSE Busy("fatal", "none", "idle")]
        BY <1>5, <2>1, <2>3, <3>1 DEF RunLine
    <3>4. /\ at'[m] = Idle /\ (at'[s] = Idle \/ at'[s] = Busy("fatal", "none", "idle"))
          /\ \A n \in Makes \ {m, s} : at'[n] = at[n]
        BY <1>t, <3>2, <3>3
    <3>5. TurnOK(m)' /\ TurnOK(s)'
        BY <3>4 DEF TurnOK, Idle, Busy, JobPlaces, DumpPlaces
    <3>6. ASSUME NEW n \in Makes \ {m, s} PROVE TurnOK(n)'
      <4>1. TurnOK(n) /\ at'[n] = at[n]
          BY <1>t, <3>4
      <4>2. at[n].place \in JobPlaces => state'[at[n].job] = state[at[n].job]
          BY <1>j, <2>2
      <4>3. (at[n].place \in DumpPlaces => at[n].place \in JobPlaces) /\ "close" \in JobPlaces
          BY DEF JobPlaces
      <4> QED BY <4>1, <4>2, <4>3 DEF TurnOK
    <3> QED BY <3>5, <3>6 DEF Turns
  <2>4. CASE ~Recurses(j)
    <3>1. at' = [at EXCEPT ![m] = Idle]
        BY <1>5, <2>1, <2>4 DEF RunLine
    <3>2. TurnOK(m)'
        BY <1>t, <3>1 DEF TurnOK, Idle, JobPlaces, DumpPlaces
    <3> QED BY <1>t, <2>2, <3>1, <3>2, TurnsKept
  <2> QED BY <2>3, <2>4
<1>6. ASSUME NEW m \in Makes, FreeChild(m) PROVE Turns'
  <2>1. /\ at' = [at EXCEPT ![m] = Idle] /\ state' = [state EXCEPT ![at[m].job] = "done"]
        /\ at[m].place = "close"
      BY <1>6 DEF FreeChild
  <2>2. TurnOK(m)'
      BY <1>t, <2>1 DEF TurnOK, Idle, JobPlaces, DumpPlaces
  <2>3. at[m].job \in Jobs /\ Owner[at[m].job] = m
      BY <1>j, <2>1 DEF JobPlaces
  <2> QED BY <1>t, <2>1, <2>2, <2>3, TurnsKept
<1>7. ASSUME NEW m \in Makes, DumpNothing(m) \/ DumpEnds(m) PROVE Turns'
  <2>1. /\ at' = [at EXCEPT ![m].place = at[m].then] /\ state' = state
        /\ at[m].place \in DumpPlaces
      BY <1>7 DEF DumpNothing, DumpEnds, Pumping, DumpPlaces
  <2>2. at[m].then \in {"print", "start", "close"}
      BY <1>t, <2>1 DEF TurnOK
  <2>3. /\ at'[m].place = at[m].then /\ at'[m].job = at[m].job /\ at'[m].then = at[m].then
        /\ \A n \in Makes \ {m} : at'[n] = at[n]
    <3>1. at[m].then \in Places
        BY <2>2, PlacesFacts
    <3> QED BY <1>n, <2>1, <3>1
  <2>4. TurnOK(m)'
      BY <1>t, <2>1, <2>2, <2>3 DEF TurnOK, JobPlaces, DumpPlaces, JobsOf
  <2> QED BY <1>t, <2>1, <2>3, <2>4, TurnsKept
<1>8. ASSUME NEW m \in Makes, NEW p \in LockPlaces, at' = [at EXCEPT ![m].place = p],
             at[m].place \in DumpPlaces, state' = state
      PROVE  Turns'
  <2>1. p \in Places
      BY PlacesFacts DEF LockPlaces
  <2>2. /\ at'[m].place = p /\ at'[m].job = at[m].job /\ at'[m].then = at[m].then
        /\ \A n \in Makes \ {m} : at'[n] = at[n]
      BY <1>8, <1>n, <2>1
  <2>3. TurnOK(m)'
      BY <1>8, <1>t, <2>2 DEF TurnOK, JobPlaces, DumpPlaces, LockPlaces, JobsOf
  <2> QED BY <1>t, <1>8, <2>2, <2>3, TurnsKept
<1>9. ASSUME NEW m \in Makes, DumpEnter(m) PROVE Turns'
    BY <1>8, <1>9 DEF DumpEnter, LockPlaces, DumpPlaces
<1>10. ASSUME NEW m \in Makes, Acquire(m) \/ AcquireFails(m) PROVE Turns'
    BY <1>8, <1>10 DEF Acquire, AcquireFails, LockPlaces, DumpPlaces
<1>11. ASSUME NEW m \in Makes, Pump(m) \/ SetupFails(m) PROVE Turns'
  <2>1. at' = at /\ state' = state
      BY <1>11 DEF Pump, SetupFails
  <2> QED BY <2>1, <1>t DEF Turns, TurnOK
<1>12. ASSUME NEW m \in Makes, Die(m) \/ FatalDies(m) PROVE Turns'
  <2>1. /\ at' = [at EXCEPT ![m] = Busy("gone", "none", "idle")]
        /\ state' = [j \in Jobs |-> IF j \in Started(m) THEN "dead" ELSE state[j]]
      BY <1>12 DEF Die, FatalDies
  <2>2. TurnOK(m)'
      BY <1>t, <2>1 DEF TurnOK, Busy, JobPlaces, DumpPlaces
  <2>3. \A j \in Jobs : state'[j] = state[j] \/ state[j] = "running"
      BY <2>1 DEF Started
  <2> QED BY <1>t, <2>1, <2>2, <2>3, TurnsKept
<1>13. ASSUME NEW j \in Jobs, CommandWrites(j) PROVE Turns'
  <2>1. at' = at /\ state' = state
      BY <1>13 DEF CommandWrites
  <2> QED BY <2>1, <1>t DEF Turns, TurnOK
<1>14. ASSUME NEW j \in Jobs, CommandEnds(j) PROVE Turns'
  <2>1. at' = at /\ state' = [state EXCEPT ![j] = "dead"] /\ state[j] = "running"
      BY <1>14 DEF CommandEnds
  <2>2. TurnOK(Owner[j])'
      BY <1>t, <1>j, <2>1, JobsAssumption DEF TurnOK, JobsOf, JobPlaces
  <2> QED BY <1>t, <2>1, <2>2, TurnsKept, JobsAssumption
<1>15. CASE UNCHANGED vars
    BY <1>15, <1>t DEF vars, Turns, TurnOK
<1> QED BY <1>1, <1>2, <1>3, <1>4, <1>5, <1>6, <1>7, <1>9, <1>10, <1>11, <1>12, <1>13, <1>14,
           <1>15 DEF Next, MakeStep
--------------------------------------------------------------------------------
(* Who runs because of whom *)

Away == {"unborn", "fatal", "gone"}

\* When all jobs of the root are done, no make but the root is left.
LEMMA Deserted ==
    ASSUME TypeInv, Turns, Family, \A r \in JobsOf(Root) : state[r] = "done",
           NEW m \in Makes \ {Root}
    PROVE  ~Alive(m)
<1> SUFFICES ASSUME Alive(m) PROVE FALSE
    OBVIOUS
<1>1. PICK i \in Started(m), r \in JobsOf(Root) : i \in Below[r]
    BY DEF Family
<1>2. \A n \in Makes : ~Alive(n) => \A j \in JobsOf(n) : state[j] # "running"
    BY DEF Family, Alive
<1>3. /\ i \in Jobs /\ r \in Jobs /\ state[i] = "running" /\ state[r] = "done"
      /\ \A j \in Jobs : Owner[j] \in Makes /\ j \in JobsOf(Owner[j])
    BY <1>1, JobsAssumption DEF Started, JobsOf
<1> DEFINE S == {j \in Jobs : j = r \/ ~Alive(Owner[j])}
<1>4. ASSUME NEW p \in DOMAIN Subs, p[1] \in S, NEW k \in JobsOf(Subs[p]), k \notin S
      PROVE  FALSE
  <2>1. Alive(Owner[k]) /\ Owner[k] = Subs[p] /\ Subs[p] \in Makes \ {Root}
      BY <1>4, SubsAssumption DEF JobsOf
  <2>2. PICK j \in Started(Subs[p]) : TRUE
      BY <2>1 DEF Family
  <2>3. /\ <<j, line[j]>> \in DOMAIN Subs /\ Subs[<<j, line[j]>>] = Subs[p]
        /\ j \in Jobs /\ state[j] = "running"
      BY <2>2 DEF Started, Recurses
  <2>4. <<j, line[j]>> = p
      BY <2>3, SubsAssumption
  <2>5. p[1] = j
      BY <2>4
  <2>6. j = r \/ ~Alive(Owner[j])
      BY <1>4, <2>5
  <2> QED BY <1>2, <1>3, <2>3, <2>6
<1>5. \A p \in DOMAIN Subs : p[1] \in S => JobsOf(Subs[p]) \subseteq S
  <2>1. ASSUME NEW p \in DOMAIN Subs, p[1] \in S, NEW k \in JobsOf(Subs[p]) PROVE k \in S
      BY <1>4, <2>1
  <2> QED BY <2>1
<1>6. r \in S /\ S \in SUBSET Jobs
    BY <1>3
<1>7. i \in S
    BY <1>1, <1>3, <1>5, <1>6 DEF Below
<1> QED BY <1>2, <1>3, <1>7

\* A job that runs has a make that does, one that is not about to die.
LEMMA OwnerAlive ==
    ASSUME Family, NEW j \in Jobs, state[j] \in {"running", "dead"}
    PROVE  at[Owner[j]].place \notin Away /\ Alive(Owner[j])
BY JobsAssumption DEF Family, Away, Alive, JobsOf

\* What starts makes keeps running.
LEMMA StartedKept ==
    ASSUME NEW m, NEW j \in Started(m), state'[j] = "running", line'[j] = line[j]
    PROVE  j \in Started(m)'
BY DEF Started, Recurses

\* Family is kept by a step that starts no make and ends none.
LEMMA FamilyKept ==
    ASSUME TypeInv, Family,
           \A n \in Makes : \/ at'[n].place = at[n].place
                            \/ at'[n].place \notin Away /\ at[n].place \notin Away,
           \A j \in Jobs : state[j] = "running" /\ Recurses(j) =>
                              state'[j] = "running" /\ line'[j] = line[j],
           \A j \in Jobs : state'[j] = state[j] \/ at[Owner[j]].place \notin Away
    PROVE  Family'
<1>1. \A m \in Makes : Alive(m)' <=> Alive(m)
    BY DEF Alive, Away
<1>2. ASSUME NEW m \in Makes, at'[m].place \in Away, NEW j \in JobsOf(m)
      PROVE  state'[j] \in {"waiting", "done"}
    BY <1>2 DEF Family, Away, JobsOf
<1>3. ASSUME NEW m \in Makes \ {Root}, Alive(m)'
      PROVE  \E j \in Started(m)', r \in JobsOf(Root) : j \in Below[r]
  <2>1. PICK j \in Started(m), r \in JobsOf(Root) : j \in Below[r]
      BY <1>1, <1>3 DEF Family
  <2>2. j \in Started(m)'
      BY <2>1, StartedKept DEF Started
  <2> QED BY <2>1, <2>2
<1>4. at'[Root].place \notin {"unborn", "fatal"}
    BY MakesAssumption DEF Family, Away
<1>5. (\E m \in Makes : Alive(m)') => Alive(Root)'
    BY <1>1, MakesAssumption DEF Family
<1>6. JobsOf(Root)' = JobsOf(Root) /\ \A m \in Makes : JobsOf(m)' = JobsOf(m)
    BY DEF JobsOf
<1> QED BY <1>2, <1>3, <1>4, <1>5, <1>6 DEF Family, Away

\* Family is kept: RunLine starts a make below a running job, Die and FatalDies end one.
LEMMA FamilyStep == TypeInv /\ TypeInv' /\ Turns /\ Family /\ [Next]_vars => Family'
<1> SUFFICES ASSUME TypeInv, TypeInv', Turns, Family, [Next]_vars PROVE Family'
    OBVIOUS
<1> USE DEF given, syncVars, jobVars, tmpVars
<1>j. \A m \in Makes : at[m].place \in JobPlaces =>
         at[m].job \in Jobs /\ Owner[at[m].job] = m /\ state[at[m].job] \in {"waiting", "dead"}
    BY DEF Turns, TurnOK, JobsOf
<1>t. /\ at \in [Makes -> Turn] /\ state \in [Jobs -> {"waiting", "running", "dead", "done"}]
      /\ line \in [Jobs -> Nat]
    BY DEF TypeInv
<1>n. ASSUME NEW m \in Makes, NEW p \in Places, at' = [at EXCEPT ![m].place = p]
      PROVE  at'[m].place = p /\ \A n \in Makes \ {m} : at'[n] = at[n]
    BY <1>t, <1>n DEF Turn
<1>a. JobPlaces \cap Away = {} /\ DumpPlaces \subseteq JobPlaces /\ "idle" \notin Away
    BY DEF JobPlaces, DumpPlaces, Away
<1>o. \A j \in Jobs : Owner[j] \in Makes
    BY JobsAssumption
<1>s. ASSUME state' = state, line' = line,
             \A n \in Makes : \/ at'[n].place = at[n].place
                              \/ at'[n].place \notin Away /\ at[n].place \notin Away
      PROVE  Family'
    BY <1>s, FamilyKept
<1>1. ASSUME NEW m \in Makes, NEW j \in Jobs, NewJob(m, j) PROVE Family'
  <2>1. at' = [at EXCEPT ![m] = Busy("start", j, "idle")] /\ state' = state /\ line' = line
        /\ at[m] = Idle
      BY <1>1 DEF NewJob
  <2> QED BY <1>s, <1>t, <2>1 DEF Busy, Idle, Away
<1>2. ASSUME NEW m \in Makes, NEW j \in Jobs, Reap(m, j) PROVE Family'
  <2>1. /\ \/ at' = [at EXCEPT ![m] = Busy("start", j, "start")]
           \/ at' = [at EXCEPT ![m] = Busy("dump", j, "start")]
           \/ at' = [at EXCEPT ![m] = Busy("dump", j, "close")]
        /\ state' = state /\ state[j] = "dead" /\ at[m] = Idle
        /\ (line' = line \/ line' = [line EXCEPT ![j] = @ + 1])
      BY <1>2 DEF Reap
  <2>2. \A n \in Makes : \/ at'[n].place = at[n].place
                         \/ at'[n].place \notin Away /\ at[n].place \notin Away
      BY <1>t, <2>1 DEF Busy, Idle, Away
  <2>3. \A i \in Jobs : state[i] = "running" => line'[i] = line[i]
      BY <1>t, <2>1
  <2> QED BY <2>1, <2>2, <2>3, FamilyKept
<1>3. ASSUME NEW m \in Makes, StartLine(m) PROVE Family'
  <2>1. /\ \/ at' = [at EXCEPT ![m] = Busy("print", at[m].job, "print")]
           \/ at' = [at EXCEPT ![m] = Busy("dump", at[m].job, "print")]
        /\ state' = state /\ line' = line /\ at[m].place = "start"
      BY <1>3 DEF StartLine
  <2> QED BY <1>s, <1>t, <2>1 DEF Busy, Away
<1>4. ASSUME NEW m \in Makes, NEW p \in JobPlaces, at' = [at EXCEPT ![m].place = p],
             at[m].place \in JobPlaces, state' = state, line' = line
      PROVE  Family'
  <2>1. p \in Places
      BY DEF Places
  <2>2. at'[m].place = p /\ \A n \in Makes \ {m} : at'[n] = at[n]
      BY <1>4, <1>n, <2>1
  <2> QED BY <1>4, <1>s, <1>a, <2>2
<1>5. ASSUME NEW m \in Makes, OutputStart(m) \/ DumpEnter(m) \/ Acquire(m) \/ AcquireFails(m)
      PROVE  Family'
    BY <1>4, <1>5 DEF OutputStart, DumpEnter, Acquire, AcquireFails, JobPlaces, DumpPlaces
<1>6. ASSUME NEW m \in Makes, DumpNothing(m) \/ DumpEnds(m) PROVE Family'
  <2>1. /\ at' = [at EXCEPT ![m].place = at[m].then] /\ state' = state /\ line' = line
        /\ at[m].place \in DumpPlaces
      BY <1>6 DEF DumpNothing, DumpEnds, Pumping, DumpPlaces
  <2>2. at[m].then \in {"print", "start", "close"}
      BY <2>1 DEF Turns, TurnOK
  <2>3. at[m].then \in JobPlaces /\ at[m].place \in JobPlaces
      BY <2>1, <2>2 DEF JobPlaces
  <2> QED BY <1>4, <2>1, <2>3
<1>7. ASSUME NEW m \in Makes, RunLine(m) PROVE Family'
  <2>1. PICK j : j = at[m].job
      OBVIOUS
  <2>2. /\ at[m].place = "run" /\ state' = [state EXCEPT ![j] = "running"] /\ line' = line
        /\ j \in Jobs /\ Owner[j] = m /\ state[j] \in {"waiting", "dead"} /\ Alive(m)
      BY <1>7, <1>j, <2>1 DEF RunLine, JobPlaces, Alive
  <2>3. CASE Recurses(j)
    <3>1. PICK s : s = Subs[<<j, line[j]>>]
        OBVIOUS
    <3>2. s \in Makes \ {Root} /\ ~Alive(s) /\ s # m
        BY <2>2, <2>3, <3>1, RecurseType, NotAlive
    <3>3. at' = [at EXCEPT ![m] = Idle,
                   ![s] = IF option = "recurse" \/ mutex_file THEN Idle
                          ELSE Busy("fatal", "none", "idle")]
        BY <1>7, <2>1, <2>3, <3>1 DEF RunLine
    <3>4. /\ at'[m] = Idle /\ (at'[s] = Idle \/ at'[s] = Busy("fatal", "none", "idle"))
          /\ \A n \in Makes \ {m, s} : at'[n] = at[n]
        BY <1>t, <3>2, <3>3
    <3>5. \A n \in Makes \ {s} : Alive(n)' <=> Alive(n)
        BY <2>2, <3>4 DEF Alive, Idle
    <3>6. ASSUME NEW n \in Makes, at'[n].place \in Away, NEW i \in JobsOf(n)
          PROVE  state'[i] \in {"waiting", "done"}
      <4>1. n # m
          BY <3>4, <3>6 DEF Idle, Away
      <4>2. state'[i] = state[i]
          BY <1>t, <2>2, <4>1 DEF JobsOf
      <4>3. at[n].place \in Away
          BY <3>2, <3>4, <3>6, <4>1 DEF Alive, Away
      <4> QED BY <4>2, <4>3 DEF Family, Away
    <3>7. ASSUME NEW n \in Makes \ {Root}, n # s, Alive(n)'
          PROVE  \E i \in Started(n)', r \in JobsOf(Root) : i \in Below[r]
      <4>1. PICK i \in Started(n), r \in JobsOf(Root) : i \in Below[r]
          BY <3>5, <3>7 DEF Family
      <4>2. i \in Started(n)'
          BY <1>t, <2>2, <4>1, StartedKept DEF Started
      <4> QED BY <4>1, <4>2
    <3>8. j \in Started(s)'
        BY <1>t, <2>2, <2>3, <3>1 DEF Started, Recurses
    <3>9. \E r \in JobsOf(Root) : j \in Below[r]
      <4>1. CASE m = Root
          BY <2>2, <4>1, BelowSelf DEF JobsOf
      <4>2. CASE m # Root
        <5>1. PICK i \in Started(m), r \in JobsOf(Root) : i \in Below[r]
            BY <2>2, <4>2 DEF Family
        <5>2. PICK p \in DOMAIN Subs : p = <<i, line[i]>> /\ Subs[p] = m
            BY <5>1 DEF Started, Recurses
        <5>3. p[1] = i /\ r \in Jobs
            BY <5>1, <5>2 DEF JobsOf
        <5>4. j \in JobsOf(Subs[p])
            BY <2>2, <5>2 DEF JobsOf
        <5> QED BY <5>1, <5>3, <5>4, BelowClosed
      <4> QED BY <4>1, <4>2
    <3>10. at'[Root].place \notin {"unborn", "fatal"}
      <4>1. CASE Root = m
          BY <3>4, <4>1 DEF Idle
      <4>2. CASE Root # m
          BY <3>2, <3>4, <4>2, MakesAssumption DEF Family
      <4> QED BY <4>1, <4>2
    <3>11. Alive(Root)'
        BY <2>2, <3>2, <3>5, MakesAssumption DEF Family
    <3>12. \A n \in Makes : JobsOf(n)' = JobsOf(n)
        BY DEF JobsOf
    <3> QED BY <3>6, <3>7, <3>8, <3>9, <3>10, <3>11, <3>12, MakesAssumption DEF Family, Away
  <2>4. CASE ~Recurses(j)
    <3>1. at' = [at EXCEPT ![m] = Idle]
        BY <1>7, <2>1, <2>4 DEF RunLine
    <3>2. \A n \in Makes : \/ at'[n].place = at[n].place
                           \/ at'[n].place \notin Away /\ at[n].place \notin Away
        BY <1>t, <2>2, <3>1 DEF Idle, Away
    <3>3. \A i \in Jobs : state'[i] = state[i] \/ at[Owner[i]].place \notin Away
        BY <1>t, <2>2 DEF Away
    <3>4. \A i \in Jobs : state[i] = "running" => state'[i] = "running" /\ line'[i] = line[i]
        BY <1>t, <2>2
    <3> QED BY <3>2, <3>3, <3>4, FamilyKept
  <2> QED BY <2>3, <2>4
<1>8. ASSUME NEW m \in Makes, FreeChild(m) PROVE Family'
  <2>1. /\ at' = [at EXCEPT ![m] = Idle] /\ state' = [state EXCEPT ![at[m].job] = "done"]
        /\ at[m].place = "close" /\ line' = line
      BY <1>8 DEF FreeChild
  <2>2. /\ at[m].job \in Jobs /\ Owner[at[m].job] = m /\ state[at[m].job] # "running"
      BY <1>j, <2>1 DEF JobPlaces
  <2>3. \A n \in Makes : \/ at'[n].place = at[n].place
                         \/ at'[n].place \notin Away /\ at[n].place \notin Away
      BY <1>t, <2>1 DEF Idle, Away
  <2>4. \A i \in Jobs : state'[i] = state[i] \/ at[Owner[i]].place \notin Away
      BY <1>t, <2>1, <2>2 DEF Away
  <2>5. \A i \in Jobs : state[i] = "running" => state'[i] = "running" /\ line'[i] = line[i]
      BY <1>t, <2>1, <2>2
  <2> QED BY <2>3, <2>4, <2>5, FamilyKept
<1>9. ASSUME NEW m \in Makes, Pump(m) \/ SetupFails(m) PROVE Family'
    BY <1>9, <1>s DEF Pump, SetupFails
<1>10. ASSUME NEW m \in Makes, Die(m) \/ FatalDies(m) PROVE Family'
  <2>1. /\ at' = [at EXCEPT ![m] = Busy("gone", "none", "idle")]
        /\ state' = [j \in Jobs |-> IF j \in Started(m) THEN "dead" ELSE state[j]]
        /\ line' = line /\ at[m].place \in {"idle", "fatal"}
      BY <1>10 DEF Die, FatalDies, Idle
  <2>2. at'[m].place = "gone" /\ \A n \in Makes \ {m} : at'[n] = at[n]
      BY <1>t, <2>1 DEF Busy
  <2>3. \A j \in JobsOf(m) : state[j] \in {"waiting", "done"}
      BY <1>10 DEF Die, FatalDies, Family
  <2>4. ASSUME NEW n \in Makes, at'[n].place \in Away, NEW i \in JobsOf(n)
        PROVE  state'[i] \in {"waiting", "done"}
    <3>1. state[i] \in {"waiting", "done"}
        BY <2>2, <2>3, <2>4 DEF Family, Away
    <3> QED BY <2>1, <3>1 DEF Started, JobsOf
  <2>5. ASSUME NEW n \in Makes \ {Root}, Alive(n)'
        PROVE  \E i \in Started(n)', r \in JobsOf(Root) : i \in Below[r]
    <3>1. n # m /\ Alive(n)
        BY <2>2, <2>5 DEF Alive
    <3>2. PICK i \in Started(n), r \in JobsOf(Root) : i \in Below[r]
        BY <3>1 DEF Family
    <3>3. i \in Jobs /\ state[i] = "running" /\ i \notin Started(m)
        BY <3>1, <3>2 DEF Started
    <3>4. i \in Started(n)'
        BY <2>1, <3>2, <3>3, StartedKept
    <3> QED BY <3>2, <3>4
  <2>6. at'[Root].place \notin {"unborn", "fatal"}
      BY <2>2, MakesAssumption DEF Family
  <2>7. ASSUME NEW n \in Makes, Alive(n)' PROVE Alive(Root)'
    <3>1. n # m /\ Alive(n) /\ Alive(Root)
        BY <2>2, <2>7 DEF Alive, Family
    <3>2. m # Root
      <4>1. SUFFICES ASSUME m = Root PROVE FALSE
          OBVIOUS
      <4>2. \A r \in JobsOf(Root) : state[r] = "done"
          BY <1>10, <4>1 DEF Die, FatalDies, Family
      <4> QED BY <3>1, <4>1, <4>2, Deserted
    <3> QED BY <2>2, <3>1, <3>2, MakesAssumption DEF Alive
  <2>8. \A n \in Makes : JobsOf(n)' = JobsOf(n)
      BY DEF JobsOf
  <2> QED BY <2>4, <2>5, <2>6, <2>7, <2>8, MakesAssumption DEF Family, Away
<1>11. ASSUME NEW j \in Jobs, CommandWrites(j) PROVE Family'
    BY <1>11, <1>s DEF CommandWrites
<1>12. ASSUME NEW j \in Jobs, CommandEnds(j) PROVE Family'
  <2>1. at' = at /\ state' = [state EXCEPT ![j] = "dead"] /\ line' = line
        /\ state[j] = "running" /\ ~Recurses(j)
      BY <1>12 DEF CommandEnds
  <2>2. at[Owner[j]].place \notin Away
      BY <2>1, OwnerAlive
  <2> QED BY <1>t, <2>1, <2>2, FamilyKept
<1>13. CASE UNCHANGED vars
    BY <1>13, <1>s DEF vars
<1> QED BY <1>1, <1>2, <1>3, <1>5, <1>6, <1>7, <1>8, <1>9, <1>10, <1>11, <1>12, <1>13
       DEF Next, MakeStep
--------------------------------------------------------------------------------
(* The lock *)

Holds(m) == at[m].place \in LockPlaces /\ osync_handle[m]

\* Locked is kept by a step that changes neither the lock nor who ought to hold it.
LEMMA LockedKept ==
    ASSUME Locked, holder' = holder, \A m \in Makes : Holds(m)' <=> Holds(m)
    PROVE  Locked'
BY DEF Locked, Holds

\* Locked is kept: osync_acquire and osync_release go with the places of a dump.
LEMMA LockedStep == TypeInv /\ Turns /\ Family /\ Locked /\ [Next]_vars => Locked'
<1> SUFFICES ASSUME TypeInv, Turns, Family, Locked, [Next]_vars PROVE Locked'
    OBVIOUS
<1> USE DEF given, syncVars, jobVars, tmpVars
<1>j. \A m \in Makes : at[m].place \in JobPlaces =>
         at[m].job \in Jobs /\ Owner[at[m].job] = m /\ state[at[m].job] \in {"waiting", "dead"}
    BY DEF Turns, TurnOK, JobsOf
<1>t. at \in [Makes -> Turn] /\ osync_handle \in [Makes -> BOOLEAN] /\ NoMake \notin Makes
      /\ \A m \in Makes : holder = m <=> Holds(m)
    BY MakesAssumption DEF TypeInv, Locked, Holds
<1>n. ASSUME NEW m \in Makes, NEW p, at' = [at EXCEPT ![m].place = p]
      PROVE  at'[m].place = p /\ \A n \in Makes \ {m} : at'[n] = at[n]
    BY <1>t, <1>n DEF Turn
<1>s. ASSUME holder' = holder, osync_handle' = osync_handle,
             \A m \in Makes : at'[m].place \in LockPlaces <=> at[m].place \in LockPlaces
      PROVE  Locked'
    BY <1>s, LockedKept DEF Holds
<1>1. ASSUME NEW m \in Makes, NEW j \in Jobs, NewJob(m, j) PROVE Locked'
  <2>1. at' = [at EXCEPT ![m] = Busy("start", j, "idle")] /\ at[m] = Idle
        /\ holder' = holder /\ osync_handle' = osync_handle
      BY <1>1 DEF NewJob
  <2> QED BY <1>s, <1>t, <2>1 DEF Busy, Idle, LockPlaces
<1>2. ASSUME NEW m \in Makes, NEW j \in Jobs, Reap(m, j) PROVE Locked'
  <2>1. /\ \/ at' = [at EXCEPT ![m] = Busy("start", j, "start")]
           \/ at' = [at EXCEPT ![m] = Busy("dump", j, "start")]
           \/ at' = [at EXCEPT ![m] = Busy("dump", j, "close")]
        /\ at[m] = Idle /\ holder' = holder /\ osync_handle' = osync_handle
      BY <1>2 DEF Reap
  <2>2. \A n \in Makes : at'[n].place \in LockPlaces <=> at[n].place \in LockPlaces
      BY <1>t, <2>1 DEF Busy, Idle, LockPlaces
  <2> QED BY <1>s, <2>1, <2>2
<1>3. ASSUME NEW m \in Makes, StartLine(m) PROVE Locked'
  <2>1. /\ \/ at' = [at EXCEPT ![m] = Busy("print", at[m].job, "print")]
           \/ at' = [at EXCEPT ![m] = Busy("dump", at[m].job, "print")]
        /\ at[m].place = "start" /\ holder' = holder /\ osync_handle' = osync_handle
      BY <1>3 DEF StartLine
  <2> QED BY <1>s, <1>t, <2>1 DEF Busy, LockPlaces
<1>4. ASSUME NEW m \in Makes, OutputStart(m) \/ DumpEnter(m) \/ DumpNothing(m) PROVE Locked'
  <2>1. \/ at[m].place = "print" /\ at' = [at EXCEPT ![m].place = "run"]
        \/ at[m].place = "enter" /\ at' = [at EXCEPT ![m].place = "pump"]
        \/ at[m].place = "enter" /\ at' = [at EXCEPT ![m].place = "traced"]
        \/ at[m].place = "dump" /\ at' = [at EXCEPT ![m].place = at[m].then]
      BY <1>4 DEF OutputStart, DumpEnter, DumpNothing
  <2>2. holder' = holder /\ osync_handle' = osync_handle
      BY <1>4 DEF OutputStart, DumpEnter, DumpNothing
  <2>3. at[m].place = "dump" => at[m].then \in {"print", "start", "close"}
      BY DEF Turns, TurnOK, DumpPlaces
  <2>4. \A n \in Makes : at'[n].place \in LockPlaces <=> at[n].place \in LockPlaces
      BY <1>n, <2>1, <2>3 DEF LockPlaces
  <2> QED BY <1>s, <2>2, <2>4
<1>5. ASSUME NEW m \in Makes, Acquire(m) PROVE Locked'
  <2>1. /\ at' = [at EXCEPT ![m].place = "enter"] /\ at[m].place = "dump"
        /\ osync_handle' = osync_handle
        /\ (osync_handle[m] => holder = NoMake)
        /\ holder' = IF osync_handle[m] THEN m ELSE holder
      BY <1>5 DEF Acquire
  <2>2. at'[m].place = "enter" /\ \A n \in Makes \ {m} : at'[n] = at[n]
      BY <1>n, <2>1
  <2>3. \A n \in Makes \ {m} : Holds(n)' <=> Holds(n)
      BY <2>1, <2>2 DEF Holds
  <2>4. ~Holds(m) /\ (Holds(m)' <=> osync_handle[m])
      BY <2>1, <2>2 DEF Holds, LockPlaces
  <2> QED BY <1>t, <2>1, <2>3, <2>4 DEF Locked, Holds
<1>6. ASSUME NEW m \in Makes, AcquireFails(m) PROVE Locked'
  <2>1. /\ at' = [at EXCEPT ![m].place = "enter"] /\ at[m].place = "dump"
        /\ osync_handle' = [osync_handle EXCEPT ![m] = FALSE] /\ holder' = holder
      BY <1>6 DEF AcquireFails, OsyncClear
  <2>2. at'[m].place = "enter" /\ \A n \in Makes \ {m} : at'[n] = at[n]
      BY <1>n, <2>1
  <2>3. \A n \in Makes : Holds(n)' <=> Holds(n)
      BY <1>t, <2>1, <2>2 DEF Holds, LockPlaces
  <2> QED BY <2>1, <2>3, LockedKept
<1>7. ASSUME NEW m \in Makes, DumpEnds(m) PROVE Locked'
  <2>1. /\ at' = [at EXCEPT ![m].place = at[m].then] /\ at[m].place \in LockPlaces
        /\ osync_handle' = osync_handle
        /\ holder' = IF osync_handle[m] THEN NoMake ELSE holder
      BY <1>7 DEF DumpEnds, Pumping, LockPlaces
  <2>2. at[m].then \in {"print", "start", "close"}
      BY <2>1 DEF Turns, TurnOK, DumpPlaces, LockPlaces
  <2>3. at'[m].place = at[m].then /\ \A n \in Makes \ {m} : at'[n] = at[n]
      BY <1>n, <2>1
  <2>4. ~Holds(m)' /\ (Holds(m) <=> osync_handle[m])
      BY <2>1, <2>2, <2>3 DEF Holds, LockPlaces
  <2>5. \A n \in Makes \ {m} : Holds(n)' <=> Holds(n)
      BY <2>1, <2>3 DEF Holds
  <2> QED BY <1>t, <2>1, <2>4, <2>5 DEF Locked, Holds
<1>8. ASSUME NEW m \in Makes, RunLine(m) PROVE Locked'
  <2>1. PICK j : j = at[m].job
      OBVIOUS
  <2>2. /\ at[m].place = "run" /\ holder' = holder /\ j \in Jobs /\ state[j] # "running"
      BY <1>8, <1>j, <2>1 DEF RunLine, JobPlaces
  <2>3. CASE Recurses(j)
    <3>1. PICK s : s = Subs[<<j, line[j]>>]
        OBVIOUS
    <3>2. s \in Makes \ {Root} /\ ~Alive(s)
        BY <2>2, <2>3, <3>1, RecurseType, NotAlive
    <3>3. /\ at' = [at EXCEPT ![m] = Idle,
                     ![s] = IF option = "recurse" \/ mutex_file THEN Idle
                            ELSE Busy("fatal", "none", "idle")]
          /\ osync_handle' = [osync_handle EXCEPT ![s] = option # "recurse" /\ mutex_file]
        BY <1>8, <2>1, <2>3, <3>1 DEF RunLine
    <3>4. ~Holds(m) /\ ~Holds(s) /\ at'[m].place \notin LockPlaces /\ at'[s].place \notin LockPlaces
        BY <1>t, <2>2, <3>2, <3>3 DEF Holds, LockPlaces, Alive, Idle, Busy
    <3>5. \A n \in Makes \ {m, s} : at'[n] = at[n] /\ osync_handle'[n] = osync_handle[n]
        BY <1>t, <3>2, <3>3
    <3>6. \A n \in Makes : Holds(n)' <=> Holds(n)
        BY <3>4, <3>5 DEF Holds
    <3> QED BY <2>2, <3>6, LockedKept
  <2>4. CASE ~Recurses(j)
    <3>1. at' = [at EXCEPT ![m] = Idle] /\ osync_handle' = osync_handle
        BY <1>8, <2>1, <2>4 DEF RunLine
    <3> QED BY <1>s, <1>t, <2>2, <3>1 DEF Idle, LockPlaces
  <2> QED BY <2>3, <2>4
<1>9. ASSUME NEW m \in Makes, FreeChild(m) PROVE Locked'
  <2>1. at' = [at EXCEPT ![m] = Idle] /\ at[m].place = "close"
        /\ holder' = holder /\ osync_handle' = osync_handle
      BY <1>9 DEF FreeChild
  <2> QED BY <1>s, <1>t, <2>1 DEF Idle, LockPlaces
<1>10. ASSUME NEW m \in Makes, Pump(m) PROVE Locked'
    BY <1>s, <1>10 DEF Pump
<1>11. ASSUME NEW m \in Makes, SetupFails(m) PROVE Locked'
  <2>1. at' = at /\ at[m].place = "print" /\ holder' = holder
        /\ osync_handle' = [osync_handle EXCEPT ![m] = FALSE]
      BY <1>11 DEF SetupFails, OsyncClear
  <2> QED BY <1>t, <2>1, LockedKept DEF Holds, LockPlaces
<1>12. ASSUME NEW m \in Makes, Die(m) \/ FatalDies(m) PROVE Locked'
  <2>1. /\ at' = [at EXCEPT ![m] = Busy("gone", "none", "idle")] /\ holder' = holder
        /\ \/ osync_handle' = osync_handle
           \/ osync_handle' = [osync_handle EXCEPT ![m] = FALSE]
        /\ at[m].place \in {"idle", "fatal"}
      BY <1>12 DEF Die, FatalDies, OsyncClear, Idle
  <2>2. \A n \in Makes : Holds(n)' <=> Holds(n)
      BY <1>t, <2>1 DEF Holds, LockPlaces, Busy
  <2> QED BY <2>1, <2>2, LockedKept
<1>13. ASSUME NEW j \in Jobs, CommandWrites(j) \/ CommandEnds(j) PROVE Locked'
    BY <1>13, <1>s DEF CommandWrites, CommandEnds
<1>14. CASE UNCHANGED vars
    BY <1>14, <1>s DEF vars
<1> QED BY <1>1, <1>2, <1>3, <1>4, <1>5, <1>6, <1>7, <1>8, <1>9, <1>10, <1>11, <1>12, <1>13, <1>14
       DEF Next, MakeStep
--------------------------------------------------------------------------------
(* What a step does to a job *)

\* The step is not about j, but that its running command may end.
Same(j) ==
    /\ line'[j] = line[j] /\ diverted'[j] = diverted[j]
    /\ \/ state'[j] = state[j]
       \/ /\ state[j] = "running" /\ state'[j] = "dead" /\ at[Owner[j]].job # j
          /\ Recurses(j) => ~Alive(Subs[<<j, line[j]>>])'
    /\ \/ at'[Owner[j]] = at[Owner[j]]
       \/ at'[Owner[j]].job # j /\ at[Owner[j]].job # j

\* The make of j moves on with j.
Moves(m, j) ==
    \/ NewJob(m, j) \/ Reap(m, j)
    \/ /\ at[m].job = j /\ at[m].place \in JobPlaces
       /\ \/ StartLine(m) \/ OutputStart(m) \/ RunLine(m) \/ FreeChild(m)
          \/ DumpNothing(m) \/ DumpEnter(m) \/ DumpEnds(m)
          \/ Acquire(m) \/ AcquireFails(m) \/ SetupFails(m)

\* A step that is not about j leaves j at its stage.
LEMMA SameStages ==
    ASSUME NEW j \in Jobs, Same(j)
    PROVE  /\ \A P : Here(j, P)' <=> Here(j, P)
           /\ \A n : Dumping(j, n)' <=> Dumping(j, n)
           /\ Finishing(j)' <=> Finishing(j)
           /\ InLine(j)' <=> InLine(j)
           /\ Recurses(j)' <=> Recurses(j)
<1>1. ASSUME NEW P PROVE Here(j, P)' <=> Here(j, P)
    BY DEF Same, Here
<1>2. ASSUME NEW n PROVE Dumping(j, n)' <=> Dumping(j, n)
    BY DEF Same, Here, Dumping
<1>3. Finishing(j)' <=> Finishing(j)
    BY DEF Same, Here, Dumping, Finishing
<1>4. InLine(j)' <=> InLine(j)
    BY DEF Same, Here, InLine
<1>5. Recurses(j)' <=> Recurses(j)
    BY DEF Same, Recurses
<1> QED BY <1>1, <1>2, <1>3, <1>4, <1>5

\* Every step is about j or leaves j alone.
LEMMA EachJob ==
    ASSUME TypeInv, Turns, Family, [Next]_vars, NEW j \in Jobs
    PROVE  Same(j) \/ Moves(Owner[j], j)
<1> USE DEF given, syncVars, jobVars, tmpVars
<1>j. \A m \in Makes : at[m].place \in JobPlaces =>
         at[m].job \in Jobs /\ Owner[at[m].job] = m /\ state[at[m].job] \in {"waiting", "dead"}
    BY DEF Turns, TurnOK, JobsOf
<1>t. /\ at \in [Makes -> Turn] /\ state \in [Jobs -> {"waiting", "running", "dead", "done"}]
      /\ line \in [Jobs -> Nat] /\ diverted \in [Jobs -> BOOLEAN]
      /\ Owner[j] \in Makes
    BY JobsAssumption DEF TypeInv
<1>i. \A m \in Makes : at[m].place \notin JobPlaces => at[m].job # j
    BY JobsAssumption DEF Turns, TurnOK
<1>r. state[j] = "running" => at[Owner[j]].job # j
    BY <1>i, <1>j, <1>t
<1>a. DumpPlaces \subseteq JobPlaces /\ {"start", "print", "run", "close"} \subseteq JobPlaces
      /\ {"idle", "fatal"} \cap JobPlaces = {}
    BY DEF JobPlaces, DumpPlaces
<1>1. ASSUME NEW m \in Makes, NEW i \in Jobs, NewJob(m, i) \/ Reap(m, i)
      PROVE  Same(j) \/ Moves(Owner[j], j)
  <2>1. CASE i = j
    <3>1. Owner[j] = m
        BY <1>1, <2>1 DEF NewJob, Reap, JobsOf
    <3> QED BY <1>1, <2>1, <3>1 DEF Moves
  <2>2. CASE i # j
    <3>1. /\ \/ at' = [at EXCEPT ![m] = Busy("start", i, "idle")]
             \/ at' = [at EXCEPT ![m] = Busy("start", i, "start")]
             \/ at' = [at EXCEPT ![m] = Busy("dump", i, "start")]
             \/ at' = [at EXCEPT ![m] = Busy("dump", i, "close")]
          /\ at[m] = Idle /\ state' = state /\ diverted' = diverted
          /\ (line' = line \/ line' = [line EXCEPT ![i] = @ + 1])
        BY <1>1 DEF NewJob, Reap
    <3>2. at[m].job # j
        BY <1>a, <1>i, <3>1 DEF Idle
    <3>3. at'[Owner[j]] = at[Owner[j]] \/ (at'[Owner[j]].job # j /\ at[Owner[j]].job # j)
        BY <1>t, <2>2, <3>1, <3>2 DEF Busy
    <3>4. line'[j] = line[j]
        BY <1>t, <2>2, <3>1
    <3> QED BY <3>1, <3>3, <3>4 DEF Same
  <2> QED BY <2>1, <2>2
<1>2. ASSUME NEW m \in Makes, at[m].place \in JobPlaces,
             StartLine(m) \/ OutputStart(m) \/ FreeChild(m) \/ DumpNothing(m) \/ DumpEnter(m)
               \/ DumpEnds(m) \/ Acquire(m) \/ AcquireFails(m) \/ SetupFails(m)
      PROVE  Same(j) \/ Moves(Owner[j], j)
  <2>1. CASE at[m].job = j
    <3>1. Owner[j] = m
        BY <1>2, <1>j, <2>1
    <3> QED BY <1>2, <2>1, <3>1 DEF Moves
  <2>2. CASE at[m].job # j
    <3>1. /\ line' = line
          /\ (diverted' = diverted
                \/ \E x : diverted' = [diverted EXCEPT ![at[m].job] = x])
          /\ (state' = state \/ state' = [state EXCEPT ![at[m].job] = "done"])
      <4>1. CASE StartLine(m)
          BY <4>1 DEF StartLine
      <4>2. CASE SetupFails(m)
          BY <4>2 DEF SetupFails
      <4>3. CASE FreeChild(m)
          BY <4>3 DEF FreeChild
      <4>4. CASE OutputStart(m)
          BY <4>4 DEF OutputStart
      <4>5. CASE DumpNothing(m) \/ DumpEnter(m) \/ DumpEnds(m) \/ Acquire(m) \/ AcquireFails(m)
          BY <4>5 DEF DumpNothing, DumpEnter, DumpEnds, Acquire, AcquireFails
      <4> QED BY <1>2, <4>1, <4>2, <4>3, <4>4, <4>5
    <3>2. \/ \E p : at' = [at EXCEPT ![m].place = p]
          \/ at' = at \/ at' = [at EXCEPT ![m] = Idle]
          \/ at' = [at EXCEPT ![m] = Busy("print", at[m].job, "print")]
          \/ at' = [at EXCEPT ![m] = Busy("dump", at[m].job, "print")]
      <4>1. CASE StartLine(m)
          BY <4>1 DEF StartLine
      <4>2. CASE SetupFails(m)
          BY <4>2 DEF SetupFails
      <4>3. CASE FreeChild(m)
          BY <4>3 DEF FreeChild
      <4>4. CASE OutputStart(m)
          BY <4>4 DEF OutputStart
      <4>5. CASE DumpNothing(m)
          BY <4>5 DEF DumpNothing
      <4>6. CASE DumpEnter(m)
          BY <4>6 DEF DumpEnter
      <4>7. CASE DumpEnds(m)
          BY <4>7 DEF DumpEnds
      <4>8. CASE Acquire(m)
          BY <4>8 DEF Acquire
      <4>9. CASE AcquireFails(m)
          BY <4>9 DEF AcquireFails
      <4> QED BY <1>2, <4>1, <4>2, <4>3, <4>4, <4>5, <4>6, <4>7, <4>8, <4>9
    <3>3. at'[Owner[j]] = at[Owner[j]] \/ (at'[Owner[j]].job # j /\ at[Owner[j]].job # j)
      <4>1. CASE \E p : at' = [at EXCEPT ![m].place = p]
          BY <1>t, <2>2, <4>1 DEF Turn
      <4>2. CASE at' = at
          BY <4>2
      <4>3. CASE at' = [at EXCEPT ![m] = Idle]
          BY <1>t, <2>2, <4>3, JobsAssumption DEF Idle
      <4>4. CASE \/ at' = [at EXCEPT ![m] = Busy("print", at[m].job, "print")]
                 \/ at' = [at EXCEPT ![m] = Busy("dump", at[m].job, "print")]
          BY <1>t, <2>2, <4>4 DEF Busy
      <4> QED BY <3>2, <4>1, <4>2, <4>3, <4>4
    <3>4. state'[j] = state[j] /\ diverted'[j] = diverted[j]
        BY <1>t, <2>2, <3>1
    <3> QED BY <3>1, <3>3, <3>4 DEF Same
  <2> QED BY <2>1, <2>2
<1>3. ASSUME NEW m \in Makes, RunLine(m) PROVE Same(j) \/ Moves(Owner[j], j)
  <2>1. PICK i : i = at[m].job
      OBVIOUS
  <2>2. /\ at[m].place = "run" /\ state' = [state EXCEPT ![i] = "running"]
        /\ line' = line /\ diverted' = diverted
        /\ i \in Jobs /\ Owner[i] = m /\ state[i] # "running"
      BY <1>3, <1>a, <1>j, <2>1 DEF RunLine
  <2>3. CASE i = j
      BY <1>3, <1>a, <2>1, <2>2, <2>3 DEF Moves
  <2>4. CASE i # j /\ Recurses(i)
    <3>1. PICK s : s = Subs[<<i, line[i]>>]
        OBVIOUS
    <3>2. s \in Makes \ {Root} /\ ~Alive(s) /\ s # m
        BY <2>2, <2>4, <3>1, RecurseType, NotAlive DEF Alive
    <3>3. at' = [at EXCEPT ![m] = Idle,
                   ![s] = IF option = "recurse" \/ mutex_file THEN Idle
                          ELSE Busy("fatal", "none", "idle")]
        BY <1>3, <2>1, <2>4, <3>1 DEF RunLine
    <3>4. /\ at'[m] = Idle /\ (at'[s] = Idle \/ at'[s] = Busy("fatal", "none", "idle"))
          /\ \A n \in Makes \ {m, s} : at'[n] = at[n]
        BY <1>t, <3>2, <3>3
    <3>5. at[m].job # j /\ at[s].job # j
        BY <1>i, <2>1, <2>4, <3>2 DEF Alive, JobPlaces, DumpPlaces
    <3>6. at'[m].job # j /\ at'[s].job # j
        BY <3>4, JobsAssumption DEF Idle, Busy
    <3>7. state'[j] = state[j]
        BY <1>t, <2>2, <2>4
    <3> QED BY <1>t, <2>2, <3>4, <3>5, <3>6, <3>7 DEF Same
  <2>5. CASE i # j /\ ~Recurses(i)
    <3>1. at' = [at EXCEPT ![m] = Idle]
        BY <1>3, <2>1, <2>5 DEF RunLine
    <3>2. at'[Owner[j]] = at[Owner[j]] \/ (at'[Owner[j]].job # j /\ at[Owner[j]].job # j)
        BY <1>t, <2>1, <2>5, <3>1, JobsAssumption DEF Idle
    <3>3. state'[j] = state[j]
        BY <1>t, <2>2, <2>5
    <3> QED BY <2>2, <3>2, <3>3 DEF Same
  <2> QED BY <2>3, <2>4, <2>5
<1>4. ASSUME NEW m \in Makes, Pump(m) PROVE Same(j) \/ Moves(Owner[j], j)
  <2>1. at' = at /\ state' = state /\ line' = line /\ diverted' = diverted
      BY <1>4 DEF Pump
  <2> QED BY <2>1 DEF Same
<1>5. ASSUME NEW m \in Makes, Die(m) \/ FatalDies(m) PROVE Same(j) \/ Moves(Owner[j], j)
  <2>1. /\ at' = [at EXCEPT ![m] = Busy("gone", "none", "idle")] /\ at[m].place \in {"idle", "fatal"}
        /\ state' = [k \in Jobs |-> IF k \in Started(m) THEN "dead" ELSE state[k]]
        /\ line' = line /\ diverted' = diverted
      BY <1>5 DEF Die, FatalDies, Idle
  <2>2. at'[Owner[j]] = at[Owner[j]] \/ (at'[Owner[j]].job # j /\ at[Owner[j]].job # j)
      BY <1>a, <1>i, <1>t, <2>1, JobsAssumption DEF Busy
  <2>3. \/ state'[j] = state[j]
        \/ /\ state[j] = "running" /\ state'[j] = "dead"
           /\ Recurses(j) => ~Alive(Subs[<<j, line[j]>>])'
    <3>1. CASE j \in Started(m)
      <4>1. Subs[<<j, line[j]>>] = m /\ state[j] = "running" /\ Recurses(j)
          BY <3>1 DEF Started
      <4>2. at'[m].place = "gone"
          BY <1>t, <2>1 DEF Busy
      <4>3. Subs[<<j, line[j]>>]' = m
          BY <2>1, <4>1
      <4> QED BY <2>1, <3>1, <4>1, <4>2, <4>3 DEF Alive
    <3>2. CASE j \notin Started(m)
        BY <2>1, <3>2
    <3> QED BY <3>1, <3>2
  <2> QED BY <1>r, <2>1, <2>2, <2>3 DEF Same
<1>6. ASSUME NEW i \in Jobs, CommandWrites(i) \/ CommandEnds(i) PROVE Same(j) \/ Moves(Owner[j], j)
  <2>1. /\ at' = at /\ line' = line /\ diverted' = diverted /\ state[i] = "running"
        /\ ~Recurses(i)
        /\ (state' = state \/ state' = [state EXCEPT ![i] = "dead"])
      BY <1>6 DEF CommandWrites, CommandEnds
  <2>2. state'[j] = state[j] \/ (state[j] = "running" /\ state'[j] = "dead" /\ ~Recurses(j))
      BY <1>t, <2>1
  <2> QED BY <1>r, <2>1, <2>2 DEF Same
<1>7. CASE UNCHANGED vars
    BY <1>7 DEF vars, Same
<1>8. \A m \in Makes :
          /\ StartLine(m) \/ OutputStart(m) \/ FreeChild(m) \/ DumpNothing(m) \/ DumpEnter(m)
               \/ DumpEnds(m) \/ Acquire(m) \/ AcquireFails(m) \/ SetupFails(m)
             => at[m].place \in JobPlaces
    BY <1>a DEF StartLine, OutputStart, FreeChild, DumpNothing, DumpEnter, DumpEnds, Acquire,
                AcquireFails, SetupFails, Pumping, DumpPlaces
<1> QED BY <1>1, <1>2, <1>3, <1>4, <1>5, <1>6, <1>7, <1>8 DEF Next, MakeStep

\* A make comes to life only when a line that starts it runs.
LEMMA AliveStep ==
    ASSUME TypeInv, Turns, Family, [Next]_vars, NEW n \in Makes, Alive(n)', ~Alive(n)
    PROVE  \E m \in Makes : /\ RunLine(m) /\ Recurses(at[m].job)
                            /\ n = Subs[<<at[m].job, line[at[m].job]>>]
<1> USE DEF given, syncVars, jobVars, tmpVars
<1>t. at \in [Makes -> Turn]
    BY DEF TypeInv
<1>a. DumpPlaces \cap {"unborn", "gone"} = {}
    BY DEF DumpPlaces
<1>1. ASSUME NEW m \in Makes, at[m].place \notin {"unborn", "gone"}, NEW x,
             at' = [at EXCEPT ![m] = x] \/ at' = [at EXCEPT ![m].place = x] \/ at' = at
      PROVE  FALSE
    BY <1>1, <1>t DEF Alive, Turn
<1>2. ASSUME NEW m \in Makes, NEW i \in Jobs, NewJob(m, i) \/ Reap(m, i) PROVE FALSE
  <2>1. at[m] = Idle /\ \E x \in {Busy("start", i, "idle"), Busy("start", i, "start"),
                                  Busy("dump", i, "start"), Busy("dump", i, "close")} :
                          at' = [at EXCEPT ![m] = x]
    <3>1. CASE NewJob(m, i)
        BY <3>1 DEF NewJob
    <3>2. CASE Reap(m, i)
      <4>1. \/ at' = [at EXCEPT ![m] = Busy("start", i, "start")]
            \/ at' = [at EXCEPT ![m] = Busy("dump", i, "start")]
            \/ at' = [at EXCEPT ![m] = Busy("dump", i, "close")]
          BY <3>2 DEF Reap
      <4> QED BY <3>2, <4>1 DEF Reap
    <3> QED BY <1>2, <3>1, <3>2
  <2>2. at[m].place \notin {"unborn", "gone"}
      BY <2>1 DEF Idle
  <2> QED BY <1>1, <2>1, <2>2
<1>3. ASSUME NEW m \in Makes, StartLine(m) \/ FreeChild(m) PROVE FALSE
  <2>1. /\ at[m].place \in {"start", "close"}
        /\ \/ at' = [at EXCEPT ![m] = Idle]
           \/ at' = [at EXCEPT ![m] = Busy("print", at[m].job, "print")]
           \/ at' = [at EXCEPT ![m] = Busy("dump", at[m].job, "print")]
      BY <1>3 DEF StartLine, FreeChild
  <2> QED BY <1>1, <2>1
<1>4. ASSUME NEW m \in Makes, OutputStart(m) \/ DumpEnter(m) \/ Acquire(m) \/ AcquireFails(m)
      PROVE  FALSE
  <2>1. /\ at[m].place \in {"print", "enter", "dump"}
        /\ \/ at' = [at EXCEPT ![m].place = "run"]
           \/ at' = [at EXCEPT ![m].place = "pump"]
           \/ at' = [at EXCEPT ![m].place = "traced"]
           \/ at' = [at EXCEPT ![m].place = "enter"]
      BY <1>4 DEF OutputStart, DumpEnter, Acquire, AcquireFails
  <2> QED BY <1>1, <2>1
<1>5. ASSUME NEW m \in Makes, DumpNothing(m) \/ DumpEnds(m) PROVE FALSE
  <2>1. at[m].place \in DumpPlaces /\ at' = [at EXCEPT ![m].place = at[m].then]
      BY <1>5 DEF DumpNothing, DumpEnds, Pumping, DumpPlaces
  <2> QED BY <1>1, <1>a, <2>1
<1>6. ASSUME NEW m \in Makes, Die(m) \/ FatalDies(m) PROVE FALSE
  <2>1. at[m].place \in {"idle", "fatal"}
        /\ at' = [at EXCEPT ![m] = Busy("gone", "none", "idle")]
      BY <1>6 DEF Die, FatalDies, Idle
  <2> QED BY <1>1, <2>1
<1>7. ASSUME at' = at PROVE FALSE
    BY <1>7 DEF Alive
<1>8. ASSUME NEW m \in Makes, RunLine(m) PROVE Recurses(at[m].job) /\ n = Subs[<<at[m].job, line[at[m].job]>>]
  <2>1. at[m].place = "run"
      BY <1>8 DEF RunLine
  <2>2. ASSUME ~Recurses(at[m].job) PROVE FALSE
      BY <1>1, <1>8, <2>1, <2>2 DEF RunLine
  <2>3. PICK s : s = Subs[<<at[m].job, line[at[m].job]>>]
      OBVIOUS
  <2>4. at' = [at EXCEPT ![m] = Idle,
                  ![s] = IF option = "recurse" \/ mutex_file THEN Idle
                         ELSE Busy("fatal", "none", "idle")]
      BY <1>8, <2>2, <2>3 DEF RunLine
  <2>5. n # m
      BY <2>1 DEF Alive
  <2>6. n = s
      BY <1>t, <2>4, <2>5 DEF Alive
  <2> QED BY <2>2, <2>3, <2>6
<1>9. ASSUME NEW m \in Makes, Pump(m) \/ SetupFails(m) PROVE FALSE
    BY <1>7, <1>9 DEF Pump, SetupFails
<1>10. ASSUME NEW j \in Jobs, CommandWrites(j) \/ CommandEnds(j) PROVE FALSE
    BY <1>7, <1>10 DEF CommandWrites, CommandEnds
<1>11. CASE UNCHANGED vars
    BY <1>7, <1>11 DEF vars
<1> QED BY <1>2, <1>3, <1>4, <1>5, <1>6, <1>8, <1>9, <1>10, <1>11 DEF Next, MakeStep

\* A line that started a make runs as long as the make lives.
LEMMA StartedStep ==
    ASSUME TypeInv, Turns, Family, [Next]_vars,
           NEW n \in Makes, NEW i \in Started(n), Alive(n)'
    PROVE  i \in Started(n)'
<1>1. i \in Jobs /\ state[i] = "running" /\ Recurses(i) /\ Subs[<<i, line[i]>>] = n
    BY DEF Started
<1>2. ~Moves(Owner[i], i)
    BY <1>1, JobsAssumption DEF Moves, NewJob, Reap, Turns, TurnOK
<1>3. Same(i)
    BY <1>1, <1>2, EachJob
<1>4. line'[i] = line[i] /\ (state'[i] = "running" \/ ~Alive(Subs[<<i, line[i]>>])')
    BY <1>1, <1>3 DEF Same
<1>5. Subs[<<i, line[i]>>]' = n
    BY <1>1, <1>4
<1>6. state'[i] = "running"
    BY <1>4, <1>5 DEF Alive
<1> QED BY <1>4, <1>6, StartedKept
--------------------------------------------------------------------------------
(* While nothing fails *)

\* A step after which nothing has failed is not itself a failure, and follows none.
LEMMA CalmNext ==
    ASSUME TypeInv, [Next]_vars, failures' = 0
    PROVE  /\ failures = 0
           /\ \A m \in Makes : ~AcquireFails(m) /\ ~SetupFails(m)
<1>1. failures \in Nat
    BY DEF TypeInv
<1>2. ASSUME NEW m \in Makes, AcquireFails(m) \/ SetupFails(m) PROVE FALSE
  <2>1. failures' = failures + 1
      BY <1>2 DEF AcquireFails, SetupFails
  <2> QED BY <1>1, <2>1
<1>3. ASSUME NEW m \in Makes, NEW j \in Jobs, NewJob(m, j) \/ Reap(m, j) PROVE failures' = failures
    BY <1>3 DEF NewJob, Reap
<1>4. ASSUME NEW m \in Makes, StartLine(m) \/ OutputStart(m) \/ RunLine(m) \/ FreeChild(m)
      PROVE  failures' = failures
    BY <1>4 DEF StartLine, OutputStart, RunLine, FreeChild
<1>5. ASSUME NEW m \in Makes, DumpNothing(m) \/ DumpEnter(m) \/ Pump(m) \/ DumpEnds(m)
      PROVE  failures' = failures
    BY <1>5 DEF DumpNothing, DumpEnter, Pump, DumpEnds
<1>6. ASSUME NEW m \in Makes, Die(m) \/ FatalDies(m) \/ Acquire(m) PROVE failures' = failures
    BY <1>6 DEF Die, FatalDies, Acquire
<1>7. ASSUME NEW j \in Jobs, CommandWrites(j) \/ CommandEnds(j) PROVE failures' = failures
    BY <1>7 DEF CommandWrites, CommandEnds
<1>8. CASE UNCHANGED vars
    BY <1>2, <1>8 DEF vars
<1> QED BY <1>2, <1>3, <1>4, <1>5, <1>6, <1>7, <1>8 DEF Next, MakeStep

\* What becomes of the mutex: a make that goes on keeps it, and the root removes the
\* file when it dies.
LEMMA MutexStep ==
    ASSUME TypeInv, Turns, Family, [Next]_vars, failures' = 0
    PROVE  /\ output_sync' = output_sync /\ option' = option
           /\ mutex_file' = mutex_file \/ ~Alive(Root)'
           /\ \A n \in Makes : Alive(n) /\ Alive(n)' =>
                 /\ osync_handle'[n] = osync_handle[n]
                 /\ at'[n].place = "fatal" => at[n].place = "fatal"
<1> USE DEF given, syncVars, jobVars, tmpVars
<1>t. at \in [Makes -> Turn] /\ osync_handle \in [Makes -> BOOLEAN]
    BY DEF TypeInv
<1>s. ASSUME option' = option, output_sync' = output_sync, mutex_file' = mutex_file,
             osync_handle' = osync_handle,
             \A n \in Makes : at'[n].place = "fatal" => at[n].place = "fatal"
      PROVE  /\ output_sync' = output_sync /\ option' = option
             /\ mutex_file' = mutex_file \/ ~Alive(Root)'
             /\ \A n \in Makes : Alive(n) /\ Alive(n)' =>
                   /\ osync_handle'[n] = osync_handle[n]
                   /\ at'[n].place = "fatal" => at[n].place = "fatal"
    BY <1>s
<1>1. ASSUME NEW m \in Makes, NEW i \in Jobs, NewJob(m, i) \/ Reap(m, i)
      PROVE  \A n \in Makes : at'[n].place = "fatal" => at[n].place = "fatal"
  <2>1. \/ at' = [at EXCEPT ![m] = Busy("start", i, "idle")]
        \/ at' = [at EXCEPT ![m] = Busy("start", i, "start")]
        \/ at' = [at EXCEPT ![m] = Busy("dump", i, "start")]
        \/ at' = [at EXCEPT ![m] = Busy("dump", i, "close")]
      BY <1>1 DEF NewJob, Reap
  <2> QED BY <1>t, <2>1 DEF Busy
<1>2. ASSUME NEW m \in Makes, StartLine(m) \/ FreeChild(m)
      PROVE  \A n \in Makes : at'[n].place = "fatal" => at[n].place = "fatal"
  <2>1. \/ at' = [at EXCEPT ![m] = Idle]
        \/ at' = [at EXCEPT ![m] = Busy("print", at[m].job, "print")]
        \/ at' = [at EXCEPT ![m] = Busy("dump", at[m].job, "print")]
      BY <1>2 DEF StartLine, FreeChild
  <2> QED BY <1>t, <2>1 DEF Busy, Idle
<1>3. ASSUME NEW m \in Makes, OutputStart(m) \/ DumpEnter(m) \/ Acquire(m)
      PROVE  \A n \in Makes : at'[n].place = "fatal" => at[n].place = "fatal"
  <2>1. \/ at' = [at EXCEPT ![m].place = "run"]
        \/ at' = [at EXCEPT ![m].place = "pump"]
        \/ at' = [at EXCEPT ![m].place = "traced"]
        \/ at' = [at EXCEPT ![m].place = "enter"]
      BY <1>3 DEF OutputStart, DumpEnter, Acquire
  <2> QED BY <1>t, <2>1 DEF Turn
<1>4. ASSUME NEW m \in Makes, DumpNothing(m) \/ DumpEnds(m)
      PROVE  \A n \in Makes : at'[n].place = "fatal" => at[n].place = "fatal"
  <2>1. at[m].place \in DumpPlaces /\ at' = [at EXCEPT ![m].place = at[m].then]
      BY <1>4 DEF DumpNothing, DumpEnds, Pumping, DumpPlaces
  <2>2. at[m].then # "fatal"
      BY <2>1 DEF Turns, TurnOK
  <2> QED BY <1>t, <2>1, <2>2 DEF Turn
<1>5. ASSUME NEW m \in Makes, NEW i \in Jobs, NewJob(m, i) \/ Reap(m, i)
      PROVE  UNCHANGED <<option, output_sync, mutex_file, osync_handle>>
    BY <1>5 DEF NewJob, Reap
<1>6. ASSUME NEW m \in Makes, StartLine(m) \/ FreeChild(m) \/ OutputStart(m) \/ DumpEnter(m)
                                \/ Acquire(m) \/ DumpNothing(m) \/ DumpEnds(m)
      PROVE  UNCHANGED <<option, output_sync, mutex_file, osync_handle>>
    BY <1>6 DEF StartLine, FreeChild, OutputStart, DumpEnter, Acquire, DumpNothing, DumpEnds
<1>7. ASSUME NEW m \in Makes, Die(m) \/ FatalDies(m)
      PROVE  /\ option' = option /\ output_sync' = output_sync
             /\ mutex_file' = mutex_file \/ ~Alive(Root)'
             /\ \A n \in Makes : Alive(n)' =>
                   /\ osync_handle'[n] = osync_handle[n] /\ at'[n] = at[n]
  <2>1. at' = [at EXCEPT ![m] = Busy("gone", "none", "idle")]
      BY <1>7 DEF Die, FatalDies
  <2>2. ~Alive(m)' /\ \A n \in Makes \ {m} : at'[n] = at[n]
      BY <1>t, <2>1 DEF Busy, Alive
  <2>3. CASE Die(m)
    <3>1. /\ option' = option /\ output_sync' = output_sync
          /\ osync_handle' = [osync_handle EXCEPT ![m] = FALSE]
          /\ mutex_file' = (mutex_file /\ m # Root)
        BY <2>3 DEF Die, OsyncClear
    <3>2. CASE m = Root
        BY <1>t, <2>2, <3>1, <3>2
    <3>3. CASE m # Root
      <4>1. mutex_file' = mutex_file
          BY <3>1, <3>3 DEF TypeInv
      <4> QED BY <1>t, <2>2, <3>1, <4>1
    <3> QED BY <3>2, <3>3
  <2>4. CASE FatalDies(m)
      BY <2>2, <2>4 DEF FatalDies
  <2> QED BY <1>7, <2>3, <2>4
<1>8. ASSUME NEW m \in Makes, RunLine(m)
      PROVE  /\ option' = option /\ output_sync' = output_sync /\ mutex_file' = mutex_file
             /\ \A n \in Makes : Alive(n) =>
                   /\ osync_handle'[n] = osync_handle[n]
                   /\ at'[n].place = "fatal" => at[n].place = "fatal"
  <2>1. PICK j : j = at[m].job
      OBVIOUS
  <2>2. /\ option' = option /\ output_sync' = output_sync /\ mutex_file' = mutex_file
        /\ at[m].place = "run"
      BY <1>8 DEF RunLine
  <2>3. j \in Jobs /\ Owner[j] = m /\ state[j] # "running"
      BY <2>1, <2>2 DEF Turns, TurnOK, JobPlaces, JobsOf
  <2>4. CASE Recurses(j)
    <3>1. PICK s : s = Subs[<<j, line[j]>>]
        OBVIOUS
    <3>2. s \in Makes \ {Root} /\ ~Alive(s)
        BY <2>3, <2>4, <3>1, RecurseType, NotAlive
    <3>3. /\ at' = [at EXCEPT ![m] = Idle,
                     ![s] = IF option = "recurse" \/ mutex_file THEN Idle
                            ELSE Busy("fatal", "none", "idle")]
          /\ osync_handle' = [osync_handle EXCEPT ![s] = option # "recurse" /\ mutex_file]
        BY <1>8, <2>1, <2>4, <3>1 DEF RunLine
    <3>4. \A n \in Makes \ {s} : osync_handle'[n] = osync_handle[n]
        BY <1>t, <3>2, <3>3
    <3>5. \A n \in Makes \ {s} : at'[n] = at[n] \/ at'[n] = Idle
        BY <1>t, <3>2, <3>3
    <3> QED BY <2>2, <3>2, <3>4, <3>5 DEF Idle
  <2>5. CASE ~Recurses(j)
    <3>1. at' = [at EXCEPT ![m] = Idle] /\ osync_handle' = osync_handle
        BY <1>8, <2>1, <2>5 DEF RunLine
    <3> QED BY <1>t, <2>2, <3>1 DEF Idle
  <2> QED BY <2>4, <2>5
<1>9. ASSUME NEW m \in Makes, Pump(m)
      PROVE  UNCHANGED <<option, output_sync, mutex_file, osync_handle, at>>
    BY <1>9 DEF Pump
<1>10. ASSUME NEW j \in Jobs, CommandWrites(j) \/ CommandEnds(j)
       PROVE  UNCHANGED <<option, output_sync, mutex_file, osync_handle, at>>
    BY <1>10 DEF CommandWrites, CommandEnds
<1>11. CASE UNCHANGED vars
    BY <1>11, <1>s DEF vars
<1> QED BY <1>s, <1>1, <1>2, <1>3, <1>4, <1>5, <1>6, <1>7, <1>8, <1>9, <1>10, <1>11, CalmNext
       DEF Next, MakeStep

\* Synchronises is kept: a make that is started finds the mutex by name.
LEMMA SynchronisesStep ==
    ASSUME TypeInv, TypeInv', Turns, Family, Family', [Next]_vars, failures' = 0, Synchronises
    PROVE  Synchronises'
<1>1. /\ output_sync' = output_sync /\ option' = option
      /\ mutex_file' = mutex_file \/ ~Alive(Root)'
      /\ \A n \in Makes : Alive(n) /\ Alive(n)' =>
            /\ osync_handle'[n] = osync_handle[n]
            /\ at'[n].place = "fatal" => at[n].place = "fatal"
    BY MutexStep
<1>2. ASSUME option # "recurse", Alive(Root)' PROVE mutex_file'
  <2>1. Alive(Root)
    <3>1. SUFFICES ASSUME ~Alive(Root) PROVE FALSE
        OBVIOUS
    <3>2. PICK m \in Makes : RunLine(m)
        BY <1>2, <3>1, AliveStep, MakesAssumption
    <3>3. Alive(m)
        BY <3>2 DEF RunLine, Alive
    <3> QED BY <3>1, <3>3 DEF Family
  <2> QED BY <1>1, <1>2, <2>1 DEF Synchronises
<1>3. ASSUME option # "recurse", NEW n \in Makes, Alive(n)'
      PROVE  osync_handle'[n] /\ at'[n].place # "fatal"
  <2>1. CASE Alive(n)
      BY <1>1, <1>3, <2>1 DEF Synchronises
  <2>2. CASE ~Alive(n)
    <3>1. PICK m \in Makes : /\ RunLine(m) /\ Recurses(at[m].job)
                             /\ n = Subs[<<at[m].job, line[at[m].job]>>]
        BY <1>3, <2>2, AliveStep
    <3>2. /\ at' = [at EXCEPT ![m] = Idle,
                     ![n] = IF option = "recurse" \/ mutex_file THEN Idle
                            ELSE Busy("fatal", "none", "idle")]
          /\ osync_handle' = [osync_handle EXCEPT ![n] = option # "recurse" /\ mutex_file]
        BY <3>1 DEF RunLine
    <3>3. Alive(m)
        BY <3>1 DEF RunLine, Alive
    <3>4. mutex_file
        BY <1>3, <3>3 DEF Family, Synchronises
    <3>5. n # m
        BY <2>2, <3>3
    <3>6. at'[n] = Idle /\ osync_handle'[n]
        BY <1>3, <3>2, <3>4, <3>5 DEF TypeInv
    <3> QED BY <3>6 DEF Idle
  <2> QED BY <2>1, <2>2
<1> QED BY <1>1, <1>2, <1>3 DEF Synchronises

\* Sinks is kept: a make is given the standard output of the line that starts it.
LEMMA SinksStep ==
    ASSUME TypeInv, TypeInv', Turns, Family, [Next]_vars, failures' = 0, Diverts, Sinks
    PROVE  Sinks'
<1> USE DEF given
<1>1. option' = option
    BY MutexStep
<1>2. ASSUME NEW n \in Makes, Alive(n), Alive(n)', NEW i \in Started(n) PROVE i \in Started(n)'
    BY <1>2, StartedStep
<1>3. ASSUME out' = out, \A n \in Makes : Alive(n)' => Alive(n) PROVE Sinks'
    BY <1>1, <1>2, <1>3 DEF Sinks
<1>4. ASSUME NEW m \in Makes, RunLine(m), Recurses(at[m].job) PROVE Sinks'
  <2>1. PICK j : j = at[m].job
      OBVIOUS
  <2>2. /\ j \in Jobs /\ Owner[j] = m /\ Here(j, {"print", "run"}) /\ state[j] # "running"
        /\ Alive(m) /\ m \in Makes
      BY <1>4, <2>1 DEF RunLine, Turns, TurnOK, JobPlaces, JobsOf, Here, Alive
  <2>3. PICK s : s = Subs[<<j, line[j]>>]
      OBVIOUS
  <2>4. s \in Makes \ {Root} /\ ~Alive(s)
      BY <1>4, <2>1, <2>2, <2>3, RecurseType, NotAlive
  <2>5. out' = [out EXCEPT ![s] = CommandOut(j)]
      BY <1>4, <2>1, <2>3 DEF RunLine
  <2>6. out'[s] = CommandOut(j) /\ \A n \in Makes \ {s} : out'[n] = out[n]
      BY <2>4, <2>5 DEF TypeInv
  <2>7. diverted[j] <=> option = "recurse"
      BY <1>4, <2>1, <2>2 DEF Diverts
  <2>8. CASE option # "recurse"
    <3>1. out'[s] = "stdout"
        BY <2>2, <2>6, <2>7, <2>8 DEF CommandOut, Sinks
    <3> QED BY <1>1, <2>4, <2>6, <2>8, <3>1, MakesAssumption DEF Sinks
  <2>9. CASE option = "recurse"
    <3>1. out'[s] = j
        BY <2>6, <2>7, <2>9 DEF CommandOut
    <3>2. state'[j] = "running" /\ line' = line
        BY <1>4, <2>1, <2>2 DEF RunLine, TypeInv
    <3>3. j \in Started(s)'
        BY <1>4, <2>1, <2>2, <2>3, <3>2 DEF Started, Recurses
    <3>4. ASSUME NEW n \in Makes \ {Root}, Alive(n)', n # s PROVE out'[n] \in Started(n)'
      <4>1. Alive(n)
        <5>1. SUFFICES ASSUME ~Alive(n) PROVE FALSE
            OBVIOUS
        <5>2. n # m
            BY <2>2, <5>1
        <5>3. at' = [at EXCEPT ![m] = Idle,
                        ![s] = IF option = "recurse" \/ mutex_file THEN Idle
                               ELSE Busy("fatal", "none", "idle")]
            BY <1>4, <2>1, <2>3 DEF RunLine
        <5>4. at'[n] = at[n]
            BY <3>4, <5>2, <5>3 DEF TypeInv
        <5> QED BY <3>4, <5>1, <5>4 DEF Alive
      <4>2. out[n] \in Started(n)
          BY <2>9, <4>1 DEF Sinks
      <4> QED BY <1>2, <2>6, <3>4, <4>1, <4>2
    <3>5. out'[Root] = "stdout"
        BY <2>4, <2>6, MakesAssumption DEF Sinks
    <3> QED BY <1>1, <2>4, <2>9, <3>1, <3>3, <3>4, <3>5 DEF Sinks
  <2> QED BY <2>8, <2>9
<1>5. ASSUME NEW n \in Makes, Alive(n)', ~Alive(n)
      PROVE  \E m \in Makes : RunLine(m) /\ Recurses(at[m].job)
    BY <1>5, AliveStep
<1>6. CASE \E m \in Makes : RunLine(m) /\ Recurses(at[m].job)
    BY <1>4, <1>6
<1>7. CASE ~ \E m \in Makes : RunLine(m) /\ Recurses(at[m].job)
  <2>1. \A n \in Makes : Alive(n)' => Alive(n)
      BY <1>5, <1>7
  <2>2. out' = out
    <3>1. ASSUME NEW m \in Makes, NEW j \in Jobs, NewJob(m, j) \/ Reap(m, j) PROVE out' = out
        BY <3>1 DEF NewJob, Reap
    <3>2. ASSUME NEW m \in Makes, StartLine(m) \/ OutputStart(m) \/ FreeChild(m) PROVE out' = out
        BY <3>2 DEF StartLine, OutputStart, FreeChild
    <3>3. ASSUME NEW m \in Makes, RunLine(m) PROVE out' = out
        BY <1>7, <3>3 DEF RunLine
    <3>4. ASSUME NEW m \in Makes, DumpNothing(m) \/ DumpEnter(m) \/ Pump(m) \/ DumpEnds(m)
          PROVE  out' = out
        BY <3>4 DEF DumpNothing, DumpEnter, Pump, DumpEnds
    <3>5. ASSUME NEW m \in Makes, Die(m) \/ FatalDies(m) \/ Acquire(m) PROVE out' = out
        BY <3>5 DEF Die, FatalDies, Acquire
    <3>6. ASSUME NEW j \in Jobs, CommandWrites(j) \/ CommandEnds(j) PROVE out' = out
        BY <3>6 DEF CommandWrites, CommandEnds
    <3>7. CASE UNCHANGED vars
        BY <3>7 DEF vars
    <3> QED BY <3>1, <3>2, <3>3, <3>4, <3>5, <3>6, <3>7, CalmNext DEF Next, MakeStep
  <2> QED BY <1>3, <2>1, <2>2
<1> QED BY <1>6, <1>7
--------------------------------------------------------------------------------
(* The stages of a job *)

Kept(j) == state'[j] = state[j] /\ line'[j] = line[j] /\ diverted'[j] = diverted[j]

\* Nothing has failed, and the make of j moves on with j.
Stage(j) ==
    LET m == Owner[j] IN
    \/ /\ at[m] = Idle /\ state[j] = "waiting" /\ Kept(j)
       /\ at'[m] = Busy("start", j, "idle")
    \/ /\ at[m] = Idle /\ state[j] = "dead" /\ state'[j] = "dead" /\ line'[j] = line[j] + 1
       /\ \/ option = "line" /\ at'[m] = Busy("dump", j, "start")
          \/ option # "line" /\ at'[m] = Busy("start", j, "start")
    \/ /\ at[m] = Idle /\ state[j] = "dead" /\ Kept(j)
       /\ at'[m] = Busy("dump", j, "close")
    \/ /\ Here(j, {"start"}) /\ state'[j] = state[j] /\ line'[j] = line[j]
       /\ diverted'[j] <=> option = "recurse" \/ ~Recurses(j)
       /\ \/ diverted'[j] /\ at'[m] = Busy("print", j, "print")
          \/ ~diverted'[j] /\ at'[m] = Busy("dump", j, "print")
    \/ /\ Here(j, {"print"}) /\ Kept(j)
       /\ at'[m].place = "run" /\ at'[m].job = j
    \/ /\ Here(j, {"run"}) /\ state'[j] = "running" /\ line'[j] = line[j]
       /\ diverted'[j] = diverted[j] /\ at'[m] = Idle
    \/ /\ Here(j, {"close"}) /\ state'[j] = "done" /\ line'[j] = line[j]
       /\ at'[m] = Idle
    \/ /\ Here(j, {"dump", "enter"}) /\ Kept(j)
       /\ at'[m].place \in LockPlaces /\ at'[m].job = j /\ at'[m].then = at[m].then
    \/ /\ Here(j, DumpPlaces) /\ Kept(j) /\ tmp'[j] = <<>>
       /\ at'[m].place = at[m].then /\ at'[m].job = j

\* A step that is about j takes j to its next stage.
LEMMA StageStep ==
    ASSUME TypeInv, Turns, Family, Synchronises, [Next]_vars, failures' = 0, NEW j \in Jobs
    PROVE  Same(j) \/ Stage(j)
<1> USE DEF given, syncVars, jobVars, tmpVars
<1>m. PICK m \in Makes : m = Owner[j]
    BY JobsAssumption
<1>t. /\ at \in [Makes -> Turn] /\ state \in [Jobs -> {"waiting", "running", "dead", "done"}]
      /\ line \in [Jobs -> Nat] /\ diverted \in [Jobs -> BOOLEAN]
    BY DEF TypeInv
<1>o. output_sync[m] = option /\ option # "none"
    BY ModesAssumption DEF TypeInv, Synchronises
<1>h. \A P : Here(j, P) <=> at[m].job = j /\ at[m].place \in P
    BY <1>m DEF Here
<1>1. CASE NewJob(m, j)
  <2>1. /\ at[m] = Idle /\ state[j] = "waiting" /\ at' = [at EXCEPT ![m] = Busy("start", j, "idle")]
        /\ state' = state /\ line' = line /\ diverted' = diverted
      BY <1>1 DEF NewJob
  <2>2. at'[m] = Busy("start", j, "idle")
      BY <1>t, <2>1
  <2> QED BY <1>m, <2>1, <2>2 DEF Stage, Kept
<1>2. CASE Reap(m, j)
  <2>1. at[m] = Idle /\ state[j] = "dead" /\ state' = state /\ diverted' = diverted
      BY <1>2 DEF Reap
  <2>2. CASE line[j] < Lines[j]
    <3>1. /\ line' = [line EXCEPT ![j] = @ + 1]
          /\ at' = [at EXCEPT ![m] = IF output_sync[m] = "line" THEN Busy("dump", j, "start")
                                                                ELSE Busy("start", j, "start")]
        BY <1>2, <2>2 DEF Reap
    <3>2. /\ line'[j] = line[j] + 1
          /\ \/ option = "line" /\ at'[m] = Busy("dump", j, "start")
             \/ option # "line" /\ at'[m] = Busy("start", j, "start")
        BY <1>t, <1>o, <3>1
    <3> QED BY <1>m, <2>1, <3>2 DEF Stage
  <2>3. CASE ~(line[j] < Lines[j])
    <3>1. line' = line /\ at' = [at EXCEPT ![m] = Busy("dump", j, "close")]
        BY <1>2, <2>3 DEF Reap
    <3>2. at'[m] = Busy("dump", j, "close")
        BY <1>t, <3>1
    <3> QED BY <1>m, <2>1, <3>1, <3>2 DEF Stage, Kept
  <2> QED BY <2>2, <2>3
<1>3. CASE StartLine(m) /\ at[m].job = j
  <2>1. /\ at[m].place = "start" /\ state' = state /\ line' = line
        /\ diverted' = [diverted EXCEPT ![j] = Synced(m, j)]
        /\ at' = [at EXCEPT ![m] = IF Synced(m, j) THEN Busy("print", j, "print")
                                                   ELSE Busy("dump", j, "print")]
      BY <1>3 DEF StartLine
  <2>2. Synced(m, j) <=> option = "recurse" \/ ~Recurses(j)
      BY <1>o DEF Synced
  <2>3. diverted'[j] = Synced(m, j)
      BY <1>t, <2>1
  <2>4. at'[m] = IF Synced(m, j) THEN Busy("print", j, "print") ELSE Busy("dump", j, "print")
      BY <1>t, <2>1
  <2> QED BY <1>m, <1>h, <1>3, <2>1, <2>2, <2>3, <2>4 DEF Stage
<1>4. CASE OutputStart(m) /\ at[m].job = j
  <2>1. /\ at[m].place = "print" /\ state' = state /\ line' = line /\ diverted' = diverted
        /\ at' = [at EXCEPT ![m].place = "run"]
      BY <1>4 DEF OutputStart
  <2>2. at'[m].place = "run" /\ at'[m].job = j
      BY <1>t, <1>4, <2>1 DEF Turn
  <2> QED BY <1>m, <1>h, <1>4, <2>1, <2>2 DEF Stage, Kept
<1>5. CASE RunLine(m) /\ at[m].job = j
  <2>1. /\ at[m].place = "run" /\ state' = [state EXCEPT ![j] = "running"] /\ line' = line
        /\ diverted' = diverted
      BY <1>5 DEF RunLine
  <2>2. state'[j] = "running"
      BY <1>t, <2>1
  <2>3. at'[m] = Idle
    <3>1. CASE ~Recurses(j)
      <4>1. at' = [at EXCEPT ![m] = Idle]
          BY <1>5, <3>1 DEF RunLine
      <4> QED BY <1>t, <4>1
    <3>2. CASE Recurses(j)
      <4>1. PICK s : s = Subs[<<j, line[j]>>]
          OBVIOUS
      <4>2. at' = [at EXCEPT ![m] = Idle,
                      ![s] = IF option = "recurse" \/ mutex_file THEN Idle
                             ELSE Busy("fatal", "none", "idle")]
          BY <1>5, <3>2, <4>1 DEF RunLine
      <4>3. state[j] # "running"
          BY <1>5, <2>1 DEF Turns, TurnOK, JobPlaces
      <4>4. s # m
          BY <2>1, <3>2, <4>1, <4>3, NotAlive DEF Alive
      <4> QED BY <1>t, <4>2, <4>4
    <3> QED BY <3>1, <3>2
  <2> QED BY <1>m, <1>h, <1>5, <2>1, <2>2, <2>3 DEF Stage
<1>6. CASE FreeChild(m) /\ at[m].job = j
  <2>1. /\ at[m].place = "close" /\ state' = [state EXCEPT ![j] = "done"] /\ line' = line
        /\ at' = [at EXCEPT ![m] = Idle]
      BY <1>6 DEF FreeChild
  <2>2. state'[j] = "done" /\ at'[m] = Idle
      BY <1>t, <2>1
  <2> QED BY <1>m, <1>h, <1>6, <2>1, <2>2 DEF Stage
<1>7. CASE (Acquire(m) \/ DumpEnter(m)) /\ at[m].job = j
  <2>1. /\ at[m].place \in {"dump", "enter"} /\ state' = state /\ line' = line /\ diverted' = diverted
        /\ \E p \in LockPlaces : at' = [at EXCEPT ![m].place = p]
    <3>1. CASE Acquire(m)
        BY <3>1 DEF Acquire, LockPlaces
    <3>2. CASE DumpEnter(m)
      <4>1. at' = [at EXCEPT ![m].place = "pump"] \/ at' = [at EXCEPT ![m].place = "traced"]
          BY <3>2 DEF DumpEnter
      <4>2. "pump" \in LockPlaces /\ "traced" \in LockPlaces
          BY DEF LockPlaces
      <4> QED BY <3>2, <4>1, <4>2 DEF DumpEnter
    <3> QED BY <1>7, <3>1, <3>2
  <2>2. at'[m].place \in LockPlaces /\ at'[m].job = j /\ at'[m].then = at[m].then
      BY <1>t, <1>7, <2>1 DEF Turn
  <2> QED BY <1>m, <1>h, <1>7, <2>1, <2>2 DEF Stage, Kept
<1>8. CASE (DumpNothing(m) \/ DumpEnds(m)) /\ at[m].job = j
  <2>1. /\ at[m].place \in DumpPlaces /\ state' = state /\ line' = line /\ diverted' = diverted
        /\ at' = [at EXCEPT ![m].place = at[m].then] /\ tmp'[j] = <<>>
    <3>1. CASE DumpNothing(m)
        BY <1>8, <3>1 DEF DumpNothing, DumpPlaces
    <3>2. CASE DumpEnds(m)
      <4>1. /\ at[m].place \in DumpPlaces /\ state' = state /\ line' = line /\ diverted' = diverted
            /\ at' = [at EXCEPT ![m].place = at[m].then]
          BY <3>2 DEF DumpEnds, Pumping, DumpPlaces
      <4>2. tmp'[j] = <<>>
          BY <1>8, <3>2 DEF DumpEnds
      <4> QED BY <4>1, <4>2
    <3> QED BY <1>8, <3>1, <3>2
  <2>2. at'[m].place = at[m].then /\ at'[m].job = j
      BY <1>t, <1>8, <2>1 DEF Turn
  <2> QED BY <1>m, <1>h, <1>8, <2>1, <2>2 DEF Stage, Kept
<1>9. ~AcquireFails(m) /\ ~SetupFails(m)
    BY CalmNext
<1>10. Same(j) \/ Moves(m, j)
    BY <1>m, EachJob
<1> QED BY <1>1, <1>2, <1>3, <1>4, <1>5, <1>6, <1>7, <1>8, <1>9, <1>10 DEF Moves

\* Diverts is kept.
LEMMA DivertsStep ==
    ASSUME TypeInv, Turns, Family, Synchronises, [Next]_vars, failures' = 0, Diverts
    PROVE  Diverts'
<1>1. option' = option
    BY MutexStep
<1>2. ASSUME NEW j \in Jobs
      PROVE  /\ (state[j] = "running" \/ Here(j, {"print", "run"}) =>
                   (diverted[j] <=> option = "recurse" \/ ~Recurses(j)))'
             /\ (Dumping(j, "print") => option # "recurse" /\ ~diverted[j] /\ Recurses(j))'
             /\ (Dumping(j, "start") => option = "line")'
  <2>1. /\ state[j] = "running" \/ Here(j, {"print", "run"}) =>
              (diverted[j] <=> option = "recurse" \/ ~Recurses(j))
        /\ Dumping(j, "print") => option # "recurse" /\ ~diverted[j] /\ Recurses(j)
        /\ Dumping(j, "start") => option = "line"
      BY DEF Diverts
  <2>2. Owner[j] \in Makes /\ diverted[j] \in BOOLEAN
      BY JobsAssumption DEF TypeInv
  <2>3. CASE Same(j)
    <3>1. /\ Here(j, {"print", "run"})' <=> Here(j, {"print", "run"})
          /\ Dumping(j, "print")' <=> Dumping(j, "print")
          /\ Dumping(j, "start")' <=> Dumping(j, "start")
          /\ Recurses(j)' <=> Recurses(j)
        BY <2>3, SameStages
    <3>2. diverted'[j] = diverted[j] /\ (state'[j] = "running" => state[j] = "running")
        BY <2>3 DEF Same
    <3> QED BY <1>1, <2>1, <2>2, <3>1, <3>2
  <2>4. CASE Stage(j)
    <3>1. TurnOK(Owner[j])
        BY <2>2 DEF Turns
    <3>2. line'[j] = line[j] => (Recurses(j)' <=> Recurses(j))
        BY DEF Recurses
    <3>3. Here(j, JobPlaces) => state[j] # "running"
        BY <3>1 DEF TurnOK, Here
    <3>4. Here(j, DumpPlaces) => at[Owner[j]].then \in {"print", "start", "close"}
        BY <3>1 DEF TurnOK, Here
    <3>5. \A P \in SUBSET JobPlaces : Here(j, P) => Here(j, JobPlaces)
        BY DEF Here
    <3>6. DumpPlaces \subseteq JobPlaces /\ {"start"} \subseteq JobPlaces /\ {"print"} \subseteq JobPlaces
          /\ {"dump", "enter"} \subseteq JobPlaces
        BY DEF JobPlaces, DumpPlaces
    <3> QED BY <1>1, <2>1, <2>2, <2>4, <3>2, <3>3, <3>4, <3>5, <3>6, JobsAssumption
            DEF Stage, Kept, Here, Dumping, Busy, Idle, DumpPlaces, LockPlaces
  <2> QED BY <2>3, <2>4, StageStep
<1> QED BY <1>2 DEF Diverts
--------------------------------------------------------------------------------
(* What a step writes *)

\* No output that was kept back appears.
Silent ==
    /\ Len(stdout) <= Len(stdout') /\ \A n \in 1 .. Len(stdout) : stdout'[n] = stdout[n]
    /\ KeptBack' = KeptBack

\* A chunk of the file of i appears.
Pumped(i) ==
    /\ Here(i, PumpPlaces) /\ UNCHANGED <<at, state, line, tmp>>
    /\ \E c \in Entries(i) : ~Direct(c) /\ stdout' = Append(stdout, c)

\* A chunk c is written to the file of j, whose line runs.
Grows(j, c) ==
    /\ Entries(j)' = Entries(j) \cup {c} /\ c \in Output /\ IsChunk(c)
    /\ state'[j] = "running" /\ line'[j] = line[j]
    /\ c.job \in Below[j]
    /\ option # "recurse" => c.job = j /\ c.line = line[j] /\ ~Recurses(j)

\* What is appended to the standard output, if it was not kept back, changes nothing of
\* what was.
LEMMA SilentAppend ==
    ASSUME stdout \in Seq(Output), option' = option,
           NEW c \in Output, ~IsChunk(c) \/ Direct(c),
           stdout' = Append(stdout, c) \/ stdout' = stdout
    PROVE  Silent
<1>1. CASE stdout' = stdout
  <2>1. KeptBack' = KeptBack
      BY <1>1 DEF KeptBack, Direct
  <2> QED BY <1>1, <2>1 DEF Silent
<1>2. CASE stdout' = Append(stdout, c)
  <2>1. /\ Len(stdout) \in Nat /\ Len(stdout') = Len(stdout) + 1
        /\ \A n \in 1 .. Len(stdout) : stdout'[n] = stdout[n]
        /\ stdout'[Len(stdout) + 1] = c
      BY <1>2
  <2>2. ASSUME NEW n \in 1 .. Len(stdout')
        PROVE  n \in KeptBack' <=> n \in KeptBack
    <3>1. CASE n \in 1 .. Len(stdout)
        BY <2>1, <3>1 DEF KeptBack, Direct
    <3>2. CASE n = Len(stdout) + 1
        BY <2>1, <3>2 DEF KeptBack, Direct
    <3> QED BY <2>1, <2>2, <3>1, <3>2
  <2>3. KeptBack \subseteq 1 .. Len(stdout') /\ KeptBack' \subseteq 1 .. Len(stdout')
      BY <2>1 DEF KeptBack
  <2>4. KeptBack' = KeptBack
      BY <2>2, <2>3
  <2> QED BY <2>1, <2>4 DEF Silent
<1> QED BY <1>1, <1>2

\* What Put does to the standard output and to the file of a job.
LEMMA PutWrites ==
    ASSUME TypeInv, NEW sink \in Jobs \cup {"stdout"}, NEW c \in Output, Put(sink, c)
    PROVE  /\ IF sink = "stdout" THEN stdout' = Append(stdout, c) /\ tmp' = tmp
                                 ELSE stdout' = stdout
           /\ \A j \in Jobs : Entries(j)' = IF j = sink /\ IsChunk(c) THEN Entries(j) \cup {c}
                                                                     ELSE Entries(j)
<1>1. CASE sink = "stdout"
  <2>1. stdout' = Append(stdout, c) /\ tmp' = tmp
      BY <1>1 DEF Put
  <2>2. \A j \in Jobs : j # sink
      BY <1>1, JobsAssumption
  <2> QED BY <1>1, <2>1, <2>2 DEF Entries
<1>2. CASE sink # "stdout"
  <2>1. sink \in Jobs /\ stdout' = stdout /\ tmp' = [tmp EXCEPT ![sink] = Append(@, c)]
      BY <1>2 DEF Put
  <2>2. tmp \in [Jobs -> Seq(Output)]
      BY DEF TypeInv
  <2>3. tmp'[sink] = Append(tmp[sink], c) /\ \A j \in Jobs \ {sink} : tmp'[j] = tmp[j]
      BY <2>1, <2>2
  <2>4. Range(tmp'[sink]) = Range(tmp[sink]) \cup {c}
    <3>1. PICK s \in Seq(Output) : s = tmp[sink]
        BY <2>1, <2>2
    <3>2. /\ DOMAIN s = 1 .. Len(s) /\ DOMAIN Append(s, c) = 1 .. (Len(s) + 1) /\ Len(s) \in Nat
          /\ Append(s, c)[Len(s) + 1] = c /\ \A n \in 1 .. Len(s) : Append(s, c)[n] = s[n]
        BY <3>1
    <3>3. \A x \in Range(Append(s, c)) : x \in Range(s) \cup {c}
        BY <3>2 DEF Range
    <3>4. \A x \in Range(s) : x \in Range(Append(s, c))
        BY <3>2 DEF Range
    <3>5. c \in Range(Append(s, c))
        BY <3>2 DEF Range
    <3> QED BY <2>3, <3>1, <3>3, <3>4, <3>5
  <2>5. Entries(sink)' = IF IsChunk(c) THEN Entries(sink) \cup {c} ELSE Entries(sink)
      BY <2>4 DEF Entries
  <2>6. \A j \in Jobs \ {sink} : Entries(j)' = Entries(j)
      BY <2>3 DEF Entries
  <2> QED BY <1>2, <2>1, <2>5, <2>6
<1> QED BY <1>1, <1>2

\* A directory line is not one of the chunks that are kept back.
LEMMA PutDir ==
    ASSUME TypeInv, option' = option, NEW sink \in Jobs \cup {"stdout"}, NEW c \in Output,
           ~IsChunk(c), Put(sink, c)
    PROVE  Silent /\ \A j \in Jobs : Entries(j)' = Entries(j)
<1>1. stdout' = Append(stdout, c) \/ stdout' = stdout
    BY PutWrites
<1>2. Silent
    BY <1>1, SilentAppend DEF TypeInv
<1> QED BY <1>2, PutWrites

\* Where the command of a line writes: to the file of its job, or it starts a make that
\* is not synchronised.
LEMMA PutChunk ==
    ASSUME TypeInv, Diverts, Sinks, option' = option, NEW i \in Jobs, NEW k \in Int,
           state[i] = "running" \/ Here(i, {"print", "run"}),
           state'[i] = "running", line'[i] = line[i],
           Put(CommandOut(i), Chunk(i, line[i], k))
    PROVE  /\ Silent
           /\ \A j \in Jobs : Entries(j)' = Entries(j) \/ \E c \in Output : Grows(j, c)
<1>1. PICK c : c = Chunk(i, line[i], k)
    OBVIOUS
<1>2. /\ c \in Output /\ IsChunk(c) /\ c.job = i /\ c.line = line[i]
      /\ CommandOut(i) \in Jobs \cup {"stdout"}
  <2>1. line[i] \in Int
      BY DEF TypeInv
  <2> QED BY <1>1, <2>1, ChunkType, JobsAssumption DEF CommandOut, TypeInv
<1>3. diverted[i] <=> option = "recurse" \/ ~Recurses(i)
    BY DEF Diverts
<1>4. CASE diverted[i]
  <2>1. CommandOut(i) = i /\ i # "stdout"
      BY <1>4, JobsAssumption DEF CommandOut
  <2>2. /\ stdout' = stdout
        /\ \A j \in Jobs : Entries(j)' = IF j = i THEN Entries(j) \cup {c} ELSE Entries(j)
      BY <1>1, <1>2, <2>1, PutWrites
  <2>3. option # "recurse" => ~Recurses(i)
      BY <1>3, <1>4
  <2>4. Grows(i, c)
      BY <1>2, <2>2, <2>3, BelowSelf DEF Grows
  <2>5. Silent
    <3>1. KeptBack' = KeptBack
        BY <2>2 DEF KeptBack, Direct
    <3> QED BY <2>2, <3>1 DEF Silent, TypeInv
  <2> QED BY <1>2, <2>2, <2>4, <2>5
<1>5. CASE ~diverted[i]
  <2>1. option # "recurse" /\ Recurses(i)
      BY <1>3, <1>5
  <2>2. CommandOut(i) = "stdout"
      BY <1>5, <2>1, JobsAssumption DEF CommandOut, Sinks
  <2>3. Direct(c)
      BY <1>2, <2>1 DEF Direct, Recurses
  <2>4. stdout' = Append(stdout, c) /\ tmp' = tmp
      BY <1>1, <1>2, <2>2, PutWrites
  <2>5. Silent
      BY <1>2, <2>3, <2>4, SilentAppend DEF TypeInv
  <2> QED BY <2>4, <2>5 DEF Entries
<1> QED BY <1>4, <1>5

\* Every step is silent or pumps, and the file of a job stays, grows or is emptied.
Writes ==
    /\ Silent \/ \E i \in Top : Pumped(i)
    /\ \A j \in Jobs : \/ Entries(j)' = Entries(j)
                       \/ tmp'[j] = <<>> /\ ~Here(j, PumpPlaces)'
                       \/ \E c \in Output : Grows(j, c)

\* A step that writes nothing is one of Writes.
LEMMA QuietWrites ==
    ASSUME stdout' = stdout, tmp' = tmp, option' = option, TypeInv PROVE Writes
<1>1. KeptBack' = KeptBack
    BY DEF KeptBack, Direct
<1>2. Silent
    BY <1>1 DEF Silent, TypeInv
<1> QED BY <1>2 DEF Writes, Entries

\* pump_from_tmp writes a chunk of a job to the standard output of its make.
LEMMA PumpWrites ==
    ASSUME TypeInv, Turns, Family, Diverts, Sinks, Together, option' = option,
           NEW m \in Makes, Pump(m)
    PROVE  Writes
<1>1. PICK i : i = at[m].job
    OBVIOUS
<1>2. /\ at[m].place \in PumpPlaces /\ left[i] < Len(tmp[i])
      /\ Put(out[m], tmp[i][left[i] + 1])
      /\ UNCHANGED <<at, state, line, diverted>>
    BY <1>1 DEF Pump, Pumping, PumpPlaces
<1>3. i \in Jobs /\ Owner[i] = m /\ Here(i, PumpPlaces) /\ Alive(m)
    BY <1>1, <1>2 DEF Turns, TurnOK, JobPlaces, DumpPlaces, PumpPlaces, JobsOf, Here, Alive
<1>4. PICK c : c = tmp[i][left[i] + 1]
    OBVIOUS
<1>5. c \in Range(tmp[i]) /\ c \in Output
  <2>1. PICK s \in Seq(Output) : s = tmp[i]
      BY <1>3 DEF TypeInv
  <2>2. left[i] \in Nat
      BY <1>3 DEF TypeInv
  <2>3. left[i] + 1 \in 1 .. Len(s) /\ Len(s) \in Nat /\ DOMAIN s = 1 .. Len(s)
      BY <1>2, <2>1, <2>2
  <2>4. s[left[i] + 1] \in Output
      BY <2>3
  <2> QED BY <1>4, <2>1, <2>3, <2>4 DEF Range
<1>6. out[m] \in Jobs \cup {"stdout"}
    BY DEF TypeInv
<1>7. CASE ~IsChunk(c)
    BY <1>2, <1>4, <1>5, <1>6, <1>7, PutDir DEF Writes
<1>8. CASE IsChunk(c)
  <2>1. c \in Entries(i)
      BY <1>5, <1>8 DEF Entries
  <2>2. ~Direct(c) /\ (option = "recurse" => c.job \in Below[i])
      BY <1>3, <2>1 DEF Together, Direct
  <2>3. CASE out[m] = "stdout"
    <3>1. stdout' = Append(stdout, c) /\ tmp' = tmp
        BY <1>2, <1>4, <1>5, <1>6, <2>3, PutWrites
    <3>2. i \in Top
      <4>1. option = "recurse" => m = Root
          BY <1>3, <2>3, JobsAssumption DEF Sinks, Started
      <4> QED BY <1>3, <4>1 DEF Top, JobsOf
    <3>3. Pumped(i)
        BY <1>2, <1>3, <2>1, <2>2, <3>1 DEF Pumped
    <3>4. \A j \in Jobs : Entries(j)' = Entries(j)
        BY <3>1 DEF Entries
    <3> QED BY <3>2, <3>3, <3>4 DEF Writes
  <2>4. CASE out[m] # "stdout"
    <3>1. PICK t \in Jobs : t = out[m]
        BY <1>6, <2>4
    <3>2. /\ option = "recurse" /\ m # Root /\ t \in Started(m)
        BY <1>3, <2>4, <3>1 DEF Sinks
    <3>3. state[t] = "running" /\ <<t, line[t]>> \in DOMAIN Subs /\ Subs[<<t, line[t]>>] = m
        BY <3>2 DEF Started, Recurses
    <3>4. i \in Below[t]
      <4>1. i \in JobsOf(Subs[<<t, line[t]>>])
          BY <1>3, <3>3 DEF JobsOf
      <4>2. PICK p \in DOMAIN Subs : p = <<t, line[t]>>
          BY <3>3
      <4>3. p[1] = t
          BY <4>2
      <4> QED BY <4>1, <4>2, <4>3, BelowSelf, BelowClosed
    <3>5. c.job \in Below[t]
        BY <2>2, <3>2, <3>4, BelowTransitive
    <3>6. /\ stdout' = stdout
          /\ \A j \in Jobs : Entries(j)' = IF j = t THEN Entries(j) \cup {c} ELSE Entries(j)
        BY <1>2, <1>4, <1>5, <1>6, <1>8, <2>4, <3>1, PutWrites
    <3>7. Grows(t, c)
        BY <1>2, <1>5, <1>8, <3>2, <3>3, <3>5, <3>6 DEF Grows
    <3>8. KeptBack' = KeptBack
        BY <3>6 DEF KeptBack, Direct
    <3>9. Silent
        BY <3>6, <3>8 DEF Silent, TypeInv
    <3> QED BY <1>5, <3>6, <3>7, <3>9 DEF Writes
  <2> QED BY <2>3, <2>4
<1> QED BY <1>7, <1>8

\* The end of output_dump empties the file and may say that it leaves the directory.
LEMMA DumpEndsWrites ==
    ASSUME TypeInv, Turns, option' = option, NEW m \in Makes, DumpEnds(m)
    PROVE  Writes
<1>1. PICK i : i = at[m].job
    OBVIOUS
<1>2. PICK c : c = Leaving(m)
    OBVIOUS
<1>3. c \in Output /\ ~IsChunk(c)
    BY <1>2, DirType
<1>4. i \in Jobs
    BY <1>1 DEF DumpEnds, Pumping, Turns, TurnOK, JobPlaces, DumpPlaces, JobsOf
<1>5. stdout' = Append(stdout, c) \/ stdout' = stdout
    BY <1>2 DEF DumpEnds
<1>6. Silent
    BY <1>3, <1>5, SilentAppend DEF TypeInv
<1>7. \A j \in Jobs : j = i \/ tmp'[j] = tmp[j] \/ tmp'[j] = Append(tmp[j], c)
    BY <1>1, <1>2 DEF DumpEnds
<1>e. tmp'[i] = <<>> /\ ~Here(i, PumpPlaces)'
  <2>1. tmp'[i] = <<>> /\ at' = [at EXCEPT ![m].place = at[m].then] /\ at[m].place \in DumpPlaces
      BY <1>1, <1>4 DEF DumpEnds, Pumping, DumpPlaces
  <2>2. at[m].then \in {"print", "start", "close"} /\ Owner[i] = m
      BY <1>1, <2>1 DEF Turns, TurnOK, JobPlaces, JobsOf
  <2>3. at'[m].place = at[m].then
      BY <2>1 DEF TypeInv, Turn
  <2> QED BY <2>1, <2>2, <2>3 DEF Here, PumpPlaces
<1>8. ASSUME NEW j \in Jobs, tmp'[j] = Append(tmp[j], c) PROVE Entries(j)' = Entries(j)
  <2>1. PICK s \in Seq(Output) : s = tmp[j]
      BY DEF TypeInv
  <2>2. /\ DOMAIN s = 1 .. Len(s) /\ DOMAIN Append(s, c) = 1 .. (Len(s) + 1) /\ Len(s) \in Nat
        /\ Append(s, c)[Len(s) + 1] = c /\ \A n \in 1 .. Len(s) : Append(s, c)[n] = s[n]
      BY <1>3
  <2>3. \A x \in Range(Append(s, c)) : x \in Range(s) \/ x = c
      BY <2>2 DEF Range
  <2>4. \A x \in Range(s) : x \in Range(Append(s, c))
      BY <2>2 DEF Range
  <2> QED BY <1>3, <1>8, <2>1, <2>3, <2>4 DEF Entries
<1>9. \A j \in Jobs : Entries(j)' = Entries(j) \/ j = i
  <2>1. ASSUME NEW j \in Jobs, tmp'[j] = tmp[j] PROVE Entries(j)' = Entries(j)
      BY <2>1 DEF Entries
  <2> QED BY <1>7, <1>8, <2>1
<1> QED BY <1>6, <1>9, <1>e DEF Writes

\* Every step is one of Writes.
LEMMA WritesStep ==
    ASSUME TypeInv, Turns, Family, Synchronises, Diverts, Sinks, Together,
           [Next]_vars, failures' = 0
    PROVE  Writes
<1> USE DEF given, syncVars, jobVars, tmpVars
<1>o. option' = option
    BY MutexStep
<1>t. \A m \in Makes : /\ Entering(m) \in Output /\ ~IsChunk(Entering(m))
                       /\ Leaving(m) \in Output /\ ~IsChunk(Leaving(m))
                       /\ out[m] \in Jobs \cup {"stdout"}
    BY DirType DEF TypeInv
<1>1. ASSUME stdout' = stdout, tmp' = tmp PROVE Writes
    BY <1>1, <1>o, QuietWrites
<1>2. ASSUME NEW m \in Makes, NEW j \in Jobs, NewJob(m, j) \/ Reap(m, j) PROVE Writes
  <2>1. stdout' = stdout /\ tmp' = tmp
      BY <1>2 DEF NewJob, Reap
  <2> QED BY <1>1, <2>1
<1>3. ASSUME NEW m \in Makes, StartLine(m) \/ FreeChild(m) \/ DumpNothing(m) \/ Acquire(m)
                                \/ FatalDies(m)
      PROVE  Writes
  <2>1. stdout' = stdout /\ tmp' = tmp
      BY <1>3 DEF StartLine, FreeChild, DumpNothing, Acquire, FatalDies
  <2> QED BY <1>1, <2>1
<1>4. ASSUME NEW m \in Makes, OutputStart(m) \/ DumpEnter(m) \/ Die(m) PROVE Writes
  <2>1. \/ stdout' = stdout /\ tmp' = tmp
        \/ Put(out[m], Entering(m)) \/ Put(out[m], Leaving(m))
      BY <1>4 DEF OutputStart, DumpEnter, Die
  <2>2. CASE stdout' = stdout /\ tmp' = tmp
      BY <1>1, <2>2
  <2>3. CASE Put(out[m], Entering(m))
      BY <1>o, <1>t, <2>3, PutDir DEF Writes
  <2>4. CASE Put(out[m], Leaving(m))
      BY <1>o, <1>t, <2>4, PutDir DEF Writes
  <2> QED BY <2>1, <2>2, <2>3, <2>4
<1>5. ASSUME NEW m \in Makes, RunLine(m) PROVE Writes
  <2>1. PICK j : j = at[m].job
      OBVIOUS
  <2>2. /\ at[m].place = "run" /\ line' = line /\ state' = [state EXCEPT ![j] = "running"]
        /\ Put(CommandOut(j), Chunk(j, line[j], 0))
      BY <1>5, <2>1 DEF RunLine
  <2>3. j \in Jobs /\ Here(j, {"print", "run"})
      BY <2>1, <2>2 DEF Turns, TurnOK, JobPlaces, JobsOf, Here
  <2>4. state'[j] = "running"
      BY <2>2, <2>3 DEF TypeInv
  <2>5. 0 \in Int /\ line'[j] = line[j]
      BY <2>2
  <2>6. /\ Silent
        /\ \A k \in Jobs : Entries(k)' = Entries(k) \/ \E c \in Output : Grows(k, c)
      BY <1>o, <2>2, <2>3, <2>4, <2>5, PutChunk
  <2> QED BY <2>6 DEF Writes
<1>6. ASSUME NEW m \in Makes, Pump(m) PROVE Writes
    BY <1>o, <1>6, PumpWrites
<1>7. ASSUME NEW m \in Makes, DumpEnds(m) PROVE Writes
    BY <1>o, <1>7, DumpEndsWrites
<1>8. ASSUME NEW j \in Jobs, CommandWrites(j) PROVE Writes
  <2>1. PICK k : k = Chunks - left[j] + 1
      OBVIOUS
  <2>2. /\ line' = line /\ state' = state /\ state[j] = "running"
        /\ Put(CommandOut(j), Chunk(j, line[j], k))
      BY <1>8, <2>1 DEF CommandWrites
  <2>3. k \in Int
      BY <2>1, BoundsAssumption DEF TypeInv
  <2>4. line'[j] = line[j] /\ state'[j] = "running"
      BY <2>2
  <2>5. /\ Silent
        /\ \A i \in Jobs : Entries(i)' = Entries(i) \/ \E c \in Output : Grows(i, c)
      BY <1>o, <2>2, <2>3, <2>4, PutChunk
  <2> QED BY <2>5 DEF Writes
<1>9. ASSUME NEW j \in Jobs, CommandEnds(j) PROVE Writes
    BY <1>1, <1>9 DEF CommandEnds
<1>10. CASE UNCHANGED vars
    BY <1>1, <1>10 DEF vars
<1> QED BY <1>2, <1>3, <1>4, <1>5, <1>6, <1>7, <1>8, <1>9, <1>10, CalmNext DEF Next, MakeStep
--------------------------------------------------------------------------------
(* What is kept together stays together *)

\* A job that is finishing has no line after.
LEMMA FinishingStep ==
    ASSUME TypeInv, Turns, Family, Synchronises, [Next]_vars, failures' = 0, NEW j \in Jobs
    PROVE  (Finishing(j) => Finishing(j)') /\ line[j] <= line'[j]
<1>1. line[j] \in Nat /\ Owner[j] \in Makes
    BY JobsAssumption DEF TypeInv
<1>2. CASE Same(j)
  <2>1. Finishing(j)' <=> Finishing(j)
      BY <1>2, SameStages
  <2> QED BY <1>1, <1>2, <2>1 DEF Same
<1>3. CASE Stage(j)
  <2>1. TurnOK(Owner[j])
      BY <1>1 DEF Turns
  <2>2. Here(j, JobPlaces) => state[j] \in {"waiting", "dead"}
      BY <2>1 DEF TurnOK, Here
  <2>3. \A P \in SUBSET JobPlaces : Here(j, P) => Here(j, JobPlaces)
      BY DEF Here
  <2>4. DumpPlaces \subseteq JobPlaces /\ {"start"} \subseteq JobPlaces /\ {"print"} \subseteq JobPlaces
        /\ {"dump", "enter"} \subseteq JobPlaces /\ {"run"} \subseteq JobPlaces
        /\ {"close"} \subseteq JobPlaces
      BY DEF JobPlaces, DumpPlaces
  <2> QED BY <1>1, <1>3, <2>2, <2>3, <2>4
          DEF Stage, Kept, Finishing, Here, Dumping, Busy, Idle, DumpPlaces, LockPlaces
<1> QED BY <1>2, <1>3, StageStep

\* What was in the file of j and is still there still belongs together.
LEMMA EntryStays ==
    ASSUME TypeInv, Turns, Family, Synchronises, Together, [Next]_vars, failures' = 0,
           option # "recurse", NEW j \in Jobs, NEW c \in Entries(j), tmp'[j] # <<>>
    PROVE  /\ c.job = j /\ c.line <= line'[j] /\ ~Direct(c)
           /\ Recurses(j)' => ~InLine(j)'
           /\ \A l \in c.line .. line'[j] - 1 : <<j, l>> \notin DOMAIN Subs
           /\ option = "line" =>
                 /\ c.line = IF Dumping(j, "start")' THEN line'[j] - 1 ELSE line'[j]
                 /\ ~Here(j, {"start"})'
<1>1. /\ c.job = j /\ c.line <= line[j] /\ ~Direct(c)
      /\ Recurses(j) => ~InLine(j)
      /\ \A l \in c.line .. line[j] - 1 : <<j, l>> \notin DOMAIN Subs
      /\ option = "line" =>
            /\ c.line = IF Dumping(j, "start") THEN line[j] - 1 ELSE line[j]
            /\ ~Here(j, {"start"})
      /\ state[j] # "waiting"
    BY DEF Together
<1>2. line[j] \in Nat /\ c.line \in Int /\ Owner[j] \in Makes
  <2>1. c \in Output /\ IsChunk(c)
    <3>1. tmp[j] \in Seq(Output)
        BY DEF TypeInv
    <3>2. \A n \in DOMAIN tmp[j] : tmp[j][n] \in Output
        BY <3>1
    <3> QED BY <3>2 DEF Entries, Range
  <2> QED BY <2>1, OutputType, JobsAssumption DEF TypeInv
<1>3. CASE Same(j)
  <2>1. /\ Here(j, {"start"})' <=> Here(j, {"start"})
        /\ Dumping(j, "start")' <=> Dumping(j, "start")
        /\ InLine(j)' <=> InLine(j)
        /\ Recurses(j)' <=> Recurses(j)
      BY <1>3, SameStages
  <2>2. line'[j] = line[j]
      BY <1>3 DEF Same
  <2> QED BY <1>1, <2>1, <2>2
<1>4. CASE Stage(j)
  <2>1. TurnOK(Owner[j])
      BY <1>2 DEF Turns
  <2>2. Here(j, JobPlaces) => state[j] = "dead"
      BY <1>1, <2>1 DEF TurnOK, Here
  <2>3. line'[j] = line[j] => (Recurses(j)' <=> Recurses(j))
      BY DEF Recurses
  <2>4. DumpPlaces \subseteq JobPlaces /\ {"start", "print", "run", "close"} \subseteq JobPlaces
        /\ "idle" \notin JobPlaces /\ {"start", "print", "run", "close"} \cap DumpPlaces = {}
      BY DEF JobPlaces, DumpPlaces
  <2>5. at[Owner[j]] = Idle => ~Here(j, JobPlaces)
      BY <2>4 DEF Idle, Here
  <2>6. CASE at[Owner[j]] = Idle /\ state[j] = "dead"
    <3>1. InLine(j) /\ ~Recurses(j)
        BY <1>1, <2>5, <2>6 DEF InLine
    <3>2. ~Here(j, {"start"}) /\ ~Dumping(j, "start")
        BY <2>4, <2>5, <2>6 DEF Here, Dumping
    <3>3. CASE /\ line'[j] = line[j] + 1
               /\ \/ option = "line" /\ at'[Owner[j]] = Busy("dump", j, "start")
                  \/ option # "line" /\ at'[Owner[j]] = Busy("start", j, "start")
               /\ state'[j] = "dead"
      <4>1. ~InLine(j)'
          BY <2>4, <3>3 DEF InLine, Here, Busy, DumpPlaces
      <4>2. \A l \in c.line .. line'[j] - 1 : <<j, l>> \notin DOMAIN Subs
        <5>1. \A l \in c.line .. line'[j] - 1 : l = line[j] \/ l \in c.line .. line[j] - 1
            BY <1>2, <3>3
        <5> QED BY <1>1, <3>1, <5>1 DEF Recurses
      <4>3. option = "line" => Dumping(j, "start")' /\ ~Here(j, {"start"})'
          BY <3>3 DEF Dumping, Here, Busy, DumpPlaces
      <4> QED BY <1>1, <1>2, <3>2, <3>3, <4>1, <4>2, <4>3
    <3>4. CASE line'[j] = line[j] /\ at'[Owner[j]] = Busy("dump", j, "close")
      <4>1. ~Recurses(j)' /\ ~Here(j, {"start"})' /\ ~Dumping(j, "start")'
          BY <2>3, <3>1, <3>4 DEF Here, Dumping, Busy
      <4> QED BY <1>1, <3>2, <3>4, <4>1
    <3>5. ~Here(j, {"start"}) /\ ~Here(j, {"print"}) /\ ~Here(j, {"run"}) /\ ~Here(j, {"close"})
          /\ ~Here(j, {"dump", "enter"}) /\ ~Here(j, DumpPlaces)
        BY <2>6 DEF Here, Idle, DumpPlaces
    <3> QED BY <1>4, <2>6, <3>3, <3>4, <3>5 DEF Stage, Kept
  <2>7. CASE Here(j, {"start"})
    <3>1. option # "line"
        BY <1>1, <2>7
    <3>2. /\ state'[j] = "dead" /\ line'[j] = line[j]
          /\ \/ ~Recurses(j)
             \/ at'[Owner[j]] = Busy("dump", j, "print")
        BY <1>4, <2>2, <2>4, <2>7 DEF Stage, Here, Idle, DumpPlaces
    <3>3. at'[Owner[j]] = Busy("dump", j, "print") => ~InLine(j)'
        BY <2>4, <3>2 DEF InLine, Here, Busy, DumpPlaces
    <3> QED BY <1>1, <2>3, <3>1, <3>2, <3>3
  <2>8. CASE Here(j, {"print"}) \/ Here(j, {"run"})
    <3>1. InLine(j) /\ ~Recurses(j)
        BY <1>1, <2>8 DEF InLine, Here
    <3>2. ~Dumping(j, "start")
        BY <2>8 DEF Dumping, Here, DumpPlaces
    <3>3. /\ line'[j] = line[j]
          /\ at'[Owner[j]].place \in {"run", "idle"}
        BY <1>4, <2>8 DEF Stage, Kept, Here, Idle, DumpPlaces
    <3>4. ~Dumping(j, "start")' /\ ~Here(j, {"start"})' /\ ~Recurses(j)'
        BY <2>3, <3>1, <3>3 DEF Dumping, Here, DumpPlaces
    <3> QED BY <1>1, <3>2, <3>3, <3>4
  <2>9. CASE Here(j, {"close"})
    <3>1. line'[j] = line[j] /\ state'[j] = "done" /\ at'[Owner[j]] = Idle
        BY <1>4, <2>9 DEF Stage, Here, Idle, DumpPlaces
    <3>2. ~InLine(j)' /\ ~Dumping(j, "start")' /\ ~Here(j, {"start"})' /\ ~Dumping(j, "start")
        BY <2>9, <3>1, JobsAssumption DEF InLine, Dumping, Here, Idle, DumpPlaces
    <3> QED BY <1>1, <3>1, <3>2
  <2>10. CASE Here(j, DumpPlaces)
    <3>1. /\ line'[j] = line[j] /\ state'[j] = state[j] /\ at'[Owner[j]].place \in LockPlaces
          /\ at'[Owner[j]].job = j /\ at'[Owner[j]].then = at[Owner[j]].then
        BY <1>4, <2>10 DEF Stage, Kept, Here, Idle, DumpPlaces
    <3>2. LockPlaces \subseteq DumpPlaces
        BY DEF LockPlaces, DumpPlaces
    <3>3. state'[j] = "dead"
        BY <2>2, <2>4, <2>10, <3>1 DEF Here
    <3>4. Here(j, DumpPlaces)' /\ (Dumping(j, "start")' <=> Dumping(j, "start"))
        BY <2>10, <3>1, <3>2 DEF Here, Dumping
    <3>5. ~InLine(j)' /\ ~Here(j, {"start"})'
        BY <2>4, <3>3, <3>4 DEF InLine, Here
    <3> QED BY <1>1, <3>1, <3>4, <3>5
  <2>11. Here(j, {"dump", "enter"}) => Here(j, DumpPlaces)
      BY DEF Here, DumpPlaces
  <2> QED BY <1>1, <1>4, <2>6, <2>7, <2>8, <2>9, <2>10, <2>11 DEF Stage
<1> QED BY <1>3, <1>4, StageStep

\* Together is kept.
LEMMA TogetherStep ==
    ASSUME TypeInv, TypeInv', Turns, Turns', Family, Synchronises, Diverts, Sinks, Together,
           [Next]_vars, failures' = 0
    PROVE  Together'
<1>o. option' = option
    BY MutexStep
<1>w. Writes
    BY WritesStep
<1>1. ASSUME NEW j \in Jobs, state'[j] = "waiting" PROVE Entries(j)' = {}
  <2>1. state[j] = "waiting"
    <3>1. Same(j) \/ Stage(j)
        BY StageStep
    <3> QED BY <1>1, <3>1 DEF Same, Stage, Kept, Here, TypeInv
  <2>2. Entries(j) = {}
      BY <2>1 DEF Together
  <2>3. \A c : ~Grows(j, c)
      BY <1>1 DEF Grows
  <2>4. tmp'[j] = <<>> => Entries(j)' = {}
      BY DEF Entries, Range
  <2> QED BY <1>w, <2>2, <2>3, <2>4 DEF Writes
<1>2. ASSUME NEW j \in Jobs, NEW c \in Entries(j)'
      PROVE  (IF option = "recurse" THEN c.job \in Below[j]
              ELSE /\ c.job = j /\ c.line <= line[j] /\ ~Direct(c)
                   /\ Recurses(j) => ~InLine(j)
                   /\ \A l \in c.line .. line[j] - 1 : <<j, l>> \notin DOMAIN Subs
                   /\ option = "line" =>
                         /\ c.line = IF Dumping(j, "start") THEN line[j] - 1 ELSE line[j]
                         /\ ~Here(j, {"start"}))'
  <2>1. tmp'[j] # <<>>
      BY <1>2 DEF Entries, Range
  <2>2. CASE c \in Entries(j)
    <3>1. CASE option = "recurse"
        BY <1>o, <2>2, <3>1 DEF Together
    <3>2. CASE option # "recurse"
      <4>1. ~Direct(c)' <=> ~Direct(c)
          BY <1>o DEF Direct
      <4> QED BY <1>o, <2>1, <2>2, <3>2, <4>1, EntryStays
    <3> QED BY <3>1, <3>2
  <2>3. CASE c \notin Entries(j)
    <3>1. PICK d \in Output : Grows(j, d)
        BY <1>2, <1>w, <2>1, <2>3 DEF Writes
    <3>2. /\ c = d /\ state'[j] = "running" /\ line'[j] = line[j] /\ c.job \in Below[j]
          /\ option # "recurse" => c.job = j /\ c.line = line[j] /\ ~Recurses(j)
        BY <1>2, <2>3, <3>1 DEF Grows
    <3>3. CASE option = "recurse"
        BY <1>o, <3>2, <3>3
    <3>4. CASE option # "recurse"
      <4>1. ~Recurses(j)' /\ ~Direct(c)'
          BY <1>o, <3>2, <3>4 DEF Recurses, Direct
      <4>2. ~Here(j, {"start"})' /\ ~Here(j, DumpPlaces)'
        <5>1. TurnOK(Owner[j])'
            BY JobsAssumption DEF Turns
        <5>2. ~Here(j, JobPlaces)'
            BY <3>2, <5>1 DEF TurnOK, Here
        <5> QED BY <5>2 DEF JobPlaces, Here
      <4>3. ~Dumping(j, "start")'
          BY <4>2 DEF Dumping
      <4>4. line[j] \in Nat
          BY DEF TypeInv
      <4> QED BY <1>o, <3>2, <3>4, <4>1, <4>2, <4>3, <4>4
    <3> QED BY <3>3, <3>4
  <2> QED BY <2>2, <2>3
<1> QED BY <1>1, <1>2 DEF Together
--------------------------------------------------------------------------------
(* What has been shown *)

\* what is in a file is output
LEMMA EntryType ==
    ASSUME TypeInv, NEW j \in Jobs, NEW c \in Entries(j)
    PROVE  c \in Output /\ IsChunk(c) /\ c.job \in Jobs /\ c.line \in Int /\ tmp[j] # <<>>
<1>1. tmp[j] \in Seq(Output)
    BY DEF TypeInv
<1>2. \A n \in DOMAIN tmp[j] : tmp[j][n] \in Output
    BY <1>1
<1>3. c \in Output /\ IsChunk(c)
    BY <1>2 DEF Entries, Range
<1>4. tmp[j] # <<>>
    BY DEF Entries, Range
<1> QED BY <1>3, <1>4, OutputType

\* What is in the file of a job belongs together.
LEMMA EntriesBelong ==
    ASSUME TypeInv, Together, NEW j \in Top, NEW c \in Entries(j), NEW d \in Entries(j)
    PROVE  KeptTogether(c, d)
<1>1. j \in Jobs
    BY DEF Top, JobsOf
<1>2. CASE option = "recurse"
  <2>1. c.job \in Below[j] /\ d.job \in Below[j] /\ j \in JobsOf(Root)
      BY <1>1, <1>2 DEF Together, Top
  <2> QED BY <1>2, <2>1 DEF KeptTogether
<1>3. CASE option # "recurse"
  <2>1. /\ c.job = j /\ c.line <= line[j] /\ ~Direct(c)
        /\ \A l \in c.line .. line[j] - 1 : <<j, l>> \notin DOMAIN Subs
        /\ d.job = j /\ d.line <= line[j] /\ ~Direct(d)
        /\ option = "line" => c.line = d.line
      BY <1>1, <1>3 DEF Together
  <2>2. c.line \in Int /\ d.line \in Int /\ line[j] \in Nat
      BY <1>1, EntryType DEF TypeInv
  <2>3. ASSUME NEW l \in c.line .. d.line PROVE <<j, l>> \notin DOMAIN Subs
    <3>1. l \in c.line .. line[j] - 1 \/ l = d.line
        BY <2>1, <2>2
    <3>2. <<j, d.line>> \notin DOMAIN Subs
        BY <1>3, <2>1 DEF Direct
    <3> QED BY <2>1, <3>1, <3>2
  <2> QED BY <1>3, <2>1, <2>3 DEF KeptTogether
<1> QED BY <1>2, <1>3

\* What is in the files of two jobs that are dumped does not.
LEMMA EntriesApart ==
    ASSUME TypeInv, Together, NEW i \in Top, NEW j \in Top, i # j,
           NEW c \in Entries(i), NEW d \in Entries(j)
    PROVE  ~KeptTogether(c, d)
<1>1. i \in Jobs /\ j \in Jobs
    BY DEF Top, JobsOf
<1>2. CASE option = "recurse"
  <2>1. i \in JobsOf(Root) /\ j \in JobsOf(Root) /\ c.job \in Below[i] /\ d.job \in Below[j]
      BY <1>1, <1>2 DEF Together, Top
  <2>2. ASSUME NEW r \in JobsOf(Root), c.job \in Below[r], d.job \in Below[r] PROVE FALSE
      BY <2>1, <2>2, BelowApart
  <2> QED BY <1>2, <2>2 DEF KeptTogether
<1>3. CASE option # "recurse"
  <2>1. c.job = i /\ d.job = j
      BY <1>1, <1>3 DEF Together
  <2> QED BY <1>3, <2>1 DEF KeptTogether
<1> QED BY <1>2, <1>3

\* While j goes on, what it writes does not belong with what has been shown.
LEMMA PassedApart ==
    ASSUME TypeInv, Passed, NEW j \in Top, ~Finishing(j), NEW n \in KeptBack,
           NEW c, Grows(j, c)
    PROVE  ~KeptTogether(stdout[n], c)
<1>1. j \in Jobs
    BY DEF Top, JobsOf
<1>2. CASE option = "recurse"
  <2>1. stdout[n].job \notin Below[j] /\ c.job \in Below[j] /\ j \in JobsOf(Root)
      BY <1>2 DEF Passed, Grows, Top
  <2>2. ASSUME NEW r \in JobsOf(Root), c.job \in Below[r], stdout[n].job \in Below[r] PROVE FALSE
      BY <2>1, <2>2, BelowApart
  <2> QED BY <1>2, <2>2 DEF KeptTogether
<1>3. CASE option # "recurse"
  <2>1. /\ c.job = j /\ c.line = line[j]
        /\ stdout[n].job = j =>
              IF option = "line" THEN stdout[n].line < line[j]
              ELSE \E l \in stdout[n].line .. line[j] : <<j, l>> \in DOMAIN Subs
      BY <1>3 DEF Passed, Grows
  <2>2. stdout[n].line \in Int /\ line[j] \in Nat
    <3>1. stdout[n] \in Output /\ IsChunk(stdout[n])
        BY DEF KeptBack, TypeInv
    <3> QED BY <1>1, <3>1, OutputType DEF TypeInv
  <2>3. ASSUME KeptTogether(stdout[n], c) PROVE FALSE
    <3>1. /\ stdout[n].job = c.job
          /\ option = "line" => stdout[n].line = c.line
          /\ \A l \in stdout[n].line .. c.line : <<stdout[n].job, l>> \notin DOMAIN Subs
        BY <1>3, <2>3 DEF KeptTogether
    <3>2. CASE option = "line"
        BY <2>1, <2>2, <3>1, <3>2
    <3>3. CASE option # "line"
        BY <2>1, <3>1, <3>3
    <3> QED BY <3>2, <3>3
  <2> QED BY <2>3
<1> QED BY <1>2, <1>3

\* Only one make at a time writes the files of its jobs to the standard output.
LEMMA OnePumps ==
    ASSUME TypeInv, Turns, Locked, Synchronises,
           NEW i \in Top, NEW j \in Top, Here(i, PumpPlaces), Here(j, PumpPlaces)
    PROVE  i = j
<1>1. i \in Jobs /\ j \in Jobs /\ Owner[i] \in Makes /\ Owner[j] \in Makes
    BY JobsAssumption DEF Top, JobsOf
<1>2. Owner[i] = Owner[j]
  <2>1. CASE option = "recurse"
      BY <2>1 DEF Top, JobsOf
  <2>2. CASE option # "recurse"
    <3>1. /\ at[Owner[i]].place \in LockPlaces /\ at[Owner[j]].place \in LockPlaces
          /\ Alive(Owner[i]) /\ Alive(Owner[j])
        BY DEF Here, PumpPlaces, LockPlaces, Alive
    <3>2. osync_handle[Owner[i]] /\ osync_handle[Owner[j]]
        BY <1>1, <2>2, <3>1 DEF Synchronises
    <3> QED BY <1>1, <3>1, <3>2 DEF Locked
  <2> QED BY <2>1, <2>2
<1> QED BY <1>2 DEF Here

\* What is new in the output after a chunk of i has been pumped.
LEMMA PumpedShows ==
    ASSUME TypeInv, option' = option, NEW i \in Jobs, Pumped(i)
    PROVE  \E c \in Entries(i) :
              /\ Len(stdout') = Len(stdout) + 1 /\ stdout'[Len(stdout) + 1] = c
              /\ \A n \in 1 .. Len(stdout) : stdout'[n] = stdout[n]
              /\ KeptBack' = KeptBack \cup {Len(stdout) + 1}
<1>1. PICK c \in Entries(i) : ~Direct(c) /\ stdout' = Append(stdout, c)
    BY DEF Pumped
<1>2. c \in Output /\ IsChunk(c) /\ stdout \in Seq(Output)
    BY EntryType DEF TypeInv
<1>3. /\ Len(stdout) \in Nat /\ Len(stdout') = Len(stdout) + 1
      /\ stdout'[Len(stdout) + 1] = c
      /\ \A n \in 1 .. Len(stdout) : stdout'[n] = stdout[n]
    BY <1>1, <1>2
<1>4. ASSUME NEW n \in 1 .. Len(stdout') PROVE n \in KeptBack' <=> n \in KeptBack \/ n = Len(stdout) + 1
  <2>1. CASE n \in 1 .. Len(stdout)
      BY <1>3, <2>1 DEF KeptBack, Direct
  <2>2. CASE n = Len(stdout) + 1
      BY <1>1, <1>2, <1>3, <2>2 DEF KeptBack, Direct
  <2> QED BY <1>3, <1>4, <2>1, <2>2
<1>5. KeptBack' \subseteq 1 .. Len(stdout') /\ KeptBack \cup {Len(stdout) + 1} \subseteq 1 .. Len(stdout')
    BY <1>3 DEF KeptBack
<1>6. KeptBack' = KeptBack \cup {Len(stdout) + 1}
    BY <1>3, <1>4, <1>5
<1> QED BY <1>3, <1>6

\* Passed is kept: a dump before the end shows only lines that are over.
LEMMA PassedStep ==
    ASSUME TypeInv, Turns, Family, Locked, Synchronises, Diverts, Sinks, Together, Passed,
           [Next]_vars, failures' = 0
    PROVE  Passed'
<1>o. option' = option
    BY MutexStep
<1>1. Silent \/ \E i \in Top : Pumped(i)
    BY WritesStep DEF Writes
<1>t. Len(stdout) \in Nat
    BY DEF TypeInv
<1> SUFFICES ASSUME NEW j \in Top, NEW n \in KeptBack', ~Finishing(j)'
             PROVE  IF option = "recurse" THEN stdout'[n].job \notin Below[j]
                    ELSE stdout'[n].job = j =>
                            IF option = "line" THEN stdout'[n].line < line'[j]
                            ELSE \E l \in stdout'[n].line .. line'[j] : <<j, l>> \in DOMAIN Subs
    BY <1>o DEF Passed, Top, JobsOf
<1>j. j \in Jobs /\ line[j] \in Nat /\ line'[j] \in Int
  <2>1. j \in Jobs
      BY DEF Top, JobsOf
  <2>2. line'[j] \in Int
    <3>1. Same(j) \/ Stage(j)
        BY <2>1, StageStep
    <3> QED BY <2>1, <3>1 DEF Same, Stage, Kept, TypeInv
  <2> QED BY <2>1, <2>2 DEF TypeInv
<1>2. ~Finishing(j) /\ line[j] <= line'[j]
    BY <1>j, FinishingStep
<1>3. CASE n \in KeptBack /\ stdout'[n] = stdout[n]
  <2>1. stdout[n].line \in Int
    <3>1. stdout[n] \in Output /\ IsChunk(stdout[n])
        BY <1>3 DEF KeptBack, TypeInv
    <3> QED BY <3>1, OutputType
  <2>2. IF option = "recurse" THEN stdout[n].job \notin Below[j]
        ELSE stdout[n].job = j =>
                IF option = "line" THEN stdout[n].line < line[j]
                ELSE \E l \in stdout[n].line .. line[j] : <<j, l>> \in DOMAIN Subs
      BY <1>2, <1>3 DEF Passed
  <2>3. \A l \in stdout[n].line .. line[j] : l \in stdout[n].line .. line'[j]
      BY <1>j, <1>2, <2>1
  <2> QED BY <1>j, <1>2, <1>3, <2>1, <2>2, <2>3
<1>4. CASE Silent
  <2>1. n \in KeptBack /\ stdout'[n] = stdout[n]
      BY <1>4 DEF Silent, KeptBack
  <2> QED BY <1>3, <2>1
<1>5. ASSUME NEW i \in Top, Pumped(i)
      PROVE  IF option = "recurse" THEN stdout'[n].job \notin Below[j]
             ELSE stdout'[n].job = j =>
                     IF option = "line" THEN stdout'[n].line < line'[j]
                     ELSE \E l \in stdout'[n].line .. line'[j] : <<j, l>> \in DOMAIN Subs
  <2>1. i \in Jobs
      BY DEF Top, JobsOf
  <2>2. PICK c \in Entries(i) :
              /\ Len(stdout') = Len(stdout) + 1 /\ stdout'[Len(stdout) + 1] = c
              /\ \A k \in 1 .. Len(stdout) : stdout'[k] = stdout[k]
              /\ KeptBack' = KeptBack \cup {Len(stdout) + 1}
      BY <1>o, <1>5, <2>1, PumpedShows
  <2>3. CASE n \in KeptBack
    <3>1. n \in 1 .. Len(stdout)
        BY <2>3 DEF KeptBack
    <3> QED BY <1>3, <2>2, <2>3, <3>1
  <2>4. CASE n = Len(stdout) + 1
    <3>1. CASE option = "recurse"
      <4>1. i \in JobsOf(Root) /\ j \in JobsOf(Root) /\ c.job \in Below[i]
          BY <2>1, <3>1 DEF Top, Together
      <4>2. i # j
        <5>1. SUFFICES ASSUME i = j PROVE FALSE
            OBVIOUS
        <5>2. Dumping(i, "print") \/ Dumping(i, "start") \/ Dumping(i, "close")
            BY <1>5, <2>1, JobsAssumption
               DEF Pumped, Here, PumpPlaces, Dumping, DumpPlaces, Turns, TurnOK
        <5> QED BY <1>2, <2>1, <3>1, <5>1, <5>2 DEF Diverts, Finishing
      <4> QED BY <2>2, <2>4, <3>1, <4>1, <4>2, BelowApart
    <3>2. CASE option # "recurse" /\ i # j
        BY <2>1, <2>2, <2>4, <3>2 DEF Together
    <3>3. CASE option # "recurse" /\ i = j
      <4>1. Dumping(i, "print") \/ Dumping(i, "start")
        <5>1. Dumping(i, "print") \/ Dumping(i, "start") \/ Dumping(i, "close")
            BY <1>5, <2>1, JobsAssumption
               DEF Pumped, Here, PumpPlaces, Dumping, DumpPlaces, Turns, TurnOK
        <5> QED BY <1>2, <3>3, <5>1 DEF Finishing
      <4>2. /\ c.job = j /\ c.line <= line[j] /\ ~Direct(c)
            /\ option = "line" => c.line = IF Dumping(j, "start") THEN line[j] - 1 ELSE line[j]
          BY <2>1, <3>3 DEF Together
      <4>3. c.line \in Int /\ line'[j] = line[j]
          BY <1>5, <2>1, EntryType DEF Pumped
      <4>4. CASE Dumping(j, "print") /\ ~Dumping(j, "start")
        <5>1. <<j, line[j]>> \in DOMAIN Subs
            BY <1>j, <4>4 DEF Diverts, Recurses
        <5>2. option # "line"
            BY <3>3, <4>2, <4>4, <5>1 DEF Direct
        <5>3. line[j] \in c.line .. line'[j]
            BY <1>j, <4>2, <4>3
        <5> QED BY <2>2, <2>4, <3>3, <5>1, <5>2, <5>3
      <4>5. CASE Dumping(j, "start")
        <5>1. option = "line"
            BY <1>j, <4>5 DEF Diverts
        <5>2. c.line < line'[j]
            BY <1>j, <4>2, <4>3, <4>5, <5>1
        <5> QED BY <2>2, <2>4, <5>1, <5>2
      <4> QED BY <3>3, <4>1, <4>4, <4>5
    <3> QED BY <3>1, <3>2, <3>3
  <2> QED BY <2>2, <2>3, <2>4
<1> QED BY <1>1, <1>4, <1>5
--------------------------------------------------------------------------------
(* Apart *)

\* A make leaves the copying of a file behind only with the file emptied.
LEMMA PumpingStep ==
    ASSUME TypeInv, Turns, Family, Synchronises, [Next]_vars, failures' = 0, NEW j \in Jobs,
           Here(j, PumpPlaces), ~Here(j, PumpPlaces)'
    PROVE  tmp'[j] = <<>>
<1>1. Same(j) => (Here(j, PumpPlaces)' <=> Here(j, PumpPlaces))
    BY SameStages
<1> QED BY <1>1, StageStep, JobsAssumption DEF Stage, Here, PumpPlaces, Idle

\* A chunk is written only to the file of a job that is not copied.
LEMMA GrowsElsewhere ==
    ASSUME Turns', NEW j \in Jobs, NEW c, Grows(j, c)
    PROVE  ~Here(j, PumpPlaces)'
<1>1. TurnOK(Owner[j])'
    BY JobsAssumption DEF Turns
<1>2. ~Here(j, JobPlaces)'
    BY <1>1 DEF Grows, TurnOK, Here
<1> QED BY <1>2 DEF Here, PumpPlaces, JobPlaces, DumpPlaces

\* Whole is kept: while a file is dumped no other one is, and nothing is added to it.
LEMMA WholeStep ==
    ASSUME TypeInv, TypeInv', Turns, Turns', Family, Locked, Synchronises, Diverts, Sinks, Together, Passed,
           Whole, [Next]_vars, failures' = 0
    PROVE  Whole'
<1>o. option' = option
    BY MutexStep
<1>w. Writes
    BY WritesStep
<1>t. Len(stdout) \in Nat /\ KeptBack \subseteq 1 .. Len(stdout)
    BY DEF TypeInv, KeptBack
<1>k. \A x, y : KeptTogether(x, y)' <=> KeptTogether(x, y)
    BY <1>o DEF KeptTogether
<1> DEFINE From(j, s) == /\ ~Here(j, PumpPlaces)' => s = Len(stdout')
                         /\ \A n \in KeptBack' :
                               /\ n <= s => \A e \in Entries(j)' : ~KeptTogether(stdout'[n], e)
                               /\ n > s => stdout'[n] \in Entries(j)'
<1>g. SUFFICES ASSUME NEW j \in Top PROVE \E s \in 0 .. Len(stdout') : From(j, s)
  <2>1. \A j \in Top, s \in Int : From(j, s) => ShownFrom(j, s)'
      BY <1>k DEF ShownFrom
  <2>2. \A s \in 0 .. Len(stdout') : s \in Int
      OBVIOUS
  <2>3. Top' = Top
      BY <1>o DEF Top, JobsOf
  <2>4. ASSUME \A j \in Top : \E s \in 0 .. Len(stdout') : From(j, s)
        PROVE  \A j \in Top' : \E s \in 0 .. Len(stdout') : ShownFrom(j, s)'
      BY <2>1, <2>2, <2>3, <2>4
  <2> QED BY <2>4 DEF Whole
<1>j. j \in Jobs
    BY DEF Top, JobsOf
<1>s. PICK s \in 0 .. Len(stdout) : ShownFrom(j, s)
    BY DEF Whole
<1>l. Len(stdout') \in Nat /\ Len(stdout) <= Len(stdout') /\ KeptBack' \subseteq 1 .. Len(stdout')
  <2>1. stdout' \in Seq(Output)
      BY DEF TypeInv
  <2>2. Len(stdout') \in Nat
      BY <2>1
  <2>3. KeptBack' \subseteq 1 .. Len(stdout')
      BY DEF KeptBack
  <2>4. CASE Silent
      BY <2>2, <2>3, <2>4 DEF Silent
  <2>5. ASSUME NEW i \in Top, Pumped(i) PROVE Len(stdout) <= Len(stdout')
    <3>1. Len(stdout') = Len(stdout) + 1
        BY <1>o, <2>5, PumpedShows DEF Top, JobsOf
    <3> QED BY <1>t, <3>1
  <2> QED BY <1>w, <2>2, <2>3, <2>4, <2>5 DEF Writes
<1>1. CASE Entries(j)' = {} /\ ~Here(j, PumpPlaces)'
  <2>1. From(j, Len(stdout'))
      BY <1>l, <1>1
  <2> QED BY <1>l, <2>1
<1>2. CASE Entries(j)' # {} /\ ~Here(j, PumpPlaces)'
  <2>1. tmp'[j] # <<>>
      BY <1>2 DEF Entries, Range
  <2>2. ~Here(j, PumpPlaces)
      BY <1>j, <1>2, <2>1, PumpingStep
  <2>3. s = Len(stdout)
      BY <1>s, <2>2 DEF ShownFrom
  <2>4. ASSUME NEW n \in KeptBack, NEW e \in Entries(j)' PROVE ~KeptTogether(stdout[n], e)
    <3>1. CASE e \in Entries(j)
        BY <1>s, <1>t, <2>3, <2>4, <3>1 DEF ShownFrom
    <3>2. CASE e \notin Entries(j)
      <4>1. PICK c \in Output : Grows(j, c)
          BY <1>j, <1>w, <2>1, <2>4, <3>2 DEF Writes
      <4>2. e = c /\ state'[j] = "running"
          BY <2>4, <3>2, <4>1 DEF Grows
      <4>3. ~Finishing(j)
        <5>1. TurnOK(Owner[j])'
            BY <1>j, JobsAssumption DEF Turns
        <5>2. ~Here(j, JobPlaces)'
            BY <4>2, <5>1 DEF TurnOK, Here
        <5>3. ~Finishing(j)'
            BY <4>2, <5>2 DEF Finishing, Dumping, Here, JobPlaces
        <5> QED BY <1>j, <5>3, FinishingStep
      <4> QED BY <4>1, <4>2, <4>3, PassedApart
    <3> QED BY <3>1, <3>2
  <2>5. ASSUME NEW n \in KeptBack', NEW e \in Entries(j)' PROVE ~KeptTogether(stdout'[n], e)
    <3>1. CASE Silent
        BY <1>t, <2>4, <2>5, <3>1 DEF Silent
    <3>2. ASSUME NEW i \in Top, Pumped(i) PROVE ~KeptTogether(stdout'[n], e)
      <4>1. PICK c \in Entries(i) :
              /\ stdout'[Len(stdout) + 1] = c
              /\ \A k \in 1 .. Len(stdout) : stdout'[k] = stdout[k]
              /\ KeptBack' = KeptBack \cup {Len(stdout) + 1}
          BY <1>o, <3>2, PumpedShows DEF Top, JobsOf
      <4>2. CASE n \in KeptBack
          BY <1>t, <2>4, <2>5, <4>1, <4>2
      <4>3. CASE n = Len(stdout) + 1
        <5>1. i # j
            BY <2>2, <3>2 DEF Pumped
        <5>2. Entries(j)' = Entries(j)
            BY <3>2 DEF Pumped, Entries
        <5> QED BY <2>5, <4>1, <4>3, <5>1, <5>2, EntriesApart
      <4> QED BY <2>5, <4>1, <4>2, <4>3
    <3> QED BY <1>w, <3>1, <3>2 DEF Writes
  <2>6. From(j, Len(stdout'))
      BY <1>l, <2>5
  <2> QED BY <1>l, <2>6
<1>3. CASE Here(j, PumpPlaces)'
  <2>1. \A c : ~Grows(j, c)
      BY <1>j, <1>3, GrowsElsewhere
  <2>2. Entries(j)' = Entries(j)
      BY <1>j, <1>w, <1>3, <2>1 DEF Writes
  <2>3. From(j, s)
    <3>1. ASSUME NEW n \in KeptBack, stdout'[n] = stdout[n]
          PROVE  /\ n <= s => \A e \in Entries(j)' : ~KeptTogether(stdout'[n], e)
                 /\ n > s => stdout'[n] \in Entries(j)'
        BY <1>s, <2>2, <3>1 DEF ShownFrom
    <3>2. CASE Silent
      <4>1. \A n \in KeptBack : stdout'[n] = stdout[n]
          BY <1>t, <3>2 DEF Silent
      <4> QED BY <1>3, <3>1, <3>2, <4>1 DEF Silent
    <3>3. ASSUME NEW i \in Top, Pumped(i) PROVE From(j, s)
      <4>1. PICK c \in Entries(i) :
              /\ stdout'[Len(stdout) + 1] = c
              /\ \A k \in 1 .. Len(stdout) : stdout'[k] = stdout[k]
              /\ KeptBack' = KeptBack \cup {Len(stdout) + 1}
          BY <1>o, <3>3, PumpedShows DEF Top, JobsOf
      <4>2. Here(j, PumpPlaces)
          BY <1>3, <3>3 DEF Pumped, Here
      <4>3. i = j
          BY <3>3, <4>2, OnePumps DEF Pumped
      <4>4. c \in Entries(j)' /\ s < Len(stdout) + 1
          BY <1>t, <2>2, <4>3
      <4>5. \A n \in KeptBack : stdout'[n] = stdout[n]
          BY <1>t, <4>1
      <4> QED BY <1>t, <1>3, <3>1, <4>1, <4>4, <4>5
    <3> QED BY <1>w, <3>2, <3>3 DEF Writes
  <2>4. s \in 0 .. Len(stdout')
      BY <1>l, <1>t
  <2> QED BY <2>3, <2>4
<1> QED BY <1>1, <1>2, <1>3

\* Apart is kept: what a dump adds follows what it has added, or belongs with nothing
\* before.
LEMMA ApartStep ==
    ASSUME TypeInv, Turns, Family, Synchronises, Diverts, Sinks, Together, Whole, Apart,
           [Next]_vars, failures' = 0
    PROVE  Apart'
<1>o. option' = option
    BY MutexStep
<1>w. Silent \/ \E i \in Top : Pumped(i)
    BY WritesStep DEF Writes
<1>t. Len(stdout) \in Nat /\ KeptBack \subseteq 1 .. Len(stdout)
    BY DEF TypeInv, KeptBack
<1>k. \A x, y : KeptTogether(x, y)' <=> KeptTogether(x, y)
    BY <1>o DEF KeptTogether
<1>f. failures = 0
    BY CalmNext
<1>1. \A x, z, y \in KeptBack :
          x < z /\ z < y /\ KeptTogether(stdout[x], stdout[y]) => KeptTogether(stdout[x], stdout[z])
    BY <1>f DEF Apart
<1>2. SUFFICES ASSUME NEW x \in KeptBack', NEW z \in KeptBack', NEW y \in KeptBack',
                      x < z, z < y, KeptTogether(stdout'[x], stdout'[y])
               PROVE  KeptTogether(stdout'[x], stdout'[z])
    BY <1>k DEF Apart
<1>3. CASE Silent
  <2>1. \A n \in KeptBack : stdout'[n] = stdout[n]
      BY <1>t, <1>3 DEF Silent
  <2> QED BY <1>1, <1>2, <1>3, <2>1 DEF Silent
<1>4. ASSUME NEW i \in Top, Pumped(i) PROVE KeptTogether(stdout'[x], stdout'[z])
  <2>1. PICK c \in Entries(i) :
              /\ stdout'[Len(stdout) + 1] = c
              /\ \A k \in 1 .. Len(stdout) : stdout'[k] = stdout[k]
              /\ KeptBack' = KeptBack \cup {Len(stdout) + 1}
      BY <1>o, <1>4, PumpedShows DEF Top, JobsOf
  <2>2. \A n \in KeptBack : stdout'[n] = stdout[n] /\ n \in 1 .. Len(stdout)
      BY <1>t, <2>1
  <2>3. x \in KeptBack /\ z \in KeptBack
      BY <1>t, <1>2, <2>1
  <2>4. CASE y \in KeptBack
      BY <1>1, <1>2, <2>2, <2>3, <2>4
  <2>5. CASE y = Len(stdout) + 1
    <3>1. KeptTogether(stdout[x], c)
        BY <1>2, <2>1, <2>2, <2>3, <2>5
    <3>2. PICK s \in 0 .. Len(stdout) : ShownFrom(i, s)
        BY DEF Whole
    <3>3. x > s /\ z > s
        BY <1>2, <2>2, <2>3, <3>1, <3>2 DEF ShownFrom
    <3>4. stdout[x] \in Entries(i) /\ stdout[z] \in Entries(i)
        BY <2>3, <3>2, <3>3 DEF ShownFrom
    <3> QED BY <2>2, <2>3, <3>4, EntriesBelong
  <2> QED BY <2>1, <2>4, <2>5
<1> QED BY <1>w, <1>3, <1>4
--------------------------------------------------------------------------------
(* The theorems *)

\* The invariant holds when the root starts.
LEMMA InitInv == Init => IInv
<1> SUFFICES ASSUME Init PROVE IInv
    OBVIOUS
<1>a. /\ Root \in Makes /\ NoMake \notin Makes /\ \A j \in Jobs : Owner[j] \in Makes
      /\ "none" \notin Jobs /\ "stdout" \notin Jobs
    BY MakesAssumption, JobsAssumption
<1>t. \A m \in Makes : /\ at[m] = Idle \/ at[m] = Busy("unborn", "none", "idle")
                       /\ m = Root => at[m] = Idle
                       /\ m # Root => at[m] = Busy("unborn", "none", "idle")
    BY DEF Init
<1>p. \A m \in Makes : /\ at[m].place \in {"idle", "unborn"} /\ at[m].job = "none"
                       /\ at[m].place = "idle" <=> m = Root
    BY <1>t DEF Idle, Busy
<1>d. {"idle", "unborn"} \cap JobPlaces = {} /\ {"idle", "unborn"} \cap DumpPlaces = {}
      /\ {"idle", "unborn"} \cap LockPlaces = {} /\ {"idle", "unborn"} \cap PumpPlaces = {}
      /\ "idle" \in Places /\ "unborn" \in Places
    BY DEF Places, JobPlaces, DumpPlaces, LockPlaces, PumpPlaces
<1>h. \A j \in Jobs : \A P : ~Here(j, P)
    BY <1>a, <1>p DEF Here
<1>f. \A m \in Makes : Alive(m) <=> m = Root
    BY <1>p DEF Alive
<1>1. TypeInv
  <2>1. at \in [Makes -> Turn]
    <3>1. Busy("unborn", "none", "idle") \in Turn
        BY <1>d, TurnType
    <3> QED BY <3>1, PlacesFacts DEF Init
  <2>2. option \in Modes
      BY DEF Init
  <2>3. output_sync \in [Makes -> Modes \cup {"none"}]
      BY <2>2 DEF Init
  <2>4. holder \in Makes \cup {NoMake} /\ failures \in Nat /\ stdout \in Seq(Output)
      BY DEF Init
  <2>5. tmp \in [Jobs -> Seq(Output)]
      BY DEF Init
  <2>6. /\ out \in [Makes -> Jobs \cup {"stdout"}] /\ osync_handle \in [Makes -> BOOLEAN]
        /\ mutex_file \in BOOLEAN /\ stdio_traced \in [Makes -> BOOLEAN]
      BY DEF Init
  <2>7. /\ state \in [Jobs -> {"waiting", "running", "dead", "done"}] /\ line \in [Jobs -> Nat]
        /\ tmp_open \in [Jobs -> BOOLEAN] /\ diverted \in [Jobs -> BOOLEAN] /\ left \in [Jobs -> Nat]
      BY DEF Init
  <2> QED BY <2>1, <2>2, <2>3, <2>4, <2>5, <2>6, <2>7 DEF TypeInv
<1>2. Turns
    BY <1>d, <1>p DEF Turns, TurnOK
<1>3. Family
  <2>1. \A j \in Jobs : state[j] = "waiting"
      BY DEF Init
  <2> QED BY <1>a, <1>f, <1>p, <2>1 DEF Family, JobsOf
<1>4. Locked
    BY <1>a, <1>d, <1>p DEF Init, Locked
<1>5. Synchronises
    BY <1>a, <1>f, <1>p DEF Init, Synchronises
<1>6. \A j \in Jobs : Entries(j) = {} /\ state[j] = "waiting"
    BY DEF Init, Entries, Range
<1>7. KeptBack = {} /\ Len(stdout) = 0
    BY DEF Init, KeptBack
<1>8. Diverts
    BY <1>6, <1>h DEF Diverts, Dumping
<1>9. Sinks
    BY <1>a, <1>f DEF Init, Sinks
<1>10. Together
    BY <1>6 DEF Together
<1>11. Passed /\ Apart
    BY <1>7 DEF Passed, Apart
<1>12. Whole
  <2>1. \A j \in Top : ShownFrom(j, 0)
      BY <1>7 DEF ShownFrom
  <2>2. 0 \in 0 .. Len(stdout)
      BY <1>7
  <2> QED BY <2>1, <2>2 DEF Whole
<1> QED BY <1>1, <1>2, <1>3, <1>4, <1>5, <1>8, <1>9, <1>10, <1>11, <1>12 DEF IInv, Calm

\* The invariant is kept by every step.
LEMMA NextInv == IInv /\ [Next]_vars => IInv'
<1> SUFFICES ASSUME IInv, [Next]_vars PROVE IInv'
    OBVIOUS
<1>1. TypeInv /\ Turns /\ Family /\ Locked
    BY DEF IInv
<1>2. TypeInv'
    BY <1>1, TypeStep
<1>3. Turns'
    BY <1>1, <1>2, TurnsStep
<1>4. Family'
    BY <1>1, <1>2, FamilyStep
<1>5. Locked'
    BY <1>1, LockedStep
<1>6. ASSUME failures' = 0 PROVE Calm'
  <2>1. failures = 0
      BY <1>1, <1>6, CalmNext
  <2>2. Synchronises /\ Diverts /\ Sinks /\ Together /\ Passed /\ Whole /\ Apart
      BY <2>1 DEF IInv, Calm
  <2>3. Synchronises'
      BY <1>1, <1>2, <1>4, <1>6, <2>2, SynchronisesStep
  <2>4. Diverts'
      BY <1>1, <1>6, <2>2, DivertsStep
  <2>5. Sinks'
      BY <1>1, <1>2, <1>6, <2>2, SinksStep
  <2>6. Together'
      BY <1>1, <1>2, <1>3, <1>6, <2>2, TogetherStep
  <2>7. Passed'
      BY <1>1, <1>6, <2>2, PassedStep
  <2>8. Whole'
      BY <1>1, <1>2, <1>3, <1>6, <2>2, WholeStep
  <2>9. Apart'
      BY <1>1, <1>6, <2>2, ApartStep
  <2> QED BY <2>3, <2>4, <2>5, <2>6, <2>7, <2>8, <2>9 DEF Calm
<1> QED BY <1>2, <1>3, <1>4, <1>5, <1>6 DEF IInv

\* The invariant holds of every run, with failures and without.
THEOREM OutputSyncInvariance == Spec => []IInv
<1>1. Init => IInv
    BY InitInv
<1>2. IInv /\ [Next]_vars => IInv'
    BY NextInv
<1> QED BY <1>1, <1>2, PTL DEF Spec

\* No synchronised output of another recipe comes between two chunks that were kept back
\* together, whatever makes run whatever recipes, unless something failed (output.c:257,
\* posixos.c:709).
THEOREM OutputIsApart == Spec => []Apart
<1>1. IInv => Apart
    BY DEF IInv, Calm, Apart
<1> QED BY <1>1, OutputSyncInvariance, PTL
================================================================================
