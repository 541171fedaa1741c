-------------------------------- MODULE JobProof -------------------------------
(***************************************************************************)
(* Proofs about Job, for every set of recipes, every choice of switches    *)
(* and every number of tokens: the accounting of slots and tokens is       *)
(* right; what may be said of recipes and their commands at any moment;    *)
(* what is left when make exits; and the job engine is, for the update     *)
(* walk, what Jobs says.                                                   *)
(***************************************************************************)
EXTENDS JobInv, JobRefines, FiniteSetTheorems, TLAPS

--------------------------------------------------------------------------------
(* Lemmas about the pieces the actions are built from *)

\* A recipe's lines are records with the fields of Lines.
LEMMA RecipeType ==
    ASSUME NEW c \in Files
    PROVE  /\ Recipe[c] \in Seq(Lines)
           /\ Len(Recipe[c]) \in Nat
           /\ \A i \in 1 .. Len(Recipe[c]) : Recipe[c][i] \in Lines
BY RecipeAssumption

\* Using up lines keeps the counters natural numbers (job.c:1371, 1946).
LEMMA UseLinesType ==
    ASSUME TypeOK, NEW c \in Files, NEW i \in Nat, UseLines(c, i)
    PROVE  line' \in [Files -> Nat] /\ commands_started' \in Nat
<1>1. line' \in [Files -> Nat]
  BY DEF UseLines, TypeOK
<1> DEFINE S == {j \in (line[c] + 1) .. i : Counted(Recipe[c][j])}
<1>2. IsFiniteSet((line[c] + 1) .. i)
  BY FS_Interval DEF TypeOK
<1>3. IsFiniteSet(S)
  BY <1>2, FS_Subset
<1>4. Cardinality(S) \in Nat
  BY <1>3, FS_CardinalityType
<1>5. commands_started' = commands_started + Cardinality(S)
  BY DEF UseLines
<1>6. QED
  BY <1>1, <1>4, <1>5 DEF TypeOK

\* A line found by LinesLeft lies beyond the lines used up, inside the recipe.
LEMMA LinesLeftRange ==
    ASSUME TypeOK, NEW c \in Files, NEW i \in LinesLeft(c)
    PROVE  i \in Nat /\ i > line[c] /\ i \in 1 .. Len(Recipe[c])
BY RecipeType DEF LinesLeft, TypeOK

\* The children and the slots are finite sets.
LEMMA ChainFinite ==
    ASSUME TypeOK
    PROVE  IsFiniteSet(children) /\ IsFiniteSet(jobslot) /\ IsFiniteSet(Live)
BY FilesAssumption, FS_Subset DEF TypeOK, Live

\* Taking the first job off the waiting list.
LEMMA TakeHead ==
    ASSUME TypeOK, waiting_jobs # <<>>
    PROVE  /\ Len(waiting_jobs) \in Nat /\ Len(waiting_jobs) >= 1
           /\ Head(waiting_jobs) = waiting_jobs[1]
           /\ Head(waiting_jobs) \in Files
           /\ Tail(waiting_jobs) \in Seq(Files)
           /\ Len(Tail(waiting_jobs)) = Len(waiting_jobs) - 1
           /\ \A i \in 1 .. Len(Tail(waiting_jobs)) :
                 Tail(waiting_jobs)[i] = waiting_jobs[i + 1]
BY DEF TypeOK

\* Putting a job at the head of a list.
LEMMA PutHead ==
    ASSUME NEW s \in Seq(Files), NEW c \in Files
    PROVE  /\ <<c>> \o s \in Seq(Files)
           /\ Len(<<c>> \o s) = Len(s) + 1
           /\ (<<c>> \o s)[1] = c
           /\ \A i \in 1 .. Len(s) : (<<c>> \o s)[i + 1] = s[i]
           /\ \A i \in 1 .. Len(s) + 1 : i # 1 => (<<c>> \o s)[i] = s[i - 1]
OBVIOUS

--------------------------------------------------------------------------------
(* Type correctness *)

\* Starting a line keeps the types (start_job_command).
LEMMA SpawnType ==
    ASSUME TypeOK, NEW c \in Files, NEW i \in LinesLeft(c), Spawn(c, i)
    PROVE  /\ line' \in [Files -> Nat] /\ commands_started' \in Nat
           /\ pid' \in [Files -> PidStates]
           /\ good_stdin' \subseteq Files /\ good_stdin_used' \in BOOLEAN
           /\ command_state' \in [Files -> CommandStates]
           /\ update_status' = update_status
<1>1. line' \in [Files -> Nat] /\ commands_started' \in Nat
  BY UseLinesType, LinesLeftRange DEF Spawn
<1>2. pid' \in [Files -> PidStates]
  BY DEF Spawn, TypeOK, PidStates
<1>3. command_state' \in [Files -> CommandStates]
  BY DEF Spawn, Advance, TypeOK, CommandStates
<1>4. good_stdin' \subseteq Files /\ good_stdin_used' \in BOOLEAN /\ update_status' = update_status
  BY DEF Spawn, TypeOK
<1>5. QED
  BY <1>1, <1>2, <1>3, <1>4

\* Ending a recipe without a process keeps the types.
LEMMA EndsType ==
    ASSUME TypeOK, NEW c \in Files, NEW status, NEW ran, EndsWithoutProcess(c, status, ran)
    PROVE  /\ line' \in [Files -> Nat] /\ commands_started' \in Nat
           /\ status \in {"success", "question"} /\ ran \in BOOLEAN
<1>1. CASE LinesLeft(c) = {} /\ UseLines(c, Len(Recipe[c])) /\ status = "success" /\ ran
  BY <1>1, UseLinesType, RecipeType
<1>2. ASSUME NEW i \in LinesLeft(c), UseLines(c, i), status = "question",
             ran = (command_state[c] = "running")
      PROVE  /\ line' \in [Files -> Nat] /\ commands_started' \in Nat
             /\ status \in {"success", "question"} /\ ran \in BOOLEAN
  BY <1>2, UseLinesType, LinesLeftRange
<1>3. QED
  BY <1>1, <1>2 DEF EndsWithoutProcess

LEMMA NoticeType ==
    ASSUME TypeOK, NEW c \in Files, NEW status \in UpdateStatuses, NEW ran \in BOOLEAN,
           NoticeFinished(c, status, ran)
    PROVE  /\ command_state' \in [Files -> CommandStates]
           /\ update_status' \in [Files -> UpdateStatuses]
BY DEF NoticeFinished, TypeOK, CommandStates

\* Giving back the token of a child (free_child).
LEMMA FreeChildType ==
    ASSUME TypeOK, NEW held \in Nat, held > 0, FreeChild(held)
    PROVE  jobserver_tokens' \in Nat /\ pool' \in Nat /\ others' \in Nat
BY DEF FreeChild, TypeOK

\* While make runs, a job on the chain or on the waiting list means a token is held.
LEMMA TokenHeld ==
    ASSUME IInv, pc # "exit", children # {} \/ waiting_jobs # <<>>
    PROVE  jobserver_tokens > 0
<1>1. IsFiniteSet(children) /\ Cardinality(children) \in Nat
  BY ChainFinite, FS_CardinalityType DEF IInv
<1>2. Len(waiting_jobs) \in Nat
  BY DEF IInv, TypeOK
<1>3. jobserver_tokens = Cardinality(children) + Len(waiting_jobs)
  BY DEF IInv, TokenAccounting
<1>4. children # {} => Cardinality(children) # 0
  BY <1>1, FS_EmptySet
<1>5. waiting_jobs # <<>> => Len(waiting_jobs) # 0
  BY TakeHead DEF IInv
<1>6. QED
  BY <1>1, <1>2, <1>3, <1>4, <1>5

--------------------------------------------------------------------------------
(* The steps that only move control *)

ControlStep ==
    \/ StartWaitingJobs \/ ReapReturns \/ NewJobReaps \/ WaitForSlot \/ NeedToken
    \/ TokenStartsWaiting \/ RecheckToken \/ NewJobReturns \/ DieWaits
    \/ WaitRound \/ RoundReaps \/ \E s \in {MAKE_SUCCESS, MAKE_TROUBLE, MAKE_FAILURE} : Finish(s)

LEMMA ControlStepFrame ==
    ASSUME ControlStep
    PROVE  UNCHANGED <<opt, fileVars, childVars, chainVars, tokenVars>>
BY DEF ControlStep, StartWaitingJobs, ReapReturns, NewJobReaps, WaitForSlot, NeedToken,
       TokenStartsWaiting, RecheckToken, NewJobReturns, DieWaits, WaitRound, RoundReaps, Finish

ReapFrames == [block : BOOLEAN, err : BOOLEAN, ret : ReapCallers]

ControlType ==
    /\ pc \in Locations /\ sret \in SwjCallers /\ cur \in Files \cup {NoFile}
    /\ reap \in ReapFrames
    /\ exit_status \in {-1, MAKE_SUCCESS, MAKE_TROUBLE, MAKE_FAILURE}

\* The part of the invariant that speaks of where make is.
PlaceInv == ControlType /\ CurInv /\ ControlInv /\ SlotInv

\* The data, which these steps leave alone.
Data == <<opt, fileVars, childVars, chainVars, tokenVars>>

\* Every location is one.
LEMMA LocationFacts ==
    /\ \A x \in SwjCallers :
          x \in Locations /\ (x = "new_reap" \/ x = "tok_check" \/ x = "round_reap")
    /\ "new_reap" \in SwjCallers /\ "tok_check" \in SwjCallers /\ "round_reap" \in SwjCallers
    /\ \A x \in ReapCallers :
          /\ x \in Locations
          /\ \/ x = "swj_take" \/ x = "new_slot" \/ x = "tok_swj"
             \/ x = "new_linear" \/ x = "caller" \/ x = "die"
    /\ "swj_take" \in ReapCallers /\ "new_slot" \in ReapCallers /\ "tok_swj" \in ReapCallers
    /\ "new_linear" \in ReapCallers /\ "caller" \in ReapCallers /\ "die" \in ReapCallers
    /\ "reap" \in Locations /\ "swj" \in Locations /\ "new_token" \in Locations
    /\ "acquire" \in Locations /\ "new_start" \in Locations /\ "exit" \in Locations
    /\ "swj_take" \in Locations /\ "new_slot" \in Locations /\ "tok_swj" \in Locations
    /\ "new_linear" \in Locations /\ "caller" \in Locations /\ "die" \in Locations
    /\ NoFrame \in ReapFrames /\ NoCaller \in SwjCallers
    /\ NoFrame.ret = "caller"
BY DEF SwjCallers, ReapCallers, Locations, NoFrame, NoCaller, ReapFrames

\* Calling reap_children.
LEMMA CallReapFrame ==
    ASSUME NEW block \in BOOLEAN, NEW err \in BOOLEAN, NEW ret \in ReapCallers,
           CallReap(block, err, ret)
    PROVE  pc' = "reap" /\ reap' \in ReapFrames /\ reap'.ret = ret
BY DEF CallReap, ReapFrames

\* A step that leaves the data alone keeps what the invariant says of the data.
LEMMA DataInv ==
    ASSUME TypeOK, ChainInv, WaitingInv, OnceInv, UNCHANGED Data, ControlType'
    PROVE  TypeOK' /\ ChainInv' /\ WaitingInv' /\ OnceInv'
<1> USE DEF Data, fileVars, childVars, chainVars, tokenVars
<1>1. TypeOK'
  BY DEF TypeOK, ControlType, ReapFrames
<1>2. ChainInv'
  BY DEF ChainInv, IgnoredEarlier
<1>3. WaitingInv' /\ OnceInv'
  BY DEF WaitingInv, WaitList, OnceInv, Fresh
<1>4. QED
  BY <1>1, <1>2, <1>3

\* What each of these steps does to the places: the frames and callers are among
\* those known, new_job keeps its file until it has started it, the waiting list is
\* not empty where a job is taken off it, a job that is about to start has a slot, and
\* a token or the free one.
Moved ==
    /\ ControlType' /\ ControlInv'
    /\ InNewJob' => InNewJob /\ cur' = cur
    /\ pc' = "new_start" =>
          /\ opt.slots # 0 => job_slots_used # opt.slots
          /\ opt.jobserver => jobserver_tokens = 0
    /\ pc # "new_start" /\ pc # "exit"

\* No job waits and no child is on the chain only if no token is held.
LEMMA NoJobNoToken ==
    ASSUME TypeOK, TokenAccounting, pc # "exit", children = {}, waiting_jobs = <<>>
    PROVE  jobserver_tokens = 0
BY FS_EmptySet DEF TypeOK, TokenAccounting

LEMMA ControlStepMoves ==
    ASSUME TypeOK, TokenAccounting, ControlType, ControlInv, ControlStep
    PROVE  Moved
<1> USE DEF Moved, ControlType, ControlInv, InNewJob, InSwj, InToken,  Data, chainVars
<1> USE LocationFacts, CallReapFrame
<1>0. opt.jobserver \in BOOLEAN /\ (opt.jobserver => opt.slots = 0)
  BY OptionsAssumption DEF TypeOK, OptionType
<1>1. CASE StartWaitingJobs
  <2>1. CASE waiting_jobs = <<>>
    BY <1>1, <2>1 DEF StartWaitingJobs
  <2>2. CASE waiting_jobs # <<>>
    BY <1>1, <2>2 DEF StartWaitingJobs
  <2>3. QED
    BY <2>1, <2>2
<1>2. CASE ReapReturns
  BY <1>2 DEF ReapReturns, ReapFrames
<1>3. CASE NewJobReaps
  BY <1>3 DEF NewJobReaps
<1>4. CASE WaitForSlot
  <2>1. CASE opt.slots # 0 /\ job_slots_used = opt.slots
    BY <1>4, <2>1 DEF WaitForSlot
  <2>2. CASE ~(opt.slots # 0 /\ job_slots_used = opt.slots) /\ opt.slots = 0 /\ opt.jobserver
    BY <1>4, <2>2 DEF WaitForSlot
  <2>3. CASE ~(opt.slots # 0 /\ job_slots_used = opt.slots) /\ ~(opt.slots = 0 /\ opt.jobserver)
    BY <1>4, <2>3, <1>0 DEF WaitForSlot
  <2>4. QED
    BY <2>1, <2>2, <2>3
<1>5. CASE NeedToken
  <2>1. CASE jobserver_tokens = 0
    BY <1>5, <2>1 DEF NeedToken
  <2>2. CASE jobserver_tokens # 0
    BY <1>5, <2>2 DEF NeedToken
  <2>3. QED
    BY <2>1, <2>2
<1>6. CASE TokenStartsWaiting
  BY <1>6 DEF TokenStartsWaiting, CallStartWaitingJobs
<1>7. CASE RecheckToken
  <2>1. CASE jobserver_tokens = 0
    BY <1>7, <2>1 DEF RecheckToken
  <2>2. CASE jobserver_tokens # 0 /\ children = {}
    BY <1>7, <2>2, NoJobNoToken DEF RecheckToken
  <2>3. CASE jobserver_tokens # 0 /\ children # {}
    BY <1>7, <2>3 DEF RecheckToken
  <2>4. QED
    BY <2>1, <2>2, <2>3
<1>8. CASE NewJobReturns
  <2>1. CASE (opt.slots = 1 \/ opt.not_parallel) /\ command_state[cur] = "running"
    BY <1>8, <2>1 DEF NewJobReturns
  <2>2. CASE ~((opt.slots = 1 \/ opt.not_parallel) /\ command_state[cur] = "running")
    BY <1>8, <2>2 DEF NewJobReturns
  <2>3. QED
    BY <2>1, <2>2
<1>9. CASE DieWaits
  BY <1>9 DEF DieWaits
<1>10. CASE WaitRound
  BY <1>10 DEF WaitRound, CallStartWaitingJobs
<1>11. CASE RoundReaps
  BY <1>11 DEF RoundReaps
<1>12. ASSUME NEW s \in {MAKE_SUCCESS, MAKE_TROUBLE, MAKE_FAILURE}, Finish(s)
       PROVE  Moved
  BY <1>12 DEF Finish, CallDie
<1>13. QED
  BY <1>1, <1>2, <1>3, <1>4, <1>5, <1>6, <1>7, <1>8, <1>9, <1>10, <1>11, <1>12 DEF ControlStep

\* The control steps keep the whole invariant.
LEMMA ControlStepInv ==
    ASSUME IInv, ControlStep
    PROVE  IInv'
<1>1. ControlType /\ opt \in OptionType /\ job_slots_used \in Nat
  BY OptionsAssumption DEF IInv, TypeOK, ControlType, ReapFrames
<1>2. Moved
  BY <1>1, ControlStepMoves DEF IInv
<1>3. UNCHANGED Data
  BY ControlStepFrame DEF Data
<1>4. TypeOK' /\ ChainInv' /\ WaitingInv' /\ OnceInv'
  BY <1>2, <1>3, DataInv DEF IInv, Moved
<1>5. CurInv'
  BY <1>2, <1>3 DEF IInv, Moved, CurInv, Data, Fresh, NotIn, childVars, chainVars
<1>6. SlotInv'
  BY <1>1, <1>2, <1>3 DEF IInv, Moved, SlotInv, OptionType, Data, chainVars
<1>7. TokenAccounting'
  BY <1>2, <1>3 DEF IInv, Moved, TokenAccounting, Data, tokenVars, chainVars
<1>8. TokenConservation'
  BY <1>1, <1>2, <1>3 DEF IInv, Moved, TokenConservation, Drawn, OptionType, Data, tokenVars
<1>9. QED
  BY <1>2, <1>4, <1>5, <1>6, <1>7, <1>8 DEF IInv, Moved

--------------------------------------------------------------------------------
(* The steps of the world outside, and those of the jobserver *)

\* A command that ends was on the chain, and stays on it until it is reaped.
LEMMA ChildExitsInv ==
    ASSUME IInv, NEW c \in Files, ChildExits(c)
    PROVE  IInv'
<1> USE DEF ChildExits, chainVars, tokenVars, ctlVars
<1>1. PICK e \in Exits : pid' = [pid EXCEPT ![c] = e]
  OBVIOUS
<1>2. e \in ExitKinds /\ e \in PidStates /\ e # "unborn"
  BY ExitsAssumption DEF PidStates, ExitKinds
<1>3. TypeOK'
  BY <1>1, <1>2 DEF IInv, TypeOK
<1>4. c \in children /\ pid[c] = "alive"
  BY DEF IInv, ChainInv, OffChain
<1>5. ChainInv'
  BY <1>1, <1>2, <1>4 DEF IInv, TypeOK, ChainInv, OnChain, IgnoredEarlier
<1>6. \A f : Fresh(f) => Fresh(f)'
  BY <1>1, <1>4 DEF IInv, TypeOK, Fresh
<1>7. WaitingInv' /\ OnceInv' /\ CurInv'
  BY <1>6 DEF IInv, WaitingInv, WaitList, OnceInv, CurInv, NotIn, InNewJob, InSwj
<1>8. ControlInv' /\ SlotInv' /\ TokenAccounting' /\ TokenConservation'
  BY DEF IInv, ControlInv, InToken, InSwj, SlotInv, TokenAccounting, TokenConservation, Drawn
<1>9. QED
  BY <1>3, <1>5, <1>7, <1>8 DEF IInv

\* Other makes move tokens between the pipe and themselves.
LEMMA PeerInv ==
    ASSUME IInv, PeerTakesToken \/ PeerReturnsToken
    PROVE  IInv'
<1> USE DEF PeerTakesToken, PeerReturnsToken, fileVars, childVars, chainVars, ctlVars
<1>1. TypeOK'
  BY DEF IInv, TypeOK
<1>2. ChainInv' /\ WaitingInv' /\ OnceInv' /\ CurInv'
  BY DEF IInv, ChainInv, IgnoredEarlier, WaitingInv, WaitList, Fresh, OnceInv, CurInv, NotIn,
         InNewJob, InSwj
<1>3. ControlInv' /\ SlotInv' /\ TokenAccounting'
  BY DEF IInv, ControlInv, InToken, InSwj, SlotInv, TokenAccounting
<1>4. TokenConservation'
  <2>1. pool' + others' = pool + others
    BY DEF IInv, TypeOK
  <2>2. Drawn' = Drawn /\ Drawn \in Int /\ opt' = opt
    BY DEF IInv, TypeOK, Drawn
  <2>3. QED
    BY <1>1, <2>1, <2>2 DEF IInv, TypeOK, TokenConservation
<1>5. QED
  BY <1>1, <1>2, <1>3, <1>4 DEF IInv

\* While make is after a token it holds one, the free one included.
LEMMA AcquireTokenInv ==
    ASSUME IInv, AcquireToken
    PROVE  IInv'
<1> USE DEF AcquireToken
<1> USE DEF fileVars, childVars, chainVars
<1>1. jobserver_tokens > 0 /\ opt.slots = 0
  BY TokenHeld DEF IInv, ControlInv, InToken
<1>2. TypeOK'
  BY LocationFacts DEF IInv, TypeOK
<1>3. ChainInv' /\ WaitingInv' /\ OnceInv'
  BY DEF IInv, ChainInv, IgnoredEarlier, WaitingInv, WaitList, Fresh, OnceInv
<1>4. CurInv'
  BY DEF IInv, CurInv, NotIn, Fresh, InNewJob, InSwj
<1>5. ControlInv'
  BY DEF IInv, ControlInv, InToken, InSwj
<1>6. SlotInv' /\ TokenAccounting'
  BY <1>1 DEF IInv, SlotInv, TokenAccounting
<1>7. TokenConservation'
  BY <1>1 DEF IInv, TypeOK, TokenConservation, Drawn
<1>8. QED
  BY <1>2, <1>3, <1>4, <1>5, <1>6, <1>7 DEF IInv

\* die gives back every token but the free one, or exits with them.
LEMMA DieExitsInv ==
    ASSUME IInv, DieExits
    PROVE  IInv'
<1> USE DEF DieExits
<1> USE DEF fileVars, childVars, chainVars
<1>1. pc = "die" /\ pc' = "exit" /\ opt' = opt /\ others' = others
  OBVIOUS
<1>2. ASSUME opt.jobserver /\ jobserver_tokens # 0 /\ exit_status = MAKE_FAILURE
      PROVE  TypeOK' /\ TokenConservation'
  <2>1. TypeOK'
    BY <1>2, LocationFacts DEF IInv, TypeOK
  <2>2. TokenConservation'
    BY <1>2 DEF IInv, TypeOK, TokenConservation, Drawn
  <2>3. QED
    BY <2>1, <2>2
<1>3. ASSUME ~(opt.jobserver /\ jobserver_tokens # 0 /\ exit_status = MAKE_FAILURE)
      PROVE  TypeOK' /\ TokenConservation'
  <2>1. TypeOK'
    BY <1>3, LocationFacts DEF IInv, TypeOK
  <2>2. TokenConservation'
    BY <1>3 DEF IInv, TypeOK, TokenConservation, Drawn
  <2>3. QED
    BY <2>1, <2>2
<1>4. ChainInv' /\ WaitingInv' /\ OnceInv'
  BY DEF IInv, ChainInv, IgnoredEarlier, WaitingInv, WaitList, Fresh, OnceInv
<1>5. CurInv' /\ ControlInv' /\ SlotInv' /\ TokenAccounting'
  BY <1>1 DEF IInv, CurInv, ControlInv, InNewJob, InToken, InSwj, SlotInv, TokenAccounting
<1>6. TypeOK' /\ TokenConservation'
  BY <1>2, <1>3
<1>7. QED
  BY <1>4, <1>5, <1>6 DEF IInv

\* The last step, repeated.
LEMMA StutterInv ==
    ASSUME IInv, UNCHANGED vars
    PROVE  IInv'
<1> USE DEF vars, fileVars, childVars, chainVars, tokenVars, ctlVars
<1>1. TypeOK' /\ ChainInv' /\ WaitingInv' /\ OnceInv'
  BY DEF IInv, TypeOK, ChainInv, IgnoredEarlier, WaitingInv, WaitList, Fresh, OnceInv
<1>2. CurInv' /\ ControlInv' /\ SlotInv' /\ TokenAccounting' /\ TokenConservation'
  BY DEF IInv, CurInv, NotIn, Fresh, ControlInv, InNewJob, InToken, InSwj, SlotInv,
         TokenAccounting, TokenConservation, Drawn
<1>3. QED
  BY <1>1, <1>2 DEF IInv

--------------------------------------------------------------------------------
(* Starting a job *)

\* A file never goes back to "not started".
LEMMA NoticeForward ==
    ASSUME TypeOK, NEW c \in Files, NEW status, NEW ran, NoticeFinished(c, status, ran)
    PROVE  \A g \in Files :
              /\ command_state'[g] = "not_started" => command_state[g] = "not_started"
              /\ command_state[g] # "not_started" => command_state'[g] # "not_started"
BY DEF TypeOK, NoticeFinished

LEMMA AdvanceForward ==
    ASSUME TypeOK, NEW c \in Files, command_state' = Advance(c, "running")
    PROVE  /\ command_state' \in [Files -> CommandStates]
           /\ command_state'[c] = "running"
           /\ \A g \in Files :
                 /\ command_state'[g] = "not_started" => command_state[g] = "not_started"
                 /\ command_state[g] # "not_started" => command_state'[g] # "not_started"
BY DEF TypeOK, Advance, CommandStates

\* The part of the type invariant that speaks of the data.
DataType ==
    /\ opt \in Options
    /\ command_state \in [Files -> CommandStates]
    /\ update_status \in [Files -> UpdateStatuses]
    /\ target \in [Files -> {"old", "changed", "removed"}]
    /\ line \in [Files -> Nat]
    /\ pid \in [Files -> PidStates]
    /\ jobslot \subseteq Files /\ good_stdin \subseteq Files
    /\ dontcare \subseteq Files /\ children \subseteq Files
    /\ waiting_jobs \in Seq(Files)
    /\ job_slots_used \in Nat /\ good_stdin_used \in BOOLEAN /\ commands_started \in Nat
    /\ jobserver_tokens \in Nat /\ pool \in Nat /\ others \in Nat

LEMMA TypeParts == TypeOK <=> DataType /\ ControlType
BY DEF TypeOK, DataType, ControlType, ReapFrames

LEMMA TypePartsPrime == TypeOK' <=> DataType' /\ ControlType'
BY DEF TypeOK, DataType, ControlType, ReapFrames

\* What holds of the data after a fresh job c has been dealt with: it is on the chain,
\* on the waiting list, or over.
StartResult(c, s, held) ==
    /\ DataType' /\ ChainInv' /\ WaitingInv' /\ OnceInv'
    /\ \A f \in Files \ {c} : Fresh(f) => Fresh(f)'
    /\ opt' = opt /\ others' = others

\* A job whose first line runs (start_job_command).
LEMMA StartedResult ==
    ASSUME IInv, NEW c \in Files, NEW s \in Seq(Files), NEW held \in Nat, Fresh(c),
           WaitList(s), NotIn(c, s), Started(c, s, held), opt' = opt
    PROVE  /\ StartResult(c, s, held)
           /\ children' = children \cup {c} /\ Cardinality(children') = Cardinality(children) + 1
           /\ waiting_jobs' = s /\ jobserver_tokens' = held /\ pool' = pool
           /\ job_slots_used' <= job_slots_used + 1
<1>1. PICK i \in LinesLeft(c) : Spawn(c, i)
  BY DEF Started
<1>2. /\ line' \in [Files -> Nat] /\ commands_started' \in Nat /\ pid' \in [Files -> PidStates]
      /\ good_stdin' \subseteq Files /\ good_stdin_used' \in BOOLEAN
      /\ command_state' \in [Files -> CommandStates] /\ update_status' = update_status
  BY <1>1, SpawnType DEF IInv
<1>3. PICK p \in {"alive", "nospawn"} : pid' = [pid EXCEPT ![c] = p]
  BY <1>1 DEF Spawn
<1>4. line' = [line EXCEPT ![c] = i] /\ i \in 1 .. Len(Recipe[c])
  BY <1>1, LinesLeftRange DEF Spawn, UseLines, IInv
<1>5. c \notin children /\ c \notin jobslot /\ pid'[c] = p
  BY <1>3 DEF Fresh, IInv, TypeOK, ChainInv
<1>6. /\ children' = children \cup {c} /\ waiting_jobs' = s /\ jobserver_tokens' = held
      /\ target' = target /\ dontcare' = dontcare /\ pool' = pool /\ others' = others
  BY DEF Started
<1>7. \/ p = "alive" /\ job_slots_used' = job_slots_used + 1 /\ jobslot' = jobslot \cup {c}
      \/ p = "nospawn" /\ job_slots_used' = job_slots_used /\ jobslot' = jobslot
  BY <1>5 DEF Started
<1>8. DataType'
  BY <1>2, <1>6, <1>7 DEF IInv, TypeOK, DataType
<1>9. /\ Cardinality(children') = Cardinality(children) + 1
      /\ Cardinality(jobslot \cup {c}) = Cardinality(jobslot) + 1
  BY <1>5, <1>6, ChainFinite, FS_AddElement DEF IInv
<1>10. ChainInv'
  <2>1. \A d \in children : line'[d] = line[d] /\ pid'[d] = pid[d]
    BY <1>3, <1>4, <1>5 DEF IInv, TypeOK
  <2>2. \A d \in children' : pid'[d] \in OnChain /\ line'[d] \in 1 .. Len(Recipe[d])
    BY <1>3, <1>4, <1>5, <1>6, <2>1 DEF IInv, TypeOK, ChainInv, OnChain
  <2>3. \A d \in children' : d \in jobslot' \/ pid'[d] = "nospawn" \/ IgnoredEarlier(d)'
    BY <1>5, <1>6, <1>7, <2>1 DEF IInv, ChainInv, IgnoredEarlier
  <2>4. \A d \in Files \ children' : pid'[d] \in OffChain
    BY <1>3, <1>6 DEF IInv, TypeOK, ChainInv
  <2>5. jobslot' \subseteq children' /\ job_slots_used' = Cardinality(jobslot')
    BY <1>6, <1>7, <1>9 DEF IInv, ChainInv
  <2>6. QED
    BY <2>2, <2>3, <2>4, <2>5 DEF ChainInv
<1>11. \A f \in Files \ {c} : Fresh(f) => Fresh(f)'
  BY <1>3, <1>6 DEF IInv, TypeOK, Fresh
<1>12. command_state' = Advance(c, "running")
  BY <1>1 DEF Spawn
<1>13. WaitingInv'
  <2>1. \A k \in 1 .. Len(s) : s[k] \in Files \ {c} /\ command_state'[s[k]] # "not_started"
    BY <1>12, AdvanceForward DEF WaitList, NotIn, IInv
  <2>2. QED
    BY <1>6, <1>11, <2>1 DEF WaitingInv, WaitList
<1>14. OnceInv'
  BY <1>11, <1>12, AdvanceForward DEF IInv, OnceInv
<1>15. QED
  BY <1>6, <1>7, <1>8, <1>9, <1>10, <1>11, <1>13, <1>14 DEF StartResult, IInv, TypeOK

\* A job that needed no process.
LEMMA FinishedAtOnceResult ==
    ASSUME IInv, NEW c \in Files, NEW s \in Seq(Files), NEW held \in Nat, held > 0, Fresh(c),
           WaitList(s), NotIn(c, s), FinishedAtOnce(c, s, held), opt' = opt
    PROVE  /\ StartResult(c, s, held)
           /\ children' = children /\ job_slots_used' = job_slots_used
           /\ waiting_jobs' = s /\ jobserver_tokens' = held - 1
           /\ pool' = IF opt.jobserver /\ held > 1 THEN pool + 1 ELSE pool
<1>1. PICK status \in {"success", "question"}, ran \in BOOLEAN :
         EndsWithoutProcess(c, status, ran) /\ NoticeFinished(c, status, ran)
  BY DEF FinishedAtOnce
<1>2. /\ line' \in [Files -> Nat] /\ commands_started' \in Nat
      /\ command_state' \in [Files -> CommandStates]
      /\ update_status' \in [Files -> UpdateStatuses]
  BY <1>1, EndsType, NoticeType DEF IInv, UpdateStatuses
<1>3. jobserver_tokens' \in Nat /\ pool' \in Nat /\ others' \in Nat
  BY FreeChildType DEF FinishedAtOnce, IInv
<1>4. /\ UNCHANGED <<target, pid, jobslot, good_stdin, children, job_slots_used,
                     good_stdin_used, others>>
      /\ waiting_jobs' = s /\ jobserver_tokens' = held - 1 /\ dontcare' = dontcare \ {c}
      /\ pool' = IF opt.jobserver /\ held > 1 THEN pool + 1 ELSE pool
  BY DEF FinishedAtOnce, FreeChild
<1>5. DataType'
  BY <1>2, <1>3, <1>4 DEF IInv, TypeOK, DataType
<1>6. \A d \in children : line'[d] = line[d]
  BY <1>1 DEF EndsWithoutProcess, UseLines, Fresh, IInv, TypeOK
<1>7. ChainInv'
  BY <1>4, <1>6 DEF IInv, ChainInv, IgnoredEarlier
<1>8. \A f : Fresh(f) => Fresh(f)'
  BY <1>4 DEF Fresh
<1>9. \A g \in Files :
         /\ command_state'[g] = "not_started" => command_state[g] = "not_started"
         /\ command_state[g] # "not_started" => command_state'[g] # "not_started"
  BY <1>1, NoticeForward DEF IInv
<1>10. WaitingInv' /\ OnceInv'
  BY <1>4, <1>8, <1>9 DEF IInv, WaitingInv, WaitList, OnceInv
<1>11. QED
  BY <1>4, <1>5, <1>7, <1>8, <1>10 DEF StartResult

\* Fresh(c)' for a c that does not depend on the state.
FreshNext(c) == c \in Files /\ c \notin children' /\ pid'[c] = "unborn"

\* A job held back by the load.
LEMMA LoadTooHighResult ==
    ASSUME IInv, NEW c \in Files, NEW s \in Seq(Files), NEW held \in Nat, Fresh(c),
           WaitList(s), NotIn(c, s), LoadTooHigh(c, s, held), opt' = opt
    PROVE  /\ StartResult(c, s, held)
           /\ children' = children /\ children # {} /\ job_slots_used' = job_slots_used
           /\ waiting_jobs' = <<c>> \o s /\ waiting_jobs' # <<>>
           /\ Len(waiting_jobs') = Len(s) + 1
           /\ jobserver_tokens' = held /\ pool' = pool /\ opt.load
<1>1. /\ UNCHANGED <<update_status, target, childVars, children, job_slots_used,
                     good_stdin_used, commands_started, pool, others>>
      /\ waiting_jobs' = <<c>> \o s /\ jobserver_tokens' = held
      /\ command_state' = Advance(c, "running")
      /\ opt.load /\ job_slots_used > 0
  BY DEF LoadTooHigh
<1>2. /\ command_state' \in [Files -> CommandStates] /\ command_state'[c] = "running"
      /\ \A g \in Files :
            /\ command_state'[g] = "not_started" => command_state[g] = "not_started"
            /\ command_state[g] # "not_started" => command_state'[g] # "not_started"
  BY <1>1, AdvanceForward DEF IInv
<1>3. waiting_jobs' \in Seq(Files) /\ Len(waiting_jobs') = Len(s) + 1 /\ waiting_jobs' # <<>>
  BY <1>1, PutHead
<1>4. DataType'
  BY <1>1, <1>2, <1>3 DEF IInv, TypeOK, DataType, childVars
<1>5. ChainInv'
  BY <1>1 DEF IInv, ChainInv, IgnoredEarlier, childVars
<1>6. \A f : Fresh(f) => FreshNext(f)
  BY <1>1 DEF Fresh, FreshNext, childVars
<1>7. /\ waiting_jobs'[1] = c
      /\ \A k \in 1 .. Len(s) + 1 : k # 1 => waiting_jobs'[k] = s[k - 1] /\ k - 1 \in 1 .. Len(s)
  BY <1>1, PutHead
<1>8. WaitingInv'
  <2> DEFINE w == waiting_jobs'
  <2>1. ASSUME NEW k \in 1 .. Len(w)
        PROVE  FreshNext(w[k]) /\ command_state'[w[k]] # "not_started"
    <3>1. CASE k = 1
      BY <1>1, <1>2, <1>6, <1>7, <3>1
    <3>2. CASE k # 1
      <4>1. w[k] = s[k - 1] /\ k - 1 \in 1 .. Len(s)
        BY <1>3, <1>7, <3>2
      <4>2. Fresh(s[k - 1]) /\ command_state[s[k - 1]] # "not_started"
        BY <4>1 DEF WaitList
      <4>3. QED
        BY <1>2, <1>6, <4>1, <4>2 DEF Fresh
    <3>3. QED
      BY <3>1, <3>2
  <2>2. ASSUME NEW k \in 1 .. Len(w), NEW l \in 1 .. Len(w), w[k] = w[l]
        PROVE  k = l
    <3>1. k # 1 => w[k] = s[k - 1] /\ k - 1 \in 1 .. Len(s)
      BY <1>3, <1>7
    <3>2. l # 1 => w[l] = s[l - 1] /\ l - 1 \in 1 .. Len(s)
      BY <1>3, <1>7
    <3>3. w[1] = c
      BY <1>7
    <3>4. CASE k # 1 /\ l # 1
      BY <2>2, <3>1, <3>2, <3>4 DEF WaitList
    <3>5. CASE k = 1 \/ l = 1
      BY <2>2, <3>1, <3>2, <3>3, <3>5 DEF NotIn
    <3>6. QED
      BY <3>4, <3>5
  <2>3. QED
    BY <2>1, <2>2 DEF WaitingInv, WaitList, Fresh, FreshNext
<1>9. OnceInv'
  BY <1>2, <1>6 DEF IInv, OnceInv, Fresh, FreshNext
<1>10. children # {}
  <2>1. jobslot \subseteq children /\ Cardinality(jobslot) # 0
    BY <1>1 DEF IInv, TypeOK, ChainInv
  <2>2. Cardinality({}) = 0
    BY FS_EmptySet
  <2>3. children = {} => jobslot = {}
    BY <2>1
  <2>4. QED
    BY <2>1, <2>2, <2>3
<1>11. QED
  BY <1>1, <1>3, <1>4, <1>5, <1>6, <1>8, <1>9, <1>10 DEF StartResult, Fresh, FreshNext

\* start_waiting_jobs takes the first job off the list: its token stays the job's.
LEMMA TakeWaitingJobInv ==
    ASSUME IInv, TakeWaitingJob
    PROVE  IInv'
<1> DEFINE c == Head(waiting_jobs)
           s == Tail(waiting_jobs)
           held == jobserver_tokens
<1>1. /\ pc = "swj_take" /\ opt' = opt /\ reap' = reap /\ cur' = cur
      /\ exit_status' = exit_status
  BY DEF TakeWaitingJob
<1>2. waiting_jobs # <<>> /\ opt \in OptionType
  BY <1>1, OptionsAssumption DEF IInv, ControlInv, TypeOK
<1>3. /\ c \in Files /\ s \in Seq(Files) /\ held \in Nat /\ held > 0
      /\ Len(s) \in Nat /\ Len(waiting_jobs) \in Nat /\ Len(s) = Len(waiting_jobs) - 1
  BY <1>1, <1>2, TakeHead, TokenHeld DEF IInv, TypeOK
<1>4. Fresh(c) /\ WaitList(s) /\ NotIn(c, s)
  <2>1. c = waiting_jobs[1] /\ \A k \in 1 .. Len(s) : s[k] = waiting_jobs[k + 1]
    BY <1>2, TakeHead DEF IInv
  <2>2. \A k \in 1 .. Len(s) : k + 1 \in 1 .. Len(waiting_jobs) /\ k + 1 # 1
    BY <1>3
  <2>3. 1 \in 1 .. Len(waiting_jobs)
    BY <1>2, TakeHead DEF IInv
  <2>4. QED
    BY <2>1, <2>2, <2>3 DEF IInv, WaitingInv, WaitList, NotIn
<1>5. InNewJob => cur # c /\ Fresh(cur) /\ NotIn(cur, s)
  <2>1. c = waiting_jobs[1] /\ \A k \in 1 .. Len(s) : s[k] = waiting_jobs[k + 1]
    BY <1>2, TakeHead DEF IInv
  <2>2. \A k \in 1 .. Len(s) : k + 1 \in 1 .. Len(waiting_jobs)
    BY <1>3
  <2>3. 1 \in 1 .. Len(waiting_jobs)
    BY <1>2, TakeHead DEF IInv
  <2>4. QED
    BY <2>1, <2>2, <2>3 DEF IInv, CurInv, NotIn
<1>6. held = Cardinality(children) + Len(waiting_jobs) /\ Cardinality(children) \in Nat
  BY <1>1, ChainFinite, FS_CardinalityType DEF IInv, TokenAccounting
<1>7. SlotInv'
  BY <1>1, <1>2 DEF IInv, SlotInv
<1>8. opt.jobserver => pool + others + (held - 1) = Tokens
  BY <1>1, <1>3 DEF IInv, TokenConservation, Drawn
<1>9. ASSUME Started(c, s, held), pc' = "swj", sret' = sret
      PROVE  IInv'
  <2>1. /\ StartResult(c, s, held)
        /\ children' = children \cup {c} /\ Cardinality(children') = Cardinality(children) + 1
        /\ waiting_jobs' = s /\ jobserver_tokens' = held /\ pool' = pool
    BY <1>1, <1>3, <1>4, <1>9, StartedResult
  <2>2. ControlType' /\ ControlInv'
    BY <1>1, <1>9, LocationFacts, TypeParts DEF IInv, ControlType, ControlInv, InToken, InSwj
  <2>3. CurInv'
    BY <1>1, <1>5, <1>9, <2>1 DEF CurInv, InNewJob, InSwj, StartResult, Fresh, NotIn
  <2>4. TokenAccounting'
    BY <1>3, <1>6, <2>1 DEF TokenAccounting
  <2>5. TokenConservation'
    BY <1>3, <1>8, <1>9, <2>1 DEF TokenConservation, Drawn, StartResult
  <2>6. QED
    BY <1>7, <2>1, <2>2, <2>3, <2>4, <2>5, TypePartsPrime DEF StartResult, IInv
<1>10. ASSUME FinishedAtOnce(c, s, held), pc' = "swj", sret' = sret
       PROVE  IInv'
  <2>1. /\ StartResult(c, s, held) /\ children' = children
        /\ waiting_jobs' = s /\ jobserver_tokens' = held - 1
        /\ pool' = IF opt.jobserver /\ held > 1 THEN pool + 1 ELSE pool
    BY <1>1, <1>3, <1>4, <1>10, FinishedAtOnceResult
  <2>2. ControlType' /\ ControlInv'
    BY <1>1, <1>10, LocationFacts, TypeParts DEF IInv, ControlType, ControlInv, InToken, InSwj
  <2>3. CurInv'
    BY <1>1, <1>5, <1>10, <2>1 DEF CurInv, InNewJob, InSwj, StartResult, Fresh, NotIn
  <2>4. TokenAccounting'
    BY <1>3, <1>6, <2>1 DEF TokenAccounting
  <2>5. TokenConservation'
    BY <1>3, <1>8, <1>10, <2>1 DEF IInv, TypeOK, TokenConservation, Drawn, StartResult
  <2>6. QED
    BY <1>7, <2>1, <2>2, <2>3, <2>4, <2>5, TypePartsPrime DEF StartResult, IInv
<1>11. ASSUME LoadTooHigh(c, s, held), pc' = sret, sret' = NoCaller
       PROVE  IInv'
  <2>1. /\ StartResult(c, s, held) /\ children' = children /\ children # {}
        /\ waiting_jobs' = <<c>> \o s /\ waiting_jobs' # <<>>
        /\ Len(waiting_jobs') = Len(s) + 1 /\ jobserver_tokens' = held /\ pool' = pool
    BY <1>1, <1>3, <1>4, <1>11, LoadTooHighResult
  <2>2. ControlType' /\ ControlInv'
    BY <1>1, <1>11, <2>1, LocationFacts, TypeParts
       DEF IInv, ControlType, ControlInv, InToken, InSwj
  <2>3. CurInv'
    <3>1. InNewJob' => InNewJob
      BY <1>1, <1>11, LocationFacts DEF IInv, TypeOK, InNewJob, InSwj
    <3>2. InNewJob => Fresh(cur)'
      BY <1>1, <1>5, <2>1 DEF StartResult, Fresh
    <3>3. /\ waiting_jobs'[1] = c
          /\ \A k \in 1 .. Len(s) + 1 : k # 1 => waiting_jobs'[k] = s[k - 1] /\ k - 1 \in 1 .. Len(s)
      BY <1>3, <2>1, PutHead
    <3>4. InNewJob => \A k \in 1 .. Len(waiting_jobs') : waiting_jobs'[k] # cur
      BY <1>5, <2>1, <3>3 DEF NotIn
    <3>5. QED
      BY <1>1, <3>1, <3>2, <3>4 DEF CurInv, NotIn
  <2>4. TokenAccounting'
    BY <1>3, <1>6, <2>1 DEF TokenAccounting
  <2>5. pc' # "new_start"
    BY <1>11, LocationFacts DEF IInv, TypeOK
  <2>6. TokenConservation'
    BY <1>3, <1>8, <2>1, <2>5 DEF TokenConservation, Drawn, StartResult
  <2>7. QED
    BY <1>7, <2>1, <2>2, <2>3, <2>4, <2>6, TypePartsPrime DEF StartResult, IInv
<1>12. QED
  BY <1>9, <1>10, <1>11 DEF TakeWaitingJob, StartWaitingJob

\* new_job starts its own job: the token it drew, or the free one, is the job's.
LEMMA StartNewJobInv ==
    ASSUME IInv, StartNewJob
    PROVE  IInv'
<1> DEFINE s == waiting_jobs
           held == jobserver_tokens + 1
<1>1. /\ pc = "new_start" /\ pc' = "new_linear" /\ opt' = opt /\ reap' = reap
      /\ sret' = sret /\ cur' = cur /\ exit_status' = exit_status
  BY DEF StartNewJob
<1>2. /\ s \in Seq(Files) /\ held \in Nat /\ held > 0 /\ Len(s) \in Nat
      /\ opt \in OptionType /\ job_slots_used \in Nat
  BY OptionsAssumption DEF IInv, TypeOK
<1>3. Fresh(cur) /\ cur \in Files /\ WaitList(s) /\ NotIn(cur, s)
  BY <1>1 DEF IInv, CurInv, InNewJob, Fresh, WaitingInv
<1>4. jobserver_tokens = Cardinality(children) + Len(s) /\ Cardinality(children) \in Nat
  BY <1>1, ChainFinite, FS_CardinalityType DEF IInv, TokenAccounting
<1>5. opt.jobserver => pool + others + (held - 1) = Tokens
  BY <1>1, <1>2 DEF IInv, TypeOK, TokenConservation, Drawn
<1>6. ControlType' /\ ControlInv' /\ CurInv'
  BY <1>1, LocationFacts, TypeParts
     DEF IInv, ControlType, ControlInv, CurInv, InToken, InNewJob, InSwj
<1>7. opt.slots # 0 /\ ~opt.load => s = <<>> /\ job_slots_used < opt.slots
  BY <1>1 DEF IInv, SlotInv
<1>8. ASSUME Started(cur, s, held)
      PROVE  IInv'
  <2>1. /\ StartResult(cur, s, held)
        /\ children' = children \cup {cur} /\ Cardinality(children') = Cardinality(children) + 1
        /\ waiting_jobs' = s /\ jobserver_tokens' = held /\ pool' = pool
        /\ job_slots_used' <= job_slots_used + 1
    BY <1>1, <1>2, <1>3, <1>8, StartedResult
  <2>2. SlotInv'
    BY <1>1, <1>2, <1>7, <2>1 DEF StartResult, DataType, SlotInv, OptionType
  <2>3. TokenAccounting'
    BY <1>2, <1>4, <2>1 DEF TokenAccounting
  <2>4. TokenConservation'
    BY <1>1, <1>2, <1>5, <2>1 DEF TokenConservation, Drawn, StartResult
  <2>5. QED
    BY <1>6, <2>1, <2>2, <2>3, <2>4, TypePartsPrime DEF StartResult, IInv
<1>9. ASSUME FinishedAtOnce(cur, s, held)
      PROVE  IInv'
  <2>1. /\ StartResult(cur, s, held) /\ children' = children
        /\ waiting_jobs' = s /\ jobserver_tokens' = held - 1 /\ job_slots_used' = job_slots_used
        /\ pool' = IF opt.jobserver /\ held > 1 THEN pool + 1 ELSE pool
    BY <1>1, <1>2, <1>3, <1>9, FinishedAtOnceResult
  <2>2. SlotInv'
    BY <1>1, <1>2, <1>7, <2>1 DEF SlotInv, OptionType
  <2>3. TokenAccounting'
    BY <1>2, <1>4, <2>1 DEF TokenAccounting
  <2>4. TokenConservation'
    <3>1. jobserver_tokens \in Nat /\ pool \in Nat /\ others \in Nat
      BY DEF IInv, TypeOK
    <3>2. opt' = opt /\ others' = others /\ pc' # "new_start"
          /\ jobserver_tokens' = jobserver_tokens
      BY <1>1, <2>1, <3>1 DEF StartResult
    <3>3. CASE jobserver_tokens = 0
      BY <1>5, <2>1, <3>1, <3>2, <3>3 DEF TokenConservation, Drawn
    <3>4. CASE jobserver_tokens # 0
      BY <1>5, <2>1, <3>1, <3>2, <3>4 DEF TokenConservation, Drawn
    <3>5. QED
      BY <3>3, <3>4
  <2>5. QED
    BY <1>6, <2>1, <2>2, <2>3, <2>4, TypePartsPrime DEF StartResult, IInv
<1>10. ASSUME LoadTooHigh(cur, s, held)
       PROVE  IInv'
  <2>1. /\ StartResult(cur, s, held) /\ children' = children
        /\ waiting_jobs' = <<cur>> \o s /\ job_slots_used' = job_slots_used /\ opt.load
        /\ Len(waiting_jobs') = Len(s) + 1 /\ jobserver_tokens' = held /\ pool' = pool
    BY <1>1, <1>2, <1>3, <1>10, LoadTooHighResult
  <2>2. SlotInv'
    BY <1>1, <2>1 DEF SlotInv
  <2>3. TokenAccounting'
    BY <1>2, <1>4, <2>1 DEF TokenAccounting
  <2>4. TokenConservation'
    BY <1>1, <1>2, <1>5, <2>1 DEF TokenConservation, Drawn, StartResult
  <2>5. QED
    BY <1>6, <2>1, <2>2, <2>3, <2>4, TypePartsPrime DEF StartResult, IInv
<1>11. QED
  BY <1>8, <1>9, <1>10 DEF StartNewJob, StartWaitingJob

\* The caller hands over a file that has not been started: a job that is not on the
\* chain, has no process, and is not held back.
LEMMA ExecuteFileCommandsInv ==
    ASSUME IInv, NEW f \in Files, NEW dc \in BOOLEAN, ExecuteFileCommands(f, dc)
    PROVE  IInv'
<1> USE DEF chainVars, tokenVars
<1>1. /\ pc = "caller" /\ command_state[f] = "not_started"
      /\ UNCHANGED <<opt, target, line, pid, jobslot, good_stdin, chainVars, tokenVars,
                     reap, exit_status>>
  BY DEF ExecuteFileCommands
<1>2. Fresh(f) /\ NotIn(f, waiting_jobs)
  BY <1>1 DEF IInv, OnceInv, WaitingInv, WaitList, NotIn
<1>3. /\ command_state' \in [Files -> CommandStates] /\ update_status' \in [Files -> UpdateStatuses]
      /\ \A g \in Files :
            /\ command_state'[g] = "not_started" => command_state[g] = "not_started"
            /\ command_state[g] # "not_started" => command_state'[g] # "not_started"
  <2>1. CASE Recipe[f] = <<>>
    BY <2>1, NoticeType, NoticeForward DEF ExecuteFileCommands, IInv, UpdateStatuses
  <2>2. CASE Recipe[f] # <<>>
    BY <2>2 DEF ExecuteFileCommands, IInv, TypeOK
  <2>3. QED
    BY <2>1, <2>2
<1>4. /\ dontcare' \subseteq Files
      /\ \/ pc' = pc /\ sret' = sret /\ cur' = cur
         \/ pc' = "swj" /\ sret' = "new_reap" /\ cur' = f
  <2>1. CASE Recipe[f] = <<>>
    BY <2>1 DEF ExecuteFileCommands, IInv, TypeOK
  <2>2. CASE Recipe[f] # <<>>
    BY <2>2 DEF ExecuteFileCommands, CallStartWaitingJobs, IInv, TypeOK
  <2>3. QED
    BY <2>1, <2>2
<1>5. TypeOK'
  BY <1>1, <1>3, <1>4, LocationFacts DEF IInv, TypeOK
<1>6. ChainInv'
  BY <1>1 DEF IInv, ChainInv, IgnoredEarlier
<1>7. WaitingInv' /\ OnceInv'
  BY <1>1, <1>3 DEF IInv, WaitingInv, WaitList, OnceInv, Fresh
<1>8. CurInv'
  BY <1>1, <1>2, <1>4 DEF IInv, CurInv, InNewJob, InSwj, Fresh, NotIn
<1>9. ControlInv'
  BY <1>1, <1>4 DEF IInv, ControlInv, InToken, InSwj
<1>10. SlotInv' /\ TokenAccounting' /\ TokenConservation'
  BY <1>1, <1>4 DEF IInv, SlotInv, TokenAccounting, TokenConservation, Drawn
<1>11. QED
  BY <1>5, <1>6, <1>7, <1>8, <1>9, <1>10 DEF IInv

--------------------------------------------------------------------------------
(* Reaping *)

\* A child that is reaped starts its next line; it stays on the chain, with the slot
\* it has. Without one, the line before was ignored.
LEMMA ReapNextLineInv ==
    ASSUME IInv, NEW c \in Files, ReapNextLine(c)
    PROVE  IInv'
<1> USE DEF tokenVars, ctlVars
<1>1. /\ c \in children /\ Reapable(c) /\ LineDone(c)
      /\ UNCHANGED <<opt, target, jobslot, dontcare, children, waiting_jobs,
                     job_slots_used, tokenVars, ctlVars>>
  BY DEF ReapNextLine, Reapable
<1>2. PICK i \in LinesLeft(c) : Spawn(c, i)
  BY DEF ReapNextLine
<1>3. /\ line' \in [Files -> Nat] /\ commands_started' \in Nat /\ pid' \in [Files -> PidStates]
      /\ good_stdin' \subseteq Files /\ good_stdin_used' \in BOOLEAN
      /\ command_state' \in [Files -> CommandStates] /\ update_status' = update_status
  BY <1>2, SpawnType DEF IInv
<1>4. PICK p \in {"alive", "nospawn"} : pid' = [pid EXCEPT ![c] = p]
  BY <1>2 DEF Spawn
<1>5. line' = [line EXCEPT ![c] = i] /\ i \in Nat /\ i > line[c] /\ i \in 1 .. Len(Recipe[c])
  BY <1>2, LinesLeftRange DEF Spawn, UseLines, IInv
<1>6. TypeOK'
  BY <1>1, <1>3 DEF IInv, TypeOK
<1>7. \A d \in children \ {c} : line'[d] = line[d] /\ pid'[d] = pid[d]
  BY <1>4, <1>5 DEF IInv, TypeOK
<1>8. ChainInv'
  <2>1. \A d \in children : pid'[d] \in OnChain /\ line'[d] \in 1 .. Len(Recipe[d])
    BY <1>4, <1>5, <1>7 DEF IInv, TypeOK, ChainInv, OnChain
  <2>2. \A d \in children \ {c} : d \in jobslot \/ pid'[d] = "nospawn" \/ IgnoredEarlier(d)'
    BY <1>1, <1>7 DEF IInv, ChainInv, IgnoredEarlier
  <2>3. line[c] \in Nat /\ line[c] >= 1 /\ line'[c] = i
    BY <1>1, <1>5, RecipeType DEF IInv, TypeOK, ChainInv
  <2>4. ASSUME c \notin jobslot
        PROVE  IgnoredEarlier(c)'
    <3>1. CASE IgnoredEarlier(c)
      BY <1>1, <1>5, <2>3, <3>1 DEF IgnoredEarlier
    <3>2. CASE pid[c] = "nospawn"
      <4>1. Ignored(c)
        BY <1>1, <3>2 DEF LineDone, ChildFailed, MAKE_SUCCESS, MAKE_TROUBLE, MAKE_FAILURE
      <4>2. line[c] \in 1 .. (i - 1)
        BY <1>5, <2>3
      <4>3. QED
        BY <1>1, <2>3, <4>1, <4>2 DEF Ignored, IgnoredEarlier
    <3>3. QED
      BY <1>1, <2>4, <3>1, <3>2 DEF IInv, ChainInv
  <2>5. \A d \in Files \ children : pid'[d] \in OffChain
    BY <1>1, <1>4 DEF IInv, TypeOK, ChainInv
  <2>6. QED
    BY <1>1, <2>1, <2>2, <2>4, <2>5 DEF IInv, ChainInv
<1>9. \A f : Fresh(f) => Fresh(f)'
  BY <1>1, <1>4 DEF IInv, TypeOK, Fresh
<1>10. command_state' = Advance(c, "running")
  BY <1>2 DEF Spawn
<1>11. WaitingInv' /\ OnceInv'
  <2>1. \A g \in Files :
           /\ command_state'[g] = "not_started" => command_state[g] = "not_started"
           /\ command_state[g] # "not_started" => command_state'[g] # "not_started"
    BY <1>10, AdvanceForward DEF IInv
  <2>2. \A f : Fresh(f) => f \in Files
    BY DEF Fresh
  <2>3. QED
    BY <1>1, <1>9, <2>1, <2>2 DEF IInv, WaitingInv, WaitList, OnceInv
<1>12. CurInv' /\ ControlInv' /\ SlotInv' /\ TokenAccounting' /\ TokenConservation'
  BY <1>1, <1>9 DEF IInv, CurInv, NotIn, ControlInv, InNewJob, InToken, InSwj, SlotInv,
                    TokenAccounting, TokenConservation, Drawn
<1>13. QED
  BY <1>6, <1>8, <1>11, <1>12 DEF IInv

\* A recipe that is over leaves the chain with its slot and its token.
LEMMA RetireResult ==
    ASSUME IInv, pc = "reap", NEW c \in Files, Reapable(c), NEW status \in UpdateStatuses,
           Retire(c, status), line' \in [Files -> Nat], commands_started' \in Nat,
           target' \in [Files -> {"old", "changed", "removed"}],
           \A d \in Files \ {c} : line'[d] = line[d], opt' = opt
    PROVE  /\ DataType' /\ ChainInv' /\ WaitingInv' /\ OnceInv'
           /\ \A f : Fresh(f) => Fresh(f)'
           /\ waiting_jobs' = waiting_jobs /\ children' \subseteq children
           /\ job_slots_used' <= job_slots_used
           /\ jobserver_tokens' = Cardinality(children') + Len(waiting_jobs')
           /\ opt.jobserver => pool' + others' +
                 (IF jobserver_tokens' = 0 THEN 0 ELSE jobserver_tokens' - 1) = Tokens
<1>1. /\ c \in children /\ pid[c] \in {"nospawn"} \cup ExitKinds
      /\ pid[c] # "unborn" /\ pid[c] # "alive"
  BY DEF Reapable, ExitKinds
<1>2. jobserver_tokens \in Nat /\ jobserver_tokens > 0
  BY <1>1, TokenHeld DEF IInv, TypeOK
<1>3. /\ NoticeFinished(c, status, TRUE) /\ ReleaseStdin(c) /\ FreeChild(jobserver_tokens)
      /\ pid' = [pid EXCEPT ![c] = IF @ = "nospawn" THEN @ ELSE "reaped"]
      /\ jobslot' = jobslot \ {c} /\ children' = children \ {c} /\ dontcare' = dontcare \ {c}
      /\ waiting_jobs' = waiting_jobs
      /\ job_slots_used' = IF job_slots_used > 0 /\ c \in jobslot
                              THEN job_slots_used - 1 ELSE job_slots_used
  BY DEF Retire
<1>4. /\ command_state' \in [Files -> CommandStates]
      /\ update_status' \in [Files -> UpdateStatuses]
  BY <1>3, NoticeType DEF IInv
<1>5. jobserver_tokens' \in Nat /\ pool' \in Nat /\ others' \in Nat
  BY <1>2, <1>3, FreeChildType DEF IInv
<1>6. good_stdin' \subseteq Files /\ good_stdin_used' \in BOOLEAN
  BY <1>3 DEF ReleaseStdin, StdinFree, IInv, TypeOK
<1>7. pid' \in [Files -> PidStates] /\ pid'[c] \in OffChain
  BY <1>3 DEF IInv, TypeOK, PidStates, OffChain
<1>8. job_slots_used' \in Nat /\ job_slots_used' <= job_slots_used
  BY <1>3 DEF IInv, TypeOK
<1>9. DataType'
  BY <1>3, <1>4, <1>5, <1>6, <1>7, <1>8 DEF IInv, TypeOK, DataType
<1>10. /\ Cardinality(children') = Cardinality(children) - 1 /\ Cardinality(children) \in Nat
       /\ c \in jobslot => Cardinality(jobslot) > 0 /\ Cardinality(jobslot') = Cardinality(jobslot) - 1
  <2>1. IsFiniteSet(children) /\ IsFiniteSet(jobslot)
    BY ChainFinite DEF IInv
  <2>2. Cardinality(children) \in Nat /\ Cardinality(jobslot) \in Nat
    BY <2>1, FS_CardinalityType
  <2>3. Cardinality(children') = Cardinality(children) - 1
    BY <1>1, <1>3, <2>1, FS_RemoveElement
  <2>4. ASSUME c \in jobslot
        PROVE  Cardinality(jobslot) > 0 /\ Cardinality(jobslot') = Cardinality(jobslot) - 1
    <3>1. Cardinality(jobslot) # 0
      BY <2>1, <2>4, FS_EmptySet
    <3>2. Cardinality(jobslot \ {c}) = Cardinality(jobslot) - 1
      BY <2>1, <2>4, FS_RemoveElement
    <3>3. jobslot' = jobslot \ {c}
      BY <1>3
    <3>4. QED
      BY <2>2, <3>1, <3>2, <3>3
  <2>5. QED
    BY <2>2, <2>3, <2>4
<1>11. ChainInv'
  <2>1. \A d \in children' : line'[d] = line[d] /\ pid'[d] = pid[d] /\ d # c
    BY <1>3 DEF IInv, TypeOK
  <2>2. \A d \in children' :
           /\ pid'[d] \in OnChain /\ line'[d] \in 1 .. Len(Recipe[d])
           /\ d \in jobslot' \/ pid'[d] = "nospawn" \/ IgnoredEarlier(d)'
    BY <1>3, <2>1 DEF IInv, ChainInv, IgnoredEarlier
  <2>3. \A d \in Files \ children' : pid'[d] \in OffChain
    BY <1>3, <1>7 DEF IInv, TypeOK, ChainInv
  <2>4. job_slots_used' = Cardinality(jobslot')
    <3>1. CASE c \in jobslot
      BY <1>3, <1>10, <3>1 DEF IInv, ChainInv
    <3>2. CASE c \notin jobslot
      BY <1>3, <3>2 DEF IInv, ChainInv
    <3>3. QED
      BY <3>1, <3>2
  <2>5. QED
    BY <1>3, <2>2, <2>3, <2>4 DEF IInv, ChainInv
<1>12. \A f : Fresh(f) => Fresh(f)'
  BY <1>1, <1>3 DEF IInv, TypeOK, Fresh
<1>13. WaitingInv' /\ OnceInv'
  <2>1. \A g \in Files :
           /\ command_state'[g] = "not_started" => command_state[g] = "not_started"
           /\ command_state[g] # "not_started" => command_state'[g] # "not_started"
    BY <1>3, NoticeForward DEF IInv
  <2>2. \A f : Fresh(f) => f \in Files
    BY DEF Fresh
  <2>3. QED
    BY <1>3, <1>12, <2>1, <2>2 DEF IInv, WaitingInv, WaitList, OnceInv
<1>14. jobserver_tokens' = Cardinality(children') + Len(waiting_jobs')
  BY <1>2, <1>3, <1>10 DEF IInv, TypeOK, TokenAccounting, FreeChild
<1>15. opt.jobserver => pool' + others' +
          (IF jobserver_tokens' = 0 THEN 0 ELSE jobserver_tokens' - 1) = Tokens
  <2>1. opt.jobserver => pool + others + (jobserver_tokens - 1) = Tokens
    BY <1>2 DEF IInv, TokenConservation, Drawn
  <2>2. pool \in Nat /\ others \in Nat /\ others' = others /\ jobserver_tokens' = jobserver_tokens - 1
    BY <1>3 DEF IInv, TypeOK, FreeChild
  <2>3. CASE jobserver_tokens = 1
    BY <1>2, <1>3, <2>1, <2>2, <2>3 DEF FreeChild
  <2>4. CASE jobserver_tokens > 1
    BY <1>2, <1>3, <2>1, <2>2, <2>4 DEF FreeChild
  <2>5. QED
    BY <1>2, <2>3, <2>4
<1>16. QED
  BY <1>3, <1>8, <1>9, <1>11, <1>12, <1>13, <1>14, <1>15

\* The part of the invariant that follows for the places after a retired job.
LEMMA ReapFailedInv ==
    ASSUME IInv, NEW c \in Files, ReapFailed(c)
    PROVE  IInv'
<1> DEFINE status == IF ChildFailed(c) = MAKE_FAILURE THEN "failed" ELSE "question"
<1>1. /\ pc = "reap" /\ Reapable(c) /\ Retire(c, status) /\ status \in UpdateStatuses
      /\ line' = line /\ commands_started' = commands_started /\ opt' = opt
      /\ target' = IF pid[c] = "signal" \/ opt.delete_on_error THEN Deleted(c) ELSE target
  BY DEF ReapFailed, UpdateStatuses
<1>2. target' \in [Files -> {"old", "changed", "removed"}]
  BY <1>1 DEF Deleted, IInv, TypeOK
<1>3. /\ DataType' /\ ChainInv' /\ WaitingInv' /\ OnceInv'
      /\ \A f : Fresh(f) => Fresh(f)'
      /\ waiting_jobs' = waiting_jobs /\ job_slots_used' <= job_slots_used
      /\ jobserver_tokens' = Cardinality(children') + Len(waiting_jobs')
      /\ opt.jobserver => pool' + others' +
            (IF jobserver_tokens' = 0 THEN 0 ELSE jobserver_tokens' - 1) = Tokens
  BY <1>1, <1>2, RetireResult DEF IInv, TypeOK
<1>4. /\ ControlType' /\ pc' # "new_start"
      /\ \/ /\ pc' \in {"die", "exit"} /\ sret' = NoCaller
         \/ /\ pc' = pc /\ reap'.ret = reap.ret /\ sret' = sret /\ cur' = cur
  <2>1. CASE ~reap.err /\ c \notin dontcare /\ ~opt.keep_going
    <3>1. CallDie(ChildFailed(c)) /\ ChildFailed(c) \in {MAKE_SUCCESS, MAKE_TROUBLE, MAKE_FAILURE}
      BY <2>1 DEF ReapFailed, ChildFailed
    <3>2. QED
      BY <1>1, <3>1, LocationFacts DEF CallDie, ControlType
  <2>2. CASE ~(~reap.err /\ c \notin dontcare /\ ~opt.keep_going)
    <3>1. reap' = [reap EXCEPT !.block = FALSE] /\ UNCHANGED <<pc, sret, cur, exit_status>>
      BY <2>2 DEF ReapFailed
    <3>2. reap' \in ReapFrames /\ reap'.ret = reap.ret
      BY <3>1 DEF IInv, TypeOK, ReapFrames
    <3>3. QED
      BY <1>1, <3>1, <3>2 DEF ControlType, IInv, TypeOK
  <2>3. QED
    BY <2>1, <2>2
<1>5. CurInv' /\ ControlInv'
  BY <1>1, <1>3, <1>4 DEF IInv, CurInv, NotIn, ControlInv, InNewJob, InToken, InSwj
<1>6. SlotInv'
  BY <1>1, <1>3, <1>4, OptionsAssumption DEF IInv, TypeOK, DataType, OptionType, SlotInv
<1>7. TokenAccounting' /\ TokenConservation'
  BY <1>1, <1>3, <1>4 DEF TokenAccounting, TokenConservation, Drawn, DataType
<1>8. QED
  BY <1>3, <1>4, <1>5, <1>6, <1>7, TypePartsPrime DEF IInv

LEMMA ReapRecipeOverInv ==
    ASSUME IInv, NEW c \in Files, ReapRecipeOver(c)
    PROVE  IInv'
<1>1. PICK status \in {"success", "question"} :
         /\ EndsWithoutProcess(c, status, TRUE) /\ Retire(c, status)
         /\ target' = IF status = "success" THEN target ELSE Deleted(c)
  BY DEF ReapRecipeOver
<1>2. /\ pc = "reap" /\ Reapable(c) /\ status \in UpdateStatuses /\ opt' = opt
      /\ pc' = pc /\ sret' = sret /\ cur' = cur /\ exit_status' = exit_status
      /\ reap' = [reap EXCEPT !.block = FALSE]
  BY DEF ReapRecipeOver, UpdateStatuses
<1>3. target' \in [Files -> {"old", "changed", "removed"}]
  BY <1>1 DEF Deleted, IInv, TypeOK
<1>4. /\ line' \in [Files -> Nat] /\ commands_started' \in Nat
      /\ \A d \in Files \ {c} : line'[d] = line[d]
  BY <1>1, EndsType DEF EndsWithoutProcess, UseLines, IInv, TypeOK
<1>5. /\ DataType' /\ ChainInv' /\ WaitingInv' /\ OnceInv'
      /\ \A f : Fresh(f) => Fresh(f)'
      /\ waiting_jobs' = waiting_jobs /\ job_slots_used' <= job_slots_used
      /\ jobserver_tokens' = Cardinality(children') + Len(waiting_jobs')
      /\ opt.jobserver => pool' + others' +
            (IF jobserver_tokens' = 0 THEN 0 ELSE jobserver_tokens' - 1) = Tokens
  BY <1>1, <1>2, <1>3, <1>4, RetireResult
<1>6. ControlType' /\ reap'.ret = reap.ret
  BY <1>2 DEF IInv, TypeOK, ControlType, ReapFrames
<1>7. CurInv' /\ ControlInv'
  BY <1>2, <1>5, <1>6 DEF IInv, CurInv, NotIn, ControlInv, InNewJob, InToken, InSwj
<1>8. SlotInv'
  BY <1>2, <1>5, OptionsAssumption DEF IInv, TypeOK, DataType, OptionType, SlotInv
<1>9. TokenAccounting' /\ TokenConservation'
  BY <1>2, <1>5 DEF TokenAccounting, TokenConservation, Drawn, DataType
<1>10. QED
  BY <1>5, <1>6, <1>7, <1>8, <1>9, TypePartsPrime DEF IInv

--------------------------------------------------------------------------------
(* The invariant *)

LEMMA InitInv ==
    ASSUME Init
    PROVE  IInv
<1> USE DEF Init
<1>1. TypeOK
  <2>1. command_state \in [Files -> CommandStates] /\ update_status \in [Files -> UpdateStatuses]
    BY DEF CommandStates, UpdateStatuses
  <2>2. pid \in [Files -> PidStates]
    BY DEF PidStates
  <2>3. pool \in Nat /\ waiting_jobs \in Seq(Files)
    BY TokensAssumption
  <2>4. reap \in ReapFrames /\ pc \in Locations /\ sret \in SwjCallers
    BY LocationFacts
  <2>5. QED
    BY <2>1, <2>2, <2>3, <2>4 DEF TypeOK, ReapFrames
<1>2. ChainInv /\ WaitingInv /\ OnceInv
  <2>1. Cardinality({}) = 0
    BY FS_EmptySet
  <2>2. ChainInv
    BY <2>1 DEF ChainInv, OffChain
  <2>3. WaitingInv
    BY DEF WaitingInv, WaitList
  <2>4. OnceInv
    BY DEF OnceInv, Fresh
  <2>5. QED
    BY <2>2, <2>3, <2>4
<1>3. CurInv /\ ControlInv
  BY LocationFacts DEF CurInv, ControlInv, InNewJob, InToken, InSwj
<1>4. SlotInv
  BY OptionsAssumption DEF SlotInv, OptionType
<1>5. TokenAccounting /\ TokenConservation
  BY FS_EmptySet, TokensAssumption DEF TokenAccounting, TokenConservation, Drawn
<1>6. QED
  BY <1>1, <1>2, <1>3, <1>4, <1>5 DEF IInv

LEMMA NextInv ==
    ASSUME IInv, [Next]_vars
    PROVE  IInv'
<1>1. CASE UNCHANGED vars
  BY <1>1, StutterInv
<1>2. CASE JobStep
  <2>1. CASE TakeWaitingJob
    BY <2>1, TakeWaitingJobInv
  <2>2. CASE AcquireToken
    BY <2>2, AcquireTokenInv
  <2>3. CASE StartNewJob
    BY <2>3, StartNewJobInv
  <2>4. CASE DieExits
    BY <2>4, DieExitsInv
  <2>5. CASE \E c \in Files : ReapFailed(c) \/ ReapNextLine(c) \/ ReapRecipeOver(c)
    BY <2>5, ReapFailedInv, ReapNextLineInv, ReapRecipeOverInv
  <2>6. CASE ControlStep
    BY <2>6, ControlStepInv
  <2>7. QED
    BY <1>2, <2>1, <2>2, <2>3, <2>4, <2>5, <2>6 DEF JobStep, ControlStep
<1>3. CASE Caller
  <2>1. CASE \E f \in Files, dc \in BOOLEAN : ExecuteFileCommands(f, dc)
    BY <2>1, ExecuteFileCommandsInv
  <2>2. CASE ControlStep
    BY <2>2, ControlStepInv
  <2>3. QED
    BY <1>3, <2>1, <2>2 DEF Caller, ControlStep
<1>4. CASE Outside
  BY <1>4, ChildExitsInv, PeerInv DEF Outside
<1>5. QED
  BY <1>1, <1>2, <1>3, <1>4 DEF Next, Exited

\* Everything the accounting rests on holds in every state of every run.
THEOREM Invariance == Spec => []IInv
BY InitInv, NextInv, PTL DEF Spec

--------------------------------------------------------------------------------
(* What follows from it *)

\* The types of the variables, for every set of recipes.
THEOREM TypeCorrect == Spec => []TypeOK
BY Invariance, PTL DEF IInv

\* job_slots_used counts the children that hold a slot, every command that runs is on
\* the chain, and one without a slot belongs to a recipe whose first command could
\* not be started and was ignored (job.c:1088, 1642).
THEOREM SlotsCounted == Spec => []SlotAccounting
<1>1. IInv => SlotAccounting
  BY DEF IInv, ChainInv, OffChain, ExitKinds, SlotAccounting, Live
<1>2. QED
  BY <1>1, Invariance, PTL

\* Every job on the chain or on the waiting list stands for one token, so free_child
\* never finds none (job.c:1148).
THEOREM TokensCounted == Spec => []TokenAccounting
BY Invariance, PTL DEF IInv

\* No token is lost or made up while make runs (job.c:1157).
THEOREM TokensConserved == Spec => []TokenConservation
BY Invariance, PTL DEF IInv

\* The commands that run and the tokens of other makes never exceed -j.
THEOREM BoundedParallelism == Spec => []ParallelismBound
<1>1. ASSUME IInv
      PROVE  ParallelismBound
  <2>1. Live \subseteq children
    BY <1>1 DEF IInv, ChainInv, OffChain, ExitKinds, Live
  <2>2. /\ IsFiniteSet(children) /\ Cardinality(Live) <= Cardinality(children)
        /\ Cardinality(Live) \in Nat /\ Cardinality(children) \in Nat
    BY <1>1, <2>1, ChainFinite, FS_Subset, FS_CardinalityType DEF IInv
  <2>3. /\ Len(waiting_jobs) \in Nat /\ jobserver_tokens \in Nat
        /\ pool \in Nat /\ others \in Nat
    BY <1>1 DEF IInv, TypeOK
  <2>4. pc # "exit" => jobserver_tokens >= Cardinality(Live)
    BY <1>1, <2>2, <2>3 DEF IInv, TokenAccounting
  <2>5. opt.jobserver => pool + others + jobserver_tokens <= Tokens + 1
    BY <1>1, <2>3, TokensAssumption DEF IInv, TokenConservation, Drawn
  <2>6. QED
    BY <2>2, <2>3, <2>4, <2>5, TokensAssumption DEF ParallelismBound
<1>2. QED
  BY <1>1, Invariance, PTL

\* Without a load limit -jN never has more than N slots in use (job.c:1829).
THEOREM SlotsLimited == Spec => []SlotLimit
<1>1. IInv => SlotLimit
  BY DEF IInv, SlotInv, SlotLimit
<1>2. QED
  BY <1>1, Invariance, PTL

\* make never sleeps on the jobserver with no child to wake it (job.c:1867).
THEOREM NeverSleepsAlone == Spec => []NoSleepWithoutChild
<1>1. IInv => NoSleepWithoutChild
  BY DEF IInv, ControlInv, NoSleepWithoutChild
<1>2. QED
  BY <1>1, Invariance, PTL

\* reap_children never waits when no process exists (job.c:771).
THEOREM AlwaysSomeChild == Spec => []WaitHasChild
<1>1. IInv => WaitHasChild
  BY DEF IInv, ChainInv, OnChain, WaitHasChild
<1>2. QED
  BY <1>1, Invariance, PTL

--------------------------------------------------------------------------------
(* The kinds of steps, as far as recipes are concerned *)

\* The recipes and their commands stay as they are.
Quiet == UNCHANGED <<opt, command_state, update_status, target, line, pid, children,
                     waiting_jobs, good_stdin, good_stdin_used>>

ListSet(s) == {s[i] : i \in 1 .. Len(s)}

\* c is the job to be started, s the jobs that stay held back
Ready(c, s) ==
    /\ c \in Files /\ s \in Seq(Files)
    /\ c \notin children /\ pid[c] = "unborn" /\ c \notin ListSet(s)
    /\ ListSet(s) \subseteq Held /\ Held \subseteq ListSet(s) \cup {c}
    /\ line[c] = 0 /\ command_state[c] \in {"not_started", "running"}
    /\ c \in Held \/ command_state[c] = "not_started"
    /\ \A d \in children \cup ListSet(s) : c \notin Group(d)

JobStarts(c, s, held) ==
    /\ Ready(c, s) /\ held \in Nat /\ opt' = opt /\ exit_status = -1
    /\ Started(c, s, held) \/ FinishedAtOnce(c, s, held) \/ LoadTooHigh(c, s, held)

\* The recipe of c is over and c leaves the chain
JobEnds(c, status) ==
    /\ c \in Files /\ status \in {"success", "failed", "question"}
    /\ ReapFailed(c) \/ ReapRecipeOver(c)
    /\ pc = "reap" /\ Reapable(c) /\ Retire(c, status) /\ opt' = opt
    /\ line' \in [Files -> Nat] /\ \A d \in Files \ {c} : line'[d] = line[d]
    /\ target' \in {target, Deleted(c)}
    /\ status = "success" => line'[c] = Len(Recipe[c])
    /\ status = "failed" /\ opt.delete_on_error => target' = Deleted(c)

\* The targets of one recipe are one group.
LEMMA GroupFacts ==
    ASSUME NEW f \in Files, NEW g \in Group(f)
    PROVE  /\ g \in Files /\ Group(g) = Group(f) /\ Recipe[g] = Recipe[f]
           /\ f \in Group(f) /\ f \in Group(g)
<1>1. g \in Files
  BY AlsoMakeAssumption DEF Group
<1>2. Group(g) = Group(f) /\ Recipe[g] = Recipe[f]
  BY AlsoMakeAssumption, GroupsAssumption DEF Group
<1> QED BY <1>1, <1>2 DEF Group

LEMMA SameStop ==
    ASSUME NEW f \in Files, NEW g \in Group(f)
    PROVE  StopsAtOnce(g) <=> StopsAtOnce(f)
BY GroupFacts DEF StopsAtOnce

\* The job taken off the waiting list, and the one new_job starts, are ready.
LEMMA HeadReady ==
    ASSUME IInv, GroupInv, pc = "swj_take"
    PROVE  Ready(Head(waiting_jobs), Tail(waiting_jobs))
<1> DEFINE c == Head(waiting_jobs)
           s == Tail(waiting_jobs)
           n == Len(waiting_jobs)
<1>1. /\ n \in Nat /\ n >= 1 /\ c = waiting_jobs[1] /\ c \in Files
      /\ s \in Seq(Files) /\ Len(s) = n - 1
      /\ \A i \in 1 .. Len(s) : s[i] = waiting_jobs[i + 1]
  BY TakeHead DEF IInv, ControlInv
<1>2. Fresh(c) /\ c \in Held
  BY <1>1 DEF IInv, WaitingInv, WaitList, Held
<1> HIDE DEF c, s
<1>3. c \notin ListSet(s)
  BY <1>1 DEF ListSet, IInv, WaitingInv, WaitList
<1>4. ListSet(s) \subseteq Held
  BY <1>1 DEF ListSet, Held
<1>5. Held \subseteq ListSet(s) \cup {c}
  <2> SUFFICES ASSUME NEW i \in 1 .. n, i # 1 PROVE waiting_jobs[i] \in ListSet(s)
    BY <1>1 DEF Held
  <2>1. i - 1 \in 1 .. Len(s) /\ s[i - 1] = waiting_jobs[i]
    BY <1>1
  <2> QED BY <2>1 DEF ListSet
<1>6. line[c] = 0 /\ command_state[c] = "running"
  BY <1>2 DEF GroupInv
<1>7. \A d \in children \cup ListSet(s) : c \notin Group(d)
  BY <1>2, <1>3, <1>4 DEF GroupInv, Fresh
<1>8. Ready(c, s)
  BY <1>1, <1>2, <1>3, <1>4, <1>5, <1>6, <1>7 DEF Ready, Fresh
<1> QED BY <1>8 DEF c, s

LEMMA CurReady ==
    ASSUME IInv, GroupInv, pc = "new_start"
    PROVE  Ready(cur, waiting_jobs)
<1>1. Fresh(cur) /\ NotIn(cur, waiting_jobs) /\ command_state[cur] = "not_started"
  BY DEF IInv, CurInv, GroupInv, InNewJob
<1>2. cur \in Files /\ cur \notin Held /\ Held = ListSet(waiting_jobs)
  BY <1>1 DEF Fresh, NotIn, Held, ListSet
<1>3. \A d \in children \cup Held : cur \notin Group(d)
  BY <1>1 DEF GroupInv
<1> QED BY <1>1, <1>2, <1>3 DEF Ready, Fresh, GroupInv, IInv, TypeOK

LEMMA FailedEnds ==
    ASSUME IInv, NEW c \in Files, ReapFailed(c)
    PROVE  \E status \in {"failed", "question"} : JobEnds(c, status)
<1> DEFINE status == IF ChildFailed(c) = MAKE_FAILURE THEN "failed" ELSE "question"
<1>1. /\ pc = "reap" /\ Reapable(c) /\ Retire(c, status) /\ opt' = opt /\ line' = line
      /\ target' = IF pid[c] = "signal" \/ opt.delete_on_error THEN Deleted(c) ELSE target
  BY DEF ReapFailed
<1>2. status \in {"failed", "question"}
  OBVIOUS
<1>3. JobEnds(c, status)
  BY <1>1, <1>2 DEF JobEnds, IInv, TypeOK
<1> QED BY <1>2, <1>3

LEMMA OverEnds ==
    ASSUME IInv, NEW c \in Files, ReapRecipeOver(c)
    PROVE  \E status \in {"success", "question"} : JobEnds(c, status)
<1>1. PICK status \in {"success", "question"} :
          /\ EndsWithoutProcess(c, status, TRUE)
          /\ Retire(c, status)
          /\ target' = IF status = "success" THEN target ELSE Deleted(c)
  BY DEF ReapRecipeOver
<1>2. pc = "reap" /\ Reapable(c) /\ opt' = opt
  BY DEF ReapRecipeOver
<1>3. line' \in [Files -> Nat]
  BY <1>1, EndsType DEF IInv
<1>4. PICK i \in Nat : line' = [line EXCEPT ![c] = i] /\ (status = "success" => i = Len(Recipe[c]))
  BY <1>1, LinesLeftRange, RecipeType DEF EndsWithoutProcess, UseLines, IInv
<1>5. /\ \A d \in Files \ {c} : line'[d] = line[d]
      /\ status = "success" => line'[c] = Len(Recipe[c])
  BY <1>4 DEF IInv, TypeOK
<1>6. JobEnds(c, status)
  BY <1>1, <1>2, <1>3, <1>5 DEF JobEnds
<1> QED BY <1>6

\* Every step is of one of these kinds.
LEMMA StepKinds ==
    ASSUME IInv, ExitInv, GroupInv, [Next]_vars
    PROVE  \/ Quiet
           \/ \E c \in Files : ChildExits(c)
           \/ \E f \in Files, dc \in BOOLEAN : ExecuteFileCommands(f, dc)
           \/ \E c \in Files : ReapNextLine(c)
           \/ \E c \in Files, status \in {"success", "failed", "question"} : JobEnds(c, status)
           \/ \E c \in Files, s \in Seq(Files), held \in Nat : JobStarts(c, s, held)
<1> USE DEF fileVars, childVars, chainVars
<1>1. CASE UNCHANGED vars \/ Exited \/ PeerTakesToken \/ PeerReturnsToken
  BY <1>1 DEF vars, Exited, PeerTakesToken, PeerReturnsToken, Quiet
<1>2. CASE ControlStep
  BY <1>2, ControlStepFrame DEF Quiet
<1>3. CASE AcquireToken \/ DieExits
  BY <1>3 DEF AcquireToken, DieExits, Quiet
<1>4. CASE TakeWaitingJob
  <2> DEFINE c == Head(waiting_jobs)
             s == Tail(waiting_jobs)
             held == jobserver_tokens
  <2>1. /\ pc = "swj_take" /\ opt' = opt
        /\ Started(c, s, held) \/ FinishedAtOnce(c, s, held) \/ LoadTooHigh(c, s, held)
    BY <1>4 DEF TakeWaitingJob, StartWaitingJob
  <2>2. exit_status = -1
    BY <2>1 DEF ExitInv, IInv, TypeOK, MAKE_SUCCESS, MAKE_TROUBLE, MAKE_FAILURE
  <2>3. Ready(c, s) /\ held \in Nat
    BY <2>1, HeadReady DEF IInv, TypeOK
  <2>4. c \in Files /\ s \in Seq(Files) /\ JobStarts(c, s, held)
    BY <2>1, <2>2, <2>3 DEF JobStarts, Ready
  <2> QED BY <2>3, <2>4
<1>5. CASE StartNewJob
  <2> DEFINE held == jobserver_tokens + 1
  <2>1. /\ pc = "new_start" /\ opt' = opt
        /\ Started(cur, waiting_jobs, held) \/ FinishedAtOnce(cur, waiting_jobs, held)
             \/ LoadTooHigh(cur, waiting_jobs, held)
    BY <1>5 DEF StartNewJob, StartWaitingJob
  <2>2. exit_status = -1
    BY <2>1 DEF ExitInv, IInv, TypeOK, MAKE_SUCCESS, MAKE_TROUBLE, MAKE_FAILURE
  <2>3. Ready(cur, waiting_jobs) /\ held \in Nat
    BY <2>1, CurReady DEF IInv, TypeOK
  <2>4. cur \in Files /\ waiting_jobs \in Seq(Files) /\ JobStarts(cur, waiting_jobs, held)
    BY <2>1, <2>2, <2>3 DEF JobStarts, Ready
  <2> QED BY <2>3, <2>4
<1>6. CASE \E c \in Files : ReapFailed(c) \/ ReapRecipeOver(c)
  BY <1>6, FailedEnds, OverEnds
<1> QED BY <1>1, <1>2, <1>3, <1>4, <1>5, <1>6 DEF Next, JobStep, Caller, Outside, ControlStep

--------------------------------------------------------------------------------
(* Standard input *)

LEMMA SpawnStdin ==
    ASSUME StdinInv, NEW c \in Files, NEW i, Spawn(c, i), children \cup {c} \subseteq children'
    PROVE  StdinInv'
BY DEF StdinInv, Spawn, StdinFree

LEMMA StdinStep ==
    ASSUME IInv, ExitInv, GroupInv, StdinInv, [Next]_vars
    PROVE  StdinInv'
<1>1. CASE UNCHANGED <<good_stdin, good_stdin_used, children>>
  BY <1>1 DEF StdinInv
<1>2. ASSUME NEW c \in Files, ReapNextLine(c)
      PROVE  StdinInv'
  BY <1>2, SpawnStdin DEF ReapNextLine, Reapable
<1>3. ASSUME NEW c \in Files, NEW status, JobEnds(c, status)
      PROVE  StdinInv'
  BY <1>3 DEF JobEnds, Retire, ReleaseStdin, StdinFree, StdinInv
<1>4. ASSUME NEW c \in Files, NEW s, NEW held, JobStarts(c, s, held)
      PROVE  StdinInv'
  <2>1. CASE Started(c, s, held)
    BY <2>1, SpawnStdin DEF Started
  <2>2. CASE FinishedAtOnce(c, s, held) \/ LoadTooHigh(c, s, held)
    BY <1>1, <2>2 DEF FinishedAtOnce, LoadTooHigh, childVars
  <2> QED BY <1>4, <2>1, <2>2 DEF JobStarts
<1> QED BY <1>1, <1>2, <1>3, <1>4, StepKinds
        DEF Quiet, ChildExits, ExecuteFileCommands, chainVars

--------------------------------------------------------------------------------
(* Dry runs *)

\* The line that starts is the first that is left, and neither -q stops at it nor -n
\* passes over it.
LEMMA SpawnedLine ==
    ASSUME TypeOK, NEW c \in Files, NEW i \in LinesLeft(c), ~QuestionStops(Recipe[c][i]),
           Spawn(c, i), opt' = opt
    PROVE  /\ line' = [line EXCEPT ![c] = i] /\ i \in 1 .. Len(Recipe[c])
           /\ opt.question \/ opt.just_print => Recipe[c][i].recursive
<1>1. line' = [line EXCEPT ![c] = i] /\ i \in 1 .. Len(Recipe[c])
  BY LinesLeftRange DEF Spawn, UseLines
<1>2. Recipe[c][i] \in Lines
  BY <1>1, RecipeType
<1>3. ~PassedOver(Recipe[c][i])
  BY DEF LinesLeft
<1> QED BY <1>1, <1>2, <1>3 DEF PassedOver, QuestionStops, Lines

LEMMA DryStep ==
    ASSUME IInv, ExitInv, GroupInv, DryRunRunsOnlyRecursive, [Next]_vars
    PROVE  DryRunRunsOnlyRecursive'
<1> USE DEF DryRunRunsOnlyRecursive, Live
<1>1. CASE Quiet
  BY <1>1 DEF Quiet
<1>2. ASSUME NEW c \in Files, ChildExits(c)
      PROVE  DryRunRunsOnlyRecursive'
  BY <1>2 DEF ChildExits, IInv, TypeOK
<1>3. ASSUME NEW f \in Files, NEW dc, ExecuteFileCommands(f, dc)
      PROVE  DryRunRunsOnlyRecursive'
  BY <1>3 DEF ExecuteFileCommands
<1>4. ASSUME NEW c \in Files, opt' = opt,
             \E i \in LinesLeft(c) : ~QuestionStops(Recipe[c][i]) /\ Spawn(c, i)
      PROVE  DryRunRunsOnlyRecursive'
  <2>1. PICK i \in LinesLeft(c) : ~QuestionStops(Recipe[c][i]) /\ Spawn(c, i)
    BY <1>4
  <2>2. /\ line' = [line EXCEPT ![c] = i]
        /\ opt.question \/ opt.just_print => Recipe[c][i].recursive
    BY <1>4, <2>1, SpawnedLine DEF IInv
  <2>3. \A d \in Files \ {c} : line'[d] = line[d] /\ pid'[d] = pid[d]
    BY <2>1, <2>2 DEF Spawn, IInv, TypeOK
  <2>4. line'[c] = i
    BY <2>2 DEF IInv, TypeOK
  <2> QED BY <1>4, <2>2, <2>3, <2>4
<1>5. ASSUME NEW c \in Files, ReapNextLine(c)
      PROVE  DryRunRunsOnlyRecursive'
  BY <1>4, <1>5 DEF ReapNextLine
<1>6. ASSUME NEW c \in Files, NEW status, JobEnds(c, status)
      PROVE  DryRunRunsOnlyRecursive'
  <2>1. pid' = [pid EXCEPT ![c] = IF @ = "nospawn" THEN @ ELSE "reaped"]
    BY <1>6 DEF JobEnds, Retire
  <2>2. \A d \in Files \ {c} : line'[d] = line[d] /\ pid'[d] = pid[d]
    BY <1>6, <2>1 DEF JobEnds, IInv, TypeOK
  <2>3. pid'[c] \notin ExitKinds \cup {"alive"}
    BY <2>1 DEF ExitKinds, IInv, TypeOK
  <2> QED BY <1>6, <2>2, <2>3 DEF JobEnds
<1>7. ASSUME NEW c \in Files, NEW s, NEW held, JobStarts(c, s, held)
      PROVE  DryRunRunsOnlyRecursive'
  <2>1. CASE Started(c, s, held)
    BY <1>4, <1>7, <2>1 DEF Started, JobStarts
  <2>2. CASE FinishedAtOnce(c, s, held)
    <3>1. \A d \in Files \ {c} : line'[d] = line[d]
      BY <2>2 DEF FinishedAtOnce, EndsWithoutProcess, UseLines, IInv, TypeOK
    <3>2. pid' = pid /\ opt' = opt /\ pid[c] \notin ExitKinds \cup {"alive"}
      BY <1>7, <2>2 DEF FinishedAtOnce, JobStarts, Ready, ExitKinds
    <3> QED BY <3>1, <3>2
  <2>3. CASE LoadTooHigh(c, s, held)
    BY <1>7, <2>3 DEF LoadTooHigh, JobStarts, childVars
  <2> QED BY <1>7, <2>1, <2>2, <2>3 DEF JobStarts
<1> QED BY <1>1, <1>2, <1>3, <1>5, <1>6, <1>7, StepKinds

--------------------------------------------------------------------------------
(* What is reported successful *)

\* A recipe with no line left keeps none.
LEMMA NoneLeft ==
    ASSUME TypeOK, opt' = opt, NEW g \in Files, LinesLeft(g) = {},
           line'[g] \in Nat, line'[g] >= line[g]
    PROVE  LinesLeft(g)' = {}
<1>1. \A i \in (line'[g] + 1) .. Len(Recipe[g]) : i \in (line[g] + 1) .. Len(Recipe[g])
  BY RecipeType DEF TypeOK
<1> QED BY <1>1 DEF LinesLeft, PassedOver, QuestionStops

LEMMA AllUsed ==
    ASSUME NEW g \in Files, line'[g] = Len(Recipe[g])
    PROVE  LinesLeft(g)' = {}
BY RecipeType DEF LinesLeft

\* A recipe that is through stays so: no line of it is left to be started.
Through(g) == LinesLeft(g) = {} /\ g \notin children

LEMMA ThroughStays ==
    ASSUME IInv, ExitInv, GroupInv, [Next]_vars, NEW g \in Files, Through(g)
    PROVE  Through(g)'
<1> USE DEF Through
<1>0. line[g] \in Nat /\ Len(Recipe[g]) \in Nat
  BY RecipeType DEF IInv, TypeOK
<1>1. CASE opt' = opt /\ line'[g] = line[g] /\ g \notin children'
  BY <1>0, <1>1, NoneLeft DEF IInv
<1>2. ASSUME NEW c \in Files, ReapNextLine(c)
      PROVE  Through(g)'
  <2>1. c # g /\ opt' = opt /\ children' = children
    BY <1>2 DEF ReapNextLine, Reapable
  <2>2. line'[g] = line[g]
    BY <1>2, <2>1 DEF ReapNextLine, Spawn, UseLines, IInv, TypeOK
  <2> QED BY <1>1, <2>1, <2>2
<1>3. ASSUME NEW c \in Files, NEW status, JobEnds(c, status)
      PROVE  Through(g)'
  <2>1. c # g /\ opt' = opt /\ children' \subseteq children
    BY <1>3 DEF JobEnds, Reapable, Retire
  <2>2. line'[g] = line[g]
    BY <1>3, <2>1 DEF JobEnds
  <2> QED BY <1>1, <2>1, <2>2
<1>4. ASSUME NEW c \in Files, NEW s, NEW held, JobStarts(c, s, held)
      PROVE  Through(g)'
  <2>1. CASE Started(c, s, held)
    <3>1. c # g
      BY <2>1 DEF Started
    <3>2. line'[g] = line[g] /\ g \notin children' /\ opt' = opt
      BY <1>4, <2>1, <3>1 DEF Started, Spawn, UseLines, JobStarts, IInv, TypeOK
    <3> QED BY <1>1, <3>2
  <2>2. CASE FinishedAtOnce(c, s, held)
    <3>1. children' = children /\ opt' = opt
      BY <1>4, <2>2 DEF FinishedAtOnce, JobStarts
    <3>2. CASE c # g
      <4>1. line'[g] = line[g]
        BY <2>2, <3>2 DEF FinishedAtOnce, EndsWithoutProcess, UseLines, IInv, TypeOK
      <4> QED BY <1>1, <3>1, <4>1
    <3>3. CASE c = g
      <4>1. line'[g] = Len(Recipe[g])
        BY <2>2, <3>3 DEF FinishedAtOnce, EndsWithoutProcess, UseLines, IInv, TypeOK
      <4> QED BY <3>1, <4>1, AllUsed
    <3> QED BY <3>2, <3>3
  <2>3. CASE LoadTooHigh(c, s, held)
    BY <1>1, <1>4, <2>3 DEF LoadTooHigh, JobStarts, childVars
  <2> QED BY <1>4, <2>1, <2>2, <2>3 DEF JobStarts
<1>5. Quiet \/ (\E c \in Files : ChildExits(c))
        \/ (\E f \in Files, dc \in BOOLEAN : ExecuteFileCommands(f, dc))
          => opt' = opt /\ line' = line /\ children' = children
  BY DEF Quiet, ChildExits, ExecuteFileCommands, chainVars
<1> QED BY <1>1, <1>2, <1>3, <1>4, <1>5, StepKinds

LEMMA SuccessStep ==
    ASSUME IInv, ExitInv, GroupInv, SuccessMeansDone, [Next]_vars
    PROVE  SuccessMeansDone'
<1> DEFINE Ok(f) == command_state[f] = "finished" /\ update_status[f] = "success"
           OkNext(f) == command_state'[f] = "finished" /\ update_status'[f] = "success"
           New == \A f \in Files : OkNext(f) => Ok(f) \/ \E g \in Files : f \in Group(g) /\ Through(g)'
<1>1. ASSUME New PROVE SuccessMeansDone'
  <2> SUFFICES ASSUME NEW f \in Files, OkNext(f)
               PROVE  \E g \in Files : f \in Group(g) /\ Through(g)'
    BY DEF SuccessMeansDone, Through
  <2>1. CASE Ok(f)
    <3>1. PICK g \in Files : f \in Group(g) /\ Through(g)
      BY <2>1 DEF SuccessMeansDone, Through
    <3> QED BY <3>1, ThroughStays
  <2> QED BY <1>1, <2>1
<1> SUFFICES New
  BY <1>1
<1>2. CASE UNCHANGED <<command_state, update_status>>
  BY <1>2
<1>3. ASSUME NEW f \in Files, NEW dc \in BOOLEAN, ExecuteFileCommands(f, dc)
      PROVE  New
  <2>1. CASE Recipe[f] = <<>>
    <3>1. NoticeFinished(f, "success", TRUE) /\ UNCHANGED <<opt, line, children>>
      BY <1>3, <2>1 DEF ExecuteFileCommands, chainVars
    <3>2. Through(f)
      BY <1>3, <2>1, RecipeType DEF ExecuteFileCommands, IInv, OnceInv, Fresh, Through,
         LinesLeft, TypeOK
    <3>3. Through(f)'
      BY <3>2, ThroughStays
    <3> QED BY <3>1, <3>3 DEF NoticeFinished
  <2>2. CASE Recipe[f] # <<>>
    BY <1>2, <1>3, <2>2 DEF ExecuteFileCommands
  <2> QED BY <2>1, <2>2
<1>4. ASSUME NEW c \in Files, command_state' = Advance(c, "running"), update_status' = update_status
      PROVE  New
  BY <1>4 DEF Advance
<1>5. ASSUME NEW c \in Files, NEW status, JobEnds(c, status)
      PROVE  New
  <2>1. NoticeFinished(c, status, TRUE) /\ c \notin children'
    BY <1>5 DEF JobEnds, Retire
  <2>2. status = "success" => Through(c)'
    BY <1>5, <2>1, AllUsed DEF JobEnds, Through
  <2> QED BY <2>1, <2>2 DEF NoticeFinished
<1>6. ASSUME NEW c \in Files, NEW s, NEW held, JobStarts(c, s, held)
      PROVE  New
  <2>1. CASE Started(c, s, held) \/ LoadTooHigh(c, s, held)
    BY <1>4, <2>1 DEF Started, LoadTooHigh, Spawn
  <2>2. CASE FinishedAtOnce(c, s, held)
    <3>1. PICK status \in {"success", "question"}, ran \in BOOLEAN :
              EndsWithoutProcess(c, status, ran) /\ NoticeFinished(c, status, ran)
      BY <2>2 DEF FinishedAtOnce
    <3>2. status = "success" => line'[c] = Len(Recipe[c])
      BY <3>1 DEF EndsWithoutProcess, UseLines, IInv, TypeOK
    <3>3. c \notin children'
      BY <1>6, <2>2 DEF FinishedAtOnce, JobStarts, Ready
    <3>4. status = "success" => Through(c)'
      BY <3>2, <3>3, AllUsed DEF Through
    <3> QED BY <3>1, <3>4 DEF NoticeFinished, Group
  <2> QED BY <1>6, <2>1, <2>2 DEF JobStarts
<1>7. ASSUME NEW c \in Files, ReapNextLine(c)
      PROVE  New
  BY <1>4, <1>7 DEF ReapNextLine, Spawn
<1> HIDE DEF New
<1> QED BY <1>2, <1>3, <1>5, <1>6, <1>7, StepKinds DEF Quiet, ChildExits

--------------------------------------------------------------------------------
(* One recipe of a group at a time *)

\* A first line that starts is one -q does not stop at; and the other way round.
LEMMA FirstLine ==
    ASSUME TypeOK, NEW c \in Files, line[c] = 0, NEW i \in LinesLeft(c), NextLine(c, i)
    PROVE  StopsAtOnce(c) <=> QuestionStops(Recipe[c][i])
<1>1. i \in 1 .. Len(Recipe[c]) /\ Len(Recipe[c]) \in Nat
  BY LinesLeftRange, RecipeType
<1>2. \A j \in 1 .. Len(Recipe[c]) : j < i => PassedOver(Recipe[c][j])
  BY <1>1 DEF NextLine, LinesLeft
<1>3. ~PassedOver(Recipe[c][i])
  BY DEF LinesLeft
<1>4. CASE QuestionStops(Recipe[c][i])
  BY <1>1, <1>2, <1>4 DEF StopsAtOnce
<1>5. CASE ~QuestionStops(Recipe[c][i])
  <2> SUFFICES ASSUME NEW k \in 1 .. Len(Recipe[c]), QuestionStops(Recipe[c][k]),
                      \A j \in 1 .. (k - 1) : PassedOver(Recipe[c][j])
               PROVE  FALSE
    BY <1>5 DEF StopsAtOnce
  <2>1. ~PassedOver(Recipe[c][k])
    BY DEF PassedOver
  <2>2. ~(k < i)
    BY <1>2, <2>1
  <2>3. ~(i < k)
    BY <1>1, <1>3
  <2>4. k = i
    BY <1>1, <2>2, <2>3
  <2> QED BY <1>5, <2>4
<1> QED BY <1>4, <1>5

\* Groups that have a target in common are the same.
LEMMA GroupsApart ==
    ASSUME NEW c \in Files, NEW d \in Files, c \notin Group(d), NEW g \in Group(d)
    PROVE  g \notin Group(c)
BY GroupFacts

\* The parts of GroupInv that speak of recipes, not of new_job.
RecipesApart ==
    /\ \A c \in Files : command_state[c] # "deps_running"
    /\ \A c \in Files : command_state[c] = "not_started" => line[c] = 0
    /\ \A c \in children : \A g \in Group(c) : command_state[g] = "running"
    /\ \A c \in Held :
          /\ command_state[c] = "running" /\ line[c] = 0
          /\ \A g \in Group(c) : command_state[g] # "not_started"
    /\ \A c, d \in children \cup Held : d \in Group(c) => c = d
    /\ \A g \in Files : command_state[g] = "finished" =>
          \/ \A h \in Group(g) : command_state[h] = "finished"
          \/ update_status[g] = "question" /\ StopsAtOnce(g)

LEMMA ActiveFiles ==
    ASSUME TypeOK
    PROVE  children \subseteq Files /\ Held \subseteq Files
BY DEF TypeOK, Held

\* What the start of the job c does to the groups.
LEMMA ApartStarted ==
    ASSUME IInv, RecipesApart, NEW c \in Files, NEW s, NEW held, JobStarts(c, s, held),
           Started(c, s, held)
    PROVE  RecipesApart'
<1>1. /\ Ready(c, s) /\ opt' = opt /\ children' = children \cup {c} /\ waiting_jobs' = s
      /\ Held' = ListSet(s)
  BY DEF JobStarts, Started, Held, ListSet
<1>2. PICK i \in LinesLeft(c) : NextLine(c, i) /\ ~QuestionStops(Recipe[c][i]) /\ Spawn(c, i)
  BY DEF Started
<1>3. ~StopsAtOnce(c)
  BY <1>1, <1>2, FirstLine DEF Ready, IInv
<1>4. \A g \in Group(c) : command_state[g] \in {"not_started", "running"}
  <2> SUFFICES ASSUME NEW g \in Group(c) PROVE command_state[g] # "finished"
    BY GroupFacts DEF RecipesApart, IInv, TypeOK, CommandStates
  <2>1. g \in Files /\ c \in Group(g) /\ ~StopsAtOnce(g)
    BY <1>3, GroupFacts, SameStop
  <2>2. command_state[c] # "finished"
    BY <1>1 DEF Ready
  <2> QED BY <2>1, <2>2 DEF RecipesApart
<1>5. /\ \A g \in Group(c) : command_state'[g] = "running"
      /\ \A g \in Files \ Group(c) : command_state'[g] = command_state[g]
      /\ update_status' = update_status
  BY <1>1, <1>2, <1>4, GroupFacts DEF Spawn, Advance, Group, Ready, IInv, TypeOK
<1>6. \A d \in Files \ {c} : line'[d] = line[d]
  BY <1>2 DEF Spawn, UseLines, IInv, TypeOK
<1>7. \A d \in children \cup ListSet(s) :
          d \in Files /\ d # c /\ c \notin Group(d) /\ d \notin Group(c)
             /\ \A g \in Group(d) : g \in Files \ Group(c)
  BY <1>1, ActiveFiles, GroupsApart, GroupFacts DEF Ready, IInv
<1>8. c \in Group(c)
  BY DEF Group
<1>9. /\ \A d \in Files : command_state'[d] # "deps_running"
      /\ \A d \in Files : command_state'[d] = "not_started" => line'[d] = 0
  BY <1>5, <1>6, <1>8 DEF RecipesApart
<1>10. \A d \in children' : \A g \in Group(d) : command_state'[g] = "running"
  BY <1>1, <1>5, <1>7 DEF RecipesApart
<1>11. \A d \in Held' :
          /\ command_state'[d] = "running" /\ line'[d] = 0
          /\ \A g \in Group(d) : command_state'[g] # "not_started"
  BY <1>1, <1>5, <1>6, <1>7 DEF RecipesApart, Ready
<1>12. \A d, e \in children' \cup Held' : e \in Group(d) => d = e
  BY <1>1, <1>7 DEF RecipesApart, Ready
<1>13. \A g \in Files : command_state'[g] = "finished" =>
          \/ \A h \in Group(g) : command_state'[h] = "finished"
          \/ update_status'[g] = "question" /\ StopsAtOnce(g)'
  <2> SUFFICES ASSUME NEW g \in Files, command_state'[g] = "finished"
               PROVE  \/ \A h \in Group(g) : command_state'[h] = "finished"
                      \/ update_status'[g] = "question" /\ StopsAtOnce(g)'
    OBVIOUS
  <2>1. g \notin Group(c) /\ command_state[g] = "finished"
    BY <1>5
  <2>2. \A h \in Group(g) : command_state'[h] = command_state[h]
    BY <1>5, <2>1, GroupFacts
  <2>3. StopsAtOnce(g) => StopsAtOnce(g)'
    BY <1>1 DEF StopsAtOnce, QuestionStops, PassedOver
  <2> QED BY <1>5, <2>1, <2>2, <2>3 DEF RecipesApart
<1> QED BY <1>9, <1>10, <1>11, <1>12, <1>13 DEF RecipesApart

\* What the end of the recipe of c does to them: it is over for D, the whole group,
\* or c alone when -q stops before the recipe has started.
LEMMA ApartFinished ==
    ASSUME IInv, RecipesApart, NEW c \in Files, NEW status, NEW D, opt' = opt,
           \/ D = Group(c)
           \/ D = {c} /\ status = "question" /\ StopsAtOnce(c) /\ command_state[c] # "finished",
           command_state' = [g \in Files |-> IF g \in D THEN "finished" ELSE command_state[g]],
           update_status' = [g \in Files |-> IF g \in D THEN status ELSE update_status[g]],
           \A d \in Files \ {c} : line'[d] = line[d],
           children' \subseteq children, Held' \subseteq Held,
           \A d \in children' \cup Held' : c \notin Group(d)
    PROVE  RecipesApart'
<1>1. /\ c \in D /\ D \subseteq Group(c)
      /\ \A g \in Files : /\ command_state'[g] = IF g \in D THEN "finished" ELSE command_state[g]
                          /\ update_status'[g] = IF g \in D THEN status ELSE update_status[g]
  BY DEF Group
<1>2. \A d \in children' \cup Held' :
          /\ d \in Files /\ d # c
          /\ \A g \in Group(d) : g \in Files \ D
  BY <1>1, ActiveFiles, GroupsApart, GroupFacts DEF IInv, Group
<1>3. /\ \A d \in Files : command_state'[d] # "deps_running"
      /\ \A d \in Files : command_state'[d] = "not_started" => line'[d] = 0
  BY <1>1 DEF RecipesApart
<1>4. \A d \in children' : \A g \in Group(d) : command_state'[g] = "running"
  BY <1>1, <1>2 DEF RecipesApart
<1>5. \A d \in Held' : d \in Group(d) /\ d \in Held
  BY DEF Group
<1>6. \A d \in Held' :
          /\ command_state'[d] = "running" /\ line'[d] = 0
          /\ \A g \in Group(d) : command_state'[g] # "not_started"
  BY <1>1, <1>2, <1>5 DEF RecipesApart
<1>7. \A d, e \in children' \cup Held' : e \in Group(d) => d = e
  BY DEF RecipesApart
<1>8. \A g \in Files : command_state'[g] = "finished" =>
          \/ \A h \in Group(g) : command_state'[h] = "finished"
          \/ update_status'[g] = "question" /\ StopsAtOnce(g)'
  <2> SUFFICES ASSUME NEW g \in Files, command_state'[g] = "finished"
               PROVE  \/ \A h \in Group(g) : command_state'[h] = "finished"
                      \/ update_status'[g] = "question" /\ StopsAtOnce(g)'
    OBVIOUS
  <2>1. StopsAtOnce(g) => StopsAtOnce(g)'
    BY DEF StopsAtOnce, QuestionStops, PassedOver
  <2>2. CASE g \notin D
    BY <1>1, <2>1, <2>2, GroupFacts DEF RecipesApart
  <2>3. CASE g \in D /\ D = Group(c)
    BY <1>1, <2>3, GroupFacts
  <2>4. CASE g \in D /\ D # Group(c)
    BY <1>1, <2>1, <2>4
  <2> QED BY <2>2, <2>3, <2>4
<1> QED BY <1>3, <1>4, <1>6, <1>7, <1>8 DEF RecipesApart

\* A job held back by the load: its targets count as running from now on.
LEMMA ApartHeld ==
    ASSUME IInv, RecipesApart, NEW c \in Files, NEW s, NEW held, JobStarts(c, s, held),
           LoadTooHigh(c, s, held)
    PROVE  RecipesApart'
<1>1. /\ Ready(c, s) /\ opt' = opt /\ children' = children /\ line' = line
      /\ waiting_jobs' = <<c>> \o s /\ command_state' = Advance(c, "running")
      /\ update_status' = update_status
  BY DEF JobStarts, LoadTooHigh, childVars
<1>2. Held' = ListSet(s) \cup {c}
  <2>1. s \in Seq(Files) /\ Held' = ListSet(<<c>> \o s)
    BY <1>1 DEF Held, ListSet, Ready
  <2>2. \A x : x \in ListSet(<<c>> \o s) => x = c \/ x \in ListSet(s)
    <3> SUFFICES ASSUME NEW i \in 1 .. Len(<<c>> \o s), i # 1
                 PROVE  (<<c>> \o s)[i] \in ListSet(s)
      BY <2>1, PutHead DEF ListSet
    <3>1. (<<c>> \o s)[i] = s[i - 1] /\ i - 1 \in 1 .. Len(s)
      BY <2>1, PutHead
    <3> QED BY <3>1 DEF ListSet
  <2>3. c \in ListSet(<<c>> \o s)
    BY <2>1, PutHead DEF ListSet
  <2>4. \A x \in ListSet(s) : x \in ListSet(<<c>> \o s)
    <3> SUFFICES ASSUME NEW i \in 1 .. Len(s) PROVE s[i] \in ListSet(<<c>> \o s)
      BY DEF ListSet
    <3>1. (<<c>> \o s)[i + 1] = s[i] /\ i + 1 \in 1 .. Len(<<c>> \o s)
      BY <2>1, PutHead
    <3> QED BY <3>1 DEF ListSet
  <2> QED BY <2>1, <2>2, <2>3, <2>4
<1>3. /\ command_state'[c] = "running" /\ c \in Group(c)
      /\ \A g \in Group(c) :
            command_state'[g] = IF command_state[g] = "not_started" THEN "running"
                                ELSE IF g = c THEN "running" ELSE command_state[g]
      /\ \A g \in Files \ Group(c) : command_state'[g] = command_state[g]
      /\ command_state[c] # "finished"
  BY <1>1, GroupFacts DEF Advance, Group, Ready, RecipesApart
<1>4. \A d \in children \cup ListSet(s) :
          d \in Files /\ d # c /\ c \notin Group(d) /\ d \notin Group(c)
             /\ \A g \in Group(d) : g \in Files \ Group(c)
  BY <1>1, ActiveFiles, GroupsApart, GroupFacts DEF Ready, IInv
<1>5. /\ \A d \in Files : command_state'[d] # "deps_running"
      /\ \A d \in Files : command_state'[d] = "not_started" => line'[d] = 0
  BY <1>1, <1>3 DEF RecipesApart
<1>6. \A d \in children' : \A g \in Group(d) : command_state'[g] = "running"
  BY <1>1, <1>3, <1>4 DEF RecipesApart
<1>7. \A d \in Held' :
          /\ command_state'[d] = "running" /\ line'[d] = 0
          /\ \A g \in Group(d) : command_state'[g] # "not_started"
  <2>1. ListSet(s) \subseteq Held /\ line'[c] = 0
    BY <1>1 DEF Ready
  <2>2. \A g \in Group(c) : command_state'[g] # "not_started"
    BY <1>3
  <2>3. ASSUME NEW d \in ListSet(s)
        PROVE  /\ command_state'[d] = "running" /\ line'[d] = 0
               /\ \A g \in Group(d) : command_state'[g] # "not_started"
    BY <1>1, <1>3, <1>4, <2>1, GroupFacts DEF RecipesApart
  <2> QED BY <1>2, <1>3, <2>1, <2>2, <2>3
<1>8. \A d, e \in children' \cup Held' : e \in Group(d) => d = e
  BY <1>1, <1>2, <1>4 DEF RecipesApart, Ready
<1>9. \A g \in Files : command_state'[g] = "finished" =>
          \/ \A h \in Group(g) : command_state'[h] = "finished"
          \/ update_status'[g] = "question" /\ StopsAtOnce(g)'
  <2> SUFFICES ASSUME NEW g \in Files, command_state'[g] = "finished"
               PROVE  \/ \A h \in Group(g) : command_state'[h] = "finished"
                      \/ update_status'[g] = "question" /\ StopsAtOnce(g)'
    OBVIOUS
  <2>1. command_state[g] = "finished" /\ g # c
    BY <1>3
  <2>2. StopsAtOnce(g) => StopsAtOnce(g)'
    BY <1>1 DEF StopsAtOnce, QuestionStops, PassedOver
  <2>3. CASE g \in Group(c)
    BY <1>1, <1>3, <2>1, <2>2, <2>3, GroupFacts DEF RecipesApart
  <2>4. CASE g \notin Group(c)
    BY <1>1, <1>3, <2>1, <2>2, <2>4, GroupFacts DEF RecipesApart
  <2> QED BY <2>3, <2>4
<1> QED BY <1>5, <1>6, <1>7, <1>8, <1>9 DEF RecipesApart

LEMMA ApartStep ==
    ASSUME IInv, ExitInv, GroupInv, [Next]_vars
    PROVE  RecipesApart'
<1>0. RecipesApart
  BY DEF GroupInv, RecipesApart
<1>1. CASE UNCHANGED <<opt, command_state, update_status, line, children, waiting_jobs>>
  BY <1>0, <1>1 DEF RecipesApart, Held, StopsAtOnce, QuestionStops, PassedOver
<1>2. ASSUME NEW f \in Files, NEW dc \in BOOLEAN, ExecuteFileCommands(f, dc)
      PROVE  RecipesApart'
  <2>1. CASE Recipe[f] = <<>>
    <3>1. /\ NoticeFinished(f, "success", TRUE) /\ command_state[f] = "not_started"
          /\ opt' = opt /\ line' = line /\ children' = children /\ waiting_jobs' = waiting_jobs
          /\ Held' = Held
      BY <1>2, <2>1 DEF ExecuteFileCommands, chainVars, Held
    <3>2. \A d \in children \cup Held : f \notin Group(d)
      BY <1>0, <3>1 DEF RecipesApart
    <3> QED BY <1>0, <3>1, <3>2, ApartFinished DEF NoticeFinished
  <2>2. CASE Recipe[f] # <<>>
    BY <1>1, <1>2, <2>2 DEF ExecuteFileCommands, chainVars
  <2> QED BY <2>1, <2>2
<1>3. ASSUME NEW c \in Files, ReapNextLine(c)
      PROVE  RecipesApart'
  <2>1. /\ c \in children /\ opt' = opt /\ children' = children /\ waiting_jobs' = waiting_jobs
        /\ Held' = Held /\ update_status' = update_status /\ command_state' = Advance(c, "running")
        /\ \A d \in Files \ {c} : line'[d] = line[d]
    BY <1>3 DEF ReapNextLine, Reapable, Spawn, UseLines, Held, IInv, TypeOK
  <2>2. \A g \in Files : command_state'[g] = command_state[g]
    BY <1>0, <2>1 DEF RecipesApart, Advance, Group
  <2>3. c \notin Held /\ command_state[c] = "running" /\ Held \subseteq Files
    BY <1>0, <2>1, ActiveFiles DEF IInv, WaitingInv, WaitList, Held, Fresh, RecipesApart, Group
  <2> QED BY <1>0, <2>1, <2>2, <2>3, ActiveFiles, GroupFacts
          DEF IInv, RecipesApart, StopsAtOnce, QuestionStops, PassedOver
<1>4. ASSUME NEW c \in Files, NEW status, JobEnds(c, status)
      PROVE  RecipesApart'
  <2>1. /\ NoticeFinished(c, status, TRUE) /\ c \in children /\ opt' = opt
        /\ children' = children \ {c} /\ Held' = Held
        /\ \A d \in Files \ {c} : line'[d] = line[d]
    BY <1>4 DEF JobEnds, Reapable, Retire, Held
  <2>2. c \notin Held
    BY <2>1 DEF IInv, WaitingInv, WaitList, Held, Fresh
  <2>3. \A d \in children' \cup Held' : c \notin Group(d)
    BY <1>0, <2>1, <2>2 DEF RecipesApart
  <2> QED BY <1>0, <2>1, <2>3, ApartFinished DEF NoticeFinished
<1>5. ASSUME NEW c \in Files, NEW s, NEW held, JobStarts(c, s, held), FinishedAtOnce(c, s, held)
      PROVE  RecipesApart'
  <2>1. PICK status \in {"success", "question"}, ran \in BOOLEAN :
            EndsWithoutProcess(c, status, ran) /\ NoticeFinished(c, status, ran)
    BY <1>5 DEF FinishedAtOnce
  <2>0. Ready(c, s) /\ opt' = opt /\ children' = children /\ Held' = ListSet(s)
    BY <1>5 DEF JobStarts, FinishedAtOnce, Held, ListSet
  <2>2. /\ Ready(c, s) /\ opt' = opt /\ children' = children /\ Held' = ListSet(s)
        /\ \A d \in Files \ {c} : line'[d] = line[d]
    BY <2>0, <2>1 DEF EndsWithoutProcess, UseLines, IInv, TypeOK
  <2>3. Held' \subseteq Held /\ \A d \in children' \cup Held' : c \notin Group(d)
    BY <2>2 DEF Ready
  <2>4. CASE ran
    BY <1>0, <2>1, <2>2, <2>3, <2>4, ApartFinished DEF NoticeFinished
  <2>5. CASE ~ran
    <3>1. PICK i \in LinesLeft(c) : NextLine(c, i) /\ QuestionStops(Recipe[c][i])
      BY <2>1, <2>5 DEF EndsWithoutProcess
    <3>2. StopsAtOnce(c) /\ status = "question" /\ command_state[c] # "finished"
      BY <2>1, <2>2, <2>5, <3>1, FirstLine DEF Ready, IInv, EndsWithoutProcess
    <3> DEFINE D == {c}
    <3>3. /\ command_state' = [g \in Files |-> IF g \in D THEN "finished" ELSE command_state[g]]
          /\ update_status' = [g \in Files |-> IF g \in D THEN status ELSE update_status[g]]
      BY <2>1, <2>5 DEF NoticeFinished
    <3>4. D = {c}
      OBVIOUS
    <3> HIDE DEF D
    <3> QED BY <1>0, <2>2, <2>3, <3>2, <3>3, <3>4, ApartFinished
  <2> QED BY <2>4, <2>5
<1>6. ASSUME NEW c \in Files, NEW s, NEW held, JobStarts(c, s, held)
      PROVE  RecipesApart'
  BY <1>0, <1>5, <1>6, ApartStarted, ApartHeld DEF JobStarts
<1> QED BY <1>1, <1>2, <1>3, <1>4, <1>6, StepKinds DEF Quiet, ChildExits, chainVars

\* A job that starts, or is held back, concerns the targets of its recipe and no other.
LEMMA StartsOwnGroup ==
    ASSUME TypeOK, NEW c \in Files, NEW s, NEW held,
           \/ Started(c, s, held) \/ FinishedAtOnce(c, s, held) \/ LoadTooHigh(c, s, held)
    PROVE  \A g \in Files \ Group(c) :
               command_state'[g] = command_state[g] /\ update_status'[g] = update_status[g]
BY DEF Started, FinishedAtOnce, LoadTooHigh, Spawn, Advance, NoticeFinished, Group, TypeOK

\* new_job's file is not started while new_job has not started it: what it waits for
\* meanwhile are recipes of other targets.
LEMMA NewJobStep ==
    ASSUME IInv, ExitInv, GroupInv, [Next]_vars, InNewJob'
    PROVE  command_state'[cur'] = "not_started"
<1> USE DEF InNewJob, InSwj
<1>1. CASE ControlStep
  <2>1. ControlType
    BY DEF IInv, TypeOK, ControlType, ReapFrames
  <2>2. Moved
    BY <1>1, <2>1, ControlStepMoves DEF IInv
  <2> QED BY <1>1, <2>2, ControlStepFrame DEF Moved, fileVars, GroupInv
<1>2. CASE UNCHANGED <<command_state, ctlVars>>
  BY <1>2 DEF ctlVars, GroupInv
<1>3. CASE AcquireToken
  BY <1>3 DEF AcquireToken, fileVars, GroupInv
<1>4. CASE DieExits \/ StartNewJob
  BY <1>4 DEF DieExits, StartNewJob
<1>5. CASE TakeWaitingJob
  <2> DEFINE c == Head(waiting_jobs)
             s == Tail(waiting_jobs)
             held == jobserver_tokens
  <2>1. /\ pc = "swj_take"
        /\ Started(c, s, held) \/ FinishedAtOnce(c, s, held) \/ LoadTooHigh(c, s, held)
    BY <1>5 DEF TakeWaitingJob, StartWaitingJob
  <2>2. InNewJob /\ cur' = cur
    BY <1>5, LocationFacts DEF TakeWaitingJob, IInv, TypeOK
  <2>3. c \in Files /\ c \in Held
    <3>1. waiting_jobs # <<>>
      BY <2>1 DEF IInv, ControlInv
    <3> QED BY <3>1, TakeHead DEF IInv, Held
  <2> HIDE DEF c, s, held
  <2>4. command_state[cur] = "not_started" /\ cur \in Files \ Group(c)
    BY <2>2, <2>3 DEF GroupInv, IInv, CurInv, Fresh
  <2> QED BY <2>1, <2>2, <2>3, <2>4, StartsOwnGroup DEF IInv
<1>6. ASSUME NEW c \in Files, ReapFailed(c) \/ ReapNextLine(c) \/ ReapRecipeOver(c)
      PROVE  command_state'[cur'] = "not_started"
  <2>1. pc = "reap" /\ c \in children
    BY <1>6 DEF ReapFailed, ReapNextLine, ReapRecipeOver, Reapable
  <2>2. InNewJob /\ cur' = cur
    <3>1. CASE ReapFailed(c)
      BY <2>1, <3>1 DEF ReapFailed, CallDie, IInv, TypeOK
    <3>2. CASE ReapNextLine(c) \/ ReapRecipeOver(c)
      BY <2>1, <3>2 DEF ReapNextLine, ReapRecipeOver, ctlVars, IInv, TypeOK
    <3> QED BY <1>6, <3>1, <3>2
  <2>3. command_state[cur] = "not_started" /\ cur \in Files \ Group(c)
    BY <2>1, <2>2 DEF GroupInv, IInv, CurInv, Fresh
  <2>4. command_state'[cur] = command_state[cur]
    BY <1>6, <2>3 DEF ReapFailed, ReapNextLine, ReapRecipeOver, Retire, NoticeFinished, Spawn,
       Advance, Group
  <2> QED BY <2>2, <2>3, <2>4
<1>7. ASSUME NEW f \in Files, NEW dc \in BOOLEAN, ExecuteFileCommands(f, dc)
      PROVE  command_state'[cur'] = "not_started"
  <2>1. Recipe[f] # <<>>
    BY <1>7 DEF ExecuteFileCommands
  <2> QED BY <1>7, <2>1 DEF ExecuteFileCommands
<1>8. ASSUME NEW c \in Files, ChildExits(c)
      PROVE  command_state'[cur'] = "not_started"
  BY <1>2, <1>8 DEF ChildExits
<1>9. CASE UNCHANGED vars \/ PeerTakesToken \/ PeerReturnsToken \/ Exited
  BY <1>2, <1>9 DEF vars, PeerTakesToken, PeerReturnsToken, Exited, fileVars
<1> QED BY <1>1, <1>3, <1>4, <1>5, <1>6, <1>7, <1>8, <1>9
        DEF Next, JobStep, Caller, Outside, ControlStep

LEMMA GroupStep ==
    ASSUME IInv, ExitInv, GroupInv, [Next]_vars
    PROVE  GroupInv'
<1>1. RecipesApart' /\ (InNewJob' => command_state'[cur'] = "not_started")
  BY ApartStep, NewJobStep
<1> QED BY <1>1 DEF GroupInv, RecipesApart

--------------------------------------------------------------------------------
(* One run for a group *)

\* What has run stays so, nothing is handed over anew, and no job comes to be held back.
LEMMA RunKept ==
    ASSUME RunInv, \A f \in Files : pid'[f] = "unborn" <=> pid[f] = "unborn",
           \A f \in Files : command_state'[f] = "not_started" => command_state[f] = "not_started",
           Held' \subseteq {f \in Files : \A g \in Group(f) : pid[g] = "unborn"}
    PROVE  RunInv'
BY GroupFacts DEF RunInv, OneRunForGroup

LEMMA HeldFiles ==
    ASSUME IInv, RunInv
    PROVE  Held \subseteq {f \in Files : \A g \in Group(f) : pid[g] = "unborn"}
BY ActiveFiles DEF RunInv, IInv

\* A job that is about to start is the first of its group.
LEMMA ReadyGroup ==
    ASSUME RunInv, NEW c, NEW s, Ready(c, s)
    PROVE  \A g \in Group(c) : pid[g] = "unborn"
BY GroupFacts DEF RunInv, Ready

LEMMA RunStarted ==
    ASSUME IInv, RunInv, NEW c, NEW s, NEW held, Ready(c, s), Started(c, s, held)
    PROVE  RunInv'
<1>1. /\ c \in Files /\ s \in Seq(Files) /\ ListSet(s) \subseteq Held
      /\ \A d \in ListSet(s) : c \notin Group(d)
  BY DEF Ready
<1>2. /\ \A f \in Files \ {c} : pid'[f] = pid[f]
      /\ command_state' = Advance(c, "running") /\ waiting_jobs' = s
  BY DEF Started, Spawn, IInv, TypeOK
<1>3. \A g \in Group(c) : pid[g] = "unborn" /\ g \in Files
  BY <1>1, ReadyGroup, GroupFacts
<1>4. Held' = ListSet(s)
  BY <1>2 DEF Held, ListSet
<1>5. \A g \in Group(c) : command_state'[g] # "not_started"
  BY <1>2, <1>3 DEF Advance, Group
<1>6. \A f \in Files : command_state'[f] = "not_started" => command_state[f] = "not_started"
  BY <1>2 DEF Advance
<1>7. OneRunForGroup'
  BY <1>1, <1>2, <1>3, GroupFacts DEF OneRunForGroup, RunInv
<1>8. \A f \in Files : pid'[f] # "unborn" => \A g \in Group(f) : command_state'[g] # "not_started"
  <2>1. ASSUME NEW f \in Files \ {c}, pid'[f] # "unborn", NEW g \in Group(f)
        PROVE  command_state'[g] # "not_started"
    BY <1>2, <1>6, <2>1, GroupFacts DEF RunInv
  <2> QED BY <1>5, <2>1
<1>9. \A f \in Held' : \A g \in Group(f) : pid'[g] = "unborn"
  <2>1. Held \subseteq Files
    BY HeldFiles
  <2> QED BY <1>1, <1>2, <1>4, <2>1, GroupFacts DEF RunInv
<1> QED BY <1>7, <1>8, <1>9 DEF RunInv

LEMMA RunStep ==
    ASSUME IInv, ExitInv, GroupInv, RunInv, [Next]_vars
    PROVE  RunInv'
<1>1. ASSUME UNCHANGED <<pid, waiting_jobs>>,
             \A f \in Files : command_state'[f] = "not_started" => command_state[f] = "not_started"
      PROVE  RunInv'
  BY <1>1, RunKept, HeldFiles DEF Held
<1>2. CASE Quiet
  BY <1>1, <1>2 DEF Quiet
<1>3. ASSUME NEW c \in Files, ChildExits(c)
      PROVE  RunInv'
  <2>1. /\ pid[c] = "alive" /\ Held' = Held /\ command_state' = command_state
        /\ \A f \in Files \ {c} : pid'[f] = pid[f]
    BY <1>3 DEF ChildExits, chainVars, Held, IInv, TypeOK
  <2>2. pid'[c] # "unborn"
    BY <1>3, ExitsAssumption DEF ChildExits, ExitKinds, IInv, TypeOK
  <2> QED BY <2>1, <2>2, RunKept, HeldFiles
<1>4. ASSUME NEW f \in Files, NEW dc \in BOOLEAN, ExecuteFileCommands(f, dc)
      PROVE  RunInv'
  BY <1>1, <1>4 DEF ExecuteFileCommands, NoticeFinished, chainVars
<1>5. ASSUME NEW c \in Files, ReapNextLine(c)
      PROVE  RunInv'
  <2>1. /\ pid[c] # "unborn" /\ pid'[c] # "unborn" /\ Held' = Held
        /\ \A f \in Files \ {c} : pid'[f] = pid[f]
        /\ command_state' = Advance(c, "running")
    BY <1>5 DEF ReapNextLine, Reapable, Spawn, Held, ExitKinds, IInv, TypeOK
  <2> QED BY <2>1, RunKept, HeldFiles DEF Advance
<1>6. ASSUME NEW c \in Files, NEW status, JobEnds(c, status)
      PROVE  RunInv'
  <2>1. /\ pid[c] # "unborn" /\ pid'[c] # "unborn" /\ Held' = Held
        /\ \A f \in Files \ {c} : pid'[f] = pid[f]
        /\ NoticeFinished(c, status, TRUE)
    BY <1>6 DEF JobEnds, Reapable, Retire, Held, ExitKinds, IInv, TypeOK
  <2> QED BY <2>1, RunKept, HeldFiles DEF NoticeFinished
<1>7. ASSUME NEW c \in Files, NEW s \in Seq(Files), NEW held, JobStarts(c, s, held)
      PROVE  RunInv'
  <2>1. Ready(c, s) /\ \A g \in Group(c) : pid[g] = "unborn"
    BY <1>7, ReadyGroup DEF JobStarts
  <2>2. CASE Started(c, s, held)
    BY <2>1, <2>2, RunStarted
  <2>3. CASE FinishedAtOnce(c, s, held)
    <3>1. Held' = ListSet(s) /\ pid' = pid
      BY <2>3 DEF FinishedAtOnce, Held, ListSet
    <3>2. \A f \in Files : command_state'[f] = "not_started" => command_state[f] = "not_started"
      BY <2>3 DEF FinishedAtOnce, NoticeFinished
    <3> QED BY <2>1, <3>1, <3>2, RunKept, HeldFiles DEF Ready
  <2>4. CASE LoadTooHigh(c, s, held)
    <3>1. Held' \subseteq ListSet(s) \cup {c}
      <4>1. waiting_jobs' = <<c>> \o s
        BY <2>4 DEF LoadTooHigh
      <4> QED BY <2>1, <4>1, PutHead DEF Held, ListSet, Ready
    <3>2. /\ pid' = pid
          /\ \A f \in Files : command_state'[f] = "not_started" => command_state[f] = "not_started"
      BY <2>4 DEF LoadTooHigh, childVars, Advance
    <3> QED BY <2>1, <3>1, <3>2, RunKept, HeldFiles DEF Ready
  <2> QED BY <1>7, <2>2, <2>3, <2>4 DEF JobStarts
<1> QED BY <1>2, <1>3, <1>4, <1>5, <1>6, <1>7, StepKinds

--------------------------------------------------------------------------------
(* What a failed recipe leaves on disk *)

LEMMA HalfStep ==
    ASSUME IInv, ExitInv, GroupInv, HalfBuiltRemoved, [Next]_vars
    PROVE  HalfBuiltRemoved'
<1> DEFINE Failed(f) == command_state[f] = "finished" /\ update_status[f] = "failed"
           Kept == \A f \in Files \ Precious :
                       opt.delete_on_error /\ Failed(f)' /\ target'[f] = "changed" =>
                           \/ /\ Failed(f) /\ target[f] = "changed"
                              /\ \A g \in Files : f \in Group(g) /\ pid[g] = "nospawn" =>
                                     pid'[g] = "nospawn"
                           \/ \E g \in Files : f \in Group(g) /\ pid'[g] = "nospawn"
<1>1. ASSUME Kept, opt' = opt PROVE HalfBuiltRemoved'
  BY <1>1 DEF HalfBuiltRemoved
<1>2. CASE Quiet
  BY <1>2 DEF Quiet, HalfBuiltRemoved
<1>3. ASSUME NEW c \in Files, ChildExits(c)
      PROVE  HalfBuiltRemoved'
  <2>1. c \in children /\ pid[c] = "alive"
    BY <1>3 DEF ChildExits, IInv, ChainInv, OffChain
  <2>2. \A g \in Files \ {c} : pid'[g] = pid[g]
    BY <1>3 DEF ChildExits, IInv, TypeOK
  <2>3. \A f \in Files \ Group(c) : target'[f] = target[f]
    BY <1>3 DEF ChildExits, IInv, TypeOK
  <2>4. \A f \in Files : Failed(f) => f \notin Group(c)
    BY <2>1 DEF GroupInv
  <2>5. command_state' = command_state /\ update_status' = update_status /\ opt' = opt
    BY <1>3 DEF ChildExits
  <2> QED BY <1>1, <2>1, <2>2, <2>3, <2>4, <2>5
<1>4. ASSUME NEW c \in Files, ReapNextLine(c)
      PROVE  HalfBuiltRemoved'
  <2>1. /\ c \in children /\ opt' = opt /\ update_status' = update_status /\ target' = target
        /\ command_state' = Advance(c, "running")
        /\ \A g \in Files \ {c} : pid'[g] = pid[g]
    BY <1>4 DEF ReapNextLine, Reapable, Spawn, IInv, TypeOK
  <2>2. \A f \in Files : Failed(f)' => Failed(f) /\ f \notin Group(c)
    BY <2>1 DEF GroupInv, Advance, Group
  <2> QED BY <1>1, <2>1, <2>2
<1>5. ASSUME NEW c \in Files, NEW status, JobEnds(c, status)
      PROVE  HalfBuiltRemoved'
  <2>1. /\ opt' = opt /\ NoticeFinished(c, status, TRUE) /\ target' \in {target, Deleted(c)}
        /\ status = "failed" /\ opt.delete_on_error => target' = Deleted(c)
        /\ pid' = [pid EXCEPT ![c] = IF @ = "nospawn" THEN @ ELSE "reaped"]
    BY <1>5 DEF JobEnds, Retire
  <2>2. /\ \A g \in Files \ {c} : pid'[g] = pid[g]
        /\ pid[c] = "nospawn" => pid'[c] = "nospawn"
    BY <2>1 DEF IInv, TypeOK
  <2>3. \A f \in Files \ Group(c) :
            /\ Failed(f)' => Failed(f)
            /\ target'[f] = target[f]
    BY <2>1 DEF NoticeFinished, Deleted
  <2>4. ASSUME NEW f \in Group(c), f \in Files \ Precious, Failed(f)', opt.delete_on_error,
               target'[f] = "changed"
        PROVE  pid[c] = "nospawn"
    <3>1. target' = Deleted(c)
      BY <2>1, <2>4 DEF NoticeFinished
    <3> QED BY <2>4, <3>1 DEF Deleted
  <2> QED BY <1>1, <2>1, <2>2, <2>3, <2>4
<1>6. ASSUME NEW c \in Files, NEW s, NEW held, JobStarts(c, s, held)
      PROVE  HalfBuiltRemoved'
  <2>1. pid[c] = "unborn" /\ opt' = opt
    BY <1>6 DEF JobStarts, Ready
  <2>2. target' = target /\ \A g \in Files \ {c} : pid'[g] = pid[g]
    BY <1>6 DEF JobStarts, Started, FinishedAtOnce, LoadTooHigh, childVars, Spawn, IInv, TypeOK
  <2>3. \A f \in Files : Failed(f)' => Failed(f)
    <3>1. CASE Started(c, s, held) \/ LoadTooHigh(c, s, held)
      BY <3>1 DEF Started, LoadTooHigh, Spawn, Advance
    <3>2. CASE FinishedAtOnce(c, s, held)
      BY <3>2 DEF FinishedAtOnce, NoticeFinished
    <3> QED BY <1>6, <3>1, <3>2 DEF JobStarts
  <2> QED BY <1>1, <2>1, <2>2, <2>3
<1>7. ASSUME NEW f \in Files, NEW dc \in BOOLEAN, ExecuteFileCommands(f, dc)
      PROVE  HalfBuiltRemoved'
  <2>1. opt' = opt /\ target' = target /\ pid' = pid
    BY <1>7 DEF ExecuteFileCommands
  <2>2. \A g \in Files : Failed(g)' => Failed(g)
    BY <1>7 DEF ExecuteFileCommands, NoticeFinished
  <2> QED BY <1>1, <2>1, <2>2
<1> QED BY <1>2, <1>3, <1>4, <1>5, <1>6, <1>7, StepKinds

--------------------------------------------------------------------------------
(* The end of make *)

\* The failure a child reports is 1 or 2 (job.c:1042).
LEMMA FailureStatus ==
    ASSUME NEW c, ChildFailed(c) # MAKE_SUCCESS
    PROVE  ChildFailed(c) \in {MAKE_TROUBLE, MAKE_FAILURE}
BY DEF ChildFailed, MAKE_SUCCESS, MAKE_TROUBLE, MAKE_FAILURE

ExitStatuses == {-1, MAKE_SUCCESS, MAKE_TROUBLE, MAKE_FAILURE}

\* die is called for a child that fails only while make still has work to do: when it
\* ends well no child is left, and when it does not reap_children only cleans up.
LEMMA DiesOnce ==
    ASSUME ExitInv, pc = "reap", ~reap.err, children # {}
    PROVE  exit_status = -1 /\ reap.ret # "die"
BY DEF ExitInv

LEMMA ExitControl ==
    ASSUME IInv, ExitInv, ControlStep
    PROVE  ExitInv'
<1> USE DEF ExitInv
<1> USE LocationFacts, CallReapFrame DEF MAKE_SUCCESS, MAKE_TROUBLE, MAKE_FAILURE
<1>0. /\ UNCHANGED <<opt, children, waiting_jobs, job_slots_used, jobserver_tokens>>
      /\ pc \in Locations /\ sret \in SwjCallers /\ reap \in ReapFrames
      /\ exit_status \in ExitStatuses
  BY ControlStepFrame DEF chainVars, tokenVars, IInv, TypeOK, ReapFrames, ExitStatuses
<1>1. CASE StartWaitingJobs
  <2>1. CASE waiting_jobs = <<>>
    BY <1>0, <1>1, <2>1 DEF StartWaitingJobs
  <2>2. CASE waiting_jobs # <<>>
    BY <1>0, <1>1, <2>2 DEF StartWaitingJobs, ExitStatuses
  <2> QED BY <2>1, <2>2
<1>2. CASE ReapReturns
  BY <1>0, <1>2 DEF ReapReturns, ReapFrames, ExitStatuses
<1>3. CASE NewJobReaps \/ TokenStartsWaiting \/ WaitRound \/ RoundReaps
  BY <1>0, <1>3 DEF NewJobReaps, TokenStartsWaiting, WaitRound, RoundReaps,
     CallStartWaitingJobs, ExitStatuses
<1>4. CASE WaitForSlot
  BY <1>0, <1>4 DEF WaitForSlot, ExitStatuses
<1>5. CASE NeedToken \/ RecheckToken
  BY <1>0, <1>5 DEF NeedToken, RecheckToken, ExitStatuses
<1>6. CASE NewJobReturns
  BY <1>0, <1>6 DEF NewJobReturns, ExitStatuses
<1>7. CASE DieWaits
  BY <1>0, <1>7 DEF DieWaits, CallReap, ExitStatuses
<1>8. ASSUME NEW s \in {MAKE_SUCCESS, MAKE_TROUBLE, MAKE_FAILURE}, Finish(s)
      PROVE  ExitInv'
  BY <1>0, <1>8 DEF Finish, CallDie, NoFrame
<1> QED BY <1>1, <1>2, <1>3, <1>4, <1>5, <1>6, <1>7, <1>8 DEF ControlStep

LEMMA ExitStep ==
    ASSUME IInv, ExitInv, GroupInv, [Next]_vars
    PROVE  ExitInv'
<1> USE DEF ExitInv
<1>1. CASE ControlStep
  BY <1>1, ExitControl
<1>2. CASE UNCHANGED <<opt, children, waiting_jobs, job_slots_used, jobserver_tokens, ctlVars>>
  BY <1>2 DEF ctlVars
<1>3. CASE AcquireToken
  BY <1>3 DEF AcquireToken, chainVars
<1>4. CASE DieExits
  <2>1. /\ pc = "die" /\ job_slots_used = 0 /\ pc' = "exit" /\ exit_status # -1
        /\ UNCHANGED <<opt, chainVars, reap, exit_status>>
    BY <1>4 DEF DieExits
  <2>2. ASSUME opt.jobserver, exit_status # MAKE_TROUBLE
        PROVE  jobserver_tokens' = 0
    <3>1. CASE exit_status = MAKE_FAILURE
      BY <1>4, <2>2, <3>1 DEF DieExits
    <3>2. CASE exit_status # MAKE_FAILURE
      <4>1. exit_status = MAKE_SUCCESS
        BY <2>1, <2>2, <3>2 DEF IInv, TypeOK
      <4>2. jobserver_tokens = 0
        BY <2>1, <4>1, NoJobNoToken DEF IInv
      <4> QED BY <1>4, <3>2, <4>2 DEF DieExits
    <3> QED BY <3>1, <3>2
  <2> QED BY <2>1, <2>2 DEF chainVars
<1>5. CASE TakeWaitingJob \/ StartNewJob
  <2>1. /\ exit_status' = exit_status /\ reap' = reap
        /\ pc \notin {"die", "exit", "reap"} /\ pc' \notin {"die", "exit", "reap"}
    BY <1>5, LocationFacts DEF TakeWaitingJob, StartNewJob, IInv, TypeOK
  <2> QED BY <2>1 DEF MAKE_SUCCESS
<1>6. ASSUME NEW c \in Files, ReapFailed(c)
      PROVE  ExitInv'
  <2>1. pc = "reap" /\ children # {} /\ opt' = opt /\ reap \in ReapFrames
    BY <1>6 DEF ReapFailed, Reapable, IInv, TypeOK, ReapFrames
  <2>2. CASE ~reap.err /\ c \notin dontcare /\ ~opt.keep_going
    <3>1. exit_status = -1
      BY <2>1, <2>2, DiesOnce
    <3>2. exit_status' \in {MAKE_TROUBLE, MAKE_FAILURE} /\ pc' = "die"
      BY <1>6, <2>2, <3>1, FailureStatus DEF ReapFailed, CallDie
    <3> QED BY <3>2 DEF MAKE_SUCCESS, MAKE_TROUBLE, MAKE_FAILURE
  <2>3. CASE ~(~reap.err /\ c \notin dontcare /\ ~opt.keep_going)
    <3>1. /\ pc' = pc /\ exit_status' = exit_status
          /\ reap'.ret = reap.ret /\ reap'.err = reap.err
      BY <1>6, <2>1, <2>3 DEF ReapFailed, ReapFrames
    <3> QED BY <2>1, <3>1
  <2> QED BY <2>2, <2>3
<1>7. ASSUME NEW c \in Files, ReapRecipeOver(c)
      PROVE  ExitInv'
  <2>1. pc = "reap" /\ children # {} /\ reap \in ReapFrames
    BY <1>7 DEF ReapRecipeOver, Reapable, IInv, TypeOK, ReapFrames
  <2>2. /\ pc' = pc /\ exit_status' = exit_status
        /\ reap'.ret = reap.ret /\ reap'.err = reap.err
    BY <1>7, <2>1 DEF ReapRecipeOver, ReapFrames
  <2> QED BY <2>1, <2>2
<1>8. ASSUME NEW c \in Files, ReapNextLine(c) \/ ChildExits(c)
      PROVE  ExitInv'
  BY <1>2, <1>8 DEF ReapNextLine, ChildExits, tokenVars, chainVars
<1>9. ASSUME NEW f \in Files, NEW dc \in BOOLEAN, ExecuteFileCommands(f, dc)
      PROVE  ExitInv'
  <2>1. exit_status = -1 /\ exit_status' = -1
    BY <1>9 DEF ExecuteFileCommands
  <2>2. pc' \in {"caller", "swj"}
    <3>1. CASE Recipe[f] = <<>>
      BY <1>9, <3>1 DEF ExecuteFileCommands
    <3>2. CASE Recipe[f] # <<>>
      BY <1>9, <3>2 DEF ExecuteFileCommands, CallStartWaitingJobs
    <3> QED BY <3>1, <3>2
  <2> QED BY <2>1, <2>2 DEF MAKE_SUCCESS
<1>10. CASE UNCHANGED vars \/ PeerTakesToken \/ PeerReturnsToken \/ Exited
  BY <1>2, <1>10 DEF vars, PeerTakesToken, PeerReturnsToken, Exited, chainVars, tokenVars
<1> QED BY <1>1, <1>3, <1>4, <1>5, <1>6, <1>7, <1>8, <1>9, <1>10
        DEF Next, JobStep, Caller, Outside, ControlStep

--------------------------------------------------------------------------------
(* One job at a time *)

LEMMA LinearStep ==
    ASSUME IInv, ExitInv, GroupInv, LinearInv, [Next]_vars
    PROVE  LinearInv'
<1> DEFINE Idle == waiting_jobs = <<>> /\ children = {}
           Own == /\ waiting_jobs = <<>>
                  /\ children = {cur} /\ command_state[cur] = "running"
                  /\ pc = "new_linear" \/ (pc = "reap" /\ reap.ret = "new_linear")
<1>0. (LinearInv <=> (Linear => Idle \/ Own)) /\ (LinearInv' <=> (Linear' => Idle' \/ Own'))
  BY DEF LinearInv
<1>a. opt' = opt => (Linear' <=> Linear)
  BY DEF Linear
<1>1. CASE ControlStep
  <2>1. UNCHANGED <<opt, waiting_jobs, children, command_state>>
    BY <1>1, ControlStepFrame DEF chainVars, fileVars
  <2>2. ASSUME Linear, Own PROVE Own'
    <3>1. CASE pc = "new_linear"
      <4>1. NewJobReturns
        BY <1>1, <3>1 DEF ControlStep, StartWaitingJobs, ReapReturns, NewJobReaps, WaitForSlot,
           NeedToken, TokenStartsWaiting, RecheckToken, DieWaits, WaitRound, RoundReaps, Finish
      <4> QED BY <2>1, <2>2, <4>1 DEF NewJobReturns, CallReap, Linear
    <3>2. CASE pc = "reap" /\ reap.ret = "new_linear"
      <4>1. ReapReturns
        BY <1>1, <3>2 DEF ControlStep, StartWaitingJobs, NewJobReaps, WaitForSlot, NewJobReturns,
           NeedToken, TokenStartsWaiting, RecheckToken, DieWaits, WaitRound, RoundReaps, Finish
      <4> QED BY <2>1, <2>2, <3>2, <4>1 DEF ReapReturns
    <3> QED BY <2>2, <3>1, <3>2
  <2> QED BY <1>0, <1>a, <2>1, <2>2
<1>2. CASE UNCHANGED <<opt, waiting_jobs, children, command_state, pc, reap, cur>>
  BY <1>2 DEF LinearInv, Linear
<1>3. CASE AcquireToken \/ DieExits
  <2>1. UNCHANGED <<opt, waiting_jobs, children>> /\ ~Own
    BY <1>3 DEF AcquireToken, DieExits, chainVars
  <2> QED BY <1>0, <1>a, <2>1
<1>4. CASE TakeWaitingJob
  <2>1. opt' = opt /\ waiting_jobs # <<>>
    BY <1>4 DEF TakeWaitingJob, IInv, ControlInv
  <2> QED BY <1>0, <1>a, <2>1
<1>5. CASE StartNewJob
  <2>1. /\ pc = "new_start" /\ pc' = "new_linear" /\ opt' = opt /\ cur' = cur
        /\ Fresh(cur)
    BY <1>5 DEF StartNewJob, IInv, CurInv, InNewJob
  <2> SUFFICES ASSUME Linear PROVE Idle' \/ Own'
    BY <1>0, <1>a, <2>1
  <2>2. Idle
    BY <1>0, <2>1
  <2>3. ~LoadTooHigh(cur, waiting_jobs, jobserver_tokens + 1)
    <3>1. job_slots_used = 0
      BY <2>2, FS_EmptySet DEF IInv, ChainInv
    <3> QED BY <3>1 DEF LoadTooHigh
  <2>4. CASE Started(cur, waiting_jobs, jobserver_tokens + 1)
    <3>1. command_state'[cur] = "running"
      BY <2>1, <2>4 DEF Started, Spawn, Advance, Fresh
    <3> QED BY <2>1, <2>2, <2>4, <3>1 DEF Started
  <2>5. CASE FinishedAtOnce(cur, waiting_jobs, jobserver_tokens + 1)
    BY <2>2, <2>5 DEF FinishedAtOnce
  <2> QED BY <1>5, <2>3, <2>4, <2>5 DEF StartNewJob, StartWaitingJob
<1>6. ASSUME NEW c \in Files, ReapFailed(c) \/ ReapRecipeOver(c)
      PROVE  LinearInv'
  <2>1. /\ opt' = opt /\ c \in children /\ children' = children \ {c}
        /\ waiting_jobs' = waiting_jobs
    BY <1>6 DEF ReapFailed, ReapRecipeOver, Reapable, Retire
  <2> QED BY <1>0, <1>a, <2>1
<1>7. ASSUME NEW c \in Files, ReapNextLine(c)
      PROVE  LinearInv'
  <2>1. /\ UNCHANGED <<opt, children, waiting_jobs, pc, reap, cur>> /\ c \in children
        /\ command_state' = Advance(c, "running")
    BY <1>7 DEF ReapNextLine, Reapable, Spawn, ctlVars
  <2>2. command_state'[c] = "running"
    BY <2>1 DEF Advance
  <2> QED BY <1>0, <1>a, <2>1, <2>2
<1>8. ASSUME NEW f \in Files, NEW dc \in BOOLEAN, ExecuteFileCommands(f, dc)
      PROVE  LinearInv'
  <2>1. UNCHANGED <<opt, children, waiting_jobs>> /\ ~Own
    BY <1>8 DEF ExecuteFileCommands, chainVars
  <2> QED BY <1>0, <1>a, <2>1
<1>9. ASSUME NEW c \in Files, ChildExits(c)
      PROVE  LinearInv'
  BY <1>2, <1>9 DEF ChildExits, chainVars, ctlVars
<1>10. CASE UNCHANGED vars \/ PeerTakesToken \/ PeerReturnsToken \/ Exited
  BY <1>2, <1>10 DEF vars, PeerTakesToken, PeerReturnsToken, Exited, chainVars, fileVars, ctlVars
<1> QED BY <1>1, <1>3, <1>4, <1>5, <1>6, <1>7, <1>8, <1>9, <1>10
        DEF Next, JobStep, Caller, Outside, ControlStep

--------------------------------------------------------------------------------
(* Theorems *)

LEMMA SafeInit ==
    ASSUME Init
    PROVE  SafeInv
<1> USE DEF Init
<1>1. IInv
  BY InitInv
<1>2. /\ children = {} /\ waiting_jobs = <<>> /\ job_slots_used = 0 /\ jobserver_tokens = 0
      /\ pc = "caller" /\ exit_status = -1 /\ good_stdin = {} /\ ~good_stdin_used
      /\ \A f \in Files : command_state[f] = "not_started" /\ line[f] = 0 /\ pid[f] = "unborn"
  OBVIOUS
<1>3. Held = {}
  BY <1>2 DEF Held
<1>4. ExitInv
  BY <1>2 DEF ExitInv, MAKE_SUCCESS
<1>5. LinearInv /\ StdinInv
  BY <1>2 DEF LinearInv, StdinInv
<1>6. GroupInv
  BY <1>2, <1>3 DEF GroupInv, InNewJob, InSwj
<1>7. SuccessMeansDone /\ HalfBuiltRemoved /\ DryRunRunsOnlyRecursive
  BY <1>2 DEF SuccessMeansDone, HalfBuiltRemoved, DryRunRunsOnlyRecursive, Live, ExitKinds
<1>8. RunInv
  BY <1>2, <1>3, GroupFacts DEF RunInv, OneRunForGroup
<1> QED BY <1>1, <1>4, <1>5, <1>6, <1>7, <1>8 DEF SafeInv

\* What the theorems below rest on is true of every state make can be in: the accounts
\* above, who waits for whom when make ends, that -j1 has one job on the chain,
\* whose input is the terminal, and that one recipe makes each group of targets.
THEOREM SafeInvariance == Spec => []SafeInv
<1>1. Init => SafeInv
  BY SafeInit
<1>2. SafeInv /\ [Next]_vars => SafeInv'
  BY NextInv, ExitStep, LinearStep, StdinStep, GroupStep, RunStep, SuccessStep, HalfStep,
     DryStep
     DEF SafeInv
<1> QED BY <1>1, <1>2, PTL DEF Spec

\* A process that runs belongs to a child on the chain.
LEMMA LiveOnChain ==
    ASSUME IInv
    PROVE  Live \subseteq children
BY DEF IInv, ChainInv, OffChain, Live, ExitKinds

\* A set of which every two elements are one has at most one.
LEMMA AtMostOne ==
    ASSUME NEW S, \A x, y \in S : x = y
    PROVE  IsFiniteSet(S) /\ Cardinality(S) <= 1
<1>1. CASE S = {}
  BY <1>1, FS_EmptySet
<1>2. CASE S # {}
  <2>1. PICK x \in S : S = {x}
    BY <1>2
  <2>2. IsFiniteSet({x}) /\ Cardinality({x}) = 1
    BY FS_Singleton
  <2> QED BY <2>1, <2>2
<1> QED BY <1>1, <1>2

\* With -j1 or .NOTPARALLEL at most one command runs at a time, the targets of one
\* recipe never have it run twice, at most one command reads standard input, a target is reported made only when a recipe that makes it is
\* through, .DELETE_ON_ERROR leaves no half-made target, -n and -q run the lines marked +
\* only, and every token is back in the pipe when make exits (job.c:1002, 1051, 1300,
\* 1401, 1419, 1919, main.c:3696).
THEOREM RecipesAreSafe == Spec => []RecipesSafe
<1>1. ASSUME SafeInv PROVE RecipesSafe
  <2> USE <1>1 DEF SafeInv
  <2>1. OneAtATime
    <3>1. SUFFICES ASSUME Linear PROVE Cardinality(Live) <= 1
      BY DEF OneAtATime, Linear
    <3>2. \A x, y \in children : x = y
      BY <3>1 DEF LinearInv
    <3> QED BY <3>2, LiveOnChain, AtMostOne
  <2>2. OneGoodStdin
    BY AtMostOne DEF OneGoodStdin, StdinInv
  <2>3. TokensReturned
    <3>1. SUFFICES ASSUME pc = "exit", opt.jobserver, exit_status # MAKE_TROUBLE
                   PROVE  pool + others = Tokens
      BY DEF TokensReturned
    <3>2. jobserver_tokens = 0
      BY <3>1 DEF ExitInv
    <3> QED BY <3>1, <3>2 DEF IInv, TypeOK, TokenConservation, Drawn
  <2>4. OneRunForGroup
    BY DEF RunInv
  <2> QED BY <2>1, <2>2, <2>3, <2>4 DEF RecipesSafe
<1> QED BY <1>1, SafeInvariance, PTL

\* job_slots_used counts the children that hold a slot, in every state, and when make
\* exits none does; a command that is still running belongs to a
\* recipe that never got one, because its first command could not be started and the
\* failure was ignored (main.c:3753, job.c:1088).
THEOREM ExitsWithoutSlots == Spec => []SlotsHeld
<1>1. ASSUME SafeInv, pc = "exit" PROVE jobslot = {} /\ \A c \in Live : IgnoredEarlier(c)
  <2>1. Cardinality(jobslot) = 0 /\ IsFiniteSet(jobslot)
    BY <1>1, ChainFinite DEF SafeInv, ExitInv, IInv, ChainInv
  <2>2. jobslot = {}
    BY <2>1, FS_EmptySet
  <2> QED BY <1>1, <2>2, LiveOnChain DEF SafeInv, IInv, ChainInv, Live, ExitKinds
<1>2. SafeInv => ExitWaitsForSlots
  BY <1>1 DEF ExitWaitsForSlots
<1> QED BY <1>2, SlotsCounted, SafeInvariance, PTL DEF SlotsHeld

--------------------------------------------------------------------------------
(* The lines of a recipe *)

\* A line that is passed over needs no process.
LEMMA PassedOverNeedsNone ==
    ASSUME NEW c, NEW i \in (line[c] + 1) .. Len(Recipe[c]), i \notin LinesLeft(c)
    PROVE  ~NeedsProcess(Recipe[c][i])
BY DEF LinesLeft, PassedOver, NeedsProcess

\* The first line that is left: those before it need no process.
LEMMA NextLineInOrder ==
    ASSUME TypeOK, NEW c \in Files, NEW i \in LinesLeft(c), NextLine(c, i), UseLines(c, i)
    PROVE  /\ line[c] < line'[c] /\ \A d \in Files \ {c} : line'[d] = line[d]
           /\ \A j \in (line[c] + 1) .. (line'[c] - 1) : ~NeedsProcess(Recipe[c][j])
<1>1. /\ line' = [line EXCEPT ![c] = i] /\ line[c] \in Nat /\ Len(Recipe[c]) \in Nat
      /\ i \in (line[c] + 1) .. Len(Recipe[c])
  BY RecipeType DEF UseLines, TypeOK, LinesLeft
<1>2. line'[c] = i /\ \A d \in Files \ {c} : line'[d] = line[d]
  BY <1>1 DEF TypeOK
<1>3. ASSUME NEW j \in (line[c] + 1) .. (i - 1)
      PROVE  ~NeedsProcess(Recipe[c][j])
  <2>1. j \in (line[c] + 1) .. Len(Recipe[c]) /\ ~(i <= j)
    BY <1>1
  <2>2. j \notin LinesLeft(c)
    BY <2>1 DEF NextLine
  <2> QED BY <2>1, <2>2, PassedOverNeedsNone
<1> QED BY <1>1, <1>2, <1>3

\* A recipe that ends without a process, whether or not it had one before.
LEMMA EndsInOrder ==
    ASSUME TypeOK, NEW c \in Files, line[c] <= Len(Recipe[c]), NEW status, NEW ran,
           EndsWithoutProcess(c, status, ran)
    PROVE  /\ line'[c] # line[c] => line[c] < line'[c]
           /\ \A d \in Files \ {c} : line'[d] = line[d]
           /\ \A j \in (line[c] + 1) .. (line'[c] - 1) : ~NeedsProcess(Recipe[c][j])
           /\ status = "success" =>
                 \A j \in (line[c] + 1) .. Len(Recipe[c]) : ~NeedsProcess(Recipe[c][j])
<1>1. CASE LinesLeft(c) = {} /\ UseLines(c, Len(Recipe[c]))
  <2>1. /\ line' = [line EXCEPT ![c] = Len(Recipe[c])] /\ line[c] \in Nat
        /\ Len(Recipe[c]) \in Nat
    BY <1>1, RecipeType DEF UseLines, TypeOK
  <2>2. line'[c] = Len(Recipe[c]) /\ \A d \in Files \ {c} : line'[d] = line[d]
    BY <2>1 DEF TypeOK
  <2>3. \A j \in (line[c] + 1) .. Len(Recipe[c]) : ~NeedsProcess(Recipe[c][j])
    BY <1>1, PassedOverNeedsNone
  <2>4. \A j \in (line[c] + 1) .. (line'[c] - 1) : j \in (line[c] + 1) .. Len(Recipe[c])
    BY <2>1, <2>2
  <2> QED BY <2>1, <2>2, <2>3, <2>4
<1>2. CASE \E i \in LinesLeft(c) : NextLine(c, i) /\ UseLines(c, i) /\ status = "question"
  BY <1>2, NextLineInOrder
<1> QED BY <1>1, <1>2 DEF EndsWithoutProcess

\* The lines of a recipe run in order and once each, and none after a failure that is
\* not ignored; what is reported successful had all its commands run (job.c:986, 1035).
THEOREM LinesRunInOrder == Spec => RecipeInOrder
<1> DEFINE Fine == \A c \in Files : LinesInOrder(c)
<1>1. ASSUME line' = line, children \subseteq children' PROVE Fine
  BY <1>1 DEF LinesInOrder
<1>2. ASSUME SafeInv, [Next]_vars PROVE Fine
  <2> USE <1>2 DEF SafeInv
  <2>1. CASE Quiet
    BY <1>1, <2>1 DEF Quiet
  <2>2. ASSUME NEW c \in Files, ChildExits(c) PROVE Fine
    BY <1>1, <2>2 DEF ChildExits, chainVars
  <2>3. ASSUME NEW f \in Files, NEW dc \in BOOLEAN, ExecuteFileCommands(f, dc) PROVE Fine
    BY <1>1, <2>3 DEF ExecuteFileCommands, chainVars
  <2>4. ASSUME NEW c \in Files, ReapNextLine(c) PROVE Fine
    <3>1. /\ c \in children /\ pid[c] # "alive" /\ children' = children /\ LineDone(c)
      BY <2>4 DEF ReapNextLine, Reapable, ExitKinds
    <3>2. MayGoOn(c)
      BY <3>1 DEF LineDone, ChildFailed, Ignored, MayGoOn, MAKE_SUCCESS, MAKE_TROUBLE, MAKE_FAILURE
    <3>3. \E i \in LinesLeft(c) : NextLine(c, i) /\ UseLines(c, i)
      BY <2>4 DEF ReapNextLine, Spawn
    <3>4. /\ line[c] < line'[c] /\ \A d \in Files \ {c} : line'[d] = line[d]
          /\ \A j \in (line[c] + 1) .. (line'[c] - 1) : ~NeedsProcess(Recipe[c][j])
      BY <3>3, NextLineInOrder DEF IInv
    <3> QED BY <3>1, <3>2, <3>4 DEF LinesInOrder
  <2>5. ASSUME NEW c \in Files, ReapFailed(c) PROVE Fine
    <3>1. PICK status \in {"failed", "question"} : Retire(c, status)
      BY <2>5 DEF ReapFailed
    <3>2. update_status'[c] = status /\ children' = children \ {c}
      BY <3>1 DEF Retire, NoticeFinished, Group
    <3>3. line' = line
      BY <2>5 DEF ReapFailed
    <3> QED BY <3>2, <3>3 DEF LinesInOrder
  <2>6. ASSUME NEW c \in Files, ReapRecipeOver(c) PROVE Fine
    <3>1. /\ c \in children /\ pid[c] # "alive" /\ children' = children \ {c} /\ LineDone(c)
      BY <2>6 DEF ReapRecipeOver, Reapable, Retire, ExitKinds
    <3>2. MayGoOn(c) /\ line[c] <= Len(Recipe[c])
      BY <3>1 DEF LineDone, ChildFailed, Ignored, MayGoOn, MAKE_SUCCESS, MAKE_TROUBLE, MAKE_FAILURE,
         IInv, ChainInv
    <3>3. PICK status \in {"success", "question"} :
              EndsWithoutProcess(c, status, TRUE) /\ Retire(c, status)
      BY <2>6 DEF ReapRecipeOver
    <3>4. update_status'[c] = status
      BY <3>3 DEF Retire, NoticeFinished, Group
    <3>5. /\ line'[c] # line[c] => line[c] < line'[c]
          /\ \A d \in Files \ {c} : line'[d] = line[d]
          /\ \A j \in (line[c] + 1) .. (line'[c] - 1) : ~NeedsProcess(Recipe[c][j])
          /\ status = "success" =>
                \A j \in (line[c] + 1) .. Len(Recipe[c]) : ~NeedsProcess(Recipe[c][j])
      BY <3>2, <3>3, EndsInOrder DEF IInv
    <3> QED BY <3>1, <3>2, <3>4, <3>5 DEF LinesInOrder
  <2>7. ASSUME NEW c \in Files, NEW s \in Seq(Files), NEW held \in Nat, JobStarts(c, s, held)
        PROVE  Fine
    <3>1. c \notin children /\ line[c] = 0 /\ pid[c] = "unborn"
      BY <2>7 DEF JobStarts, Ready
    <3>2. CASE LoadTooHigh(c, s, held)
      BY <1>1, <3>2 DEF LoadTooHigh, childVars
    <3>3. CASE Started(c, s, held)
      <4>1. /\ children' = children \cup {c}
            /\ \E i \in LinesLeft(c) : NextLine(c, i) /\ UseLines(c, i)
        BY <3>3 DEF Started, Spawn
      <4>2. /\ line[c] < line'[c] /\ \A d \in Files \ {c} : line'[d] = line[d]
            /\ \A j \in (line[c] + 1) .. (line'[c] - 1) : ~NeedsProcess(Recipe[c][j])
        BY <4>1, NextLineInOrder DEF IInv
      <4> QED BY <3>1, <4>1, <4>2 DEF LinesInOrder
    <3>4. CASE FinishedAtOnce(c, s, held)
      <4>1. /\ children' = children
            /\ \E status \in {"success", "question"}, ran \in BOOLEAN :
                  EndsWithoutProcess(c, status, ran)
        BY <3>4 DEF FinishedAtOnce
      <4>2. line[c] <= Len(Recipe[c])
        BY <3>1, RecipeType
      <4>3. /\ line'[c] # line[c] => line[c] < line'[c]
            /\ \A d \in Files \ {c} : line'[d] = line[d]
            /\ \A j \in (line[c] + 1) .. (line'[c] - 1) : ~NeedsProcess(Recipe[c][j])
        BY <4>1, <4>2, EndsInOrder DEF IInv
      <4> QED BY <3>1, <4>1, <4>3 DEF LinesInOrder
    <3> QED BY <2>7, <3>2, <3>3, <3>4 DEF JobStarts
  <2> QED BY <2>1, <2>2, <2>3, <2>4, <2>5, <2>6, <2>7, StepKinds DEF JobEnds
<1>3. SafeInv /\ [Next]_vars => [Fine]_vars
  BY <1>2
<1> QED BY <1>3, SafeInvariance, PTL DEF Spec, RecipeInOrder

--------------------------------------------------------------------------------
(* The job engine implements Jobs *)

\* A step the update walk does not see.
LEMMA Unseen ==
    ASSUME UNCHANGED <<command_state, update_status>>, pc' = "exit" <=> pc = "exit"
    PROVE  UNCHANGED J!vars
BY DEF J!vars

\* The end of a recipe, for the targets in D.
LEMMA FinishSeen ==
    ASSUME NEW c \in Files, NEW D \in {{c}, Group(c)}, NEW s \in {"success", "question", "failed"},
           pc # "exit", pc' # "exit", command_state[c] # "finished",
           D = Group(c) \/ (command_state[c] = "not_started" /\ s = "question"),
           \A g \in D : command_state[g] = "finished" => update_status[g] = s,
           command_state' = [g \in Files |-> IF g \in D THEN "finished" ELSE command_state[g]],
           update_status' = [g \in Files |-> IF g \in D THEN s ELSE update_status[g]]
    PROVE  J!Next
<1> DEFINE phase == [f \in Files |-> Phase(command_state[f])]
<1>1. J!Group(c) = Group(c) /\ D \in {{c}, J!Group(c)} /\ s \in J!Statuses /\ D \subseteq Files
  BY GroupFacts DEF J!Group, Group, J!Statuses
<1>2. phase[c] # "done" /\ \A g \in D : phase[g] = "done" => update_status[g] = s
  BY <1>1 DEF Phase
<1>3. D = J!Group(c) \/ (D = {c} /\ phase[c] = "new" /\ s = "question")
  BY <1>1 DEF Phase
<1>4. phase' = [g \in Files |-> IF g \in D THEN "done" ELSE phase[g]]
  BY DEF Phase
<1>5. J!Finish(c, D, s) /\ UNCHANGED (pc = "exit")
  BY <1>1, <1>2, <1>3, <1>4 DEF J!Finish
<1> QED BY <1>1, <1>5 DEF J!Next

\* The start of a job, now or when the load allows.
LEMMA StartSeen ==
    ASSUME NEW c \in Files, pc # "exit", pc' # "exit",
           command_state[c] \in {"not_started", "running"},
           command_state[c] = "running" => \A g \in Group(c) : command_state[g] # "not_started",
           \A g \in Files : command_state[g] # "deps_running",
           command_state \in [Files -> CommandStates],
           command_state' = Advance(c, "running"), update_status' = update_status
    PROVE  [J!Next]_(J!vars)
<1> DEFINE phase == [f \in Files |-> Phase(command_state[f])]
<1>1. CASE command_state[c] = "running"
  <2>1. command_state' = command_state
    BY <1>1 DEF Advance, Group
  <2> QED BY <2>1, Unseen
<1>2. CASE command_state[c] = "not_started"
  <2>1. J!Group(c) = Group(c)
    BY DEF J!Group, Group
  <2>2. phase' = [g \in Files |-> IF g \in Group(c) /\ phase[g] = "new" THEN "running" ELSE phase[g]]
    BY <1>2 DEF Phase, Advance, Group
  <2>3. J!Start(c)
    BY <1>2, <2>1, <2>2 DEF J!Start, Phase
  <2> QED BY <2>3 DEF J!Next
<1> QED BY <1>1, <1>2

\* A job that is started, over at once, or held back.
LEMMA StartsSeen ==
    ASSUME IInv, GroupInv, NEW c \in Files, NEW s, NEW held, Ready(c, s),
           pc # "exit", pc' # "exit", opt' = opt,
           command_state[c] = "running" => \A g \in Group(c) : command_state[g] # "not_started",
           Started(c, s, held) \/ FinishedAtOnce(c, s, held) \/ LoadTooHigh(c, s, held)
    PROVE  [J!Next]_(J!vars)
<1>1. CASE Started(c, s, held) \/ LoadTooHigh(c, s, held)
  <2>1. command_state' = Advance(c, "running") /\ update_status' = update_status
    BY <1>1 DEF Started, LoadTooHigh, Spawn
  <2> QED BY <2>1, StartSeen DEF Ready, GroupInv, IInv, TypeOK
<1>2. CASE FinishedAtOnce(c, s, held)
  <2>1. PICK status \in {"success", "question"}, ran \in BOOLEAN :
            EndsWithoutProcess(c, status, ran) /\ NoticeFinished(c, status, ran)
    BY <1>2 DEF FinishedAtOnce
  <2>2. command_state[c] # "finished" /\ line[c] = 0
    BY DEF Ready
  <2>3. \A g \in Group(c) : command_state[g] = "finished" =>
            update_status[g] = "question" /\ StopsAtOnce(c)
    BY <2>2, GroupFacts, SameStop DEF GroupInv
  <2>4. StopsAtOnce(c) => status = "question"
    <3>1. SUFFICES ASSUME StopsAtOnce(c), LinesLeft(c) = {} PROVE FALSE
      BY <2>1 DEF EndsWithoutProcess
    <3>2. PICK i \in 1 .. Len(Recipe[c]) : QuestionStops(Recipe[c][i])
      BY <3>1 DEF StopsAtOnce
    <3>3. i \in LinesLeft(c)
      BY <2>2, <3>2, RecipeType DEF LinesLeft, PassedOver
    <3> QED BY <3>1, <3>3
  <2> DEFINE D == IF ran THEN Group(c) ELSE {c}
  <2>5. /\ D \in {{c}, Group(c)}
        /\ \A g \in D : command_state[g] = "finished" => update_status[g] = status
    BY <2>2, <2>3, <2>4
  <2>6. D = Group(c) \/ (command_state[c] = "not_started" /\ status = "question")
    BY <2>1 DEF EndsWithoutProcess, Ready
  <2>7. /\ command_state' = [g \in Files |-> IF g \in D THEN "finished" ELSE command_state[g]]
        /\ update_status' = [g \in Files |-> IF g \in D THEN status ELSE update_status[g]]
    BY <2>1 DEF NoticeFinished
  <2> HIDE DEF D
  <2>8. J!Next
    BY <2>2, <2>5, <2>6, <2>7, FinishSeen
  <2> QED BY <2>8
<1> QED BY <1>1, <1>2

LEMMA JobsStep ==
    ASSUME SafeInv, [Next]_vars
    PROVE  [J!Next]_(J!vars)
<1> USE DEF SafeInv
<1>1. CASE ControlStep
  <2>1. ControlType
    BY DEF IInv, TypeOK, ControlType, ReapFrames
  <2>2. pc # "exit" /\ pc' # "exit"
    <3>1. CASE \E s \in {MAKE_SUCCESS, MAKE_TROUBLE, MAKE_FAILURE} : Finish(s)
      BY <3>1 DEF Finish, CallDie
    <3>2. CASE ~ \E s \in {MAKE_SUCCESS, MAKE_TROUBLE, MAKE_FAILURE} : Finish(s)
      BY <1>1, <2>1, <3>2, LocationFacts
         DEF ControlType, ReapFrames, ControlStep, StartWaitingJobs, ReapReturns, NewJobReaps,
             WaitForSlot, NeedToken, TokenStartsWaiting, RecheckToken, NewJobReturns, DieWaits,
             WaitRound, RoundReaps, CallReap, CallStartWaitingJobs
    <3> QED BY <3>1, <3>2
  <2> QED BY <1>1, <2>2, ControlStepFrame, Unseen DEF fileVars
<1>2. CASE AcquireToken
  BY <1>2, Unseen DEF AcquireToken, fileVars
<1>3. CASE DieExits
  <2>1. J!Stop
    BY <1>3 DEF DieExits, fileVars, J!Stop
  <2> QED BY <2>1 DEF J!Next
<1>4. CASE TakeWaitingJob
  <2> DEFINE c == Head(waiting_jobs)
             s == Tail(waiting_jobs)
             held == jobserver_tokens
  <2>1. /\ pc = "swj_take" /\ opt' = opt /\ pc' # "exit"
        /\ Started(c, s, held) \/ FinishedAtOnce(c, s, held) \/ LoadTooHigh(c, s, held)
    BY <1>4, LocationFacts DEF TakeWaitingJob, StartWaitingJob, IInv, TypeOK
  <2>2. Ready(c, s) /\ c \in Files /\ c \in Held
    <3>1. waiting_jobs # <<>>
      BY <2>1 DEF IInv, ControlInv
    <3> QED BY <2>1, <3>1, TakeHead, HeadReady DEF IInv, Held
  <2> HIDE DEF c, s, held
  <2> QED BY <2>1, <2>2, StartsSeen DEF GroupInv
<1>5. CASE StartNewJob
  <2> DEFINE held == jobserver_tokens + 1
  <2>1. /\ pc = "new_start" /\ opt' = opt /\ pc' # "exit"
        /\ \/ Started(cur, waiting_jobs, held) \/ FinishedAtOnce(cur, waiting_jobs, held)
           \/ LoadTooHigh(cur, waiting_jobs, held)
    BY <1>5 DEF StartNewJob, StartWaitingJob
  <2>2. Ready(cur, waiting_jobs) /\ cur \in Files /\ command_state[cur] = "not_started"
    BY <2>1, CurReady DEF GroupInv, InNewJob, Ready
  <2> HIDE DEF held
  <2> QED BY <2>1, <2>2, StartsSeen
<1>6. ASSUME NEW c \in Files, ReapFailed(c) \/ ReapRecipeOver(c)
      PROVE  [J!Next]_(J!vars)
  <2>1. pc = "reap" /\ pc' # "exit"
    <3>1. CASE ReapFailed(c) /\ ~reap.err /\ c \notin dontcare /\ ~opt.keep_going
      BY <3>1, DiesOnce DEF ReapFailed, Reapable, CallDie
    <3>2. CASE ReapFailed(c) /\ ~(~reap.err /\ c \notin dontcare /\ ~opt.keep_going)
      BY <3>2 DEF ReapFailed
    <3>3. CASE ReapRecipeOver(c)
      BY <3>3 DEF ReapRecipeOver
    <3> QED BY <1>6, <3>1, <3>2, <3>3
  <2>2. PICK status \in {"success", "failed", "question"} : JobEnds(c, status)
    BY <1>6, FailedEnds, OverEnds
  <2>3. c \in children /\ NoticeFinished(c, status, TRUE)
    BY <2>2 DEF JobEnds, Reapable, Retire
  <2>4. c \in Group(c) /\ \A g \in Group(c) : command_state[g] = "running"
    BY <2>3 DEF GroupInv, Group
  <2>5. J!Next
    BY <2>1, <2>3, <2>4, FinishSeen DEF NoticeFinished
  <2> QED BY <2>5
<1>7. ASSUME NEW c \in Files, ReapNextLine(c)
      PROVE  [J!Next]_(J!vars)
  <2>1. /\ c \in children /\ pc' = pc /\ update_status' = update_status
        /\ command_state' = Advance(c, "running")
    BY <1>7 DEF ReapNextLine, Reapable, Spawn, ctlVars
  <2>2. command_state' = command_state
    BY <2>1 DEF GroupInv, Advance, Group, IInv, TypeOK
  <2> QED BY <2>1, <2>2, Unseen
<1>8. ASSUME NEW f \in Files, NEW dc \in BOOLEAN, ExecuteFileCommands(f, dc)
      PROVE  [J!Next]_(J!vars)
  <2>1. CASE Recipe[f] = <<>>
    <3>1. /\ pc = "caller" /\ pc' = pc /\ command_state[f] = "not_started"
          /\ NoticeFinished(f, "success", TRUE)
      BY <1>8, <2>1 DEF ExecuteFileCommands
    <3>2. ~StopsAtOnce(f)
      BY <2>1 DEF StopsAtOnce
    <3>3. \A g \in Group(f) : command_state[g] # "finished"
      BY <3>1, <3>2, GroupFacts, SameStop DEF GroupInv
    <3>4. J!Next
      BY <3>1, <3>3, FinishSeen DEF NoticeFinished
    <3> QED BY <3>4
  <2>2. CASE Recipe[f] # <<>>
    BY <1>8, <2>2, Unseen DEF ExecuteFileCommands, CallStartWaitingJobs
  <2> QED BY <2>1, <2>2
<1>9. ASSUME NEW c \in Files, ChildExits(c)
      PROVE  [J!Next]_(J!vars)
  BY <1>9, Unseen DEF ChildExits, ctlVars
<1>10. CASE UNCHANGED vars \/ PeerTakesToken \/ PeerReturnsToken \/ Exited
  BY <1>10, Unseen DEF vars, PeerTakesToken, PeerReturnsToken, Exited, fileVars, ctlVars
<1> QED BY <1>1, <1>2, <1>3, <1>4, <1>5, <1>6, <1>7, <1>8, <1>9, <1>10
        DEF Next, JobStep, Caller, Outside, ControlStep

\* What the update walk sees of the job engine is what Jobs says, for every set of
\* recipes and switches: the targets of a recipe are finished together, nothing finished
\* is taken back, and only -q ends a recipe for one of its targets before it has
\* started (job.c:1051, file.c:925, remake.c:1041).
THEOREM EngineIsJobs == Spec => ImplementsJobs
<1>1. Init => J!Init
  BY DEF Init, J!Init, Phase
<1>2. SafeInv /\ [Next]_vars => [J!Next]_(J!vars)
  BY JobsStep
<1> QED BY <1>1, <1>2, SafeInvariance, PTL DEF Spec, ImplementsJobs, J!Spec

================================================================================
