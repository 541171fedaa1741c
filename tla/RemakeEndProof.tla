----------------------------- MODULE RemakeEndProof -----------------------------
(***************************************************************************)
(* The theorems about what a run of Remake ends with and about what it     *)
(* does not do, for makefiles without circular prerequisites, :: rules,    *)
(* grouped rules and intermediate files: what make has said to be made is  *)
(* as new as what it was made from, the exit status tells the truth, and   *)
(* no recipe was run without need.                                         *)
(***************************************************************************)
EXTENDS RemakeProof

--------------------------------------------------------------------------------
(* Makefiles without intermediate files *)

LEMMA DirectState ==
    ASSUME Direct, IInv, Builds, pc # "exit"
    PROVE  /\ Plain /\ TypeOK /\ WalkInv /\ BuildInv /\ intermediate = {}
           /\ \A g \in Files : FileOK(g) /\ StatesAgree(g) /\ MadeFromMade(g) /\ ~Unmade(g)
<1>1. Plain /\ TypeOK /\ WalkInv /\ BuildInv
  BY DEF Direct, IInv
<1>2. intermediate = {}
  BY <1>1 DEF Direct, TypeOK
<1>3. \A g \in Files : FileOK(g)
  BY <1>1 DEF BuildInv, FilesInv, FileOK
<1> QED BY <1>1, <1>2, <1>3 DEF FileOK, Unmade

LEMMA DepFiles ==
    ASSUME Plain, NEW f \in Files
    PROVE  /\ Deps(f) \subseteq Files /\ f \notin Deps(f) /\ Counted(f) \subseteq Deps(f)
           /\ \A d : d \in Counted(f) <=>
                 \E i \in DOMAIN Prereqs[f] : ~Prereqs[f][i].ignore_mtime /\ Prereqs[f][i].file = d
           /\ \A i \in DOMAIN Prereqs[f] : Prereqs[f][i].file \in Deps(f)
<1>1. Deps(f) \subseteq Files /\ f \notin Deps(f)
  BY DepsFiles
<1>2. \A d : d \in Counted(f) <=>
          \E i \in DOMAIN Prereqs[f] : ~Prereqs[f][i].ignore_mtime /\ Prereqs[f][i].file = d
  BY DEF Counted
<1> QED BY <1>1, <1>2 DEF Deps

LEMMA GoodIsQuiet ==
    ASSUME NEW g \in Files, StatesAgree(g)
    PROVE  /\ Good(g) => job[g] \notin {"running", "ok", "fail"} /\ command_state[g] \notin Busy
           /\ Fresh(g) => job[g] = "none"
BY DEF StatesAgree, Good, Active, Fresh

\* What the times of a file's prerequisites and its own say does not change with others.
LEMMA CurrentKept ==
    ASSUME Plain, NEW f \in Files, Current(f), disk'[f] = disk[f],
           \A d \in Deps(f) : disk'[d] = disk[d]
    PROVE  Current(f)'
BY DepFiles DEF Current

--------------------------------------------------------------------------------
(* The files *)

\* make has looked at some times, at most
LEMMA FilesSame ==
    ASSUME FilesAtEnd, UNCHANGED <<disk, now, job, update_status, updated>>,
           \A g \in Files : last_mtime'[g] \in {last_mtime[g], disk[g]}
    PROVE  FilesAtEnd'
<1>1. ASSUME NEW g \in Files PROVE FileAtEnd(g)'
  <2>1. FileAtEnd(g) /\ last_mtime'[g] \in {last_mtime[g], disk[g]}
    BY DEF FilesAtEnd
  <2> QED BY <2>1 DEF FileAtEnd, Good, Current
<1> QED BY <1>1 DEF FilesAtEnd

\* a file is decided by the walk
LEMMA FilesDecided ==
    ASSUME Plain, TypeOK, FilesAtEnd, Builds, NEW f \in Files, StatesAgree(f), Fresh(f),
           NEW F, F \subseteq Files, NEW result \in {us_success, us_failed}, NEW ran,
           NoticeFinished(f, result, ran, Seen(F)), UNCHANGED <<disk, now, job>>,
           result = us_success => Current(f) /\ \A d \in Deps(f) : Good(d)
    PROVE  /\ FilesAtEnd'
           /\ \A g \in Files : Good(g) => Good(g)'
<1>1. Seen(F) \in [Files -> Times] /\ \A g \in Files : Seen(F)[g] \in {last_mtime[g], disk[g]}
  BY LookPlain
<1>2. /\ updated' = updated \cup {f}
      /\ update_status' = [update_status EXCEPT ![f] = result]
      /\ \A g \in Files : last_mtime'[g] \in {last_mtime[g], disk[g], UNKNOWN_MTIME}
  <2>1. PICK times : times = Seen(F) /\ times \in [Files -> Times]
    BY <1>1
  <2>2. NoticeFinished(f, result, ran, times)
    BY <2>1
  <2>3. TimeAfterRecipe = UNKNOWN_MTIME
    BY DEF TimeAfterRecipe, Builds
  <2> QED BY <1>1, <2>1, <2>2, <2>3, NoticePlain
<1>3. update_status \in [Files -> Statuses]
  BY DEF TypeOK
<1>4. \A g \in Files : Good(g) => Good(g)' /\ g # f
  BY <1>2, <1>3 DEF Good, Fresh
<1>5. \A g \in Files : Good(g)' => Good(g) \/ (g = f /\ result = us_success)
  BY <1>2, <1>3 DEF Good
<1>6. ASSUME NEW g \in Files PROVE FileAtEnd(g)'
  <2>1. FileAtEnd(g)
    BY DEF FilesAtEnd
  <2>2. disk'[g] <= now'
    BY <2>1 DEF FileAtEnd
  <2>3. job'[g] # "ok" \/ g \in Phony => last_mtime'[g] \in {UNKNOWN_MTIME, disk'[g]}
    BY <1>2, <2>1 DEF FileAtEnd
  <2>4. update_status'[g] # us_question
    BY <1>2, <1>3, <2>1 DEF FileAtEnd, us_success, us_failed, us_question
  <2>5. ASSUME Good(g)', NEW d \in Deps(g) PROVE Good(d)'
    <3>1. d \in Files
      BY DepFiles
    <3> QED BY <1>4, <1>5, <2>1, <2>5, <3>1 DEF FileAtEnd
  <2>6. ASSUME Good(g)' \/ job'[g] = "ok" PROVE Current(g)'
    <3>1. Current(g)
      BY <1>5, <2>1, <2>6 DEF FileAtEnd
    <3> QED BY <3>1 DEF Current
  <2> QED BY <2>2, <2>3, <2>4, <2>5, <2>6 DEF FileAtEnd, Deps
<1> QED BY <1>4, <1>6 DEF FilesAtEnd

\* a recipe that has ended is noticed
LEMMA FilesReaped ==
    ASSUME Plain, TypeOK, FilesAtEnd, Builds, NEW f \in Files, StatesAgree(f), MadeFromMade(f),
           Reap(f)
    PROVE  /\ FilesAtEnd'
           /\ \A g \in Files : Good(g) => Good(g)'
<1>0. PICK result, ran, times :
         /\ result = IF job[f] = "ok" THEN us_success ELSE us_failed
         /\ ran = TRUE /\ times = last_mtime
         /\ NoticeFinished(f, result, ran, times)
         /\ job[f] \in {"ok", "fail"}
         /\ job' = [job EXCEPT ![f] = "reaped"]
         /\ UNCHANGED <<disk, now>>
  BY DEF Reap, Ended
<1>1. times \in [Files -> Times] /\ update_status \in [Files -> Statuses]
  BY <1>0 DEF TypeOK
<1>2. /\ updated' = updated \cup {f}
      /\ update_status' = [update_status EXCEPT ![f] = result]
      /\ last_mtime' = [g \in Files |-> IF g = f /\ f \notin Phony THEN UNKNOWN_MTIME
                                                                 ELSE last_mtime[g]]
  <2>1. TimeAfterRecipe = UNKNOWN_MTIME
    BY DEF TimeAfterRecipe, Builds
  <2>2. NoticeFinished(f, result, ran, times) /\ times \in [Files -> Times]
    BY <1>0, <1>1
  <2>4. last_mtime' = [g \in Files |-> IF g = f /\ ran /\ f \notin Phony
                                          THEN TimeAfterRecipe ELSE times[g]]
    BY <2>2, NoticePlain
  <2>5. updated' = updated \cup {f} /\ update_status' = [update_status EXCEPT ![f] = result]
    BY <2>2, NoticePlain
  <2>3. last_mtime' = [g \in Files |-> IF g = f /\ f \notin Phony THEN UNKNOWN_MTIME
                                                                 ELSE last_mtime[g]]
    BY <1>0, <2>1, <2>4
  <2> QED BY <2>3, <2>5
<1>3. Active(f) /\ \A d \in Deps(f) : Good(d)
  BY <1>0 DEF Active, MadeFromMade
<1>4. \A g \in Files : Good(g) => Good(g)' /\ g # f
  BY <1>1, <1>2, <1>3 DEF Good, StatesAgree
<1>5. \A g \in Files : Good(g)' => Good(g) \/ (g = f /\ result = us_success)
  BY <1>1, <1>2 DEF Good
<1>6. ASSUME NEW g \in Files PROVE FileAtEnd(g)'
  <2>0. job \in [Files -> {"none", "running", "ok", "fail", "reaped"}]
    BY DEF TypeOK
  <2>1. FileAtEnd(g)
    BY DEF FilesAtEnd
  <2>2. disk'[g] <= now'
    BY <1>0, <2>1 DEF FileAtEnd
  <2>3. ASSUME job'[g] # "ok" \/ g \in Phony PROVE last_mtime'[g] \in {UNKNOWN_MTIME, disk'[g]}
    <3>1. CASE g = f /\ f \notin Phony
      BY <1>2, <3>1
    <3>2. CASE ~(g = f /\ f \notin Phony)
      <4>1. last_mtime'[g] = last_mtime[g] /\ disk'[g] = disk[g]
        BY <1>0, <1>2, <3>2
      <4>2. job[g] # "ok" \/ g \in Phony
        BY <1>0, <2>0, <2>3, <3>2
      <4> QED BY <2>1, <4>1, <4>2 DEF FileAtEnd
    <3> QED BY <3>1, <3>2
  <2>4. update_status'[g] # us_question
    BY <1>0, <1>1, <1>2, <2>1 DEF FileAtEnd, us_success, us_failed, us_question
  <2>5. ASSUME Good(g)', NEW d \in Deps(g) PROVE Good(d)'
    <3>1. d \in Files
      BY DepFiles
    <3> QED BY <1>3, <1>4, <1>5, <2>1, <2>5, <3>1 DEF FileAtEnd
  <2>6. ASSUME Good(g)' \/ job'[g] = "ok" PROVE Current(g)'
    <3>1. Good(g) \/ job[g] = "ok"
      BY <1>0, <1>5, <2>0, <2>6 DEF us_success, us_failed
    <3>2. Current(g)
      BY <2>1, <3>1 DEF FileAtEnd
    <3> QED BY <1>0, <3>2 DEF Current
  <2> QED BY <2>2, <2>3, <2>4, <2>5, <2>6 DEF FileAtEnd, Deps
<1> QED BY <1>4, <1>6 DEF FilesAtEnd

\* a recipe is started
LEMMA FilesStarted ==
    ASSUME TypeOK, FilesAtEnd, NEW f \in Files, job[f] = "none", job' = [job EXCEPT ![f] = "running"],
           UNCHANGED <<disk, now, update_status, updated, last_mtime>>
    PROVE  FilesAtEnd'
<1>1. ASSUME NEW g \in Files PROVE FileAtEnd(g)'
  <2>0. job \in [Files -> {"none", "running", "ok", "fail", "reaped"}]
    BY DEF TypeOK
  <2>1. FileAtEnd(g)
    BY DEF FilesAtEnd
  <2>2. job'[g] = "ok" => job[g] = "ok"
    BY <2>0
  <2>3. job'[g] # "ok" => job[g] # "ok"
    BY <2>0
  <2> QED BY <2>1, <2>2, <2>3 DEF FileAtEnd, Good, Current
<1> QED BY <1>1 DEF FilesAtEnd

\* a recipe ends, and what it has written is newer than anything it was made from
LEMMA FilesWritten ==
    ASSUME Direct, IInv, Builds, pc # "exit", FilesAtEnd, NEW f \in Files, RecipeEnds(f)
    PROVE  /\ FilesAtEnd'
           /\ \A g \in Files : job[g] # "running" => disk'[g] = disk[g]
<1>0. /\ Plain /\ TypeOK
      /\ \A g \in Files : StatesAgree(g) /\ MadeFromMade(g)
  BY DirectState
<1>1. PICK result \in {"ok", "fail"}, writes \in BOOLEAN :
         /\ job[f] = "running"
         /\ result = "fail" => ~writes
         /\ result = "ok" => writes \/ f \in Lazy
         /\ job' = [job EXCEPT ![f] = result]
         /\ now' = IF writes THEN now + 1 ELSE now
         /\ disk' = [g \in Files |-> IF writes /\ g \in Group(f) \ Phony THEN now' ELSE disk[g]]
         /\ UNCHANGED <<update_status, updated, last_mtime>>
  BY DEF RecipeEnds, fileVars, stateVars, timeVars
<1>2. Group(f) = {f}
  BY <1>0, PlainFiles
<1>3. /\ disk \in [Files -> Nat] /\ now \in Nat /\ now > NONEXISTENT_MTIME
      /\ job \in [Files -> {"none", "running", "ok", "fail", "reaped"}]
  BY <1>0, Numbers, DisksAssumption DEF TypeOK, NONEXISTENT_MTIME
<1>4. \A g \in Files : disk'[g] = IF writes /\ g = f /\ f \notin Phony THEN now + 1 ELSE disk[g]
  BY <1>1, <1>2
<1>5. ASSUME NEW g \in Files PROVE FileAtEnd(g)'
  <2>1. FileAtEnd(g)
    BY DEF FilesAtEnd
  <2>2. disk'[g] <= now'
    BY <1>1, <1>3, <1>4, <2>1 DEF FileAtEnd
  <2>3. ASSUME job'[g] # "ok" \/ g \in Phony PROVE last_mtime'[g] \in {UNKNOWN_MTIME, disk'[g]}
    <3>1. disk'[g] = disk[g]
      BY <1>1, <1>3, <1>4, <2>3
    <3>2. job[g] # "ok" \/ g \in Phony
      BY <1>1, <1>3, <2>3
    <3> QED BY <1>1, <2>1, <3>1, <3>2 DEF FileAtEnd
  <2>4. Good(g)' <=> Good(g)
    BY <1>1 DEF Good
  <2>5. ASSUME Good(g)', NEW d \in Deps(g) PROVE Good(d)'
    BY <1>1, <2>1, <2>4, <2>5 DEF FileAtEnd, Good
  <2>6. ASSUME Good(g)' \/ job'[g] = "ok" PROVE Current(g)'
    <3>1. CASE g = f
      <4>1. ASSUME NEW d \in Counted(f) PROVE disk'[d] = disk[d] /\ d \in Files
        BY <1>0, <1>4, <4>1, DepFiles
      <4>2. ~Good(f)
        BY <1>0, <1>1, GoodIsQuiet
      <4>3. job'[f] = "ok"
        BY <2>4, <2>6, <3>1, <4>2
      <4>4. result = "ok"
        BY <1>1, <1>3, <4>3
      <4>5. f \notin Phony \cup Lazy => disk'[f] = now + 1
        BY <1>1, <1>4, <4>4
      <4>6. \A d \in Files : disk[d] <= now /\ disk[d] \in Nat
        BY <1>3 DEF FilesAtEnd, FileAtEnd
      <4>7. \A d \in Counted(f) : disk'[d] <= now + 1
        BY <1>3, <4>1, <4>6
      <4>8. now + 1 # NONEXISTENT_MTIME
        BY <1>3 DEF NONEXISTENT_MTIME
      <4> QED BY <3>1, <4>5, <4>7, <4>8 DEF Current, Counted
    <3>2. CASE g # f
      <4>1. Good(g) \/ job[g] = "ok"
        BY <1>1, <1>3, <2>4, <2>6, <3>2
      <4>2. Current(g)
        BY <2>1, <4>1 DEF FileAtEnd
      <4>3. \A d \in Deps(g) : Good(d)
        BY <1>0, <2>1, <4>1 DEF FileAtEnd, MadeFromMade, Active
      <4>4. \A d \in Deps(g) : d \in Files /\ d # f
        BY <1>0, <1>1, <4>3, DepFiles, GoodIsQuiet
      <4>5. disk'[g] = disk[g] /\ \A d \in Deps(g) : disk'[d] = disk[d]
        BY <1>4, <3>2, <4>4
      <4> QED BY <1>0, <4>2, <4>5, CurrentKept
    <3> QED BY <3>1, <3>2
  <2>7. update_status'[g] # us_question
    BY <1>1, <2>1 DEF FileAtEnd
  <2> QED BY <2>2, <2>3, <2>5, <2>6, <2>7 DEF FileAtEnd, Deps
<1> QED BY <1>1, <1>4, <1>5 DEF FilesAtEnd

--------------------------------------------------------------------------------
(* A step of a run that builds *)

Building == Direct /\ IInv /\ Builds /\ pc # "exit" /\ EndInv

\* what no step takes back
Kept ==
    /\ FilesAtEnd'
    /\ \A g \in Files : job[g] # "running" => disk'[g] = disk[g]
    /\ \A g \in Files : Good(g) => Good(g)'
    /\ UNCHANGED <<opt, goaldeps>>

LEMMA BuildingFacts ==
    ASSUME Building
    PROVE  /\ Direct /\ IInv /\ Builds /\ pc # "exit" /\ Plain /\ TypeOK /\ WalkInv /\ BuildInv
           /\ FilesAtEnd /\ FramesAtEnd /\ TopAtEnd /\ GoalsAtEnd
           /\ intermediate = {} /\ Intermediates = {}
           /\ \A g \in Files : FileOK(g) /\ StatesAgree(g) /\ MadeFromMade(g) /\ ~Unmade(g)
BY DirectState DEF Building, EndInv, Direct

\* make has at most looked at some times
LEMMA QuietKept ==
    ASSUME Building, UNCHANGED <<worldVars, update_status, updated>>,
           \A g \in Files : last_mtime'[g] \in {last_mtime[g], disk[g]}
    PROVE  Kept
<1>1. UNCHANGED <<disk, now, job, opt, goaldeps>>
  BY DEF worldVars
<1>2. FilesAtEnd'
  BY <1>1, BuildingFacts, FilesSame
<1>3. \A g \in Files : Good(g) => Good(g)'
  BY DEF Good
<1> QED BY <1>1, <1>2, <1>3 DEF Kept

LEMMA LookedAt ==
    ASSUME Building, NEW F, F \subseteq Files, Look(F) \/ UNCHANGED timeVars
    PROVE  \A g \in Files : last_mtime'[g] \in {last_mtime[g], disk[g]}
<1>1. CASE UNCHANGED timeVars
  BY <1>1 DEF timeVars
<1>2. CASE Look(F)
  BY <1>2, BuildingFacts, LookPlain DEF Look
<1> QED BY <1>1, <1>2

\* The prerequisites that a call has passed are made.
LEMMA PassedAreGood ==
    ASSUME Building, NEW fr \in FrameType, ScanOK(fr), SecondOK(fr), Unhindered(fr),
           Scanning(fr) \/ Second(fr),
           NEW i \in DOMAIN Prereqs[fr.file], i < Extent(fr)
    PROVE  Good(Prereqs[fr.file][i].file)
<1>1. /\ \A g \in Files : ~Unmade(g)
      /\ Prereqs[fr.file][i].file \in Files
  <2>1. fr.file \in Files
    BY DEF FrameType
  <2> QED BY <2>1, BuildingFacts, DepFiles
<1>2. CASE Scanning(fr)
  <2>1. ~Second(fr)
    BY <1>2 DEF Scanning, Second
  <2> QED BY <1>1, <1>2, <2>1 DEF ScanOK, Passed, Extent
<1>3. CASE Second(fr)
  BY <1>1, <1>3 DEF SecondOK, Passed
<1> QED BY <1>2, <1>3

LEMMA RenewedSame ==
    ASSUME NEW f \in Files, NEW n, disk'[f] = disk[f],
           \A i \in DOMAIN Prereqs[f] : i < n => disk'[Prereqs[f][i].file] = disk[Prereqs[f][i].file]
    PROVE  RenewedBefore(f, n)' <=> RenewedBefore(f, n)
BY DEF RenewedBefore

\* What a call knows stays true whatever the others do.
LEMMA EndFrameKept ==
    ASSUME Building, Kept, NEW fr \in FrameType, NEW caller, FrameOK(fr, caller), FrameAtEnd(fr)
    PROVE  FrameAtEnd(fr)'
<1>1. CASE ~(Scanning(fr) \/ Second(fr))
  BY <1>1 DEF FrameAtEnd
<1>2. CASE Scanning(fr) \/ Second(fr)
  <2>1. PICK f : f = fr.file
    OBVIOUS
  <2>2. f \in Files /\ Fresh(f)
    BY <1>2, <2>1 DEF FrameType, FrameOK, OpenOK
  <2>3. disk'[f] = disk[f]
    BY <2>2 DEF Kept, Fresh
  <2>4. PICK n : n = Extent(fr)
    OBVIOUS
  <2>5. ASSUME Unhindered(fr) PROVE RenewedBefore(f, n)' <=> RenewedBefore(f, n)
    <3>1. ASSUME NEW i \in DOMAIN Prereqs[f], i < n
          PROVE  disk'[Prereqs[f][i].file] = disk[Prereqs[f][i].file]
      <4>1. Good(Prereqs[f][i].file)
        BY <1>2, <2>1, <2>4, <2>5, <3>1, PassedAreGood DEF FrameOK
      <4>2. Prereqs[f][i].file \in Files
        BY <2>2, BuildingFacts, DepFiles
      <4>3. StatesAgree(Prereqs[f][i].file)
        BY <4>2, BuildingFacts
      <4> QED BY <4>1, <4>2, <4>3, GoodIsQuiet DEF Kept
    <3> QED BY <2>2, <2>3, <3>1, RenewedSame
  <2>6. fr.this_mtime = disk'[f]
    BY <1>2, <2>1, <2>3 DEF FrameAtEnd
  <2>7. ASSUME Unhindered(fr)
        PROVE  fr.must_make <=> disk'[f] = NONEXISTENT_MTIME \/ RenewedBefore(f, n)'
    BY <1>2, <2>1, <2>3, <2>4, <2>5, <2>7 DEF FrameAtEnd
  <2>8. fr.at # "inter_back" /\ fr.dep_status # us_question
    BY DEF FrameAtEnd
  <2>9. Extent(fr)' = n
    BY <2>4 DEF Extent, Second, Position
  <2>10. RenewedBefore(fr.file, Extent(fr))' <=> RenewedBefore(f, n)'
    BY <2>1, <2>9
  <2> QED BY <2>1, <2>6, <2>7, <2>8, <2>10 DEF FrameAtEnd, Unhindered
<1> QED BY <1>1, <1>2

\* a call for t waits for the one on top
Waiting(t) == \E k \in 2 .. Len(stack) : stack[k].file = t

LEMMA BuriedAtEnd ==
    ASSUME Building, Kept, pc \in Walks, NEW k \in 2 .. Len(stack), NEW fr, fr = stack[k]
    PROVE  FrameAtEnd(fr)'
<1>1. k \in 1 .. Len(stack)
  BY BuildingFacts, WalkFacts
<1>2. FrameOK(fr, Caller(stack, k)) /\ FrameAtEnd(fr)
  BY <1>1, BuildingFacts DEF BuildInv, FramesInv, FramesAtEnd
<1>3. fr \in FrameType
  BY <1>1, BuildingFacts, WalkFacts
<1> QED BY <1>2, <1>3, EndFrameKept

LEMMA EndFramesContinue ==
    ASSUME Building, Kept, pc \in Walks,
           NEW fr \in FrameType, stack' = <<fr>> \o Tail(stack), fr.file = Top.file,
           FrameAtEnd(fr)', fr.proc # Check
    PROVE  FramesAtEnd' /\ \A t : OnStack(t) => OnStack(t)'
<1>1. /\ stack \in Seq(FrameType) /\ stack # <<>> /\ Len(stack) \in Nat /\ Len(stack) >= 1
      /\ Top = stack[1] /\ DOMAIN stack = 1 .. Len(stack)
  BY BuildingFacts, WalkFacts
<1>2. /\ Len(stack') = Len(stack) /\ stack'[1] = fr
      /\ \A k \in 2 .. Len(stack) : stack'[k] = stack[k]
      /\ stack' \in Seq(FrameType)
  BY <1>1, StackContinue
<1>3. ASSUME NEW k \in 1 .. Len(stack') PROVE FrameAtEnd(stack[k])'
  <2>1. PICK fr2 : fr2 = stack'[k]
    OBVIOUS
  <2>2. FrameAtEnd(fr2)'
    <3>1. CASE k = 1
      BY <1>2, <2>1, <3>1
    <3>2. CASE k # 1
      <4>1. k \in 2 .. Len(stack) /\ fr2 = stack[k]
        BY <1>1, <1>2, <2>1, <3>2
      <4> QED BY <4>1, BuriedAtEnd
    <3> QED BY <3>1, <3>2
  <2> QED BY <2>1, <2>2
<1>4. ASSUME NEW k \in 1 .. Len(stack') - 1 PROVE Handed(stack'[k], stack'[k + 1])
  <2>1. CASE k = 1
    BY <1>2, <2>1 DEF Handed
  <2>2. CASE k # 1
    <3>1. k \in 1 .. Len(stack) - 1 /\ k \in 2 .. Len(stack) /\ k + 1 \in 2 .. Len(stack)
      BY <1>1, <1>2, <2>2
    <3> QED BY <1>2, <3>1, BuildingFacts DEF FramesAtEnd
  <2> QED BY <2>1, <2>2
<1>5. ASSUME NEW t, OnStack(t) PROVE OnStack(t)'
  <2>1. PICK k \in 1 .. Len(stack) : stack[k].file = t
    BY <1>1, <1>5 DEF OnStack
  <2>2. stack'[k].file = t
    BY <1>1, <1>2, <2>1
  <2>3. k \in DOMAIN stack'
    BY <1>2
  <2> QED BY <2>2, <2>3 DEF OnStack
<1>6. FramesAtEnd'
  BY <1>3, <1>4 DEF FramesAtEnd, Handed
<1> QED BY <1>5, <1>6

LEMMA EndFramesCall ==
    ASSUME Building, Kept, pc \in Walks,
           NEW fr \in FrameType, NEW e \in FrameType, stack' = <<e, fr>> \o Tail(stack),
           fr.file = Top.file, fr.proc = Top.proc, fr.this_mtime = Top.this_mtime,
           fr.must_make = Top.must_make, FrameAtEnd(fr)', FrameAtEnd(e)', Handed(e, fr)
    PROVE  FramesAtEnd' /\ \A t : OnStack(t) => OnStack(t)'
<1>1. /\ stack \in Seq(FrameType) /\ stack # <<>> /\ Len(stack) \in Nat /\ Len(stack) >= 1
      /\ Top = stack[1] /\ DOMAIN stack = 1 .. Len(stack)
  BY BuildingFacts, WalkFacts
<1>2. /\ Len(stack') = Len(stack) + 1 /\ stack'[1] = e /\ stack'[2] = fr
      /\ \A k \in 3 .. Len(stack) + 1 : stack'[k] = stack[k - 1]
      /\ stack' \in Seq(FrameType)
  BY <1>1, StackCall
<1>3. ASSUME NEW k \in 1 .. Len(stack') PROVE FrameAtEnd(stack[k])'
  <2>1. PICK fr2 : fr2 = stack'[k]
    OBVIOUS
  <2>2. FrameAtEnd(fr2)'
    <3>1. CASE k = 1
      BY <1>2, <2>1, <3>1
    <3>2. CASE k = 2
      BY <1>2, <2>1, <3>2
    <3>3. CASE k \notin {1, 2}
      <4>1. k - 1 \in 2 .. Len(stack) /\ fr2 = stack[k - 1]
        BY <1>1, <1>2, <2>1, <3>3
      <4> QED BY <4>1, BuriedAtEnd
    <3> QED BY <3>1, <3>2, <3>3
  <2> QED BY <2>1, <2>2
<1>4. ASSUME NEW k \in 1 .. Len(stack') - 1 PROVE Handed(stack'[k], stack'[k + 1])
  <2>1. CASE k = 1
    BY <1>2, <2>1
  <2>2. CASE k = 2
    <3>1. 1 \in 1 .. Len(stack) - 1 /\ 3 \in 3 .. Len(stack) + 1 /\ 3 - 1 = 2 /\ 1 + 1 = 2
      BY <1>1, <1>2, <2>2
    <3>2. Handed(stack[1], stack[2])
      BY <3>1, BuildingFacts DEF FramesAtEnd
    <3>3. Handed(fr, stack[2])
      BY <1>1, <3>2 DEF Handed
    <3>4. stack'[2 + 1] = stack[2]
      BY <1>2, <3>1
    <3> QED BY <1>2, <2>2, <3>3, <3>4
  <2>3. CASE k \notin {1, 2}
    <3>1. /\ k - 1 \in 1 .. Len(stack) - 1 /\ k \in 3 .. Len(stack) + 1
          /\ k + 1 \in 3 .. Len(stack) + 1 /\ (k + 1) - 1 = (k - 1) + 1
      BY <1>1, <1>2, <2>3
    <3>2. Handed(stack[k - 1], stack[(k - 1) + 1])
      BY <3>1, BuildingFacts DEF FramesAtEnd
    <3> QED BY <1>2, <3>1, <3>2
  <2> QED BY <2>1, <2>2, <2>3
<1>5. ASSUME NEW t, OnStack(t) PROVE OnStack(t)'
  <2>1. PICK k \in 1 .. Len(stack) : stack[k].file = t
    BY <1>1, <1>5 DEF OnStack
  <2>2. k + 1 \in 2 .. Len(stack) + 1 /\ (k # 1 => k + 1 \in 3 .. Len(stack) + 1 /\ (k + 1) - 1 = k)
    BY <1>1
  <2>3. stack'[k + 1].file = t
    BY <1>1, <1>2, <2>1, <2>2
  <2>4. k + 1 \in DOMAIN stack'
    BY <1>1, <1>2, <2>2
  <2> QED BY <2>3, <2>4 DEF OnStack
<1>6. FramesAtEnd'
  BY <1>3, <1>4 DEF FramesAtEnd, Handed
<1> QED BY <1>5, <1>6

LEMMA EndFramesReturn ==
    ASSUME Building, Kept, pc \in Walks, stack' = Tail(stack)
    PROVE  /\ FramesAtEnd'
           /\ \A t : OnStack(t) => OnStack(t)' \/ t = Top.file
           /\ \A t : Waiting(t) => OnStack(t)'
<1>1. /\ stack \in Seq(FrameType) /\ stack # <<>> /\ Len(stack) \in Nat /\ Len(stack) >= 1
      /\ Top = stack[1] /\ DOMAIN stack = 1 .. Len(stack)
  BY BuildingFacts, WalkFacts
<1>2. /\ Len(stack') = Len(stack) - 1
      /\ \A k \in 1 .. Len(stack') : stack'[k] = stack[k + 1]
      /\ stack' \in Seq(FrameType)
  BY <1>1, StackReturn
<1>3. ASSUME NEW k \in 1 .. Len(stack') PROVE FrameAtEnd(stack[k])'
  <2>1. PICK fr2 : fr2 = stack'[k]
    OBVIOUS
  <2>2. k + 1 \in 2 .. Len(stack) /\ fr2 = stack[k + 1]
    BY <1>1, <1>2, <2>1
  <2>3. FrameAtEnd(fr2)'
    BY <2>2, BuriedAtEnd
  <2> QED BY <2>1, <2>3
<1>4. ASSUME NEW k \in 1 .. Len(stack') - 1 PROVE Handed(stack'[k], stack'[k + 1])
  <2>1. k + 1 \in 1 .. Len(stack) - 1 /\ k \in 1 .. Len(stack') /\ k + 1 \in 1 .. Len(stack')
    BY <1>1, <1>2
  <2> QED BY <1>2, <2>1, BuildingFacts DEF FramesAtEnd
<1>5. ASSUME NEW k \in 2 .. Len(stack), NEW g, g = stack[k].file PROVE OnStack(g)'
  <2>1. k - 1 \in 1 .. Len(stack') /\ (k - 1) + 1 = k
    BY <1>1, <1>2
  <2>2. stack'[k - 1].file = g /\ k - 1 \in DOMAIN stack'
    BY <1>2, <1>5, <2>1
  <2> QED BY <2>2 DEF OnStack
<1>8. ASSUME NEW t, Waiting(t) PROVE OnStack(t)'
  BY <1>5, <1>8 DEF Waiting
<1>6. ASSUME NEW t, OnStack(t), t # Top.file PROVE OnStack(t)'
  <2>1. PICK k \in 1 .. Len(stack) : stack[k].file = t
    BY <1>1, <1>6 DEF OnStack
  <2>2. k \in 2 .. Len(stack)
    BY <1>1, <1>6, <2>1
  <2> QED BY <1>5, <2>1, <2>2
<1>7. FramesAtEnd'
  BY <1>3, <1>4 DEF FramesAtEnd, Handed
<1> QED BY <1>6, <1>7, <1>8

LEMMA EndFramesSame ==
    ASSUME Building, Kept, stack' = stack
    PROVE  FramesAtEnd' /\ \A t : OnStack(t) => OnStack(t)'
<1>1. stack \in Seq(FrameType)
  BY BuildingFacts DEF TypeOK
<1>2. ASSUME NEW k \in 1 .. Len(stack') PROVE FrameAtEnd(stack[k])'
  <2>1. PICK fr2 : fr2 = stack[k]
    OBVIOUS
  <2>2. FrameOK(fr2, Caller(stack, k)) /\ FrameAtEnd(fr2) /\ fr2 \in FrameType
    BY <1>1, <2>1, BuildingFacts DEF BuildInv, FramesInv, FramesAtEnd
  <2>3. FrameAtEnd(fr2)'
    BY <2>2, EndFrameKept
  <2> QED BY <2>1, <2>3
<1>3. FramesAtEnd'
  BY <1>2, BuildingFacts DEF FramesAtEnd, Handed
<1> QED BY <1>3 DEF OnStack

--------------------------------------------------------------------------------
(* The closing lemmas: what is left to show of a step *)

\* Who is waited for is waited for by someone: nobody loses its claim.
LEMMA EndClose ==
    ASSUME Building, Kept, IInv', pc' # "exit", UNCHANGED goalVars,
           FramesAtEnd', TopAtEnd',
           pc' \in {"walk", "new_job", "linear", "goal_back"} =>
              pc \in {"walk", "new_job", "linear", "goal_back"},
           pc' = "end" => pc = "end",
           \A g \in updated : g \in updated' /\ update_status'[g] = update_status[g],
           \A g \in Files : command_state[g] \in Busy =>
              g \in updated' \/ command_state'[g] \in Busy \/ OnStack(g)',
           \A t \in Files : OnStack(t) =>
              OnStack(t)' \/ t \in updated' \/ command_state'[t] \in Busy,
           \A g \in Files : Wanted(g)' =>
              \/ Wanted(g) \/ IsGoal(g)
              \/ \E t \in Files : g \in Deps(t) /\ OnStack(t)'
    PROVE  EndInv'
<1>1. Builds' /\ UNCHANGED <<opt, goaldeps>>
  BY DEF Building, Builds, Kept
<1>2. UNCHANGED <<goals, goal, entry, any_not_updated, status>>
  BY DEF goalVars
<1>3. \A g \in Files : StatesAgree(g)'
  BY <1>1 DEF IInv, BuildInv, FilesInv
<1>4. GoalsAtEnd /\ updated \subseteq Files
  BY BuildingFacts DEF TypeOK
<1>5. status = us_failed /\ opt.keep_going => Failing'
  <2>1. ASSUME Failing PROVE Failing'
    BY <2>1 DEF Failing
  <2> QED BY <1>4, <2>1 DEF GoalsAtEnd
<1>6. ASSUME NEW t \in Files, Wanted(t) PROVE Wanted(t)' \/ Good(t)' \/ OnStack(t)'
  BY <1>6 DEF Wanted, Good
<1>7. ASSUME status # us_failed, NEW g \in Files, Wanted(g)' PROVE Claimed(g)'
  <2>1. IsGoal(g)' <=> IsGoal(g)
    BY <1>1 DEF IsGoal
  <2>2. CASE IsGoal(g)
    BY <2>1, <2>2 DEF Claimed
  <2>3. CASE ~IsGoal(g)
    <3>1. \/ \E t \in Files : g \in Deps(t) /\ OnStack(t)'
          \/ \E t \in Files : g \in Deps(t) /\ (Wanted(t) \/ OnStack(t))
      BY <1>4, <1>7, <2>3 DEF GoalsAtEnd, Claimed
    <3>2. ~Good(g)'
      BY <1>3, <1>7 DEF StatesAgree, Wanted
    <3>3. ASSUME NEW t \in Files, g \in Deps(t), Wanted(t) \/ OnStack(t)
          PROVE  Wanted(t)' \/ OnStack(t)'
      <4>1. ~Good(t)'
        BY <3>2, <3>3 DEF Kept, FilesAtEnd, FileAtEnd, Deps
      <4>2. OnStack(t) => OnStack(t)' \/ Wanted(t)'
        BY <4>1 DEF Wanted
      <4> QED BY <1>6, <3>3, <4>1, <4>2
    <3>4. \E t \in Files : g \in Deps(t) /\ (Wanted(t)' \/ OnStack(t)')
      BY <3>1, <3>3
    <3> QED BY <3>4 DEF Claimed, Deps
  <2> QED BY <2>2, <2>3
<1>8. ASSUME status # us_failed, NEW k \in DOMAIN goaldeps
      PROVE  Good(goaldeps[k])' \/ \E i \in DOMAIN goals : goals[i] = goaldeps[k]
  <2>1. PICK g : g = goaldeps[k]
    OBVIOUS
  <2>2. g \in Files
    BY <1>8, <2>1, BuildingFacts, GoalsAssumption DEF TypeOK
  <2>3. Good(g) => Good(g)'
    BY <2>2 DEF Kept
  <2>4. Good(g)' <=> Good(goaldeps[k])'
    BY <1>1, <2>1
  <2> QED BY <1>4, <1>8, <2>1, <2>3, <2>4 DEF GoalsAtEnd
<1>9. GoalsAtEnd'
  BY <1>1, <1>2, <1>4, <1>5, <1>7, <1>8 DEF GoalsAtEnd
<1> QED BY <1>9 DEF EndInv, Kept

LEMMA EndContinue ==
    ASSUME Building, Kept, IInv', UNCHANGED <<goalVars, stateVars>>, pc = "walk",
           NEW fr \in FrameType, Continue(fr), fr.file = Top.file, fr.proc # Check,
           fr.at # "dep_back", FrameAtEnd(fr)'
    PROVE  EndInv'
<1>1. pc' = "walk" /\ ret' = ret /\ stack' = <<fr>> \o Tail(stack) /\ pc \in Walks
  BY DEF Continue, Walks
<1>2. FramesAtEnd' /\ \A t : OnStack(t) => OnStack(t)'
  BY <1>1, EndFramesContinue
<1>3. Top' = fr
  <2>1. stack \in Seq(FrameType) /\ stack # <<>>
    BY <1>1, BuildingFacts, WalkFacts
  <2> QED BY <1>1, <2>1, StackContinue DEF Top
<1>4. ret.status # us_question
  BY BuildingFacts DEF TopAtEnd
<1>5. TopAtEnd'
  BY <1>1, <1>3, <1>4 DEF TopAtEnd
<1>6. \A g \in Files : Wanted(g)' => Wanted(g)
  BY DEF Wanted, Good, stateVars
<1>7. updated' = updated /\ update_status' = update_status /\ command_state' = command_state
  BY DEF stateVars
<1> QED BY <1>1, <1>2, <1>5, <1>6, <1>7, EndClose

LEMMA EndCall ==
    ASSUME Building, Kept, IInv', UNCHANGED <<goalVars, stateVars>>, pc = "walk",
           NEW fr \in FrameType, NEW e \in FrameType, Call(e, fr),
           fr.file = Top.file, fr.proc = Top.proc, fr.this_mtime = Top.this_mtime,
           fr.must_make = Top.must_make, FrameAtEnd(fr)', e.at = "enter",
           e.dep_status = us_success, Handed(e, fr)
    PROVE  EndInv'
<1>1. pc' = "walk" /\ ret' = ret /\ stack' = <<e, fr>> \o Tail(stack) /\ pc \in Walks
  BY DEF Call, Walks
<1>2. FrameAtEnd(e)'
  BY DEF FrameAtEnd, Scanning, Second, us_success, us_question
<1>3. FramesAtEnd' /\ \A t : OnStack(t) => OnStack(t)'
  BY <1>1, <1>2, EndFramesCall
<1>4. Top' = e
  <2>1. stack \in Seq(FrameType) /\ stack # <<>>
    BY <1>1, BuildingFacts, WalkFacts
  <2> QED BY <1>1, <2>1, StackCall DEF Top
<1>5. ret.status # us_question
  BY BuildingFacts DEF TopAtEnd
<1>6. TopAtEnd'
  BY <1>1, <1>4, <1>5 DEF TopAtEnd
<1>7. \A g \in Files : Wanted(g)' => Wanted(g)
  BY DEF Wanted, Good, stateVars
<1>8. updated' = updated /\ update_status' = update_status /\ command_state' = command_state
  BY DEF stateVars
<1> QED BY <1>1, <1>3, <1>6, <1>7, <1>8, EndClose

\* Who asks for the file that update_file_1 is at: make's user, or the target of a rule.
LEMMA AskedFor ==
    ASSUME Building, pc \in Walks, Top.proc = Update1
    PROVE  /\ Len(stack) # 1 /\ stack[2].file = Top.file
           /\ \/ IsGoal(Top.file)
              \/ \E t \in Files : Top.file \in Deps(t) /\ Waiting(t)
<1>1. /\ stack \in Seq(FrameType) /\ stack # <<>> /\ Len(stack) \in Nat /\ Len(stack) >= 1
      /\ Top = stack[1] /\ DOMAIN stack = 1 .. Len(stack) /\ Shape(stack)
      /\ \A k \in 1 .. Len(stack) : stack[k] \in FrameType
  BY BuildingFacts, WalkFacts
<1>2. PICK n \in Nat : n = Len(stack)
  BY <1>1
<1>3. n # 1
  BY <1>1, <1>2 DEF Shape, Update, Update1
<1>4. 2 \in 2 .. n /\ 2 - 1 = 1 /\ 2 \in 1 .. n
  BY <1>1, <1>2, <1>3
<1>5. Called(stack[1], stack[2])
  BY <1>2, <1>4, BuildingFacts, Buried
<1>6. stack[2].proc = Update /\ stack[2].at = "back" /\ stack[2].file = Top.file
  BY <1>1, <1>5 DEF Called
<1>7. CASE n = 2
  <2>1. IsGoal(Top.file)
    BY <1>1, <1>2, <1>6, <1>7 DEF Shape, IsGoal
  <2> QED BY <1>2, <1>3, <1>6, <2>1
<1>8. CASE n # 2
  <2>1. 3 \in 2 .. n /\ 3 - 1 = 2 /\ 3 \in 1 .. n
    BY <1>4, <1>8
  <2>2. Called(stack[2], stack[3]) /\ stack[3] \in FrameType
    BY <1>2, <2>1, BuildingFacts, Buried
  <2>3. FrameAtEnd(stack[3])
    BY <1>2, <2>1, BuildingFacts DEF FramesAtEnd
  <2>4. stack[3].proc = Check /\ stack[3].at = "updated" /\ stack[3].file = Top.file
    BY <1>6, <2>2, <2>3 DEF Called, FrameAtEnd, Update, Update1, Check
  <2>5. n # 3
    BY <1>1, <1>2, <2>4 DEF Shape, Update, Check
  <2>6. 4 \in 2 .. n /\ 4 - 1 = 3 /\ 4 \in 1 .. n
    BY <2>1, <2>5
  <2>7. Called(stack[3], stack[4]) /\ stack[4] \in FrameType
    BY <1>2, <2>6, BuildingFacts, Buried
  <2>8. stack[4].at = "dep_back" /\ Dep(stack[4].du).file = Top.file
    BY <2>4, <2>7 DEF Called, Update, Update1, Check
  <2>9. FrameShape(stack[4])
    BY <1>1, <1>2, <2>6 DEF Shape
  <2>10. stack[4].du # NoDep /\ stack[4].du[1] = stack[4].file
    BY <2>8, <2>9 DEF FrameShape
  <2>11. stack[4].du \in Nodes /\ stack[4].file \in Files
    BY <2>7, <2>10 DEF FrameType
  <2>12. stack[4].du[2] \in DOMAIN Prereqs[stack[4].file]
    BY <2>10, <2>11, PrereqTypes
  <2>13. Top.file \in Deps(stack[4].file)
    BY <2>8, <2>10, <2>12 DEF Deps, Dep
  <2>14. Waiting(stack[4].file)
    BY <1>2, <2>6 DEF Waiting
  <2> QED BY <1>2, <1>3, <1>6, <2>11, <2>13, <2>14
<1> QED BY <1>7, <1>8

LEMMA SecondCall ==
    ASSUME Building, pc \in Walks, Len(stack) # 1
    PROVE  2 \in 2 .. Len(stack)
BY BuildingFacts, WalkFacts

\* A call returns; check_dep says more than its status.
LEMMA EndReturn ==
    ASSUME Building, Kept, IInv', UNCHANGED goalVars, pc = "walk",
           NEW result, NEW must_make, Return(result, must_make), result # us_question,
           NEW p, Len(stack) # 1 => p = stack[2], NEW d, d = Dep(p.du).file,
           Len(stack) # 1 /\ p.at = "dep_back" /\ Good(d)' =>
              (must_make <=> p.must_make \/ Renewed(disk'[d], p.this_mtime)),
           \A g \in updated : g \in updated' /\ update_status'[g] = update_status[g],
           \A g \in Files : command_state[g] \in Busy => g \in updated' \/ command_state'[g] \in Busy,
           \/ Top.file \in updated' \/ command_state'[Top.file] \in Busy
           \/ Len(stack) # 1 /\ stack[2].file = Top.file,
           \A g \in Files : Wanted(g)' => Wanted(g) \/ (g = Top.file /\ Top.proc = Update1)
    PROVE  EndInv'
<1>1. /\ stack' = Tail(stack) /\ pc' = IF Len(stack) = 1 THEN "goal_back" ELSE "walk"
      /\ ret'.status = result /\ ret'.must_make = must_make /\ pc \in Walks
  BY DEF Return, Walks
<1>2. /\ stack \in Seq(FrameType) /\ stack # <<>> /\ Len(stack) \in Nat /\ Len(stack) >= 1
  BY <1>1, BuildingFacts, WalkFacts
<1>3. /\ FramesAtEnd'
      /\ \A t : OnStack(t) => OnStack(t)' \/ t = Top.file
      /\ \A t : Waiting(t) => OnStack(t)'
  BY <1>1, EndFramesReturn
<1>4. TopAtEnd'
  <2>1. CASE Len(stack) = 1
    BY <1>1, <2>1 DEF TopAtEnd
  <2>2. CASE Len(stack) # 1
    <3>1. Top' = stack[2]
      BY <1>1, <1>2, <2>2, StackReturn DEF Top
    <3>2. Top' = p /\ Dep(Top.du)' = Dep(p.du)
      BY <2>2, <3>1 DEF Dep
    <3>3. ASSUME p.at = "dep_back", Good(d)'
          PROVE  ret'.must_make <=> p.must_make \/ Renewed(disk'[d], p.this_mtime)
      BY <1>1, <2>2, <3>3
    <3>4. Good(Dep(Top.du).file)' <=> Good(d)'
      BY <3>2
    <3> QED BY <1>1, <2>2, <3>2, <3>3, <3>4 DEF TopAtEnd, Dep
  <2> QED BY <2>1, <2>2
<1>5. \A t \in Files : OnStack(t) => OnStack(t)' \/ t \in updated' \/ command_state'[t] \in Busy
  <2>1. Len(stack) # 1 /\ stack[2].file = Top.file => Waiting(Top.file)
    BY <1>1, SecondCall DEF Waiting
  <2> QED BY <1>3, <2>1
<1>6. ASSUME NEW g \in Files, Wanted(g)'
      PROVE  Wanted(g) \/ IsGoal(g) \/ \E t \in Files : g \in Deps(t) /\ OnStack(t)'
  <2>1. CASE Wanted(g)
    BY <2>1
  <2>2. CASE g = Top.file /\ Top.proc = Update1
    <3>1. IsGoal(g) \/ \E t \in Files : g \in Deps(t) /\ Waiting(t)
      BY <1>1, <2>2, AskedFor
    <3> QED BY <1>3, <3>1
  <2> QED BY <1>6, <2>1, <2>2
<1>7. pc' \in {"walk", "goal_back"}
  BY <1>1
<1> QED BY <1>3, <1>4, <1>5, <1>6, <1>7, EndClose

\* update_file or update_file_1 returns.
LEMMA EndUpdated ==
    ASSUME Building, Kept, IInv', UNCHANGED goalVars, pc = "walk", Top.proc # Check,
           NEW result, Return(result, FALSE), result # us_question,
           \A g \in updated : g \in updated' /\ update_status'[g] = update_status[g],
           \A g \in Files : command_state[g] \in Busy => g \in updated' \/ command_state'[g] \in Busy,
           \/ Top.file \in updated' \/ command_state'[Top.file] \in Busy
           \/ Len(stack) # 1 /\ stack[2].file = Top.file,
           \A g \in Files : Wanted(g)' => Wanted(g) \/ (g = Top.file /\ Top.proc = Update1)
    PROVE  EndInv'
<1>1. PICK p : p = stack[2]
  OBVIOUS
<1>2. PICK d : d = Dep(p.du).file
  OBVIOUS
<1>3. ASSUME Len(stack) # 1 PROVE p.at # "dep_back"
  <2>1. pc \in Walks
    BY DEF Walks
  <2>2. Called(Top, stack[2]) /\ Top.proc \in {Update, Update1, Check}
    BY <1>3, <2>1, BuildingFacts, CalledFrom
  <2>3. FrameAtEnd(stack[2])
    <3>1. 2 \in 1 .. Len(stack)
      BY <1>3, <2>1, BuildingFacts, CalledFrom
    <3> QED BY <3>1, BuildingFacts DEF FramesAtEnd
  <2> QED BY <1>1, <2>2, <2>3 DEF Called, FrameAtEnd, Update, Update1, Check
<1> QED BY <1>1, <1>2, <1>3, EndReturn

LEMMA EndPassedBy ==
    ASSUME Building, IInv', UNCHANGED <<worldVars, goalVars, stateVars, timeVars>>,
           pc = "walk", Top.proc # Check,
           NEW result, Return(result, FALSE), result # us_question,
           \/ Top.file \in updated \/ command_state[Top.file] \in Busy
           \/ Len(stack) # 1 /\ stack[2].file = Top.file
    PROVE  EndInv'
<1>1. UNCHANGED <<updated, update_status, command_state, last_mtime>>
  BY DEF stateVars, timeVars
<1>2. Kept
  BY <1>1, QuietKept
<1>3. \A g \in Files : Wanted(g)' => Wanted(g)
  BY <1>1 DEF Wanted, Good
<1> QED BY <1>1, <1>2, <1>3, EndUpdated

LEMMA StatusKnown ==
    ASSUME Building
    PROVE  \A f \in Files : update_status[f] # us_question
BY BuildingFacts DEF FilesAtEnd, FileAtEnd

--------------------------------------------------------------------------------
(* update_file *)

LEMMA PrunedEnd ==
    ASSUME Building, IInv', Pruned
    PROVE  EndInv'
<1>0. /\ pc = "walk" /\ pc \in Walks /\ Top.proc = Update /\ Top.at = "enter"
      /\ Name(Top.file) \in considered
  BY DEF Pruned, At, Walks, Update
<1>1. Top.file \in Files
  BY <1>0, BuildingFacts, Known
<1>2. Name(Top.file) = Top.file
  BY <1>1, BuildingFacts, PlainFiles
<1>3. PICK d, result :
         /\ d = Top.file
         /\ result = IF command_state[d] = "finished" THEN update_status[d] ELSE us_success
         /\ Return(result, FALSE)
  BY <1>2 DEF Pruned
<1>4. result # us_question
  BY <1>1, <1>3, StatusKnown DEF us_success, us_question
<1>5. \/ d \in updated \/ command_state[d] \in Busy
      \/ Len(stack) # 1 /\ stack[2].file = d
  <2>1. CASE Len(stack) = 1
    <3>1. DOMAIN stack = 1 .. 1 /\ Top = stack[1]
      BY <1>0, <2>1, BuildingFacts, WalkFacts
    <3>2. ~\E k \in DOMAIN stack : stack[k].at = "back"
      BY <1>0, <3>1
    <3> QED BY <1>0, <1>2, <1>3, <3>2, BuildingFacts DEF BuildInv, ConsideredInv, Over
  <2>2. CASE Len(stack) # 1
    BY <1>0, <1>2, <1>3, <2>2, BuildingFacts, NotAgain
  <2> QED BY <2>1, <2>2
<1>6. UNCHANGED <<worldVars, goalVars, stateVars, timeVars>>
  BY DEF Pruned, fileVars
<1> QED BY <1>0, <1>3, <1>4, <1>5, <1>6, EndPassedBy DEF Update, Check

LEMMA UpdateFileEnd ==
    ASSUME Building, IInv', UpdateFile
    PROVE  EndInv'
<1>0. pc = "walk" /\ pc \in Walks /\ Top.proc = Update /\ Top.at = "enter"
  BY DEF UpdateFile, At, Walks, Update
<1>1. Top.file \in Files /\ Top \in FrameType
  BY <1>0, BuildingFacts, Known
<1>2. Name(Top.file) = Top.file
  BY <1>1, BuildingFacts, PlainFiles
<1>3. PICK e, fr :
         /\ e = Frame("update_file_1", Top.file, UNKNOWN_MTIME, FALSE)
         /\ fr = [Top EXCEPT !.file = Top.file, !.at = "back"]
         /\ Call(e, fr)
  BY <1>2 DEF UpdateFile, UpdateEntry
<1>4. UNCHANGED <<worldVars, stateVars, timeVars, goalVars>>
  BY DEF UpdateFile
<1>5. /\ e \in FrameType /\ e.at = "enter" /\ e.dep_status = us_success /\ e.proc = Update1
  BY <1>1, <1>3, FrameTyped, Numbers DEF Frame, Update1
<1>6. /\ fr \in FrameType /\ fr.at = "back" /\ fr.proc = Top.proc /\ fr.file = Top.file
      /\ fr.dep_status = Top.dep_status /\ fr.this_mtime = Top.this_mtime
      /\ fr.must_make = Top.must_make
  BY <1>0, <1>1, <1>3 DEF FrameType, Places
<1>7. FrameAtEnd(Top)
  <2>1. 1 \in 1 .. Len(stack) /\ Top = stack[1]
    BY <1>0, BuildingFacts, WalkFacts
  <2> QED BY <2>1, BuildingFacts DEF FramesAtEnd
<1>8. FrameAtEnd(fr)'
  BY <1>0, <1>6, <1>7 DEF FrameAtEnd, Scanning, Second
<1>9. Handed(e, fr)
  BY <1>5 DEF Handed, Update1, Check
<1>10. Kept
  BY <1>4, QuietKept DEF stateVars, timeVars
<1> QED BY <1>0, <1>3, <1>4, <1>5, <1>6, <1>8, <1>9, <1>10, EndCall

LEMMA EntryUpdatedEnd ==
    ASSUME Building, IInv', EntryUpdated
    PROVE  EndInv'
<1>1. /\ pc = "walk" /\ Top.proc = Update /\ Top.at = "back" /\ Top.file \in Files
      /\ Return(IF command_state[Top.file] \in Busy /\ (ret.status = us_success \/ opt.keep_going)
                  THEN us_success ELSE ret.status, FALSE)
      /\ UNCHANGED <<worldVars, fileVars, depVars, goalVars>>
  BY BuildingFacts, EntryUpdatedPlain
<1>2. PICK result :
         /\ Return(result, FALSE)
         /\ result \in {us_success, ret.status}
  BY <1>1
<1>3. result # us_question
  BY <1>2, BuildingFacts DEF TopAtEnd, us_success, us_question
<1>4. Top.file \in updated \/ command_state[Top.file] \in Busy
  BY <1>1, BuildingFacts DEF BuildInv, TopInv, Answered
<1>5. UNCHANGED <<worldVars, goalVars, stateVars, timeVars>>
  BY <1>1 DEF fileVars
<1> QED BY <1>1, <1>2, <1>3, <1>4, <1>5, EndPassedBy DEF Update, Check

--------------------------------------------------------------------------------
(* update_file_1 *)

LEMMA AlreadyDecidedEnd ==
    ASSUME Building, IInv', AlreadyDecided
    PROVE  EndInv'
<1>1. /\ pc = "walk" /\ pc \in Walks /\ Top.proc = Update1 /\ Top.at = "enter"
      /\ UNCHANGED <<worldVars, fileVars, depVars, goalVars>>
  BY DEF AlreadyDecided, At, Walks, Update1
<1>2. Top.file \in Files
  BY <1>1, BuildingFacts, Known
<1>3. PICK f, result :
         /\ f = Top.file
         /\ result = IF f \in updated
                        THEN IF update_status[f] > us_none THEN update_status[f] ELSE us_success
                        ELSE IF command_state[f] = "running" THEN us_success ELSE update_status[f]
         /\ Return(result, FALSE)
  BY DEF AlreadyDecided
<1>4. result # us_question
  BY <1>2, <1>3, StatusKnown DEF us_success, us_question
<1>5. Len(stack) # 1 /\ stack[2].file = Top.file
  BY <1>1, AskedFor
<1>6. UNCHANGED <<worldVars, goalVars, stateVars, timeVars>>
  BY <1>1 DEF fileVars
<1> QED BY <1>1, <1>3, <1>4, <1>5, <1>6, EndPassedBy DEF Update1, Check

LEMMA TopKnown ==
    ASSUME Building, pc \in Walks
    PROVE  /\ FrameAtEnd(Top) /\ FrameOK(Top, Caller(stack, 1)) /\ Top \in FrameType
           /\ Top.file \in Files
<1>1. 1 \in 1 .. Len(stack) /\ Top = stack[1]
  BY BuildingFacts, WalkFacts
<1>2. FrameAtEnd(Top)
  BY <1>1, BuildingFacts DEF FramesAtEnd
<1> QED BY <1>2, BuildingFacts, Known

\* make knows the time of a file whose recipe has not just ended.
LEMMA KnownTime ==
    ASSUME Building, NEW f \in Files, job[f] # "ok"
    PROVE  Mtime(f) = disk[f]
<1>1. last_mtime[f] \in {UNKNOWN_MTIME, disk[f]}
  BY BuildingFacts DEF FilesAtEnd, FileAtEnd
<1> QED BY <1>1, BuildingFacts, MtimeType

LEMMA GoodTime ==
    ASSUME Building, NEW f \in Files, Good(f)
    PROVE  Mtime(f) = disk[f]
BY BuildingFacts, GoodIsQuiet, KnownTime

LEMMA FrameSame ==
    ASSUME NEW fr, UNCHANGED disk, FrameAtEnd(fr)
    PROVE  FrameAtEnd(fr)'
<1>1. PICK n, f : n = Extent(fr) /\ f = fr.file
  OBVIOUS
<1>2. RenewedBefore(f, n)' <=> RenewedBefore(f, n)
  BY DEF RenewedBefore
<1>3. Extent(fr)' = n
  BY <1>1 DEF Extent, Second, Position
<1>4. RenewedBefore(fr.file, Extent(fr))' <=> RenewedBefore(fr.file, Extent(fr))
  BY <1>1, <1>2, <1>3
<1> QED BY <1>4 DEF FrameAtEnd

LEMMA ConsiderFileEnd ==
    ASSUME Building, IInv', ConsiderFile
    PROVE  EndInv'
<1>0. PICK f, m, fr :
         /\ f = Top.file /\ m = Mtime(f)
         /\ fr = [Top EXCEPT !.at = "deps", !.noexist = (m = NONEXISTENT_MTIME),
                             !.must_make = (m = NONEXISTENT_MTIME),
                             !.this_mtime = m, !.du = first[f]]
         /\ pc = "walk" /\ Top.proc = Update1 /\ Top.at = "enter" /\ f \in Files
         /\ ~Decided(f) /\ Look({f})
         /\ Continue(fr) /\ fr \in FrameType
         /\ UNCHANGED <<worldVars, stateVars, goalVars>>
  BY BuildingFacts, ConsiderPlain
<1>1. Top \in FrameType /\ pc \in Walks /\ Top.dep_status # us_question
  BY <1>0, TopKnown DEF Walks, FrameAtEnd
<1>2. UNCHANGED <<disk, update_status, updated>>
  BY <1>0 DEF worldVars, stateVars
<1>3. Kept
  <2>1. {f} \subseteq Files
    BY <1>0
  <2>2. \A g \in Files : last_mtime'[g] \in {last_mtime[g], disk[g]}
    BY <1>0, <2>1, LookedAt
  <2> QED BY <1>0, <1>2, <2>2, QuietKept
<1>4. /\ fr.proc = Update1 /\ fr.at = "deps" /\ fr.file = f /\ fr.du = first[f]
      /\ fr.must_make = (m = NONEXISTENT_MTIME) /\ fr.this_mtime = m
      /\ fr.dep_status = Top.dep_status
  BY <1>0, <1>1 DEF FrameType
<1>5. m = disk[f]
  <2>1. job[f] # "ok"
    BY <1>0, BuildingFacts DEF StatesAgree, Decided, Active
  <2> QED BY <1>0, <2>1, KnownTime
<1>6. ~Second(fr) /\ Extent(fr) = Position(fr)
  BY <1>4 DEF Second, Extent
<1>7. \A i \in DOMAIN Prereqs[f] : ~(i < Position(fr))
  <2>1. DOMAIN Prereqs[f] = 1 .. Len(Prereqs[f]) /\ Len(Prereqs[f]) \in Nat
    BY <1>0, PrereqTypes
  <2>2. ListsKept
    BY BuildingFacts DEF WalkInv
  <2>3. /\ fr.du # NoDep => fr.du[2] = 1
        /\ fr.du = NoDep => Len(Prereqs[f]) = 0
    BY <1>0, <1>4, <2>2, BuildingFacts, FirstNode
  <2> QED BY <1>4, <2>1, <2>3 DEF Position
<1>8. ~RenewedBefore(fr.file, Extent(fr))
  BY <1>4, <1>6, <1>7 DEF RenewedBefore
<1>9. FrameAtEnd(fr)
  BY <1>1, <1>4, <1>5, <1>8 DEF FrameAtEnd
<1>10. FrameAtEnd(fr)'
  BY <1>2, <1>9, FrameSame
<1>11. fr.proc # Check
  BY <1>4 DEF Update1, Check
<1> QED BY <1>0, <1>3, <1>4, <1>10, <1>11, EndContinue

LEMMA ListDoneEnd ==
    ASSUME Building, IInv', ListDone
    PROVE  EndInv'
<1>0. PICK f, fr :
         /\ f = Top.file
         /\ fr = [Top EXCEPT !.at = "inter",
                             !.du = IF Top.must_make \/ opt.always_make THEN first[f] ELSE NoDep]
         /\ pc = "walk" /\ Top.proc = Update1 /\ Top.at = "deps" /\ f \in Files
         /\ Top.du = NoDep \/ Waits(Top)
         /\ Continue(fr) /\ fr \in FrameType
         /\ UNCHANGED <<worldVars, fileVars, goalVars>>
  BY BuildingFacts, ListDonePlain
<1>1. Top \in FrameType /\ pc \in Walks /\ FrameAtEnd(Top)
  BY <1>0, TopKnown DEF Walks
<1>2. UNCHANGED <<disk, update_status, updated, last_mtime, stateVars>>
  BY <1>0 DEF worldVars, stateVars, fileVars, timeVars
<1>3. Kept
  BY <1>0, <1>2, QuietKept
<1>4. /\ fr.proc = Update1 /\ fr.at = "inter" /\ fr.file = f
      /\ fr.must_make = Top.must_make /\ fr.this_mtime = Top.this_mtime
      /\ fr.dep_status = Top.dep_status /\ fr.running = Top.running
  BY <1>0, <1>1 DEF FrameType
<1>5. Scanning(Top) /\ ~Second(Top) /\ Second(fr)
  BY <1>0, <1>4 DEF Scanning, Second
<1>6. ASSUME Unhindered(Top) PROVE Extent(Top) = Extent(fr)
  BY <1>0, <1>4, <1>5, <1>6 DEF Unhindered, Waits, Extent, Position
<1>7. FrameAtEnd(fr)
  BY <1>0, <1>1, <1>4, <1>5, <1>6 DEF FrameAtEnd, Unhindered
<1>8. FrameAtEnd(fr)'
  BY <1>2, <1>7, FrameSame
<1>9. fr.proc # Check
  BY <1>4 DEF Update1, Check
<1> QED BY <1>0, <1>2, <1>3, <1>4, <1>8, <1>9, EndContinue

LEMMA CheckPrereqEnd ==
    ASSUME Building, IInv', CheckPrereq
    PROVE  EndInv'
<1>0. PICK d, c, fr :
         /\ d = Dep(Top.du).file
         /\ c = Frame("check_dep", d, Top.this_mtime, Top.must_make)
         /\ fr = [Top EXCEPT !.at = "dep_back", !.mtime = Mtime(d)]
         /\ pc = "walk" /\ Top.proc = Update1 /\ Top.at = "deps" /\ d \in Files
         /\ Look({d}) /\ Call(c, fr)
         /\ fr \in FrameType /\ c \in FrameType
         /\ UNCHANGED <<worldVars, stateVars, goalVars>>
  BY BuildingFacts, CheckPrereqPlain
<1>1. Top \in FrameType /\ pc \in Walks /\ FrameAtEnd(Top)
  BY <1>0, TopKnown DEF Walks
<1>2. UNCHANGED <<disk, update_status, updated>>
  BY <1>0 DEF worldVars, stateVars
<1>3. Kept
  <2>1. {d} \subseteq Files
    BY <1>0
  <2>2. \A g \in Files : last_mtime'[g] \in {last_mtime[g], disk[g]}
    BY <1>0, <2>1, LookedAt
  <2> QED BY <1>0, <1>2, <2>2, QuietKept
<1>4. /\ fr.proc = Top.proc /\ fr.at = "dep_back" /\ fr.file = Top.file /\ fr.du = Top.du
      /\ fr.must_make = Top.must_make /\ fr.this_mtime = Top.this_mtime
      /\ fr.dep_status = Top.dep_status /\ fr.running = Top.running
  BY <1>0, <1>1 DEF FrameType
<1>5. Scanning(Top) /\ ~Second(Top) /\ ~Second(fr) /\ Extent(fr) = Extent(Top)
  BY <1>0, <1>4 DEF Scanning, Second, Extent, Position
<1>6. FrameAtEnd(fr)
  BY <1>1, <1>4, <1>5 DEF FrameAtEnd, Unhindered
<1>7. FrameAtEnd(fr)'
  BY <1>2, <1>6, FrameSame
<1>8. /\ c.at = "enter" /\ c.dep_status = us_success
      /\ c.this_mtime = Top.this_mtime /\ c.must_make = Top.must_make
  BY <1>0 DEF Frame
<1>9. Handed(c, fr)
  BY <1>4, <1>8 DEF Handed
<1> QED BY <1>0, <1>3, <1>4, <1>7, <1>8, <1>9, EndCall

LEMMA PrereqCheckedEnd ==
    ASSUME Building, IInv', PrereqChecked
    PROVE  EndInv'
<1>0. PICK fr \in FrameType : \E f, n, d, worst :
         /\ f = Top.file /\ n = Top.du /\ d = Dep(n).file
         /\ worst = Worse(Top.dep_status, ret.status)
         /\ pc = "walk" /\ Top.proc = Update1 /\ Top.at = "dep_back" /\ n # NoDep
         /\ d \in Files
         /\ Continue(fr)
         /\ fr.proc = Update1 /\ fr.at = "deps" /\ fr.file = f
         /\ fr.du = IF worst # us_success /\ ~opt.keep_going THEN NoDep ELSE next[n]
         /\ fr.dep_status = worst /\ fr.this_mtime = Top.this_mtime
         /\ fr.running <=> Top.running \/ command_state[d] \in Busy
         /\ fr.must_make = IF Dep(n).ignore_mtime THEN Top.must_make ELSE ret.must_make
         /\ Look({d}) \/ UNCHANGED timeVars
         /\ UNCHANGED <<worldVars, stateVars, goalVars>>
  BY BuildingFacts, PrereqCheckedPlain
<1>00. PICK f, n, d, worst :
         /\ f = Top.file /\ n = Top.du /\ d = Dep(n).file
         /\ worst = Worse(Top.dep_status, ret.status)
         /\ pc = "walk" /\ Top.proc = Update1 /\ Top.at = "dep_back" /\ n # NoDep
         /\ d \in Files
         /\ Continue(fr)
         /\ fr.proc = Update1 /\ fr.at = "deps" /\ fr.file = f
         /\ fr.du = IF worst # us_success /\ ~opt.keep_going THEN NoDep ELSE next[n]
         /\ fr.dep_status = worst /\ fr.this_mtime = Top.this_mtime
         /\ fr.running <=> Top.running \/ command_state[d] \in Busy
         /\ fr.must_make = IF Dep(n).ignore_mtime THEN Top.must_make ELSE ret.must_make
         /\ Look({d}) \/ UNCHANGED timeVars
         /\ UNCHANGED <<worldVars, stateVars, goalVars>>
  BY <1>0
<1>1. Top \in FrameType /\ pc \in Walks /\ FrameAtEnd(Top) /\ f \in Files
  BY <1>00, TopKnown DEF Walks
<1>2. UNCHANGED <<disk, update_status, updated>>
  BY <1>00 DEF worldVars, stateVars
<1>3. Kept
  <2>1. {d} \subseteq Files
    BY <1>00
  <2>2. \A g \in Files : last_mtime'[g] \in {last_mtime[g], disk[g]}
    BY <1>00, <2>1, LookedAt
  <2> QED BY <1>00, <1>2, <2>2, QuietKept
<1>4. Scanning(Top) /\ ~Second(Top) /\ Scanning(fr) /\ ~Second(fr)
  BY <1>00 DEF Scanning, Second
<1>5. /\ Top.dep_status \in Statuses /\ ret.status \in Statuses
      /\ ret.status # us_question /\ Top.dep_status # us_question
  BY <1>1, BuildingFacts DEF TypeOK, FrameType, TopAtEnd, FrameAtEnd
<1>6. worst # us_question
  BY <1>00, <1>5 DEF Worse
<1>7. worst = us_success <=> Top.dep_status = us_success /\ ret.status = us_success
  BY <1>00, <1>5, WorstOf
<1>8. ASSUME Unhindered(fr)
      PROVE  fr.must_make <=>
                disk[f] = NONEXISTENT_MTIME \/ RenewedBefore(f, Extent(fr))
  <2>1. /\ Unhindered(Top) /\ command_state[d] \notin Busy /\ ret.status = us_success
        /\ fr.du = next[n]
    BY <1>00, <1>7, <1>8 DEF Unhindered
  <2>2. Good(d)
    BY <1>00, <2>1, BuildingFacts DEF BuildInv, TopInv, Learned
  <2>3. Top.this_mtime = disk[f]
    BY <1>00, <1>1, <1>4 DEF FrameAtEnd
  <2>4. ret.must_make <=> Top.must_make \/ Renewed(disk[d], disk[f])
    BY <1>00, <2>2, <2>3, BuildingFacts DEF TopAtEnd
  <2>5. Top.must_make <=> disk[f] = NONEXISTENT_MTIME \/ RenewedBefore(f, Position(Top))
    BY <1>00, <1>1, <1>4, <2>1 DEF FrameAtEnd, Extent
  <2>6. /\ n[2] \in DOMAIN Prereqs[f] /\ Dep(n) = Prereqs[f][n[2]]
        /\ Position(Top) = n[2] /\ Position(fr) = n[2] + 1
        /\ \A i \in DOMAIN Prereqs[f] : i < n[2] + 1 <=> i < n[2] \/ i = n[2]
    BY <1>00, <1>1, <2>1, BuildingFacts, AtNode
  <2>7. RenewedBefore(f, Position(fr)) <=>
            \/ RenewedBefore(f, Position(Top))
            \/ ~Dep(n).ignore_mtime /\ Renewed(disk[d], disk[f])
    BY <1>00, <2>6 DEF RenewedBefore
  <2>8. Extent(fr) = Position(fr)
    BY <1>4 DEF Extent
  <2> QED BY <1>00, <2>4, <2>5, <2>7, <2>8
<1>9. FrameAtEnd(fr)
  <2>1. fr.this_mtime = disk[f]
    BY <1>00, <1>1, <1>4 DEF FrameAtEnd
  <2> QED BY <1>00, <1>6, <1>8, <2>1 DEF FrameAtEnd
<1>10. FrameAtEnd(fr)'
  BY <1>2, <1>9, FrameSame
<1>11. fr.proc # Check /\ fr.at # "dep_back" /\ fr.file = Top.file
  BY <1>00 DEF Update1, Check
<1> QED BY <1>00, <1>3, <1>10, <1>11, EndContinue

LEMMA SkipOrdinaryEnd ==
    ASSUME Building, IInv', SkipOrdinary
    PROVE  EndInv'
<1>0. PICK fr \in FrameType :
         /\ pc = "walk" /\ Top.proc = Update1 /\ Top.at = "inter"
         /\ Continue(fr)
         /\ fr = [Top EXCEPT !.du = IF Waits(Top) THEN NoDep ELSE next[Top.du]]
         /\ UNCHANGED <<worldVars, fileVars, goalVars>>
  BY BuildingFacts, SkipOrdinaryPlain
<1>1. Top \in FrameType /\ pc \in Walks /\ FrameAtEnd(Top)
  BY <1>0, TopKnown DEF Walks
<1>2. UNCHANGED <<disk, update_status, updated, last_mtime, stateVars>>
  BY <1>0 DEF worldVars, stateVars, fileVars, timeVars
<1>3. Kept
  BY <1>0, <1>2, QuietKept
<1>4. /\ fr.proc = Update1 /\ fr.at = "inter" /\ fr.file = Top.file
      /\ fr.must_make = Top.must_make /\ fr.this_mtime = Top.this_mtime
      /\ fr.dep_status = Top.dep_status /\ fr.running = Top.running
  BY <1>0, <1>1 DEF FrameType
<1>5. Second(Top) /\ Second(fr) /\ Extent(fr) = Extent(Top)
  BY <1>0, <1>4 DEF Second, Extent
<1>6. FrameAtEnd(fr)
  BY <1>1, <1>4, <1>5 DEF FrameAtEnd, Unhindered
<1>7. FrameAtEnd(fr)'
  BY <1>2, <1>6, FrameSame
<1>8. fr.proc # Check
  BY <1>4 DEF Update1, Check
<1> QED BY <1>0, <1>2, <1>3, <1>4, <1>7, <1>8, EndContinue

LEMMA PrereqsRunningEnd ==
    ASSUME Building, IInv', PrereqsRunning
    PROVE  EndInv'
<1>0. /\ pc = "walk" /\ Top.proc = Update1 /\ Top.at = "inter"
      /\ command_state' = [command_state EXCEPT ![Top.file] = "deps_running"]
      /\ Return(us_success, FALSE)
      /\ UNCHANGED <<worldVars, update_status, updated, timeVars, goalVars>>
  BY BuildingFacts, PrereqsRunningPlain
<1>1. pc \in Walks /\ Top.file \in Files /\ command_state \in [Files -> CommandStates]
  BY <1>0, TopKnown, BuildingFacts DEF Walks, TypeOK
<1>2. Kept
  BY <1>0, QuietKept DEF timeVars
<1>3. /\ command_state'[Top.file] \in Busy
      /\ \A g \in Files : g # Top.file => command_state'[g] = command_state[g]
  BY <1>0, <1>1 DEF Busy
<1>4. \A g \in Files : Wanted(g)' => Wanted(g) \/ (g = Top.file /\ Top.proc = Update1)
  BY <1>0, <1>3 DEF Wanted, Good
<1>5. \A g \in Files : command_state[g] \in Busy => g \in updated' \/ command_state'[g] \in Busy
  BY <1>3
<1>6. \A g \in updated : g \in updated' /\ update_status'[g] = update_status[g]
  BY <1>0
<1>7. PICK result : result = us_success /\ Return(result, FALSE)
  BY <1>0
<1>8. result # us_question /\ Top.proc # Check
  BY <1>0, <1>7 DEF us_success, us_question, Update1, Check
<1> QED BY <1>0, <1>2, <1>3, <1>4, <1>5, <1>6, <1>7, <1>8, EndUpdated

\* the walk has decided on the file that it is at
LEMMA EndDecided ==
    ASSUME Building, IInv', pc = "walk", Top.proc = Update1, Top.at = "inter",
           NEW f, f = Top.file, NEW F, F \subseteq Files, NEW times, times = Seen(F),
           NEW result \in {us_success, us_failed}, NEW ran,
           NoticeFinished(f, result, ran, times), UNCHANGED <<worldVars, goalVars>>,
           NEW back, Return(back, FALSE), back # us_question,
           result = us_success => Current(f) /\ \A d \in Deps(f) : Good(d)
    PROVE  EndInv'
<1>1. f \in Files /\ Fresh(f) /\ StatesAgree(f) /\ Top.proc # Check
  BY BuildingFacts, SecondFacts DEF Update1, Check
<1>2. UNCHANGED <<disk, now, job, opt, goaldeps>>
  BY DEF worldVars
<1>3. FilesAtEnd' /\ \A g \in Files : Good(g) => Good(g)'
  BY <1>1, <1>2, BuildingFacts, FilesDecided
<1>4. Kept
  BY <1>2, <1>3 DEF Kept
<1>5. /\ command_state' = [command_state EXCEPT ![f] = "finished"]
      /\ updated' = updated \cup {f}
      /\ update_status' = [update_status EXCEPT ![f] = result]
  <2>1. times \in [Files -> Times]
    BY BuildingFacts, LookPlain
  <2> QED BY <1>1, <2>1, BuildingFacts, NoticePlain
<1>6. command_state \in [Files -> CommandStates] /\ update_status \in [Files -> Statuses]
      /\ updated \subseteq Files
  BY BuildingFacts DEF TypeOK
<1>7. \A g \in updated : g \in updated' /\ update_status'[g] = update_status[g]
  BY <1>1, <1>5, <1>6 DEF Fresh
<1>8. \A g \in Files : command_state[g] \in Busy => g \in updated' \/ command_state'[g] \in Busy
  BY <1>5, <1>6
<1>9. \A g \in Files : Wanted(g)' => Wanted(g) \/ (g = f /\ Top.proc = Update1)
  BY <1>5, <1>6 DEF Wanted, Good
<1>10. Top.file \in updated'
  BY <1>5
<1> QED BY <1>1, <1>4, <1>7, <1>8, <1>9, <1>10, EndUpdated

LEMMA PrereqFailedEnd ==
    ASSUME Building, IInv', PrereqFailed
    PROVE  EndInv'
<1>0. PICK result, f, back :
         /\ f = Top.file /\ back = Top.dep_status
         /\ pc = "walk" /\ Top.proc = Update1 /\ Top.at = "inter"
         /\ back # us_success /\ back \in Statuses
         /\ result = IF back = us_none THEN us_failed ELSE back
         /\ NoticeFinished(f, result, FALSE, last_mtime)
         /\ Return(back, FALSE)
         /\ UNCHANGED <<worldVars, goalVars>>
  BY BuildingFacts, PrereqFailedPlain
<1>1. back # us_question
  BY <1>0, TopKnown DEF Walks, FrameAtEnd
<1>2. result = us_failed
  BY <1>0, <1>1, Numbers
<1>3. result # us_success
  BY <1>2 DEF us_success, us_failed
<1>4. PICK F : F = {} /\ F \subseteq Files /\ Seen(F) = last_mtime
  BY BuildingFacts, NothingSeen
<1>5. PICK times, ran : times = Seen(F) /\ ran = FALSE /\ NoticeFinished(f, result, ran, times)
  BY <1>0, <1>4
<1>6. /\ pc = "walk" /\ Top.proc = Update1 /\ Top.at = "inter" /\ f = Top.file
      /\ F \subseteq Files /\ times = Seen(F) /\ result \in {us_success, us_failed}
      /\ NoticeFinished(f, result, ran, times) /\ UNCHANGED <<worldVars, goalVars>>
      /\ Return(back, FALSE) /\ back # us_question
      /\ result = us_success => Current(f) /\ \A d \in Deps(f) : Good(d)
  BY <1>0, <1>1, <1>2, <1>3, <1>4, <1>5
<1> QED BY <1>6, EndDecided

\* What the walk decides is right by the disk: all prerequisites are made, a file that does
\* not have to be remade is current, and the recipe of one that has to be is needed.
LEMMA DecideEnd ==
    ASSUME Building, DecideFile, NEW f, f = Top.file
    PROVE  /\ pc = "walk" /\ Top.proc = Update1 /\ Top.at = "inter" /\ f \in Files
           /\ Deps(f) \subseteq Files /\ TimesSeen = Seen(Deps(f))
           /\ \A d \in Deps(f) : Good(d)
           /\ Cmds[f] # "lines" \/ ~MustMake(f) => Current(f)
           /\ Cmds[f] = "lines" /\ MustMake(f) => Stale(f)
<1>1. /\ pc = "walk" /\ Top.proc = Update1 /\ Top.at = "inter" /\ Top.du = NoDep
      /\ f \in Files /\ ~Top.running /\ Top.dep_status = us_success
      /\ Deps(f) \subseteq Files /\ TimesSeen = Seen(Deps(f))
      /\ Prerequisites(f) = {<<f, i>> : i \in DOMAIN Prereqs[f]}
  BY BuildingFacts, DecidePlain
<1>2. SecondOK(Top) /\ ScanOK(Top) /\ Second(Top) /\ Unhindered(Top) /\ pc \in Walks
      /\ Top \in FrameType /\ FrameAtEnd(Top)
  <2>1. pc \in Walks
    BY <1>1 DEF Walks
  <2> QED BY <1>1, <2>1, TopKnown DEF Unhindered, Second, FrameOK
<1>3. /\ Extent(Top) = Len(Prereqs[f]) + 1
      /\ \A i \in DOMAIN Prereqs[f] : i < Extent(Top)
  <2>1. DOMAIN Prereqs[f] = 1 .. Len(Prereqs[f]) /\ Len(Prereqs[f]) \in Nat
    BY <1>1, PrereqTypes
  <2>2. Extent(Top) = Len(Prereqs[f]) + 1
    BY <1>2 DEF Extent
  <2> QED BY <2>1, <2>2
<1>4. \A i \in DOMAIN Prereqs[f] : Good(Prereqs[f][i].file)
  BY <1>2, <1>3, PassedAreGood
<1>5. \A d \in Deps(f) : Good(d)
  BY <1>4 DEF Deps
<1>6. Top.must_make <=> disk[f] = NONEXISTENT_MTIME \/ RenewedBefore(f, Extent(Top))
  BY <1>2 DEF FrameAtEnd
<1>7. RenewedBefore(f, Extent(Top)) <=> \E d \in Counted(f) : Renewed(disk[d], disk[f])
  <2>1. \A d : d \in Counted(f) <=>
           \E i \in DOMAIN Prereqs[f] : ~Prereqs[f][i].ignore_mtime /\ Prereqs[f][i].file = d
    BY <1>1, BuildingFacts, DepFiles
  <2> QED BY <1>3, <2>1 DEF RenewedBefore
<1>8. DoubleColon[f] = NoFile
  BY <1>1, BuildingFacts, PlainFiles
<1>9. ASSUME Cmds[f] = "lines", ~MustMake(f) PROVE Current(f)
  <2>1. ~Top.must_make
    BY <1>8, <1>9 DEF MustMake
  <2>2. /\ disk[f] # NONEXISTENT_MTIME
        /\ \A d \in Counted(f) : ~Renewed(disk[d], disk[f])
    BY <1>6, <1>7, <2>1
  <2>3. disk[f] \in Nat
    BY <1>1, BuildingFacts, Numbers DEF TypeOK, NONEXISTENT_MTIME
  <2>4. \A d \in Counted(f) : disk[d] \in Nat
    <3>1. Counted(f) \subseteq Files
      BY <1>1, BuildingFacts, DepFiles
    <3> QED BY <3>1, BuildingFacts, Numbers DEF TypeOK, NONEXISTENT_MTIME
  <2> QED BY <2>2, <2>3, <2>4 DEF Current, Renewed
<1>10. ASSUME Cmds[f] = "lines", MustMake(f) PROVE Stale(f)
  <2>1. CASE Top.must_make
    BY <1>6, <1>7, <2>1 DEF Stale
  <2>2. CASE opt.always_make
    BY <2>2 DEF Stale
  <2>3. CASE ~Top.must_make /\ ~opt.always_make
    <3>1. PICK n \in Prerequisites(f) : ~Dep(n).ignore_mtime
                                        /\ Mtime(Dep(n).file) = NONEXISTENT_MTIME
      BY <1>8, <1>10, <2>3 DEF MustMake
    <3>2. PICK i \in DOMAIN Prereqs[f] : n = <<f, i>>
      BY <1>1, <3>1
    <3>3. PICK d : d = Prereqs[f][i].file
      OBVIOUS
    <3>4. Dep(n) = Prereqs[f][i]
      BY <3>2 DEF Dep
    <3>5. Good(d) /\ d \in Files /\ d \in Counted(f)
      BY <1>1, <1>4, <3>1, <3>3, <3>4, BuildingFacts, DepFiles
    <3>6. disk[d] = NONEXISTENT_MTIME
      BY <3>1, <3>3, <3>4, <3>5, GoodTime
    <3> QED BY <3>5, <3>6 DEF Stale, Renewed
  <2> QED BY <2>1, <2>2, <2>3
<1>11. Cmds[f] # "lines" => Current(f)
  BY DEF Current
<1> QED BY <1>1, <1>5, <1>9, <1>10, <1>11

LEMMA NoNeedToRemakeEnd ==
    ASSUME Building, IInv', NoNeedToRemake
    PROVE  EndInv'
<1>0. PICK f, F, times, result, ran :
         /\ f = Top.file /\ F = Deps(f) /\ times = TimesSeen /\ result = us_success /\ ran = FALSE
         /\ DecideFile /\ ~MustMake(f)
         /\ NoticeFinished(f, result, ran, times) /\ Return(result, FALSE)
         /\ UNCHANGED <<worldVars, goalVars>>
  BY DEF NoNeedToRemake
<1>1. /\ pc = "walk" /\ Top.proc = Update1 /\ Top.at = "inter"
      /\ F \subseteq Files /\ times = Seen(F)
      /\ Current(f) /\ \A d \in Deps(f) : Good(d)
  BY <1>0, DecideEnd
<1>2. result \in {us_success, us_failed} /\ result # us_question
  BY <1>0 DEF us_success, us_question
<1>3. /\ f = Top.file /\ NoticeFinished(f, result, ran, times) /\ Return(result, FALSE)
      /\ UNCHANGED <<worldVars, goalVars>>
  BY <1>0
<1> QED BY <1>1, <1>2, <1>3, EndDecided

LEMMA RemakeBlankEnd ==
    ASSUME Building, IInv', RemakeBlank
    PROVE  EndInv'
<1>0. PICK f, F, times, result, ran :
         /\ f = Top.file /\ F = Deps(f) /\ times = TimesSeen /\ result = us_success /\ ran = TRUE
         /\ DecideFile /\ Cmds[f] # "lines"
         /\ NoticeFinished(f, result, ran, times) /\ Return(result, FALSE)
         /\ UNCHANGED <<worldVars, goalVars>>
  BY DEF RemakeBlank
<1>1. /\ pc = "walk" /\ Top.proc = Update1 /\ Top.at = "inter"
      /\ F \subseteq Files /\ times = Seen(F)
      /\ Current(f) /\ \A d \in Deps(f) : Good(d)
  BY <1>0, DecideEnd
<1>2. result \in {us_success, us_failed} /\ result # us_question
  BY <1>0 DEF us_success, us_question
<1>3. /\ f = Top.file /\ NoticeFinished(f, result, ran, times) /\ Return(result, FALSE)
      /\ UNCHANGED <<worldVars, goalVars>>
  BY <1>0
<1> QED BY <1>1, <1>2, <1>3, EndDecided

\* make gives up: without -k, and it says so.
LEMMA EndDie ==
    ASSUME Building, Kept, IInv', Die, ~opt.keep_going
    PROVE  EndInv'
<1>1. /\ pc' = "end" /\ stack' = <<>> /\ status' = us_failed
      /\ UNCHANGED <<ret, any_not_updated>>
  BY DEF Die
<1>2. FramesAtEnd'
  BY <1>1 DEF FramesAtEnd
<1>3. TopAtEnd'
  BY <1>1, BuildingFacts DEF TopAtEnd
<1>4. GoalsAtEnd'
  BY <1>1, BuildingFacts DEF GoalsAtEnd, Kept
<1> QED BY <1>1, <1>2, <1>3, <1>4 DEF EndInv, Kept

LEMMA RemakeWithoutRecipeEnd ==
    ASSUME Building, IInv', RemakeWithoutRecipe
    PROVE  EndInv'
<1>0. PICK f, F, result, ran, times :
         /\ f = Top.file /\ F = Deps(f) /\ ran = FALSE /\ times = TimesSeen
         /\ result = IF f \in Phony \cup IsTarget THEN us_success ELSE us_failed
         /\ DecideFile /\ Cmds[f] # "lines"
         /\ IF result = us_failed /\ ~opt.keep_going
               THEN /\ Die
                    /\ last_mtime' = times
                    /\ UNCHANGED <<command_state, update_status, updated>>
               ELSE /\ NoticeFinished(f, result, ran, times) /\ Return(result, FALSE)
                    /\ UNCHANGED goalVars
         /\ UNCHANGED worldVars
  BY DEF RemakeWithoutRecipe
<1>1. /\ pc = "walk" /\ Top.proc = Update1 /\ Top.at = "inter"
      /\ F \subseteq Files /\ times = Seen(F)
      /\ Current(f) /\ \A d \in Deps(f) : Good(d)
  BY <1>0, DecideEnd
<1>2. CASE result = us_failed /\ ~opt.keep_going
  <2>1. \A g \in Files : last_mtime'[g] \in {last_mtime[g], disk[g]}
    <3>1. last_mtime' = Seen(F)
      BY <1>0, <1>1, <1>2
    <3>2. \A g \in Files : Seen(F)[g] \in {last_mtime[g], disk[g]}
      BY <1>1, BuildingFacts, LookPlain
    <3> QED BY <3>1, <3>2
  <2>2. Kept
    <3>1. UNCHANGED <<worldVars, update_status, updated>>
      BY <1>0, <1>2
    <3> QED BY <2>1, <3>1, QuietKept
  <2>3. Die /\ ~opt.keep_going
    BY <1>0, <1>2
  <2> QED BY <2>2, <2>3, EndDie
<1>3. CASE ~(result = us_failed /\ ~opt.keep_going)
  <2>1. result \in {us_success, us_failed} /\ result # us_question
    BY <1>0 DEF us_success, us_question, us_failed
  <2>2. /\ f = Top.file /\ NoticeFinished(f, result, ran, times) /\ Return(result, FALSE)
        /\ UNCHANGED <<worldVars, goalVars>>
    BY <1>0, <1>3
  <2> QED BY <1>1, <2>1, <2>2, EndDecided
<1> QED BY <1>2, <1>3

LEMMA ExecuteFileCommandsEnd ==
    ASSUME Building, IInv', ExecuteFileCommands
    PROVE  EndInv'
<1>0. PICK f, fr :
         /\ f = Top.file
         /\ DecideFile /\ MustMake(f) /\ Cmds[f] = "lines"
         /\ command_state' = [command_state EXCEPT ![f] = "not_started"]
         /\ last_mtime' = TimesSeen
         /\ pc' = "new_job" /\ stack' = <<fr>> \o Tail(stack)
         /\ fr \in FrameType /\ fr.proc = Update1 /\ fr.at = "remade"
         /\ fr.file = f /\ fr.dep_status = us_success
         /\ UNCHANGED <<worldVars, update_status, updated, goalVars, ret>>
  BY BuildingFacts, ExecutePlain
<1>1. /\ pc = "walk" /\ pc \in Walks /\ f \in Files
      /\ Deps(f) \subseteq Files /\ TimesSeen = Seen(Deps(f))
      /\ Stale(f)
  BY <1>0, DecideEnd DEF Walks
<1>2. UNCHANGED <<disk, opt>>
  BY <1>0 DEF worldVars
<1>3. Kept
  <2>1. PICK F : F = Deps(f) /\ F \subseteq Files
    BY <1>1
  <2>2. /\ last_mtime' = Seen(F)
        /\ \A g \in Files : Seen(F)[g] \in {last_mtime[g], disk[g]}
    BY <1>0, <1>1, <2>1, BuildingFacts, LookPlain
  <2>3. \A g \in Files : last_mtime'[g] \in {last_mtime[g], disk[g]}
    BY <2>2
  <2> QED BY <1>0, <2>3, QuietKept
<1>4. FrameAtEnd(fr)'
  BY <1>0 DEF FrameAtEnd, Scanning, Second, us_success, us_question
<1>5. FramesAtEnd' /\ (\A t : OnStack(t) => OnStack(t)')
  BY <1>0, <1>1, <1>3, <1>4, EndFramesContinue DEF Update1, Check
<1>6. /\ stack \in Seq(FrameType) /\ stack # <<>> /\ Top = stack[1] /\ 1 \in DOMAIN stack
  BY <1>1, BuildingFacts, WalkFacts
<1>7. Top' = fr
  BY <1>0, <1>6, StackContinue DEF Top
<1>8. OnStack(f)'
  BY <1>0, <1>5, <1>6 DEF OnStack
<1>9. Stale(f)'
  BY <1>1, <1>2 DEF Stale
<1>10. TopAtEnd'
  <2>1. Top'.file = f
    BY <1>0, <1>7
  <2>2. Stale(Top.file)' <=> Stale(f)'
    BY <2>1
  <2> QED BY <1>0, <1>9, <2>1, <2>2, BuildingFacts DEF TopAtEnd
<1>11. /\ \A g \in Files : g # f => command_state'[g] = command_state[g]
       /\ command_state'[f] \notin Busy
  BY <1>0, <1>1, BuildingFacts DEF TypeOK, Busy
<1>12. \A g \in Files : Wanted(g)' => Wanted(g)
  BY <1>0, <1>11 DEF Wanted, Good
<1>13. \A g \in Files : command_state[g] \in Busy =>
          g \in updated' \/ command_state'[g] \in Busy \/ OnStack(g)'
  BY <1>8, <1>11
<1>14. UNCHANGED goalVars /\ \A g \in updated : g \in updated' /\ update_status'[g] = update_status[g]
  BY <1>0
<1> QED BY <1>0, <1>1, <1>3, <1>5, <1>10, <1>12, <1>13, <1>14, EndClose

\* back from new_job
LEMMA RemadeEnd ==
    ASSUME Building, IInv', Remade
    PROVE  EndInv'
<1>0. PICK f, result :
         /\ f = Top.file /\ pc = "walk" /\ Top.proc = Update1 /\ Top.at = "remade"
         /\ Return(result, FALSE)
         /\ result = us_success \/ result = update_status[f]
         /\ IF command_state[f] # "finished" THEN UNCHANGED updated ELSE updated' = updated \cup {f}
         /\ UNCHANGED <<worldVars, command_state, update_status, timeVars, goalVars>>
  BY DEF Remade, At, Update1
<1>1. f \in Files /\ command_state[f] \in {"running", "finished"} /\ StatesAgree(f)
  <2>1. f \in Files
    BY <1>0, TopKnown DEF Walks
  <2>2. command_state[f] \in {"running", "finished"}
    BY <1>0, BuildingFacts DEF BuildInv, TopInv
  <2> QED BY <2>1, <2>2, BuildingFacts
<1>2. updated' = updated /\ (f \in updated \/ command_state[f] \in Busy)
  BY <1>0, <1>1 DEF StatesAgree, Busy
<1>3. result # us_question
  BY <1>0, <1>1, StatusKnown DEF us_success, us_question
<1>4. UNCHANGED <<worldVars, goalVars, stateVars, timeVars>>
  BY <1>0, <1>2 DEF stateVars
<1>5. Top.proc # Check /\ (Top.file \in updated \/ command_state[Top.file] \in Busy)
  BY <1>0, <1>2 DEF Update1, Check
<1> QED BY <1>0, <1>3, <1>4, <1>5, EndPassedBy

--------------------------------------------------------------------------------
(* check_dep *)

LEMMA CheckOrdinaryEnd ==
    ASSUME Building, IInv', CheckOrdinary
    PROVE  EndInv'
<1>0. PICK c, fr :
         /\ c = Frame("update_file", Top.file, UNKNOWN_MTIME, FALSE)
         /\ fr = [Top EXCEPT !.at = "updated"]
         /\ pc = "walk" /\ Top.proc = Check /\ Call(c, fr)
         /\ fr \in FrameType /\ c \in FrameType
         /\ UNCHANGED <<worldVars, stateVars, timeVars, goalVars>>
  BY BuildingFacts, CheckOrdinaryPlain
<1>1. Top \in FrameType /\ pc \in Walks /\ FrameAtEnd(Top)
  BY <1>0, TopKnown DEF Walks
<1>2. UNCHANGED <<disk, update_status, updated, last_mtime>>
  BY <1>0 DEF worldVars, stateVars, timeVars
<1>3. Kept
  BY <1>0, <1>2, QuietKept
<1>4. /\ fr.proc = Top.proc /\ fr.at = "updated" /\ fr.file = Top.file
      /\ fr.must_make = Top.must_make /\ fr.this_mtime = Top.this_mtime
      /\ fr.dep_status = Top.dep_status
  BY <1>0, <1>1 DEF FrameType
<1>5. FrameAtEnd(fr)
  BY <1>0, <1>1, <1>4 DEF FrameAtEnd, Scanning, Second, Update1, Check
<1>6. FrameAtEnd(fr)'
  BY <1>2, <1>5, FrameSame
<1>7. c.at = "enter" /\ c.dep_status = us_success /\ c.proc = Update
  BY <1>0 DEF Frame, Update
<1>8. Handed(c, fr)
  BY <1>7 DEF Handed, Update, Check
<1> QED BY <1>0, <1>3, <1>4, <1>6, <1>7, <1>8, EndCall

\* The time that check_dep compares is that on the disk, and the target's is the caller's.
LEMMA OrdinaryUpdatedEnd ==
    ASSUME Building, IInv', OrdinaryUpdated
    PROVE  EndInv'
<1>0. PICK f, result, must_make :
         /\ f = Top.file /\ f \in Files /\ result = ret.status
         /\ must_make = (Top.must_make \/ Renewed(Mtime(f), Top.this_mtime))
         /\ pc = "walk" /\ Top.proc = Check /\ Top.at = "updated"
         /\ Return(result, must_make) /\ Look({f})
         /\ UNCHANGED <<worldVars, stateVars, goalVars>>
  BY BuildingFacts, OrdinaryUpdatedPlain
<1>1. UNCHANGED <<disk, command_state, update_status, updated, job>>
  BY <1>0 DEF worldVars, stateVars
<1>2. Kept
  <2>1. {f} \subseteq Files
    BY <1>0
  <2>2. \A g \in Files : last_mtime'[g] \in {last_mtime[g], disk[g]}
    BY <1>0, <2>1, LookedAt
  <2> QED BY <1>0, <1>1, <2>2, QuietKept
<1>3. result # us_question
  BY <1>0, BuildingFacts DEF TopAtEnd
<1>4. PICK p, d : p = stack[2] /\ d = Dep(p.du).file
  OBVIOUS
<1>5. ASSUME Len(stack) # 1, p.at = "dep_back", Good(d)'
      PROVE  must_make <=> p.must_make \/ Renewed(disk'[d], p.this_mtime)
  <2>1. pc \in Walks
    BY <1>0 DEF Walks
  <2>2. Called(Top, p)
    BY <1>4, <1>5, <2>1, BuildingFacts, CalledFrom
  <2>3. d = f
    BY <1>0, <1>4, <2>2 DEF Called, Update1, Update, Check
  <2>4. Handed(Top, p)
    <3>1. /\ stack \in Seq(FrameType) /\ stack # <<>> /\ Len(stack) \in Nat /\ Len(stack) >= 1
          /\ Top = stack[1]
      BY <2>1, BuildingFacts, WalkFacts
    <3>2. PICK one : one = 1 /\ one \in 1 .. Len(stack) - 1
      <4>1. PICK len : len = Len(stack) /\ len \in Nat /\ len # 1 /\ len >= 1
        BY <1>5, <3>1
      <4>2. 1 \in 1 .. len - 1
        BY <4>1
      <4> QED BY <4>1, <4>2
    <3>3. Handed(stack[one], stack[one + 1])
      BY <3>2, BuildingFacts DEF FramesAtEnd
    <3>4. stack[one] = Top /\ stack[one + 1] = p
      BY <1>4, <3>1, <3>2
    <3> QED BY <3>3, <3>4
  <2>5. Top.this_mtime = p.this_mtime /\ (Top.must_make <=> p.must_make)
    BY <1>0, <2>4 DEF Handed
  <2>6. Good(f)
    BY <1>1, <1>5, <2>3 DEF Good
  <2>7. Mtime(f) = disk[f] /\ disk'[d] = disk[f]
    BY <1>0, <1>1, <2>3, <2>6, GoodTime
  <2> QED BY <1>0, <2>5, <2>7
<1>6. Top.file \in updated' \/ command_state'[Top.file] \in Busy
  BY <1>0, <1>1, BuildingFacts DEF BuildInv, TopInv, Answered
<1>7. /\ \A g \in updated : g \in updated' /\ update_status'[g] = update_status[g]
      /\ \A g \in Files : command_state[g] \in Busy => g \in updated' \/ command_state'[g] \in Busy
  BY <1>1
<1>8. \A g \in Files : Wanted(g)' => Wanted(g)
  BY <1>1 DEF Wanted, Good
<1> QED BY <1>0, <1>2, <1>3, <1>4, <1>5, <1>6, <1>7, <1>8, EndReturn

--------------------------------------------------------------------------------
(* Recipes *)

LEMMA ReapEnd ==
    ASSUME Building, IInv', NEW f \in Files, Reap(f)
    PROVE  EndInv'
<1>0. /\ TypeOK /\ StatesAgree(f) /\ MadeFromMade(f) /\ FilesAtEnd /\ Plain /\ Builds
  BY BuildingFacts
<1>1. PICK result :
         /\ NoticeFinished(f, result, TRUE, last_mtime)
         /\ job[f] \in {"ok", "fail"}
         /\ pc \in {"round", "reaping", "new_job", "linear", "end"}
         /\ IF job[f] = "fail" /\ ~opt.keep_going /\ pc # "end"
               THEN Die
               ELSE /\ pc' = IF pc = "round" THEN "reaping" ELSE pc
                    /\ UNCHANGED <<stack, ret, goalVars>>
         /\ UNCHANGED <<opt, goaldeps, disk, now>>
  BY DEF Reap, Ended
<1>2. /\ command_state[f] = "running" /\ f \notin updated
      /\ \A g \in Files : g # f => command_state'[g] = command_state[g]
      /\ updated' = updated \cup {f}
      /\ \A g \in Files : g # f => update_status'[g] = update_status[g]
  <2>1. last_mtime \in [Files -> Times]
    BY <1>0 DEF TypeOK
  <2>2. /\ command_state' = [command_state EXCEPT ![f] = "finished"]
        /\ updated' = updated \cup {f}
        /\ update_status' = [update_status EXCEPT ![f] = result]
    BY <1>0, <1>1, <2>1, NoticePlain
  <2>3. command_state[f] = "running" /\ f \notin updated
    BY <1>0, <1>1 DEF StatesAgree, Active
  <2> QED BY <1>0, <2>2, <2>3 DEF TypeOK
<1>3. Kept
  BY <1>0, <1>1, FilesReaped DEF Kept
<1>4. CASE Die /\ ~opt.keep_going
  BY <1>3, <1>4, EndDie
<1>5. CASE /\ pc' = IF pc = "round" THEN "reaping" ELSE pc
           /\ UNCHANGED <<stack, ret, goalVars>>
  <2>1. FramesAtEnd' /\ \A t : OnStack(t) => OnStack(t)'
    BY <1>3, <1>5, EndFramesSame
  <2>2. TopAtEnd'
    <3>1. PICK t : t = Top.file
      OBVIOUS
    <3>2. t = Top'.file
      BY <1>5, <3>1 DEF Top
    <3>3. Stale(t) => Stale(t)'
      BY <1>1 DEF Stale
    <3>4. Stale(Top.file)' <=> Stale(t)'
      BY <3>2
    <3> QED BY <1>1, <1>5, <3>1, <3>2, <3>3, <3>4, BuildingFacts DEF TopAtEnd
  <2>3. \A g \in updated : g \in updated' /\ update_status'[g] = update_status[g]
    BY <1>0, <1>2 DEF TypeOK
  <2>4. \A g \in Files : command_state[g] \in Busy => g \in updated' \/ command_state'[g] \in Busy
    BY <1>2
  <2>5. \A g \in Files : Wanted(g)' => Wanted(g)
    BY <1>2 DEF Wanted, Good, Busy
  <2>6. pc' \in {"walk", "new_job", "linear", "goal_back"} =>
            pc \in {"walk", "new_job", "linear", "goal_back"}
    BY <1>1, <1>5
  <2>7. pc' # "exit" /\ (pc' = "end" => pc = "end") /\ UNCHANGED goalVars
    BY <1>1, <1>5
  <2> QED BY <1>3, <2>1, <2>2, <2>3, <2>4, <2>5, <2>6, <2>7, EndClose
<1> QED BY <1>1, <1>4, <1>5

LEMMA StartRecipeEnd ==
    ASSUME Building, IInv', StartRecipe
    PROVE  EndInv'
<1>0. PICK f :
         /\ f = Top.file /\ f \in Files /\ pc = "new_job" /\ Top.proc = Update1
         /\ job' = [job EXCEPT ![f] = "running"]
         /\ command_state' = [command_state EXCEPT ![f] = "running"]
         /\ pc' = "linear"
         /\ UNCHANGED <<opt, goaldeps, disk, now, update_status, updated, timeVars, goalVars,
                        stack, ret>>
  BY BuildingFacts, StartRecipePlain
<1>1. pc \in Walks /\ Fresh(f) /\ StatesAgree(f) /\ TypeOK /\ FilesAtEnd
  BY <1>0, BuildingFacts DEF BuildInv, TopInv, Walks
<1>2. Kept
  <2>1. job[f] = "none"
    BY <1>1 DEF Fresh
  <2>2. FilesAtEnd'
    BY <1>0, <1>1, <2>1, FilesStarted DEF timeVars
  <2> QED BY <1>0, <2>2 DEF Kept, Good
<1>3. FramesAtEnd' /\ \A t : OnStack(t) => OnStack(t)'
  BY <1>0, <1>2, EndFramesSame
<1>4. TopAtEnd'
  BY <1>0, BuildingFacts DEF TopAtEnd
<1>5. \A g \in Files : command_state[g] \in Busy => command_state'[g] \in Busy
  BY <1>0, <1>1 DEF TypeOK, Busy
<1>6. ASSUME NEW g \in Files, Wanted(g)'
      PROVE  Wanted(g) \/ IsGoal(g) \/ \E t \in Files : g \in Deps(t) /\ OnStack(t)'
  <2>1. CASE g # f
    <3>1. command_state'[g] = command_state[g]
      BY <1>0, <1>1, <2>1 DEF TypeOK
    <3> QED BY <1>0, <1>6, <3>1 DEF Wanted, Good
  <2>2. CASE g = f
    <3>1. IsGoal(f) \/ \E t \in Files : f \in Deps(t) /\ Waiting(t)
      BY <1>0, <1>1, AskedFor
    <3>2. \A t : Waiting(t) => OnStack(t)
      BY <1>1, BuildingFacts, WalkFacts DEF Waiting, OnStack
    <3> QED BY <1>3, <2>2, <3>1, <3>2
  <2> QED BY <2>1, <2>2
<1>7. \A g \in updated : g \in updated' /\ update_status'[g] = update_status[g]
  BY <1>0
<1>8. /\ pc' # "exit" /\ (pc' = "end" => pc = "end") /\ UNCHANGED goalVars
      /\ pc \in {"walk", "new_job", "linear", "goal_back"}
  BY <1>0
<1> QED BY <1>2, <1>3, <1>4, <1>5, <1>6, <1>7, <1>8, EndClose

LEMMA NewJobReturnsEnd ==
    ASSUME Building, IInv', NewJobReturns
    PROVE  EndInv'
<1>0. /\ pc = "linear" /\ pc' = "walk"
      /\ UNCHANGED <<worldVars, stateVars, timeVars, goalVars, stack, ret>>
  BY DEF NewJobReturns, fileVars
<1>1. UNCHANGED <<opt, disk, job, command_state, update_status, updated, last_mtime>>
  BY <1>0 DEF worldVars, stateVars, timeVars
<1>2. Kept
  BY <1>0, <1>1, QuietKept
<1>3. FramesAtEnd' /\ \A t : OnStack(t) => OnStack(t)'
  BY <1>0, <1>2, EndFramesSame
<1>4. Top' = Top /\ Top.at = "remade"
  BY <1>0, BuildingFacts DEF WalkInv, ControlInv, Top
<1>5. TopAtEnd'
  BY <1>0, <1>4, BuildingFacts DEF TopAtEnd
<1>6. \A g \in Files : Wanted(g)' => Wanted(g)
  BY <1>1 DEF Wanted, Good
<1>7. /\ pc' # "exit" /\ pc' # "end" /\ pc \in {"walk", "new_job", "linear", "goal_back"}
      /\ \A g \in updated : g \in updated' /\ update_status'[g] = update_status[g]
      /\ \A g \in Files : command_state[g] \in Busy => command_state'[g] \in Busy
  BY <1>0, <1>1
<1> QED BY <1>0, <1>2, <1>3, <1>5, <1>6, <1>7, EndClose

\* What runs beside the walk does not write to what the walk has seen to be made.
LEMMA RecipeEndsEnd ==
    ASSUME Building, IInv', NEW f \in Files, RecipeEnds(f)
    PROVE  EndInv'
<1>0. UNCHANGED <<opt, goaldeps, stateVars, goalVars, pc, stack, ret>>
  BY DEF RecipeEnds, fileVars, ctlVars
<1>1. UNCHANGED <<command_state, update_status, updated>>
  BY <1>0 DEF stateVars
<1>2. FilesAtEnd' /\ \A g \in Files : job[g] # "running" => disk'[g] = disk[g]
  BY BuildingFacts, FilesWritten
<1>3. Kept
  BY <1>0, <1>1, <1>2 DEF Kept, Good
<1>4. FramesAtEnd' /\ \A t : OnStack(t) => OnStack(t)'
  BY <1>0, <1>3, EndFramesSame
<1>5. \A g \in Files : Good(g) => disk'[g] = disk[g]
  BY <1>2, BuildingFacts, GoodIsQuiet
<1>6. TopAtEnd'
  <2>1. PICK tf, d : tf = Top.file /\ d = Dep(Top.du).file
    OBVIOUS
  <2>2. Top' = Top /\ tf = Top'.file /\ d = Dep(Top'.du).file
    BY <1>0, <2>1 DEF Top
  <2>3. ASSUME pc = "walk", Top.at = "dep_back", Good(d)'
        PROVE  ret.must_make <=> Top.must_make \/ Renewed(disk'[d], Top.this_mtime)
    <3>1. d \in Files /\ Good(d)
      <4>1. Top.du # NoDep
        BY <2>3, BuildingFacts, WalkFacts DEF Walks, FrameShape
      <4>2. d \in Files
        BY <2>1, <2>3, <4>1, BuildingFacts, WalkFacts DEF Walks
      <4> QED BY <1>1, <2>3, <4>2 DEF Good
    <3> QED BY <1>5, <2>1, <2>3, <3>1, BuildingFacts DEF TopAtEnd
  <2>4. ASSUME pc = "new_job" PROVE Cmds[tf] = "lines" /\ Stale(tf)'
    <3>1. /\ tf \in Files /\ Fresh(tf) /\ \A d2 \in Deps(tf) : Good(d2)
      BY <2>1, <2>4, BuildingFacts, WalkFacts DEF BuildInv, TopInv, Walks
    <3>2. disk'[tf] = disk[tf] /\ \A d2 \in Counted(tf) : disk'[d2] = disk[d2]
      <4>1. job[tf] # "running"
        BY <3>1 DEF Fresh
      <4> QED BY <1>2, <1>5, <3>1, <4>1, BuildingFacts, DepFiles
    <3>3. Cmds[tf] = "lines" /\ Stale(tf)
      BY <2>1, <2>4, BuildingFacts DEF TopAtEnd
    <3> QED BY <1>0, <3>2, <3>3 DEF Stale
  <2>5. /\ Good(Dep(Top.du).file)' <=> Good(d)'
        /\ Stale(Top.file)' <=> Stale(tf)'
    BY <2>2
  <2>6. Dep(Top.du)' = Dep(Top'.du)
    BY DEF Dep
  <2> QED BY <1>0, <2>1, <2>2, <2>3, <2>4, <2>5, <2>6, BuildingFacts DEF TopAtEnd
<1>7. \A g \in Files : Wanted(g)' => Wanted(g)
  BY <1>1 DEF Wanted, Good
<1>8. /\ pc' # "exit" /\ (pc' = "end" => pc = "end")
      /\ pc' \in {"walk", "new_job", "linear", "goal_back"} =>
            pc \in {"walk", "new_job", "linear", "goal_back"}
      /\ \A g \in updated : g \in updated' /\ update_status'[g] = update_status[g]
      /\ \A g \in Files : command_state[g] \in Busy => command_state'[g] \in Busy
  BY <1>0, <1>1, BuildingFacts
<1> QED BY <1>0, <1>3, <1>4, <1>6, <1>7, <1>8, EndClose

--------------------------------------------------------------------------------
(* update_goal_chain *)

\* The walk is between two goals.
LEMMA EndGoals ==
    ASSUME Building, IInv', UNCHANGED <<worldVars, stateVars, ret>>, stack = <<>>,
           \A g \in Files : last_mtime'[g] \in {last_mtime[g], disk[g]},
           pc' \in {"goal", "walk", "end", "round"},
           FramesAtEnd', pc' = "walk" => Top'.at = "enter",
           ~any_not_updated', status' \in {us_none, us_failed},
           status' = us_failed /\ opt.keep_going => Failing,
           status' # us_failed =>
              /\ status # us_failed
              /\ \A k \in DOMAIN goaldeps :
                    Good(goaldeps[k]) \/ \E i \in DOMAIN goals' : goals'[i] = goaldeps[k]
              /\ pc' = "walk" => entry' = goals'[goal']
              /\ pc' = "end" => goals' = <<>>
    PROVE  EndInv'
<1>1. UNCHANGED <<opt, goaldeps, command_state, update_status, updated>>
  BY DEF worldVars, stateVars
<1>2. Kept
  BY <1>1, QuietKept
<1>3. FilesAtEnd'
  BY <1>2 DEF Kept
<1>4. TopAtEnd'
  BY BuildingFacts DEF TopAtEnd
<1>5. GoalsAtEnd'
  <2>1. Failing' <=> Failing
    BY <1>1 DEF Failing
  <2>2. \A g \in Files : (Good(g)' <=> Good(g)) /\ (Wanted(g)' <=> Wanted(g))
    BY <1>1 DEF Good, Wanted
  <2>3. ASSUME status' # us_failed, NEW g \in Files, Wanted(g)' PROVE Claimed(g)'
    <3>1. Claimed(g)
      BY <2>2, <2>3, BuildingFacts DEF GoalsAtEnd
    <3>2. \A t : ~OnStack(t)
      BY DEF OnStack
    <3>3. IsGoal(g) \/ \E t \in Files : g \in Deps(t) /\ Wanted(t)
      BY <3>1, <3>2 DEF Claimed
    <3>4. IsGoal(g)' \/ \E t \in Files : g \in Deps(t) /\ Wanted(t)'
      BY <1>1, <2>2, <3>3 DEF IsGoal
    <3> QED BY <3>4 DEF Claimed
  <2>4. ASSUME status' # us_failed, NEW k \in DOMAIN goaldeps'
        PROVE  Good(goaldeps[k])' \/ \E i \in DOMAIN goals' : goals'[i] = goaldeps'[k]
    <3>1. PICK g : g = goaldeps[k] /\ g = goaldeps'[k]
      BY <1>1
    <3>2. Good(g) \/ \E i \in DOMAIN goals' : goals'[i] = g
      BY <1>1, <2>4, <3>1
    <3>3. Good(g) => Good(g)'
      BY <1>1 DEF Good
    <3>4. Good(goaldeps[k])' <=> Good(g)'
      BY <3>1
    <3> QED BY <3>1, <3>2, <3>3, <3>4
  <2> QED BY <1>1, <2>1, <2>3, <2>4 DEF GoalsAtEnd
<1> QED BY <1>3, <1>4, <1>5 DEF EndInv

LEMMA RoundReapedEnd ==
    ASSUME Building, IInv', RoundReaped
    PROVE  EndInv'
<1>1. /\ pc \in {"round", "reaping"} /\ pc' = "goal"
      /\ UNCHANGED <<worldVars, stateVars, timeVars, goals, entry, any_not_updated, status, stack,
                     ret>>
  BY DEF RoundReaped, fileVars
<1>2. stack = <<>>
  BY <1>1, BuildingFacts DEF WalkInv, ControlInv
<1>3. FramesAtEnd' /\ UNCHANGED last_mtime
  BY <1>1, <1>2 DEF FramesAtEnd, timeVars
<1> QED BY <1>1, <1>2, <1>3, BuildingFacts, EndGoals DEF GoalsAtEnd

LEMMA UpdateGoalEnd ==
    ASSUME Building, IInv', UpdateGoal
    PROVE  EndInv'
<1>1. PICK f, fr :
         /\ f = goals[goal] /\ fr = Frame("update_file", f, UNKNOWN_MTIME, FALSE)
         /\ pc = "goal" /\ pc' = "walk" /\ stack' = <<fr>> /\ entry' = f
         /\ any_not_updated' = FALSE
         /\ UNCHANGED <<worldVars, stateVars, timeVars, goals, goal, status, ret>>
  <2>1. goals[goal] \in Files
    BY BuildingFacts DEF UpdateGoal, TypeOK
  <2>2. Name(goals[goal]) = goals[goal]
    BY <2>1, BuildingFacts, PlainFiles
  <2> QED BY <2>2 DEF UpdateGoal, UpdateGoalEntry, fileVars
<1>2. stack = <<>>
  BY <1>1, BuildingFacts DEF WalkInv, ControlInv
<1>3. FramesAtEnd'
  <2>1. /\ fr.proc = Update /\ fr.at = "enter" /\ fr.dep_status = us_success
    BY <1>1 DEF Frame, Update
  <2>2. FrameAtEnd(fr)'
    BY <2>1 DEF FrameAtEnd, Scanning, Second, Update, Update1, us_success, us_question
  <2>3. Len(stack') = 1 /\ stack'[1] = fr
    BY <1>1
  <2>4. \A k \in 1 .. Len(stack') : stack'[k] = fr
    BY <2>3
  <2>5. 1 .. Len(stack') - 1 = {}
    BY <2>3
  <2>6. ASSUME NEW k \in 1 .. Len(stack') PROVE FrameAtEnd(stack[k])'
    BY <2>2, <2>4
  <2> QED BY <2>5, <2>6 DEF FramesAtEnd
<1>4. Top'.at = "enter" /\ UNCHANGED last_mtime
  BY <1>1 DEF Top, Frame, timeVars
<1> QED BY <1>1, <1>2, <1>3, <1>4, BuildingFacts, EndGoals DEF GoalsAtEnd

LEMMA RoundOverEnd ==
    ASSUME Building, IInv', RoundOver
    PROVE  EndInv'
<1>1. /\ pc = "goal" /\ pc' = IF goals = <<>> THEN "end" ELSE "round"
      /\ UNCHANGED <<worldVars, stateVars, timeVars, goalVars, stack, ret>>
  BY DEF RoundOver
<1>2. stack = <<>>
  BY <1>1, BuildingFacts DEF WalkInv, ControlInv
<1>3. FramesAtEnd' /\ UNCHANGED last_mtime
  BY <1>1, <1>2 DEF FramesAtEnd, timeVars
<1>4. UNCHANGED <<goals, any_not_updated, status>>
  BY <1>1 DEF goalVars
<1> QED BY <1>1, <1>2, <1>3, <1>4, BuildingFacts, EndGoals DEF GoalsAtEnd

\* A goal is taken off the list when it is made, and when it has failed the status says so.
LEMMA GoalUpdatedEnd ==
    ASSUME Building, IInv', GoalUpdated
    PROVE  EndInv'
<1>1. /\ pc = "goal_back" /\ entry \in Files /\ stack = <<>> /\ goal \in 1 .. Len(goals)
      /\ Look({entry}) \/ UNCHANGED timeVars
      /\ pc' = "goal" /\ any_not_updated' = FALSE
      /\ UNCHANGED <<worldVars, stateVars, stack, ret>>
  BY BuildingFacts, GoalUpdatedPlain
<1>2. PICK f, counts, failed :
         /\ f = entry
         /\ counts = ((ret.status # us_success \/ f \in updated) /\ status < us_question)
         /\ failed = (counts /\ update_status[f] # us_success)
         /\ status' = IF failed THEN update_status[f] ELSE status
         /\ \/ goals' = goals
            \/ goals' = WithoutGoal /\ f \in updated
  <2>1. Prev[entry] = NoFile /\ ~Stops /\ ~any_not_updated
    BY <1>1, BuildingFacts, PlainFiles DEF Stops, Builds, GoalsAtEnd
  <2> QED BY <2>1 DEF GoalUpdated
<1>3. /\ update_status[f] \in {us_success, us_none, us_failed}
      /\ f \in updated <=> update_status[f] # us_none
      /\ status \in {us_none, us_failed}
  <2>1. f \in Files
    BY <1>1, <1>2
  <2>2. update_status[f] \in Statuses /\ update_status[f] # us_question /\ StatesAgree(f)
    BY <2>1, StatusKnown, BuildingFacts DEF TypeOK
  <2>3. update_status[f] \in {us_success, us_none, us_failed}
    BY <2>2 DEF Statuses, us_success, us_none, us_question, us_failed
  <2> QED BY <2>2, <2>3, BuildingFacts DEF StatesAgree, GoalsAtEnd
<1>4. /\ status' \in {us_none, us_failed}
      /\ status' = us_failed => status = us_failed \/ (f \in updated /\ update_status[f] = us_failed)
      /\ status' # us_failed => status # us_failed /\ (f \in updated => Good(f))
  <2>1. CASE counts /\ update_status[f] # us_success
    <3>1. status' = update_status[f] /\ status < us_question
      BY <1>2, <2>1
    <3> QED BY <1>3, <2>1, <3>1 DEF us_success, us_none, us_question, us_failed
  <2>2. CASE counts /\ update_status[f] = us_success
    <3>1. status' = status /\ status < us_question
      BY <1>2, <2>2
    <3> QED BY <1>3, <2>2, <3>1 DEF Good, us_none, us_question, us_failed
  <2>3. CASE ~counts
    <3>1. status' = status /\ (f \notin updated \/ ~(status < us_question))
      BY <1>2, <2>3
    <3> QED BY <1>3, <3>1 DEF us_none, us_question, us_failed
  <2> QED BY <2>1, <2>2, <2>3
<1>5. status' = us_failed /\ opt.keep_going => Failing
  BY <1>4, BuildingFacts DEF GoalsAtEnd, Failing
<1>6. ASSUME status' # us_failed, NEW k \in DOMAIN goaldeps
      PROVE  Good(goaldeps[k]) \/ \E i \in DOMAIN goals' : goals'[i] = goaldeps[k]
  <2>1. CASE Good(goaldeps[k])
    BY <2>1
  <2>2. CASE ~Good(goaldeps[k])
    <3>1. PICK j \in DOMAIN goals : goals[j] = goaldeps[k]
      BY <1>4, <1>6, <2>2, BuildingFacts DEF GoalsAtEnd
    <3>2. CASE goals' = goals
      BY <3>1, <3>2
    <3>3. CASE goals' = WithoutGoal /\ f \in updated
      <4>1. f = goals[goal] /\ Good(f)
        BY <1>1, <1>2, <1>4, <1>6, <3>3, BuildingFacts DEF GoalsAtEnd
      <4>2. j # goal
        BY <2>2, <3>1, <4>1
      <4>3. goals \in Seq(Files)
        BY BuildingFacts DEF TypeOK
      <4>4. \E i \in DOMAIN WithoutGoal : goals[j] = WithoutGoal[i]
        <5>1. PICK gs, k0 : gs = goals /\ k0 = goal
          OBVIOUS
        <5>2. gs \in Seq(Files) /\ k0 \in 1 .. Len(gs) /\ j \in DOMAIN gs \ {k0}
          BY <1>1, <4>2, <4>3, <5>1
        <5>3. WithoutGoal = SubSeq(gs, 1, k0 - 1) \o SubSeq(gs, k0 + 1, Len(gs))
          BY <5>1 DEF WithoutGoal
        <5>4. \E i \in DOMAIN (SubSeq(gs, 1, k0 - 1) \o SubSeq(gs, k0 + 1, Len(gs))) :
                 gs[j] = (SubSeq(gs, 1, k0 - 1) \o SubSeq(gs, k0 + 1, Len(gs)))[i]
          BY <5>2, TakenOut
        <5> QED BY <5>1, <5>3, <5>4
      <4> QED BY <3>1, <3>3, <4>4
    <3> QED BY <1>2, <3>2, <3>3
  <2> QED BY <2>1, <2>2
<1>7. \A g \in Files : last_mtime'[g] \in {last_mtime[g], disk[g]}
  <2>1. {entry} \subseteq Files
    BY <1>1
  <2> QED BY <1>1, <2>1, LookedAt
<1>8. FramesAtEnd'
  BY <1>1 DEF FramesAtEnd
<1> QED BY <1>1, <1>4, <1>5, <1>6, <1>7, <1>8, EndGoals

--------------------------------------------------------------------------------
(* The end *)

\* In a finite set of files that is not empty, one is on the highest level.
LEMMA Highest ==
    ASSUME Plain, NEW X, X \subseteq Files, X # {}
    PROVE  \E g \in X : \A t \in X : ~(Level[g] < Level[t])
<1>1. SUFFICES ASSUME \A g \in X : \E t \in X : Level[g] < Level[t]
               PROVE  FALSE
  OBVIOUS
<1> DEFINE Rising(S) == S # {} /\ \A g \in S : \E t \in S : Level[g] < Level[t]
           Sets == {S \in SUBSET X : Rising(S)}
           B == {Cardinality(S) : S \in Sets}
<1>2. IsFiniteSet(X)
  BY FilesAssumption, FS_Subset
<1>3. \A S \in Sets : IsFiniteSet(S) /\ Cardinality(S) \in Nat
  BY <1>2, FS_Subset, FS_CardinalityType
<1>4. X \in Sets
  BY <1>1
<1>5. B \subseteq Nat /\ B # {}
  <2> HIDE DEF Sets
  <2> QED BY <1>3, <1>4
<1>6. PICK b \in B : \A c \in B : b <= c
  <2> HIDE DEF B
  <2> QED BY <1>5, LeastNumber
<1>7. PICK S \in Sets : b = Cardinality(S)
  BY <1>6
<1>8. PICK g \in S : TRUE
  BY <1>7
<1> DEFINE T == {t \in S : Level[g] < Level[t]}
<1>9. T \subseteq S /\ g \in S /\ S \subseteq X
  BY <1>7, <1>8
<1>10. \A t \in X : Level[t] \in Nat
  BY PlainLevels
<1>11. g \notin T
  BY <1>9, <1>10
<1>12. T # {}
  BY <1>7, <1>8
<1>13. \A t \in T : \E u \in T : Level[t] < Level[u]
  <2> SUFFICES ASSUME NEW t \in T PROVE \E u \in T : Level[t] < Level[u]
    OBVIOUS
  <2>1. PICK u \in S : Level[t] < Level[u]
    BY <1>7
  <2>2. Level[g] < Level[t]
    OBVIOUS
  <2>3. Level[g] \in Nat /\ Level[t] \in Nat /\ Level[u] \in Nat
    BY <1>9, <1>10, <2>1
  <2>4. Level[g] < Level[u]
    BY <2>1, <2>2, <2>3
  <2> QED BY <2>1, <2>4
<1>14. T \in Sets
  <2> HIDE DEF T
  <2> QED BY <1>9, <1>12, <1>13
<1>15. Cardinality(T) \in Nat /\ Cardinality(S) \in Nat /\ Cardinality(S) <= Cardinality(T)
  <2>1. Cardinality(T) \in B
    BY <1>14
  <2> HIDE DEF T, B, Sets
  <2> QED BY <1>3, <1>6, <1>7, <1>14, <2>1
<1>16. Cardinality(T) <= Cardinality(S) /\ (Cardinality(S) = Cardinality(T) => S = T)
  <2> HIDE DEF T
  <2> QED BY <1>3, <1>7, <1>9, FS_Subset
<1> HIDE DEF T
<1> QED BY <1>9, <1>11, <1>15, <1>16

\* When the goals are made nothing is left waiting and nothing has failed: each file that
\* is would be asked for by one on a higher level.
LEMMA NothingWanted ==
    ASSUME Building, pc = "end", status # us_failed
    PROVE  /\ \A f \in Files : ~Wanted(f)
           /\ \A k \in DOMAIN goaldeps : Good(goaldeps[k])
<1>1. \A k \in DOMAIN goaldeps : Good(goaldeps[k])
  <2>1. goals = <<>>
    BY BuildingFacts DEF GoalsAtEnd
  <2>2. DOMAIN goals = {}
    BY <2>1
  <2> QED BY <2>2, BuildingFacts DEF GoalsAtEnd
<1> DEFINE X == {f \in Files : Wanted(f)}
<1>2. ASSUME X # {} PROVE FALSE
  <2>1. PICK g \in X : \A t \in X : ~(Level[g] < Level[t])
    <3>1. X \subseteq Files
      OBVIOUS
    <3> HIDE DEF X
    <3> QED BY <1>2, <3>1, BuildingFacts, Highest
  <2>2. g \in Files /\ Wanted(g) /\ StatesAgree(g)
    BY <2>1, BuildingFacts
  <2>3. Claimed(g)
    BY <2>2, BuildingFacts DEF GoalsAtEnd
  <2>4. ~Good(g)
    BY <2>2 DEF Wanted, StatesAgree
  <2>5. ~IsGoal(g)
    BY <1>1, <2>4 DEF IsGoal
  <2>6. stack = <<>>
    BY BuildingFacts DEF WalkInv, ControlInv
  <2>7. \A t : ~OnStack(t)
    BY <2>6 DEF OnStack
  <2>8. PICK t \in Files : g \in Deps(t) /\ Wanted(t)
    BY <2>3, <2>5, <2>7 DEF Claimed
  <2>9. Level[g] < Level[t]
    BY <2>8, BuildingFacts, PlainLevels DEF Deps, Graded
  <2> QED BY <2>1, <2>8, <2>9
<1> QED BY <1>1, <1>2

\* die removes nothing here.
LEMMA RemoveIntermediatesEnd ==
    ASSUME Building, IInv', RemoveIntermediates
    PROVE  EndInv'
<1>1. /\ pc = "end" /\ Outstanding = {} /\ pc' = "exit"
      /\ UNCHANGED <<opt, goaldeps, job, stateVars, goalVars>>
  BY DEF RemoveIntermediates, fileVars
<1>2. UNCHANGED <<command_state, update_status, updated, status>>
  BY <1>1 DEF stateVars, goalVars
<1>3. disk' = disk
  BY BuildingFacts DEF RemoveIntermediates, TypeOK
<1>4. Outstanding' = {}
  BY <1>1 DEF Outstanding, Ended
<1>5. ASSUME status # us_failed
      PROVE  /\ \A f \in updated : Good(f) /\ Current(f)
             /\ \A k \in DOMAIN goaldeps : Good(goaldeps[k])
  <2>1. \A f \in updated : f \in Files
    BY BuildingFacts DEF TypeOK
  <2>2. \A f \in updated : Good(f)
    BY <1>1, <1>5, <2>1, NothingWanted DEF Wanted
  <2>3. \A f \in updated : Current(f)
    BY <2>1, <2>2, BuildingFacts DEF FilesAtEnd, FileAtEnd
  <2> QED BY <1>1, <1>5, <2>2, <2>3, NothingWanted
<1>6. Failing => status = us_failed
  <2> SUFFICES ASSUME Failing, status # us_failed PROVE FALSE
    OBVIOUS
  <2> QED BY <1>5 DEF Failing, Good, us_success, us_failed
<1>7. status \in {us_none, us_failed} /\ (status = us_failed /\ opt.keep_going => Failing)
  BY BuildingFacts DEF GoalsAtEnd
<1>8. /\ Failing' <=> Failing
      /\ \A f \in updated : (Good(f)' <=> Good(f)) /\ (Current(f)' <=> Current(f))
  BY <1>2, <1>3 DEF Failing, Good, Current
<1>9. \A k \in DOMAIN goaldeps : Good(goaldeps[k]) => Good(goaldeps[k])'
  BY <1>1, <1>2 DEF Good
<1>10. AtExit'
  BY <1>1, <1>2, <1>4, <1>5, <1>6, <1>7, <1>8, <1>9 DEF AtExit
<1> QED BY <1>1, <1>10 DEF EndInv

--------------------------------------------------------------------------------
(* The invariant *)

LEMMA InitEnd ==
    ASSUME Direct, Init
    PROVE  EndInv
<1>1. /\ disk \in [Files -> NONEXISTENT_MTIME .. Start] /\ now = Start
      /\ job = [f \in Files |-> "none"] /\ command_state = [f \in Files |-> "not_started"]
      /\ update_status = [f \in Files |-> us_none] /\ updated = {}
      /\ last_mtime = [f \in Files |-> UNKNOWN_MTIME]
      /\ goals = goaldeps /\ any_not_updated = FALSE /\ status = us_none
      /\ pc = "round" /\ stack = <<>> /\ ret.status = us_success
  BY DisksAssumption DEF Init
<1>2. \A f \in Files : ~Good(f) /\ ~Wanted(f)
  BY <1>1 DEF Good, Wanted, Busy
<1>3. FilesAtEnd
  <2>1. \A f \in Files : disk[f] <= now
    BY <1>1, DisksAssumption
  <2> QED BY <1>1, <1>2, <2>1
        DEF FilesAtEnd, FileAtEnd, us_none, us_question
<1>4. FramesAtEnd
  BY <1>1 DEF FramesAtEnd
<1>5. TopAtEnd
  BY <1>1 DEF TopAtEnd, us_success, us_question
<1>6. GoalsAtEnd
  BY <1>1, <1>2 DEF GoalsAtEnd, us_none, us_failed
<1> QED BY <1>1, <1>3, <1>4, <1>5, <1>6 DEF EndInv

\* What has to do with intermediate files does not happen.
LEMMA NoneIntermediate ==
    ASSUME Building
    PROVE  /\ ~UpdateIntermediate /\ ~IntermediateUpdated /\ ~CheckIntermediate
           /\ ~CheckPrereqOfIntermediate /\ ~PrereqOfIntermediateChecked /\ ~IntermediateChecked
           /\ ~CircularDropped /\ ~DropFromIntermediate /\ ~PretendRecipe
<1>1. ~UpdateIntermediate /\ ~CheckIntermediate
  BY BuildingFacts DEF UpdateIntermediate, CheckIntermediate
<1>2. ~IntermediateUpdated
  BY TopKnown DEF IntermediateUpdated, At, FrameAtEnd, Walks
<1>3. ASSUME pc = "walk", Top.proc = "check_dep", Top.at \in {"deps", "dep_back"} PROVE FALSE
  <2>1. FrameOK(Top, Caller(stack, 1))
    BY <1>3, TopKnown DEF Walks
  <2> QED BY <1>3, <2>1, BuildingFacts DEF FrameOK, CheckOK, Check
<1>4. ~CheckPrereqOfIntermediate /\ ~PrereqOfIntermediateChecked /\ ~IntermediateChecked
  BY <1>3 DEF CheckPrereqOfIntermediate, PrereqOfIntermediateChecked, IntermediateChecked, At
<1>5. ~CircularDropped /\ ~DropFromIntermediate
  BY BuildingFacts, NoneDropped
<1>6. ~PretendRecipe
  BY BuildingFacts DEF PretendRecipe, Builds
<1> QED BY <1>1, <1>2, <1>4, <1>5, <1>6

LEMMA UnchangedEnd ==
    ASSUME EndInv, UNCHANGED vars
    PROVE  EndInv'
<1>1. UNCHANGED <<opt, goaldeps, disk, now, job, command_state, update_status, updated,
                  last_mtime, goals, goal, entry, any_not_updated, status, pc, stack, ret>>
  BY DEF vars, worldVars, fileVars, stateVars, timeVars, goalVars, ctlVars
<1>2. AtExit => AtExit'
  BY <1>1 DEF AtExit, Outstanding, Ended, Failing, Good, Current
<1>3. FilesAtEnd => FilesAtEnd'
  BY <1>1, FilesSame
<1>4. FramesAtEnd => FramesAtEnd'
  <2>1. ASSUME FramesAtEnd, NEW k \in 1 .. Len(stack) PROVE FrameAtEnd(stack[k])'
    <3>1. PICK fr : fr = stack[k]
      OBVIOUS
    <3>2. FrameAtEnd(fr)'
      BY <1>1, <2>1, <3>1, FrameSame DEF FramesAtEnd
    <3>3. fr = stack'[k]
      BY <1>1, <3>1
    <3> QED BY <3>2, <3>3
  <2> QED BY <1>1, <2>1 DEF FramesAtEnd, Handed
<1>5. TopAtEnd => TopAtEnd'
  BY <1>1 DEF TopAtEnd, Top, Dep, Good, Stale
<1>6. GoalsAtEnd => GoalsAtEnd'
  BY <1>1 DEF GoalsAtEnd, Failing, Claimed, Wanted, OnStack, IsGoal, Good
<1> QED BY <1>1, <1>2, <1>3, <1>4, <1>5, <1>6 DEF EndInv

LEMMA NextEnd ==
    ASSUME Building, IInv', Next
    PROVE  EndInv'
<1>0. /\ ~UpdateIntermediate /\ ~IntermediateUpdated /\ ~CheckIntermediate
      /\ ~CheckPrereqOfIntermediate /\ ~PrereqOfIntermediateChecked /\ ~IntermediateChecked
      /\ ~CircularDropped /\ ~DropFromIntermediate /\ ~PretendRecipe
  BY NoneIntermediate
<1>1. CASE UpdateFileStep
  BY <1>1, PrunedEnd, UpdateFileEnd, EntryUpdatedEnd DEF UpdateFileStep
<1>2. CASE UpdateFile1Step
  BY <1>0, <1>2, AlreadyDecidedEnd, ConsiderFileEnd, ListDoneEnd, CheckPrereqEnd,
     PrereqCheckedEnd, SkipOrdinaryEnd, PrereqsRunningEnd, PrereqFailedEnd, NoNeedToRemakeEnd,
     RemakeWithoutRecipeEnd, RemakeBlankEnd, ExecuteFileCommandsEnd, RemadeEnd
     DEF UpdateFile1Step
<1>3. CASE CheckDepStep
  BY <1>0, <1>3, CheckOrdinaryEnd, OrdinaryUpdatedEnd DEF CheckDepStep
<1>4. CASE JobStep
  BY <1>0, <1>4, ReapEnd, StartRecipeEnd, NewJobReturnsEnd DEF JobStep
<1>5. CASE GoalStep
  BY <1>5, RoundReapedEnd, UpdateGoalEnd, RoundOverEnd, GoalUpdatedEnd DEF GoalStep
<1>6. CASE RemoveIntermediates
  BY <1>6, RemoveIntermediatesEnd
<1>7. CASE \E f \in Files : RecipeEnds(f)
  BY <1>7, RecipeEndsEnd
<1>8. CASE Finished
  BY <1>8, BuildingFacts DEF Finished
<1> QED BY <1>1, <1>2, <1>3, <1>4, <1>5, <1>6, <1>7, <1>8 DEF Next, MakeStep

\* When make is over nothing more happens.
LEMMA ExitEnd ==
    ASSUME TypeOK, WalkInv, EndInv, pc = "exit", Next
    PROVE  UNCHANGED vars
<1>1. Outstanding = {}
  BY DEF EndInv, AtExit
<1>2. \A f \in Files : ~RecipeEnds(f)
  BY <1>1 DEF RecipeEnds, Outstanding
<1>3. ~UpdateFileStep
  BY DEF UpdateFileStep, Pruned, UpdateFile, EntryUpdated, At
<1>4. ~UpdateFile1Step
  BY DEF UpdateFile1Step, AlreadyDecided, ConsiderFile, ListDone, CircularDropped, CheckPrereq,
         PrereqChecked, SkipOrdinary, UpdateIntermediate, IntermediateUpdated, PrereqsRunning,
         PrereqFailed, NoNeedToRemake, RemakeWithoutRecipe, RemakeBlank, ExecuteFileCommands,
         Remade, DecideFile, AllScanned, At
<1>5. ~CheckDepStep
  BY DEF CheckDepStep, CheckOrdinary, OrdinaryUpdated, CheckIntermediate, DropFromIntermediate,
         CheckPrereqOfIntermediate, PrereqOfIntermediateChecked, IntermediateChecked, At
<1>6. ~JobStep /\ ~GoalStep /\ ~RemoveIntermediates
  BY DEF JobStep, Reap, StartRecipe, PretendRecipe, NewJobReturns, GoalStep, RoundReaped,
         UpdateGoal, RoundOver, GoalUpdated, RemoveIntermediates
<1> QED BY <1>2, <1>3, <1>4, <1>5, <1>6 DEF Next, MakeStep, Finished

LEMMA EInvStep ==
    ASSUME Direct, EInv, [Next]_vars
    PROVE  EInv'
<1>1. IInv /\ Plain /\ TypeOK /\ WalkInv
  BY DEF EInv, Direct, IInv
<1>2. IInv'
  BY <1>1, IInvStep
<1>3. UNCHANGED opt /\ (Builds' <=> Builds)
  BY <1>1, WorldSteps DEF Builds
<1>4. ASSUME Builds PROVE EndInv'
  <2>1. EndInv
    BY <1>4 DEF EInv
  <2>2. CASE UNCHANGED vars
    BY <2>1, <2>2, UnchangedEnd
  <2>3. CASE Next /\ pc = "exit"
    BY <1>1, <2>1, <2>3, ExitEnd, UnchangedEnd
  <2>4. CASE Next /\ pc # "exit"
    <3>1. Building
      BY <1>1, <1>4, <2>1, <2>4 DEF Building
    <3> QED BY <1>2, <2>4, <3>1, NextEnd
  <2> QED BY <2>2, <2>3, <2>4
<1> QED BY <1>2, <1>3, <1>4 DEF EInv

--------------------------------------------------------------------------------
(* What the makefile says *)

\* A file that is no intermediate file stands for itself.
LEMMA StandsForItself ==
    ASSUME Direct, NEW d
    PROVE  StandsFor(d) = {d}
<1> DEFINE N == Cardinality(Files)
           S == 0 .. N
           E(g) == [k \in S |-> IF k = 0 THEN {d}
                                ELSE UNION {IF Gone(e) THEN Counted(e) ELSE {e} : e \in g[k - 1]}]
           upto == CHOOSE g : g = E(g)
           W == [k \in S |-> {d}]
<1>1. N \in Nat
  BY FilesAssumption, FS_CardinalityType
<1>2. \A e : ~Gone(e)
  BY DEF Direct, Gone
<1> HIDE DEF N
<1>3. \A k \in S : k \in Nat /\ (k # 0 => k - 1 \in S)
  BY <1>1
<1>4. W = E(W)
  <2>1. ASSUME NEW k \in S
        PROVE  W[k] = IF k = 0 THEN {d}
                      ELSE UNION {IF Gone(e) THEN Counted(e) ELSE {e} : e \in W[k - 1]}
    <3>1. CASE k = 0
      BY <3>1
    <3>2. CASE k # 0
      <4>1. W[k - 1] = {d} /\ W[k] = {d}
        BY <1>3, <3>2
      <4>2. UNION {IF Gone(e) THEN Counted(e) ELSE {e} : e \in {d}} = {d}
        BY <1>2
      <4> QED BY <3>2, <4>1, <4>2
    <3> QED BY <3>1, <3>2
  <2> QED BY <2>1
<1>5. upto = E(upto)
  <2> HIDE DEF E, W
  <2> QED BY <1>4
<1> HIDE DEF upto
<1>6. /\ upto[0] = {d}
      /\ \A k \in S : k # 0 =>
            upto[k] = UNION {IF Gone(e) THEN Counted(e) ELSE {e} : e \in upto[k - 1]}
  <2>1. 0 \in S
    BY <1>1
  <2> QED BY <1>5, <2>1
<1>7. \A k \in S : upto[k] = {d}
  <2> DEFINE B == {k \in S : upto[k] # {d}}
  <2>1. SUFFICES ASSUME B # {} PROVE FALSE
    OBVIOUS
  <2>2. B \subseteq Nat
    BY <1>3
  <2>3. PICK b \in B : \A c \in B : b <= c
    <3> HIDE DEF B
    <3> QED BY <2>1, <2>2, LeastNumber
  <2>4. b \in S /\ b \in Nat /\ upto[b] # {d} /\ b # 0
    BY <1>3, <1>6, <2>3
  <2>5. b - 1 \in S /\ b - 1 \notin B
    <3>1. b - 1 \in S /\ ~(b <= b - 1)
      BY <1>3, <2>4
    <3> HIDE DEF B, S
    <3> QED BY <2>3, <3>1
  <2>6. upto[b - 1] = {d}
    BY <2>5
  <2>7. upto[b] = UNION {IF Gone(e) THEN Counted(e) ELSE {e} : e \in {d}}
    BY <1>6, <2>4, <2>6
  <2> QED BY <1>2, <2>4, <2>7
<1>8. upto[N] = {d}
  BY <1>1, <1>7
<1>9. StandsFor(d) = {e \in upto[N] : ~Gone(e)}
  BY DEF StandsFor, upto, N
<1> QED BY <1>2, <1>8, <1>9

\* Among these makefiles a file is out of date by its own time and those of its
\* prerequisites.
LEMMA DirectMeaning ==
    ASSUME Direct, TypeOK, NEW f \in Files
    PROVE  /\ ~Gone(f) /\ Age(f) = disk[f] /\ Sources(f) = Counted(f)
           /\ Entries(f) = {f} /\ DoubleColon[f] = NoFile
           /\ \A d \in Counted(f) : Name(d) = d
<1>1. /\ Group(f) = {f} /\ Entries(f) = {f} /\ DoubleColon[f] = NoFile
      /\ \A d \in Files : Name(d) = d
  BY PlainFiles DEF Direct
<1>2. ~Gone(f)
  BY DEF Direct, Gone
<1>3. Age(f) = disk[f]
  <2>1. disk[f] \in Int
    BY Numbers DEF TypeOK
  <2>2. {disk[g] : g \in Group(f)} = {disk[f]}
    BY <1>1
  <2>3. Min({disk[f]}) = disk[f]
    BY <2>1 DEF Min
  <2> QED BY <2>2, <2>3 DEF Age
<1>4. Sources(f) = Counted(f)
  <2>1. UNION {Counted(g) : g \in Group(f)} = Counted(f)
    BY <1>1
  <2>2. \A d : StandsFor(d) = {d}
    BY StandsForItself
  <2>3. UNION {StandsFor(d) : d \in Counted(f)} = Counted(f)
    BY <2>2
  <2> QED BY <2>1, <2>3 DEF Sources
<1>5. \A d \in Counted(f) : Name(d) = d
  BY <1>1, DepFiles DEF Direct
<1> QED BY <1>1, <1>2, <1>3, <1>4, <1>5

LEMMA RightIfAtExit ==
    ASSUME Direct, TypeOK, Builds, pc = "exit" => AtExit
    PROVE  RightAtEnd
<1>1. \A f \in updated : f \in Files
  BY DEF TypeOK
<1>2. \A k \in DOMAIN goaldeps : goaldeps[k] \in Files
  BY GoalsAssumption DEF TypeOK
<1>3. UpToDateAtEnd
  <2> SUFFICES ASSUME pc = "exit", status < us_question
               PROVE  /\ \A i \in DOMAIN goaldeps : Entries(goaldeps[i]) \subseteq updated
                      /\ \A f \in updated \ (Phony \cup Lazy) :
                            Cmds[f] = "lines" /\ ~Gone(f) =>
                                /\ Age(f) # NONEXISTENT_MTIME
                                /\ \A e \in Sources(f) : disk[Name(e)] <= Age(f)
    BY DEF UpToDateAtEnd
  <2>1. /\ \A f \in updated : Good(f) /\ Current(f)
        /\ \A k \in DOMAIN goaldeps : Good(goaldeps[k])
    BY DEF AtExit, us_question, us_failed
  <2>2. \A i \in DOMAIN goaldeps : Entries(goaldeps[i]) \subseteq updated
    BY <1>2, <2>1, DirectMeaning DEF Good
  <2>3. ASSUME NEW f \in updated \ (Phony \cup Lazy), Cmds[f] = "lines"
        PROVE  /\ Age(f) # NONEXISTENT_MTIME
               /\ \A e \in Sources(f) : disk[Name(e)] <= Age(f)
    <3>1. /\ disk[f] # NONEXISTENT_MTIME
          /\ \A d \in Counted(f) : disk[d] <= disk[f]
      BY <2>1, <2>3 DEF Current
    <3>2. /\ Age(f) = disk[f] /\ Sources(f) = Counted(f)
          /\ \A d \in Counted(f) : Name(d) = d
      BY <1>1, DirectMeaning
    <3> QED BY <3>1, <3>2
  <2> QED BY <2>2, <2>3
<1>4. ExitTellsFailure
  BY DEF ExitTellsFailure, AtExit, Failing
<1>5. QuestionAnswered
  BY DEF QuestionAnswered, Builds
<1> QED BY <1>3, <1>4, <1>5 DEF RightAtEnd

\* Sets that grow step by step: those of what can be reached on a path of k steps.
Grows(F, s, a, N, W) ==
    /\ W \in [0 .. N -> SUBSET F] /\ W[0] = {a}
    /\ \A k \in 1 .. N : \A e \in F : e \in W[k] <=> \E d \in W[k - 1] : e \in s[d]

LEMMA StepByStep ==
    ASSUME NEW F, NEW s \in [F -> SUBSET F], NEW a \in F, NEW N \in Nat
    PROVE  \E W : Grows(F, s, a, N, W)
<1> DEFINE Path(p, k, e) ==
              /\ p \in [0 .. k -> F] /\ p[0] = a /\ p[k] = e
              /\ \A i \in 1 .. k : p[i] \in s[p[i - 1]]
           W == [k \in 0 .. N |-> {e \in F : \E p : Path(p, k, e)}]
<1>1. W \in [0 .. N -> SUBSET F]
  OBVIOUS
<1>2. W[0] = {a}
  <2>1. \A e : \A p : Path(p, 0, e) => e = a
    OBVIOUS
  <2>2. Path([i \in 0 .. 0 |-> a], 0, a)
    OBVIOUS
  <2>3. W[0] = {e \in F : \E p : Path(p, 0, e)}
    OBVIOUS
  <2> HIDE DEF Path, W
  <2> QED BY <2>1, <2>2, <2>3
<1>3. ASSUME NEW k \in 1 .. N
      PROVE  \A e \in F : e \in W[k] <=> \E d \in W[k - 1] : e \in s[d]
  <2>1. k \in Nat /\ k - 1 \in Nat /\ k \in 0 .. N /\ k - 1 \in 0 .. N /\ k # 0
    OBVIOUS
  <2>2. /\ W[k] = {e \in F : \E p : Path(p, k, e)}
        /\ W[k - 1] = {e \in F : \E p : Path(p, k - 1, e)}
    BY <2>1
  <2>3. ASSUME NEW e \in F, NEW p, Path(p, k, e)
        PROVE  \E d \in W[k - 1] : e \in s[d]
    <3> DEFINE q == [i \in 0 .. k - 1 |-> p[i]]
    <3>1. p[k - 1] \in F /\ e \in s[p[k - 1]]
      BY <2>1, <2>3
    <3>2. Path(q, k - 1, p[k - 1])
      <4>1. q \in [0 .. k - 1 -> F] /\ q[0] = a /\ q[k - 1] = p[k - 1]
        BY <2>1, <2>3
      <4>2. ASSUME NEW i \in 1 .. k - 1 PROVE q[i] \in s[q[i - 1]]
        BY <2>1, <2>3, <4>2
      <4> QED BY <4>1, <4>2
    <3> HIDE DEF Path, q, W
    <3> QED BY <2>2, <3>1, <3>2
  <2>4. ASSUME NEW d \in W[k - 1], NEW e \in s[d]
        PROVE  e \in W[k]
    <3>1. d \in F /\ e \in F
      BY <1>1, <2>1, <2>4
    <3>2. PICK p : Path(p, k - 1, d)
      <4> HIDE DEF Path, W
      <4> QED BY <2>2, <2>4
    <3> DEFINE q == [i \in 0 .. k |-> IF i = k THEN e ELSE p[i]]
    <3>3. Path(q, k, e)
      <4>1. q \in [0 .. k -> F] /\ q[0] = a /\ q[k] = e
        BY <2>1, <3>1, <3>2
      <4>2. ASSUME NEW i \in 1 .. k PROVE q[i] \in s[q[i - 1]]
        <5>1. CASE i = k
          <6>1. q[i] = e /\ q[i - 1] = p[k - 1] /\ p[k - 1] = d
            BY <2>1, <3>2, <5>1
          <6> QED BY <6>1, <2>4
        <5>2. CASE i # k
          <6>1. i \in 1 .. k - 1 /\ q[i] = p[i] /\ q[i - 1] = p[i - 1]
            BY <2>1, <4>2, <5>2
          <6> QED BY <3>2, <6>1
        <5> QED BY <5>1, <5>2
      <4> QED BY <4>1, <4>2
    <3> HIDE DEF Path, q, W
    <3> QED BY <2>2, <3>1, <3>3
  <2> HIDE DEF Path, W
  <2>5. \A e \in W[k] : \E d \in W[k - 1] : e \in s[d]
    BY <2>2, <2>3
  <2> QED BY <2>4, <2>5
<1> HIDE DEF W
<1>4. Grows(F, s, a, N, W)
  BY <1>1, <1>2, <1>3 DEF Grows
<1> QED BY <1>4

\* Every file leads to itself.
LEMMA ReachesItself ==
    ASSUME Plain, NEW f \in Files
    PROVE  f \in Reach[f]
<1> DEFINE N == Cardinality(Files)
           S == 0 .. N
           E(g) == [k \in S |-> IF k = 0 THEN {f}
                                ELSE UNION {{e} \cup Entries(e) \cup Walked(e) : e \in g[k - 1]}]
           upto == CHOOSE g : g = E(g)
           s == [e \in Files |-> {e} \cup Entries(e) \cup Walked(e)]
<1>1. N \in Nat
  BY FilesAssumption, FS_CardinalityType
<1> HIDE DEF N
<1>2. s \in [Files -> SUBSET Files]
  <2>1. ASSUME NEW e \in Files PROVE {e} \cup Entries(e) \cup Walked(e) \subseteq Files
    <3>1. Entries(e) = {e} /\ Group(e) = {e}
      BY PlainFiles
    <3>2. Walked(e) \subseteq Files
      BY <3>1, DepFiles DEF Walked
    <3> QED BY <3>1, <3>2
  <2> QED BY <2>1
<1>3. PICK W : Grows(Files, s, f, N, W)
  <2> HIDE DEF s
  <2> QED BY <1>1, <1>2, StepByStep
<1>3a. /\ W \in [S -> SUBSET Files] /\ W[0] = {f}
       /\ \A k \in 1 .. N : \A e \in Files : e \in W[k] <=> \E d \in W[k - 1] : e \in s[d]
  <2> HIDE DEF s
  <2> QED BY <1>3 DEF Grows
<1>4. \A k \in S : k \in Nat /\ (k # 0 => k - 1 \in S /\ k \in 1 .. N)
  BY <1>1
<1>5. W = E(W)
  <2>1. ASSUME NEW k \in S
        PROVE  W[k] = IF k = 0 THEN {f}
                      ELSE UNION {{e} \cup Entries(e) \cup Walked(e) : e \in W[k - 1]}
    <3>1. CASE k = 0
      BY <1>3a, <3>1
    <3>2. CASE k # 0
      <4>1. W[k - 1] \subseteq Files
        BY <1>3a, <1>4, <3>2
      <4>2. \A e \in Files : e \in W[k] <=> \E d \in W[k - 1] : e \in s[d]
        <5> HIDE DEF s
        <5> QED BY <1>3a, <1>4, <3>2
      <4>3. \A d \in W[k - 1] : s[d] = {d} \cup Entries(d) \cup Walked(d) /\ s[d] \subseteq Files
        BY <1>2, <4>1
      <4>4. W[k] \subseteq Files
        BY <1>3a
      <4> HIDE DEF s
      <4>5. W[k] = UNION {{e} \cup Entries(e) \cup Walked(e) : e \in W[k - 1]}
        BY <4>2, <4>3, <4>4
      <4> QED BY <3>2, <4>5
    <3> QED BY <3>1, <3>2
  <2> QED BY <1>3a, <2>1
<1>6. upto = E(upto)
  <2> HIDE DEF E
  <2> QED BY <1>5
<1> HIDE DEF upto
<1>7. /\ upto[0] = {f}
      /\ \A k \in S : k # 0 =>
            upto[k] = UNION {{e} \cup Entries(e) \cup Walked(e) : e \in upto[k - 1]}
  <2>1. 0 \in S
    BY <1>1
  <2> QED BY <1>6, <2>1
<1>8. \A k \in S : f \in upto[k]
  <2> DEFINE B == {k \in S : f \notin upto[k]}
  <2>1. SUFFICES ASSUME B # {} PROVE FALSE
    OBVIOUS
  <2>2. B \subseteq Nat
    BY <1>4
  <2>3. PICK b \in B : \A c \in B : b <= c
    <3> HIDE DEF B
    <3> QED BY <2>1, <2>2, LeastNumber
  <2>4. b \in S /\ b \in Nat /\ f \notin upto[b] /\ b # 0
    BY <1>4, <1>7, <2>3
  <2>5. b - 1 \in S /\ b - 1 \notin B
    <3>1. b - 1 \in S /\ ~(b <= b - 1)
      BY <1>4, <2>4
    <3> HIDE DEF B, S
    <3> QED BY <2>3, <3>1
  <2>6. f \in upto[b - 1]
    BY <2>5
  <2>7. upto[b] = UNION {{e} \cup Entries(e) \cup Walked(e) : e \in upto[b - 1]}
    BY <1>7, <2>4
  <2> QED BY <2>4, <2>6, <2>7
<1>9. f \in upto[N]
  BY <1>1, <1>8
<1>10. Reach[f] = upto[N]
  BY DEF Reach, upto, N
<1> QED BY <1>9, <1>10

--------------------------------------------------------------------------------
(* The theorems *)

\* The inductive invariant of a run that builds, where no file is intermediate.
THEOREM EndInvariance ==
    ASSUME Direct
    PROVE  Spec => []EInv
<1>1. Init => EInv
  <2>1. Init => IInv
    BY InitWalk, InitBuild DEF IInv, Direct
  <2> QED BY <2>1, InitEnd DEF EInv
<1>2. EInv /\ [Next]_vars => EInv'
  BY EInvStep
<1> QED BY <1>1, <1>2, PTL DEF Spec

\* When make is over and reports success the goals and all that was decided on the way are
\* at least as new as what they are made from, except for recipes that leave their targets
\* alone, and make reports a failure if a file has failed and under -k only then
\* (remake.c:187-198, 736, 748, 1047).
THEOREM RightWhenOver ==
    ASSUME Direct
    PROVE  Spec => [](Builds => RightAtEnd)
<1>1. EInv => (Builds => RightAtEnd)
  <2> SUFFICES ASSUME EInv, Builds PROVE RightAtEnd
    OBVIOUS
  <2>1. TypeOK /\ EndInv
    BY DEF EInv, IInv
  <2> QED BY <2>1, RightIfAtExit DEF EndInv
<1>2. Spec => []EInv
  BY EndInvariance
<1> QED BY <1>1, <1>2, PTL

\* No recipe is run for a file that is up to date: when it starts, its target is missing or
\* older than a prerequisite on the disk itself, unless -B asks for it (remake.c:799-851).
THEOREM NoneWithoutNeed ==
    ASSUME Direct
    PROVE  Spec => NeededOnly
<1>1. ASSUME EInv, [Next]_vars, NEW f \in Files, job'[f] = "running", job[f] # "running"
      PROVE  \E g \in Files : f \in Reach[g] /\ (g = f \/ Gone(f)) /\ OutOfDate(g)
  <2>1. Plain /\ IInv /\ TypeOK
    BY <1>1 DEF EInv, Direct, IInv
  <2>2. Builds /\ pc = "new_job" /\ f = Top.file
    BY <1>1, <2>1, Started
  <2>3. Cmds[f] = "lines" /\ Stale(f)
    BY <1>1, <2>2 DEF EInv, EndInv, TopAtEnd
  <2>4. /\ ~Gone(f) /\ Age(f) = disk[f] /\ Sources(f) = Counted(f)
        /\ \A d \in Counted(f) : Name(d) = d
    BY <2>1, DirectMeaning
  <2>5. OutOfDate(f)
    <3>1. CASE opt.always_make \/ disk[f] = NONEXISTENT_MTIME
      BY <2>3, <2>4, <3>1 DEF OutOfDate
    <3>2. CASE \E d \in Counted(f) : Renewed(disk[d], disk[f])
      BY <2>3, <2>4, <3>2 DEF OutOfDate, Renewed
    <3> QED BY <2>3, <3>1, <3>2 DEF Stale
  <2>6. f \in Reach[f]
    BY <2>1, ReachesItself
  <2> QED BY <2>5, <2>6
<1>2. EInv /\ [Next]_vars =>
          \A f \in Files : job'[f] = "running" /\ job[f] # "running" =>
              \E g \in Files : f \in Reach[g] /\ (g = f \/ Gone(f)) /\ OutOfDate(g)
  BY <1>1
<1>3. Spec => []EInv
  BY EndInvariance
<1> QED BY <1>2, <1>3, PTL DEF Spec, NeededOnly
================================================================================
