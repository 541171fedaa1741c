------------------------------ MODULE RemakeProof ------------------------------
(***************************************************************************)
(* The theorems about Remake for makefiles without circular prerequisites, *)
(* :: rules and grouped rules: the inductive invariant IInv, and what      *)
(* follows from it about the order of the recipes and about what the walk  *)
(* takes away.  The steps are dealt with in two parts: first what a step   *)
(* does to the files, then what it leaves of the knowledge of each call.   *)
(***************************************************************************)
EXTENDS RemakeWalkProof

FileOK(g) == StatesAgree(g) /\ TimesAgree(g) /\ MadeOnTheWay(g) /\ MadeFromMade(g)

\* what a step leaves true of a file, unless the step is about the file itself
CalmAt(own, g) ==
    /\ g \in updated => g \in updated' /\ update_status'[g] = update_status[g]
    /\ Looked(g) => Looked(g)'
    /\ g \in intermediate' => g \in intermediate
    /\ Unmade(g) => Unmade(g)' \/ Good(g)'
    /\ g \in intermediate \/ Exists(g) => g \in intermediate' \/ Exists(g)'
    /\ Active(g)' => Active(g) \/ g = own
    /\ g \in updated' => g \in updated \/ Active(g) \/ g = own
    /\ Fresh(g) => Fresh(g)' \/ g = own

Calm(own) == \A g \in Files : CalmAt(own, g)

--------------------------------------------------------------------------------
(* Files *)

LEMMA ExistsWhen ==
    ASSUME Plain, NEW g \in Files
    PROVE  /\ Exists(g) <=> IF last_mtime[g] = UNKNOWN_MTIME THEN disk[g] # NONEXISTENT_MTIME
                                                       ELSE last_mtime[g] # NONEXISTENT_MTIME
           /\ Exists(g)' <=> IF last_mtime'[g] = UNKNOWN_MTIME THEN disk'[g] # NONEXISTENT_MTIME
                                                        ELSE last_mtime'[g] # NONEXISTENT_MTIME
<1>1. Name(g) = g
  BY PlainFiles
<1> QED BY <1>1 DEF Exists, Mtime

LEMMA DiskTime ==
    ASSUME TypeOK, NEW g \in Files
    PROVE  disk[g] # UNKNOWN_MTIME
BY DEF TypeOK, UNKNOWN_MTIME, NONEXISTENT_MTIME

\* The times of the files in F are asked for.
Peeked(F) ==
    /\ last_mtime' = Seen(F) /\ intermediate' = Found(F)
    /\ UNCHANGED <<disk, job, updated, update_status>>

\* f is put off, or is reset
Moved(f) ==
    \/ command_state' = command_state
    \/ /\ command_state' = [command_state EXCEPT ![f] = "not_started"]
       /\ command_state[f] # "running"
       /\ Fresh(f) \/ f \in intermediate \ Phony
    \/ /\ command_state' = [command_state EXCEPT ![f] = "deps_running"]
       /\ Looked(f) /\ ~Good(f) /\ ~Active(f)
       /\ f \in updated => f \notin Phony /\ f \in intermediate

LEMMA PeekAt ==
    ASSUME Plain, TypeOK, NEW F, F \subseteq Files, Peeked(F), NEW f \in Files, Moved(f),
           NEW g \in Files, FileOK(g)
    PROVE  StatesAgree(g)' /\ TimesAgree(g)' /\ MadeOnTheWay(g)' /\ CalmAt(NoFile, g)
<1>1. /\ last_mtime'[g] = IF g \in F /\ last_mtime[g] = UNKNOWN_MTIME THEN disk[g]
                                                                      ELSE last_mtime[g]
      /\ g \in intermediate' <=>
            /\ g \in intermediate
            /\ ~(/\ g \in F /\ last_mtime[g] = UNKNOWN_MTIME
                 /\ disk[g] # NONEXISTENT_MTIME /\ command_state[g] = "not_started")
      /\ UNCHANGED <<disk, job, updated, update_status>>
  BY LookPlain DEF Peeked
<1>2. \/ command_state'[g] = command_state[g]
      \/ /\ command_state'[g] = "not_started" /\ command_state[g] # "running"
         /\ Fresh(g) \/ g \in intermediate \ Phony
      \/ /\ command_state'[g] = "deps_running"
         /\ Looked(g) /\ ~Good(g) /\ ~Active(g)
         /\ g \in updated => g \notin Phony /\ g \in intermediate
  <2>1. command_state \in [Files -> CommandStates]
    BY DEF TypeOK
  <2> QED BY <2>1 DEF Moved
<1>3. disk[g] # UNKNOWN_MTIME
  BY DiskTime
<1>4. g # NoFile
  BY FilesAssumption
<1>5. UNKNOWN_MTIME # NONEXISTENT_MTIME
  BY DEF UNKNOWN_MTIME, NONEXISTENT_MTIME
<1>6. us_success # us_none
  BY DEF us_success, us_none
<1> USE DEF FileOK
<1>7. StatesAgree(g)'
  BY <1>1, <1>2, <1>3, <1>5, <1>6
     DEF StatesAgree, TimesAgree, MadeOnTheWay, Good, Active, Fresh, Looked, Unmade, Busy
<1>8. TimesAgree(g)'
  BY <1>1, <1>3, <1>5, ExistsWhen DEF TimesAgree
<1>9. MadeOnTheWay(g)'
  BY <1>1, <1>2, <1>3, <1>5 DEF StatesAgree, MadeOnTheWay, Unmade, Looked, Good
<1>10. CalmAt(NoFile, g)
  BY <1>1, <1>3, <1>4, <1>5, ExistsWhen
     DEF CalmAt, StatesAgree, MadeOnTheWay, Unmade, Looked, Good, Active, Fresh
<1> QED BY <1>7, <1>8, <1>9, <1>10

\* What is made stays made.
LEMMA GoodKept ==
    ASSUME NEW own, Calm(own), NEW d \in Files, Good(d)
    PROVE  Good(d)'
BY DEF Calm, CalmAt, Good

LEMMA DepsFiles ==
    ASSUME Plain, NEW f \in Files
    PROVE  Deps(f) \subseteq Files /\ f \notin Deps(f)
<1>1. ASSUME NEW i \in DOMAIN Prereqs[f] PROVE Prereqs[f][i].file \in Files \ {f}
  <2>1. <<f, i>> \in Nodes
    BY <1>1, PrereqTypes
  <2>2. Dep(<<f, i>>).file \in Files /\ Dep(<<f, i>>).file # <<f, i>>[1]
    BY <2>1, DepLower
  <2> QED BY <2>2 DEF Dep
<1> QED BY <1>1 DEF Deps

LEMMA PeekKeeps ==
    ASSUME Plain, TypeOK, \A g \in Files : FileOK(g),
           NEW F, F \subseteq Files, Peeked(F), NEW f \in Files, Moved(f)
    PROVE  (\A g \in Files : FileOK(g)') /\ Calm(NoFile)
<1>1. \A g \in Files : StatesAgree(g)' /\ TimesAgree(g)' /\ MadeOnTheWay(g)' /\ CalmAt(NoFile, g)
  BY PeekAt
<1>2. Calm(NoFile)
  BY <1>1 DEF Calm
<1>3. ASSUME NEW g \in Files PROVE MadeFromMade(g)'
  <2>1. Active(g)' \/ (Good(g)' /\ g \in intermediate') => Active(g) \/ (Good(g) /\ g \in intermediate)
    <3>1. CalmAt(NoFile, g)
      BY <1>1
    <3>2. UNCHANGED <<job, updated, update_status>>
      BY DEF Peeked
    <3> QED BY <3>1, <3>2 DEF CalmAt, Active, Good
  <2>2. ASSUME NEW d \in Deps(g), Good(d) PROVE Good(d)'
    BY <1>2, <2>2, DepsFiles, GoodKept
  <2>3. MadeFromMade(g)
    BY DEF FileOK
  <2> QED BY <2>1, <2>2, <2>3 DEF MadeFromMade, Deps
<1> QED BY <1>1, <1>2, <1>3 DEF FileOK

\* f is decided: its prerequisites have been gone through, or its recipe was blank.
LEMMA DecideKeeps ==
    ASSUME Plain, TypeOK, \A g \in Files : FileOK(g), Builds,
           NEW F, F \subseteq Files, NEW f \in Files, f \notin F, NEW result \in Statuses, NEW ran,
           NoticeFinished(f, result, ran, Seen(F)), intermediate' = Found(F),
           UNCHANGED <<disk, job>>,
           Fresh(f), Looked(f), result # us_none,
           result = us_success /\ f \in intermediate => \A d \in Deps(f) : Good(d)
    PROVE  (\A g \in Files : FileOK(g)') /\ Calm(f)
<1>0. Seen(F) \in [Files -> Times]
  BY LookPlain
<1>1. /\ command_state' = [command_state EXCEPT ![f] = "finished"]
      /\ updated' = updated \cup {f}
      /\ update_status' = [update_status EXCEPT ![f] = result]
      /\ last_mtime' = [g \in Files |-> IF g = f /\ ran /\ f \notin Phony
                                           THEN TimeAfterRecipe ELSE Seen(F)[g]]
  BY <1>0, NoticePlain
<1>2. TimeAfterRecipe = UNKNOWN_MTIME
  BY DEF TimeAfterRecipe, Builds
<1>3. /\ command_state \in [Files -> CommandStates] /\ update_status \in [Files -> Statuses]
  BY DEF TypeOK
<1>5. UNKNOWN_MTIME # NONEXISTENT_MTIME
  BY DEF UNKNOWN_MTIME, NONEXISTENT_MTIME
<1>6. us_success # us_none
  BY DEF us_success, us_none
<1>7. ASSUME NEW g \in Files, g # f
      PROVE  StatesAgree(g)' /\ TimesAgree(g)' /\ MadeOnTheWay(g)' /\ CalmAt(f, g)
  <2>1. /\ last_mtime'[g] = IF g \in F /\ last_mtime[g] = UNKNOWN_MTIME THEN disk[g]
                                                                        ELSE last_mtime[g]
        /\ g \in intermediate' <=>
              /\ g \in intermediate
              /\ ~(/\ g \in F /\ last_mtime[g] = UNKNOWN_MTIME
                   /\ disk[g] # NONEXISTENT_MTIME /\ command_state[g] = "not_started")
    BY <1>1, <1>7, LookPlain
  <2>2. /\ command_state'[g] = command_state[g] /\ update_status'[g] = update_status[g]
        /\ g \in updated' <=> g \in updated
        /\ UNCHANGED <<disk, job>>
    BY <1>1, <1>3, <1>7
  <2>3. disk[g] # UNKNOWN_MTIME
    BY DiskTime
  <2>4. FileOK(g)
    OBVIOUS
  <2> USE DEF FileOK
  <2>7. StatesAgree(g)'
    BY <2>1, <2>2, <2>3, <2>4, <1>5, <1>6
       DEF StatesAgree, TimesAgree, MadeOnTheWay, Good, Active, Fresh, Looked, Unmade, Busy
  <2>8. TimesAgree(g)'
    BY <2>1, <2>2, <2>3, <2>4, <1>5, ExistsWhen DEF TimesAgree
  <2>9. MadeOnTheWay(g)'
    BY <2>1, <2>2, <2>3, <2>4, <1>5 DEF StatesAgree, MadeOnTheWay, Unmade, Looked, Good
  <2>10. CalmAt(f, g)
    BY <2>1, <2>2, <2>3, <2>4, <1>5, <1>7, ExistsWhen
       DEF CalmAt, StatesAgree, MadeOnTheWay, Unmade, Looked, Good, Active, Fresh
  <2> QED BY <2>7, <2>8, <2>9, <2>10
<1>8. StatesAgree(f)' /\ TimesAgree(f)' /\ MadeOnTheWay(f)' /\ CalmAt(f, f)
  <2>1. /\ last_mtime'[f] = last_mtime[f] \/ last_mtime'[f] = UNKNOWN_MTIME
        /\ f \in intermediate' <=> f \in intermediate
    BY <1>1, <1>2, LookPlain
  <2>2. /\ command_state'[f] = "finished" /\ update_status'[f] = result /\ f \in updated'
        /\ UNCHANGED <<disk, job>>
    BY <1>1, <1>3
  <2>3. disk[f] # UNKNOWN_MTIME
    BY DiskTime
  <2>4. FileOK(f)
    OBVIOUS
  <2>5. job[f] = "none" /\ f \notin updated /\ last_mtime[f] # UNKNOWN_MTIME
    BY DEF Fresh, Looked
  <2> USE DEF FileOK
  <2>7. StatesAgree(f)'
    BY <2>1, <2>2, <2>5, <1>6 DEF StatesAgree, Active, Looked, Good, Busy
  <2>8. TimesAgree(f)'
    BY <2>1, <2>2, <2>3, <2>4, <2>5, <1>5, ExistsWhen DEF TimesAgree
  <2>9. MadeOnTheWay(f)'
    BY <2>1, <2>2, <2>3, <2>4, <2>5, <1>5 DEF StatesAgree, MadeOnTheWay, Unmade, Looked, Good
  <2>10. CalmAt(f, f)
    BY <2>1, <2>2, <2>3, <2>4, <2>5, <1>5, ExistsWhen
       DEF CalmAt, TimesAgree, Unmade, Looked, Good, Active, Fresh
  <2> QED BY <2>7, <2>8, <2>9, <2>10
<1>9. Calm(f)
  BY <1>7, <1>8 DEF Calm
<1>10. ASSUME NEW g \in Files PROVE MadeFromMade(g)'
  <2>1. \/ Active(g) \/ (Good(g) /\ g \in intermediate)
        \/ g = f /\ result = us_success /\ f \in intermediate
        \/ ~(Active(g)' \/ (Good(g)' /\ g \in intermediate'))
    <3>1. CalmAt(f, g)
      BY <1>9 DEF Calm
    <3> QED BY <3>1, <1>1, <1>3 DEF CalmAt, Active, Good
  <2>2. ASSUME NEW d \in Deps(g), Good(d) PROVE Good(d)'
    BY <1>9, <2>2, DepsFiles, GoodKept
  <2>3. MadeFromMade(g)
    BY DEF FileOK
  <2> QED BY <2>1, <2>2, <2>3 DEF MadeFromMade, Deps
<1> QED BY <1>7, <1>8, <1>9, <1>10 DEF FileOK

\* The recipe of f is started.
LEMMA StartKeeps ==
    ASSUME Plain, TypeOK, \A g \in Files : FileOK(g), NEW f \in Files,
           job' = [job EXCEPT ![f] = "running"],
           command_state' = [command_state EXCEPT ![f] = "running"],
           UNCHANGED <<disk, updated, update_status, last_mtime, intermediate>>,
           Fresh(f), Looked(f), \A d \in Deps(f) : Good(d)
    PROVE  (\A g \in Files : FileOK(g)') /\ Calm(f)
<1>1. /\ job \in [Files -> {"none", "running", "ok", "fail", "reaped"}]
      /\ command_state \in [Files -> CommandStates]
  BY DEF TypeOK
<1>2. ASSUME NEW g \in Files
      PROVE  StatesAgree(g)' /\ TimesAgree(g)' /\ MadeOnTheWay(g)' /\ CalmAt(f, g)
  <2>1. /\ g # f => job'[g] = job[g] /\ command_state'[g] = command_state[g]
        /\ g = f => /\ job'[g] = "running" /\ command_state'[g] = "running"
                    /\ job[g] = "none" /\ g \notin updated /\ last_mtime[g] # UNKNOWN_MTIME
    BY <1>1 DEF Fresh, Looked
  <2>2. FileOK(g)
    OBVIOUS
  <2>3. StatesAgree(g)'
    BY <2>1, <2>2 DEF FileOK, StatesAgree, Good, Active, Looked, Busy
  <2>4. TimesAgree(g)'
    BY <2>2, ExistsWhen DEF FileOK, TimesAgree
  <2>5. MadeOnTheWay(g)'
    BY <2>1, <2>2 DEF FileOK, MadeOnTheWay, Unmade, Looked, Good
  <2>6. CalmAt(f, g)
    BY <2>1, <2>2, ExistsWhen DEF CalmAt, Unmade, Looked, Good, Active, Fresh
  <2> QED BY <2>3, <2>4, <2>5, <2>6
<1>3. Calm(f)
  BY <1>2 DEF Calm
<1>4. ASSUME NEW g \in Files PROVE MadeFromMade(g)'
  <2>1. \/ Active(g) \/ (Good(g) /\ g \in intermediate) \/ g = f
        \/ ~(Active(g)' \/ (Good(g)' /\ g \in intermediate'))
    <3>1. CalmAt(f, g)
      BY <1>3 DEF Calm
    <3> QED BY <3>1 DEF CalmAt, Active, Good
  <2>2. ASSUME NEW d \in Deps(g), Good(d) PROVE Good(d)'
    BY <1>3, <2>2, DepsFiles, GoodKept
  <2>3. MadeFromMade(g)
    BY DEF FileOK
  <2> QED BY <2>1, <2>2, <2>3 DEF MadeFromMade, Deps
<1> QED BY <1>2, <1>3, <1>4 DEF FileOK

\* The recipe of f ends.
LEMMA EndKeeps ==
    ASSUME Plain, TypeOK, \A g \in Files : FileOK(g), NEW f \in Files, RecipeEnds(f)
    PROVE  (\A g \in Files : FileOK(g)') /\ Calm(NoFile)
<1>1. PICK result \in {"ok", "fail"}, writes \in BOOLEAN :
         /\ result = "fail" => ~writes
         /\ job' = [job EXCEPT ![f] = result]
         /\ now' = IF writes THEN now + 1 ELSE now
         /\ disk' = [g \in Files |-> IF writes /\ g \in Group(f) \ Phony THEN now' ELSE disk[g]]
  BY DEF RecipeEnds
<1>2. /\ job \in [Files -> {"none", "running", "ok", "fail", "reaped"}]
      /\ job[f] = "running" /\ Group(f) = {f}
      /\ UNCHANGED <<command_state, updated, update_status, last_mtime, intermediate>>
  BY PlainFiles DEF RecipeEnds, TypeOK, fileVars, stateVars, timeVars
<1>3. writes => now' # NONEXISTENT_MTIME /\ now' # UNKNOWN_MTIME
  BY <1>1, Numbers DEF TypeOK, NONEXISTENT_MTIME, UNKNOWN_MTIME
<1>4. UNKNOWN_MTIME # NONEXISTENT_MTIME
  BY DEF UNKNOWN_MTIME, NONEXISTENT_MTIME
<1>5. ASSUME NEW g \in Files
      PROVE  StatesAgree(g)' /\ TimesAgree(g)' /\ MadeOnTheWay(g)' /\ CalmAt(NoFile, g)
  <2>1. /\ g # f => job'[g] = job[g] /\ disk'[g] = disk[g]
        /\ g = f => /\ job[g] = "running" /\ job'[g] \in {"ok", "fail"}
                    /\ \/ disk'[g] = disk[g]
                       \/ disk'[g] # NONEXISTENT_MTIME /\ job'[g] = "ok"
    BY <1>1, <1>2, <1>3
  <2>2. FileOK(g) /\ g # NoFile
    BY FilesAssumption
  <2>3. StatesAgree(g)'
    BY <1>2, <2>1, <2>2 DEF FileOK, StatesAgree, Good, Active, Looked
  <2>4. TimesAgree(g)'
    BY <1>2, <2>1, <2>2, ExistsWhen DEF FileOK, TimesAgree
  <2>5. MadeOnTheWay(g)'
    BY <1>2, <2>1, <2>2 DEF FileOK, StatesAgree, MadeOnTheWay, Unmade, Looked, Good, Active
  <2>6. CalmAt(NoFile, g)
    BY <1>2, <2>1, <2>2, ExistsWhen DEF CalmAt, Unmade, Looked, Good, Active, Fresh
  <2> QED BY <2>3, <2>4, <2>5, <2>6
<1>6. Calm(NoFile)
  BY <1>5 DEF Calm
<1>7. ASSUME NEW g \in Files PROVE MadeFromMade(g)'
  <2>1. Active(g)' \/ (Good(g)' /\ g \in intermediate') => Active(g) \/ (Good(g) /\ g \in intermediate)
    <3>1. CalmAt(NoFile, g) /\ g # NoFile
      BY <1>5, FilesAssumption
    <3> QED BY <3>1, <1>2 DEF CalmAt, Good
  <2>2. ASSUME NEW d \in Deps(g), Good(d) PROVE Good(d)'
    BY <1>6, <2>2, DepsFiles, GoodKept
  <2>3. MadeFromMade(g)
    BY DEF FileOK
  <2> QED BY <2>1, <2>2, <2>3 DEF MadeFromMade, Deps
<1> QED BY <1>5, <1>6, <1>7 DEF FileOK

\* The recipe of f is reaped.
LEMMA ReapKeeps ==
    ASSUME Plain, TypeOK, \A g \in Files : FileOK(g), Builds, NEW f \in Files, Reap(f)
    PROVE  (\A g \in Files : FileOK(g)') /\ Calm(NoFile)
<1>0. PICK result, ran, times :
         /\ result = IF job[f] = "ok" THEN us_success ELSE us_failed
         /\ ran = TRUE /\ times = last_mtime
         /\ NoticeFinished(f, result, ran, times)
  BY DEF Reap
<1>1. /\ command_state' = [command_state EXCEPT ![f] = "finished"]
      /\ updated' = updated \cup {f}
      /\ update_status' = [update_status EXCEPT ![f] = result]
      /\ last_mtime' = [g \in Files |-> IF g = f /\ f \notin Phony
                                           THEN TimeAfterRecipe ELSE last_mtime[g]]
  <2>1. last_mtime \in [Files -> Times]
    BY DEF TypeOK
  <2>2. times \in [Files -> Times] /\ NoticeFinished(f, result, ran, times)
    BY <1>0, <2>1
  <2>3. /\ command_state' = [command_state EXCEPT ![f] = "finished"]
        /\ updated' = updated \cup {f}
        /\ update_status' = [update_status EXCEPT ![f] = result]
        /\ last_mtime' = [g \in Files |-> IF g = f /\ ran /\ f \notin Phony
                                             THEN TimeAfterRecipe ELSE times[g]]
    BY <2>2, NoticePlain
  <2> QED BY <1>0, <2>3
<1>2. /\ job \in [Files -> {"none", "running", "ok", "fail", "reaped"}]
      /\ command_state \in [Files -> CommandStates] /\ update_status \in [Files -> Statuses]
      /\ job[f] \in {"ok", "fail"} /\ job' = [job EXCEPT ![f] = "reaped"]
      /\ UNCHANGED <<disk, intermediate>>
  BY DEF TypeOK, Reap, Ended
<1>3. TimeAfterRecipe = UNKNOWN_MTIME
  BY DEF TimeAfterRecipe, Builds
<1>4. UNKNOWN_MTIME # NONEXISTENT_MTIME
  BY DEF UNKNOWN_MTIME, NONEXISTENT_MTIME
<1>5. us_success # us_none /\ us_failed # us_none /\ us_success # us_failed
  BY DEF us_success, us_none, us_failed
<1>6. ASSUME NEW g \in Files
      PROVE  StatesAgree(g)' /\ TimesAgree(g)' /\ MadeOnTheWay(g)' /\ CalmAt(NoFile, g)
  <2>1. CASE g # f
    <3>1. /\ job'[g] = job[g] /\ command_state'[g] = command_state[g]
          /\ update_status'[g] = update_status[g] /\ last_mtime'[g] = last_mtime[g]
          /\ g \in updated' <=> g \in updated
      BY <1>1, <1>2, <2>1
    <3>2. FileOK(g) /\ g # NoFile
      BY FilesAssumption
    <3>3. StatesAgree(g)'
      BY <1>2, <3>1, <3>2 DEF FileOK, StatesAgree, Good, Active, Looked
    <3>4. TimesAgree(g)'
      BY <1>2, <3>1, <3>2, ExistsWhen DEF FileOK, TimesAgree
    <3>5. MadeOnTheWay(g)'
      BY <1>2, <3>1, <3>2 DEF FileOK, MadeOnTheWay, Unmade, Looked, Good
    <3>6. CalmAt(NoFile, g)
      BY <1>2, <3>1, <3>2, ExistsWhen DEF CalmAt, Unmade, Looked, Good, Active, Fresh
    <3> QED BY <3>3, <3>4, <3>5, <3>6
  <2>2. CASE g = f
    <3>1. /\ job'[g] = "reaped" /\ command_state'[g] = "finished"
          /\ update_status'[g] = result /\ g \in updated'
          /\ last_mtime'[g] = last_mtime[g] \/ last_mtime'[g] = UNKNOWN_MTIME
      BY <1>1, <1>2, <1>3, <2>2
    <3>2. FileOK(g) /\ g # NoFile
      BY FilesAssumption
    <3>7. /\ job[g] \in {"ok", "fail"} /\ command_state[g] = "running" /\ g \notin updated
          /\ last_mtime[g] # UNKNOWN_MTIME
          /\ result = IF job[g] = "ok" THEN us_success ELSE us_failed
      BY <1>0, <1>2, <2>2, <3>2 DEF FileOK, StatesAgree, Active, Looked
    <3>3. StatesAgree(g)'
      BY <1>5, <3>1, <3>7 DEF StatesAgree, Good, Active, Looked, Busy
    <3>8. disk[g] # UNKNOWN_MTIME
      BY DiskTime
    <3>4. TimesAgree(g)'
      BY <1>2, <1>4, <3>1, <3>2, <3>7, <3>8, ExistsWhen DEF FileOK, TimesAgree
    <3>5. MadeOnTheWay(g)'
      BY <1>2, <3>1, <3>2, <3>7 DEF FileOK, MadeOnTheWay, Unmade, Looked, Good
    <3>6. CalmAt(NoFile, g)
      BY <1>2, <1>4, <3>1, <3>2, <3>7, <3>8, ExistsWhen
         DEF FileOK, TimesAgree, CalmAt, Unmade, Looked, Good, Active, Fresh
    <3> QED BY <3>3, <3>4, <3>5, <3>6
  <2> QED BY <2>1, <2>2
<1>7. Calm(NoFile)
  BY <1>6 DEF Calm
<1>8. ASSUME NEW g \in Files PROVE MadeFromMade(g)'
  <2>1. Active(g)' \/ (Good(g)' /\ g \in intermediate') => Active(g) \/ (Good(g) /\ g \in intermediate)
    <3>1. CalmAt(NoFile, g) /\ g # NoFile
      BY <1>6, FilesAssumption
    <3> QED BY <3>1, <1>1, <1>2 DEF CalmAt, Good
  <2>2. ASSUME NEW d \in Deps(g), Good(d) PROVE Good(d)'
    BY <1>7, <2>2, DepsFiles, GoodKept
  <2>3. MadeFromMade(g)
    BY DEF FileOK
  <2> QED BY <2>1, <2>2, <2>3 DEF MadeFromMade, Deps
<1> QED BY <1>6, <1>7, <1>8 DEF FileOK

--------------------------------------------------------------------------------
(* What the calls under way know *)

LEMMA PassedKept ==
    ASSUME Plain, NEW own, Calm(own), NEW f \in Files, NEW i \in DOMAIN Prereqs[f], NEW must_make,
           Passed(f, i, must_make)
    PROVE  Passed(f, i, must_make)'
<1> DEFINE d == Prereqs[f][i].file
<1>1. d \in Files
  BY DepsFiles DEF Deps
<1>2. CalmAt(own, d)
  BY <1>1 DEF Calm
<1> QED BY <1>2 DEF CalmAt, Passed, Good

LEMMA SettledKept ==
    ASSUME NEW own, Calm(own), NEW d \in Files, Settled(d)
    PROVE  Settled(d)'
BY DEF Calm, CalmAt, Settled

\* A step leaves a call what it knows, unless it is about the file the call is about.
LEMMA FrameKept ==
    ASSUME Plain, NEW own, Calm(own), UNCHANGED opt,
           NEW fr \in FrameType, NEW caller, FrameOK(fr, caller),
           Scanning(fr) \/ Second(fr) \/ (fr.proc = Check /\ fr.at \in {"deps", "dep_back"})
              => fr.file # own
    PROVE  FrameOK(fr, caller)'
<1>1. fr.file \in Files
  BY DEF FrameType
<1>2. CalmAt(own, fr.file)
  BY <1>1 DEF Calm
<1>3. \A i \in DOMAIN Prereqs[fr.file] : Prereqs[fr.file][i].file \in Files
  BY <1>1, DepsFiles DEF Deps
<1>4. OpenOK(fr)'
  BY <1>2 DEF FrameOK, OpenOK, CalmAt
<1>5. ScanOK(fr)'
  BY <1>1, PassedKept DEF FrameOK, ScanOK
<1>6. SecondOK(fr)'
  <2>1. ASSUME Second(fr), Unhindered(fr), fr.must_make \/ opt.always_make,
               NEW i \in DOMAIN Prereqs[fr.file]
        PROVE  LET d == Prereqs[fr.file][i].file
               IN  Good(d)' \/ (i >= Position(fr) /\ Unmade(d)')
    <3> DEFINE d == Prereqs[fr.file][i].file
    <3>1. CalmAt(own, d)
      BY <1>3 DEF Calm
    <3>2. Good(d) \/ (i >= Position(fr) /\ Unmade(d))
      BY <2>1 DEF FrameOK, SecondOK
    <3> QED BY <3>1, <3>2 DEF CalmAt, Good
  <2>2. ASSUME Second(fr), Unhindered(fr), ~(fr.must_make \/ opt.always_make)
        PROVE  /\ fr.du = NoDep
               /\ \A i \in DOMAIN Prereqs[fr.file] : Passed(fr.file, i, FALSE)'
    BY <2>2, <1>1, PassedKept DEF FrameOK, SecondOK
  <2> QED BY <2>1, <2>2 DEF SecondOK
<1>7. WaitOK(fr)'
  BY <1>3, SettledKept DEF FrameOK, WaitOK
<1>8. CheckOK(fr, caller)'
  <2>1. CASE fr.proc = Check /\ fr.at \in {"deps", "dep_back"}
    <3>1. /\ fr.file # own /\ fr.file \in Intermediates \ Phony /\ Looked(fr.file)
          /\ caller = Update1 \/ fr.file \in updated \/ Active(fr.file) =>
                Good(fr.file) \/ Unmade(fr.file)
          /\ Good(fr.file) \/ Active(fr.file) =>
                ~fr.running /\ \A d \in Deps(fr.file) : Good(d)
      BY <2>1 DEF FrameOK, CheckOK
    <3>2. Looked(fr.file)'
      BY <1>2, <3>1 DEF CalmAt
    <3>3. ASSUME caller = Update1 \/ fr.file \in updated' \/ Active(fr.file)'
          PROVE  Good(fr.file)' \/ Unmade(fr.file)'
      BY <1>2, <3>1, <3>3 DEF CalmAt, Good
    <3>4. ASSUME Good(fr.file)' \/ Active(fr.file)'
          PROVE  ~fr.running /\ \A d \in Deps(fr.file) : Good(d)'
      <4>1. Good(fr.file) \/ Active(fr.file)
        BY <1>2, <3>1, <3>4 DEF CalmAt, Good
      <4> QED BY <3>1, <4>1, <1>1, DepsFiles, GoodKept
    <3> QED BY <2>1, <3>1, <3>2, <3>3, <3>4 DEF CheckOK, Deps
  <2>2. CASE fr.proc = Check /\ fr.at \notin {"deps", "dep_back"}
    BY <2>2, <1>2 DEF FrameOK, CheckOK, CalmAt
  <2>3. CASE fr.proc # Check
    BY <2>3 DEF CheckOK
  <2> QED BY <2>1, <2>2, <2>3
<1> QED BY <1>4, <1>5, <1>6, <1>7, <1>8 DEF FrameOK

\* A call that waits for another one is at a place from which it is made, and its file is
\* on a higher level.
LEMMA Buried ==
    ASSUME Plain, TypeOK, WalkInv, pc \in Walks, NEW k \in 2 .. Len(stack)
    PROVE  /\ stack[k] \in FrameType /\ Called(stack[k - 1], stack[k]) /\ Below(Top, stack[k])
           /\ stack[k].at \in {"back", "updated", "inter_back", "dep_back"}
           /\ Level[Top.file] \in Nat /\ Level[stack[k].file] \in Nat
           /\ Scanning(stack[k]) \/ Second(stack[k])
                 \/ (stack[k].proc = Check /\ stack[k].at \in {"deps", "dep_back"})
              => stack[k].file # Top.file
<1>1. /\ stack \in Seq(FrameType) /\ stack # <<>> /\ Top = stack[1] /\ Top \in FrameType
      /\ Len(stack) \in Nat /\ Shape(stack)
      /\ \A j \in 1 .. Len(stack) : stack[j] \in FrameType
  BY WalkFacts
<1>2. k - 1 \in 1 .. Len(stack) - 1 /\ (k - 1) + 1 = k /\ k \in 1 .. Len(stack) /\ 1 \in 1 .. Len(stack)
      /\ 1 < k /\ k - 1 \in 1 .. Len(stack)
  BY <1>1
<1>3. Called(stack[k - 1], stack[k])
  BY <1>1, <1>2 DEF Shape
<1>4. Below(stack[1], stack[k])
  BY <1>1, <1>2 DEF Shape
<1>5. stack[k - 1] \in FrameType /\ stack[k] \in FrameType
  BY <1>1, <1>2
<1>6. stack[k - 1].proc \in {Update, Update1, Check}
  BY <1>5 DEF FrameType, Update, Update1, Check
<1>7. stack[k].at \in {"back", "updated", "inter_back", "dep_back"}
  BY <1>3, <1>6 DEF Called
<1>8. Level[Top.file] \in Nat /\ Level[stack[k].file] \in Nat
  BY <1>1, <1>5, LevelTypes
<1>9. ASSUME stack[k].proc = Update1 \/ stack[k].at = "dep_back" PROVE stack[k].file # Top.file
  BY <1>1, <1>4, <1>8, <1>9 DEF Below
<1> QED BY <1>1, <1>3, <1>4, <1>5, <1>7, <1>8, <1>9 DEF Scanning, Second

LEMMA BuriedKept ==
    ASSUME Plain, TypeOK, WalkInv, FramesInv, UNCHANGED opt, NEW own, Calm(own),
           pc \in Walks, own \in {NoFile, Top.file},
           NEW k \in 2 .. Len(stack), NEW fr, fr = stack[k], NEW c, c = Caller(stack, k)
    PROVE  FrameOK(fr, c)'
<1>1. FrameOK(stack[k], Caller(stack, k))
  <2>1. k \in 1 .. Len(stack)
    BY WalkFacts
  <2> QED BY <2>1 DEF FramesInv
<1>2. FrameOK(fr, c) /\ fr \in FrameType
  BY <1>1, Buried
<1>3. fr.file # NoFile
  BY <1>2, FilesAssumption DEF FrameType
<1>4. Scanning(fr) \/ Second(fr) \/ (fr.proc = Check /\ fr.at \in {"deps", "dep_back"})
          => fr.file # own
  BY <1>3, Buried
<1> QED BY <1>2, <1>4, FrameKept

LEMMA FramesContinue ==
    ASSUME Plain, TypeOK, WalkInv, FramesInv, UNCHANGED opt, NEW own, Calm(own),
           pc \in Walks, own \in {NoFile, Top.file},
           NEW fr \in FrameType, stack' = <<fr>> \o Tail(stack),
           NEW c, c = Caller(stack, 1), FrameOK(fr, c)'
    PROVE  FramesInv'
<1>1. /\ stack \in Seq(FrameType) /\ stack # <<>> /\ Len(stack) \in Nat /\ Len(stack) >= 1
  BY WalkFacts
<1>2. /\ Len(stack') = Len(stack) /\ stack'[1] = fr
      /\ \A k \in 2 .. Len(stack) : stack'[k] = stack[k]
  BY <1>1, StackContinue
<1>3. ASSUME NEW k \in 1 .. Len(stack)
      PROVE  Caller(stack', k) = Caller(stack, k)
  <2>1. k < Len(stack) => k + 1 \in 2 .. Len(stack)
    BY <1>1
  <2> QED BY <1>2, <2>1 DEF Caller
<1>4. ASSUME NEW k \in 1 .. Len(stack')
      PROVE  FrameOK(stack[k], Caller(stack, k))'
  <2>1. PICK fr2, c2 : fr2 = stack'[k] /\ c2 = Caller(stack', k)
    OBVIOUS
  <2>2. CASE k = 1
    <3>1. fr2 = fr /\ c2 = c
      BY <1>1, <1>2, <1>3, <2>1, <2>2
    <3>2. FrameOK(fr2, c2)'
      BY <3>1
    <3> QED BY <2>1, <3>2
  <2>3. CASE k # 1
    <3>1. k \in 2 .. Len(stack)
      BY <1>1, <1>2, <2>3
    <3>2. fr2 = stack[k] /\ c2 = Caller(stack, k)
      BY <1>2, <1>3, <2>1, <3>1
    <3>3. FrameOK(fr2, c2)'
      BY <3>1, <3>2, BuriedKept
    <3> QED BY <2>1, <3>3
  <2> QED BY <2>2, <2>3
<1> QED BY <1>4 DEF FramesInv

LEMMA FramesCall ==
    ASSUME Plain, TypeOK, WalkInv, FramesInv, UNCHANGED opt, NEW own, Calm(own),
           pc \in Walks, own \in {NoFile, Top.file},
           NEW fr \in FrameType, NEW e \in FrameType, stack' = <<e, fr>> \o Tail(stack),
           NEW c, c = Caller(stack, 1), FrameOK(fr, c)', FrameOK(e, fr.proc)'
    PROVE  FramesInv'
<1>1. /\ stack \in Seq(FrameType) /\ stack # <<>> /\ Len(stack) \in Nat /\ Len(stack) >= 1
  BY WalkFacts
<1>2. /\ Len(stack') = Len(stack) + 1 /\ stack'[1] = e /\ stack'[2] = fr
      /\ \A k \in 3 .. Len(stack) + 1 : stack'[k] = stack[k - 1]
  BY <1>1, StackCall
<1>3. ASSUME NEW k \in 2 .. Len(stack) + 1
      PROVE  Caller(stack', k) = Caller(stack, k - 1)
  <2>1. k < Len(stack) + 1 => k + 1 \in 3 .. Len(stack) + 1 /\ (k + 1) - 1 = (k - 1) + 1
    BY <1>1
  <2>2. k < Len(stack) + 1 <=> k - 1 < Len(stack)
    BY <1>1
  <2>3. k < Len(stack) + 1 => stack'[k + 1] = stack[(k - 1) + 1]
    BY <1>2, <2>1
  <2> QED BY <1>2, <2>2, <2>3 DEF Caller
<1>4. ASSUME NEW k \in 1 .. Len(stack')
      PROVE  FrameOK(stack[k], Caller(stack, k))'
  <2>1. PICK fr2, c2 : fr2 = stack'[k] /\ c2 = Caller(stack', k)
    OBVIOUS
  <2>2. CASE k = 1
    <3>1. fr2 = e /\ c2 = fr.proc
      <4>1. 1 < Len(stack) + 1 /\ 1 + 1 = 2
        BY <1>1
      <4> QED BY <4>1, <1>2, <2>1, <2>2 DEF Caller
    <3>2. FrameOK(fr2, c2)'
      BY <3>1
    <3> QED BY <2>1, <3>2
  <2>3. CASE k = 2
    <3>1. fr2 = fr /\ c2 = c
      <4>1. 2 \in 2 .. Len(stack) + 1 /\ 2 - 1 = 1
        BY <1>1
      <4> QED BY <4>1, <1>2, <1>3, <2>1, <2>3
    <3>2. FrameOK(fr2, c2)'
      BY <3>1
    <3> QED BY <2>1, <3>2
  <2>4. CASE k \notin {1, 2}
    <3>1. k \in 3 .. Len(stack) + 1 /\ k \in 2 .. Len(stack) + 1 /\ k - 1 \in 2 .. Len(stack)
      BY <1>1, <1>2, <2>4
    <3>2. fr2 = stack[k - 1] /\ c2 = Caller(stack, k - 1)
      BY <1>2, <1>3, <2>1, <3>1
    <3>3. FrameOK(fr2, c2)'
      BY <3>1, <3>2, BuriedKept
    <3> QED BY <2>1, <3>3
  <2> QED BY <2>2, <2>3, <2>4
<1> QED BY <1>4 DEF FramesInv

LEMMA FramesReturn ==
    ASSUME Plain, TypeOK, WalkInv, FramesInv, UNCHANGED opt, NEW own, Calm(own),
           pc \in Walks, own \in {NoFile, Top.file}, stack' = Tail(stack)
    PROVE  FramesInv'
<1>1. /\ stack \in Seq(FrameType) /\ stack # <<>> /\ Len(stack) \in Nat /\ Len(stack) >= 1
  BY WalkFacts
<1>2. /\ Len(stack') = Len(stack) - 1
      /\ \A k \in 1 .. Len(stack') : stack'[k] = stack[k + 1]
  BY <1>1, StackReturn
<1>3. ASSUME NEW k \in 1 .. Len(stack')
      PROVE  Caller(stack', k) = Caller(stack, k + 1)
  <2>1. k < Len(stack') => k + 1 \in 1 .. Len(stack')
    BY <1>1, <1>2
  <2>2. k < Len(stack') <=> k + 1 < Len(stack)
    BY <1>1, <1>2
  <2> QED BY <1>2, <2>1, <2>2 DEF Caller
<1>4. ASSUME NEW k \in 1 .. Len(stack')
      PROVE  FrameOK(stack[k], Caller(stack, k))'
  <2>1. PICK fr2, c2 : fr2 = stack'[k] /\ c2 = Caller(stack', k)
    OBVIOUS
  <2>2. k + 1 \in 2 .. Len(stack)
    BY <1>1, <1>2
  <2>3. fr2 = stack[k + 1] /\ c2 = Caller(stack, k + 1)
    BY <1>2, <1>3, <2>1
  <2>4. FrameOK(fr2, c2)'
    BY <2>2, <2>3, BuriedKept
  <2> QED BY <2>1, <2>4
<1> QED BY <1>4 DEF FramesInv

LEMMA FramesSame ==
    ASSUME Plain, TypeOK, WalkInv, FramesInv, UNCHANGED opt, NEW own, Calm(own),
           own = NoFile \/ (pc \in Walks /\ own = Top.file /\ Top.at = "remade"),
           stack' = stack
    PROVE  FramesInv'
<1>1. stack \in Seq(FrameType)
  BY DEF TypeOK
<1>2. ASSUME NEW k \in 1 .. Len(stack')
      PROVE  FrameOK(stack[k], Caller(stack, k))'
  <2>1. PICK fr2, c2 : fr2 = stack'[k] /\ c2 = Caller(stack', k)
    OBVIOUS
  <2>2. stack # <<>> /\ k \in 1 .. Len(stack) /\ fr2 = stack[k] /\ c2 = Caller(stack, k)
    BY <1>1, <2>1 DEF Caller
  <2>3. pc \in Walks
    BY <2>2 DEF WalkInv, ControlInv, Walks
  <2>4. fr2 \in FrameType /\ FrameOK(fr2, c2)
    BY <1>1, <2>2 DEF FramesInv
  <2>5. fr2.file # NoFile
    BY <2>4, FilesAssumption DEF FrameType
  <2>6. CASE k = 1
    <3>1. fr2 = Top
      BY <2>2, <2>3, <2>6, WalkFacts
    <3>2. FrameOK(fr2, c2)'
      BY <2>4, <2>5, <3>1, FrameKept DEF Scanning, Second
    <3> QED BY <2>1, <3>2
  <2>7. CASE k # 1
    <3>1. k \in 2 .. Len(stack)
      BY <2>2, <2>7
    <3>2. own \in {NoFile, Top.file}
      OBVIOUS
    <3>3. FrameOK(fr2, c2)'
      BY <2>2, <2>3, <3>1, <3>2, BuriedKept
    <3> QED BY <2>1, <3>3
  <2> QED BY <2>6, <2>7
<1> QED BY <1>2 DEF FramesInv

\* A file that is being gone through, in the frame of update_file
Backed(g) ==
    \E k \in DOMAIN stack : stack[k].file = g /\ stack[k].proc = Update /\ stack[k].at = "back"

LEMMA BackedKept ==
    ASSUME Plain, TypeOK, WalkInv, pc \in Walks, NEW g, Backed(g),
           ~(Top.proc = Update /\ Top.at = "back" /\ Top.file = g),
           \/ stack' = Tail(stack)
           \/ \E fr \in FrameType : stack' = <<fr>> \o Tail(stack)
           \/ \E e, fr \in FrameType : stack' = <<e, fr>> \o Tail(stack)
    PROVE  Backed(g)'
<1>1. /\ stack \in Seq(FrameType) /\ stack # <<>> /\ Len(stack) \in Nat /\ Len(stack) >= 1
      /\ Top = stack[1] /\ DOMAIN stack = 1 .. Len(stack)
  BY WalkFacts
<1>2. PICK k \in 1 .. Len(stack) :
         stack[k].file = g /\ stack[k].proc = Update /\ stack[k].at = "back"
  BY <1>1 DEF Backed
<1>3. k \in 2 .. Len(stack)
  BY <1>1, <1>2
<1>4. CASE stack' = Tail(stack)
  <2>1. /\ stack' \in Seq(FrameType) /\ Len(stack') = Len(stack) - 1
        /\ \A j \in 1 .. Len(stack') : stack'[j] = stack[j + 1]
    BY <1>1, <1>4, StackReturn
  <2>2. k - 1 \in 1 .. Len(stack') /\ (k - 1) + 1 = k /\ DOMAIN stack' = 1 .. Len(stack')
    BY <1>1, <1>3, <2>1
  <2>3. stack'[k - 1] = stack[k]
    BY <2>1, <2>2
  <2> QED BY <1>2, <2>2, <2>3 DEF Backed
<1>5. CASE \E fr \in FrameType : stack' = <<fr>> \o Tail(stack)
  <2>0. PICK fr \in FrameType : stack' = <<fr>> \o Tail(stack)
    BY <1>5
  <2>1. /\ stack' \in Seq(FrameType) /\ Len(stack') = Len(stack)
        /\ \A j \in 2 .. Len(stack) : stack'[j] = stack[j]
    <3>1. stack \in Seq(FrameType) /\ stack # <<>>
      BY <1>1
    <3>2. PICK t : t = <<fr>> \o Tail(stack)
      OBVIOUS
    <3>3. t \in Seq(FrameType) /\ Len(t) = Len(stack) /\ \A j \in 2 .. Len(stack) : t[j] = stack[j]
      BY <3>1, <3>2, StackContinue
    <3> QED BY <2>0, <3>2, <3>3
  <2>2. k \in DOMAIN stack' /\ stack'[k] = stack[k]
    BY <1>3, <2>1
  <2> QED BY <1>2, <2>2 DEF Backed
<1>6. CASE \E e, fr \in FrameType : stack' = <<e, fr>> \o Tail(stack)
  <2>0. PICK e \in FrameType, fr \in FrameType : stack' = <<e, fr>> \o Tail(stack)
    BY <1>6
  <2>1. /\ stack' \in Seq(FrameType) /\ Len(stack') = Len(stack) + 1
        /\ \A j \in 3 .. Len(stack) + 1 : stack'[j] = stack[j - 1]
    <3>1. stack \in Seq(FrameType) /\ stack # <<>>
      BY <1>1
    <3>2. PICK t : t = <<e, fr>> \o Tail(stack)
      OBVIOUS
    <3>3. /\ t \in Seq(FrameType) /\ Len(t) = Len(stack) + 1
          /\ \A j \in 3 .. Len(stack) + 1 : t[j] = stack[j - 1]
      BY <3>1, <3>2, StackCall
    <3> QED BY <2>0, <3>2, <3>3
  <2>2. k + 1 \in 3 .. Len(stack) + 1 /\ (k + 1) - 1 = k
    BY <1>1, <1>3
  <2>3. stack'[k + 1] = stack[k]
    BY <2>1, <2>2
  <2>4. k + 1 \in DOMAIN stack'
    <3>1. DOMAIN stack' = 1 .. Len(stack')
      BY <2>1
    <3>2. Len(stack') = Len(stack) + 1 /\ Len(stack) \in Nat /\ k \in 2 .. Len(stack)
      BY <1>1, <1>3, <2>1
    <3>3. k + 1 \in 1 .. Len(stack) + 1
      BY <3>2
    <3> QED BY <3>1, <3>2, <3>3
  <2> QED BY <1>2, <2>3, <2>4 DEF Backed
<1> QED BY <1>4, <1>5, <1>6

--------------------------------------------------------------------------------
(* Steps of the walk *)

\* The call that goes on has learned something, or has only moved on.
LEMMA CloseContinue ==
    ASSUME Plain, TypeOK, WalkInv, BuildInv, Builds, pc = "walk", Top.proc # Update,
           NEW fr \in FrameType, Continue(fr), fr.at \in {"deps", "inter"},
           ~opt.keep_going => fr.dep_status = us_success,
           UNCHANGED <<opt, update_status>>,
           \A g \in Files : FileOK(g)', Calm(NoFile),
           \A g \in considered' :
              g \in considered /\ (command_state[g] \in Busy => command_state'[g] \in Busy),
           NEW c, c = Caller(stack, 1), FrameOK(fr, c)'
    PROVE  BuildInv'
<1>1. /\ pc' = "walk" /\ ret' = ret /\ stack' = <<fr>> \o Tail(stack)
      /\ stack \in Seq(FrameType) /\ stack # <<>> /\ Len(stack) \in Nat /\ Len(stack) >= 1
      /\ pc \in Walks /\ ~Over
  BY WalkFacts DEF Continue, Walks, Over
<1>2. /\ stack' \in Seq(FrameType) /\ stack' # <<>> /\ Len(stack') = Len(stack)
      /\ Head(stack') = fr /\ stack'[1] = fr
      /\ \A k \in 2 .. Len(stack) : stack'[k] = stack[k]
  <2>1. PICK t : t = <<fr>> \o Tail(stack)
    OBVIOUS
  <2>2. /\ t \in Seq(FrameType) /\ t # <<>> /\ Len(t) = Len(stack) /\ Head(t) = fr /\ t[1] = fr
        /\ \A k \in 2 .. Len(stack) : t[k] = stack[k]
    BY <1>1, <2>1, StackContinue
  <2> QED BY <1>1, <2>1, <2>2
<1>3. FilesInv'
  BY DEF FilesInv, FileOK
<1>4. NoFailure'
  <2>1. SUFFICES ASSUME ~opt.keep_going
                 PROVE  /\ \A f \in Files : update_status'[f] \in {us_success, us_none}
                        /\ \A k \in DOMAIN stack' : stack'[k].dep_status = us_success
                        /\ ret'.status = us_success
    BY DEF NoFailure
  <2>2. /\ \A f \in Files : update_status[f] \in {us_success, us_none}
        /\ \A k \in DOMAIN stack : stack[k].dep_status = us_success
        /\ ret.status = us_success
    BY <1>1, <2>1 DEF BuildInv, NoFailure
  <2>3. DOMAIN stack' = 1 .. Len(stack) /\ DOMAIN stack = 1 .. Len(stack)
    BY <1>1, <1>2
  <2>4. ASSUME NEW k \in 1 .. Len(stack) PROVE stack'[k].dep_status = us_success
    <3>1. CASE k = 1
      BY <1>2, <2>1, <3>1
    <3>2. CASE k # 1
      <4>1. k \in 2 .. Len(stack)
        BY <1>1, <3>2
      <4> QED BY <1>2, <2>2, <2>3, <4>1
    <3> QED BY <3>1, <3>2
  <2> QED BY <1>1, <2>2, <2>3, <2>4
<1>5. ConsideredInv'
  <2>1. ASSUME NEW g \in considered'
        PROVE  g \in updated' \/ command_state'[g] \in Busy \/ Backed(g)'
    <3>1. g \in considered /\ (command_state[g] \in Busy => command_state'[g] \in Busy) /\ g \in Files
      BY <2>1 DEF TypeOK
    <3>2. g \in updated \/ command_state[g] \in Busy \/ Backed(g)
      BY <1>1, <3>1 DEF BuildInv, ConsideredInv, Backed
    <3>3. g \in updated => g \in updated'
      BY <3>1 DEF Calm, CalmAt
    <3>4. Backed(g) => Backed(g)'
      BY <1>1, BackedKept
    <3> QED BY <3>1, <3>2, <3>3, <3>4
  <2> QED BY <2>1 DEF ConsideredInv, Backed
<1>6. FramesInv'
  BY <1>1, FramesContinue DEF BuildInv
<1>7. TopInv'
  <2>1. Top' = fr
    BY <1>2 DEF Top
  <2> QED BY <1>1, <2>1 DEF TopInv
<1> QED BY <1>3, <1>4, <1>5, <1>6, <1>7 DEF BuildInv

\* A call is made.
LEMMA CloseCall ==
    ASSUME Plain, TypeOK, WalkInv, BuildInv, Builds, pc = "walk",
           Top.proc = Update => Top.at = "enter",
           NEW fr \in FrameType, NEW e \in FrameType, Call(e, fr),
           e.at = "enter", e.dep_status = us_success, fr.dep_status = Top.dep_status,
           UNCHANGED <<opt, update_status, command_state>>,
           \A g \in Files : FileOK(g)', Calm(NoFile),
           \A g \in considered' :
              g \in considered \/ (g = fr.file /\ fr.proc = Update /\ fr.at = "back"),
           e.proc = Update /\ fr.at = "inter_back" => e.file \notin considered',
           NEW c, c = Caller(stack, 1), FrameOK(fr, c)', FrameOK(e, fr.proc)'
    PROVE  BuildInv'
<1>1. /\ pc' = "walk" /\ ret' = ret /\ stack' = <<e, fr>> \o Tail(stack)
      /\ stack \in Seq(FrameType) /\ stack # <<>> /\ Len(stack) \in Nat /\ Len(stack) >= 1
      /\ pc \in Walks /\ ~Over /\ Top = stack[1]
  BY WalkFacts DEF Call, Walks, Over
<1>2. /\ stack' \in Seq(FrameType) /\ stack' # <<>> /\ Len(stack') = Len(stack) + 1
      /\ Head(stack') = e /\ stack'[1] = e /\ stack'[2] = fr
      /\ \A k \in 3 .. Len(stack) + 1 : stack'[k] = stack[k - 1]
  <2>1. PICK t : t = <<e, fr>> \o Tail(stack)
    OBVIOUS
  <2>2. /\ t \in Seq(FrameType) /\ t # <<>> /\ Len(t) = Len(stack) + 1 /\ Head(t) = e
        /\ t[1] = e /\ t[2] = fr
        /\ \A k \in 3 .. Len(stack) + 1 : t[k] = stack[k - 1]
    BY <1>1, <2>1, StackCall
  <2> QED BY <1>1, <2>1, <2>2
<1>8. DOMAIN stack' = 1 .. Len(stack) + 1 /\ DOMAIN stack = 1 .. Len(stack)
  BY <1>1, <1>2
<1>3. FilesInv'
  BY DEF FilesInv, FileOK
<1>4. NoFailure'
  <2>1. SUFFICES ASSUME ~opt.keep_going
                 PROVE  /\ \A f \in Files : update_status'[f] \in {us_success, us_none}
                        /\ \A k \in DOMAIN stack' : stack'[k].dep_status = us_success
                        /\ ret'.status = us_success
    BY DEF NoFailure
  <2>2. /\ \A f \in Files : update_status[f] \in {us_success, us_none}
        /\ \A k \in DOMAIN stack : stack[k].dep_status = us_success
        /\ ret.status = us_success
    BY <1>1, <2>1 DEF BuildInv, NoFailure
  <2>4. ASSUME NEW k \in 1 .. Len(stack) + 1 PROVE stack'[k].dep_status = us_success
    <3>1. CASE k = 1
      BY <1>2, <3>1
    <3>2. CASE k = 2
      <4>1. 1 \in 1 .. Len(stack)
        BY <1>1
      <4>2. Top.dep_status = us_success
        BY <1>1, <1>8, <2>2, <4>1
      <4> QED BY <1>2, <3>2, <4>2
    <3>3. CASE k \notin {1, 2}
      <4>1. k \in 3 .. Len(stack) + 1 /\ k - 1 \in 1 .. Len(stack)
        BY <1>1, <3>3
      <4> QED BY <1>2, <1>8, <2>2, <4>1
    <3> QED BY <3>1, <3>2, <3>3
  <2> QED BY <1>1, <1>8, <2>2, <2>4
<1>5. ConsideredInv'
  <2>1. ASSUME NEW g \in considered'
        PROVE  g \in updated' \/ command_state'[g] \in Busy \/ Backed(g)'
    <3>1. CASE g \in considered
      <4>1. g \in Files
        BY <3>1 DEF TypeOK
      <4>2. g \in updated \/ command_state[g] \in Busy \/ Backed(g)
        BY <1>1, <3>1 DEF BuildInv, ConsideredInv, Backed
      <4>3. g \in updated => g \in updated'
        BY <4>1 DEF Calm, CalmAt
      <4>4. Backed(g) => Backed(g)'
        BY <1>1, BackedKept
      <4> QED BY <4>2, <4>3, <4>4
    <3>2. CASE g = fr.file /\ fr.proc = Update /\ fr.at = "back"
      <4>1. 2 \in DOMAIN stack' /\ stack'[2] = fr
        BY <1>1, <1>2, <1>8
      <4> QED BY <3>2, <4>1 DEF Backed
    <3> QED BY <3>1, <3>2
  <2> QED BY <2>1 DEF ConsideredInv, Backed
<1>6. FramesInv'
  BY <1>1, FramesCall DEF BuildInv
<1>7. TopInv'
  <2>1. Top' = e /\ stack'[2] = fr
    BY <1>2 DEF Top
  <2> QED BY <1>1, <2>1 DEF TopInv
<1> QED BY <1>3, <1>4, <1>5, <1>6, <1>7 DEF BuildInv

\* Who has made the innermost call
LEMMA CalledFrom ==
    ASSUME Plain, TypeOK, WalkInv, pc \in Walks, Len(stack) # 1
    PROVE  /\ 2 \in 1 .. Len(stack) /\ stack[2] \in FrameType /\ Called(Top, stack[2])
           /\ Below(Top, stack[2]) /\ FrameShape(stack[2])
           /\ stack[2].at \in {"back", "updated", "inter_back", "dep_back"}
           /\ Caller(stack, 1) = stack[2].proc
           /\ Top.proc \in {Update, Update1, Check} /\ stack[2].proc \in {Update, Update1, Check}
<1>1. /\ stack \in Seq(FrameType) /\ stack # <<>> /\ Len(stack) \in Nat /\ Len(stack) >= 1
      /\ Top = stack[1] /\ Shape(stack) /\ Top \in FrameType
  BY WalkFacts
<1>2. 2 \in 2 .. Len(stack) /\ 2 - 1 = 1 /\ 2 \in 1 .. Len(stack) /\ 1 < Len(stack) /\ 1 + 1 = 2
  <2>1. PICK n \in Nat : n = Len(stack) /\ n >= 1 /\ n # 1
    BY <1>1
  <2>2. 2 \in 2 .. n /\ 2 - 1 = 1 /\ 2 \in 1 .. n /\ 1 < n /\ 1 + 1 = 2
    BY <2>1
  <2> QED BY <2>1, <2>2
<1>3. /\ stack[2] \in FrameType /\ Called(stack[1], stack[2]) /\ Below(Top, stack[2])
      /\ stack[2].at \in {"back", "updated", "inter_back", "dep_back"}
  BY <1>2, Buried
<1>4. FrameShape(stack[2])
  BY <1>1, <1>2 DEF Shape
<1>5. Caller(stack, 1) = stack[2].proc
  BY <1>2 DEF Caller
<1>6. Top.proc \in {Update, Update1, Check} /\ stack[2].proc \in {Update, Update1, Check}
  BY <1>1, <1>3 DEF FrameType, Update, Update1, Check
<1> QED BY <1>1, <1>2, <1>3, <1>4, <1>5, <1>6

\* A call returns, with an answer that its caller can rely on.
LEMMA CloseReturn ==
    ASSUME Plain, TypeOK, WalkInv, BuildInv, Builds, pc = "walk",
           NEW result, NEW must_make, Return(result, must_make), UNCHANGED opt,
           ~opt.keep_going =>
              /\ result = us_success
              /\ \A g \in Files : update_status'[g] \in {us_success, us_none},
           \A g \in Files : FileOK(g)', NEW own, Calm(own), own \in {NoFile, Top.file},
           \A g \in considered' :
              /\ g \in considered
              /\ command_state[g] \in Busy => g \in updated' \/ command_state'[g] \in Busy,
           NEW d, d = Top.file,
           Top.proc # Check /\ Len(stack) # 1 => Answered(d)',
           Top.proc = Check /\ Caller(stack, 1) = Update1 => Learned(d)',
           Top.at = "back" => d \in updated' \/ command_state'[d] \in Busy
    PROVE  BuildInv'
<1>1. /\ ret' = [status |-> result, must_make |-> must_make] /\ stack' = Tail(stack)
      /\ pc' = IF Len(stack) = 1 THEN "goal_back" ELSE "walk"
      /\ stack \in Seq(FrameType) /\ stack # <<>> /\ Len(stack) \in Nat /\ Len(stack) >= 1
      /\ pc \in Walks /\ ~Over /\ Top = stack[1]
  BY WalkFacts DEF Return, Walks, Over
<1>2. /\ stack' \in Seq(FrameType) /\ Len(stack') = Len(stack) - 1 /\ Len(stack') \in Nat
      /\ \A k \in 1 .. Len(stack') : stack'[k] = stack[k + 1]
      /\ stack' # <<>> <=> Len(stack) # 1
      /\ stack' # <<>> => Head(stack') = stack[2] /\ stack'[1] = stack[2]
  BY <1>1, StackReturn
<1>3. FilesInv'
  BY DEF FilesInv, FileOK
<1>4. NoFailure'
  <2>1. SUFFICES ASSUME ~opt.keep_going
                 PROVE  /\ \A f \in Files : update_status'[f] \in {us_success, us_none}
                        /\ \A k \in DOMAIN stack' : stack'[k].dep_status = us_success
                        /\ ret'.status = us_success
    BY DEF NoFailure
  <2>2. \A k \in DOMAIN stack : stack[k].dep_status = us_success
    BY <1>1, <2>1 DEF BuildInv, NoFailure
  <2>3. DOMAIN stack' = 1 .. Len(stack') /\ DOMAIN stack = 1 .. Len(stack)
    BY <1>1, <1>2
  <2>4. ASSUME NEW k \in 1 .. Len(stack') PROVE stack'[k].dep_status = us_success
    <3>1. k + 1 \in 1 .. Len(stack)
      BY <1>1, <1>2
    <3> QED BY <1>2, <2>2, <2>3, <3>1
  <2> QED BY <1>1, <2>1, <2>3, <2>4
<1>5. ConsideredInv'
  <2>1. ASSUME NEW g \in considered'
        PROVE  g \in updated' \/ command_state'[g] \in Busy \/ Backed(g)'
    <3>1. /\ g \in considered /\ g \in Files
          /\ command_state[g] \in Busy => g \in updated' \/ command_state'[g] \in Busy
      BY <2>1 DEF TypeOK
    <3>2. g \in updated \/ command_state[g] \in Busy \/ Backed(g)
      BY <1>1, <3>1 DEF BuildInv, ConsideredInv, Backed
    <3>3. g \in updated => g \in updated'
      BY <3>1 DEF Calm, CalmAt
    <3>4. Backed(g) => Backed(g)' \/ (Top.at = "back" /\ Top.file = g)
      BY <1>1, BackedKept
    <3> QED BY <3>1, <3>2, <3>3, <3>4
  <2> QED BY <2>1 DEF ConsideredInv, Backed
<1>6. FramesInv'
  BY <1>1, FramesReturn DEF BuildInv
<1>7. TopInv'
  <2>1. CASE Len(stack) = 1
    BY <1>1, <2>1 DEF TopInv
  <2>2. CASE Len(stack) # 1
    <3>1. pc' = "walk" /\ Top' = stack[2]
      BY <1>1, <1>2, <2>2 DEF Top
    <3>2. /\ stack[2] \in FrameType /\ Called(Top, stack[2]) /\ FrameShape(stack[2])
          /\ stack[2].at \in {"back", "updated", "inter_back", "dep_back"}
          /\ Caller(stack, 1) = stack[2].proc
          /\ Top.proc \in {Update, Update1, Check} /\ stack[2].proc \in {Update, Update1, Check}
      BY <1>1, <2>2, CalledFrom
    <3>3. Top'.at \in {"back", "updated"} => Answered(Top.file)'
      <4>1. PICK e : e = Top'.file
        OBVIOUS
      <4>2. ASSUME Top'.at \in {"back", "updated"} PROVE e = d /\ Top.proc # Check
        BY <3>1, <3>2, <4>1, <4>2 DEF Called, Update, Update1, Check, FrameShape
      <4>3. Top'.at \in {"back", "updated"} => Answered(e)'
        BY <2>2, <4>2
      <4> QED BY <4>1, <4>3
    <3>4. Top'.at = "inter_back" => Answered(Dep(Top.du).file)'
      <4>1. PICK e : e = Dep(Top'.du).file
        OBVIOUS
      <4>2. ASSUME Top'.at = "inter_back" PROVE e = d /\ Top.proc # Check
        BY <3>1, <3>2, <4>1, <4>2 DEF Called, Update, Update1, Check, FrameShape
      <4>3. Top'.at = "inter_back" => Answered(e)'
        BY <2>2, <4>2
      <4> QED BY <4>1, <4>3
    <3>5. Top'.proc = Update1 /\ Top'.at = "dep_back" => Learned(Dep(Top.du).file)'
      <4>1. PICK e : e = Dep(Top'.du).file
        OBVIOUS
      <4>2. ASSUME Top'.proc = Update1 /\ Top'.at = "dep_back"
            PROVE  e = d /\ Top.proc = Check /\ Caller(stack, 1) = Update1
        BY <3>1, <3>2, <4>1, <4>2 DEF Called, Update, Update1, Check, FrameShape
      <4>3. Top'.proc = Update1 /\ Top'.at = "dep_back" => Learned(e)'
        BY <4>2
      <4> QED BY <4>1, <4>3
    <3>6. Top'.at \notin {"remade", "enter"}
      BY <3>1, <3>2
    <3> QED BY <3>1, <3>3, <3>4, <3>5, <3>6 DEF TopInv
  <2> QED BY <2>1, <2>2
<1> QED BY <1>3, <1>4, <1>5, <1>6, <1>7 DEF BuildInv

\* Nothing is under way.
LEMMA CloseIdle ==
    ASSUME Plain, TypeOK, WalkInv, BuildInv, Builds, UNCHANGED opt,
           pc \notin Walks, pc' \notin Walks, stack' = stack, pc # "exit",
           pc # "end" \/ pc' \in {"end", "exit"},
           pc' \notin {"end", "exit"} =>
              UNCHANGED ret /\ (~opt.keep_going =>
                                   \A g \in Files : update_status'[g] \in {us_success, us_none}),
           \A g \in considered' :
              /\ g \in considered
              /\ command_state[g] \in Busy => g \in updated' \/ command_state'[g] \in Busy,
           pc' # "exit" => (\A g \in Files : FileOK(g)'), Calm(NoFile) \/ pc' = "exit"
    PROVE  BuildInv'
<1>1. stack = <<>> /\ stack' = <<>>
  BY DEF WalkInv, ControlInv, Walks
<1>2. FilesInv'
  BY DEF FilesInv, FileOK
<1>3. NoFailure'
  <2>1. ASSUME ~Over', ~opt'.keep_going
        PROVE  /\ \A f \in Files : update_status'[f] \in {us_success, us_none}
               /\ \A k \in DOMAIN stack' : stack'[k].dep_status = us_success
               /\ ret'.status = us_success
    <3>1. ~Over /\ pc' \notin {"end", "exit"} /\ ~opt.keep_going
      BY <2>1 DEF Over
    <3>2. ret.status = us_success
      BY <3>1 DEF BuildInv, NoFailure
    <3> QED BY <1>1, <3>1, <3>2
  <2> QED BY <2>1 DEF NoFailure
<1>4. ConsideredInv'
  <2>1. ASSUME ~Over', NEW g \in considered'
        PROVE  g \in updated' \/ command_state'[g] \in Busy
    <3>1. /\ g \in considered /\ g \in Files /\ ~Over /\ pc' # "exit"
          /\ command_state[g] \in Busy => g \in updated' \/ command_state'[g] \in Busy
      BY <2>1 DEF TypeOK, Over
    <3>2. g \in updated \/ command_state[g] \in Busy
      BY <1>1, <3>1 DEF BuildInv, ConsideredInv
    <3>3. g \in updated => g \in updated'
      BY <3>1 DEF Calm, CalmAt
    <3> QED BY <3>1, <3>2, <3>3
  <2> QED BY <2>1 DEF ConsideredInv
<1>5. FramesInv'
  BY <1>1 DEF FramesInv
<1>6. TopInv'
  BY DEF TopInv, Walks
<1> QED BY <1>2, <1>3, <1>4, <1>5, <1>6 DEF BuildInv

\* make gives up.
LEMMA CloseDie ==
    ASSUME Die, \A g \in Files : FileOK(g)'
    PROVE  BuildInv'
<1>1. pc' = "end" /\ stack' = <<>>
  BY DEF Die
<1>2. FilesInv'
  BY DEF FilesInv, FileOK
<1>3. FramesInv'
  BY <1>1 DEF FramesInv
<1> QED BY <1>1, <1>2, <1>3 DEF BuildInv, NoFailure, ConsideredInv, TopInv, Over

--------------------------------------------------------------------------------
(* update_file *)

LEMMA LookKeeps ==
    ASSUME Plain, TypeOK, \A g \in Files : FileOK(g), NEW F, F \subseteq Files,
           Look(F) \/ UNCHANGED timeVars, UNCHANGED <<disk, job, stateVars>>
    PROVE  (\A g \in Files : FileOK(g)') /\ Calm(NoFile)
<1>1. CASE Files = {}
  BY <1>1 DEF Calm
<1>2. CASE Files # {}
  <2>1. PICK f \in Files : TRUE
    BY <1>2
  <2>2. Moved(f) /\ UNCHANGED <<disk, job, updated, update_status>>
    BY DEF Moved, stateVars
  <2>3. CASE Look(F)
    BY <2>1, <2>2, <2>3, PeekKeeps DEF Peeked, Look
  <2>4. CASE UNCHANGED timeVars
    <3>1. {} \subseteq Files
      OBVIOUS
    <3>2. Seen({}) = last_mtime /\ Found({}) = intermediate
      <4>1. last_mtime \in [Files -> Times]
        BY DEF TypeOK
      <4>2. Seen({}) = [g \in Files |-> last_mtime[g]]
        BY <3>1, LookPlain
      <4>3. Found({}) = intermediate
        BY <3>1, LookPlain
      <4> QED BY <4>1, <4>2, <4>3
    <3>3. Peeked({})
      BY <2>2, <2>4, <3>2 DEF Peeked, timeVars
    <3> QED BY <2>1, <2>2, <3>1, <3>3, PeekKeeps
  <2> QED BY <2>3, <2>4
<1> QED BY <1>1, <1>2

\* What BuildInv says of the moment
LEMMA Known ==
    ASSUME Plain, TypeOK, WalkInv, BuildInv, pc \in Walks
    PROVE  /\ \A g \in Files : FileOK(g)
           /\ FrameOK(Top, Caller(stack, 1)) /\ Top \in FrameType /\ Top.file \in Files
           /\ Top.proc \in {Update, Update1, Check}
           /\ ~Over
           /\ ~opt.keep_going =>
                 /\ Top.dep_status = us_success /\ ret.status = us_success
                 /\ \A g \in Files : update_status[g] \in {us_success, us_none}
<1>1. ~Over
  BY DEF Over, Walks
<1>2. \A g \in Files : FileOK(g)
  BY <1>1 DEF BuildInv, FilesInv, FileOK, Over
<1>3. /\ Top = stack[1] /\ Top \in FrameType /\ Top.file \in Files /\ 1 \in DOMAIN stack
      /\ 1 \in 1 .. Len(stack)
  BY WalkFacts
<1>4. FrameOK(Top, Caller(stack, 1))
  BY <1>3 DEF BuildInv, FramesInv
<1>5. Top.proc \in {Update, Update1, Check}
  BY <1>3 DEF FrameType, Update, Update1, Check
<1> QED BY <1>1, <1>2, <1>3, <1>4, <1>5 DEF BuildInv, NoFailure

\* A file that has been considered in this round and is asked for again is not being gone
\* through: the walk would have come back to it.
LEMMA NotAgain ==
    ASSUME Plain, TypeOK, WalkInv, BuildInv, pc = "walk", Top.proc = Update, Top.at = "enter",
           Top.file \in considered, Len(stack) # 1
    PROVE  /\ ~Backed(Top.file) /\ stack[2].proc = Check /\ stack[2].at = "updated"
           /\ stack[2].file = Top.file
<1>0. pc \in Walks
  BY DEF Walks
<1>1. /\ Len(stack) \in Nat /\ Len(stack) >= 1 /\ Top = stack[1] /\ Shape(stack)
      /\ DOMAIN stack = 1 .. Len(stack) /\ \A k \in 1 .. Len(stack) : stack[k] \in FrameType
      /\ stack # <<>>
  BY <1>0, WalkFacts
<1>2. /\ 2 \in 1 .. Len(stack) /\ stack[2] \in FrameType /\ Called(Top, stack[2])
      /\ stack[2].at \in {"back", "updated", "inter_back", "dep_back"}
  BY <1>0, CalledFrom
<1>3. stack[2].at # "inter_back"
  <2>1. Len(stack) > 1
    BY <1>1
  <2> QED BY <2>1 DEF BuildInv, TopInv
<1>4. stack[2].proc = Check /\ stack[2].at = "updated" /\ stack[2].file = Top.file
  BY <1>2, <1>3 DEF Called, Update, Update1, Check
<1>5. ASSUME NEW k \in 1 .. Len(stack),
             stack[k].file = Top.file, stack[k].proc = Update, stack[k].at = "back"
      PROVE  FALSE
  <2>1. k # 1 /\ k # 2
    BY <1>1, <1>4, <1>5 DEF Update, Check
  <2>2. PICK n \in Nat : n = Len(stack)
    BY <1>1
  <2>3. k \in 3 .. n /\ 3 \in 2 .. n /\ 3 - 1 = 2 /\ 3 \in 1 .. n
    BY <2>1, <2>2
  <2>4. stack[3] \in FrameType /\ Called(stack[2], stack[3])
    BY <1>0, <2>2, <2>3, Buried
  <2>5. stack[3].proc \in {Update1, Check} /\ stack[3].at = "dep_back"
    BY <1>4, <2>4 DEF Called, Update, Update1, Check
  <2>6. k # 3
    BY <1>5, <2>5
  <2>7. 3 < k /\ 2 < 3
    BY <2>3, <2>6
  <2>8. Below(stack[2], stack[3]) /\ Below(stack[3], stack[k])
    BY <1>1, <1>2, <2>2, <2>3, <2>7 DEF Shape
  <2>9. Level[stack[2].file] < Level[stack[3].file] /\ Level[stack[3].file] <= Level[stack[k].file]
    BY <2>5, <2>8 DEF Below
  <2>10. /\ Level[stack[2].file] \in Nat /\ Level[stack[3].file] \in Nat
         /\ Level[stack[k].file] \in Nat
    BY <1>1, <1>2, <2>4, LevelTypes
  <2> QED BY <1>4, <1>5, <2>9, <2>10
<1> QED BY <1>1, <1>4, <1>5 DEF Backed

LEMMA PrunedBuild ==
    ASSUME Plain, TypeOK, WalkInv, BuildInv, Builds, Pruned
    PROVE  BuildInv'
<1>0. /\ pc = "walk" /\ pc \in Walks /\ Top.proc = Update /\ Top.at = "enter"
      /\ Name(Top.file) \in considered
  BY DEF Pruned, At, Walks, Update
<1>1. /\ \A g \in Files : FileOK(g)
      /\ Top.file \in Files /\ ~Over
      /\ ~opt.keep_going => \A g \in Files : update_status[g] \in {us_success, us_none}
  BY <1>0, Known
<1>2. Name(Top.file) = Top.file
  BY <1>1, PlainFiles
<1>3. PICK d, result :
         /\ d = Top.file
         /\ result = IF command_state[d] = "finished" THEN update_status[d] ELSE us_success
         /\ Return(result, FALSE)
  BY <1>2 DEF Pruned
<1>4. UNCHANGED <<worldVars, fileVars>>
  BY DEF Pruned
<1>5. (\A g \in Files : FileOK(g)') /\ Calm(NoFile)
  <2>1. {} \subseteq Files
    OBVIOUS
  <2>2. UNCHANGED timeVars /\ UNCHANGED <<disk, job, stateVars>>
    BY <1>4 DEF worldVars, fileVars
  <2> QED BY <1>1, <2>1, <2>2, LookKeeps
<1>6. UNCHANGED <<opt, update_status, command_state, updated, considered, last_mtime, intermediate>>
  BY <1>4 DEF worldVars, fileVars, stateVars, walkVars, timeVars
<1>7. StatesAgree(d) /\ d \in considered
  BY <1>0, <1>1, <1>2, <1>3 DEF FileOK
<1>8. ~opt.keep_going => result = us_success
  BY <1>1, <1>3, <1>7 DEF StatesAgree
<1>9. ASSUME Len(stack) # 1 PROVE Answered(d)'
  <2>1. ~Backed(d) /\ stack[2].proc = Check /\ stack[2].at = "updated" /\ stack[2].file = d
    BY <1>0, <1>3, <1>7, <1>9, NotAgain
  <2>2. d \in updated \/ command_state[d] \in Busy
    BY <1>1, <1>7, <2>1 DEF BuildInv, ConsideredInv, Backed
  <2>3. d \in Phony \/ d \notin intermediate
    <3>1. 2 \in 1 .. Len(stack)
      BY <1>0, <1>9, CalledFrom
    <3>2. CheckOK(stack[2], Caller(stack, 2))
      BY <3>1 DEF BuildInv, FramesInv, FrameOK
    <3> QED BY <2>1, <3>2 DEF CheckOK
  <2>4. ASSUME result = us_success, command_state[d] \notin Busy PROVE Good(d)
    BY <1>3, <1>7, <2>2, <2>3, <2>4 DEF StatesAgree, Good
  <2>5. ret'.status = result
    BY <1>3 DEF Return
  <2> QED BY <1>6, <2>2, <2>4, <2>5 DEF Answered, Good
<1> QED
  BY <1>0, <1>1, <1>3, <1>5, <1>6, <1>8, <1>9, CloseReturn DEF Update, Check

LEMMA UpdateFileBuild ==
    ASSUME Plain, TypeOK, WalkInv, BuildInv, Builds, UpdateFile
    PROVE  BuildInv'
<1>0. pc = "walk" /\ pc \in Walks /\ Top.proc = Update /\ Top.at = "enter"
  BY DEF UpdateFile, At, Walks, Update
<1>1. (\A g \in Files : FileOK(g)) /\ Top.file \in Files /\ Top \in FrameType
  BY <1>0, Known
<1>2. Name(Top.file) = Top.file
  BY <1>1, PlainFiles
<1>3. PICK e, fr :
         /\ e = Frame("update_file_1", Top.file, UNKNOWN_MTIME, FALSE)
         /\ fr = [Top EXCEPT !.file = Top.file, !.at = "back"]
         /\ considered' = considered \cup {Top.file}
         /\ Call(e, fr)
  BY <1>2 DEF UpdateFile, UpdateEntry
<1>4. UNCHANGED <<worldVars, stateVars, timeVars>>
  BY DEF UpdateFile
<1>5. /\ e \in FrameType /\ e.at = "enter" /\ e.dep_status = us_success /\ e.proc = Update1
  BY <1>1, <1>3, FrameTyped, Numbers DEF Frame, Update1
<1>6. /\ fr \in FrameType /\ fr.at = "back" /\ fr.proc = Update /\ fr.file = Top.file
      /\ fr.dep_status = Top.dep_status
  BY <1>0, <1>1, <1>3 DEF FrameType, Places
<1>7. (\A g \in Files : FileOK(g)') /\ Calm(NoFile)
  <2>1. {} \subseteq Files /\ UNCHANGED timeVars /\ UNCHANGED <<disk, job, stateVars>>
    BY <1>4 DEF worldVars
  <2> QED BY <1>1, <2>1, LookKeeps
<1>8. UNCHANGED <<opt, update_status, command_state>>
  BY <1>4 DEF worldVars, stateVars
<1>9. PICK c : c = Caller(stack, 1)
  OBVIOUS
<1>10. FrameOK(fr, c)' /\ FrameOK(e, fr.proc)'
  BY <1>5, <1>6 DEF FrameOK, OpenOK, ScanOK, SecondOK, WaitOK, CheckOK, Scanning, Second,
                    Update, Update1, Check
<1>11. \A g \in considered' : g \in considered \/ (g = fr.file /\ fr.proc = Update /\ fr.at = "back")
  BY <1>3, <1>6
<1>12. ~(e.proc = Update /\ fr.at = "inter_back")
  BY <1>6
<1> QED BY <1>0, <1>3, <1>5, <1>6, <1>7, <1>8, <1>9, <1>10, <1>11, <1>12, CloseCall

LEMMA EntryUpdatedBuild ==
    ASSUME Plain, TypeOK, WalkInv, BuildInv, Builds, EntryUpdated
    PROVE  BuildInv'
<1>0. /\ pc = "walk" /\ pc \in Walks /\ Top.proc = Update /\ Top.at = "back"
  BY EntryUpdatedPlain DEF Walks
<1>1. /\ \A g \in Files : FileOK(g)
      /\ Top.file \in Files /\ ~Over
      /\ ~opt.keep_going => /\ ret.status = us_success
                            /\ \A g \in Files : update_status[g] \in {us_success, us_none}
  BY <1>0, Known
<1>3. PICK d, result :
         /\ d = Top.file
         /\ result = IF command_state[d] \in Busy /\ (ret.status = us_success \/ opt.keep_going)
                       THEN us_success ELSE ret.status
         /\ Return(result, FALSE)
  BY EntryUpdatedPlain
<1>4. UNCHANGED <<worldVars, fileVars>>
  BY EntryUpdatedPlain
<1>5. (\A g \in Files : FileOK(g)') /\ Calm(NoFile)
  <2>1. {} \subseteq Files
    OBVIOUS
  <2>2. UNCHANGED timeVars /\ UNCHANGED <<disk, job, stateVars>>
    BY <1>4 DEF worldVars, fileVars
  <2> QED BY <1>1, <2>1, <2>2, LookKeeps
<1>6. UNCHANGED <<opt, update_status, command_state, updated, considered, last_mtime, intermediate>>
  BY <1>4 DEF worldVars, fileVars, stateVars, walkVars, timeVars
<1>7. Answered(d)
  BY <1>0, <1>3 DEF BuildInv, TopInv
<1>8. ~opt.keep_going => result = us_success
  BY <1>1, <1>3
<1>9. Answered(d)'
  <2>1. ret'.status = result
    BY <1>3 DEF Return
  <2> QED BY <1>3, <1>6, <1>7, <2>1 DEF Answered, Good
<1>10. d \in updated' \/ command_state'[d] \in Busy
  BY <1>6, <1>7 DEF Answered
<1> QED
  BY <1>0, <1>1, <1>3, <1>5, <1>6, <1>8, <1>9, <1>10, CloseReturn DEF Update, Check

--------------------------------------------------------------------------------
(* update_file_1 *)

\* What a call knows after a step that is about no file in particular
LEMMA FrameCalm ==
    ASSUME Plain, Calm(NoFile), UNCHANGED opt, NEW fr \in FrameType, NEW caller, FrameOK(fr, caller)
    PROVE  FrameOK(fr, caller)'
<1>1. fr.file # NoFile
  BY FilesAssumption DEF FrameType
<1> QED BY <1>1, FrameKept

LEMMA AlreadyDecidedBuild ==
    ASSUME Plain, TypeOK, WalkInv, BuildInv, Builds, AlreadyDecided
    PROVE  BuildInv'
<1>0. /\ pc = "walk" /\ pc \in Walks /\ Top.proc = Update1 /\ Top.at = "enter"
      /\ Decided(Top.file)
  BY DEF AlreadyDecided, At, Walks, Update1
<1>1. /\ \A g \in Files : FileOK(g)
      /\ Top.file \in Files /\ ~Over
      /\ ~opt.keep_going => \A g \in Files : update_status[g] \in {us_success, us_none}
  BY <1>0, Known
<1>3. PICK d, result :
         /\ d = Top.file
         /\ result = IF d \in updated
                        THEN IF update_status[d] > us_none THEN update_status[d] ELSE us_success
                        ELSE IF command_state[d] = "running" THEN us_success ELSE update_status[d]
         /\ Return(result, FALSE)
  BY DEF AlreadyDecided
<1>4. UNCHANGED <<worldVars, fileVars>>
  BY DEF AlreadyDecided
<1>5. (\A g \in Files : FileOK(g)') /\ Calm(NoFile)
  <2>1. {} \subseteq Files
    OBVIOUS
  <2>2. UNCHANGED timeVars /\ UNCHANGED <<disk, job, stateVars>>
    BY <1>4 DEF worldVars, fileVars
  <2> QED BY <1>1, <2>1, <2>2, LookKeeps
<1>6. UNCHANGED <<opt, update_status, command_state, updated, considered, last_mtime, intermediate>>
  BY <1>4 DEF worldVars, fileVars, stateVars, walkVars, timeVars
<1>7. StatesAgree(d) /\ update_status[d] \in {0, 1, 2, 3}
  BY <1>1, <1>3 DEF FileOK, TypeOK, Statuses, us_success, us_failed
<1>8. d \in updated \/ command_state[d] = "running"
  BY <1>0, <1>3, <1>7 DEF Decided, StatesAgree
<1>9. ~opt.keep_going => result = us_success
  <2>1. ~opt.keep_going => update_status[d] \in {us_success, us_none}
    BY <1>1, <1>3
  <2> QED BY <1>3, <1>8, <2>1 DEF us_success, us_none
<1>10. Answered(d)'
  <2>1. ret'.status = result
    BY <1>3 DEF Return
  <2>2. ASSUME result = us_success, command_state[d] \notin Busy PROVE Good(d)
    BY <1>3, <1>7, <1>8, <2>2 DEF StatesAgree, Good, Busy, us_success, us_none
  <2> QED BY <1>6, <1>8, <2>1, <2>2 DEF Answered, Good, Busy
<1> QED
  BY <1>0, <1>1, <1>3, <1>5, <1>6, <1>9, <1>10, CloseReturn DEF Update1, Check

LEMMA ConsiderFileBuild ==
    ASSUME Plain, TypeOK, WalkInv, BuildInv, Builds, ConsiderFile
    PROVE  BuildInv'
<1>0. PICK f, m, fr :
         /\ f = Top.file /\ m = Mtime(f)
         /\ fr = [Top EXCEPT !.at = "deps", !.noexist = (m = NONEXISTENT_MTIME),
                             !.must_make = (m = NONEXISTENT_MTIME),
                             !.this_mtime = m, !.du = first[f]]
         /\ pc = "walk" /\ Top.proc = Update1 /\ Top.at = "enter" /\ f \in Files
         /\ ~Decided(f) /\ Look({f})
         /\ Continue(fr) /\ fr \in FrameType
         /\ UNCHANGED <<worldVars, stateVars, considered>>
  BY ConsiderPlain
<1>1. /\ \A g \in Files : FileOK(g)
      /\ Top \in FrameType /\ pc \in Walks
      /\ ~opt.keep_going => Top.dep_status = us_success
  BY <1>0, Known DEF Walks
<1>2. UNCHANGED <<opt, disk, job, command_state, update_status, updated, considered>>
  BY <1>0 DEF worldVars, stateVars
<1>3. (\A g \in Files : FileOK(g)') /\ Calm(NoFile)
  <2>1. {f} \subseteq Files
    BY <1>0
  <2>2. UNCHANGED <<disk, job, stateVars>>
    BY <1>0 DEF worldVars
  <2> QED BY <1>0, <1>1, <2>1, <2>2, LookKeeps
<1>4. /\ fr.proc = Update1 /\ fr.at = "deps" /\ fr.file = f /\ fr.du = first[f]
      /\ fr.noexist = (m = NONEXISTENT_MTIME) /\ fr.must_make = (m = NONEXISTENT_MTIME)
      /\ fr.dep_status = Top.dep_status
  BY <1>0, <1>1 DEF FrameType
<1>5. last_mtime'[f] = m /\ m # UNKNOWN_MTIME
  <2>1. Seen({f}) = [g \in Files |-> IF g \in {f} /\ last_mtime[g] = UNKNOWN_MTIME
                                       THEN disk[g] ELSE last_mtime[g]]
    BY <1>0, LookPlain
  <2>2. m = (IF last_mtime[f] = UNKNOWN_MTIME THEN disk[f] ELSE last_mtime[f]) /\ m # UNKNOWN_MTIME
    BY <1>0, MtimeType
  <2> QED BY <1>0, <2>1, <2>2 DEF Look
<1>6. Fresh(f)
  <2>1. StatesAgree(f) /\ job[f] \in {"none", "running", "ok", "fail", "reaped"}
    BY <1>0, <1>1 DEF FileOK, TypeOK
  <2> QED BY <1>0, <2>1 DEF StatesAgree, Decided, Active, Fresh
<1>7. OpenOK(fr)'
  <2>1. Fresh(f)' /\ Looked(f)'
    BY <1>2, <1>5, <1>6 DEF Fresh, Looked
  <2>2. ASSUME f \in intermediate' PROVE m = NONEXISTENT_MTIME
    <3>1. MadeOnTheWay(f)'
      BY <1>0, <1>3 DEF FileOK
    <3>2. Unmade(f)' /\ f \notin updated'
      BY <2>1, <2>2 DEF Unmade, Fresh
    <3> QED BY <1>5, <3>1, <3>2 DEF MadeOnTheWay
  <2> QED BY <1>4, <2>1, <2>2 DEF OpenOK, Fresh, Looked
<1>8. /\ fr.du # NoDep => fr.du[2] = 1
      /\ fr.du = NoDep => DOMAIN Prereqs[f] = {}
      /\ \A i \in DOMAIN Prereqs[f] : i \in Nat /\ i >= 1
  <2>1. DOMAIN Prereqs[f] = 1 .. Len(Prereqs[f]) /\ Len(Prereqs[f]) \in Nat
    BY <1>0, PrereqTypes
  <2>2. ListsKept
    BY DEF WalkInv
  <2> QED BY <1>0, <1>4, <2>1, <2>2, FirstNode
<1>9. \A i \in DOMAIN Prereqs[f] : ~(i < Position(fr))
  BY <1>4, <1>8 DEF Position
<1>10. ScanOK(fr)'
  BY <1>4, <1>9 DEF ScanOK
<1>11. WaitOK(fr)'
  <2>1. ~Second(fr)
    BY <1>4 DEF Second
  <2>2. fr.du # NoDep => \A k \in DOMAIN Prereqs[f] : ~Reached(fr, k)
    BY <1>4, <1>8 DEF Reached
  <2> QED BY <1>4, <1>9, <2>1, <2>2 DEF WaitOK
<1>12. PICK c : c = Caller(stack, 1)
  OBVIOUS
<1>13. FrameOK(fr, c)'
  BY <1>4, <1>7, <1>10, <1>11 DEF FrameOK, SecondOK, CheckOK, Second, Update1, Check
<1> QED
  BY <1>0, <1>1, <1>2, <1>3, <1>4, <1>12, <1>13, CloseContinue DEF Update, Update1

LEMMA ListDoneBuild ==
    ASSUME Plain, TypeOK, WalkInv, BuildInv, Builds, ListDone
    PROVE  BuildInv'
<1>0. PICK f, fr :
         /\ f = Top.file
         /\ fr = [Top EXCEPT !.at = "inter",
                             !.du = IF Top.must_make \/ opt.always_make THEN first[f] ELSE NoDep]
         /\ pc = "walk" /\ Top.proc = Update1 /\ Top.at = "deps" /\ f \in Files
         /\ Top.du = NoDep \/ Waits(Top)
         /\ Continue(fr) /\ fr \in FrameType
         /\ UNCHANGED <<worldVars, fileVars>>
  BY ListDonePlain
<1>9. PICK c : c = Caller(stack, 1)
  OBVIOUS
<1>1. /\ \A g \in Files : FileOK(g)
      /\ Top \in FrameType /\ pc \in Walks /\ FrameOK(Top, c)
      /\ ~opt.keep_going => Top.dep_status = us_success
  BY <1>0, <1>9, Known DEF Walks
<1>2. UNCHANGED <<opt, command_state, update_status, considered>>
  BY <1>0 DEF worldVars, fileVars, stateVars, walkVars
<1>3. (\A g \in Files : FileOK(g)') /\ Calm(NoFile)
  <2>1. {} \subseteq Files
    OBVIOUS
  <2>2. UNCHANGED timeVars /\ UNCHANGED <<disk, job, stateVars>>
    BY <1>0 DEF worldVars, fileVars
  <2> QED BY <1>1, <2>1, <2>2, LookKeeps
<1>4. /\ fr.proc = Update1 /\ fr.at = "inter" /\ fr.file = f
      /\ fr.noexist = Top.noexist /\ fr.must_make = Top.must_make
      /\ fr.dep_status = Top.dep_status /\ fr.running = Top.running
      /\ fr.du = IF Top.must_make \/ opt.always_make THEN first[f] ELSE NoDep
      /\ fr.must_make \in BOOLEAN
  BY <1>0, <1>1 DEF FrameType
<1>5. Scanning(Top) /\ Second(fr) /\ ~Scanning(fr)
  BY <1>0, <1>4 DEF Scanning, Second
<1>6. /\ first[f] # NoDep => first[f][2] = 1
      /\ first[f] = NoDep => DOMAIN Prereqs[f] = {}
      /\ \A i \in DOMAIN Prereqs[f] : i \in Nat /\ i >= 1 /\ i < Len(Prereqs[f]) + 1
  <2>1. DOMAIN Prereqs[f] = 1 .. Len(Prereqs[f]) /\ Len(Prereqs[f]) \in Nat
    BY <1>0, PrereqTypes
  <2>2. ListsKept
    BY DEF WalkInv
  <2> QED BY <1>0, <2>1, <2>2, FirstNode
<1>7. ASSUME ~Top.running
      PROVE  Top.du = NoDep /\ \A i \in DOMAIN Prereqs[f] : i < Position(Top)
  <2>1. Top.du = NoDep
    BY <1>0, <1>7 DEF Waits
  <2> QED BY <1>0, <1>6, <2>1 DEF Position
<1>8. OpenOK(fr)
  BY <1>0, <1>1, <1>4, <1>5 DEF FrameOK, OpenOK
<1>10. SecondOK(fr)
  <2>1. ASSUME Unhindered(fr), NEW i \in DOMAIN Prereqs[f]
        PROVE  Passed(f, i, fr.must_make)
    BY <1>0, <1>1, <1>4, <1>5, <1>7, <2>1 DEF FrameOK, ScanOK, Unhindered
  <2>2. ASSUME Unhindered(fr), fr.must_make \/ opt.always_make, NEW i \in DOMAIN Prereqs[f]
        PROVE  LET d == Prereqs[f][i].file IN Good(d) \/ (i >= Position(fr) /\ Unmade(d))
    <3>1. i >= Position(fr)
      BY <1>4, <1>6, <2>2 DEF Position
    <3> QED BY <2>1, <2>2, <3>1 DEF Passed
  <2>3. ASSUME Unhindered(fr), ~(fr.must_make \/ opt.always_make)
        PROVE  fr.du = NoDep /\ \A i \in DOMAIN Prereqs[f] : Passed(f, i, FALSE)
    <3>1. fr.must_make = FALSE
      BY <1>4, <2>3
    <3> QED BY <1>4, <2>1, <2>3, <3>1
  <2> QED BY <1>4, <1>5, <2>2, <2>3 DEF SecondOK
<1>11. WaitOK(fr)
  <2>1. fr.du # NoDep => \A k \in DOMAIN Prereqs[f] : ~Reached(fr, k)
    BY <1>4, <1>6 DEF Reached
  <2>2. ~fr.running => \A i \in DOMAIN Prereqs[f] : Settled(Prereqs[f][i].file)
    BY <1>0, <1>1, <1>4, <1>5, <1>7 DEF FrameOK, WaitOK
  <2> QED BY <1>4, <2>1, <2>2 DEF WaitOK
<1>12. FrameOK(fr, c)
  BY <1>4, <1>5, <1>8, <1>10, <1>11 DEF FrameOK, ScanOK, CheckOK, Update1, Check
<1>13. FrameOK(fr, c)'
  BY <1>0, <1>2, <1>3, <1>12, FrameCalm
<1> QED
  BY <1>0, <1>1, <1>2, <1>3, <1>4, <1>9, <1>13, CloseContinue DEF Update, Update1

\* The prerequisite a call is at, and the one after it
LEMMA AtNode ==
    ASSUME Plain, TypeOK, WalkInv, pc \in Walks, NEW f, f = Top.file, NEW n, n = Top.du, n # NoDep
    PROVE  /\ n \in Nodes /\ n[2] \in DOMAIN Prereqs[f] /\ n[2] \in Nat
           /\ Dep(n) = Prereqs[f][n[2]] /\ Dep(n).file \in Files
           /\ Position(Top) = n[2]
           /\ \A fr : fr.file = f /\ fr.du = next[n] => Position(fr) = n[2] + 1
           /\ next[n] # NoDep => next[n][2] = n[2] + 1
           /\ \A i \in DOMAIN Prereqs[f] :
                 i \in Nat /\ (i < n[2] + 1 <=> i < n[2] \/ i = n[2])
                 /\ (i >= n[2] /\ i # n[2] => i >= n[2] + 1)
<1>1. f \in Files /\ n \in Nodes /\ n[1] = f
  BY WalkFacts
<1>2. /\ DOMAIN Prereqs[f] = 1 .. Len(Prereqs[f]) /\ Len(Prereqs[f]) \in Nat
      /\ n[2] \in 1 .. Len(Prereqs[f]) /\ n = <<n[1], n[2]>>
  BY <1>1, PrereqTypes
<1>3. Dep(n) = Prereqs[f][n[2]] /\ Dep(n).file \in Files
  BY <1>1, DepLower DEF Dep
<1>4. Position(Top) = n[2]
  BY DEF Position
<1>5. ListsKept
  BY DEF WalkInv
<1>6. /\ next[n] # NoDep => next[n][2] = n[2] + 1
      /\ next[n] = NoDep => n[2] = Len(Prereqs[f])
  BY <1>1, <1>5, NextNode
<1>7. \A fr : fr.file = f /\ fr.du = next[n] => Position(fr) = n[2] + 1
  BY <1>6 DEF Position
<1> QED BY <1>1, <1>2, <1>3, <1>4, <1>6, <1>7

LEMMA WorstOf ==
    ASSUME NEW s \in Statuses, NEW t \in Statuses
    PROVE  Worse(s, t) = us_success <=> s = us_success /\ t = us_success
BY DEF Worse, Statuses, us_success, us_failed

LEMMA LookedNow ==
    ASSUME Plain, TypeOK, NEW d \in Files, Look({d})
    PROVE  Looked(d)' /\ last_mtime'[d] = Mtime(d) /\ Mtime(d) # UNKNOWN_MTIME
<1>1. Seen({d}) = [g \in Files |-> IF g \in {d} /\ last_mtime[g] = UNKNOWN_MTIME
                                     THEN disk[g] ELSE last_mtime[g]]
  BY LookPlain
<1>2. Mtime(d) = (IF last_mtime[d] = UNKNOWN_MTIME THEN disk[d] ELSE last_mtime[d])
      /\ Mtime(d) # UNKNOWN_MTIME
  BY MtimeType
<1> QED BY <1>1, <1>2 DEF Look, Looked

LEMMA CheckPrereqBuild ==
    ASSUME Plain, TypeOK, WalkInv, BuildInv, Builds, CheckPrereq
    PROVE  BuildInv'
<1>0. PICK f, n, d, e, fr :
         /\ f = Top.file /\ n = Top.du /\ d = Dep(n).file
         /\ e = Frame("check_dep", d, Top.this_mtime, Top.must_make)
         /\ fr = [Top EXCEPT !.at = "dep_back", !.mtime = Mtime(d)]
         /\ pc = "walk" /\ Top.proc = Update1 /\ Top.at = "deps" /\ n # NoDep
         /\ ~Waits(Top) /\ d \in Files
         /\ Look({d}) /\ Call(e, fr) /\ fr \in FrameType /\ e \in FrameType
         /\ UNCHANGED <<worldVars, stateVars, walkVars>>
  BY CheckPrereqPlain
<1>9. PICK c : c = Caller(stack, 1)
  OBVIOUS
<1>1. /\ \A g \in Files : FileOK(g)
      /\ Top \in FrameType /\ pc \in Walks /\ FrameOK(Top, c) /\ f \in Files
      /\ ~opt.keep_going => Top.dep_status = us_success
  BY <1>0, <1>9, Known DEF Walks
<1>2. UNCHANGED <<opt, command_state, update_status, considered>>
  BY <1>0 DEF worldVars, stateVars, walkVars
<1>3. (\A g \in Files : FileOK(g)') /\ Calm(NoFile)
  <2>1. {d} \subseteq Files /\ UNCHANGED <<disk, job, stateVars>>
    BY <1>0 DEF worldVars
  <2> QED BY <1>0, <1>1, <2>1, LookKeeps
<1>4. /\ fr.proc = Update1 /\ fr.at = "dep_back" /\ fr.file = f /\ fr.du = n
      /\ fr.noexist = Top.noexist /\ fr.must_make = Top.must_make
      /\ fr.dep_status = Top.dep_status /\ fr.running = Top.running
  BY <1>0, <1>1 DEF FrameType
<1>5. /\ e.proc = Check /\ e.at = "enter" /\ e.file = d /\ e.dep_status = us_success
      /\ e.running = FALSE
  BY <1>0 DEF Frame, Check
<1>6. Scanning(Top) /\ Scanning(fr) /\ ~Second(fr)
  BY <1>0, <1>4 DEF Scanning, Second
<1>7. /\ Dep(n) = Prereqs[f][n[2]] /\ Position(Top) = n[2] /\ Position(fr) = n[2]
      /\ n[2] \in Nat /\ \A i \in DOMAIN Prereqs[f] : i \in Nat
  BY <1>0, <1>1, <1>4, AtNode DEF Position
<1>8. OpenOK(fr) /\ ScanOK(fr) /\ SecondOK(fr)
  BY <1>0, <1>1, <1>4, <1>6, <1>7 DEF FrameOK, OpenOK, ScanOK, SecondOK, Unhindered
<1>10. WaitOK(fr)
  <2>1. ASSUME NEW i \in DOMAIN Prereqs[f], NEW k \in DOMAIN Prereqs[f],
               i < k, Prereqs[f][k].wait_here, Reached(fr, k)
        PROVE  Settled(Prereqs[f][i].file)
    <3>1. CASE k < n[2]
      <4>1. Reached(Top, k)
        BY <1>0, <3>1 DEF Reached
      <4> QED BY <1>0, <1>1, <1>6, <2>1, <4>1 DEF FrameOK, WaitOK
    <3>2. CASE k = n[2]
      <4>1. ~Top.running
        BY <1>0, <1>7, <2>1, <3>2 DEF Waits
      <4>2. i < Position(Top)
        BY <1>7, <2>1, <3>2
      <4> QED BY <1>0, <1>1, <1>6, <4>1, <4>2 DEF FrameOK, WaitOK
    <3> QED BY <1>4, <2>1, <3>1, <3>2 DEF Reached
  <2>2. ASSUME ~fr.running, NEW i \in DOMAIN Prereqs[f], i < Position(fr) \/ Second(fr)
        PROVE  Settled(Prereqs[f][i].file)
    BY <1>0, <1>1, <1>4, <1>6, <1>7, <2>2 DEF FrameOK, WaitOK
  <2> QED BY <1>4, <2>1, <2>2 DEF WaitOK
<1>11. FrameOK(fr, c)
  BY <1>4, <1>8, <1>10 DEF FrameOK, CheckOK, Update1, Check
<1>12. FrameOK(fr, c)'
  BY <1>0, <1>2, <1>3, <1>11, FrameCalm
<1>13. FrameOK(e, fr.proc)'
  <2>1. Looked(d)'
    BY <1>0, LookedNow
  <2>2. CheckOK(e, fr.proc)'
    BY <1>5, <2>1 DEF CheckOK, Looked
  <2> QED BY <1>5, <2>2 DEF FrameOK, OpenOK, ScanOK, SecondOK, WaitOK, Scanning, Second, Update1, Check
<1>14. /\ ~(e.proc = Update /\ fr.at = "inter_back")
       /\ Top.proc # Update
  BY <1>0, <1>4 DEF Update, Update1
<1> QED
  BY <1>0, <1>1, <1>2, <1>3, <1>4, <1>5, <1>9, <1>12, <1>13, <1>14, CloseCall

LEMMA PrereqCheckedBuild ==
    ASSUME Plain, TypeOK, WalkInv, BuildInv, Builds, PrereqChecked
    PROVE  BuildInv'
<1>0. PICK fr \in FrameType : \E f, n, d, worst :
         /\ f = Top.file /\ n = Top.du /\ d = Dep(n).file
         /\ worst = Worse(Top.dep_status, ret.status)
         /\ pc = "walk" /\ Top.proc = Update1 /\ Top.at = "dep_back" /\ n # NoDep
         /\ d \in Files
         /\ Continue(fr)
         /\ fr.proc = Update1 /\ fr.at = "deps" /\ fr.file = f
         /\ fr.du = IF worst # us_success /\ ~opt.keep_going THEN NoDep ELSE next[n]
         /\ fr.dep_status = worst /\ fr.noexist = Top.noexist
         /\ fr.running <=> Top.running \/ command_state[d] \in Busy
         /\ fr.must_make = IF Dep(n).ignore_mtime THEN Top.must_make ELSE ret.must_make
         /\ Look({d}) \/ UNCHANGED timeVars
         /\ UNCHANGED <<worldVars, stateVars, walkVars>>
  BY PrereqCheckedPlain
<1>00. PICK f, n, d, worst :
         /\ f = Top.file /\ n = Top.du /\ d = Dep(n).file
         /\ worst = Worse(Top.dep_status, ret.status)
         /\ pc = "walk" /\ Top.proc = Update1 /\ Top.at = "dep_back" /\ n # NoDep
         /\ d \in Files
         /\ Continue(fr)
         /\ fr.proc = Update1 /\ fr.at = "deps" /\ fr.file = f
         /\ fr.du = IF worst # us_success /\ ~opt.keep_going THEN NoDep ELSE next[n]
         /\ fr.dep_status = worst /\ fr.noexist = Top.noexist
         /\ fr.running <=> Top.running \/ command_state[d] \in Busy
         /\ fr.must_make = IF Dep(n).ignore_mtime THEN Top.must_make ELSE ret.must_make
         /\ Look({d}) \/ UNCHANGED timeVars
         /\ UNCHANGED <<worldVars, stateVars, walkVars>>
  BY <1>0
<1>9. PICK c : c = Caller(stack, 1)
  OBVIOUS
<1>1. /\ \A g \in Files : FileOK(g)
      /\ Top \in FrameType /\ pc \in Walks /\ FrameOK(Top, c) /\ f \in Files
      /\ ~opt.keep_going => Top.dep_status = us_success /\ ret.status = us_success
  BY <1>00, <1>9, Known DEF Walks
<1>2. UNCHANGED <<opt, command_state, update_status, considered>>
  BY <1>00 DEF worldVars, stateVars, walkVars
<1>3. (\A g \in Files : FileOK(g)') /\ Calm(NoFile)
  <2>1. {d} \subseteq Files /\ UNCHANGED <<disk, job, stateVars>>
    BY <1>00 DEF worldVars
  <2> QED BY <1>00, <1>1, <2>1, LookKeeps
<1>4. worst = us_success <=> Top.dep_status = us_success /\ ret.status = us_success
  <2>1. Top.dep_status \in Statuses /\ ret.status \in Statuses
    BY <1>1 DEF TypeOK, FrameType
  <2> QED BY <1>00, <2>1, WorstOf
<1>5. fr.du = next[n]
  BY <1>00, <1>1, <1>4
<1>6. Scanning(Top) /\ Scanning(fr) /\ ~Second(fr) /\ ~Second(Top)
  BY <1>00 DEF Scanning, Second
<1>7. /\ Dep(n) = Prereqs[f][n[2]] /\ Position(Top) = n[2] /\ Position(fr) = n[2] + 1
      /\ n[2] \in Nat /\ \A i \in DOMAIN Prereqs[f] : i \in Nat /\ (i < n[2] + 1 <=> i < n[2] \/ i = n[2])
      /\ next[n] # NoDep => next[n][2] = n[2] + 1
  BY <1>00, <1>1, <1>5, AtNode
<1>8. Learned(d)
  BY <1>00 DEF BuildInv, TopInv
<1>10. Top.must_make => fr.must_make
  BY <1>00 DEF WalkInv, ControlInv
<1>11. OpenOK(fr) /\ SecondOK(fr)
  BY <1>00, <1>1, <1>6, <1>10 DEF FrameOK, OpenOK, SecondOK
<1>12. ScanOK(fr)
  <2>1. ASSUME Unhindered(fr), NEW i \in DOMAIN Prereqs[f], i < Position(fr)
        PROVE  Passed(f, i, fr.must_make)
    <3>1. Unhindered(Top) /\ command_state[d] \notin Busy /\ ret.status = us_success
      BY <1>00, <1>4, <2>1 DEF Unhindered
    <3>2. CASE i < n[2]
      <4>1. Passed(f, i, Top.must_make)
        BY <1>00, <1>1, <1>6, <1>7, <3>1, <3>2 DEF FrameOK, ScanOK
      <4> QED BY <1>10, <4>1 DEF Passed
    <3>3. CASE i = n[2]
      BY <1>00, <1>7, <1>8, <3>1, <3>3 DEF Passed, Learned
    <3> QED BY <1>7, <2>1, <3>2, <3>3
  <2> QED BY <1>00, <2>1 DEF ScanOK
<1>13. WaitOK(fr)
  <2>1. ASSUME fr.du # NoDep, NEW i \in DOMAIN Prereqs[f], NEW k \in DOMAIN Prereqs[f],
               i < k, Prereqs[f][k].wait_here, Reached(fr, k)
        PROVE  Settled(Prereqs[f][i].file)
    <3>1. k < n[2] + 1
      BY <1>00, <1>5, <1>7, <2>1 DEF Reached
    <3>2. Reached(Top, k)
      BY <1>00, <1>7, <3>1 DEF Reached
    <3> QED BY <1>00, <1>1, <1>6, <2>1, <3>2 DEF FrameOK, WaitOK
  <2>2. ASSUME ~fr.running, NEW i \in DOMAIN Prereqs[f], i < Position(fr)
        PROVE  Settled(Prereqs[f][i].file)
    <3>1. ~Top.running /\ command_state[d] \notin Busy
      BY <1>00, <2>2
    <3>2. CASE i < n[2]
      BY <1>00, <1>1, <1>6, <1>7, <3>1, <3>2 DEF FrameOK, WaitOK
    <3>3. CASE i = n[2]
      BY <1>00, <1>7, <1>8, <3>1, <3>3 DEF Learned, Settled
    <3> QED BY <1>7, <2>2, <3>2, <3>3
  <2> QED BY <1>00, <1>6, <2>1, <2>2 DEF WaitOK
<1>14. FrameOK(fr, c)
  BY <1>00, <1>11, <1>12, <1>13 DEF FrameOK, CheckOK, Update1, Check
<1>15. FrameOK(fr, c)'
  BY <1>2, <1>3, <1>14, FrameCalm
<1>16. ~opt.keep_going => fr.dep_status = us_success
  BY <1>00, <1>1, <1>4
<1> QED
  BY <1>00, <1>1, <1>2, <1>3, <1>9, <1>15, <1>16, CloseContinue DEF Update, Update1

LEMMA SkipOrdinaryBuild ==
    ASSUME Plain, TypeOK, WalkInv, BuildInv, Builds, SkipOrdinary
    PROVE  BuildInv'
<1>0. PICK fr \in FrameType :
         /\ pc = "walk" /\ Top.proc = Update1 /\ Top.at = "inter" /\ Top.du # NoDep
         /\ Dep(Top.du).file \in Files
         /\ Waits(Top) \/ Dep(Top.du).file \notin intermediate
         /\ Continue(fr)
         /\ fr = [Top EXCEPT !.du = IF Waits(Top) THEN NoDep ELSE next[Top.du]]
         /\ UNCHANGED <<worldVars, fileVars>>
  BY SkipOrdinaryPlain
<1>00. PICK f, n, d : f = Top.file /\ n = Top.du /\ d = Dep(n).file /\ n # NoDep
  BY <1>0
<1>9. PICK c : c = Caller(stack, 1)
  OBVIOUS
<1>1. /\ \A g \in Files : FileOK(g)
      /\ Top \in FrameType /\ pc \in Walks /\ FrameOK(Top, c) /\ f \in Files
      /\ ~opt.keep_going => Top.dep_status = us_success
  BY <1>0, <1>00, <1>9, Known DEF Walks
<1>2. UNCHANGED <<opt, command_state, update_status, considered>>
  BY <1>0 DEF worldVars, fileVars, stateVars, walkVars
<1>3. (\A g \in Files : FileOK(g)') /\ Calm(NoFile)
  <2>1. {} \subseteq Files
    OBVIOUS
  <2>2. UNCHANGED timeVars /\ UNCHANGED <<disk, job, stateVars>>
    BY <1>0 DEF worldVars, fileVars
  <2> QED BY <1>1, <2>1, <2>2, LookKeeps
<1>4. /\ fr.proc = Update1 /\ fr.at = "inter" /\ fr.file = f
      /\ fr.noexist = Top.noexist /\ fr.must_make = Top.must_make
      /\ fr.dep_status = Top.dep_status /\ fr.running = Top.running
      /\ fr.du = IF Waits(Top) THEN NoDep ELSE next[n]
  BY <1>0, <1>00, <1>1 DEF FrameType
<1>6. Second(Top) /\ Second(fr) /\ ~Scanning(fr) /\ ~Scanning(Top)
  BY <1>0, <1>4 DEF Scanning, Second
<1>7. /\ Dep(n) = Prereqs[f][n[2]] /\ Position(Top) = n[2]
      /\ ~Waits(Top) => Position(fr) = n[2] + 1
      /\ n[2] \in Nat
      /\ \A i \in DOMAIN Prereqs[f] : /\ i \in Nat /\ (i < n[2] + 1 <=> i < n[2] \/ i = n[2])
                                      /\ i >= n[2] /\ i # n[2] => i >= n[2] + 1
      /\ next[n] # NoDep => next[n][2] = n[2] + 1
  BY <1>00, <1>1, <1>4, AtNode
<1>8. OpenOK(fr) /\ ScanOK(fr)
  BY <1>00, <1>1, <1>4, <1>6 DEF FrameOK, OpenOK, ScanOK
<1>10. fr.running \/ ~Waits(Top)
  BY <1>4 DEF Waits
<1>11. SecondOK(fr)
  <2>1. ASSUME Unhindered(fr)
        PROVE  /\ ~Waits(Top) /\ Unhindered(Top) /\ (fr.must_make \/ opt.always_make)
               /\ \A i \in DOMAIN Prereqs[f] :
                     LET g == Prereqs[f][i].file
                     IN  Good(g) \/ (i >= Position(Top) /\ Unmade(g))
    <3>1. ~Waits(Top) /\ Unhindered(Top)
      BY <1>4, <1>10, <2>1 DEF Unhindered
    <3> QED BY <1>00, <1>1, <1>4, <1>6, <3>1 DEF FrameOK, SecondOK
  <2>2. ASSUME Unhindered(fr), NEW i \in DOMAIN Prereqs[f]
        PROVE  LET g == Prereqs[f][i].file
               IN  Good(g) \/ (i >= Position(fr) /\ Unmade(g))
    <3>1. ~Unmade(d)
      BY <1>0, <1>00, <2>1, <2>2 DEF Unmade
    <3> QED BY <1>00, <1>7, <2>1, <2>2, <3>1
  <2> QED BY <1>4, <2>1, <2>2 DEF SecondOK
<1>12. WaitOK(fr)
  <2>1. ASSUME fr.du # NoDep, NEW i \in DOMAIN Prereqs[f], NEW k \in DOMAIN Prereqs[f],
               i < k, Prereqs[f][k].wait_here, Reached(fr, k)
        PROVE  Settled(Prereqs[f][i].file)
    <3>1. k < n[2] + 1 /\ ~Waits(Top)
      BY <1>4, <1>7, <2>1 DEF Reached
    <3>2. CASE k < n[2]
      <4>1. Reached(Top, k)
        BY <1>00, <3>2 DEF Reached
      <4> QED BY <1>00, <1>1, <1>6, <2>1, <4>1 DEF FrameOK, WaitOK
    <3>3. CASE k = n[2]
      <4>1. ~Top.running
        BY <1>00, <1>7, <2>1, <3>1, <3>3 DEF Waits
      <4> QED BY <1>00, <1>1, <1>6, <4>1 DEF FrameOK, WaitOK
    <3> QED BY <1>7, <3>1, <3>2, <3>3
  <2>2. ASSUME ~fr.running, NEW i \in DOMAIN Prereqs[f]
        PROVE  Settled(Prereqs[f][i].file)
    BY <1>00, <1>1, <1>4, <1>6, <2>2 DEF FrameOK, WaitOK
  <2> QED BY <1>4, <2>1, <2>2 DEF WaitOK
<1>13. FrameOK(fr, c)
  BY <1>4, <1>8, <1>11, <1>12 DEF FrameOK, CheckOK, Update1, Check
<1>14. FrameOK(fr, c)'
  BY <1>2, <1>3, <1>13, FrameCalm
<1> QED
  BY <1>0, <1>1, <1>2, <1>3, <1>4, <1>9, <1>14, CloseContinue DEF Update, Update1

LEMMA UpdateIntermediateBuild ==
    ASSUME Plain, TypeOK, WalkInv, BuildInv, Builds, UpdateIntermediate
    PROVE  BuildInv'
<1>0. PICK f, n, d, e, fr :
         /\ f = Top.file /\ n = Top.du /\ d = Dep(n).file
         /\ e = Frame("update_file", d, UNKNOWN_MTIME, FALSE)
         /\ fr = [Top EXCEPT !.at = "inter_back", !.mtime = Mtime(d)]
         /\ pc = "walk" /\ Top.proc = Update1 /\ Top.at = "inter" /\ n # NoDep
         /\ ~Waits(Top) /\ d \in Files
         /\ Look({d}) /\ Call(e, fr) /\ fr \in FrameType /\ e \in FrameType
         /\ considered' = considered \ {d}
         /\ UNCHANGED <<worldVars, stateVars>>
  BY UpdateIntermediatePlain
<1>9. PICK c : c = Caller(stack, 1)
  OBVIOUS
<1>1. /\ \A g \in Files : FileOK(g)
      /\ Top \in FrameType /\ pc \in Walks /\ FrameOK(Top, c) /\ f \in Files
      /\ ~opt.keep_going => Top.dep_status = us_success
  BY <1>0, <1>9, Known DEF Walks
<1>2. UNCHANGED <<opt, command_state, update_status>>
  BY <1>0 DEF worldVars, stateVars
<1>3. (\A g \in Files : FileOK(g)') /\ Calm(NoFile)
  <2>1. {d} \subseteq Files /\ UNCHANGED <<disk, job, stateVars>>
    BY <1>0 DEF worldVars
  <2> QED BY <1>0, <1>1, <2>1, LookKeeps
<1>4. /\ fr.proc = Update1 /\ fr.at = "inter_back" /\ fr.file = f /\ fr.du = n
      /\ fr.noexist = Top.noexist /\ fr.must_make = Top.must_make
      /\ fr.dep_status = Top.dep_status /\ fr.running = Top.running
  BY <1>0, <1>1 DEF FrameType
<1>5. e.proc = Update /\ e.at = "enter" /\ e.file = d /\ e.dep_status = us_success
  BY <1>0 DEF Frame, Update
<1>6. Second(Top) /\ Second(fr) /\ ~Scanning(fr)
  BY <1>0, <1>4 DEF Scanning, Second
<1>7. /\ Dep(n) = Prereqs[f][n[2]] /\ Position(Top) = n[2] /\ Position(fr) = n[2]
      /\ n[2] \in Nat /\ \A i \in DOMAIN Prereqs[f] : i \in Nat
  BY <1>0, <1>1, <1>4, AtNode DEF Position
<1>8. OpenOK(fr) /\ ScanOK(fr) /\ SecondOK(fr)
  BY <1>0, <1>1, <1>4, <1>6, <1>7 DEF FrameOK, OpenOK, ScanOK, SecondOK, Unhindered
<1>10. WaitOK(fr)
  <2>1. ASSUME NEW i \in DOMAIN Prereqs[f], NEW k \in DOMAIN Prereqs[f],
               i < k, Prereqs[f][k].wait_here, Reached(fr, k)
        PROVE  Settled(Prereqs[f][i].file)
    <3>1. CASE k < n[2]
      <4>1. Reached(Top, k)
        BY <1>0, <3>1 DEF Reached
      <4> QED BY <1>0, <1>1, <1>6, <2>1, <4>1 DEF FrameOK, WaitOK
    <3>2. CASE k = n[2]
      <4>1. ~Top.running
        BY <1>0, <1>7, <2>1, <3>2 DEF Waits
      <4> QED BY <1>0, <1>1, <1>6, <4>1 DEF FrameOK, WaitOK
    <3> QED BY <1>4, <2>1, <3>1, <3>2 DEF Reached
  <2>2. ASSUME ~fr.running, NEW i \in DOMAIN Prereqs[f]
        PROVE  Settled(Prereqs[f][i].file)
    BY <1>0, <1>1, <1>4, <1>6, <2>2 DEF FrameOK, WaitOK
  <2> QED BY <1>4, <2>1, <2>2 DEF WaitOK
<1>11. FrameOK(fr, c)
  BY <1>4, <1>8, <1>10 DEF FrameOK, CheckOK, Update1, Check
<1>12. FrameOK(fr, c)'
  BY <1>0, <1>2, <1>3, <1>11, FrameCalm
<1>13. FrameOK(e, fr.proc)'
  BY <1>5 DEF FrameOK, OpenOK, ScanOK, SecondOK, WaitOK, CheckOK, Scanning, Second,
              Update, Update1, Check
<1>14. /\ e.file \notin considered' /\ Top.proc # Update
       /\ \A g \in considered' : g \in considered
  BY <1>0, <1>5 DEF Update, Update1
<1> QED
  BY <1>0, <1>1, <1>2, <1>3, <1>4, <1>5, <1>9, <1>12, <1>13, <1>14, CloseCall

LEMMA IntermediateUpdatedBuild ==
    ASSUME Plain, TypeOK, WalkInv, BuildInv, Builds, IntermediateUpdated
    PROVE  BuildInv'
<1>0. PICK fr \in FrameType : \E f, n, d, worst :
         /\ f = Top.file /\ n = Top.du /\ d = Dep(n).file
         /\ worst = Worse(Top.dep_status, ret.status)
         /\ pc = "walk" /\ Top.proc = Update1 /\ Top.at = "inter_back" /\ n # NoDep
         /\ d \in Files
         /\ Continue(fr)
         /\ fr.proc = Update1 /\ fr.at = "inter" /\ fr.file = f
         /\ fr.du = IF worst # us_success /\ ~opt.keep_going THEN NoDep ELSE next[n]
         /\ fr.dep_status = worst /\ fr.noexist = Top.noexist
         /\ fr.running <=> Top.running \/ command_state[d] \in Busy
         /\ fr.must_make = Top.must_make
         /\ Look({d}) \/ UNCHANGED timeVars
         /\ UNCHANGED <<worldVars, stateVars, walkVars>>
  BY IntermediateUpdatedPlain
<1>00. PICK f, n, d, worst :
         /\ f = Top.file /\ n = Top.du /\ d = Dep(n).file
         /\ worst = Worse(Top.dep_status, ret.status)
         /\ pc = "walk" /\ Top.proc = Update1 /\ Top.at = "inter_back" /\ n # NoDep
         /\ d \in Files
         /\ Continue(fr)
         /\ fr.proc = Update1 /\ fr.at = "inter" /\ fr.file = f
         /\ fr.du = IF worst # us_success /\ ~opt.keep_going THEN NoDep ELSE next[n]
         /\ fr.dep_status = worst /\ fr.noexist = Top.noexist
         /\ fr.running <=> Top.running \/ command_state[d] \in Busy
         /\ fr.must_make = Top.must_make
         /\ Look({d}) \/ UNCHANGED timeVars
         /\ UNCHANGED <<worldVars, stateVars, walkVars>>
  BY <1>0
<1>9. PICK c : c = Caller(stack, 1)
  OBVIOUS
<1>1. /\ \A g \in Files : FileOK(g)
      /\ Top \in FrameType /\ pc \in Walks /\ FrameOK(Top, c) /\ f \in Files
      /\ ~opt.keep_going => Top.dep_status = us_success /\ ret.status = us_success
  BY <1>00, <1>9, Known DEF Walks
<1>2. UNCHANGED <<opt, command_state, update_status, considered>>
  BY <1>00 DEF worldVars, stateVars, walkVars
<1>3. (\A g \in Files : FileOK(g)') /\ Calm(NoFile)
  <2>1. {d} \subseteq Files /\ UNCHANGED <<disk, job, stateVars>>
    BY <1>00 DEF worldVars
  <2> QED BY <1>00, <1>1, <2>1, LookKeeps
<1>4. worst = us_success <=> Top.dep_status = us_success /\ ret.status = us_success
  <2>1. Top.dep_status \in Statuses /\ ret.status \in Statuses
    BY <1>1 DEF TypeOK, FrameType
  <2> QED BY <1>00, <2>1, WorstOf
<1>5. fr.du = next[n]
  BY <1>00, <1>1, <1>4
<1>6. Second(Top) /\ Second(fr) /\ ~Scanning(fr) /\ ~Scanning(Top)
  BY <1>00 DEF Scanning, Second
<1>7. /\ Dep(n) = Prereqs[f][n[2]] /\ Position(Top) = n[2] /\ Position(fr) = n[2] + 1
      /\ n[2] \in Nat
      /\ \A i \in DOMAIN Prereqs[f] : /\ i \in Nat /\ (i < n[2] + 1 <=> i < n[2] \/ i = n[2])
                                      /\ i >= n[2] /\ i # n[2] => i >= n[2] + 1
      /\ next[n] # NoDep => next[n][2] = n[2] + 1
  BY <1>00, <1>1, <1>5, AtNode
<1>8. Answered(d)
  BY <1>00 DEF BuildInv, TopInv
<1>11. OpenOK(fr) /\ ScanOK(fr)
  BY <1>00, <1>1, <1>6 DEF FrameOK, OpenOK, ScanOK
<1>12. SecondOK(fr)
  <2>1. ASSUME Unhindered(fr)
        PROVE  /\ Good(d) /\ (fr.must_make \/ opt.always_make)
               /\ \A i \in DOMAIN Prereqs[f] :
                     LET g == Prereqs[f][i].file
                     IN  Good(g) \/ (i >= Position(Top) /\ Unmade(g))
    <3>1. Unhindered(Top) /\ command_state[d] \notin Busy /\ ret.status = us_success
      BY <1>00, <1>4, <2>1 DEF Unhindered
    <3>2. Good(d)
      BY <1>8, <3>1 DEF Answered
    <3> QED BY <1>00, <1>1, <1>6, <3>1, <3>2 DEF FrameOK, SecondOK
  <2>2. ASSUME Unhindered(fr), NEW i \in DOMAIN Prereqs[f]
        PROVE  LET g == Prereqs[f][i].file
               IN  Good(g) \/ (i >= Position(fr) /\ Unmade(g))
    BY <1>00, <1>7, <2>1, <2>2
  <2> QED BY <1>00, <2>1, <2>2 DEF SecondOK
<1>13. WaitOK(fr)
  <2>1. ASSUME fr.du # NoDep, NEW i \in DOMAIN Prereqs[f], NEW k \in DOMAIN Prereqs[f],
               i < k, Prereqs[f][k].wait_here, Reached(fr, k)
        PROVE  Settled(Prereqs[f][i].file)
    <3>1. k < n[2] + 1
      BY <1>00, <1>5, <1>7, <2>1 DEF Reached
    <3>2. Reached(Top, k)
      BY <1>00, <1>7, <3>1 DEF Reached
    <3> QED BY <1>00, <1>1, <1>6, <2>1, <3>2 DEF FrameOK, WaitOK
  <2>2. ASSUME ~fr.running, NEW i \in DOMAIN Prereqs[f]
        PROVE  Settled(Prereqs[f][i].file)
    BY <1>00, <1>1, <1>6, <2>2 DEF FrameOK, WaitOK
  <2> QED BY <1>00, <2>1, <2>2 DEF WaitOK
<1>14. FrameOK(fr, c)
  BY <1>00, <1>11, <1>12, <1>13 DEF FrameOK, CheckOK, Update1, Check
<1>15. FrameOK(fr, c)'
  BY <1>2, <1>3, <1>14, FrameCalm
<1>16. ~opt.keep_going => fr.dep_status = us_success
  BY <1>00, <1>1, <1>4
<1> QED
  BY <1>00, <1>1, <1>2, <1>3, <1>9, <1>15, <1>16, CloseContinue DEF Update, Update1

LEMMA NothingSeen ==
    ASSUME Plain, TypeOK
    PROVE  Seen({}) = last_mtime /\ Found({}) = intermediate
<1>1. {} \subseteq Files
  OBVIOUS
<1>2. last_mtime \in [Files -> Times]
  BY DEF TypeOK
<1>3. Seen({}) = [g \in Files |-> last_mtime[g]]
  BY <1>1, LookPlain
<1>4. Found({}) = intermediate
  BY <1>1, LookPlain
<1> QED BY <1>2, <1>3, <1>4

\* The file a call of update_file_1 is about, in the second loop
LEMMA SecondFacts ==
    ASSUME Plain, TypeOK, WalkInv, BuildInv, Builds, pc = "walk",
           Top.proc = Update1, Top.at = "inter", NEW f, f = Top.file
    PROVE  /\ \A g \in Files : FileOK(g)
           /\ f \in Files /\ ~Over /\ pc \in Walks /\ Top \in FrameType
           /\ Fresh(f) /\ Looked(f) /\ (f \in intermediate => Top.must_make)
           /\ ~Good(f) /\ ~Active(f) /\ f \notin updated
           /\ SecondOK(Top) /\ WaitOK(Top) /\ Second(Top)
           /\ ~opt.keep_going =>
                 /\ Top.dep_status = us_success
                 /\ \A g \in Files : update_status[g] \in {us_success, us_none}
<1>1. pc \in Walks /\ Second(Top)
  BY DEF Walks, Second
<1>2. FrameOK(Top, Caller(stack, 1))
  BY <1>1, Known
<1>3. Fresh(f) /\ Looked(f) /\ (f \in intermediate => Top.must_make)
  BY <1>1, <1>2 DEF FrameOK, OpenOK
<1> QED BY <1>1, <1>2, <1>3, Known DEF FrameOK, Fresh, Good, Active

LEMMA PrereqsRunningBuild ==
    ASSUME Plain, TypeOK, WalkInv, BuildInv, Builds, PrereqsRunning
    PROVE  BuildInv'
<1>0. PICK f, result :
         /\ f = Top.file /\ result = us_success
         /\ pc = "walk" /\ Top.proc = Update1 /\ Top.at = "inter"
         /\ command_state' = [command_state EXCEPT ![f] = "deps_running"]
         /\ Return(result, FALSE)
         /\ UNCHANGED <<worldVars, update_status, updated, considered, timeVars>>
  BY PrereqsRunningPlain
<1>1. /\ \A g \in Files : FileOK(g)
      /\ f \in Files /\ Looked(f) /\ ~Good(f) /\ ~Active(f) /\ f \notin updated
      /\ ~opt.keep_going => \A g \in Files : update_status[g] \in {us_success, us_none}
  BY <1>0, SecondFacts
<1>2. UNCHANGED <<opt, disk, job, update_status, updated, considered, last_mtime, intermediate>>
  BY <1>0 DEF worldVars, timeVars
<1>3. (\A g \in Files : FileOK(g)') /\ Calm(NoFile)
  <2>1. Peeked({})
    BY <1>2, NothingSeen DEF Peeked
  <2>2. Moved(f)
    BY <1>0, <1>1 DEF Moved
  <2>3. {} \subseteq Files
    OBVIOUS
  <2> QED BY <1>1, <2>1, <2>2, <2>3, PeekKeeps
<1>4. command_state \in [Files -> CommandStates] /\ considered \subseteq Files
  BY DEF TypeOK
<1>5. command_state'[f] \in Busy
  BY <1>0, <1>1, <1>4 DEF Busy
<1>6. Answered(f)'
  BY <1>5 DEF Answered
<1>7. \A g \in considered' :
         /\ g \in considered
         /\ command_state[g] \in Busy => g \in updated' \/ command_state'[g] \in Busy
  BY <1>0, <1>2, <1>4, <1>5
<1> QED
  BY <1>0, <1>1, <1>2, <1>3, <1>6, <1>7, CloseReturn DEF Update1, Check

LEMMA PrereqFailedBuild ==
    ASSUME Plain, TypeOK, WalkInv, BuildInv, Builds, PrereqFailed
    PROVE  BuildInv'
<1>0. PICK result \in Statuses : \E f, s, ran, times :
         /\ f = Top.file /\ s = Top.dep_status /\ ran = FALSE /\ times = last_mtime
         /\ pc = "walk" /\ Top.proc = Update1 /\ Top.at = "inter"
         /\ s # us_success
         /\ result # us_success /\ result # us_none
         /\ NoticeFinished(f, result, ran, times)
         /\ Return(s, FALSE)
         /\ UNCHANGED <<worldVars, considered, intermediate>>
  BY PrereqFailedPlain
<1>00. PICK f, s, ran, times :
         /\ f = Top.file /\ s = Top.dep_status /\ ran = FALSE /\ times = last_mtime
         /\ pc = "walk" /\ Top.proc = Update1 /\ Top.at = "inter"
         /\ s # us_success
         /\ result # us_success /\ result # us_none
         /\ NoticeFinished(f, result, ran, times)
         /\ Return(s, FALSE)
         /\ UNCHANGED <<worldVars, considered, intermediate>>
  BY <1>0
<1>1. /\ \A g \in Files : FileOK(g)
      /\ f \in Files /\ Fresh(f) /\ Looked(f)
      /\ opt.keep_going
  BY <1>00, SecondFacts
<1>2. UNCHANGED <<opt, disk, job, considered, intermediate>>
  BY <1>00 DEF worldVars
<1>3. times \in [Files -> Times] /\ considered \subseteq Files
  BY <1>00 DEF TypeOK
<1>4. (\A g \in Files : FileOK(g)') /\ Calm(f)
  <2>1. NoticeFinished(f, result, ran, Seen({}))
    BY <1>00, NothingSeen
  <2>2. {} \subseteq Files /\ f \notin {} /\ intermediate' = Found({})
    BY <1>2, NothingSeen
  <2> QED BY <1>0, <1>00, <1>1, <1>2, <2>1, <2>2, DecideKeeps
<1>5. /\ command_state' = [command_state EXCEPT ![f] = "finished"]
      /\ updated' = updated \cup {f}
  BY <1>00, <1>1, <1>3, NoticePlain
<1>6. Answered(f)'
  <2>1. ret'.status = s
    BY <1>00 DEF Return
  <2> QED BY <1>00, <1>5, <2>1 DEF Answered
<1>7. \A g \in considered' :
         /\ g \in considered
         /\ command_state[g] \in Busy => g \in updated' \/ command_state'[g] \in Busy
  <2>1. command_state \in [Files -> CommandStates]
    BY DEF TypeOK
  <2> QED BY <1>2, <1>3, <1>5, <2>1
<1> QED
  BY <1>00, <1>1, <1>2, <1>4, <1>6, <1>7, CloseReturn DEF Update1, Check

\* Once both loops are over a file is made only if all its prerequisites are, and an
\* intermediate file that is not there always is.
LEMMA DecideFacts ==
    ASSUME Plain, TypeOK, WalkInv, BuildInv, Builds, DecideFile, NEW f, f = Top.file
    PROVE  /\ MustMake(f) => \A d \in Deps(f) : Good(d)
           /\ f \in intermediate => MustMake(f)
<1>1. /\ pc = "walk" /\ Top.proc = Update1 /\ Top.at = "inter" /\ Top.du = NoDep
      /\ f \in Files /\ ~Top.running /\ Top.dep_status = us_success
      /\ Prerequisites(f) = {<<f, i>> : i \in DOMAIN Prereqs[f]}
  BY DecidePlain
<1>2. SecondOK(Top) /\ Second(Top) /\ Unhindered(Top) /\ pc \in Walks
  BY <1>1, SecondFacts DEF Unhindered
<1>3. /\ DOMAIN Prereqs[f] = 1 .. Len(Prereqs[f]) /\ Len(Prereqs[f]) \in Nat
      /\ Position(Top) = Len(Prereqs[f]) + 1
      /\ \A i \in DOMAIN Prereqs[f] : ~(i >= Position(Top))
  <2>1. DOMAIN Prereqs[f] = 1 .. Len(Prereqs[f]) /\ Len(Prereqs[f]) \in Nat
    BY <1>1, PrereqTypes
  <2>2. Position(Top) = Len(Prereqs[f]) + 1
    BY <1>1 DEF Position
  <2> QED BY <2>1, <2>2
<1>4. DoubleColon[f] = NoFile
  BY <1>1, PlainFiles
<1>5. ASSUME MustMake(f), NEW d \in Deps(f) PROVE Good(d)
  <2>1. PICK i \in DOMAIN Prereqs[f] : d = Prereqs[f][i].file
    BY <1>5 DEF Deps
  <2>2. CASE Top.must_make \/ opt.always_make
    BY <1>2, <1>3, <2>1, <2>2 DEF SecondOK
  <2>3. CASE ~(Top.must_make \/ opt.always_make)
    <3>1. \A j \in DOMAIN Prereqs[f] : Passed(f, j, FALSE)
      BY <1>2, <2>3 DEF SecondOK
    <3>2. \E n \in Prerequisites(f) : /\ ~Dep(n).ignore_mtime
                                      /\ Mtime(Dep(n).file) = NONEXISTENT_MTIME
                                      /\ Dep(n).file \notin intermediate
      BY <1>4, <1>5, <2>3 DEF MustMake
    <3>3. PICK j \in DOMAIN Prereqs[f] : /\ ~Dep(<<f, j>>).ignore_mtime
                                         /\ Mtime(Dep(<<f, j>>).file) = NONEXISTENT_MTIME
                                         /\ Dep(<<f, j>>).file \notin intermediate
      BY <1>1, <3>2
    <3> QED BY <3>1, <3>3 DEF Passed, Exists, Dep
  <2> QED BY <2>2, <2>3
<1>6. f \in intermediate => MustMake(f)
  <2>1. FrameOK(Top, Caller(stack, 1))
    BY <1>2, Known
  <2>2. f \in intermediate => Top.noexist /\ Top.must_make
    BY <1>2, <2>1 DEF FrameOK, OpenOK
  <2> QED BY <1>4, <2>2 DEF MustMake
<1> QED BY <1>5, <1>6

\* The file is finished without a recipe.
LEMMA FinishBuild ==
    ASSUME Plain, TypeOK, WalkInv, BuildInv, Builds, DecideFile,
           NEW f, f = Top.file, NEW result \in {us_success, us_failed}, NEW ran,
           NEW times, times = TimesSeen, NoticeFinished(f, result, ran, times),
           Return(result, FALSE), ~opt.keep_going => result = us_success,
           result = us_success /\ f \in intermediate => \A d \in Deps(f) : Good(d),
           UNCHANGED <<worldVars, considered>>
    PROVE  BuildInv'
<1>0. /\ pc = "walk" /\ Top.proc = Update1 /\ Top.at = "inter"
      /\ f \in Files /\ intermediate' = Found(Deps(f)) /\ TimesSeen = Seen(Deps(f))
      /\ Deps(f) \subseteq Files /\ f \notin Deps(f)
      /\ times \in [Files -> Times]
  BY DecidePlain
<1>1. /\ \A g \in Files : FileOK(g)
      /\ Fresh(f) /\ Looked(f)
      /\ ~opt.keep_going => \A g \in Files : update_status[g] \in {us_success, us_none}
  BY <1>0, SecondFacts
<1>2. UNCHANGED <<opt, disk, job, considered>> /\ considered \subseteq Files
  BY DEF worldVars, TypeOK
<1>3. result \in Statuses /\ result # us_none
  BY DEF us_success, us_failed, us_none, Statuses
<1>4. (\A g \in Files : FileOK(g)') /\ Calm(f)
  <2>1. NoticeFinished(f, result, ran, Seen(Deps(f)))
    BY <1>0
  <2>2. UNCHANGED <<disk, job>>
    BY <1>2
  <2>3. PICK F : F = Deps(f)
    OBVIOUS
  <2>4. /\ F \subseteq Files /\ f \notin F /\ NoticeFinished(f, result, ran, Seen(F))
        /\ intermediate' = Found(F)
    BY <1>0, <2>1, <2>3
  <2> QED BY <1>0, <1>1, <1>3, <2>2, <2>4, DecideKeeps
<1>5. /\ command_state' = [command_state EXCEPT ![f] = "finished"]
      /\ updated' = updated \cup {f}
      /\ update_status' = [update_status EXCEPT ![f] = result]
  BY <1>0, NoticePlain
<1>6. command_state \in [Files -> CommandStates] /\ update_status \in [Files -> Statuses]
  BY DEF TypeOK
<1>7. Answered(f)'
  BY <1>0, <1>5, <1>6 DEF Answered, Good, Return
<1>8. \A g \in considered' :
         /\ g \in considered
         /\ command_state[g] \in Busy => g \in updated' \/ command_state'[g] \in Busy
  BY <1>2, <1>5, <1>6
<1>9. ~opt.keep_going => \A g \in Files : update_status'[g] \in {us_success, us_none}
  BY <1>1, <1>5, <1>6
<1> QED
  BY <1>0, <1>1, <1>2, <1>4, <1>7, <1>8, <1>9, CloseReturn DEF Update1, Check

LEMMA NoNeedToRemakeBuild ==
    ASSUME Plain, TypeOK, WalkInv, BuildInv, Builds, NoNeedToRemake
    PROVE  BuildInv'
<1>1. PICK f, result, ran, times :
         /\ f = Top.file /\ result = us_success /\ ran = FALSE /\ times = TimesSeen
         /\ DecideFile /\ ~MustMake(f) /\ NoticeFinished(f, result, ran, times)
         /\ Return(result, FALSE) /\ UNCHANGED <<worldVars, considered>>
  BY DEF NoNeedToRemake
<1>2. f \notin intermediate
  BY <1>1, DecideFacts
<1> QED BY <1>1, <1>2, FinishBuild

LEMMA RemakeBlankBuild ==
    ASSUME Plain, TypeOK, WalkInv, BuildInv, Builds, RemakeBlank
    PROVE  BuildInv'
<1>1. PICK f, result, ran, times :
         /\ f = Top.file /\ result = us_success /\ ran = TRUE /\ times = TimesSeen
         /\ DecideFile /\ MustMake(f) /\ NoticeFinished(f, result, ran, times)
         /\ Return(result, FALSE) /\ UNCHANGED <<worldVars, considered>>
  BY DEF RemakeBlank
<1>2. \A d \in Deps(f) : Good(d)
  BY <1>1, DecideFacts
<1> QED BY <1>1, <1>2, FinishBuild

LEMMA RemakeWithoutRecipeBuild ==
    ASSUME Plain, TypeOK, WalkInv, BuildInv, Builds, RemakeWithoutRecipe
    PROVE  BuildInv'
<1>1. PICK f, result, ran, times :
         /\ f = Top.file /\ ran = FALSE /\ times = TimesSeen
         /\ result = IF f \in Phony \cup IsTarget THEN us_success ELSE us_failed
         /\ DecideFile /\ MustMake(f)
         /\ IF result = us_failed /\ ~opt.keep_going
               THEN /\ Die
                    /\ last_mtime' = times
                    /\ UNCHANGED <<command_state, update_status, updated>>
               ELSE NoticeFinished(f, result, ran, times) /\ Return(result, FALSE)
         /\ UNCHANGED <<worldVars, considered>>
  BY DEF RemakeWithoutRecipe
<1>2. \A d \in Deps(f) : Good(d)
  BY <1>1, DecideFacts
<1>3. CASE result = us_failed /\ ~opt.keep_going
  <2>1. /\ f \in Files /\ Deps(f) \subseteq Files
        /\ intermediate' = Found(Deps(f)) /\ TimesSeen = Seen(Deps(f))
        /\ pc = "walk"
    BY <1>1, DecidePlain
  <2>2. Peeked(Deps(f)) /\ Moved(f)
    BY <1>1, <1>3, <2>1 DEF Peeked, Moved, worldVars
  <2>3. \A g \in Files : FileOK(g)
    BY <2>1, Known DEF Walks
  <2>4. \A g \in Files : FileOK(g)'
    BY <2>1, <2>2, <2>3, PeekKeeps
  <2> QED BY <1>1, <1>3, <2>4, CloseDie
<1>4. CASE ~(result = us_failed /\ ~opt.keep_going)
  BY <1>1, <1>2, <1>4, FinishBuild
<1> QED BY <1>3, <1>4

LEMMA ExecuteFileCommandsBuild ==
    ASSUME Plain, TypeOK, WalkInv, BuildInv, Builds, ExecuteFileCommands
    PROVE  BuildInv'
<1>0. PICK f, fr :
         /\ f = Top.file /\ fr = [Top EXCEPT !.at = "remade"]
         /\ DecideFile /\ MustMake(f)
         /\ command_state' = [command_state EXCEPT ![f] = "not_started"]
         /\ last_mtime' = TimesSeen
         /\ pc' = "new_job" /\ stack' = <<fr>> \o Tail(stack)
         /\ fr \in FrameType /\ fr.proc = Update1 /\ fr.at = "remade"
         /\ fr.file = f /\ fr.dep_status = us_success
         /\ UNCHANGED <<worldVars, update_status, updated, considered, ret>>
  BY ExecutePlain
<1>1. /\ pc = "walk" /\ Top.proc = Update1 /\ Top.at = "inter"
      /\ f \in Files /\ Deps(f) \subseteq Files
      /\ intermediate' = Found(Deps(f)) /\ TimesSeen = Seen(Deps(f))
  BY <1>0, DecidePlain
<1>2. /\ \A g \in Files : FileOK(g)
      /\ Fresh(f) /\ Looked(f) /\ ~Active(f) /\ pc \in Walks /\ ~Over
  BY <1>0, <1>1, SecondFacts
<1>3. \A d \in Deps(f) : Good(d)
  BY <1>0, DecideFacts
<1>4. (\A g \in Files : FileOK(g)') /\ Calm(NoFile)
  <2>1. Peeked(Deps(f))
    BY <1>0, <1>1 DEF Peeked, worldVars
  <2>2. Moved(f)
    BY <1>0, <1>1, <1>2 DEF Moved, FileOK, StatesAgree
  <2> QED BY <1>1, <1>2, <2>1, <2>2, PeekKeeps
<1>5. /\ stack \in Seq(FrameType) /\ stack # <<>> /\ Len(stack) \in Nat /\ Len(stack) >= 1
      /\ Top = stack[1] /\ Shape(stack) /\ DOMAIN stack = 1 .. Len(stack)
  BY <1>2, WalkFacts
<1>6. /\ stack' \in Seq(FrameType) /\ stack' # <<>> /\ Len(stack') = Len(stack)
      /\ Head(stack') = fr /\ stack'[1] = fr /\ DOMAIN stack' = 1 .. Len(stack)
      /\ \A k \in 2 .. Len(stack) : stack'[k] = stack[k]
  <2>0. fr \in FrameType
    BY <1>0
  <2>1. PICK t : t = <<fr>> \o Tail(stack)
    OBVIOUS
  <2>2. /\ t \in Seq(FrameType) /\ t # <<>> /\ Len(t) = Len(stack) /\ Head(t) = fr /\ t[1] = fr
        /\ \A k \in 2 .. Len(stack) : t[k] = stack[k]
    BY <1>5, <2>0, <2>1, StackContinue
  <2> QED BY <1>0, <2>1, <2>2
<1>7. UNCHANGED <<opt, update_status, updated, considered, ret>>
  BY <1>0 DEF worldVars
<1>8. FilesInv'
  BY <1>4 DEF FilesInv, FileOK
<1>9. NoFailure'
  <2>1. ASSUME ~opt.keep_going
        PROVE  /\ \A g \in Files : update_status[g] \in {us_success, us_none}
               /\ \A k \in DOMAIN stack : stack[k].dep_status = us_success
               /\ ret.status = us_success
    BY <1>2, <2>1 DEF BuildInv, NoFailure
  <2>2. ASSUME ~opt.keep_going, NEW k \in DOMAIN stack' PROVE stack'[k].dep_status = us_success
    <3>1. CASE k = 1
      BY <1>0, <1>6, <3>1
    <3>2. CASE k # 1
      <4>1. k \in 2 .. Len(stack) /\ k \in DOMAIN stack
        BY <1>5, <1>6, <2>2, <3>2
      <4> QED BY <1>6, <2>1, <2>2, <4>1
    <3> QED BY <3>1, <3>2
  <2> QED BY <1>7, <2>1, <2>2 DEF NoFailure
<1>10. ConsideredInv'
  <2>1. ASSUME NEW g \in considered'
        PROVE  g \in updated' \/ command_state'[g] \in Busy \/ Backed(g)'
    <3>1. CASE g = f
      <4>1. Len(stack) # 1
        BY <1>1, <1>5 DEF Shape, Update, Update1
      <4>2. 2 \in 1 .. Len(stack) /\ Called(Top, stack[2])
        BY <1>2, <4>1, CalledFrom
      <4>3. 2 \in DOMAIN stack' /\ stack'[2] = stack[2]
        BY <1>5, <1>6, <4>2
      <4> QED BY <1>0, <1>1, <3>1, <4>2, <4>3 DEF Called, Backed, Update, Update1
    <3>2. CASE g # f
      <4>1. g \in considered /\ g \in Files /\ command_state'[g] = command_state[g]
        BY <1>0, <1>7, <2>1, <3>2 DEF TypeOK
      <4>2. g \in updated \/ command_state[g] \in Busy \/ Backed(g)
        BY <1>2, <4>1 DEF BuildInv, ConsideredInv, Backed
      <4>3. Backed(g) => Backed(g)'
        BY <1>0, <1>1, <1>2, BackedKept
      <4> QED BY <1>7, <4>1, <4>2, <4>3
    <3> QED BY <3>1, <3>2
  <2> QED BY <2>1 DEF ConsideredInv, Backed
<1>11. FramesInv'
  <2>1. PICK c : c = Caller(stack, 1)
    OBVIOUS
  <2>2. FrameOK(fr, c)'
    BY <1>0 DEF FrameOK, OpenOK, ScanOK, SecondOK, WaitOK, CheckOK, Scanning, Second,
                Update1, Check
  <2> QED BY <1>0, <1>2, <1>4, <1>7, <2>1, <2>2, FramesContinue DEF BuildInv
<1>12. TopInv'
  <2>1. Top' = fr
    BY <1>6 DEF Top
  <2>2. Fresh(f)' /\ Looked(f)'
    <3>1. CalmAt(NoFile, f) /\ f # NoFile
      BY <1>1, <1>4, FilesAssumption DEF Calm
    <3> QED BY <1>2, <3>1 DEF CalmAt
  <2>3. \A d \in Deps(f) : Good(d)'
    BY <1>1, <1>3, <1>4, GoodKept
  <2> QED BY <1>0, <2>1, <2>2, <2>3 DEF TopInv, Fresh, Looked, Deps
<1> QED BY <1>8, <1>9, <1>10, <1>11, <1>12 DEF BuildInv

LEMMA RemadeBuild ==
    ASSUME Plain, TypeOK, WalkInv, BuildInv, Builds, Remade
    PROVE  BuildInv'
<1>0. PICK f, result :
         /\ f = Top.file
         /\ result = IF command_state[f] # "finished" THEN us_success ELSE update_status[f]
         /\ pc = "walk" /\ pc \in Walks /\ Top.proc = Update1 /\ Top.at = "remade"
         /\ Return(result, FALSE)
         /\ updated' = IF command_state[f] # "finished" THEN updated ELSE updated \cup {f}
         /\ UNCHANGED <<worldVars, command_state, update_status, walkVars, timeVars>>
  BY DEF Remade, At, Walks, Update1
<1>1. /\ \A g \in Files : FileOK(g)
      /\ f \in Files
      /\ ~opt.keep_going => \A g \in Files : update_status[g] \in {us_success, us_none}
  BY <1>0, Known
<1>2. command_state[f] \in {"running", "finished"} /\ StatesAgree(f)
  BY <1>0, <1>1 DEF BuildInv, TopInv, FileOK
<1>3. updated' = updated
  BY <1>0, <1>2 DEF StatesAgree
<1>4. UNCHANGED <<opt, disk, job, update_status, command_state, considered, last_mtime, intermediate>>
  BY <1>0 DEF worldVars, walkVars, timeVars
<1>5. (\A g \in Files : FileOK(g)') /\ Calm(NoFile)
  <2>1. {} \subseteq Files
    OBVIOUS
  <2>2. UNCHANGED timeVars /\ UNCHANGED <<disk, job, stateVars>>
    BY <1>3, <1>4 DEF timeVars, stateVars
  <2> QED BY <1>1, <2>1, <2>2, LookKeeps
<1>6. ~opt.keep_going => result = us_success
  BY <1>0, <1>1, <1>2 DEF StatesAgree
<1>7. Answered(f)'
  BY <1>0, <1>2, <1>3, <1>4 DEF Answered, Good, Busy, StatesAgree, Return
<1> QED
  BY <1>0, <1>1, <1>3, <1>4, <1>5, <1>6, <1>7, CloseReturn DEF Update1, Check

--------------------------------------------------------------------------------
(* check_dep *)

LEMMA CheckOrdinaryBuild ==
    ASSUME Plain, TypeOK, WalkInv, BuildInv, Builds, CheckOrdinary
    PROVE  BuildInv'
<1>0. PICK f, e, fr :
         /\ f = Top.file
         /\ e = Frame("update_file", f, UNKNOWN_MTIME, FALSE)
         /\ fr = [Top EXCEPT !.at = "updated"]
         /\ pc = "walk" /\ Top.proc = Check /\ Top.at = "enter" /\ f \in Files
         /\ f \in Phony \/ f \notin intermediate
         /\ Call(e, fr) /\ fr \in FrameType /\ e \in FrameType
         /\ fr.file = f /\ fr.proc = Check /\ fr.at = "updated"
         /\ fr.dep_status = Top.dep_status
         /\ e.file = f /\ e.proc = Update /\ e.at = "enter" /\ e.dep_status = us_success
         /\ UNCHANGED <<worldVars, stateVars, considered, timeVars>>
  BY CheckOrdinaryPlain
<1>1. (\A g \in Files : FileOK(g)) /\ pc \in Walks
  BY <1>0, Known DEF Walks
<1>2. UNCHANGED <<opt, command_state, update_status, considered>>
  BY <1>0 DEF worldVars, stateVars
<1>3. (\A g \in Files : FileOK(g)') /\ Calm(NoFile)
  <2>1. {} \subseteq Files /\ UNCHANGED timeVars /\ UNCHANGED <<disk, job, stateVars>>
    BY <1>0 DEF worldVars
  <2> QED BY <1>1, <2>1, LookKeeps
<1>4. PICK c : c = Caller(stack, 1)
  OBVIOUS
<1>5. FrameOK(fr, c) /\ FrameOK(e, fr.proc)
  BY <1>0 DEF FrameOK, OpenOK, ScanOK, SecondOK, WaitOK, CheckOK, Scanning, Second,
              Update, Update1, Check
<1>6. FrameOK(fr, c)'
  BY <1>0, <1>2, <1>3, <1>5, FrameCalm
<1>7. FrameOK(e, fr.proc)'
  BY <1>0 DEF FrameOK, OpenOK, ScanOK, SecondOK, WaitOK, CheckOK, Scanning, Second,
              Update, Update1, Check
<1>8. Top.proc # Update /\ fr.at # "inter_back"
  BY <1>0 DEF Update, Check
<1> QED
  BY <1>0, <1>1, <1>2, <1>3, <1>4, <1>6, <1>7, <1>8, CloseCall

LEMMA OrdinaryUpdatedBuild ==
    ASSUME Plain, TypeOK, WalkInv, BuildInv, Builds, OrdinaryUpdated
    PROVE  BuildInv'
<1>0. PICK f, result, must_make :
         /\ f = Top.file /\ result = ret.status
         /\ must_make = (Top.must_make \/ Renewed(Mtime(f), Top.this_mtime))
         /\ pc = "walk" /\ pc \in Walks /\ Top.proc = Check /\ Top.at = "updated" /\ f \in Files
         /\ Return(result, must_make)
         /\ Look({f})
         /\ UNCHANGED <<worldVars, stateVars, considered>>
  BY OrdinaryUpdatedPlain DEF Walks
<1>1. /\ \A g \in Files : FileOK(g)
      /\ ~opt.keep_going => /\ ret.status = us_success
                            /\ \A g \in Files : update_status[g] \in {us_success, us_none}
  BY <1>0, Known
<1>2. UNCHANGED <<opt, disk, job, update_status, command_state, updated, considered>>
  BY <1>0 DEF worldVars, stateVars
<1>3. (\A g \in Files : FileOK(g)') /\ Calm(NoFile)
  <2>1. {f} \subseteq Files /\ UNCHANGED <<disk, job, stateVars>>
    BY <1>0 DEF worldVars
  <2> QED BY <1>0, <1>1, <2>1, LookKeeps
<1>4. Answered(f)
  BY <1>0 DEF BuildInv, TopInv
<1>5. Learned(f)'
  <2>1. ret'.status = result /\ ret'.must_make = must_make
    BY <1>0 DEF Return
  <2>2. last_mtime'[f] = Mtime(f) /\ Mtime(f) # UNKNOWN_MTIME
    BY <1>0, LookedNow
  <2>3. ASSUME ~must_make PROVE Exists(f)'
    <3>1. Mtime(f) # NONEXISTENT_MTIME
      BY <1>0, <2>3 DEF Renewed
    <3> QED BY <1>0, <2>2, <3>1, ExistsWhen
  <2>4. must_make \in BOOLEAN
    <3>1. Top.must_make \in BOOLEAN
      BY <1>0, Known DEF FrameType
    <3> QED BY <1>0, <3>1 DEF Renewed
  <2> QED BY <1>0, <1>2, <1>4, <2>1, <2>3, <2>4 DEF Answered, Learned, Good
<1> QED
  BY <1>0, <1>1, <1>2, <1>3, <1>5, CloseReturn DEF Check

LEMMA CheckIntermediateBuild ==
    ASSUME Plain, TypeOK, WalkInv, BuildInv, Builds, CheckIntermediate
    PROVE  BuildInv'
<1>0. PICK f, fr, newer :
         /\ f = Top.file
         /\ newer = (Mtime(f) # NONEXISTENT_MTIME /\ Mtime(f) > Top.this_mtime)
         /\ pc = "walk" /\ pc \in Walks /\ Top.proc = Check /\ Top.at = "enter" /\ f \in Files
         /\ f \notin Phony /\ f \in intermediate
         /\ Look({f})
         /\ fr \in FrameType /\ fr.proc = Check /\ fr.at = "deps"
         /\ fr.file = f /\ fr.dep_status = Top.dep_status
         /\ fr.running = Top.running
         /\ newer => Return(Top.dep_status, TRUE) /\ UNCHANGED <<command_state, considered>>
         /\ ~newer =>
               /\ Continue(fr)
               /\ command_state' = IF command_state[f] = "running" THEN command_state
                                   ELSE [command_state EXCEPT ![f] = "not_started"]
               /\ considered' = IF command_state[f] = "deps_running"
                                   THEN considered \ {f} ELSE considered
         /\ UNCHANGED <<worldVars, update_status, updated>>
  BY CheckIntermediatePlain DEF Walks
<1>9. PICK c : c = Caller(stack, 1)
  OBVIOUS
<1>1. /\ \A g \in Files : FileOK(g)
      /\ FrameOK(Top, c)
      /\ ~opt.keep_going => /\ Top.dep_status = us_success
                            /\ \A g \in Files : update_status[g] \in {us_success, us_none}
  BY <1>0, <1>9, Known
<1>2. UNCHANGED <<opt, disk, job, update_status, updated>>
  BY <1>0 DEF worldVars
<1>3. ~Top.running /\ (c = Update1 => Looked(f))
  BY <1>0, <1>1 DEF FrameOK, CheckOK
<1>4. (\A g \in Files : FileOK(g)') /\ Calm(NoFile)
  <2>1. Peeked({f})
    BY <1>0, <1>2 DEF Peeked, Look
  <2>2. Moved(f)
    BY <1>0 DEF Moved
  <2>3. {f} \subseteq Files
    BY <1>0
  <2> QED BY <1>0, <1>1, <2>1, <2>2, <2>3, PeekKeeps
<1>5. f \in Intermediates
  BY <1>0 DEF TypeOK
<1>6. ASSUME c = Update1 \/ f \in updated' \/ Active(f)' PROVE Good(f)' \/ Unmade(f)'
  <2>1. Looked(f)
    <3>1. StatesAgree(f)
      BY <1>0, <1>1 DEF FileOK
    <3> QED BY <1>2, <1>3, <1>6, <3>1 DEF StatesAgree, Looked, Active
  <2>2. Unmade(f)
    BY <1>0, <2>1 DEF Unmade
  <2>3. CalmAt(NoFile, f)
    BY <1>0, <1>4 DEF Calm
  <2> QED BY <2>2, <2>3 DEF CalmAt
<1>7. CASE newer
  <2>0. PICK result, must_make :
           result = Top.dep_status /\ must_make = TRUE /\ Return(result, must_make)
    BY <1>0, <1>7
  <2>1. UNCHANGED <<command_state, considered>>
    BY <1>0, <1>7
  <2>2. ASSUME c = Update1 PROVE Learned(f)'
    <3>1. ret'.status = result /\ ret'.must_make = TRUE
      BY <2>0 DEF Return
    <3>2. Good(f)' \/ Unmade(f)'
      BY <1>6, <2>2
    <3> QED BY <1>5, <3>1, <3>2 DEF Learned
  <2>3. \A g \in considered' :
           /\ g \in considered
           /\ command_state[g] \in Busy => g \in updated' \/ command_state'[g] \in Busy
    BY <2>1
  <2>4. ~opt.keep_going => /\ result = us_success
                           /\ \A g \in Files : update_status'[g] \in {us_success, us_none}
    BY <1>1, <1>2, <2>0
  <2> QED
    BY <1>0, <1>2, <1>4, <1>9, <2>0, <2>2, <2>3, <2>4, CloseReturn DEF Check
<1>8. CASE ~newer
  <2>1. \A g \in considered' :
           g \in considered /\ (command_state[g] \in Busy => command_state'[g] \in Busy)
    <3>1. command_state \in [Files -> CommandStates] /\ considered \subseteq Files
      BY DEF TypeOK
    <3> QED BY <1>0, <1>8, <3>1 DEF Busy
  <2>2. CheckOK(fr, c)'
    <3>1. Looked(f)'
      BY <1>0, LookedNow
    <3>2. ASSUME Good(f)' \/ Active(f)' PROVE ~fr.running /\ \A d \in Deps(f) : Good(d)'
      <4>1. Good(f) \/ Active(f)
        BY <1>2, <3>2 DEF Good, Active
      <4>2. \A d \in Deps(f) : Good(d)
        BY <1>0, <1>1, <4>1 DEF FileOK, MadeFromMade
      <4> QED BY <1>0, <1>3, <1>4, <4>2, DepsFiles, GoodKept
    <3> QED BY <1>0, <1>5, <1>6, <3>1, <3>2 DEF CheckOK, Deps
  <2>3. FrameOK(fr, c)'
    BY <1>0, <2>2 DEF FrameOK, OpenOK, ScanOK, SecondOK, WaitOK, Scanning, Second, Update1, Check
  <2>4. Continue(fr) /\ Top.proc # Update /\ (~opt.keep_going => fr.dep_status = us_success)
    BY <1>0, <1>1, <1>8 DEF Update, Check
  <2> QED
    BY <1>0, <1>2, <1>4, <1>9, <2>1, <2>3, <2>4, CloseContinue
<1> QED BY <1>0, <1>7, <1>8

LEMMA CheckPrereqOfIntermediateBuild ==
    ASSUME Plain, TypeOK, WalkInv, BuildInv, Builds, CheckPrereqOfIntermediate
    PROVE  BuildInv'
<1>0. PICK d, e, fr :
         /\ d = Dep(Top.du).file
         /\ e = Frame("check_dep", d, Top.this_mtime, Top.must_make)
         /\ fr = [Top EXCEPT !.at = "dep_back"]
         /\ pc = "walk" /\ Top.proc = Check /\ Top.at = "deps"
         /\ d \in Files /\ Call(e, fr) /\ fr \in FrameType /\ e \in FrameType
         /\ UNCHANGED <<worldVars, fileVars>>
  BY CheckPrereqOfIntermediatePlain
<1>9. PICK c : c = Caller(stack, 1)
  OBVIOUS
<1>1. (\A g \in Files : FileOK(g)) /\ pc \in Walks /\ Top \in FrameType /\ FrameOK(Top, c)
  BY <1>0, <1>9, Known DEF Walks
<1>2. UNCHANGED <<opt, command_state, update_status, considered>>
  BY <1>0 DEF worldVars, fileVars, stateVars, walkVars
<1>3. (\A g \in Files : FileOK(g)') /\ Calm(NoFile)
  <2>1. {} \subseteq Files
    OBVIOUS
  <2>2. UNCHANGED timeVars /\ UNCHANGED <<disk, job, stateVars>>
    BY <1>0 DEF worldVars, fileVars
  <2> QED BY <1>1, <2>1, <2>2, LookKeeps
<1>4. /\ fr.proc = Check /\ fr.at = "dep_back" /\ fr.file = Top.file
      /\ fr.dep_status = Top.dep_status /\ fr.running = Top.running
  BY <1>0, <1>1 DEF FrameType
<1>5. /\ e.proc = Check /\ e.at = "enter" /\ e.file = d /\ e.dep_status = us_success
      /\ e.running = FALSE
  BY <1>0 DEF Frame, Check
<1>6. CheckOK(fr, c)
  BY <1>0, <1>1, <1>4 DEF FrameOK, CheckOK
<1>7. FrameOK(fr, c)
  BY <1>4, <1>6 DEF FrameOK, OpenOK, ScanOK, SecondOK, WaitOK, Scanning, Second, Update1, Check
<1>8. FrameOK(fr, c)'
  BY <1>0, <1>2, <1>3, <1>7, FrameCalm
<1>10. FrameOK(e, fr.proc)'
  BY <1>4, <1>5 DEF FrameOK, OpenOK, ScanOK, SecondOK, WaitOK, CheckOK, Scanning, Second,
                    Update1, Check
<1>11. Top.proc # Update /\ fr.at # "inter_back"
  BY <1>0, <1>4 DEF Update, Check
<1> QED
  BY <1>0, <1>1, <1>2, <1>3, <1>4, <1>5, <1>8, <1>9, <1>10, <1>11, CloseCall

LEMMA PrereqOfIntermediateCheckedBuild ==
    ASSUME Plain, TypeOK, WalkInv, BuildInv, Builds, PrereqOfIntermediateChecked
    PROVE  BuildInv'
<1>0. PICK fr \in FrameType : \E f, n, d, worst :
         /\ f = Top.file /\ n = Top.du /\ d = Dep(n).file
         /\ worst = Worse(Top.dep_status, ret.status)
         /\ pc = "walk" /\ Top.proc = Check /\ Top.at = "dep_back" /\ n # NoDep
         /\ d \in Files
         /\ Continue(fr)
         /\ fr.proc = Check /\ fr.at = "deps" /\ fr.file = f
         /\ fr.dep_status = worst
         /\ ~(worst # us_success /\ ~opt.keep_going) =>
               (fr.running <=> Top.running \/ command_state[d] \in Busy)
         /\ UNCHANGED <<worldVars, fileVars>>
  BY PrereqOfIntermediateCheckedPlain
<1>00. PICK f, n, d, worst :
         /\ f = Top.file /\ n = Top.du /\ d = Dep(n).file
         /\ worst = Worse(Top.dep_status, ret.status)
         /\ pc = "walk" /\ Top.proc = Check /\ Top.at = "dep_back" /\ n # NoDep
         /\ d \in Files
         /\ Continue(fr)
         /\ fr.proc = Check /\ fr.at = "deps" /\ fr.file = f
         /\ fr.dep_status = worst
         /\ ~(worst # us_success /\ ~opt.keep_going) =>
               (fr.running <=> Top.running \/ command_state[d] \in Busy)
         /\ UNCHANGED <<worldVars, fileVars>>
  BY <1>0
<1>9. PICK c : c = Caller(stack, 1)
  OBVIOUS
<1>1. /\ \A g \in Files : FileOK(g)
      /\ Top \in FrameType /\ pc \in Walks /\ FrameOK(Top, c) /\ f \in Files
      /\ ~opt.keep_going => Top.dep_status = us_success /\ ret.status = us_success
  BY <1>00, <1>9, Known DEF Walks
<1>2. UNCHANGED <<opt, command_state, update_status, considered>>
  BY <1>00 DEF worldVars, fileVars, stateVars, walkVars
<1>3. (\A g \in Files : FileOK(g)') /\ Calm(NoFile)
  <2>1. {} \subseteq Files
    OBVIOUS
  <2>2. UNCHANGED timeVars /\ UNCHANGED <<disk, job, stateVars>>
    BY <1>00 DEF worldVars, fileVars
  <2> QED BY <1>1, <2>1, <2>2, LookKeeps
<1>4. worst = us_success <=> Top.dep_status = us_success /\ ret.status = us_success
  <2>1. Top.dep_status \in Statuses /\ ret.status \in Statuses
    BY <1>1 DEF TypeOK, FrameType
  <2> QED BY <1>00, <2>1, WorstOf
<1>5. fr.running <=> Top.running \/ command_state[d] \in Busy
  BY <1>00, <1>1, <1>4
<1>6. d \in Deps(f)
  <2>1. n[2] \in DOMAIN Prereqs[f] /\ Dep(n) = Prereqs[f][n[2]]
    BY <1>00, <1>1, AtNode
  <2> QED BY <1>00, <2>1 DEF Deps
<1>7. CheckOK(fr, c)
  <2>1. /\ f \in Intermediates \ Phony /\ Looked(f)
        /\ c = Update1 \/ f \in updated \/ Active(f) => Good(f) \/ Unmade(f)
        /\ Good(f) \/ Active(f) => ~Top.running /\ \A g \in Deps(f) : Good(g)
    BY <1>00, <1>1 DEF FrameOK, CheckOK
  <2>2. Good(d) => command_state[d] \notin Busy
    BY <1>00, <1>1 DEF FileOK, StatesAgree
  <2> QED BY <1>00, <1>5, <1>6, <2>1, <2>2 DEF CheckOK
<1>8. FrameOK(fr, c)
  BY <1>00, <1>7 DEF FrameOK, OpenOK, ScanOK, SecondOK, WaitOK, Scanning, Second, Update1, Check
<1>10. FrameOK(fr, c)'
  BY <1>2, <1>3, <1>8, FrameCalm
<1>11. (~opt.keep_going => fr.dep_status = us_success) /\ Top.proc # Update
  BY <1>00, <1>1, <1>4 DEF Update, Check
<1> QED
  BY <1>00, <1>1, <1>2, <1>3, <1>9, <1>10, <1>11, CloseContinue

LEMMA IntermediateCheckedBuild ==
    ASSUME Plain, TypeOK, WalkInv, BuildInv, Builds, IntermediateChecked
    PROVE  BuildInv'
<1>0. PICK f, result, must_make :
         /\ f = Top.file /\ result = Top.dep_status /\ must_make = Top.must_make
         /\ pc = "walk" /\ pc \in Walks /\ Top.proc = Check /\ Top.at = "deps" /\ f \in Files
         /\ command_state' = IF Top.running
                                THEN [command_state EXCEPT ![f] = "deps_running"]
                                ELSE command_state
         /\ Return(result, must_make)
         /\ UNCHANGED <<worldVars, update_status, updated, considered, timeVars>>
  BY IntermediateCheckedPlain DEF Walks
<1>9. PICK c : c = Caller(stack, 1)
  OBVIOUS
<1>1. /\ \A g \in Files : FileOK(g)
      /\ FrameOK(Top, c)
      /\ ~opt.keep_going => /\ Top.dep_status = us_success
                            /\ \A g \in Files : update_status[g] \in {us_success, us_none}
  BY <1>0, <1>9, Known
<1>2. UNCHANGED <<opt, disk, job, update_status, updated, considered, last_mtime, intermediate>>
  BY <1>0 DEF worldVars, timeVars
<1>3. /\ f \in Intermediates \ Phony /\ Looked(f)
      /\ c = Update1 \/ f \in updated \/ Active(f) => Good(f) \/ Unmade(f)
      /\ Good(f) \/ Active(f) => ~Top.running
  BY <1>0, <1>1 DEF FrameOK, CheckOK
<1>4. (\A g \in Files : FileOK(g)') /\ Calm(NoFile)
  <2>1. Peeked({})
    BY <1>2, NothingSeen DEF Peeked
  <2>2. Moved(f)
    BY <1>0, <1>3 DEF Moved, Unmade
  <2>3. {} \subseteq Files
    OBVIOUS
  <2> QED BY <1>0, <1>1, <2>1, <2>2, <2>3, PeekKeeps
<1>5. ASSUME c = Update1 PROVE Learned(f)'
  <2>1. Good(f)' \/ Unmade(f)'
    BY <1>2, <1>3, <1>5 DEF Good, Unmade, Looked
  <2>2. f \in intermediate' \/ Exists(f)'
    BY <1>0, <1>3, <1>4 DEF FileOK, TimesAgree
  <2> QED BY <1>3, <2>1, <2>2 DEF Learned
<1>6. \A g \in considered' :
         /\ g \in considered
         /\ command_state[g] \in Busy => g \in updated' \/ command_state'[g] \in Busy
  <2>1. command_state \in [Files -> CommandStates] /\ considered \subseteq Files
    BY DEF TypeOK
  <2> QED BY <1>0, <1>2, <2>1 DEF Busy
<1> QED
  BY <1>0, <1>1, <1>2, <1>4, <1>5, <1>6, <1>9, CloseReturn DEF Check

--------------------------------------------------------------------------------
(* Recipes and goals *)

\* The calls under way stay where they are.
LEMMA CloseSame ==
    ASSUME Plain, TypeOK, WalkInv, BuildInv, Builds, pc # "exit", Over => Over',
           UNCHANGED <<opt, considered, stack, ret>>,
           \A g \in Files : FileOK(g)', NEW own, Calm(own),
           own = NoFile \/ (pc \in Walks /\ own = Top.file /\ Top.at = "remade"),
           ~opt.keep_going /\ ~Over => \A g \in Files : update_status'[g] \in {us_success, us_none},
           \A g \in Files : command_state[g] \in Busy => g \in updated' \/ command_state'[g] \in Busy,
           TopInv'
    PROVE  BuildInv'
<1>1. FilesInv'
  BY DEF FilesInv, FileOK
<1>2. NoFailure'
  <2>1. ASSUME ~Over', ~opt'.keep_going
        PROVE  /\ \A f \in Files : update_status'[f] \in {us_success, us_none}
               /\ \A k \in DOMAIN stack' : stack'[k].dep_status = us_success
               /\ ret'.status = us_success
    <3>1. ~Over /\ ~opt.keep_going /\ stack' = stack /\ ret' = ret
      BY <2>1
    <3>2. (\A k \in DOMAIN stack : stack[k].dep_status = us_success) /\ ret.status = us_success
      BY <3>1 DEF BuildInv, NoFailure
    <3> QED BY <3>1, <3>2
  <2> QED BY <2>1 DEF NoFailure
<1>3. ConsideredInv'
  <2>1. ASSUME ~Over', NEW g \in considered'
        PROVE  g \in updated' \/ command_state'[g] \in Busy \/ Backed(g)'
    <3>1. g \in considered /\ g \in Files /\ ~Over
      BY <2>1 DEF TypeOK
    <3>2. g \in updated \/ command_state[g] \in Busy \/ Backed(g)
      BY <3>1 DEF BuildInv, ConsideredInv, Backed
    <3>3. g \in updated => g \in updated'
      BY <3>1 DEF Calm, CalmAt
    <3>4. Backed(g) => Backed(g)'
      BY DEF Backed
    <3> QED BY <3>1, <3>2, <3>3, <3>4
  <2> QED BY <2>1 DEF ConsideredInv, Backed
<1>4. FramesInv'
  BY FramesSame DEF BuildInv
<1> QED BY <1>1, <1>2, <1>3, <1>4 DEF BuildInv

\* What the innermost call relies on is left alone by what happens beside the walk.
LEMMA TopKept ==
    ASSUME Plain, TypeOK, WalkInv, BuildInv, pc \in Walks, Calm(NoFile),
           UNCHANGED <<pc, stack, ret, considered, command_state, updated, update_status,
                       intermediate, last_mtime>>
    PROVE  TopInv'
<1>0. Top' = Top /\ Len(stack') = Len(stack) /\ stack' = stack /\ Top.file \in Files /\ TopInv
  BY WalkFacts DEF Top, BuildInv
<1>1. ASSUME pc' = "new_job"
      PROVE  /\ Fresh(Top.file)' /\ Looked(Top.file)'
             /\ \A d \in Deps(Top.file)' : Good(d)'
  <2>1. PICK f : f = Top.file
    OBVIOUS
  <2>2. Fresh(f) /\ Looked(f) /\ (\A d \in Deps(f) : Good(d)) /\ f \in Files
    BY <1>0, <1>1, <2>1 DEF TopInv
  <2>3. CalmAt(NoFile, f) /\ f # NoFile
    BY <2>2, FilesAssumption DEF Calm
  <2>4. Fresh(f)' /\ Looked(f)'
    BY <2>2, <2>3 DEF CalmAt
  <2>5. \A d \in Deps(f) : Good(d)'
    BY <2>2, DepsFiles, GoodKept
  <2>6. Top'.file = f
    BY <1>0, <2>1
  <2> QED BY <2>4, <2>5, <2>6 DEF Fresh, Looked, Deps
<1>2. ASSUME pc' = "linear" \/ (pc' = "walk" /\ Top'.at = "remade")
      PROVE  command_state'[Top'.file] \in {"running", "finished"}
  BY <1>0, <1>2 DEF TopInv
<1>3. ASSUME NEW d, Answered(d) PROVE Answered(d)'
  BY <1>3 DEF Answered, Good
<1>4. ASSUME NEW d \in Files, Learned(d) PROVE Learned(d)'
  <2>1. CalmAt(NoFile, d)
    BY DEF Calm
  <2> QED BY <1>4, <2>1 DEF Learned, Good, Unmade, Looked, CalmAt
<1>5. ASSUME pc' = "walk", Top'.at \in {"back", "updated"} PROVE Answered(Top.file)'
  <2>1. PICK f : f = Top.file /\ f = Top'.file
    BY <1>0
  <2>2. Answered(f)
    BY <1>0, <1>5, <2>1 DEF TopInv
  <2>3. Answered(f)'
    BY <1>3, <2>2
  <2> QED BY <2>1, <2>3
<1>6. ASSUME pc' = "walk", Top'.at = "inter_back" PROVE Answered(Dep(Top.du).file)'
  <2>1. PICK f : f = Dep(Top.du).file /\ f = Dep(Top'.du).file
    BY <1>0
  <2>2. Answered(f)
    BY <1>0, <1>6, <2>1 DEF TopInv
  <2>3. Answered(f)'
    BY <1>3, <2>2
  <2> QED BY <2>1, <2>3
<1>7. ASSUME pc' = "walk", Top'.proc = Update1, Top'.at = "dep_back"
      PROVE  Learned(Dep(Top.du).file)'
  <2>1. PICK f : f = Dep(Top.du).file /\ f = Dep(Top'.du).file
    BY <1>0
  <2>2. Learned(f)
    BY <1>0, <1>7, <2>1 DEF TopInv
  <2>3. f \in Files
    <3>1. Top.du # NoDep
      BY <1>0, <1>7, WalkFacts DEF FrameShape
    <3> QED BY <2>1, <3>1, WalkFacts
  <2>4. Learned(f)'
    BY <1>4, <2>2, <2>3
  <2> QED BY <2>1, <2>4
<1>8. ASSUME pc' = "walk", Top'.proc = Update, Top'.at = "enter", Len(stack') > 1,
             stack'[2].at = "inter_back"
      PROVE  Top'.file \notin considered'
  BY <1>0, <1>8 DEF TopInv
<1> QED BY <1>1, <1>2, <1>5, <1>6, <1>7, <1>8 DEF TopInv

LEMMA ReapBuild ==
    ASSUME Plain, TypeOK, WalkInv, BuildInv, Builds, NEW f \in Files, Reap(f)
    PROVE  BuildInv'
<1>0. PICK result, ran, times :
         /\ result = IF job[f] = "ok" THEN us_success ELSE us_failed
         /\ ran = TRUE /\ times = last_mtime
         /\ NoticeFinished(f, result, ran, times)
         /\ pc \in {"round", "reaping", "new_job", "linear", "end"}
         /\ job[f] \in {"ok", "fail"}
         /\ IF job[f] = "fail" /\ ~opt.keep_going /\ pc # "end"
               THEN Die
               ELSE /\ pc' = IF pc = "round" THEN "reaping" ELSE pc
                    /\ UNCHANGED <<stack, ret>>
         /\ UNCHANGED <<opt, walkVars>>
  BY DEF Reap, Ended
<1>1. (\A g \in Files : FileOK(g)) /\ UNCHANGED <<opt, considered>>
  BY <1>0 DEF BuildInv, FilesInv, FileOK, walkVars
<1>2. (\A g \in Files : FileOK(g)') /\ Calm(NoFile)
  BY <1>1, ReapKeeps
<1>3. CASE job[f] = "fail" /\ ~opt.keep_going /\ pc # "end"
  BY <1>0, <1>2, <1>3, CloseDie
<1>4. CASE ~(job[f] = "fail" /\ ~opt.keep_going /\ pc # "end")
  <2>1. pc' = (IF pc = "round" THEN "reaping" ELSE pc) /\ UNCHANGED <<stack, ret>>
    BY <1>0, <1>4
  <2>2. /\ command_state' = [command_state EXCEPT ![f] = "finished"]
        /\ updated' = updated \cup {f}
        /\ update_status' = [update_status EXCEPT ![f] = result]
    <3>1. times \in [Files -> Times]
      BY <1>0 DEF TypeOK
    <3> QED BY <1>0, <3>1, NoticePlain
  <2>3. command_state \in [Files -> CommandStates] /\ update_status \in [Files -> Statuses]
    BY DEF TypeOK
  <2>4. \A g \in Files : command_state[g] \in Busy => g \in updated' \/ command_state'[g] \in Busy
    BY <2>2, <2>3
  <2>5. ASSUME ~opt.keep_going, pc # "end"
        PROVE  \A g \in Files : update_status'[g] \in {us_success, us_none}
    <3>1. \A g \in Files : update_status[g] \in {us_success, us_none}
      BY <1>0, <2>5 DEF BuildInv, NoFailure, Over
    <3>2. result = us_success
      BY <1>0, <1>4, <2>5
    <3> QED BY <2>2, <2>3, <3>1, <3>2
  <2>6. CASE pc \in {"round", "reaping", "end"}
    <3>1. \A g \in considered' :
             /\ g \in considered
             /\ command_state[g] \in Busy => g \in updated' \/ command_state'[g] \in Busy
      BY <1>1, <2>4 DEF TypeOK
    <3>2. /\ pc \notin Walks /\ pc' \notin Walks /\ pc # "exit" /\ pc' # "exit"
          /\ pc # "end" \/ pc' \in {"end", "exit"}
          /\ pc' \notin {"end", "exit"} => pc # "end"
      BY <2>1, <2>6 DEF Walks
    <3> QED BY <1>1, <1>2, <2>1, <2>5, <3>1, <3>2, CloseIdle
  <2>7. CASE pc \in {"new_job", "linear"}
    <3>0. pc' = pc /\ pc \in Walks /\ ~Over /\ pc # "exit" /\ pc # "end"
      BY <2>1, <2>7 DEF Walks, Over
    <3>1. PICK g : g = Top.file /\ g \in Files
      BY <3>0, WalkFacts
    <3>2. Top' = Top
      BY <2>1 DEF Top
    <3>3. ASSUME pc = "new_job" PROVE TopInv'
      <4>1. Fresh(g) /\ Looked(g) /\ \A d \in Deps(g) : Good(d)
        BY <3>1, <3>3 DEF BuildInv, TopInv
      <4>2. CalmAt(NoFile, g) /\ g # NoFile
        BY <1>2, <3>1, FilesAssumption DEF Calm
      <4>3. Fresh(g)' /\ Looked(g)'
        BY <4>1, <4>2 DEF CalmAt
      <4>4. \A d \in Deps(g) : Good(d)'
        BY <1>2, <3>1, <4>1, DepsFiles, GoodKept
      <4> QED BY <3>0, <3>1, <3>2, <3>3, <4>3, <4>4 DEF TopInv, Fresh, Looked, Deps
    <3>4. ASSUME pc = "linear" PROVE TopInv'
      <4>1. command_state[g] \in {"running", "finished"}
        BY <3>1, <3>4 DEF BuildInv, TopInv
      <4>2. command_state'[g] \in {"running", "finished"}
        BY <2>2, <2>3, <3>1, <4>1
      <4> QED BY <3>0, <3>1, <3>2, <3>4, <4>2 DEF TopInv
    <3>5. TopInv'
      BY <2>7, <3>3, <3>4
    <3>6. PICK own : own = NoFile
      OBVIOUS
    <3>7. Calm(own)
      BY <1>2, <3>6
    <3> QED BY <1>1, <1>2, <2>1, <2>4, <2>5, <3>0, <3>5, <3>6, <3>7, CloseSame
  <2> QED BY <1>0, <2>6, <2>7
<1> QED BY <1>3, <1>4

LEMMA StartRecipeBuild ==
    ASSUME Plain, TypeOK, WalkInv, BuildInv, StartRecipe
    PROVE  BuildInv'
<1>0. PICK f :
         /\ f = Top.file /\ f \in Files /\ Builds
         /\ pc = "new_job" /\ pc \in Walks /\ ~Over /\ pc # "exit" /\ pc' = "linear"
         /\ job' = [job EXCEPT ![f] = "running"]
         /\ command_state' = [command_state EXCEPT ![f] = "running"]
         /\ UNCHANGED <<opt, disk, update_status, updated, walkVars, timeVars, stack, ret>>
  BY StartRecipePlain DEF Walks, Over
<1>1. /\ \A g \in Files : FileOK(g)
      /\ ~opt.keep_going => \A g \in Files : update_status[g] \in {us_success, us_none}
  BY <1>0, Known
<1>2. Fresh(f) /\ Looked(f) /\ \A d \in Deps(f) : Good(d)
  BY <1>0 DEF BuildInv, TopInv
<1>3. UNCHANGED <<disk, updated, update_status, last_mtime, intermediate, considered>>
  BY <1>0 DEF walkVars, timeVars
<1>4. (\A g \in Files : FileOK(g)') /\ Calm(f)
  BY <1>0, <1>1, <1>2, <1>3, StartKeeps
<1>5. command_state \in [Files -> CommandStates]
  BY DEF TypeOK
<1>6. TopInv'
  <2>1. Top' = Top
    BY <1>0 DEF Top
  <2>2. command_state'[f] = "running"
    BY <1>0, <1>5
  <2> QED BY <1>0, <2>1, <2>2 DEF TopInv
<1>7. Top.at = "remade"
  BY <1>0 DEF WalkInv, ControlInv
<1>8. \A g \in Files : command_state[g] \in Busy => g \in updated' \/ command_state'[g] \in Busy
  BY <1>0, <1>5 DEF Busy
<1> QED BY <1>0, <1>1, <1>3, <1>4, <1>6, <1>7, <1>8, CloseSame

LEMMA NewJobReturnsBuild ==
    ASSUME Plain, TypeOK, WalkInv, BuildInv, Builds, NewJobReturns
    PROVE  BuildInv'
<1>0. /\ pc = "linear" /\ pc \in Walks /\ ~Over /\ pc # "exit" /\ pc' = "walk"
      /\ UNCHANGED <<worldVars, fileVars, stack, ret>>
  BY DEF NewJobReturns, Walks, Over
<1>1. /\ \A g \in Files : FileOK(g)
      /\ ~opt.keep_going => \A g \in Files : update_status[g] \in {us_success, us_none}
  BY <1>0, Known
<1>2. UNCHANGED <<opt, disk, job, command_state, updated, update_status, considered>>
  BY <1>0 DEF worldVars, fileVars, stateVars, walkVars
<1>3. (\A g \in Files : FileOK(g)') /\ Calm(NoFile)
  <2>1. {} \subseteq Files
    OBVIOUS
  <2>2. UNCHANGED timeVars /\ UNCHANGED <<disk, job, stateVars>>
    BY <1>0 DEF worldVars, fileVars
  <2> QED BY <1>1, <2>1, <2>2, LookKeeps
<1>4. Top.at = "remade" /\ Top' = Top
  BY <1>0 DEF WalkInv, ControlInv, Top
<1>5. TopInv'
  BY <1>0, <1>2, <1>4 DEF BuildInv, TopInv
<1> QED BY <1>0, <1>1, <1>2, <1>3, <1>5, CloseSame

LEMMA RecipeEndsBuild ==
    ASSUME Plain, TypeOK, WalkInv, BuildInv, Builds, NEW f \in Files, RecipeEnds(f)
    PROVE  BuildInv'
<1>1. /\ UNCHANGED <<opt, pc, stack, ret, considered, command_state, updated, update_status,
                     intermediate, last_mtime>>
      /\ job[f] = "running"
  BY DEF RecipeEnds, fileVars, stateVars, walkVars, timeVars, ctlVars
<1>2. CASE pc = "exit"
  <2>1. stack = <<>> /\ stack' = <<>>
    BY <1>1, <1>2 DEF WalkInv, ControlInv
  <2> QED BY <1>1, <1>2, <2>1 DEF BuildInv, FilesInv, NoFailure, ConsideredInv, FramesInv, TopInv, Over
<1>3. CASE pc # "exit"
  <2>1. \A g \in Files : FileOK(g)
    BY <1>3 DEF BuildInv, FilesInv, FileOK
  <2>2. (\A g \in Files : FileOK(g)') /\ Calm(NoFile)
    BY <2>1, EndKeeps
  <2>3. TopInv'
    <3>1. CASE pc \in Walks
      BY <1>1, <2>2, <3>1, TopKept
    <3>2. CASE pc \notin Walks
      BY <1>1, <3>2 DEF TopInv, Walks
    <3> QED BY <3>1, <3>2
  <2>4. ~opt.keep_going /\ ~Over => \A g \in Files : update_status'[g] \in {us_success, us_none}
    BY <1>1 DEF BuildInv, NoFailure
  <2>5. Over => Over'
    BY <1>1 DEF Over
  <2> QED BY <1>1, <1>3, <2>2, <2>3, <2>4, <2>5, CloseSame
<1> QED BY <1>2, <1>3

LEMMA UnchangedBuild ==
    ASSUME Plain, TypeOK, WalkInv, BuildInv, Builds, UNCHANGED vars
    PROVE  BuildInv'
<1>1. UNCHANGED <<opt, disk, job, pc, stack, ret, considered, command_state, updated, update_status,
                  intermediate, last_mtime>>
  BY DEF vars, worldVars, fileVars, stateVars, walkVars, timeVars, ctlVars
<1>2. CASE pc = "exit"
  <2>1. stack = <<>> /\ stack' = <<>>
    BY <1>1, <1>2 DEF WalkInv, ControlInv
  <2> QED BY <1>1, <1>2, <2>1 DEF BuildInv, FilesInv, NoFailure, ConsideredInv, FramesInv, TopInv, Over
<1>3. CASE pc # "exit"
  <2>1. \A g \in Files : FileOK(g)
    BY <1>3 DEF BuildInv, FilesInv, FileOK
  <2>2. (\A g \in Files : FileOK(g)') /\ Calm(NoFile)
    <3>1. {} \subseteq Files
      OBVIOUS
    <3>2. UNCHANGED timeVars /\ UNCHANGED <<disk, job, stateVars>>
      BY <1>1 DEF timeVars, stateVars
    <3> QED BY <2>1, <3>1, <3>2, LookKeeps
  <2>3. TopInv'
    <3>1. CASE pc \in Walks
      BY <1>1, <2>2, <3>1, TopKept
    <3>2. CASE pc \notin Walks
      BY <1>1, <3>2 DEF TopInv, Walks
    <3> QED BY <3>1, <3>2
  <2>4. ~opt.keep_going /\ ~Over => \A g \in Files : update_status'[g] \in {us_success, us_none}
    BY <1>1 DEF BuildInv, NoFailure
  <2>5. Over => Over'
    BY <1>1 DEF Over
  <2> QED BY <1>1, <1>3, <2>2, <2>3, <2>4, <2>5, CloseSame
<1> QED BY <1>2, <1>3

LEMMA RoundReapedBuild ==
    ASSUME Plain, TypeOK, WalkInv, BuildInv, Builds, RoundReaped
    PROVE  BuildInv'
<1>1. /\ pc \in {"round", "reaping"} /\ pc' = "goal" /\ UNCHANGED <<worldVars, fileVars, stack, ret>>
  BY DEF RoundReaped
<1>2. UNCHANGED <<opt, disk, job, command_state, updated, update_status, considered>>
  BY <1>1 DEF worldVars, fileVars, stateVars, walkVars
<1>3. \A g \in Files : FileOK(g)
  BY <1>1 DEF BuildInv, FilesInv, FileOK
<1>4. (\A g \in Files : FileOK(g)') /\ Calm(NoFile)
  <2>1. {} \subseteq Files
    OBVIOUS
  <2>2. UNCHANGED timeVars /\ UNCHANGED <<disk, job, stateVars>>
    BY <1>1 DEF worldVars, fileVars
  <2> QED BY <1>3, <2>1, <2>2, LookKeeps
<1>5. ~opt.keep_going => \A g \in Files : update_status'[g] \in {us_success, us_none}
  BY <1>1, <1>2 DEF BuildInv, NoFailure, Over
<1>6. pc \notin Walks /\ pc' \notin Walks /\ pc # "exit" /\ pc # "end"
  BY <1>1 DEF Walks
<1> QED BY <1>1, <1>2, <1>4, <1>5, <1>6, CloseIdle

LEMMA UpdateGoalBuild ==
    ASSUME Plain, TypeOK, WalkInv, BuildInv, Builds, UpdateGoal
    PROVE  BuildInv'
<1>0. PICK f, fr :
         /\ pc = "goal" /\ pc' = "walk" /\ stack' = <<fr>> /\ UNCHANGED ret
         /\ fr = Frame("update_file", f, UNKNOWN_MTIME, FALSE)
         /\ UNCHANGED <<worldVars, fileVars>>
  BY DEF UpdateGoal, UpdateGoalEntry
<1>1. UNCHANGED <<opt, disk, job, command_state, updated, update_status, considered>>
  BY <1>0 DEF worldVars, fileVars, stateVars, walkVars
<1>2. \A g \in Files : FileOK(g)
  BY <1>0 DEF BuildInv, FilesInv, FileOK
<1>3. \A g \in Files : FileOK(g)'
  <2>1. {} \subseteq Files
    OBVIOUS
  <2>2. UNCHANGED timeVars /\ UNCHANGED <<disk, job, stateVars>>
    BY <1>0 DEF worldVars, fileVars
  <2> QED BY <1>2, <2>1, <2>2, LookKeeps
<1>4. fr.proc = Update /\ fr.at = "enter" /\ fr.dep_status = us_success
  BY <1>0 DEF Frame, Update
<1>5. Len(stack') = 1 /\ stack'[1] = fr /\ Head(stack') = fr /\ DOMAIN stack' = {1}
  BY <1>0
<1>6. FilesInv'
  BY <1>3 DEF FilesInv, FileOK
<1>7. NoFailure'
  BY <1>0, <1>1, <1>4, <1>5 DEF BuildInv, NoFailure, Over
<1>8. ConsideredInv'
  <2>1. stack = <<>> /\ ~Over
    BY <1>0 DEF WalkInv, ControlInv, Over
  <2> QED BY <1>1, <2>1 DEF BuildInv, ConsideredInv
<1>9. FramesInv'
  <2>1. PICK c : c = Caller(stack', 1)
    OBVIOUS
  <2>2. FrameOK(fr, c)'
    BY <1>4 DEF FrameOK, OpenOK, ScanOK, SecondOK, WaitOK, CheckOK, Scanning, Second,
                Update, Update1, Check
  <2>3. \A k \in 1 .. Len(stack') : stack'[k] = fr /\ Caller(stack', k) = c
    BY <1>5, <2>1
  <2> QED BY <2>2, <2>3 DEF FramesInv
<1>10. TopInv'
  <2>1. Top' = fr
    BY <1>5 DEF Top
  <2>2. Top'.proc = Update /\ Top'.at = "enter" /\ pc' = "walk"
    BY <1>0, <1>4, <2>1
  <2>3. ~(Len(stack') > 1)
    BY <1>5
  <2>4. Update # Update1
    BY DEF Update, Update1
  <2>5. pc' = "walk" /\ Top'.at = "enter" /\ Top'.proc # Update1 /\ ~(Len(stack') > 1)
    BY ONLY <2>2, <2>3, <2>4
  <2>6. pc' # "new_job" /\ pc' # "linear"
    BY ONLY <2>5
  <2>7. Top'.at # "remade" /\ Top'.at # "back" /\ Top'.at # "updated" /\ Top'.at # "inter_back"
    BY ONLY <2>5
  <2> QED BY ONLY <2>5, <2>6, <2>7 DEF TopInv
<1> QED BY <1>6, <1>7, <1>8, <1>9, <1>10 DEF BuildInv

LEMMA RoundOverBuild ==
    ASSUME Plain, TypeOK, WalkInv, BuildInv, Builds, RoundOver
    PROVE  BuildInv'
<1>1. /\ pc = "goal" /\ pc' \in {"end", "round"} /\ considered' = {}
      /\ UNCHANGED <<worldVars, stateVars, timeVars, stack, ret>>
  BY DEF RoundOver
<1>2. UNCHANGED <<opt, disk, job, command_state, updated, update_status>>
  BY <1>1 DEF worldVars, stateVars
<1>3. \A g \in Files : FileOK(g)
  BY <1>1 DEF BuildInv, FilesInv, FileOK
<1>4. (\A g \in Files : FileOK(g)') /\ Calm(NoFile)
  <2>1. {} \subseteq Files
    OBVIOUS
  <2>2. UNCHANGED timeVars /\ UNCHANGED <<disk, job, stateVars>>
    BY <1>1 DEF worldVars
  <2> QED BY <1>3, <2>1, <2>2, LookKeeps
<1>5. ~opt.keep_going => \A g \in Files : update_status'[g] \in {us_success, us_none}
  BY <1>1, <1>2 DEF BuildInv, NoFailure, Over
<1>6. pc \notin Walks /\ pc' \notin Walks /\ pc # "exit" /\ pc # "end"
  BY <1>1 DEF Walks
<1> QED BY <1>1, <1>2, <1>4, <1>5, <1>6, CloseIdle

LEMMA GoalUpdatedBuild ==
    ASSUME Plain, TypeOK, WalkInv, BuildInv, Builds, GoalUpdated
    PROVE  BuildInv'
<1>1. /\ pc = "goal_back" /\ pc' = "goal" /\ entry \in Files
      /\ Look({entry}) \/ UNCHANGED timeVars
      /\ considered' = {} \/ considered' = considered
      /\ UNCHANGED <<stack, ret>> /\ UNCHANGED <<worldVars, stateVars>>
  BY GoalUpdatedPlain
<1>2. UNCHANGED <<opt, disk, job, command_state, updated, update_status>>
  BY <1>1 DEF worldVars, stateVars
<1>3. \A g \in Files : FileOK(g)
  BY <1>1 DEF BuildInv, FilesInv, FileOK
<1>4. (\A g \in Files : FileOK(g)') /\ Calm(NoFile)
  <2>1. {entry} \subseteq Files
    BY <1>1
  <2>2. UNCHANGED <<disk, job, stateVars>>
    BY <1>1 DEF worldVars
  <2> QED BY <1>1, <1>3, <2>1, <2>2, LookKeeps
<1>5. ~opt.keep_going => \A g \in Files : update_status'[g] \in {us_success, us_none}
  BY <1>1, <1>2 DEF BuildInv, NoFailure, Over
<1>6. pc \notin Walks /\ pc' \notin Walks /\ pc # "exit" /\ pc # "end"
  BY <1>1 DEF Walks
<1>7. \A g \in considered' :
         /\ g \in considered
         /\ command_state[g] \in Busy => g \in updated' \/ command_state'[g] \in Busy
  BY <1>1, <1>2
<1> QED BY <1>1, <1>2, <1>4, <1>5, <1>6, <1>7, CloseIdle

LEMMA RemoveIntermediatesBuild ==
    ASSUME Plain, TypeOK, WalkInv, BuildInv, Builds, RemoveIntermediates
    PROVE  BuildInv'
<1>1. pc = "end" /\ pc' = "exit" /\ UNCHANGED <<opt, fileVars, stack, ret>>
  BY DEF RemoveIntermediates
<1>2. UNCHANGED <<command_state, considered>>
  BY <1>1 DEF fileVars, stateVars, walkVars
<1>3. pc \notin Walks /\ pc' \notin Walks
  BY <1>1 DEF Walks
<1> QED BY <1>1, <1>2, <1>3, CloseIdle

--------------------------------------------------------------------------------
(* The invariant *)

LEMMA InitBuild ==
    ASSUME Init
    PROVE  BuildInv
<1> USE DEF Init
<1>1. FilesInv
  <2>1. ASSUME NEW f \in Files PROVE ~Looked(f) /\ ~Active(f) /\ ~Good(f)
    BY DEF Looked, Active, Good
  <2> QED
    BY <2>1 DEF FilesInv, StatesAgree, TimesAgree, MadeOnTheWay, MadeFromMade, Unmade
<1>2. NoFailure /\ ConsideredInv
  BY DEF NoFailure, ConsideredInv
<1>3. FramesInv
  BY DEF FramesInv
<1>4. TopInv
  BY DEF TopInv
<1> QED BY <1>1, <1>2, <1>3, <1>4 DEF BuildInv

LEMMA NextBuild ==
    ASSUME Plain, TypeOK, WalkInv, BuildInv, Builds, Next
    PROVE  BuildInv'
<1>1. CASE UpdateFileStep
  BY <1>1, PrunedBuild, UpdateFileBuild, EntryUpdatedBuild DEF UpdateFileStep
<1>2. CASE UpdateFile1Step
  <2>1. ~CircularDropped
    BY NoneDropped
  <2> QED
    BY <1>2, <2>1, AlreadyDecidedBuild, ConsiderFileBuild, ListDoneBuild, CheckPrereqBuild,
       PrereqCheckedBuild, SkipOrdinaryBuild, UpdateIntermediateBuild,
       IntermediateUpdatedBuild, PrereqsRunningBuild, PrereqFailedBuild, NoNeedToRemakeBuild,
       RemakeWithoutRecipeBuild, RemakeBlankBuild, ExecuteFileCommandsBuild, RemadeBuild
       DEF UpdateFile1Step
<1>3. CASE CheckDepStep
  <2>1. ~DropFromIntermediate
    BY NoneDropped
  <2> QED
    BY <1>3, <2>1, CheckOrdinaryBuild, OrdinaryUpdatedBuild, CheckIntermediateBuild,
       CheckPrereqOfIntermediateBuild, PrereqOfIntermediateCheckedBuild,
       IntermediateCheckedBuild DEF CheckDepStep
<1>4. CASE JobStep
  <2>1. ~PretendRecipe
    BY PretendRecipeWalk
  <2> QED
    BY <1>4, <2>1, ReapBuild, StartRecipeBuild, NewJobReturnsBuild DEF JobStep
<1>5. CASE GoalStep
  BY <1>5, RoundReapedBuild, UpdateGoalBuild, RoundOverBuild, GoalUpdatedBuild DEF GoalStep
<1>6. CASE RemoveIntermediates
  BY <1>6, RemoveIntermediatesBuild
<1>7. CASE \E f \in Files : RecipeEnds(f)
  BY <1>7, RecipeEndsBuild
<1>8. CASE Finished
  BY <1>8, UnchangedBuild DEF Finished
<1> QED BY <1>1, <1>2, <1>3, <1>4, <1>5, <1>6, <1>7, <1>8 DEF Next, MakeStep


--------------------------------------------------------------------------------
(* Which steps change the world *)

LEMMA WorldSteps ==
    ASSUME Plain, TypeOK, WalkInv, [Next]_vars
    PROVE  /\ \/ UNCHANGED worldVars
              \/ StartRecipe \/ RemoveIntermediates
              \/ \E f \in Files : Reap(f) \/ RecipeEnds(f)
           /\ UNCHANGED <<opt, goaldeps>>
<1>1. CASE Pruned \/ UpdateFile \/ EntryUpdated
  BY <1>1 DEF Pruned, UpdateFile, EntryUpdated, worldVars
<1>2. CASE AlreadyDecided \/ ConsiderFile \/ ListDone \/ CheckPrereq \/ PrereqChecked
  BY <1>2 DEF AlreadyDecided, ConsiderFile, ListDone, CheckPrereq, PrereqChecked, worldVars
<1>3. CASE SkipOrdinary \/ UpdateIntermediate \/ IntermediateUpdated
  BY <1>3 DEF SkipOrdinary, UpdateIntermediate, IntermediateUpdated, worldVars
<1>4. CASE PrereqsRunning \/ PrereqFailed \/ NoNeedToRemake \/ RemakeWithoutRecipe \/ RemakeBlank
  BY <1>4 DEF PrereqsRunning, PrereqFailed, NoNeedToRemake, RemakeWithoutRecipe, RemakeBlank,
              worldVars
<1>5. CASE ExecuteFileCommands \/ Remade
  BY <1>5 DEF ExecuteFileCommands, Remade, worldVars
<1>6. CASE CheckOrdinary \/ OrdinaryUpdated \/ CheckIntermediate
  BY <1>6 DEF CheckOrdinary, OrdinaryUpdated, CheckIntermediate, worldVars
<1>7. CASE CheckPrereqOfIntermediate \/ PrereqOfIntermediateChecked \/ IntermediateChecked
  BY <1>7 DEF CheckPrereqOfIntermediate, PrereqOfIntermediateChecked, IntermediateChecked,
              worldVars
<1>8. CASE CircularDropped \/ DropFromIntermediate
  BY <1>8, NoneDropped
<1>9. CASE \E f \in Files : Reap(f)
  BY <1>9 DEF Reap
<1>10. CASE StartRecipe \/ RemoveIntermediates
  BY <1>10 DEF StartRecipe, RemoveIntermediates
<1>11. CASE PretendRecipe \/ NewJobReturns
  BY <1>11 DEF PretendRecipe, NewJobReturns, worldVars
<1>12. CASE RoundReaped \/ UpdateGoal \/ RoundOver \/ GoalUpdated
  BY <1>12 DEF RoundReaped, UpdateGoal, RoundOver, GoalUpdated, worldVars
<1>13. CASE \E f \in Files : RecipeEnds(f)
  BY <1>13 DEF RecipeEnds
<1>14. CASE UNCHANGED vars
  BY <1>14 DEF vars, worldVars
<1> QED
  BY <1>1, <1>2, <1>3, <1>4, <1>5, <1>6, <1>7, <1>8, <1>9, <1>10, <1>11, <1>12, <1>13, <1>14
     DEF Next, MakeStep, UpdateFileStep, UpdateFile1Step, CheckDepStep, JobStep, GoalStep, Finished

\* A recipe is started for the file on top, which is untouched and whose prerequisites are
\* made; one that has been started is not started again.
LEMMA Started ==
    ASSUME Plain, IInv, [Next]_vars,
           NEW f \in Files, job'[f] = "running", job[f] # "running"
    PROVE  /\ StartRecipe /\ Builds /\ BuildInv /\ pc = "new_job"
           /\ f = Top.file /\ Fresh(f) /\ \A d \in Deps(f) : Good(d)
<1> USE DEF IInv
<1>0. job \in [Files -> {"none", "running", "ok", "fail", "reaped"}]
  BY DEF TypeOK
<1>1. ~UNCHANGED worldVars
  BY DEF worldVars
<1>2. ~RemoveIntermediates
  BY DEF RemoveIntermediates
<1>3. ~\E g \in Files : Reap(g) \/ RecipeEnds(g)
  <2>1. ASSUME NEW g \in Files, Reap(g) PROVE FALSE
    BY <1>0, <2>1 DEF Reap
  <2>2. ASSUME NEW g \in Files, RecipeEnds(g) PROVE FALSE
    BY <1>0, <2>2 DEF RecipeEnds
  <2> QED BY <2>1, <2>2
<1>4. StartRecipe
  BY <1>1, <1>2, <1>3, WorldSteps
<1>5. pc = "new_job" /\ Top.file \in Files /\ Builds /\ job' = [job EXCEPT ![Top.file] = "running"]
  BY <1>4, StartRecipePlain
<1>6. f = Top.file
  BY <1>0, <1>5
<1>7. BuildInv
  BY <1>5
<1>8. Fresh(f) /\ \A d \in Deps(f) : Good(d)
  BY <1>5, <1>6, <1>7 DEF BuildInv, TopInv
<1> QED BY <1>4, <1>5, <1>6, <1>7, <1>8

LEMMA IInvStep ==
    ASSUME Plain, IInv, [Next]_vars
    PROVE  IInv'
<1> USE DEF IInv
<1>1. UNCHANGED opt
  BY WorldSteps
<1>2. Builds' <=> Builds
  BY <1>1 DEF Builds
<1>3. CASE Next
  <2>1. TypeOK' /\ WalkInv'
    BY <1>3, NextWalk
  <2>2. StartRecipe => job[Top.file] = "none"
    <3>1. ASSUME StartRecipe PROVE job[Top.file] = "none"
      <4>1. pc = "new_job" /\ Builds
        BY <3>1, StartRecipePlain
      <4>2. Fresh(Top.file)
        BY <4>1 DEF BuildInv, TopInv
      <4> QED BY <4>2 DEF Fresh
    <3> QED BY <3>1
  <2>3. IdleInv' /\ CountInv'
    BY <1>3, <2>2, NextIdle
  <2>4. Builds => BuildInv'
    BY <1>3, NextBuild
  <2> QED BY <1>2, <2>1, <2>3, <2>4
<1>4. CASE UNCHANGED vars
  <2>1. TypeOK' /\ WalkInv'
    BY <1>4, UnchangedWalk
  <2>2. UNCHANGED <<opt, now, job>>
    BY <1>4 DEF vars, worldVars
  <2>3. IdleInv' /\ CountInv'
    BY <2>2 DEF IdleInv, Builds, CountInv
  <2>4. Builds => BuildInv'
    BY <1>4, UnchangedBuild
  <2> QED BY <1>2, <2>1, <2>3, <2>4
<1> QED BY <1>3, <1>4

--------------------------------------------------------------------------------
(* Theorems *)

\* Whatever the makefile, the goals, the switches and the disk, if nothing is circular, ::
\* or grouped: the walk keeps its invariant, round after round (remake.c:101-1240).
THEOREM RemakeInvariance ==
    ASSUME Plain
    PROVE  Spec => []IInv
<1>1. Init => IInv
  BY InitWalk, InitBuild DEF IInv
<1>2. IInv /\ [Next]_vars => IInv'
  BY IInvStep
<1> QED BY <1>1, <1>2, PTL DEF Spec

LEMMA MadeIfGood ==
    ASSUME Plain, NEW d \in Files, Good(d)
    PROVE  Made(d)
BY PlainFiles DEF Made, Good

LEMMA NeedsAreDeps ==
    ASSUME ListsKept, NEW f \in Files
    PROVE  Needs(f) = Deps(f)
<1>1. Prerequisites(f) = {<<f, i>> : i \in DOMAIN Prereqs[f]}
  BY WholeLists
<1>2. ASSUME NEW i \in DOMAIN Prereqs[f] PROVE Dep(<<f, i>>).file = Prereqs[f][i].file
  BY DEF Dep
<1>3. {Dep(n).file : n \in {<<f, i>> : i \in DOMAIN Prereqs[f]}}
          = {Prereqs[f][i].file : i \in DOMAIN Prereqs[f]}
  BY <1>2
<1> QED BY <1>1, <1>3 DEF Needs, Deps

\* No recipe is started before all prerequisites of its target are finished and well, in
\* whatever order the recipes that run beside the walk come to an end (remake.c:736, 748).
THEOREM PrerequisitesComeFirst ==
    ASSUME Plain
    PROVE  Spec => PrerequisitesFirst
<1>1. ASSUME IInv, [Next]_vars, NEW f \in Files, job'[f] = "running", job[f] # "running"
      PROVE  \A g \in Group(f) : \A d \in Needs(g) : Made(d)
  <2>1. \A d \in Deps(f) : Good(d) /\ d \in Files
    BY <1>1, Started, DepsFiles
  <2>2. Group(f) = {f} /\ Needs(f) = Deps(f)
    BY <1>1, PlainFiles, NeedsAreDeps DEF IInv, WalkInv
  <2> QED BY <2>1, <2>2, MadeIfGood
<1>2. IInv /\ [Next]_vars =>
          \A f \in Files : job'[f] = "running" /\ job[f] # "running" =>
              \A g \in Group(f) : \A d \in Needs(g) : Made(d)
  BY <1>1
<1>3. Spec => []IInv
  BY RemakeInvariance
<1> QED BY <1>2, <1>3, PTL DEF Spec, PrerequisitesFirst

\* While a recipe is being started nothing of what .WAIT holds back goes ahead: the target
\* that asks for the file has passed .WAIT only with what is before it finished.
LEMMA WaitHolds ==
    ASSUME Plain, IInv, [Next]_vars,
           NEW f \in Files, job'[f] = "running", job[f] # "running",
           NEW d \in Files, AfterWait(f, d)
    PROVE  d \in Intermediates \/ d \in updated
<1> USE DEF IInv
<1>0. /\ f = Top.file /\ pc = "new_job" /\ BuildInv
      /\ Shape(stack) /\ Top.proc = Update1 /\ stack \in Seq(FrameType) /\ stack # <<>>
  BY Started DEF WalkInv, ControlInv, TypeOK
<1>1a. PICK t \in Files \ Intermediates :
         \E i \in DOMAIN Prereqs[t] : \E j \in 1 .. (i - 1) :
            /\ Prereqs[t][i].file = f /\ Prereqs[t][j].file = d
            /\ \E k \in (j + 1) .. i : Prereqs[t][k].wait_here
            /\ \A m \in DOMAIN goaldeps : goaldeps[m] # f
            /\ \A u \in Files : \A m \in DOMAIN Prereqs[u] :
                  Prereqs[u][m].file = f => u = t /\ m = i
  BY DEF AfterWait
<1>1b. PICK i \in DOMAIN Prereqs[t] :
         \E j \in 1 .. (i - 1) :
            /\ Prereqs[t][i].file = f /\ Prereqs[t][j].file = d
            /\ \E k \in (j + 1) .. i : Prereqs[t][k].wait_here
            /\ \A m \in DOMAIN goaldeps : goaldeps[m] # f
            /\ \A u \in Files : \A m \in DOMAIN Prereqs[u] :
                  Prereqs[u][m].file = f => u = t /\ m = i
  BY <1>1a
<1>1c. PICK j \in 1 .. (i - 1) :
            /\ Prereqs[t][i].file = f /\ Prereqs[t][j].file = d
            /\ \E k \in (j + 1) .. i : Prereqs[t][k].wait_here
            /\ \A m \in DOMAIN goaldeps : goaldeps[m] # f
            /\ \A u \in Files : \A m \in DOMAIN Prereqs[u] :
                  Prereqs[u][m].file = f => u = t /\ m = i
  BY <1>1b
<1>1. PICK k \in (j + 1) .. i :
        /\ Prereqs[t][i].file = f /\ Prereqs[t][j].file = d /\ Prereqs[t][k].wait_here
        /\ \A m \in DOMAIN goaldeps : goaldeps[m] # f
        /\ \A u \in Files : \A m \in DOMAIN Prereqs[u] :
              Prereqs[u][m].file = f => u = t /\ m = i
  BY <1>1c
<1>2. /\ i \in Nat /\ j \in DOMAIN Prereqs[t] /\ k \in DOMAIN Prereqs[t] /\ j < k /\ k <= i
  BY <1>1, PrereqTypes
<1>3. Len(stack) \in Nat /\ DOMAIN stack = 1 .. Len(stack) /\ Len(stack) >= 1 /\ stack[1] = Top
  BY <1>0 DEF Top
<1>4. \A m \in 1 .. Len(stack) : stack[m] \in FrameType
  BY <1>0, <1>3
<1>5. /\ \A m \in 1 .. Len(stack) : FrameShape(stack[m])
      /\ \A m \in 1 .. Len(stack) - 1 : Called(stack[m], stack[m + 1])
      /\ stack[Len(stack)].proc = Update
      /\ \E m \in DOMAIN goaldeps : goaldeps[m] = stack[Len(stack)].file
  BY <1>0 DEF Shape
<1>6. Update # Update1 /\ Update # Check /\ Update1 # Check
  BY DEF Update, Update1, Check
<1>7. /\ Len(stack) >= 2 /\ stack[2].proc = Update /\ stack[2].file = f
  <2>1. Len(stack) # 1
    BY <1>0, <1>3, <1>5, <1>6
  <2>2. 1 \in 1 .. Len(stack) - 1 /\ Len(stack) >= 2
    BY <1>3, <2>1
  <2>3. Called(stack[1], stack[1 + 1]) /\ 1 + 1 = 2
    BY <1>5, <2>2
  <2> QED BY <1>0, <1>3, <2>2, <2>3 DEF Called
<1>8. Len(stack) >= 3
  <2>1. Len(stack) # 2
    BY <1>1, <1>5, <1>7
  <2> QED BY <1>3, <1>7, <2>1
<1>9. PICK p : p = stack[3] /\ p \in FrameType /\ FrameShape(p) /\ FrameOK(p, Caller(stack, 3))
  BY <1>0, <1>3, <1>4, <1>5, <1>8 DEF BuildInv, FramesInv
<1>10. Called(stack[2], p)
  <2>1. 2 \in 1 .. Len(stack) - 1 /\ 2 + 1 = 3
    BY <1>3, <1>8
  <2> QED BY <1>5, <1>9, <2>1
\* the node through which f is asked for is the one after .WAIT
<1>11. ASSUME NEW q \in FrameType, FrameShape(q), q.at \in {"dep_back", "inter_back"},
              Dep(q.du).file = f
       PROVE  q.du = <<t, i>> /\ q.file = t
  <2>1. q.du # NoDep /\ q.du[1] = q.file /\ q.du \in Nodes
    BY <1>11 DEF FrameShape, FrameType
  <2>2. /\ q.du[1] \in Files /\ q.du[2] \in DOMAIN Prereqs[q.du[1]]
        /\ q.du = <<q.du[1], q.du[2]>>
    BY <2>1, PrereqTypes
  <2>3. Prereqs[q.du[1]][q.du[2]].file = f
    BY <1>11 DEF Dep
  <2>4. q.du[1] = t /\ q.du[2] = i
    BY <1>1, <2>2, <2>3
  <2> QED BY <2>1, <2>2, <2>4
<1>12. ASSUME NEW q \in FrameType, q.proc = Update1, q.at \in {"dep_back", "inter_back"},
              q.du = <<t, i>>, q.file = t, WaitOK(q)
       PROVE  d \in Intermediates \/ d \in updated
  <2>1. Scanning(q) \/ Second(q)
    BY <1>12 DEF Scanning, Second
  <2>2. q.du # NoDep /\ q.du[2] = i
    BY <1>12, <1>1, PrereqTypes
  <2>3. Reached(q, k)
    BY <1>2, <1>12, <2>2 DEF Reached
  <2>4. Settled(Prereqs[q.file][j].file)
    BY <1>1, <1>2, <1>12, <2>1, <2>2, <2>3 DEF WaitOK
  <2> QED BY <1>1, <1>12, <2>4 DEF Settled
<1>13. CASE p.proc = Update1 /\ p.at = "inter_back" /\ Dep(p.du).file = stack[2].file
  BY <1>7, <1>9, <1>11, <1>12, <1>13 DEF FrameOK
<1>14. CASE p.proc = Check /\ p.at = "updated" /\ p.file = stack[2].file
  <2>1. Len(stack) # 3
    BY <1>5, <1>6, <1>9, <1>14
  <2>2. 3 \in 1 .. Len(stack) - 1 /\ 3 + 1 = 4 /\ 4 \in 1 .. Len(stack)
    BY <1>3, <1>8, <2>1
  <2>3. PICK q : q = stack[4] /\ q \in FrameType /\ FrameShape(q) /\ FrameOK(q, Caller(stack, 4))
    BY <1>0, <1>4, <1>5, <2>2 DEF BuildInv, FramesInv
  <2>4. Called(p, q)
    BY <1>5, <1>9, <2>2, <2>3
  <2>5. q.proc \in {Update1, Check} /\ q.at = "dep_back" /\ Dep(q.du).file = f
    BY <1>7, <1>14, <2>4 DEF Called
  <2>6. q.du = <<t, i>> /\ q.file = t
    BY <1>11, <2>3, <2>5
  <2>7. q.proc # Check
    BY <2>3, <2>5, <2>6 DEF FrameOK, CheckOK
  <2> QED BY <1>12, <2>3, <2>5, <2>6, <2>7 DEF FrameOK
<1>15. \/ p.proc = Check /\ p.at = "updated" /\ p.file = stack[2].file
       \/ p.proc = Update1 /\ p.at = "inter_back" /\ Dep(p.du).file = stack[2].file
  BY <1>7, <1>10 DEF Called
<1> QED BY <1>13, <1>14, <1>15

\* No recipe runs twice, however often and in however many rounds the walk comes by its
\* target, and .WAIT is respected (remake.c:453, 475, 593, 671, 1047).
THEOREM RecipesInOrder ==
    ASSUME Plain
    PROVE  Spec => RecipeOrder
<1>1. ASSUME IInv, [Next]_vars, NEW f \in Files, job'[f] = "running", job[f] # "running"
      PROVE  /\ \A g \in Group(f) : job[g] = "none" /\ g \notin updated
             /\ \A e \in Files : Prev[e] = f => e \in updated
             /\ \A d \in Files : AfterWait(f, d) =>
                   d \in Intermediates \/ Entries(d) \subseteq updated
  <2>1. \A g \in Group(f) : job[g] = "none" /\ g \notin updated
    BY <1>1, Started, PlainFiles DEF Fresh
  <2>2. \A e \in Files : Prev[e] # f
    BY <1>1, PlainFiles, FilesAssumption
  <2>3. ASSUME NEW d \in Files, AfterWait(f, d)
        PROVE  d \in Intermediates \/ Entries(d) \subseteq updated
    BY <1>1, <2>3, WaitHolds, PlainFiles
  <2> QED BY <2>1, <2>2, <2>3
<1>2. IInv /\ [Next]_vars =>
          \A f \in Files : job'[f] = "running" /\ job[f] # "running" =>
              \A g \in Group(f) : job[g] = "none" /\ g \notin updated
  BY <1>1
<1>3. IInv /\ [Next]_vars =>
          \A f \in Files : job'[f] = "running" /\ job[f] # "running" =>
              \A e \in Files : Prev[e] = f => e \in updated
  BY <1>1
<1>4. IInv /\ [Next]_vars =>
          \A f, d \in Files : job'[f] = "running" /\ job[f] # "running" /\ AfterWait(f, d) =>
              d \in Intermediates \/ Entries(d) \subseteq updated
  BY <1>1
<1>5. Spec => []IInv
  BY RemakeInvariance
<1> QED
  BY <1>2, <1>3, <1>4, <1>5, PTL
     DEF Spec, RecipeOrder, RecipesRunOnce, EntriesInOrder, WaitRespected

\* No prerequisite is lost, and what make removes at the end was made by its own recipes
\* (file.c:392, remake.c:524, 864, 1171).
THEOREM NothingIsLost ==
    ASSUME Plain
    PROVE  Spec => NothingElseLost
<1>1. ASSUME IInv, [Next]_vars, NEW f \in Files
      PROVE  Prerequisites(f)' = Prerequisites(f)
  <2>1. ListsKept /\ ListsKept'
    BY <1>1, IInvStep DEF IInv, WalkInv
  <2>2. first' = first /\ next' = next
    BY <2>1 DEF ListsKept
  <2> QED BY <2>2 DEF Prerequisites, ListFrom
<1>2. ASSUME IInv, [Next]_vars, NEW f \in Files,
             disk'[f] = NONEXISTENT_MTIME, disk[f] # NONEXISTENT_MTIME
      PROVE  job[f] = "reaped"
  <2> USE DEF IInv
  <2>0. disk' # disk
    BY <1>2
  <2>1. ~UNCHANGED worldVars
    BY <2>0 DEF worldVars
  <2>2. ~StartRecipe
    BY <2>0 DEF StartRecipe
  <2>3. ASSUME NEW g \in Files PROVE ~Reap(g) /\ ~RecipeEnds(g)
    <3>1. ~Reap(g)
      BY <2>0 DEF Reap
    <3>2. ASSUME RecipeEnds(g) PROVE FALSE
      <4>1. PICK writes \in BOOLEAN :
              /\ now' = IF writes THEN now + 1 ELSE now
              /\ disk' = [h \in Files |-> IF writes /\ h \in Group(g) \ Phony THEN now' ELSE disk[h]]
        BY <3>2 DEF RecipeEnds
      <4>2. writes /\ disk'[f] = now + 1
        BY <1>2, <4>1
      <4>3. now \in Nat /\ now >= Start /\ Start \in Nat /\ Start > 1
        BY <1>2, Numbers, DisksAssumption DEF TypeOK, NONEXISTENT_MTIME
      <4> QED BY <1>2, <4>2, <4>3 DEF NONEXISTENT_MTIME
    <3> QED BY <3>1, <3>2
  <2>4. RemoveIntermediates
    BY <1>2, <2>1, <2>2, <2>3, WorldSteps
  <2>5. /\ pc = "end" /\ Outstanding = {} /\ Builds
        /\ f \in intermediate /\ update_status[f] # us_none
    BY <1>2, <2>4 DEF RemoveIntermediates, Builds
  <2>6. StatesAgree(f) /\ MadeOnTheWay(f)
    BY <1>2, <2>5 DEF BuildInv, FilesInv
  <2>7. Unmade(f)
    BY <2>5, <2>6 DEF StatesAgree, Unmade, Looked
  <2>8. job[f] \in {"ok", "reaped"}
    BY <1>2, <2>6, <2>7 DEF MadeOnTheWay
  <2>9. job[f] # "ok"
    BY <2>5 DEF Outstanding, Ended
  <2> QED BY <2>8, <2>9
<1>3. IInv /\ [Next]_vars =>
          \A f \in Files : \A n \in Prerequisites(f) :
              n \in Prerequisites(f)' \/ f \in Reach[Dep(n).file]
  BY <1>1
<1>4. IInv /\ [Next]_vars =>
          \A f \in Files :
              disk'[f] = NONEXISTENT_MTIME /\ disk[f] # NONEXISTENT_MTIME => job[f] = "reaped"
  BY <1>2
<1>5. Spec => []IInv
  BY RemakeInvariance
<1> QED
  BY <1>3, <1>4, <1>5, PTL DEF Spec, NothingElseLost, OnlyCyclesDropped, OnlyOwnRemoved
================================================================================
