# gmake: TLA+ models and proofs

The repository holds two programs:

* `make-4.4/`: the complete source, tests and manual of GNU Make 4.4 (C);
* `cmd/gmake` and `pkg/`: a port of it to Go (each Go function names the C
  function and lines it is a port of).  The port has no tests of its own.

The C program is the larger one, the concurrent one and the reference of the
other, so most of the models are of it.  This file is the inventory of the system,
the plan, and the description of what is modelled, checked and proved.

## 1. The system

### GNU Make 4.4 (`make-4.4/src`)

| Component | State | Operations | Hard behaviour | What makes it correct |
|---|---|---|---|---|
| Job engine: `job.c`, `commands.c` | `children`, `waiting_jobs`, `job_slots_used`, `jobserver_tokens`, `good_stdin_used`, `commands_started`; per child: line, pid, slot | `new_job`, `start_waiting_jobs`, `start_waiting_job`, `start_job_command`, `reap_children`, `free_child`, `delete_child_targets` | children die in any order; `reap_children` is entered from six places and starts new commands itself; a process that cannot be started; the load limit holds jobs back | slots and tokens are counted exactly; -j is never exceeded; lines in order, and none after a failure; everything handed over ends |
| Exit: `main.c` (`die`, `clean_jobserver`) | `dying`, the exit status | `die` | called from inside `reap_children`, and again while it waits | no job slot is held, no token is lost |
| Jobserver: `posixos.c` | the pipe or fifo, its duplicate `job_rfd` | `jobserver_acquire`, `jobserver_release`, `jobserver_setup`, ... | several makes; SIGCHLD against a blocking read | tokens conserved; never asleep with a dead child |
| Update walk: `remake.c` | `command_state`, `update_status`, `updated`, `updating`, `considered`, `last_mtime`, `changed` per file or edge | `update_goal_chain`, `update_file`, `update_file_1`, `check_dep`, `notice_finished_file`, `touch_file`, `remake_file`, `f_mtime` | a depth-first walk that returns while jobs run and is repeated; pointers kept across calls that reap; cycles dropped on the way; double-colon rules; intermediate files | a recipe runs after its prerequisites, at most once, and never after one of them failed; the walk ends |
| Fatal signals: `commands.c` | `handling_fatal_signal`, the chain | `fatal_error_signal` | the handler runs between any two steps of `reap_children` | targets of interrupted recipes are removed once, no child is left running; the tokens a killed make held are lost to the others |
| Output: `output.c` | temporary files, `stdio_traced`, the lock | `output_start`, `output_dump`, `output_close` | a lock shared with other makes; recursive makes | output of one recipe is not interleaved; nothing lost |
| Re-execution: `main.c` | restarts, makefile mtimes | rebuilding the makefiles, `exec` | a makefile that is always rebuilt; state handed on by the environment | restarts only if a makefile changed; tokens survive |
| File table: `file.c`, `hash.c` | table of files, `renamed`, double-colon chains, `also_make` | `lookup_file`, `enter_file`, `rehash_file`, `rename_file`, `snap_deps`, `remove_intermediates`, `set_command_state` | pointers to files that are renamed | one entry per name; prerequisites kept when entries merge |
| Implicit rules: `implicit.c`, `rule.c` | rules in order, `in_use`, `tried_implicit` | `try_implicit_rule`, `pattern_search`, `count_implicit_rule_limits`, `new_pattern_rule` | recursion through intermediate files | no rule used twice on a chain; first fitting rule, shortest stem |
| Reading: `read.c` | conditional stack, open rule, include state | `eval`, `conditional_line`, `record_files`, `eval_makefile`, `parse_file_seq` | `else ifdef` chains inside ignored branches | which lines count |
| Variables: `variable.c`, `expand.c`, `function.c` | scopes, origins, flavours, `expanding` | `define_variable_in_set`, `do_variable_definition`, `target_environment`, `recursively_expand_for_file`, the functions | origins override each other; recursion through `$(call)` and `+=` | precedence; recursion is detected |
| Directories, vpath, archives: `dir.c`, `vpath.c`, `ar.c`, `arscan.c` | the tables `directories` and `directory_contents`, `command_count`, `open_directories`, the chain `vpaths` | `find_directory`, `file_exists_p`, `file_impossible`, `construct_vpath_list`, `vpath_search`, `ar_member_date` | a cache that a recipe makes stale; streams half read; one directory under two names | a file is believed to exist exactly if it does; search paths in the order of the directives |
| Platform and support: `getopt.c`, `misc.c`, `load.c`, `guile.c`, `remote-stub.c`, `strcache.c`, `shuffle.c`, `w32/` | little | formatting, memory, option parsing | - | - |

Interactions: `main` reads the makefiles (reading, variables, rules, file table)
and calls the update walk on the makefiles, then on the goals.  The walk hands a
file to the job engine (`execute_file_commands`, `new_job`) and is called back
(`notice_finished_file`) when its recipe is over; both use `command_state` and
`update_status` of the file.  The job engine draws on the jobserver, writes through
the output component and calls `die` when a failure ends the run; `die` calls
`reap_children` again.  A signal handler can run between any two of these steps.

### The Go port (`cmd/gmake`, `pkg/`)

| Component | State | Operations | What makes it correct |
|---|---|---|---|
| Update walk: `pkg/remake` | as in C | `UpdateGoalChain`, `UpdateFile`, `updateFile1`, `checkDep`, `noticeFinishedFile` | the same as in C, without jobs |
| Recipes: `pkg/commands` | `command_state` | `ExecuteFileCommands`: each line is run to its end before the next | stops at an unignored failure |
| Job engine: `pkg/job` | as in C | `NewJob`, `ReapChildren`, `StartWaitingJobs` | `NewJob` has no caller: the two other functions are called by the walk and find nothing to do |
| File table: `pkg/file`, `pkg/types`, `pkg/dep` | as in C | `EnterFile`, `LookupFile`, `RehashFile`, `SnapDeps` | as in C |
| Implicit rules, reading, variables, functions: `pkg/implicit`, `pkg/rule`, `pkg/read`, `pkg/variable`, `pkg/expand`, `pkg/function` | as in C | as in C | as in C |
| Main and support: `cmd/gmake`, `pkg/misc`, `pkg/dir`, `pkg/vpath`, `pkg/output`, ... | - | - | exit status |

The port is sequential: nothing runs beside it but the one command it waits for.

## 2. Plan

The order was that of importance: what makes -j correct, the walk that uses it, the
processes around them, the port against the same promises, then what is computed
before anything runs.

| # | Modules | Models | Against |
|---|---|---|---|
| 1 | `Job`, `JobInv`, `JobProof` | the job engine, die, the jobserver's tokens | its invariants, proved |
| 2 | `Jobs`, `JobRefines` | what the walk sees of the job engine | `Job` implements `Jobs` (proved in `JobProof`), and what it hands over ends (checked) |
| 3 | `Remake`, `RemakeInv`, `RemakeWalkProof`, `RemakeProof`, `RemakeEndProof` | `remake.c` with an explicit stack, over the job engine as `Jobs` describes it | what a build has to be; the order of recipes proved, and what a run ends with |
| 4 | `Jobserver`, `TokenPool`, `JobserverInv`, `JobserverProof` | several makes on one pipe, both ways to wait for a token, a make that is killed | `Jobserver` implements `TokenPool`, proved |
| 5 | `Signal`, `SignalInv`, `SignalProof` | `fatal_error_signal` at every point of `reap_children` and `die` | what is left on disk and which commands still run, proved (the tokens of a make that is killed are in `Jobserver`) |
| 6 | `OutputSync`, `OutputSyncProof` | `output.c`: temporary files, the lock, recursive makes | the log as a reader sees it; that recipes are kept apart is proved |
| 7 | `Startup`, `StartupProof` | rebuilding makefiles and running make again | when a restart is right, and what exec keeps |
| 8 | `GoRemake` | the walk, the recipes and the exit status of the port, over repeated runs | the properties of `Remake` |
| 9 | `Directories`, `Implicit` | the directory cache and search paths; the chain of rules and the search, while recipes change the disk | the disk as it is, the directives, a declarative search |
| 10 | `Options` | switches and variables from one make to the next | what the user gave |
| 11 | `Read`, `MakefileMeaning` | reading makefiles, special targets | the meaning of the lines |
| 12 | `Variables`, `TextFunctions`, `VariableMeaning`, `TextMeaning` | scopes, flavors, origins, the environment, functions | the meaning of the definitions |
| 13 | `CommandLines`, `CommandMeaning` | a recipe's text to the words of processes | a shell's reading of it |

What remains, in this order:

1. proofs about `Remake` for the makefiles that section 6 leaves out: what a run ends with
   where files are intermediate (they are made last, may be missing, and stand for their
   prerequisites) and under -q, and `::`, grouped and circular rules;
2. `Build`, one abstract specification of a build that `Remake` and `GoRemake` both
   implement, in place of the properties they share;
3. `rename_file` and `rehash_file` with VPATH and GPATH in the walk (`f_mtime`);
4. the Go port's reader, variables and implicit rules, against the C models.

## 3. The modules

**`Job`** is the job engine.  make is one thread, so `pc` is the place it has
reached: one action is the code between two places where something else can come in
between, or where a function is entered from several callers.  Those functions keep
their arguments and the place they return to in `reap` and `sret`; nothing else of
the C stack is needed, because `reap_children` never calls `start_waiting_jobs` and
`start_waiting_jobs` is never entered twice.

| In the code | In the model |
|---|---|
| `file->command_state`, `file->update_status` | `command_state`, `update_status` |
| the target on disk, `file->precious`, `.PHONY` | `target` (old, changed, removed), `Precious` |
| `child->command_line`, `command_ptr` | `line`: the number of lines used up |
| `child->pid` and the status `wait` will give | `pid` |
| `child->jobslot`, `good_stdin`, `dontcare` | `jobslot`, `good_stdin`, `dontcare`: sets of files |
| `children`, `waiting_jobs` | a set; a sequence, because its order decides what starts next |
| `job_slots_used`, `good_stdin_used`, `commands_started`, `jobserver_tokens` | the same names |
| the pipe of the jobserver | `pool`, with `others` for what other makes hold |
| `job_slots`, `not_parallel`, `max_load_average`, -k, -i, -q, -n, `.DELETE_ON_ERROR` | the fields of `opt`, chosen in `Init` |
| `new_job` | `ExecuteFileCommands`, `NewJobReaps`, `WaitForSlot`, `NeedToken`, `TokenStartsWaiting`, `RecheckToken`, `AcquireToken`, `StartNewJob`, `NewJobReturns` |
| `start_waiting_jobs`, `start_waiting_job`, `start_job_command` | `StartWaitingJobs`, `TakeWaitingJob`; `Started`, `FinishedAtOnce`, `LoadTooHigh`; `Spawn`, `EndsWithoutProcess` |
| `reap_children` | `ReapReturns`, `ReapFailed`, `ReapNextLine`, `ReapRecipeOver` |
| `die`, `clean_jobserver` | `CallDie`, `DieWaits`, `DieExits` |
| `update_goal_chain` and what it calls | `Caller`: any file not yet started may be handed over, in any order; it waits (`WaitRound`, `RoundReaps`); it ends the run (`Finish`) |
| the commands, the other makes | `Outside` |

Which child `reap_children` sees next is a choice among the dead ones, as `wait`
gives them in any order.  Whether a process can be started is a choice of `Spawn`.
Whether the load is too high is a choice of each call of `load_too_high` that finds
a slot in use and a limit set (`LoadTooHigh`).  The lines of a recipe are records of
what `start_job_command` looks at: empty, `:`, or a command; `-`; `+`.

The walk is more liberal in the model than in `remake.c` (it may hand over files
without regard to prerequisites), so a safety property shown here holds for the
walk; the walk itself is module `Remake`.  It never hands over a file
that is not `not_started`, and it returns success only when nothing is left on the
chain or the waiting list, as `update_goal_chain` does.

**`JobInv`** has the inductive invariants, **`JobProof`** the proofs
(section 6); in the same way **`JobserverInv`** and **`JobserverProof`**, **`SignalInv`** and
**`SignalProof`**, **`RemakeInv`**, **`RemakeWalkProof`**, **`RemakeProof`** and **`RemakeEndProof`**,
**`OutputSyncProof`** and **`StartupProof`** (invariant and proof) belong to `Jobserver`,
`Signal`, `Remake`, `OutputSync` and `Startup`.

**`Jobs`** is what the job engine promises to the walk, which sees neither slots nor
tokens nor lines: a file is new, running or done; the targets of one recipe start
and end together; what is done stays done with the status it has; nothing moves back.
That is its specification, a safety property; `Ends` says in addition that what is handed
over is finished unless make stops.  **`JobRefines`** has the mapping and states that `Job`
implements the first (`ImplementsJobs`) and, under the fairness of section 4, has the second
(`RecipesEnd`).  Writing it showed a corner: under -q the recipe of one of two grouped
targets may be over (`question`) before its file was ever `running`, so the other
target remains `not_started` (`remake.c:1041` marks it only if `ran`), its recipe is
handed over again, may be held back by the load, and then ends for both.  `Finish` in
`Jobs` therefore allows a target to be finished a second time, with the same status.

**`Remake`** is the update walk: `update_goal_chain`, `update_file`, `update_file_1`,
`check_dep`, `remake_file`, `notice_finished_file`, `set_command_state`, `f_mtime`
and, at the end, `remove_intermediates`.  The C functions call one another
recursively, so the model keeps their frames in `stack`, the innermost first, each
with the locals that outlive a call; an action is the code between two calls or
returns.  make is one thread: what can come in between is only a recipe that ends
and changes the disk (`RecipeEnds`).  make itself learns of it where it reaps: at
the start of a round, in `new_job`, and in `die` (`Reap`).

| In the code | In the model |
|---|---|
| the fields of `struct file` | variables of the same names; the bits `updated`, `updating`, `intermediate`, `secondary` and `considered` (equal to the number of the round) are sets of files |
| `file->deps`, `dep->next`, `dep->changed` | `first`, `next`, `changed` over nodes `<<file, position>>`: circular prerequisites are unlinked in the middle of a walk, so the lists are state |
| `also_make`, `prev`, `double_colon`, `is_target`, `phony`, `cmds` | constants: no rule is entered after the makefiles have been read |
| the goal chain, `status`, `any_not_updated` | `goals`, `goal`, `entry`, `status`, `any_not_updated` |
| modification times | numbers in the order of writing; 0 unknown, 1 missing, the greatest one `NEW_MTIME` |
| `update_file` | `Pruned`, `UpdateFile`, `EntryUpdated` |
| `update_file_1` | from `AlreadyDecided` to `PrereqFailed`; the decision is `MustMake`, what follows it `NoNeedToRemake`, `RemakeWithoutRecipe`, `RemakeBlank`, `ExecuteFileCommands`, `Remade` |
| `check_dep` | from `CheckOrdinary` to `IntermediateChecked` |
| `new_job` and `reap_children`, as the walk sees them | `StartRecipe`, `PretendRecipe`, `NewJobReturns`, `Reap` |
| `update_goal_chain` | `RoundReaped`, `UpdateGoal`, `GoalUpdated`, `RoundOver` |
| `die` | `Die`, `Reap` at the end, `RemoveIntermediates` |

A recipe is one step from its start to its end here: lines, tokens and signals are
`Job`'s.  A recipe that succeeds may leave its targets as they are (`Lazy`), one that
fails leaves them as they are.

**`TokenPool`** is what a jobserver is: tokens are free, held by a make, or lost with
a make that a signal ended; one is taken or given back at a time.  **`Jobserver`** is
several makes on one pipe or fifo: the master that made it, the makes its recipes
start, and theirs.  Each has its own place in the token loop of `new_job`
(`PreAcquire`, `ReapOne`, `ReapEnds`, `CheckAgain`, `Select` or `BlockingRead`,
`ReadToken`, `NewJob`), starts commands and other makes (`Start`, `Boot`), gives
tokens back (`FreeChild`), waits for its children and exits; the master reads all
tokens back (`CollectBegins`, `Collect`).  `sigchld` and `job_rfd` are what `posixos.c`
uses, one for each way make can be built, not to miss a child that dies between the
look for dead children and the sleep.  A make that is no recursive make gets no
descriptors (`Inherits`), one that finds no fifo dies of it (`NoFifo`: "Cannot open
jobserver"), and a signal may end one of them with the tokens it holds (`Fatal`,
`MasterDies`).  The
commands are counted, not named.  `Job` has the same loop in the detail of one make
(its lines, its load limit); `Jobserver` has the composition.

**`Signal`** is a make that a signal hits.  `stack` has a frame for `main` and one for
each handler that runs on top of it; a signal that has arrived and is not in `mask` is
delivered before anything else.  The three assignments at the end of `reap_children`
that take a child off the chain are actions of their own (`RecipeOver`, `FreeSlot`,
`OffChain`), as is the time between `wait` and what is done with the status.
`fatal_error_signal` is `Deliver`, `KillChildren`, `DeleteTargets`, `WaitOver` (it calls
`reap_children`, whose actions then belong to the handler's frame), `SignalAgain` or
`HandlerReturns`.  Commands go on writing until they end.

**`OutputSync`** is `output.c` under `--output-sync`.  A line of a recipe writes chunks to
the temporary file of its job or straight through; `output_dump` is cut where another
make can get the lock or write to the log (`Acquire`, `AcquireFails`, `DumpEnter`,
`Pump`, `DumpEnds`), and the log, `stdout`, is the sequence of all chunks as they
appear.  `out` is the standard output that each make was started with: the real one, or
with -Orecurse the file of the line that started it (`CommandOut`).  `AcquireFails` and `SetupFails` are the two things that can go wrong; after
either, make goes on unsynchronised as `output.c` does.

**`Startup`** is the part of `main` from exec to the goals: `Boot`, `ReadMakefiles`,
`Configure` (jobs, jobserver), `Consider`, `Count` and `Judge` (the walk over the
makefiles, as far as its outcome and its changes to the disk go), `Reexec`,
`ExecFails`, `Goals`, `Die`.  What passes from one image to the next is the disk, the
open descriptors, the environment and the rebuilt argv.  The walk itself is
`Remake`'s.

**`GoRemake`** is the port.  It runs each recipe to its end where C make would start
a job, so an action is a whole goal, and the walk below is recursive operators
(`UpdateFile`, `DepLoop`, `CheckDep`, `ExecuteFileCommands`, ...) over a record of what
it reads and writes.  `Again` starts the program anew on what the last run has left.

**`Implicit`** puts the rules of a makefile on the chain (`Define`, `Convert` for suffix
rules: `rule.c`) and searches for the goals in any order (`TryImplicitRule`:
`pattern_search` with its list of rules to try, its two passes, stems and directories,
and the recursion for intermediate files).  What a search leaves in the data base of
files and in the cache of directories is there for the next.  Between searches recipes
change the disk (`Write`), and `reap_children` counts them (`Reap`).

**`Directories`** has the operators that `Implicit` asks whether a file is there: the two
tables of `dir.c` with their counters (`FindDirectory`, `Reseeded`), streams that are read
as far as somebody asked (`ReadRest`) and are read to the end when too many are open
(`NotTooMany`), the names ruled impossible (`FileImpossible`), the vpath directive
(`ConstructVpathList`, taken by the action `Directive`), VPATH (`BuildVpathLists`) and
`vpath_search`.  They take and return the cache as a record, because a question changes
it.

**`Options`** follows switches and variables from the command line of a make through
`MAKEFLAGS` to the makes below: `DecodeEnvironment`, `DecodeCommandLine`, `Prepare`,
`ReadMakefiles` (which may add to `MAKEFLAGS`), `ChooseSlots`, `StartMake`.  A make with
several slots sets up a jobserver in the style it was asked for (`jobserver_setup`: a fifo,
or a pipe if none can be made and no style was named; else a fatal error), and a make below
takes part in what its `--jobserver-auth` names (`jobserver_parse_auth`): a fifo by its name,
a pipe by descriptors that only a recursive line leaves open, which is why plain lines get
an invalid one in its place (`Invalidates`).  Texts are sequences of tokens, with blanks, backslashes and dollars as tokens of their own,
because the quoting is the hazard.

**`Read`** is `eval` and what it calls.  A line is a record of what stands on it, and every
next line is chosen from those of the world, so that a behaviour is a makefile;
`LineRead` is `eval`'s dispatch with `conditional_line`, `do_define`, the rule that is not
recorded yet, `record_files` with `check_specials` and `record_target_var`, `include` and
`$(eval)` with a frame of their own; `EndOfFile` records the last rule and tells what is
missing; `Snap` is `snap_deps`: `.EXTRA_PREREQS` and the special targets.  Second expansion
comes when a goal is considered (`ConsiderGoal`): `update_file` goes down from it, each file
has the one it is considered for as its parent, its lists are expanded with the variables
it sees through the chain of parents (`InScope`), prerequisites that are themselves on
that chain are dropped as circular, and the names that the expansion gave are gone into
like the others.  **`MakefileMeaning`** says what the same lines mean without a reader's state,
by positions: which lines are in a branch that is read, which belong to a text or to a
recipe, which rules a target has and which marks, and for a file that has been considered which
targets it inherits variables from.

**`Variables`** keeps the sets of variables that `variable.c` has (`ReadLine`:
`do_variable_definition`, `record_target_var`, `export`, `private`, `override`), settles them
for a target (`RunRecipe`: `initialize_file_variables`, `target_environment`, the
expansion of its recipe) and expands values with functions.  **`TextFunctions`** has the
functions on texts of `function.c`, **`CommandLines`** what happens to the text of a
recipe: `chop_commands`, the flags in front of a line, `construct_command_argv`.
**`VariableMeaning`**, **`TextMeaning`** and **`CommandMeaning`** define the same results from
the manual's point of view: the innermost scope that defines a variable, words one by
one, a POSIX shell's reading of a line.

The `MC` modules have the instances for TLC.  Operators named `X_Something` are
defective variants of `X`, each with the defect in its comment; they are used by no
specification, only to show that the properties can fail.

## 4. The runs

| Run | Instance | What it shows |
|---|---|---|
| `job_slots` | four files, two of them made by one recipe; recipes that mix commands, ignored failures, empty lines and `:`; -j1, -j2, -k, -i, `.DELETE_ON_ERROR`, `.NOTPARALLEL` under -j with -l; commands may fail | slots are counted, no slot is held when make exits, and what runs without one is the exception of section 5 (`SlotsHeld`); one command at a time where asked for, success only after the last line, half-built targets removed, one run at a time for a group, one reader of standard input (`RecipesSafe`); lines in order, each once, none after a failure that is not ignored (`RecipeInOrder`); make exits |
| `job_tokens` | three files, two of them grouped, lines marked `+`, one token beside the free one, other makes on the pipe; with and without -l, -k, -q, -n | the inductive invariant `SafeInv`, which `IInv` is part of; tokens counted and conserved, -j never exceeded, only lines marked `+` run under -q and -n, tokens back at exit; `Job` implements `Jobs` (`ImplementsJobs`, safety); every recipe handed over is finished unless make exits (`RecipesEnd`, liveness) |
| `jobserver` | a master, a make below it that is recursive and one below that is not, four commands, two tokens, one signal; with and without `pselect`, pipe and fifo | no child's death is missed; all commands together stay within -j; at the master's end every token is accounted for; `Jobserver` implements `TokenPool`; all makes end |
| `signal` | recipes of two lines and of one, one target precious; two arrivals out of SIGTERM, SIGQUIT, SIGXCPU | a handler finds chain and slots in order; after one signal no command is left and no target half built; make ends |
| `output_sync` | a root and a make below it, three recipes, five lines, -Oline, -Otarget, -Orecurse; one failure of the lock or of a temporary file | nothing is lost, doubled or out of order; what is kept together is not divided; each part stands under the right directory line; the lock is free and its file gone at the end |
| `remake_walk` | one makefile (in `MCRemake`) of fifteen files: prerequisites shared by two targets, intermediate files, an order-only one, `.WAIT`, a grouped rule, a `::` target of two rules, a cycle, a blank recipe, a file without a rule; three lists of goals, six trees, -j1, -j2 with -k, -q, -q with -k, -n, -B; recipes that fail or leave their target alone | no recipe before its prerequisites; none twice, the rules of a `::` target in order, `.WAIT` kept (`RecipeOrder`); none without need; none left to do, and -q and the exit status tell the truth (`RightAtEnd`); only cycles are dropped and only make's own files removed (`NothingElseLost`); the walk ends |
| `startup` | two included makefiles remade, missing, stale, dependent on each other in every way, with -k, -q, -n, -B, -W; argv in every form; the ways to come by jobs; exec that fails | make restarts only after a change, goes on to the goals with the makefiles as they are, with the options, jobs and makefiles of the first image; nothing it made for itself is left; it does not restart for ever |
| `go_walk` | eight makefiles of four files, every order of times, a recipe that fails, is excused or calls make, -k, -B, -n, -q, -t one at a time; three runs one after the other | each recipe once, after its prerequisites' and not after a failed one; a failure is told by the exit status; repeated runs settle (`RunsRight`) |
| `implicit` | every pair of rules with one or two prerequisites over four suffixes, and twenty-one makefiles picked for a feature each, nine of them for search paths and for recipes that add and remove files and directories; every order of searches, writes and reaping | a rule is found exactly when one can make the file (unless rules form a loop: then only when one can), a direct rule before a chain, the shortest stem, the first defined, the later of two equal rules (`SearchRight`); what a chain needs can be had (`PrerequisitesObtainable`); once recipes are reaped make knows the disk as it is and follows the search paths as written (`FilesFound`) |
| `options` | three makes, at most three parts out of flags, arguments with blanks, backslashes and dollars, -j, each jobserver style, variables, and what a makefile adds; a fifo that cannot be made; lines with and without `+` | a make below has the switches and variables of the one above; it joins the jobserver of a recursive line above it, and a fifo from any line, unless it has a -j of its own, and no pipe from a plain line (`JobserverJoined`) |
| `read` | every makefile of three to five lines in nine worlds | which lines count, which errors are told, which rules, default goal, marks and automatic variables come of them; under `.SECONDEXPANSION`, with any two goals, which prerequisites each file gets from which targets' variables (`RulesAsWritten`) |
| `variables` | every makefile of up to three lines in fifteen worlds | values in recipes, environments of recipes, the words of commands |

Each property of each run also fails when the definition of the model that it is
about is replaced by one of its defective variants (`mutants` in `PROJECT.json`).

Bounds.  In `Job`, four files let two recipes wait while one holds a slot and another is
being started; with three, every order of a reap, a start and a wait already occurs.
Two or three lines give a first, a middle and a last one, and one that is passed over.
One token and the free one make two jobs, and a third has to wait: with more tokens
nothing new can be told apart, as the code tests `jobserver_tokens` only for 0 and 1.
No counter needs a bound in the guards: every recipe is handed over at most once and
has finitely many lines, and tokens are conserved.

In `remake_walk` two slots are enough for a recipe to run while the walk goes on, for
another to wait for it, and for both to end in either order.  The trees have a file
missing at each level (a target, a prerequisite, a member of a group) and the source
file older or newer than what is made from it; intermediate files are missing in
some and present in others.  A recipe writes at most once, so times are bounded by
the number of files.

`MaxArrivals = 2` is the smallest number for which a signal hits a handler, and after
the second signal of a kind the default action ends make.  `MaxFatal = 1`: one make
dies with its tokens while others wait for them.  `MaxFailures = 1` in `OutputSync`: a
failure switches synchronisation off in the make it hits, a second one finds nothing
to switch off.  `MaxRuns = 3` in `GoRemake` is one more than the depth of its
makefiles.  `MaxOpen` is 2 in place of `MAX_OPEN_DIRECTORIES`, 10, so that
a second open directory is read to its end.  A recipe of `Implicit` changes the disk once;
two of them can be between their change and their reaping at a time.  In `Startup`, two restarts show that what one image hands on is what the
next one hands on.  `MaxGoals = 2` in `Read`: what the first goal has gone into is not
gone into again for the second.  `Read`, `Variables`, `Options` and `Implicit` enumerate inputs: a
hazard there is a combination of two or three lines, rules or switches, and their
worlds are chosen so that the lines which touch the same piece of state are in one
world.

Deadlock is checked for `Job`, `Remake`, `Signal` and `Startup`: the only state without a
successor would be a make that waits forever, as one that is over stutters (`Exited`,
`Finished`, `Gone`, `Over`).  `internal` in `Job` is the fatal error "INTERNAL: no children
as we go to sleep on read"; it has no successor, so a run that reached it would be a
deadlock as well.  The other systems stop at their end; for `Jobserver` and
`OutputSync` a liveness property says that they stop nowhere else.

Fairness is used by the liveness properties only.

* `Job`: weak fairness of make's own steps: it is a process that is scheduled; of each
  command's exit (a command that never ends keeps make waiting, rightly) and of other
  makes returning tokens, for the same reason; strong fairness of `AcquireToken`: a
  make that is woken for a token again and again gets one.  The pipe gives no such
  guarantee of order, but the kernel does not let one reader lose forever.
  The load is left without fairness: it may be too high at every look.  Progress then
  comes from `job_slots_used > 0` in `load_too_high`'s caller: the last job to end
  leaves nothing running, and the load is not looked at.
* `Remake`: weak fairness of make's own steps and of the end of each recipe.
* `Signal`: of the program, of the delivery of a signal that is pending and not
  blocked (the kernel delivers before the process goes on), and of the end of commands.
* `Jobserver`: of each make's own steps and of the end of commands.  No fairness of
  `GivesUp` or `Fatal`, which need not happen.
* `OutputSync`: of each make's own steps, of the lock (`Acquire` is enabled while the
  lock is free; few makes want it and each lets go of it at once) and of what commands
  write and their end.
* `Startup`, `GoRemake`: of the whole next step (without `Again`): one process runs.

## 5. Where the code and its documents disagree

Found while the modules were written and seen on a build of `make-4.4` unless it says
otherwise.  The models do what the code does; the properties say how far the promise
goes (each with the exception in its comment or in the instance), and no run is there
to show a disagreement.

The job engine and the walk:

* With -q, -l and the jobserver the walk stops at a goal that needs work while a job is
  held back; make exits with status 1 holding a token and prints its INTERNAL message
  (`main.c:3698-3701` calls tokens left with any other status than 2 bad).
* A child whose first command cannot be started gets no slot; if the failure is ignored
  its later commands run uncounted and `die` ("Wait for children to die",
  `main.c:3751`) does not wait for them.
* With `.DELETE_ON_ERROR`, a target that an earlier line changed stays if a later line's
  process cannot be started (`commands.c:666`; the manual, `make.texi:3100`, has no such
  exception).
* Without a jobserver, -jN with -l starts more than N jobs: the waiting list is started
  without looking at the slots (`job.c:2160`), and the wait in `new_job` tests `==`
  (`job.c:1830`).
* `make -q a d`, where `a` needs work and `d` is a `::` target of two rules that needs
  work, goes round forever: `remake.c:199` says "stop immediately", but the two `break`s
  leave the outer loop running; in the next round `d` is neither stopped at nor finished
  (line 370).
* With `a b &:` and `a: y`, `y` intermediate and missing, `make b` runs the recipe without
  `y`: the loop over intermediate prerequisites (`remake.c:673`) goes through the list of
  `b` only.
* Under -k, with `p q: d` and two rules `d::` of which the second fails, `p` is given up
  and `q` is made: a target considered before answers for its first entry only
  (`remake.c:351`).
* An intermediate file listed before `.WAIT` is made after what is listed behind it
  (`make.texi:4463` has no exception), and a `.WAIT` in the prerequisites of an intermediate
  file is ignored: the loop of `check_dep` (`remake.c:1157-1200`) does not look at it.  Found
  when `WaitRespected` could not be proved.
* Under -q with -k an error met after a goal that needs work leaves the exit status at 1
  (`make.texi:9116` says two).

Starting again:

* `make -n i1` with `i1` and `i2` included and `i1` depending on `i2` restarts for ever
  (`remake.c:211-216`).
* argv is rebuilt wrongly by a second restart with standard input before another
  makefile, or with an option that has an `f` in its argument.

Commands:

* `.ONESHELL` with a newline within single quotes runs what follows again as a command
  (`job.c:2957-2962`, 3236).
* `''` before a continued line loses the empty word when make splits the line itself
  (`job.c:3010-3021`); a backslash at the very end of the text is dropped
  (`job.c:3006`).

Variables and functions:

* `a: private V ?= x` marks the global `V` private; `all: export V ?= x` exports it;
  `export V = g` with `%: V ?= x` un-exports it.
* `t: override V += a` and then `t: V = b` loses the inherited value.
* A private variable of a target reaches a prerequisite's environment when `V` is
  exported (`make.texi:6728`).
* `%: V += b` with `V` from the command line gives its value twice; `%: V := x` with
  `V=$(W)` on the command line gives the text `$(W)`; after `V=g`, `%: V += x`, `%: V := y` and
  `b: V += z` the value is `g y z`.
* A later pattern line resets the export and private marks of an earlier one (by the
  model); `b: V = x` with `override V = z` behind it gives the command line's value.
* `$(intcmp -10,-2,lt,eq,gt)` gives `gt` (`function.c:1332-1339`).
* After `V = a.c` and `b: V +=`, `$(V:.c=.o)` and `$(call V)` are empty while `$(V)` is `a.c`
  (`expand.c:353`, `function.c:2725`).
* `$(patsubst ,x,)` gives `x`; functions that `$(call)` each other without end overflow
  the stack.

Reading and special targets:

* The outer text of an ignored nested `define` is read after the inner `endef`
  (`make.texi:6458`); `override define` within a `define` is not counted as nested.
* `else ifdef B C` leaves one more level of conditionals open.
* `$(eval)` in a makefile of `MAKEFILES` sets the default goal (`make.texi:1341`).
* A target with any variable of its own does not get the global `.EXTRA_PREREQS`
  (`make.texi:7040`); a pattern's `.EXTRA_PREREQS` is ignored; only the first rule of a `::`
  target gets the global one.
* `all: x .WAIT | y` loses the `.WAIT`; `.NOTPARALLEL: all` separates neither extra
  prerequisites nor those of second expansion (`make.texi:3187`).
* With `.SECONDEXPANSION`, `.PHONY: $$(V)` marks nothing, and a second `|` that comes of the
  expansion is a file name.  `.PHONY: .SILENT` makes `.SILENT` a target.

Options:

* `V:=a$$b` on the command line loses its value in a make below (`main.c:1890-1903`,
  `make.texi:5091`).
* `MAKEFLAGS += -j # comment` is an error because of the blank; a variable defined in
  `MAKEFLAGS` by a makefile is not in `MAKEOVERRIDES` below; `--shuffle` added by a makefile
  is not set in that make.

Implicit rules:

* A name that was ruled impossible because its rule was in use is not tried again until a
  command has finished (`implicit.c:920`, against 763-765): with `%.g: %.a`, `%.a: %.b`,
  `%.b: %.c`, `%.b: %.e`, `%.c: %.a`, `%.e: %.d`, `%.z: %.c` and `x.d`, `make x.g x.z` succeeds
  and `make -n x.g x.z` has no rule for `x.z`; chains of intermediate files can be circular
  (`implicit.c:983`).
* An empty stem in a subdirectory matches (`make.texi:10576`); `rule.c:374` never recognises
  a rule of several targets that is given again.

The port, by the model and by reading it:

* -n and -q run recipes (`commands.go:205`); a goal without a rule is taken for done;
  `-q a b` stops after the first goal; without -k a goal that fails does not stop the next.
* A target may be left behind its prerequisites by one run, because `checkDep` does not
  read their times again; -t fails on empty and on missing files.
* Intermediate files are never looked at on disk and never removed; a search for a rule
  leaves the prerequisites of rules that did not fit.

## 6. What is proved

The theorems hold for every value of the constants under the named assumptions of the
modules, which TLC evaluates on each instance.  Those with content:

* `Job`: with a jobserver `job_slots` is 0, which `main` sets (`main.c:2194-2213`); the
  groups of targets that one recipe makes are classes (`GroupsAssumption`: `read.c:2317`
  and `implicit.c:1098` give every target of a group the same list; groups that overlap,
  which `read.c:2322` warns of, are left out).
* `OutputSync`: a line that starts a make starts one of its own, which is not the root
  (`SubsAssumption`): it is a process, and no two lines start the same one.
* `Remake`: the entries of a `::` target are a chain from its first one
  (`EntriesAssumption`: `file.c:192-200`, `read.c:2228-2231`).

| Theorem | States | In |
|---|---|---|
| `Invariance`, and from it `TypeCorrect`, `SlotsCounted`, `TokensCounted`, `TokensConserved`, `BoundedParallelism`, `SlotsLimited`, `NeverSleepsAlone`, `AlwaysSomeChild` | the accounts of the job engine, for every set of files and recipes, all options, any number of tokens | `JobProof` |
| `SafeInvariance`, `RecipesAreSafe`, `ExitsWithoutSlots`, `LinesRunInOrder` | `RecipesSafe`, `SlotsHeld` and `RecipeInOrder`: what may run at a time, which lines, what success means, that no slot is held when make exits, that a line waits for the one before it and for its success | `JobProof` |
| `EngineIsJobs` | every step of `Job` is a step of `Jobs` or leaves what `Jobs` has unchanged | `JobProof` |
| `JobserverInvariance`, `DeathsNoticed`, `AllAccounted`, `JobserverIsPool` | no make sleeps over a dead child; tokens are conserved over any tree of makes and any number of kills; `Jobserver` implements `TokenPool` | `JobserverProof` |
| `SignalInvariance`, `OrderFound`, `NothingIsLeft`, `MainEnds` | what a handler finds, and which commands and targets it leaves, for any recipes and any number of signals in any nesting | `SignalProof` |
| `RemakeInvariance`, `PrerequisitesComeFirst`, `RecipesInOrder`, `NothingIsLost` | the order of recipes, for every makefile with `Plain`, all switches and disks, and every order in which recipes end | `RemakeProof` |
| `EndInvariance`, `RightWhenOver`, `NoneWithoutNeed` | `RightAtEnd` of every run that builds (neither -q nor -n) and `NeededOnly` of every run, for every makefile with `Direct`: `Plain` and without intermediate files | `RemakeEndProof` |
| `OutputSyncInvariance`, `OutputIsApart` | what is kept together stays undivided in the log (`Apart`), for any tree of makes, any recipes, -Oline, -Otarget and -Orecurse, until something fails | `OutputSyncProof` |
| `ImageInvariance`, `ImagesAgree` | `ImageKept`: the same part in the jobserver in every image, nothing left when make is over, for every world | `StartupProof` |
| `RestartsRight` | `NoNeedlessRestart`, `MakefilesCurrent` and `MissingIsFatal`, when -q and -n hold back no makefile | `StartupProof` |

Each proof has a lemma for each action, and under it one step for each conjunct that the
action can disturb.

**The job engine.**  `TokenAccounting` says that this make holds one token for each job on
the chain and on the waiting list.  It is not inductive alone: a job must not be
counted twice, so what is started must be neither on the chain nor waiting
(`OnceInv`, `WaitingInv`, `CurInv`), and what leaves the chain must be on it
(`ChainInv`).  From it follow `TokenConservation` (`free_child` writes a token back
exactly if another one remains) and, with the fact that only children of the chain
have processes, `ParallelismBound`.  `NoSleepWithoutChild` needs `ControlInv`: after
`start_waiting_jobs` has returned, either the waiting list is empty or the load was
found too high with a slot in use; if the chain is empty then so is the list, by
`TokenAccounting` no token is held, and new_job takes the free one without sleeping.
`SlotLimit` needs that without a load limit nothing ever waits (`SlotInv`).
`SafeInv` adds, for each place of `pc`, what has become of the recipe in hand and of its
group: of the targets of one recipe one at most has been handed over, all of them are
running or none is, and a recipe that is told to have succeeded has no line left.  That a
command without a slot is an ignored failure's successor (section 5) is part of it:
`die` waits until `job_slots_used` is 0, by `SlotAccounting` no child holds a slot then, and
what may still run is such a command.  That a group has its recipe run for one of its targets
only needs more than the states of the files, which -q leaves behind (section 3): `RunInv`
says that a recipe that has run is not handed over for another target, and that one which is
held back has run for none.  `RecipeInOrder` is a property of steps: each of the places where a
line is taken (`Started`, `FinishedAtOnce`, `ReapNextLine`, `ReapRecipeOver`) takes the first
one that needs a process, a child that is reaped has no command running and has ended well or
is ignored, and a job that is started by `new_job` or from the waiting list is at its beginning.

**The jobserver.**  The tokens in the pipe, in the hands of all makes, lost, and read back
by the master add up to those it made (`TokensKept`), where the hands are a sum over an
arbitrary finite tree.  For `TokenPool` this is not enough: the commands of a make that was
killed go on without tokens (`ExcessCovered`), each slot is a command, a dead command or a
make (`SlotsKept`), and a make runs only below makes that run: `NoOrphans` says it of every
set of makes closed under parents, because a make that is its own ancestor has to be ruled
out.  `NoDeathMissed` rests on `DeathMarked`: a child that has died since the last look has
left a pending SIGCHLD (`pselect`) or a closed duplicate (`job_rfd`).

**Signals.**  Handlers interrupt each other at any step, so `stack` has any depth.  Each frame
that reaps holds a child of its own (`ChildInHand`), the count of slots differs from the
chain only between the two assignments made with signals blocked (`SlotsTold`), a handler
that cleans up has waited for everything (`AllWaitedFor`), and a target that was deleted is
there again only if a command wrote it later (`DeletedIsGone`, `StruckDeleted`).

**Output.**  Two different things keep recipes apart, and `IInv` has both.  With -Oline and
-Otarget all makes write to the real standard output, and a dump holds the lock (`Locked`,
and `Synchronises`: while nothing has failed every make has the mutex, one that is being
started too, because the root that made the file of it outlives all others: `Family`).
With -Orecurse no one locks; a make other than the root writes to the file of the job that
runs it (`Sinks`), so only the root writes to the real standard output.  Then a job is
followed from its first line to the dump of its file.  What is in its file belongs together
(`Together`: of recipes below the job, or of the job itself with no recursive line between
them); nothing that was shown belongs with what the job still writes (`Passed`), since a
dump before the end comes only where a recursive line or -Oline ends a part; and of what is
in the file either nothing has been shown, or a dump is under way and has been since a place
`s` in the log after which there is only this file (`Whole`).  The last two together give
`Apart` when a chunk is added.  `Below`, the recipes that run because of a recipe, is defined
as a least set, since recursion could not be reasoned about.  Each step is shown to take one
job to its next stage (`Stage`) and to write in one of three ways (`Writes`); the rest of the
proof looks at stages and writes and no longer at actions.  TLC found `IInv` kept on the
instance of the run `output_sync` and on one of three makes, each below the last (156,442
states; by hand, not among the runs).

**Startup.**  `ImageInv` says what an image finds of the jobserver (`PipeInv`): the pipe is shut
only by an image that leaves its parent's jobserver for a -j of a makefile, and then the
next image, which can reach no jobserver and has one slot, is brought to the same number
by the same -j (`SameAgain`).  `LeftInv` says that a fifo is left only to the image that owns it.
`RestartInv` follows the makefiles through the walk: what was counted has left its mark on
the status (`CountedAt`), what was not there to be read is accounted for (`Explained`),
and only commands write a makefile.  Its hypothesis `~HeldBack` says that not both a makefile
is a goal and -q or -n was given: then a makefile that is needed by two others is held back
for one and not for the other, and what the status says depends on which came first.  The
run `startup` has such worlds too.  `ArgumentsKept` compares argv as it is decoded again
and again, a fold over words, and stays with TLC.

**The walk.**  The theorems about `Remake` have the hypothesis `Plain`: no `::` rules, no
grouped rules, and a level for each file (`Level`) such that prerequisites are on lower
ones: nothing is circular.  Switches, goals, disks, `.WAIT`, order-only and intermediate
files, failures and lazy recipes are arbitrary.  `PrerequisitesFirst` is not inductive: what
makes it true is known to calls that are suspended while others run.  So `IInv` has

* `WalkInv`: who calls whom, from which place and for which prerequisite (`Called`), that
  calls go down the levels (`Below`), and, since nothing is circular, that lists lose no
  member (`ListsKept`; that they still have all of them for the walk of `next` is
  `WholeLists`, by a smallest counterexample) and that `updating` marks calls under way;
* `FilesInv`: how `command_state`, `update_status`, `updated`, the job and the known time of
  a file go together (`check_dep` resets the state of an intermediate file that has been
  decided, so they do not determine each other), that an intermediate file that was made on
  the way was made by its recipe, and that what is made was made from what was made;
* `FramesInv`: what each suspended call has found out.  The first loop of `update_file_1` has
  seen each prerequisite before its place good, or gone and intermediate (`ScanOK`); the
  second has made those good that it has passed (`SecondOK`), or it has found nothing to do;
  neither is past `.WAIT` with something running before it (`WaitOK`); `check_dep` on an
  intermediate file answers for all it stands for (`CheckOK`);
* `ConsideredInv`, `NoFailure` and `TopInv`, what a return tells: a file that was considered
  is decided, waits, or is being gone through, and without -k the walk never goes on after
  a failure.

The hard part is that all this survives whatever happens meanwhile: `FrameKept` and `Calm`
in `RemakeProof` say which changes of other files a suspended call does not mind, and each
action is shown to make no other.  TLC found `IInv` kept on the instance `MCRemakePlain`
(`tlc -config MCRemakePlain.cfg MCRemakePlain`, 675,146 states, under three minutes; it is
run by hand and not among the runs of section 4).

**The end of a run.**  `RightAtEnd` speaks of the disk, of which the walk knows only the times
it has looked up, at some moment, while recipes write beside it.  `EndInv` (in `RemakeInv`)
adds to `IInv`, for makefiles without intermediate files and runs that build:

* `FileAtEnd`: a time that is known is the time on the disk, unless the file's own recipe
  has ended and is not yet reaped; what is called made was made from what is made, and is
  as new as each prerequisite that counts (`Current`; a recipe that leaves its target alone
  promises nothing).  It survives because a prerequisite that is made has no recipe that
  could still write to it, and each write gives the newest time there is;
* `FrameAtEnd`: `must_make` of a suspended `update_file_1` is true exactly if the target is
  missing or a prerequisite gone through so far is a reason to make it, by the disk;
  `Handed`: `check_dep` compares with the time its caller has.  From this `MustMake` is true
  exactly of what is `Stale`, which is `NeededOnly`: one direction says that no recipe runs
  without need, the other that what is passed over is `Current`;
* `GoalsAtEnd`: a goal is dropped only when it is made, and each file that is waited for or
  has failed is a goal, a prerequisite of another such file, or a prerequisite of a file on
  the stack (`Claimed`).  When all goals are made and the stack is empty there is no such
  file: one on the highest level would be wanted by no one (`NothingWanted`).  So a run that
  does not report failure has decided nothing that is not made.

What `RightAtEnd` says through recursive functions (`StandsFor`, `Reach`) is unfolded by a
smallest counterexample (`StandsForItself`) and, because the function itself has to be shown
to exist, by paths (`StepByStep`).  `QuestionAnswered`, a part of `RightAtEnd`, says nothing of
a run that builds.  `Direct` leaves out intermediate files because they are made in a second
loop, only if the target has to be made anyway.  TLC found `EInv` (`IInv` and `EndInv`),
`RightAtEnd` and `NeededOnly` kept on the instance `MCRemakePlain` with `Intermediates = {}`
in its configuration (530,629 states, by hand).

Two facts about induction used throughout: a sum over a finite set and a walk along a list
are recursive functions on sets that the invariant keeps finite or ordered, and what is
needed of them follows from the smallest set, or the last place, where it would fail.

Model-checked only: the liveness properties (`Terminates`, `RecipesEnd`, `AllEnd`,
`SignalEndsMake` and their like; the prover has no fairness); of `Remake` what the run ends
with (`RightAtEnd`) under -q and -n and, with that no recipe runs without need
(`NeededOnly`), where files are intermediate; makefiles with `::` rules, grouped rules and
circles; of `OutputSync` that the log is complete, in order
(`InOrder` compares it with a text put together by recursion) and under the right directory
lines; of `Startup` the types, `ArgumentsKept`, makefiles that are goals under -q and -n, and
that it ends; and `GoRemake`,
`Implicit` with `Directories`, `Options`, `Read`, `Variables` and the modules under them, which
are defined by recursion over data, out of the prover's reach.

## 7. What is not modelled

In the job engine: -t's recursive lines, remote jobs, the arithmetic of the load average
(only its outcome), the folding of backslash-newline within references (`new_job`),
`IFS` and the backquote in `CommandLines`.  Output and signals are not in `Job` but in
`OutputSync` and `Signal`, each with as much of the chain as it needs.

In the update walk: the search for implicit rules (files have the recipe and the
prerequisites it would have found; `Implicit` has the search), VPATH and the renaming of
files, archives, -t, -o, -W, shuffling, low resolution times, `dontcare` and `no_diag`
(`Startup` has the first), grouped `::` rules, recursive lines of a recipe under -n and
-q (`Job` has them).

In reading: how characters become lines and words (`readline`, the globbing of
`parse_file_seq`, archives), static pattern rules, `load`, and `$?`, `$*` and `$%`.  The walk
in which `Read` puts second expansion is one over files that are all there and need nothing:
no recipe is left running, nothing fails, no implicit rule is found, no file is intermediate
(`Remake` has those, with lists that are expanded already); the lists of grouped targets,
which the code expands with the one it considers, are expanded for that one only; and
automatic variables in a list that is expanded twice are left out.  In variables: `$(eval)` within values, `$(wildcard)`, `$(realpath)`, `$(file)`, `$(guile)`, the
splitting of a function's arguments as text, and a function body that refers to its own
variable without `$(call)`.  In implicit rules: second expansion in pattern rules, archives,
`.EXTRA_PREREQS`.  In options: the abbreviation of long
options, the format of -l's number, help and version.

In `dir.c` and `vpath.c`: `dir_setup_glob`, GPATH, empty directories and the root, and the
window between a recipe's change and its reaping, in which make may believe either.
`ar.c` and `arscan.c` are access to a file format.  Messages, memory, hashing, string
caching, `getopt`, the Windows and VMS layers, `guile` and `load` are sequential functions
of their arguments or I/O.

In the port: `pkg/job` is never entered with a job; the reader, variables and implicit
rules are ports of what `Read`, `Variables` and `Implicit` model, and what is particular
to them has not been studied.
