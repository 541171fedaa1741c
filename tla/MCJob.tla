--------------------------------- MODULE MCJob ---------------------------------
(* Instances of Job for TLC. *)
EXTENDS JobInv, JobRefines, TLC

CONSTANTS a, b, c, d

Cmd == [kind |-> "command", noerror |-> FALSE, recursive |-> FALSE]
Minus == [Cmd EXCEPT !.noerror = TRUE]
Plus == [Cmd EXCEPT !.recursive = TRUE]
Empty == [Cmd EXCEPT !.kind = "empty"]
Colon == [Cmd EXCEPT !.kind = "colon"]

\* a recipe of two lines, one whose first line may fail, one that passes over two lines first
RecipeMix == a :> <<Cmd, Cmd>> @@ b :> <<Minus, Cmd>> @@ c :> <<Empty, Colon, Cmd>> @@ d :> <<Cmd, Cmd>>

\* a and d have one recipe; lines marked + run even under -q and -n
RecipeShared == a :> <<Minus, Plus>> @@ d :> <<Minus, Plus>> @@ b :> <<Plus, Cmd>>

\* a and d: two targets of one recipe
Pair == [f \in Files |-> IF f \in {a, d} THEN {a, d} \ {f} ELSE {}]

Plain ==
    [slots |-> 1, jobserver |-> FALSE, not_parallel |-> FALSE, load |-> FALSE,
     keep_going |-> FALSE, ignore_errors |-> FALSE, question |-> FALSE,
     just_print |-> FALSE, delete_on_error |-> FALSE]

\* -j1 and -j2 without a jobserver, -k, -i, .DELETE_ON_ERROR; .NOTPARALLEL under -j
SlotOptions ==
    {[Plain EXCEPT !.keep_going = TRUE],
     [Plain EXCEPT !.slots = 2],
     [Plain EXCEPT !.slots = 2, !.ignore_errors = TRUE],
     [Plain EXCEPT !.slots = 2, !.keep_going = TRUE, !.delete_on_error = TRUE],
     [Plain EXCEPT !.slots = 0, !.not_parallel = TRUE, !.load = TRUE]}

\* -jN with the jobserver: with and without -l and -k, -q and -n
TokenOptions ==
    {[Plain EXCEPT !.slots = 0, !.jobserver = TRUE, !.load = l, !.keep_going = k,
                   !.question = (m = "q"), !.just_print = (m = "n")] :
        l \in BOOLEAN, k \in BOOLEAN, m \in {"q", "n", "-"}}
================================================================================
