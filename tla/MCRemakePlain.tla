----------------------------- MODULE MCRemakePlain ------------------------------
(***************************************************************************)
(* An instance of RemakeInv for TLC: a makefile without circular           *)
(* prerequisites, :: rules and grouped rules, with everything else that    *)
(* the inductive invariant speaks of: .WAIT, order-only prerequisites,     *)
(* intermediate files made from intermediate files, blank recipes, recipes *)
(* that fail and recipes that leave their target alone.                    *)
(***************************************************************************)
EXTENDS RemakeInv, TLC

CONSTANTS all, p, q, x, y, i, s, v, z, k, n

On(f) == [file |-> f, ignore_mtime |-> FALSE, wait_here |-> FALSE]
Before(f) == [On(f) EXCEPT !.ignore_mtime = TRUE]
Later(f) == [On(f) EXCEPT !.wait_here = TRUE]

(*
    all: p .WAIT q                  # phony
    p: x i ; ...
    q: x i .WAIT y z | v ; ...
    x: s ; ...                      # may fail, may leave x alone
    y: ; ...                        # may fail
    i: k .WAIT v s ; ...            # intermediate
    k: s ; ...                      # intermediate, may fail
    z: k | y ; ...                  # intermediate
    v: ; <blank>
There is no rule for s and n; n does not exist.
*)
PlainPrereqs ==
    [f \in Files |->
        CASE f = all -> <<On(p), Later(q)>>
          [] f = p -> <<On(x), On(i)>>
          [] f = q -> <<On(x), On(i), Later(y), Before(v), On(z)>>
          [] f = x -> <<On(s)>>
          [] f = i -> <<On(k), Later(v), On(s)>>
          [] f = k -> <<On(s)>>
          [] f = z -> <<Before(y), On(k)>>
          [] OTHER -> <<>>]

PlainLevel ==
    all :> 9 @@ p :> 5 @@ q :> 5 @@ i :> 3 @@ z :> 2 @@ x :> 1 @@ y :> 1 @@ k :> 1
    @@ s :> 0 @@ v :> 0 @@ n :> 0

NotGrouped == [f \in Files |-> <<>>]
NoEntry == [f \in Files |-> NoFile]
Recipes == [f \in Files |-> IF f \in {all, s, n} THEN "none" ELSE IF f = v THEN "blank" ELSE "lines"]

Default == [slots |-> 1, keep_going |-> FALSE, question |-> FALSE, just_print |-> FALSE,
            always_make |-> FALSE]
PlainOptions ==
    {[Default EXCEPT !.slots = j, !.keep_going = g] : j \in {1, 2}, g \in BOOLEAN}
    \cup {[Default EXCEPT !.question = TRUE, !.keep_going = g] : g \in BOOLEAN}
    \cup {[Default EXCEPT !.just_print = TRUE], [Default EXCEPT !.always_make = TRUE, !.slots = 2]}

PlainGoals == {<<all>>, <<i, z, x>>, <<q, n, p>>}

\* the times of a tree that has been made, some files removed since, s new or old
Disk(gone, new) ==
    [f \in Files |-> IF f \in {all, n} \cup gone THEN NONEXISTENT_MTIME
                     ELSE IF f = s THEN new ELSE IF f \in {p, q} THEN 3 ELSE 2]
PlainDisks ==
    {Disk(gone, 4) : gone \in {{i, k, p}, {i, k, y}, {v, z}, {i}, {k}, {k, z, i, p, x}}}
================================================================================
