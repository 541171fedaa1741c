-------------------------------- MODULE MCRemake -------------------------------
(* Instances of Remake for TLC. *)
EXTENDS Remake, TLC

CONSTANTS all, p, q, x, y, i, s, v, a, b, k, l, w, e, n

On(f) == [file |-> f, ignore_mtime |-> FALSE, wait_here |-> FALSE]
Before(f) == [On(f) EXCEPT !.ignore_mtime = TRUE]
Later(f) == [On(f) EXCEPT !.wait_here = TRUE]

Default == [slots |-> 1, keep_going |-> FALSE, question |-> FALSE, just_print |-> FALSE,
            always_make |-> FALSE]

(*
One makefile for all runs; what is asked for chooses the part that matters.
    all: p q                # phony
    p: x i ; ...
    q: x i .WAIT y | v ; ...
    x: s ; ...              # may leave x alone
    i: s v ; ...            # intermediate
    y: ; ...                # may fail
    a b &: v l ; ...
    b: v
    l: k s ; <blank>
    k: l ; ...              # intermediate, in a cycle with l
    w:: a ; ...             # may fail
    w:: v k ; ...           # e
    v: ; ...                # may fail
There is no rule for s and n; n does not exist.
*)
MCPrereqs ==
    [f \in Files |->
        CASE f = all -> <<On(p), On(q)>>
          [] f = p -> <<On(x), On(i)>>
          [] f = q -> <<On(x), On(i), Later(y), Before(v)>>
          [] f = x -> <<On(s)>>
          [] f = i -> <<On(s), On(v)>>
          [] f = a -> <<On(v), On(l)>>
          [] f = b -> <<On(v)>>
          [] f = l -> <<On(k), On(s)>>
          [] f = k -> <<On(l)>>
          [] f = w -> <<On(a)>>
          [] f = e -> <<On(v), On(k)>>
          [] OTHER -> <<>>]

MCAlsoMake == [f \in Files |-> IF f = a THEN <<b>> ELSE IF f = b THEN <<a>> ELSE <<>>]
MCDoubleColon == [f \in Files |-> IF f \in {w, e} THEN w ELSE NoFile]
MCPrev == [f \in Files |-> IF f = w THEN e ELSE NoFile]
MCCmds == [f \in Files |-> IF f \in {all, s, n} THEN "none" ELSE IF f = l THEN "blank" ELSE "lines"]

\* the times of a tree that has been made, some files removed since, s new or old
Disk(gone, new) ==
    [f \in Files |-> IF f \in {all, l, n} \cup gone THEN NONEXISTENT_MTIME
                     ELSE IF f = s THEN new ELSE IF f \in {p, q, a, b, w, e} THEN 3 ELSE 2]

WalkOptions ==
    {[Default EXCEPT !.slots = j, !.keep_going = (j = 2)] : j \in {1, 2}}
    \cup {[Default EXCEPT !.question = TRUE, !.keep_going = g] : g \in BOOLEAN}
    \cup {[Default EXCEPT !.just_print = TRUE], [Default EXCEPT !.always_make = TRUE]}
WalkGoals == {<<all>>, <<w, n, l>>, <<k, b, a>>}
WalkDisks == {Disk(gone, new) : gone \in {{i, k, p}, {i, k, y}, {v, b}}, new \in {2, 4}}
================================================================================
