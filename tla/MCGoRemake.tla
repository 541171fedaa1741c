----------------------------- MODULE MCGoRemake -----------------------------
(***************************************************************************)
(* Eight small makefiles over four files, every order of the files' times  *)
(* on disk, one recipe that fails, is excused with '-' or calls make, and  *)
(* the flags one at a time.                                                *)
(***************************************************************************)
EXTENDS GoRemake

A == "a"  B == "b"  C == "c"  D == "d"
MCFiles == {A, B, C, D}

Dep(f) == [f |-> f, oo |-> FALSE, changed |-> FALSE]
OrderOnly(f) == [Dep(f) EXCEPT !.oo = TRUE]
NoDeps == [f \in MCFiles |-> <<>>]
NoPeers == [f \in MCFiles |-> {}]

Rules(cmds, deps, goals) ==
    [cmds |-> cmds, target |-> cmds, deps |-> deps, goals |-> goals,
     phony |-> {}, inter |-> {}, implicit |-> {}, peers |-> NoPeers,
     found |-> NoDeps]

Chain == [NoDeps EXCEPT ![A] = <<Dep(B)>>, ![B] = <<Dep(C)>>]
Makefiles ==
    [chain |-> Rules({A, B}, Chain, <<A>>),
     wide |-> Rules({A, B, C},
                [NoDeps EXCEPT ![A] = <<Dep(B), Dep(C)>>, ![B] = <<Dep(D)>>,
                               ![C] = <<Dep(D)>>], <<A>>),
     goals |-> Rules({A, B, C},
                [NoDeps EXCEPT ![A] = <<Dep(C)>>, ![B] = <<Dep(C)>>],
                <<A, B>>),
     cycle |-> Rules({A, B},
                [NoDeps EXCEPT ![A] = <<Dep(B)>>, ![B] = <<Dep(A), Dep(C)>>],
                <<A>>),
     order |-> Rules({A, B, C},
                [NoDeps EXCEPT ![A] = <<Dep(B), OrderOnly(C)>>,
                               ![C] = <<Dep(B)>>], <<A>>),
     phony |-> [Rules({A, B}, Chain, <<A>>) EXCEPT !.phony = {A}],
     inter |-> [Rules({A, B}, Chain, <<A>>) EXCEPT !.inter = {B}],
     peers |-> [Rules({A}, [NoDeps EXCEPT ![A] = <<Dep(B), Dep(C)>>], <<A>>)
                  EXCEPT !.implicit = {B, C},
                         !.peers = [NoPeers EXCEPT ![B] = {C}, ![C] = {B}],
                         !.found = [NoDeps EXCEPT ![B] = <<Dep(D)>>,
                                                  ![C] = <<Dep(D)>>]]]

FlagsWith(odd) ==
    CASE odd = "none" -> {{}, {"k"}, {"n"}, {"q"}, {"t"}, {"B"}}
      [] odd \in {"make", "mixed"} -> {{}, {"t"}}
      [] OTHER -> {{}, {"k"}}
Lines == [fails |-> <<"plain", "fails">>, ignored |-> <<"ignored", "plain">>,
          make |-> <<"make">>, mixed |-> <<"make", "plain">>,
          empty |-> <<>>]
Odd == {<<"none", "none">>}
         \cup {<<f, l>> : f \in {A, B, C}, l \in DOMAIN Lines}

Disks == {t \in [MCFiles -> {Nonexistent, 4, 5}] : t[D] = 4}

MCWorlds == UNION {{<<m, flags, odd, t>> :
                      m \in DOMAIN Makefiles, flags \in FlagsWith(odd[2]),
                      t \in Disks} : odd \in Odd}

MCWorld(id) ==
    LET m == Makefiles[id[1]] IN
    [cmds |-> m.cmds, target |-> m.target, deps |-> m.deps,
     goals |-> m.goals, phony |-> m.phony, inter |-> m.inter,
     implicit |-> m.implicit, peers |-> m.peers, found |-> m.found,
     flags |-> id[2], disk |-> id[4],
     recipe |-> [f \in MCFiles |-> IF f = id[3][1] THEN Lines[id[3][2]]
                                   ELSE <<"plain">>]]
=============================================================================
