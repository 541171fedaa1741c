----------------------------- MODULE MCStartup -----------------------------
(* Makefiles mk and b, given by -f; i1 and i2, included.                           *)
EXTENDS Startup

MCFiles == {"mk", "b", "i1", "i2", "tmp"}

No == [f \in MCFiles |-> {}]
Flat == [f \in MCFiles |-> IF f = "mk" THEN <<"i1", "i2">> ELSE <<>>]
Nested == [f \in MCFiles |-> CASE f \in {"mk", "tmp"} -> <<"i1">> [] f = "i1" -> <<"i2">> [] OTHER -> <<>>]
NoRules == [f \in MCFiles |-> "none"]
Base == [argv |-> <<Short(<<"f">>, ""), Plain("mk")>>, rule |-> NoRules, includes |-> Flat,
         needs |-> No, present |-> {"mk", "b"}, stale |-> {}, care |-> {"mk", "b", "i1", "i2", "tmp"},
         goals |-> {}, keep |-> FALSE, question |-> FALSE, justprint |-> FALSE, always |-> FALSE,
         whatif |-> {}, auth |-> "none", envJ |-> 3, argvJ |-> 0, mkJ |-> 0, style |-> "fifo", sync |-> "no"]

Edges == { <<>>, <<"i1", "i2">>, <<"i2", "i1">> }
NeedsOf(e) == IF e = <<>> THEN No ELSE [No EXCEPT ![e[1]] = {e[2]}]
Inc == {"i1", "i2"}

\* every way the included makefiles can be remade, found and depended on
Remakings ==
    {"remakings"} \X Rules \X {"none", "remakes", "fails", "failsWriting", "dummy"}
                  \X {<<p, o>> \in (SUBSET Inc) \X (SUBSET Inc) : o \subseteq p} \X (SUBSET Inc)
                  \X Edges \X BOOLEAN
Remaking(r1, r2, po, c, e, k) ==
    [Base EXCEPT !.rule["i1"] = r1, !.rule["i2"] = r2, !.present = @ \cup po[1], !.stale = po[2],
                 !.care = @ \ c, !.needs = NeedsOf(e), !.keep = k]

\* -q, -B and -W, with a makefile that is also a goal
Options ==
    {"options"} \X {"remakes", "fails", "dummy"} \X {"remakes", "none", "fails"} \X (SUBSET Inc) \X Edges
                \X (SUBSET {"i1"}) \X {"q", "qk", "B", "W"}
Option(r1, r2, o, e, g, s) ==
    [Base EXCEPT !.rule["i1"] = r1, !.rule["i2"] = r2, !.present = @ \cup Inc, !.stale = o,
                 !.needs = NeedsOf(e), !.goals = g, !.question = (s \in {"q", "qk"}),
                 !.keep = (s \in {"qk", "B"}), !.always = (s = "B"), !.whatif = IF s = "W" THEN {"i2"} ELSE {}]

\* a makefile that is also a goal, under -n, when no other depends on it
Printed == {"printed"} \X {"remakes", "fails", "none"} \X {"remakes", "fails"} \X (SUBSET Inc) \X (SUBSET Inc)
Print1(r1, r2, o, a) ==
    [Base EXCEPT !.rule["i1"] = r1, !.rule["i2"] = r2, !.present = @ \cup (Inc \ a), !.stale = o,
                 !.goals = {"i1"}, !.justprint = TRUE]

\* every way to come by a number of jobs, with one restart or none
Parallelisms ==
    {"parallelism"} \X {"remakes", "none"} \X Auths \X {0, 2} \X {0, 1, 3, 4} \X {"fifo", "pipe"}
                    \X {"no", "root", "given"}
Parallelism(r, a, j, m, t, s) ==
    [Base EXCEPT !.rule["i1"] = r, !.present = @ \cup {"i2"}, !.auth = a, !.argvJ = j, !.mkJ = m,
                 !.style = t, !.sync = s, !.care = {}]

\* makefiles named in all manners, with two restarts
Argvs == <<
    <<Short(<<"f">>, ""), Plain("mk"), Plain("all")>>,
    <<Short(<<"k", "f">>, "mk")>>,
    <<Long("file", "mk"), Short(<<"I">>, "dir")>>,
    <<Long("file", ""), Plain("mk")>>,
    <<Short(<<"k", "f">>, ""), Plain("-"), Plain("all")>>,
    <<Long("file", "-")>>,
    <<Short(<<"f">>, ""), Plain("b"), Short(<<"k">>, ""), Short(<<"f">>, "-")>>,
    <<Short(<<"k">>, ""), Short(<<"f">>, "")>>,
    \* standard input before another makefile
    <<Short(<<"f">>, ""), Plain("-"), Short(<<"f">>, ""), Plain("b")>>,
    \* an option with an f in its argument
    <<Short(<<"I">>, "foo"), Short(<<"f">>, ""), Plain("mk")>> >>
Named(i) == [Base EXCEPT !.argv = Argvs[i], !.includes = Nested,
                         !.rule = [NoRules EXCEPT !["i1"] = "remakes", !["i2"] = "remakes"]]

MCWorld(i) ==
    CASE i[1] = "remakings" -> Remaking(i[2], i[3], i[4], i[5], i[6], i[7])
      [] i[1] = "options" -> Option(i[2], i[3], i[4], i[5], i[6], i[7])
      [] i[1] = "printed" -> Print1(i[2], i[3], i[4], i[5])
      [] i[1] = "parallelism" -> Parallelism(i[2], i[3], i[4], i[5], i[6], i[7])
      [] i[1] = "argv" -> Named(i[2])

MCWorlds == UNION {Remakings, Options, Printed, Parallelisms, {"argv"} \X (1..8)}
=============================================================================
