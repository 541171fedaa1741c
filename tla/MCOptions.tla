----------------------------- MODULE MCOptions -----------------------------
(* Command lines for Options: up to three makes, one below the other. *)
EXTENDS Options

W(letter, text) == <<"-", letter>> \o text
Long(name) == <<"-", "-", name>>
LongArg(name, text) == <<"-", "-", name, "=">> \o text
Blank == <<"x", " ", "y">>
Dollar == <<"a", "$", "$", "b">>
Def(name, op, text) == <<name>> \o op \o <<"=">> \o text

Flags == [none |-> <<>>, k |-> <<W("k", <<"n">>)>>, kS |-> <<W("k", <<>>), W("S", <<>>)>>,
          w |-> <<W("w", <<>>), Long("trace")>>,
          w_off |-> <<W("w", <<>>), Long("no-print-directory")>>]
Args == [none |-> <<>>,
         dirs |-> <<W("I", <<"d">>), W("I", <<>>), Blank, W("I", <<"d">>)>>,
         slash |-> <<W("I", <<"x", "\\", " ", "\\">>), W("C", <<"d">>)>>,
         sync |-> <<W("O", <<>>), Long("shuffle")>>,
         mode |-> <<LongArg("shuffle", <<"reverse">>), W("O", <<"line">>)>>,
         eval |-> <<W("E", Dollar), W("E", Blank)>>]
Style(name) == LongArg("jobserver-style", <<name>>)
Jobs == [none |-> <<>>, two |-> <<W("j", <<"2">>)>>,
         next |-> <<W("j", <<>>), <<"3">>, Style("pipe")>>,
         fifo |-> <<Style("fifo"), W("j", <<"2">>)>>,
         inf |-> <<W("j", <<>>), W("k", <<>>)>>, one |-> <<W("j", <<"1">>)>>]
Defs == [none |-> <<>>, one |-> <<Def("V", <<>>, Blank)>>,
         two |-> <<Def("V", <<>>, Dollar), Def("U", <<":">>, <<"-", "\\">>),
                   Def("V", <<>>, <<"$", "$">>), <<"goal">>>>,
         dollar |-> <<Def("V", <<":">>, Dollar)>>]
Adds == [none |-> <<>>, k |-> <<"k">>, dir |-> W("I", <<"z", "\\", " ">>),
         jobs |-> W("j", <<"4">>), style |-> W("j", <<"4", " ">>) \o Style("pipe"),
         def |-> Def("X", <<>>, <<"1">>)]
Lines == [plain |-> [recursive |-> FALSE, argv |-> <<>>],
          recursive |-> [recursive |-> TRUE, argv |-> <<>>],
          jobs |-> [recursive |-> TRUE, argv |-> <<W("j", <<"2">>)>>]]

World2(w) == [argv |-> Flags[w[1]] \o Args[w[2]] \o Jobs[w[3]] \o Defs[w[4]],
              makefile |-> <<Adds[w[5]], <<>>, <<>>>>,
              lines |-> <<Lines[w[6]], Lines[w[7]]>>]

Some == (DOMAIN Flags) \X (DOMAIN Args) \X (DOMAIN Jobs) \X (DOMAIN Defs)
          \X (DOMAIN Adds) \X (DOMAIN Lines) \X (DOMAIN Lines)

\* at most three of the parts are there
MCWorlds == {w \in Some :
               Cardinality({i \in 1 .. 5 : w[i] # "none"}) <= 3
               /\ (w[4] = "dollar" => w[2] = "none" /\ w[5] = "none")}
=============================================================================
