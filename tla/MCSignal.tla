-------------------------------- MODULE MCSignal --------------------------------
(* Instances of Signal for TLC: two recipes, of one line and of two.          *)
EXTENDS Signal, TLC

CONSTANTS c1, c2

MCChildren == {c1, c2}
MCLines == (c1 :> 2) @@ (c2 :> 1)
================================================================================
