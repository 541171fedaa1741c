----------------------------- MODULE MCOutputSync -----------------------------
(* A root with a recipe of one line and one whose second line of two starts a   *)
(* make, which has a recipe of two lines.                                       *)
EXTENDS OutputSync, TLC

MCOwner == "a" :> "root" @@ "b" :> "root" @@ "c" :> "sub"
MCLines == "a" :> 1 @@ "b" :> 2 @@ "c" :> 2
MCSubs == <<"b", 2>> :> "sub"
================================================================================
