------------------------------ MODULE MCJobserver ------------------------------
(* A master, a make its recipe starts with $(MAKE), and one that this starts       *)
(* without, on a jobserver with two tokens; make built either way, with a pipe and  *)
(* with a fifo.                                                                    *)
EXTENDS Jobserver

MCParent == "sub" :> "master" @@ "subsub" :> "sub"
MCWork == "master" :> 1 @@ "sub" :> 2 @@ "subsub" :> 1
MCBuilds == BuildType
================================================================================
