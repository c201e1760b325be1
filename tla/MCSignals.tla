----------------------------- MODULE MCSignals ------------------------------
(* MainLoop under fairness, with signals and children or with a timer: how    *)
(* these fall together is what MCMainLoop and the proofs are about.           *)
EXTENDS MainLoop

VARIABLE timed  \* the timer is used, and no children and signals of others

MCInit == timed \in BOOLEAN /\ Init
MCNext ==
  /\ Next /\ UNCHANGED timed
  /\ IF timed THEN UNCHANGED child /\ pending' \cap UserSignals = {}
     ELSE arg' = NoArg
MCFairSpec == MCInit /\ [][MCNext]_<<timed, vars>> /\ Fairness
=============================================================================
