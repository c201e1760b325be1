----------------------------- MODULE MCMainLoop -----------------------------
(* MainLoop with a few timers and children, which the specification only      *)
(* compares, and a record of whether the program ever took time of its own.   *)
EXTENDS MainLoop

VARIABLE slow

Symmetry == Permutations(Timers) \cup Permutations(Children)

MCInit == Init /\ slow = FALSE
MCNext == Next /\ slow' = (slow \/ (now' # now /\ ~Asleep))
MCSpec == MCInit /\ [][MCNext]_<<vars, slow>>

\* When the loop of a program that takes no time of its own sleeps, the
\* interval timer expires in time for the first timer, whichever timers were
\* set, reset or fired since it was armed.
OnTime ==
  ~slow /\ pc = "pselect" /\ queue # <<>> /\ "ALRM" \notin pending =>
    itimer <= when[Head(queue)]
=============================================================================
