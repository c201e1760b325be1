----------------------------- MODULE MCServices -----------------------------
(* The services of libmainloop beside its loop: hooks, descriptors and the    *)
(* arithmetic of timers.  They share no state, so that a behaviour is one of  *)
(* one of them, and the others rest.                                          *)
(* Seconds of ten microseconds, milliseconds of two and a uint of four bits:  *)
(* every carry, borrow and overflow happens.                                  *)
EXTENDS Hooks, Inputs, TimeVal

VARIABLE part  \* the service that is used

\* Two programs and a connection, one and two, or three programs: callbacks can use a
\* number again that was closed in their round, and a connection can find no buffer
MCInUse == {Pipes} \cup {{p, q} \cup {c} : p, q \in Pipes, c \in Conns} \cup {{p} \cup Conns : p \in Pipes}
Symmetry == {p @@ q : p \in Permutations(Pipes), q \in Permutations(Conns)}

MCInit ==
  /\ part \in {"hooks", "inputs", "timers"}
  /\ HooksInit /\ InputsInit /\ Init
  /\ part # "inputs" => \A st \in Conns : streams[st].state = "new"

MCNext ==
  /\ \/ part = "hooks" /\ HooksNext /\ UNCHANGED <<inputs, vars>>
     \/ part = "inputs" /\ InputsNext /\ UNCHANGED <<hooks, vars>>
     \/ part = "timers" /\ Next /\ UNCHANGED <<hooks, inputs>>
  /\ UNCHANGED part

MCSpec == MCInit /\ [][MCNext]_<<part, hooks, inputs, vars>>
=============================================================================
