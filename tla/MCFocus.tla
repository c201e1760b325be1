------------------------------- MODULE MCFocus -------------------------------
(* What is between ioncore and the X server: the focus, on a screen with two  *)
(* frames, the first with the group of a client and its transient; and the    *)
(* windows of clients that come and go.  The two share no state, so that a    *)
(* behaviour is one of one of them.                                           *)
EXTENDS Focus, ClientWin, TLC
CONSTANTS root, f1, f2, g, c1, c2

VARIABLE part

MCParent == (root :> NULL) @@ (f1 :> root) @@ (f2 :> root) @@ (g :> f1) @@ (c1 :> f1) @@ (c2 :> f1)
MCManager == (root :> NULL) @@ (f1 :> root) @@ (f2 :> root) @@ (g :> f1) @@ (c1 :> g) @@ (c2 :> g)

Symmetry == Permutations(Windows)

MCInit ==
  /\ part \in {"focus", "clients"}
  /\ Init /\ ClientInit
  \* the other part rests in one state
  /\ part = "clients" => s = Settled(c1, FALSE)
  /\ part = "focus" => \A w \in Windows : ~cw.wants[w] /\ cw.prop[w] = "none" /\ cw.icon[w] = NoWindow

MCNext ==
  /\ \/ part = "focus" /\ Next /\ UNCHANGED clients
     \/ part = "clients" /\ ClientNext /\ UNCHANGED vars
  /\ UNCHANGED part

MCSpec == MCInit /\ [][MCNext]_<<part, vars, clients>>
=============================================================================
