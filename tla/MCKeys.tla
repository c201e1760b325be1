------------------------------- MODULE MCKeys -------------------------------
(* Keys: the bindings that windows grab, and the grabs of the keyboard that   *)
(* handlers take.  They share no state, so that a behaviour is one of one of  *)
(* them, and the other rests.                                                 *)
EXTENDS Bindings, Grab

VARIABLE part  \* what is at work

MCBindmaps == <<"ClientWin", "Frame", "Group", "GroupWS", "Tiling">>
MCMapsOf(r) ==
  CASE r = "groupws" -> <<"Group", "GroupWS">>
    [] r = "tiling" -> <<"Tiling">>
    [] r = "groupcw" -> <<"Group", "ClientWin">>
MCManagers(r) == IF r = "tiling" THEN <<"groupws", "tiling">> ELSE <<r>>

MCInit ==
  /\ part \in {"bindings", "grab"} /\ BindingsInit /\ Init
  /\ part = "grab" => keymap = CHOOSE f \in [Keysyms -> Keycodes] : TRUE
MCNext ==
  /\ \/ part = "bindings" /\ BindingsNext /\ UNCHANGED vars
     \/ part = "grab" /\ Next /\ UNCHANGED binding
  /\ UNCHANGED part
MCSpec == MCInit /\ [][MCNext]_<<part, binding, vars>>
=============================================================================
