----------------------------- MODULE MCSession -----------------------------
(* A few requests of the user against one save the manager starts itself;   *)
(* one other window manager is enough, as only its being set matters.       *)
EXTENDS Session
=============================================================================
