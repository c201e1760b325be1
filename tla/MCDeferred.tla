----------------------------- MODULE MCDeferred -----------------------------
(* Deferred with two addresses, so that one is reused while the other lives,  *)
(* and fewer slots than entries may be pending, so that the heap is used.     *)
EXTENDS Deferred
=============================================================================
