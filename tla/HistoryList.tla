---------------------------- MODULE HistoryList -----------------------------
(***************************************************************************)
(* What the history of the line editor promises: its last entries, the     *)
(* latest first and each of them once, as many as there is room for.       *)
(***************************************************************************)
EXTENDS Naturals, Sequences

CONSTANTS Entries, HISTORY_SIZE

VARIABLE entries

Init == entries = <<>>

\* the place that is left free by e, or by the entry that is forgotten
Vacated(e) ==
  IF \E k \in DOMAIN entries : entries[k] = e THEN CHOOSE k \in DOMAIN entries : entries[k] = e
  ELSE IF Len(entries) < HISTORY_SIZE THEN Len(entries) + 1 ELSE HISTORY_SIZE

\* e becomes the first; those before the place that is free move by one
Push(e) ==
  entries' = [i \in (DOMAIN entries) \cup {Vacated(e)} |->
                IF i = 1 THEN e ELSE IF i <= Vacated(e) THEN entries[i - 1] ELSE entries[i]]

Clear == entries' = <<>>

Next == Clear \/ \E e \in Entries : Push(e)

Spec == Init /\ [][Next]_entries
=============================================================================
