------------------------------ MODULE History -------------------------------
(***************************************************************************)
(* The history of the line editor (mod_query/history.c): a ring of         *)
(* HISTORY_SIZE strings that starts at hist_head and grows downwards.      *)
(***************************************************************************)
EXTENDS Integers, Sequences

CONSTANTS
  Entries,       \* the strings: a context and a line
  HISTORY_SIZE,
  NoEntry

ASSUME HistoryAssumption == HISTORY_SIZE \in Nat \ {0} /\ NoEntry \notin Entries

VARIABLES hist, hist_head, hist_count

history == <<hist, hist_head, hist_count>>

HistoryInit ==
  /\ hist = [i \in 0..HISTORY_SIZE - 1 |-> NoEntry]
  /\ hist_head = HISTORY_SIZE
  /\ hist_count = 0

\* get_index, of an index that is in range
Index(i) == (hist_head + i) % HISTORY_SIZE

\* mod_query_history_get for all indices
Get == [i \in 0..hist_count - 1 |-> hist[Index(i)]]

\* Mutants: the entries are moved one too few, the oldest is not overwritten but counted
Removed_short(k) ==
  [j \in DOMAIN hist |->
     IF \E i \in k..hist_count - 3 : j = Index(i)
     THEN hist[Index((CHOOSE i \in k..hist_count - 3 : j = Index(i)) + 1)] ELSE hist[j]]

\* the loop of mod_query_history_push_ that closes the gap at k
Removed(k) ==
  [j \in DOMAIN hist |->
     IF \E i \in k..hist_count - 2 : j = Index(i)
     THEN hist[Index((CHOOSE i \in k..hist_count - 2 : j = Index(i)) + 1)] ELSE hist[j]]

Before(head) == IF head - 1 < 0 THEN HISTORY_SIZE - 1 ELSE head - 1

Prepend(e, h, count) ==
  /\ hist_head' = Before(hist_head)
  /\ hist_count' = IF count = HISTORY_SIZE THEN count ELSE count + 1
  /\ hist' = [h EXCEPT ![Before(hist_head)] = e]

mod_query_history_push_(e) ==
  \/ hist_count > 0 /\ Get[0] = e /\ UNCHANGED history
  \/ \E k \in 1..hist_count - 1 : Get[k] = e /\ Prepend(e, Removed(k), hist_count - 1)
  \/ (\A k \in DOMAIN Get : Get[k] # e) /\ Prepend(e, hist, hist_count)

\* the strings are freed, and the pointers to them stay
mod_query_history_clear ==
  /\ hist_count' = 0 /\ hist_head' = HISTORY_SIZE
  /\ UNCHANGED hist

HistoryNext == mod_query_history_clear \/ \E e \in Entries : mod_query_history_push_(e)

HistorySpec == HistoryInit /\ [][HistoryNext]_history

-----------------------------------------------------------------------------
(* Properties *)

HistoryTypeOK ==
  /\ hist \in [0..HISTORY_SIZE - 1 -> Entries \cup {NoEntry}]
  /\ hist_head \in 0..HISTORY_SIZE /\ hist_count \in 0..HISTORY_SIZE
  /\ hist_head = HISTORY_SIZE => hist_count = 0

\* No string is in the history twice
EntriesDistinct ==
  \A i, j \in DOMAIN Get : Get[i] \in Entries /\ (Get[i] = Get[j] => i = j)

\* The ring holds the last entries, the latest first, each of them once:
\* whatever wraps around, is moved to the front or is forgotten
List == INSTANCE HistoryList WITH entries <- [i \in 1..hist_count |-> Get[i - 1]]
HistoryIsList == List!Spec

\* of a history that is there already
HistoryStaysList == [][List!Next]_history
=============================================================================
