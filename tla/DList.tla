------------------------------- MODULE DList -------------------------------
(***************************************************************************)
(* The linked lists of libtu/dlist.h.  A list is the pointer to its first  *)
(* item; the links are in the items.  NEXT of the last item is NULL, and   *)
(* PREV of the first is the last: the lists are closed backwards only.     *)
(* An item that is on no list has a PREV of NULL.                          *)
(*                                                                         *)
(* A list is a record d: the links of all items, of whatever list, are the *)
(* functions d.next and d.prev, and d.first is the pointer to the first.   *)
(* Assignments are in the order of the macros, which matters when an item  *)
(* is linked after itself.                                                 *)
(***************************************************************************)
EXTENDS Naturals, FiniteSets

CONSTANT NULL

LinkFirst(d, x) ==
  IF d.first = NULL
  THEN [d EXCEPT !.next[x] = NULL, !.prev[x] = x, !.first = x]
  ELSE [d EXCEPT !.next[x] = d.first, !.prev[x] = d.prev[d.first],
                 !.prev[d.first] = x, !.first = x]

LinkAfter(d, after, x) ==
  LET e == [d EXCEPT !.next[x] = d.next[after], !.prev[x] = after, !.next[after] = x]
      n == e.next[x]
  IN [e EXCEPT !.prev[IF n = NULL THEN e.first ELSE n] = x]

Unlink(d, x) ==
  LET n == d.next[x]
      p == d.prev[x]
      e == CASE p = NULL -> d
             [] p # NULL /\ d.first = x /\ n = NULL -> [d EXCEPT !.first = NULL]
             [] p # NULL /\ d.first = x /\ n # NULL -> [d EXCEPT !.first = n, !.prev[n] = p]
             [] p # NULL /\ d.first # x /\ n = NULL ->
                  [d EXCEPT !.next[p] = NULL, !.prev[d.first] = p]
             [] OTHER -> [d EXCEPT !.next[p] = n, !.prev[n] = p]
  IN [e EXCEPT !.next[x] = NULL, !.prev[x] = NULL]

LastItem(d) == IF d.first = NULL THEN NULL ELSE d.prev[d.first]

\* LIST_PREV: the item before x, NULL when x is the first
PrevItem(d, x) == IF d.next[d.prev[x]] = NULL THEN NULL ELSE d.prev[x]

\* The items from d.first on; more of them than there are nodes on a circle
Items(d) ==
  LET N == Cardinality(DOMAIN d.next)
      at[k \in 1..N + 1] == IF k = 1 THEN d.first
                            ELSE IF at[k-1] = NULL THEN NULL ELSE d.next[at[k-1]]
      count == CHOOSE n \in 0..N + 1 : (n > 0 => at[n] # NULL) /\ (n <= N => at[n+1] = NULL)
  IN [i \in 1..count |-> at[i]]

Sound(d) ==
  LET is == Items(d)
      N == Cardinality(DOMAIN is)
  IN /\ N <= Cardinality(DOMAIN d.next)
     /\ \A i \in 1..N : d.prev[is[i]] = is[IF i = 1 THEN N ELSE i - 1]
=============================================================================
