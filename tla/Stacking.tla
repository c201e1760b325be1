------------------------------ MODULE Stacking ------------------------------
(***************************************************************************)
(* The list of what is stacked in a window, bottom to top                  *)
(* (ioncore/stacking.c).  An item has a level, and may have to stay above  *)
(* another, whose level it has then.  The server keeps a stacking order of *)
(* its own, which the program only changes relative to one other window.   *)
(*                                                                         *)
(* All items have a window.  A stacking z is a record of the list, the     *)
(* order of the server, the levels and what each item is above.            *)
(*                                                                         *)
(* stacking_do_weave first sees to it that the items to be woven have the  *)
(* levels of what they are above and come sorted by level; that it finds   *)
(* nothing to do is part of Ordered.                                       *)
(***************************************************************************)
EXTENDS Naturals, Sequences, FiniteSets, SequencesExt

CONSTANTS NoItem, MODAL1

Place(list, x) == CHOOSE i \in DOMAIN list : list[i] = x

\* The items of the list that are in S, and those that are not, in order
Only(list, S) ==
  LET kept[n \in 0..Len(list)] ==
        IF n = 0 THEN <<>>
        ELSE IF list[n] \in S THEN Append(kept[n-1], list[n]) ELSE kept[n-1]
  IN kept[Len(list)]
Without(list, S) == Only(list, Range(list) \ S)

\* x, what it is above, what that is above, and so on; NoItem behind the last
Up(z, x) ==
  LET up[k \in 1..Len(z.list) + 1] ==
        IF k = 1 THEN x ELSE IF up[k-1] = NoItem THEN NoItem ELSE z.above[up[k-1]]
  IN up
is_above(z, x, p) == \E k \in 2..Len(z.list) + 1 : Up(z, x)[k] = p

\* The server: x goes just below other, or to the top
RestackWindow(order, x, other) ==
  LET o == Without(order, {x})
  IN IF other = NoItem THEN Append(o, x) ELSE InsertAt(o, Place(o, other), x)

\* stacking_do_weave, one item: from the place at, up to the first item of a higher
\* level (or of the same one, from below)
WeaveOne(v, x, below) ==
  LET stop == {i \in v.at..Len(v.z.list) :
                 \/ v.z.level[v.z.list[i]] > v.z.level[x]
                 \/ below /\ v.z.level[v.z.list[i]] = v.z.level[x]}
      at == IF stop = {} THEN Len(v.z.list) + 1 ELSE Min(stop)
      other == IF stop = {} THEN NoItem ELSE v.z.list[at]
  IN [z |-> [v.z EXCEPT !.list = InsertAt(@, at, x), !.order = RestackWindow(@, x, other)],
      at |-> at + 1]

stacking_weave(z, items, below) ==
  LET woven[k \in 0..Len(items)] ==
        IF k = 0 THEN [z |-> z, at |-> 1] ELSE WeaveOne(woven[k-1], items[k], below)
  IN woven[Len(items)].z

\* stacking_unweave: the items of which the lowest, above nothing, is one of those wanted
UnweaveItems(z, wanted) ==
  Only(z.list, {x \in Range(z.list) :
                  \E y \in Range(Up(z, x)) \cap wanted : z.above[y] = NoItem})

\* Mutant: what is above x is left where it is
Subtree_alone(z, x, parents) == <<x>>

\* unweave_subtree: x and what is above it, after what it is above (when it is lowered)
Subtree(z, x, parents) ==
  LET chain == IF parents THEN Without(Reverse(Up(z, x)), {NoItem}) ELSE <<x>>
  IN chain \o Only(z.list, {y \in Range(z.list) \ Range(chain) : is_above(z, y, x)})

stacking_restack(z, x, lower) ==
  LET tree == Subtree(z, x, lower)
  IN stacking_weave([z EXCEPT !.list = Without(@, Range(tree))], tree, lower)

\* What was above x is above nothing; to be focused next is the topmost of these,
\* or what x was above
stacking_unstack(z, x) ==
  LET list == Without(z.list, {x})
      over == {i \in DOMAIN list : z.above[list[i]] = x}
  IN [z |-> [z EXCEPT !.list = list,
                      !.above = [y \in DOMAIN @ |-> IF @[y] = x /\ y \in Range(list)
                                                    THEN NoItem ELSE @[y]]],
      next |-> IF over = {} THEN z.above[x] ELSE list[Max(over)]]

-----------------------------------------------------------------------------
(* What may have the focus *)

\* The items that are looked at, from the top: not those to be skipped
Seen(z, try, shown) == Only(Reverse(z.list), shown \cup {try})

\* ... as far as the first that has a modal one of a higher level above it
Reached(z, try, shown) ==
  LET seen == Seen(z, try, shown)
      stop == {i \in DOMAIN seen : \E j \in 1..i - 1 :
                 z.level[seen[j]] >= MODAL1 /\ z.level[seen[j]] > z.level[seen[i]]}
  IN IF stop = {} THEN seen ELSE SubSeq(seen, 1, Min(stop) - 1)

\* Mutant: the item that is tried is returned whatever is above it
stacking_find_to_focus_try(z, try, shown, approved) == try

stacking_find_to_focus(z, try, shown, approved) ==
  LET reached == Reached(z, try, shown)
      fit == Only(reached, approved)
  IN IF try \in Range(reached) THEN try
     ELSE IF fit = <<>> THEN NoItem ELSE fit[1]

stacking_min_level(z, shown) ==
  LET seen == Seen(z, NoItem, shown)
  IN IF seen # <<>> /\ z.level[seen[1]] >= MODAL1 THEN z.level[seen[1]] ELSE 0

stacking_must_focus(z, x, shown) ==
  LET f == stacking_find_to_focus(z, NoItem, shown \ {x}, Range(z.list))
  IN f = NoItem \/ (z.level[x] > z.level[f] /\ z.level[x] >= MODAL1)

-----------------------------------------------------------------------------
(* Properties *)

\* The list is sorted by level, what is above an item comes after it and has its
\* level, and the server has the same order
Ordered(z) ==
  /\ \A i, j \in DOMAIN z.list : i < j => z.level[z.list[i]] <= z.level[z.list[j]]
  /\ \A i, j \in DOMAIN z.list :
       z.above[z.list[j]] = z.list[i] => i < j /\ z.level[z.list[i]] = z.level[z.list[j]]
  /\ z.order = z.list
=============================================================================
