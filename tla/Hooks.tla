------------------------------- MODULE Hooks --------------------------------
(***************************************************************************)
(* A hook (libmainloop/hooks.c): a list of functions, C or Lua, each of    *)
(* which may change the list or call the hook again when it is called.     *)
(***************************************************************************)
EXTENDS Naturals, Sequences, SequencesExt

CONSTANTS
  Fns,       \* functions that may be hooked
  Items,     \* memory for items
  NoItem,    \* NULL
  HookCalls, \* calls that break the invariant and are included: "removenext"
  MaxHooked, \* bound: operations
  MaxNested  \* bound: calls within calls

ASSUME HooksAssumption ==
  Fns # {} /\ NoItem \notin Items /\ MaxHooked \in Nat

VARIABLES
  items,   \* the list, first to last
  fnOf,    \* the function of each item
  calls,   \* hook_call and hook_call_alt at work, innermost first
  hooked   \* operations left

hooks == <<items, fnOf, calls, hooked>>

\* A call of the hook: next is the item it goes on with; running is its function
\* that is at work; called (auxiliary) those it has called, start those hooked
\* when it began, removed those removed since
Frames == [next : Items \cup {NoItem}, running : BOOLEAN, called : Seq(Fns), alt : BOOLEAN,
           start : SUBSET Fns, removed : SUBSET Fns, stopped : BOOLEAN]

HooksInit ==
  /\ items = <<>> /\ fnOf = [i \in Items |-> CHOOSE f \in Fns : TRUE]
  /\ calls = <<>> /\ hooked = MaxHooked

Hooked == {fnOf[i] : i \in Range(items)}
NextItem(i) ==
  LET k == CHOOSE n \in DOMAIN items : items[n] = i
  IN IF k = Len(items) THEN NoItem ELSE items[k + 1]

\* C code and Lua run between the calls, and in the functions that are called
Runs == \A k \in DOMAIN calls : k = 1 => calls[k].running
HookOp == Runs /\ hooked > 0 /\ hooked' = hooked - 1

\* Mutant: new items go to the end, and are called by the calls at work
create_item_last(i) == Append(items, i)
create_item(i) == <<i>> \o items

hook_add ==
  /\ HookOp
  /\ \E f \in Fns \ Hooked : \E i \in Items \ Range(items) :
       items' = create_item(i) /\ fnOf' = [fnOf EXCEPT ![i] = f]
  /\ UNCHANGED calls

\* What a call remembers of the items that are freed
Forget(is) ==
  calls' = [k \in DOMAIN calls |-> [calls[k] EXCEPT !.removed = @ \cup {fnOf[i] : i \in is}]]
MayFree(is) ==
  "removenext" \in HookCalls \/ \A k \in DOMAIN calls : calls[k].next \notin is

hook_remove ==
  /\ HookOp
  /\ \E k \in DOMAIN items :
       MayFree({items[k]}) /\ items' = RemoveAt(items, k) /\ Forget({items[k]})
  /\ UNCHANGED fnOf

\* the hook is destroyed, and another is created: no call of it is at work
hook_deinit ==
  /\ HookOp /\ calls = <<>> /\ items # <<>>
  /\ items' = <<>> /\ UNCHANGED <<fnOf, calls>>

hook_call ==
  /\ HookOp /\ Len(calls) < MaxNested
  /\ \E alt \in BOOLEAN :
       calls' = <<[next |-> IF items = <<>> THEN NoItem ELSE items[1], running |-> FALSE,
                   called |-> <<>>, alt |-> alt, start |-> Hooked, removed |-> {},
                   stopped |-> FALSE]>> \o calls
  /\ UNCHANGED <<items, fnOf>>

\* The next item is read before the function of this one is called
CallItem ==
  /\ calls # <<>> /\ ~Head(calls).running /\ Head(calls).next # NoItem /\ ~Head(calls).stopped
  /\ LET i == Head(calls).next
     IN calls' = [calls EXCEPT ![1].next = NextItem(i), ![1].running = TRUE,
                               ![1].called = Append(@, fnOf[i])]
  /\ UNCHANGED <<items, fnOf, hooked>>

\* The function returns; hook_call_alt ends when it returns TRUE
Returned ==
  /\ calls # <<>> /\ Head(calls).running
  /\ \E ret \in IF Head(calls).alt THEN BOOLEAN ELSE {FALSE} :
       calls' = [calls EXCEPT ![1].running = FALSE, ![1].stopped = ret]
  /\ UNCHANGED <<items, fnOf, hooked>>

CallEnds ==
  /\ calls # <<>> /\ ~Head(calls).running /\ (Head(calls).next = NoItem \/ Head(calls).stopped)
  /\ calls' = Tail(calls)
  /\ UNCHANGED <<items, fnOf, hooked>>

HooksNext ==
  \/ hook_add \/ hook_remove \/ hook_deinit \/ hook_call \/ CallItem \/ Returned \/ CallEnds

HooksSpec == HooksInit /\ [][HooksNext]_hooks

-----------------------------------------------------------------------------
(* Properties *)

HooksTypeOK ==
  /\ items \in Seq(Items) /\ fnOf \in [Items -> Fns] /\ calls \in Seq(Frames)
  /\ hooked \in 0..MaxHooked

\* Whatever the functions add, remove and call, a call of the hook calls no
\* function twice and none that was added meanwhile, it never goes on with an item
\* that was freed, and when it ends it has called all that stayed
CallsSound ==
  /\ HooksTypeOK
  /\ IsInjective([k \in DOMAIN items |-> fnOf[items[k]]])
  /\ \A k \in DOMAIN calls :
       LET c == calls[k]
       IN /\ c.next # NoItem => c.next \in Range(items)
          /\ IsInjective(c.called) /\ Range(c.called) \subseteq c.start
          /\ c.next = NoItem => c.start \ c.removed \subseteq Range(c.called)
=============================================================================
