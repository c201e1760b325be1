------------------------------ MODULE Deferred ------------------------------
(***************************************************************************)
(* Object destruction, watches and deferred actions.                       *)
(*                                                                         *)
(* libtu/obj.c destroys an object in four moves: it marks the object       *)
(* (OBJ_DEST), calls the handlers of the watches on it, runs the           *)
(* destructor of its class, and frees the memory.  libmainloop/defer.c     *)
(* keeps a FIFO of actions to run on return to the main loop; an action on *)
(* an object is held by a watch, so that it is cancelled when the object   *)
(* is destroyed first.  Both run in one thread, but they are reentered: an *)
(* action, an event handler or a destructor may defer, cancel and destroy. *)
(*                                                                         *)
(* The stack of C frames is explicit.  A frame is a handler ("event"), a   *)
(* running deferred action ("call") or destroy_obj, first calling the      *)
(* watches ("watches"), then inside the destructor ("deinit").             *)
(***************************************************************************)
EXTENDS Naturals, Sequences, FiniteSets

CONSTANTS
  Objects,     \* the addresses objects are allocated at
  Actions,     \* the C functions deferred on objects, destroy_obj included
  DestroyObj,  \* destroy_obj, the action of mainloop_defer_destroy
  ExtlFns,     \* the Lua functions deferred by mainloop.defer
  NULL,        \* no object
  Slots,       \* the entries of the static buffer dbuf (N_DBUF of them)
  Heap,        \* an entry that ALLOC took from the heap
  MaxPending,  \* bound of the model: entries on the list
  MaxDepth     \* bound of the model: nested C frames

ASSUME DeferredAssumption ==
  /\ NULL \notin Objects
  /\ Heap \notin Slots
  /\ DestroyObj \in Actions
  /\ Actions \cap ExtlFns = {}
  /\ MaxPending \in Nat /\ MaxDepth \in Nat

VARIABLES
  life,       \* of each address: "free", "alive" or "dying" (OBJ_DEST is set)
  deferred,   \* the list of pending actions, first to run first
  dbuf_used,  \* the slots of dbuf in use
  stack       \* the C frames, the running one last

vars == <<life, deferred, dbuf_used, stack>>

Frame == [kind : {"event", "call", "watches", "deinit"}, obj : Objects \cup {NULL}]

Entry == [mem  : Slots \cup {Heap},          \* alloc_defer's result
          what : Actions \cup ExtlFns,
          obj  : Objects \cup {NULL}]        \* the object of the entry's watch

TypeOK ==
  /\ life \in [Objects -> {"free", "alive", "dying"}]
  /\ deferred \in Seq(Entry)
  /\ dbuf_used \in SUBSET Slots
  /\ stack \in Seq(Frame)

-----------------------------------------------------------------------------
(* Helpers *)

Top == stack[Len(stack)]

\* Code that may call into the object system is running: a handler, an action
\* or a destructor.
Running == stack # <<>> /\ Top.kind \in {"event", "call", "deinit"}

Push(k, o) == stack' = Append(stack, [kind |-> k, obj |-> o])
Pop == stack' = SubSeq(stack, 1, Len(stack) - 1)

\* UNLINK_ITEM of the i-th entry.
Unlink(i) ==
  [j \in 1 .. Len(deferred) - 1 |-> IF j < i THEN deferred[j] ELSE deferred[j + 1]]

\* free_defer
Release(e) == dbuf_used' = dbuf_used \ {e.mem}

\* already_deferred compares with the object the watch of an entry holds.
already_deferred(o, a) ==
  \E i \in 1 .. Len(deferred) : deferred[i].what = a /\ deferred[i].obj = o

\* Mutant: the object of a dying object's entry is kept.
Watched_dying(o) == o

\* watch_setup refuses an object that is being destroyed; its result is not
\* looked at, and the entry is linked without an object.
Watched(o) == IF o # NULL /\ life[o] = "alive" THEN o ELSE NULL

\* Mutant: the bit is set without the check that the entry is in dbuf.
Link_unchecked(a, o) ==
  /\ Len(deferred) < MaxPending
  /\ \E m \in IF dbuf_used = Slots THEN {Heap} ELSE Slots \ dbuf_used :
       /\ deferred' = Append(deferred, [mem |-> m, what |-> a, obj |-> o])
       /\ dbuf_used' = dbuf_used \cup {m}

\* Mutant: the entry is linked at the head.
Link_first(a, o) ==
  /\ Len(deferred) < MaxPending
  /\ \E m \in IF dbuf_used = Slots THEN {Heap} ELSE Slots \ dbuf_used :
       /\ deferred' = <<[mem |-> m, what |-> a, obj |-> o]>> \o deferred
       /\ dbuf_used' = dbuf_used \cup ({m} \cap Slots)

\* alloc_defer takes a free slot of dbuf if there is one, else heap memory;
\* the entry is linked at the tail.
Link(a, o) ==
  /\ Len(deferred) < MaxPending
  /\ \E m \in IF dbuf_used = Slots THEN {Heap} ELSE Slots \ dbuf_used :
       /\ deferred' = Append(deferred, [mem |-> m, what |-> a, obj |-> o])
       /\ dbuf_used' = dbuf_used \cup ({m} \cap Slots)

-----------------------------------------------------------------------------
(* What running code may do *)

\* CREATEOBJ_IMPL: malloc may return any free address.
Create(o) ==
  /\ Running
  /\ life[o] = "free"
  /\ life' = [life EXCEPT ![o] = "alive"]
  /\ UNCHANGED <<deferred, dbuf_used, stack>>

\* mainloop_defer_action on an object that exists, or on none.
DeferAction(o, a) ==
  /\ Running
  /\ a # DestroyObj
  /\ o # NULL => life[o] # "free"
  /\ ~already_deferred(o, a)
  /\ Link(a, Watched(o))
  /\ UNCHANGED <<life, stack>>

\* Mutant: mainloop_defer_destroy without its check of OBJ_DEST.
DeferDestroy_unguarded(o) ==
  /\ Running
  /\ life[o] # "free"
  /\ ~already_deferred(o, DestroyObj)
  /\ Link(DestroyObj, Watched(o))
  /\ UNCHANGED <<life, stack>>

\* mainloop_defer_destroy, which does look at OBJ_DEST.
DeferDestroy(o) ==
  /\ Running
  /\ life[o] = "alive"
  /\ ~already_deferred(o, DestroyObj)
  /\ Link(DestroyObj, Watched(o))
  /\ UNCHANGED <<life, stack>>

\* mainloop_defer_extl: no object, and no check for duplicates.
DeferExtl(f) ==
  /\ Running
  /\ Link(f, NULL)
  /\ UNCHANGED <<life, stack>>

\* Mutant: destroy_obj without its check of OBJ_DEST.
EnterDestroy_again(o) ==
  /\ life[o] # "free"
  /\ life' = [life EXCEPT ![o] = "dying"]
  /\ Push("watches", o)

\* destroy_obj up to its first do_watches; on a dying object it returns.
EnterDestroy(o) ==
  /\ life[o] = "alive"
  /\ life' = [life EXCEPT ![o] = "dying"]
  /\ Push("watches", o)

Destroy(o) ==
  /\ Running /\ Len(stack) < MaxDepth
  /\ EnterDestroy(o)
  /\ UNCHANGED <<deferred, dbuf_used>>

-----------------------------------------------------------------------------
(* Inside destroy_obj *)

\* Mutant: the cancelled entry is not released.
CallWatch_leak ==
  /\ stack # <<>> /\ Top.kind = "watches"
  /\ \E i \in 1 .. Len(deferred) :
       /\ deferred[i].obj = Top.obj
       /\ \A j \in 1 .. i - 1 : deferred[j].obj # Top.obj
       /\ deferred' = Unlink(i)
  /\ UNCHANGED <<life, dbuf_used, stack>>

\* defer_watch_handler, called by do_watches(obj, TRUE) for each entry that
\* watches the object, in the order the watches were set up.
CallWatch ==
  /\ stack # <<>> /\ Top.kind = "watches"
  /\ \E i \in 1 .. Len(deferred) :
       /\ deferred[i].obj = Top.obj
       /\ \A j \in 1 .. i - 1 : deferred[j].obj # Top.obj
       /\ deferred' = Unlink(i)
       /\ Release(deferred[i])
  /\ UNCHANGED <<life, stack>>

\* No watch is left: the destructor of the class starts.
EnterDeinit ==
  /\ stack # <<>> /\ Top.kind = "watches"
  /\ \A i \in 1 .. Len(deferred) : deferred[i].obj # Top.obj
  /\ stack' = [stack EXCEPT ![Len(stack)].kind = "deinit"]
  /\ UNCHANGED <<life, deferred, dbuf_used>>

\* The destructor returns; do_watches(obj, FALSE) resets the watches set up
\* meanwhile without calling their handlers, and the memory is freed.
Free ==
  /\ stack # <<>> /\ Top.kind = "deinit"
  /\ deferred' = [i \in 1 .. Len(deferred) |->
                    IF deferred[i].obj = Top.obj
                    THEN [deferred[i] EXCEPT !.obj = NULL] ELSE deferred[i]]
  /\ life' = [life EXCEPT ![Top.obj] = "free"]
  /\ Pop
  /\ UNCHANGED dbuf_used

-----------------------------------------------------------------------------
(* The main loop *)

\* ioncore_mainloop handles an event once mainloop_execute_deferred has
\* emptied the list.
StartEvent ==
  /\ stack = <<>> /\ deferred = <<>>
  /\ Push("event", NULL)
  /\ UNCHANGED <<life, deferred, dbuf_used>>

\* do_execute of the first entry: the entry is unlinked and released before
\* the action is called with the object its watch held.
Execute ==
  /\ stack = <<>> /\ deferred # <<>>
  /\ LET e == Head(deferred) IN
       /\ deferred' = Unlink(1)
       /\ Release(e)
       /\ IF e.what = DestroyObj
          THEN EnterDestroy(e.obj)
          ELSE Push("call", e.obj) /\ UNCHANGED life

Return ==
  /\ stack # <<>> /\ Top.kind \in {"event", "call"}
  /\ Pop
  /\ UNCHANGED <<life, deferred, dbuf_used>>

Init ==
  /\ life = [o \in Objects |-> "free"]
  /\ deferred = <<>>
  /\ dbuf_used = {}
  /\ stack = <<>>

Next ==
  \/ \E o \in Objects : Create(o) \/ DeferDestroy(o) \/ Destroy(o)
  \/ \E o \in Objects \cup {NULL}, a \in Actions : DeferAction(o, a)
  \/ \E f \in ExtlFns : DeferExtl(f)
  \/ CallWatch \/ EnterDeinit \/ Free
  \/ StartEvent \/ Execute \/ Return

Spec == Init /\ [][Next]_vars

\* The loop takes entries off the list, and handlers and destructors end:
\* each returns to its caller however often it calls destroy_obj before.
Fairness ==
  /\ WF_vars(Execute) /\ WF_vars(CallWatch) /\ WF_vars(EnterDeinit)
  /\ SF_vars(Free) /\ SF_vars(Return)

FairSpec == Spec /\ Fairness

-----------------------------------------------------------------------------
(* Properties *)

\* The bits of dbuf_used are exactly the slots of the entries on the list, and
\* no two entries share a slot: no exit of the list (executed, cancelled by
\* destruction) leaks a slot or hands out one that is still linked.
SlotsExact ==
  /\ dbuf_used = {deferred[i].mem : i \in 1 .. Len(deferred)} \ {Heap}
  /\ \A i, j \in 1 .. Len(deferred) :
       deferred[i].mem = deferred[j].mem /\ deferred[i].mem \in Slots => i = j

\* "The deferral should not be on the list, if there was an object, and it got
\* destroyed" (do_execute): an entry that names an object names one that is
\* alive, or one whose destroy_obj is just cancelling its entries.  The address
\* may be allocated again at once, so a stale entry would run on a stranger.
EntryObjectValid ==
  \A i \in 1 .. Len(deferred) :
    LET o == deferred[i].obj IN
    o # NULL => \/ life[o] = "alive"
                \/ stack # <<>> /\ Top = [kind |-> "watches", obj |-> o]

\* The list of deferred actions is sound: its entries, their memory and the objects they name
\* agree, whatever is deferred, executed, cancelled and destroyed from within what.
ListSound == TypeOK /\ SlotsExact /\ EntryObjectValid

\* destroy_obj is never called on NULL or on a dying object by the list: the
\* check in mainloop_defer_destroy and the cancelling of entries make every
\* deferred destroy_obj run on a live object.
DestroyIsSound ==
  \A i \in 1 .. Len(deferred) :
    deferred[i].what = DestroyObj => deferred[i].obj # NULL

\* Of the destroy_obj frames on the stack there is one for each dying object
\* and no other: an object is destroyed once however destruction is nested.
Destroying == {i \in 1 .. Len(stack) : stack[i].kind \in {"watches", "deinit"}}

DestroyedOnce ==
  /\ \A i \in Destroying : stack[i].obj \in Objects /\ life[stack[i].obj] = "dying"
  /\ \A i, j \in Destroying : stack[i].obj = stack[j].obj => i = j
  /\ \A o \in Objects : life[o] = "dying" => \E i \in Destroying : stack[i].obj = o

\* Objects are destroyed once and not when they are no more, by the list or directly.
DestroySound == DestroyIsSound /\ DestroyedOnce

\* Every action deferred on an object is executed or cancelled: nothing that
\* running code defers meanwhile keeps it on the list for ever.
Pending(o, a) == \E i \in 1 .. Len(deferred) : deferred[i].what = a /\ deferred[i].obj = o

EventuallyServed == \A o \in Objects, a \in Actions : Pending(o, a) ~> ~Pending(o, a)
=============================================================================
