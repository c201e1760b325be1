--------------------------- MODULE Deferred_proof ---------------------------
(***************************************************************************)
(* The list of deferred actions and the destruction of objects are sound   *)
(* for every number of objects, actions, buffer slots and nested frames.   *)
(* The five invariants are inductive together: an entry is cancelled only  *)
(* while the destroying frame is on top, which needs the shape of the      *)
(* stack; the shape of the stack needs that the list never calls           *)
(* destroy_obj on a dead object, which needs the entries to be valid.      *)
(***************************************************************************)
EXTENDS Deferred, SequenceTheorems, TLAPS

IInv == TypeOK /\ SlotsExact /\ EntryObjectValid /\ DestroyIsSound /\ DestroyedOnce

\* The stack without its top frame.
LEMMA PopFacts ==
  ASSUME TypeOK, stack # <<>>, Pop
  PROVE  /\ Len(stack) \in Nat \ {0} /\ Len(stack') = Len(stack) - 1
         /\ \A i \in 1 .. Len(stack') : stack'[i] = stack[i]
         /\ stack' \in Seq(Frame)
<1>1. stack \in Seq(Frame) /\ Len(stack) \in Nat \ {0}
  BY DEF TypeOK
<1>2. stack' = SubSeq(stack, 1, Len(stack) - 1)
  BY DEF Pop
<1>3. stack' = [i \in 1 .. Len(stack) - 1 |-> stack[i]]
  BY <1>1, <1>2, SubSeqProperties
<1>4. Len(stack) - 1 \in Nat /\ \A i \in 1 .. Len(stack) - 1 : stack[i] \in Frame
  BY <1>1
<1> QED BY <1>1, <1>3, <1>4

\* The list without its i-th entry: the other entries in their order.
LEMMA UnlinkFacts ==
  ASSUME TypeOK, NEW i \in 1 .. Len(deferred)
  PROVE  /\ Unlink(i) \in Seq(Entry)
         /\ Len(Unlink(i)) = Len(deferred) - 1
         /\ \A j \in 1 .. Len(deferred) - 1 :
              Unlink(i)[j] = IF j < i THEN deferred[j] ELSE deferred[j + 1]
<1>1. Len(deferred) \in Nat /\ \A j \in 1 .. Len(deferred) : deferred[j] \in Entry
  BY DEF TypeOK
<1>2. Len(deferred) - 1 \in Nat
  BY <1>1
<1>3. \A j \in 1 .. Len(deferred) - 1 :
        (IF j < i THEN deferred[j] ELSE deferred[j + 1]) \in Entry
  BY <1>1
<1> QED BY <1>1, <1>2, <1>3 DEF Unlink

\* Taking out the i-th entry and releasing its slot keeps the slots exact.
LEMMA UnlinkSlots ==
  ASSUME TypeOK, SlotsExact, NEW i \in 1 .. Len(deferred),
         deferred' = Unlink(i), Release(deferred[i])
  PROVE  SlotsExact'
<1>1. /\ deferred' \in Seq(Entry)
      /\ Len(deferred') = Len(deferred) - 1
      /\ \A j \in 1 .. Len(deferred) - 1 :
           deferred'[j] = IF j < i THEN deferred[j] ELSE deferred[j + 1]
  BY UnlinkFacts
<1>2. Len(deferred) \in Nat /\ \A j \in 1 .. Len(deferred) : deferred[j] \in Entry
  BY DEF TypeOK
<1>3. ASSUME NEW m \in Slots
      PROVE  m \in dbuf_used' <=> \E j \in 1 .. Len(deferred') : deferred'[j].mem = m
  <2>1. ASSUME m \in dbuf_used'
        PROVE  \E j \in 1 .. Len(deferred') : deferred'[j].mem = m
    <3>1. m \in dbuf_used /\ m # deferred[i].mem
      BY <2>1 DEF Release
    <3>2. PICK k \in 1 .. Len(deferred) : deferred[k].mem = m
      BY <3>1 DEF SlotsExact
    <3>3. CASE k < i
      BY <3>2, <3>3, <1>1, <1>2
    <3>4. CASE k > i
      <4>1. k - 1 \in 1 .. Len(deferred') /\ deferred'[k - 1] = deferred[k]
        BY <3>4, <1>1, <1>2
      <4> QED BY <4>1, <3>2
    <3> QED BY <3>1, <3>2, <3>3, <3>4
  <2>2. ASSUME NEW j \in 1 .. Len(deferred'), deferred'[j].mem = m
        PROVE  m \in dbuf_used'
    <3>1. PICK k \in 1 .. Len(deferred) : k # i /\ deferred[k] = deferred'[j]
      <4>1. CASE j < i
        BY <4>1, <1>1, <1>2
      <4>2. CASE j >= i
        BY <4>2, <1>1, <1>2
      <4> QED BY <4>1, <4>2, <1>1, <1>2
    <3>2. m \in dbuf_used
      BY <3>1, <2>2, DeferredAssumption DEF SlotsExact
    <3>3. m # deferred[i].mem
      BY <3>1, <2>2 DEF SlotsExact
    <3> QED BY <3>2, <3>3 DEF Release
  <2> QED BY <2>1, <2>2
<1>4. ASSUME NEW j \in 1 .. Len(deferred'), NEW k \in 1 .. Len(deferred'),
             deferred'[j].mem = deferred'[k].mem, deferred'[j].mem \in Slots
      PROVE  j = k
  <2> DEFINE old(n) == IF n < i THEN n ELSE n + 1
  <2>1. /\ old(j) \in 1 .. Len(deferred) /\ deferred'[j] = deferred[old(j)]
        /\ old(k) \in 1 .. Len(deferred) /\ deferred'[k] = deferred[old(k)]
    BY <1>1, <1>2
  <2>2. old(j) = old(k)
    BY <2>1, <1>4 DEF SlotsExact
  <2> QED BY <2>2, <1>1, <1>2
<1>5. dbuf_used' \subseteq Slots
  BY DEF TypeOK, Release
<1>6. \A j \in 1 .. Len(deferred') : deferred'[j].mem \in Slots \cup {Heap}
  <2>1. \A j \in 1 .. Len(deferred') : deferred'[j] \in Entry
    BY <1>1
  <2> QED BY <2>1 DEF Entry
<1>7. dbuf_used' = {deferred'[j].mem : j \in 1 .. Len(deferred')} \ {Heap}
  BY <1>3, <1>5, <1>6, DeferredAssumption
<1> QED BY <1>4, <1>7 DEF SlotsExact

\* Linking a new entry keeps the type and the slots, and the old entries.
LEMMA LinkFacts ==
  ASSUME TypeOK, SlotsExact, NEW a \in Actions \cup ExtlFns,
         NEW o \in Objects \cup {NULL}, Link(a, o)
  PROVE  /\ deferred' \in Seq(Entry) /\ dbuf_used' \in SUBSET Slots
         /\ SlotsExact'
         /\ Len(deferred') = Len(deferred) + 1
         /\ \A i \in 1 .. Len(deferred) : deferred'[i] = deferred[i]
         /\ deferred'[Len(deferred) + 1].what = a
         /\ deferred'[Len(deferred) + 1].obj = o
<1>1. PICK m \in Slots \cup {Heap} :
        /\ m \in Slots => m \notin dbuf_used
        /\ deferred' = Append(deferred, [mem |-> m, what |-> a, obj |-> o])
        /\ dbuf_used' = dbuf_used \cup ({m} \cap Slots)
  BY DeferredAssumption DEF Link, TypeOK
<1> DEFINE e == [mem |-> m, what |-> a, obj |-> o]
<1>2. e \in Entry
  BY <1>1 DEF Entry
<1>3. /\ deferred' \in Seq(Entry)
      /\ Len(deferred) \in Nat
      /\ Len(deferred') = Len(deferred) + 1
      /\ \A i \in 1 .. Len(deferred) : deferred'[i] = deferred[i]
      /\ deferred'[Len(deferred) + 1] = e
  BY <1>1, <1>2 DEF TypeOK
<1>4. dbuf_used' \in SUBSET Slots
  BY <1>1 DEF TypeOK
<1>5. \A i \in 1 .. Len(deferred) : deferred[i].mem = m => m \notin Slots
  BY <1>1, DeferredAssumption DEF SlotsExact
<1>6. dbuf_used' = {deferred'[i].mem : i \in 1 .. Len(deferred')} \ {Heap}
  <2>1. {deferred'[i].mem : i \in 1 .. Len(deferred')}
          = {deferred[i].mem : i \in 1 .. Len(deferred)} \cup {m}
    <3>1. 1 .. Len(deferred') = (1 .. Len(deferred)) \cup {Len(deferred) + 1}
      BY <1>3
    <3> QED BY <3>1, <1>3
  <2> QED BY <2>1, <1>1, DeferredAssumption DEF SlotsExact
<1>7. \A i, j \in 1 .. Len(deferred') :
        deferred'[i].mem = deferred'[j].mem /\ deferred'[i].mem \in Slots => i = j
  BY <1>3, <1>5 DEF SlotsExact
<1> QED BY <1>3, <1>4, <1>6, <1>7 DEF SlotsExact

-----------------------------------------------------------------------------
(* The invariant, one step per action *)

\* Code runs only above a frame that is not calling watches, so no entry is
\* for a dying object then.
LEMMA AllAlive ==
  ASSUME IInv, \/ stack = <<>>
               \/ stack # <<>> /\ Top.kind # "watches"
  PROVE  \A i \in 1 .. Len(deferred) :
           deferred[i].obj # NULL => deferred[i].obj \in Objects /\ life[deferred[i].obj] = "alive"
<1>1. \A i \in 1 .. Len(deferred) : deferred[i] \in Entry
  BY DEF IInv, TypeOK
<1> QED BY <1>1 DEF IInv, EntryObjectValid, Entry

\* Linking an entry for a live object, or for none, keeps the invariant.
LEMMA LinkKeeps ==
  ASSUME IInv, Running, NEW a \in Actions \cup ExtlFns, NEW o \in Objects \cup {NULL},
         o # NULL => life[o] = "alive",
         a = DestroyObj => o # NULL,
         Link(a, o), UNCHANGED <<life, stack>>
  PROVE  IInv'
<1>1. /\ deferred' \in Seq(Entry) /\ dbuf_used' \in SUBSET Slots
      /\ SlotsExact'
      /\ Len(deferred') = Len(deferred) + 1
      /\ \A i \in 1 .. Len(deferred) : deferred'[i] = deferred[i]
      /\ deferred'[Len(deferred) + 1].what = a
      /\ deferred'[Len(deferred) + 1].obj = o
  BY LinkFacts DEF IInv
<1>2. Len(deferred) \in Nat
  BY DEF IInv, TypeOK
<1>3. TypeOK'
  BY <1>1 DEF IInv, TypeOK
<1>4. EntryObjectValid'
  BY <1>1, <1>2, AllAlive DEF EntryObjectValid, Running
<1>5. DestroyIsSound'
  BY <1>1, <1>2 DEF IInv, DestroyIsSound
<1>6. DestroyedOnce'
  BY DEF IInv, DestroyedOnce, Destroying
<1> QED BY <1>1, <1>3, <1>4, <1>5, <1>6 DEF IInv

\* Pushing a frame that calls no destructor keeps the destroying frames.
LEMMA PushPlain ==
  ASSUME TypeOK, DestroyedOnce, NEW k \in {"event", "call"}, NEW o \in Objects \cup {NULL},
         Push(k, o), life' = life
  PROVE  stack' \in Seq(Frame) /\ DestroyedOnce'
<1>1. /\ Len(stack) \in Nat /\ Len(stack') = Len(stack) + 1
      /\ \A i \in 1 .. Len(stack) : stack'[i] = stack[i]
      /\ stack'[Len(stack) + 1] = [kind |-> k, obj |-> o]
      /\ stack' \in Seq(Frame)
  BY DEF TypeOK, Push, Frame
<1>2. Destroying' = Destroying
  BY <1>1 DEF Destroying
<1>3. \A i \in Destroying : stack'[i] = stack[i]
  BY <1>1 DEF Destroying
<1> QED BY <1>1, <1>2, <1>3 DEF DestroyedOnce

\* Entering destroy_obj adds the one frame of the object that starts to die.
LEMMA PushDestroy ==
  ASSUME TypeOK, DestroyedOnce, NEW o \in Objects, EnterDestroy(o)
  PROVE  /\ life' \in [Objects -> {"free", "alive", "dying"}]
         /\ stack' \in Seq(Frame) /\ DestroyedOnce'
         /\ stack' # <<>> /\ Top' = [kind |-> "watches", obj |-> o]
<1>1. /\ Len(stack) \in Nat /\ Len(stack') = Len(stack) + 1
      /\ \A i \in 1 .. Len(stack) : stack'[i] = stack[i]
      /\ stack'[Len(stack) + 1] = [kind |-> "watches", obj |-> o]
      /\ stack' \in Seq(Frame)
  BY DEF TypeOK, EnterDestroy, Push, Frame
<1>2. Destroying' = Destroying \cup {Len(stack) + 1}
  BY <1>1 DEF Destroying
<1>3. \A i \in Destroying : stack'[i] = stack[i] /\ stack[i].obj # o
  BY <1>1 DEF Destroying, DestroyedOnce, EnterDestroy
<1>4. \A p \in Objects : life'[p] = IF p = o THEN "dying" ELSE life[p]
  BY DEF TypeOK, EnterDestroy
<1>5. DestroyedOnce'
  BY <1>1, <1>2, <1>3, <1>4 DEF DestroyedOnce
<1>6. stack' # <<>>
  BY <1>1
<1> QED BY <1>1, <1>5, <1>6 DEF Top, TypeOK, EnterDestroy

\* Popping the top frame, which destroys nothing, keeps the destroying frames.
LEMMA PopPlain ==
  ASSUME TypeOK, DestroyedOnce, stack # <<>>, Top.kind \in {"event", "call"}, Pop, life' = life
  PROVE  stack' \in Seq(Frame) /\ DestroyedOnce'
<1>1. /\ Len(stack) \in Nat \ {0} /\ Len(stack') = Len(stack) - 1
      /\ \A i \in 1 .. Len(stack') : stack'[i] = stack[i]
      /\ stack' \in Seq(Frame)
  BY PopFacts
<1>2. Destroying' = Destroying
  BY <1>1 DEF Destroying, Top
<1>3. \A i \in Destroying : stack'[i] = stack[i]
  BY <1>1, <1>2 DEF Destroying
<1> QED BY <1>1, <1>2, <1>3 DEF DestroyedOnce

\* The deferred list and the objects stay sound: every entry names a live
\* object (or one whose entries are just being cancelled), its buffer slot is
\* its own, and each dying object is being destroyed by one frame.
THEOREM DeferredSound == Spec => []IInv
<1>1. Init => IInv
  BY DEF Init, IInv, TypeOK, SlotsExact, EntryObjectValid, DestroyIsSound, DestroyedOnce,
         Destroying
<1>2. IInv /\ [Next]_vars => IInv'
  <2> SUFFICES ASSUME IInv, [Next]_vars PROVE IInv'
    OBVIOUS
  <2> USE DeferredAssumption
  <2>1. ASSUME NEW o \in Objects, Create(o) PROVE IInv'
    <3>1. TypeOK'
      BY <2>1 DEF IInv, TypeOK, Create
    <3>2. SlotsExact' /\ DestroyIsSound'
      BY <2>1 DEF IInv, SlotsExact, DestroyIsSound, Create
    <3>3. \A p \in Objects : life'[p] = IF p = o THEN "alive" ELSE life[p]
      BY <2>1 DEF IInv, TypeOK, Create
    <3>4. EntryObjectValid'
      BY <2>1, <3>3, AllAlive DEF EntryObjectValid, Create, Running
    <3>5. DestroyedOnce'
      BY <2>1, <3>3 DEF IInv, DestroyedOnce, Destroying, Create
    <3> QED BY <3>1, <3>2, <3>4, <3>5 DEF IInv
  <2>2. ASSUME NEW o \in Objects, DeferDestroy(o) PROVE IInv'
    BY <2>2, LinkKeeps DEF DeferDestroy, Watched
  <2>3. ASSUME NEW o \in Objects, Destroy(o) PROVE IInv'
    <3>1. /\ life' \in [Objects -> {"free", "alive", "dying"}]
          /\ stack' \in Seq(Frame) /\ DestroyedOnce'
          /\ stack' # <<>> /\ Top' = [kind |-> "watches", obj |-> o]
      BY <2>3, PushDestroy DEF Destroy, IInv
    <3>2. \A p \in Objects : p # o => life'[p] = life[p]
      BY <2>3 DEF Destroy, EnterDestroy, IInv, TypeOK
    <3>3. EntryObjectValid'
      BY <2>3, <3>1, <3>2, AllAlive DEF EntryObjectValid, Destroy, Running
    <3> QED BY <2>3, <3>1, <3>3 DEF IInv, TypeOK, SlotsExact, DestroyIsSound, Destroy
  <2>4. ASSUME NEW o \in Objects \cup {NULL}, NEW a \in Actions, DeferAction(o, a)
        PROVE  IInv'
    <3>1. Watched(o) \in Objects \cup {NULL} /\ (Watched(o) # NULL => life[Watched(o)] = "alive")
      BY DEF Watched
    <3> QED BY <2>4, <3>1, LinkKeeps DEF DeferAction
  <2>5. ASSUME NEW f \in ExtlFns, DeferExtl(f) PROVE IInv'
    BY <2>5, LinkKeeps DEF DeferExtl
  <2>6. CASE CallWatch
    <3>1. PICK i \in 1 .. Len(deferred) :
            deferred[i].obj = Top.obj /\ deferred' = Unlink(i) /\ Release(deferred[i])
      BY <2>6 DEF CallWatch
    <3>2. SlotsExact'
      BY <3>1, UnlinkSlots DEF IInv
    <3>3. /\ deferred' \in Seq(Entry) /\ Len(deferred) \in Nat
          /\ Len(deferred') = Len(deferred) - 1
          /\ \A j \in 1 .. Len(deferred) - 1 :
               deferred'[j] = IF j < i THEN deferred[j] ELSE deferred[j + 1]
      <4>1. Len(deferred) \in Nat
        BY DEF IInv, TypeOK
      <4> QED BY <3>1, <4>1, UnlinkFacts DEF IInv
    <3>4. \A j \in 1 .. Len(deferred') : \E k \in 1 .. Len(deferred) : deferred'[j] = deferred[k]
      BY <3>3
    <3>5. life' = life /\ stack' = stack
      BY <2>6 DEF CallWatch
    <3>6. TypeOK'
      BY <3>1, <3>3, <3>5 DEF IInv, TypeOK, Release
    <3>7. EntryObjectValid' /\ DestroyIsSound'
      BY <3>4, <3>5 DEF IInv, EntryObjectValid, DestroyIsSound, Top
    <3>8. DestroyedOnce'
      BY <3>5 DEF IInv, DestroyedOnce, Destroying
    <3> QED BY <3>2, <3>6, <3>7, <3>8 DEF IInv
  <2>7. CASE EnterDeinit
    <3>1. /\ Len(stack) \in Nat \ {0} /\ Len(stack') = Len(stack)
          /\ stack' \in Seq(Frame)
          /\ \A i \in 1 .. Len(stack) : i # Len(stack) => stack'[i] = stack[i]
          /\ Top.kind = "watches"
          /\ stack'[Len(stack)] = [kind |-> "deinit", obj |-> Top.obj]
      <4>1. Len(stack) \in Nat \ {0} /\ Top \in Frame /\ Top.kind = "watches"
        BY <2>7 DEF EnterDeinit, IInv, TypeOK, Top
      <4>2. stack' = [stack EXCEPT ![Len(stack)] = [kind |-> "deinit", obj |-> Top.obj]]
        <5>1. [Top EXCEPT !.kind = "deinit"] = [kind |-> "deinit", obj |-> Top.obj]
          BY <4>1 DEF Frame
        <5> QED BY <4>1, <5>1, <2>7 DEF EnterDeinit, Top
      <4>3. [kind |-> "deinit", obj |-> Top.obj] \in Frame
        BY <4>1 DEF Frame
      <4> QED BY <4>1, <4>2, <4>3 DEF IInv, TypeOK
    <3>2. \A i \in 1 .. Len(stack) :
            /\ stack'[i].obj = stack[i].obj
            /\ stack'[i].kind \in {"watches", "deinit"} <=> stack[i].kind \in {"watches", "deinit"}
      BY <3>1 DEF Top
    <3>3. Destroying' = Destroying
      BY <3>1, <3>2 DEF Destroying
    <3>4. DestroyedOnce'
      BY <2>7, <3>2, <3>3 DEF IInv, DestroyedOnce, EnterDeinit, Destroying
    <3>5. EntryObjectValid'
      <4>1. \A i \in 1 .. Len(deferred) : deferred[i].obj # Top.obj
        BY <2>7 DEF EnterDeinit
      <4>2. \A i \in 1 .. Len(deferred) : deferred[i].obj # NULL => life[deferred[i].obj] = "alive"
        BY <4>1 DEF IInv, EntryObjectValid
      <4> QED BY <4>2, <2>7 DEF EnterDeinit, EntryObjectValid
    <3>6. TypeOK' /\ SlotsExact' /\ DestroyIsSound'
      BY <2>7, <3>1 DEF EnterDeinit, IInv, TypeOK, SlotsExact, DestroyIsSound
    <3> QED BY <3>4, <3>5, <3>6 DEF IInv
  <2>8. CASE Free
    <3>1. /\ Len(stack) \in Nat \ {0} /\ Len(stack') = Len(stack) - 1
          /\ \A i \in 1 .. Len(stack') : stack'[i] = stack[i]
          /\ stack' \in Seq(Frame)
          /\ Top.kind = "deinit" /\ stack # <<>>
      BY <2>8, PopFacts DEF Free, IInv
    <3>2. Top.obj \in Objects /\ life[Top.obj] = "dying" /\ Len(stack) \in Destroying
      BY <3>1 DEF IInv, DestroyedOnce, Destroying, Top
    <3>3. \A i \in 1 .. Len(deferred) : deferred[i].obj # Top.obj
      BY <3>1, <3>2, AllAlive
    <3>4. deferred' = deferred
      <4>1. deferred' = [i \in 1 .. Len(deferred) |-> deferred[i]]
        BY <2>8, <3>3 DEF Free
      <4> QED BY <4>1 DEF IInv, TypeOK
    <3>5. \A p \in Objects : life'[p] = IF p = Top.obj THEN "free" ELSE life[p]
      BY <2>8 DEF Free, IInv, TypeOK
    <3>6. Destroying' = Destroying \ {Len(stack)}
      BY <3>1 DEF Destroying
    <3>7. \A i \in Destroying' : stack'[i] = stack[i] /\ stack[i].obj # Top.obj
      BY <3>1, <3>2, <3>6 DEF IInv, DestroyedOnce, Destroying, Top
    <3>8. DestroyedOnce'
      BY <3>2, <3>5, <3>6, <3>7 DEF IInv, DestroyedOnce, Top
    <3>9. EntryObjectValid'
      BY <3>1, <3>3, <3>4, <3>5, AllAlive DEF EntryObjectValid
    <3>10. TypeOK' /\ SlotsExact' /\ DestroyIsSound'
      <4>1. life' \in [Objects -> {"free", "alive", "dying"}] /\ dbuf_used' = dbuf_used
        BY <2>8 DEF Free, IInv, TypeOK
      <4> QED BY <3>1, <3>4, <4>1 DEF IInv, TypeOK, SlotsExact, DestroyIsSound
    <3> QED BY <3>8, <3>9, <3>10 DEF IInv
  <2>9. CASE StartEvent
    <3>1. stack' \in Seq(Frame) /\ DestroyedOnce'
      BY <2>9, PushPlain DEF StartEvent, IInv
    <3>2. EntryObjectValid'
      BY <2>9 DEF StartEvent, EntryObjectValid
    <3> QED BY <2>9, <3>1, <3>2 DEF StartEvent, IInv, TypeOK, SlotsExact, DestroyIsSound
  <2>10. CASE Execute
    <3> DEFINE e == Head(deferred)
    <3>1. /\ Len(deferred) \in Nat \ {0} /\ 1 \in 1 .. Len(deferred)
          /\ e = deferred[1] /\ e \in Entry
          /\ stack = <<>>
      BY <2>10 DEF Execute, IInv, TypeOK
    <3>2. deferred' = Unlink(1)
      BY <2>10 DEF Execute
    <3>3. SlotsExact'
      BY <2>10, <3>1, <3>2, UnlinkSlots DEF IInv, Execute
    <3>4. /\ deferred' \in Seq(Entry)
          /\ \A j \in 1 .. Len(deferred') : deferred'[j] = deferred[j + 1] /\ j + 1 \in 1 .. Len(deferred)
      <4>1. /\ deferred' \in Seq(Entry) /\ Len(deferred') = Len(deferred) - 1
            /\ \A j \in 1 .. Len(deferred) - 1 :
                 deferred'[j] = IF j < 1 THEN deferred[j] ELSE deferred[j + 1]
        BY <3>1, <3>2, UnlinkFacts DEF IInv
      <4> QED BY <3>1, <4>1
    <3>5. dbuf_used' \in SUBSET Slots
      BY <2>10 DEF Execute, Release, IInv, TypeOK
    <3>6. DestroyIsSound'
      BY <3>4 DEF IInv, DestroyIsSound
    <3>7. CASE e.what = DestroyObj
      <4>1. e.obj \in Objects /\ EnterDestroy(e.obj)
        BY <2>10, <3>1, <3>7 DEF Execute, IInv, DestroyIsSound, Entry
      <4>2. /\ life' \in [Objects -> {"free", "alive", "dying"}]
            /\ stack' \in Seq(Frame) /\ DestroyedOnce'
            /\ stack' # <<>> /\ Top' = [kind |-> "watches", obj |-> e.obj]
        BY <4>1, PushDestroy DEF IInv
      <4>3. \A p \in Objects : p # e.obj => life'[p] = life[p]
        BY <4>1 DEF EnterDestroy, IInv, TypeOK
      <4>4. EntryObjectValid'
        BY <3>1, <3>4, <4>2, <4>3, AllAlive DEF EntryObjectValid
      <4> QED BY <3>3, <3>4, <3>5, <3>6, <4>2, <4>4 DEF IInv, TypeOK
    <3>8. CASE e.what # DestroyObj
      <4>1. Push("call", e.obj) /\ life' = life
        BY <2>10, <3>8 DEF Execute
      <4>2. stack' \in Seq(Frame) /\ DestroyedOnce'
        BY <3>1, <4>1, PushPlain DEF IInv, Entry
      <4>3. EntryObjectValid'
        BY <3>1, <3>4, <4>1, AllAlive DEF EntryObjectValid
      <4> QED BY <3>3, <3>4, <3>5, <3>6, <4>1, <4>2, <4>3 DEF IInv, TypeOK
    <3> QED BY <3>7, <3>8
  <2>11. CASE Return
    <3>1. stack' \in Seq(Frame) /\ DestroyedOnce'
      BY <2>11, PopPlain DEF Return, IInv
    <3>2. EntryObjectValid'
      BY <2>11, AllAlive DEF Return, EntryObjectValid
    <3> QED BY <2>11, <3>1, <3>2 DEF Return, IInv, TypeOK, SlotsExact, DestroyIsSound
  <2>12. CASE UNCHANGED vars
    BY <2>12 DEF vars, IInv, TypeOK, SlotsExact, EntryObjectValid, DestroyIsSound,
                 DestroyedOnce, Destroying, Top
  <2> QED BY <2>1, <2>2, <2>3, <2>4, <2>5, <2>6, <2>7, <2>8, <2>9, <2>10, <2>11, <2>12 DEF Next
<1> QED BY <1>1, <1>2, PTL DEF Spec

\* The type invariant of the model, for every value of the constants.
THEOREM DeferredTypeOK == Spec => []TypeOK
BY DeferredSound, PTL DEF IInv

\* No slot of dbuf is leaked or shared.
THEOREM DeferredSlots == Spec => []SlotsExact
BY DeferredSound, PTL DEF IInv

\* No entry of the list outlives its object, so no action runs on freed memory
\* or on the next object allocated there.
THEOREM DeferredObjects == Spec => []EntryObjectValid
BY DeferredSound, PTL DEF IInv

\* The list never calls destroy_obj without an object.
THEOREM DeferredDestroy == Spec => []DestroyIsSound
BY DeferredSound, PTL DEF IInv

\* However destructors nest, one destroy_obj frame is at work for each dying
\* object.
THEOREM DeferredDestroyedOnce == Spec => []DestroyedOnce
BY DeferredSound, PTL DEF IInv

\* The list of deferred actions is sound, and with it what it does to objects.
THEOREM DeferredListSound == Spec => []ListSound
BY DeferredSound, PTL DEF IInv, ListSound

\* Destruction is once, and of objects that are there.
THEOREM DeferredDestroySound == Spec => []DestroySound
BY DeferredSound, PTL DEF IInv, DestroySound
=============================================================================
