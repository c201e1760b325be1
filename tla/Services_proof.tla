--------------------------- MODULE Services_proof ---------------------------
(***************************************************************************)
(* Hooks, descriptors and the arithmetic of timers, for every number of    *)
(* functions, items, operations and nested calls, of programs and          *)
(* connections, every width of a uint and every number of microseconds in a*)
(* second.                                                                 *)
(*                                                                         *)
(* A call of a hook is sound when it ends because of what holds of it all  *)
(* the time (FrameSound): between the item it goes on with and the end of  *)
(* the list is what it still has to call.  New items are added at the      *)
(* front, before all these, and those that are removed are noted.          *)
(*                                                                         *)
(* What is read from a descriptor goes where it belongs because the        *)
(* descriptors, their entries, the streams and the buffers always fit      *)
(* (Served), also in the middle of a callback that starts a program before *)
(* its own descriptor is closed, and because each handler and connection   *)
(* was told what is due until then (Told).                                 *)
(***************************************************************************)
EXTENDS Hooks, Inputs, TimeVal, SequenceTheorems, FiniteSetTheorems, WellFoundedInduction, TLAPS

-----------------------------------------------------------------------------
(* Hooks *)

\* What a call at work relies on: the item it goes on with is in the list, from
\* there on the list has what was hooked when it began and was not called, and all
\* of that but what was removed.
FrameSound(c, its, fn) ==
  /\ c.next # NoItem => c.next \in Range(its)
  /\ IsInjective(c.called) /\ Range(c.called) \subseteq c.start
  /\ \A n, m \in DOMAIN its :
       its[n] = c.next /\ n <= m => fn[its[m]] \in c.start \ Range(c.called)
  /\ \A f \in c.start \ c.removed :
       f \in Range(c.called) \/ \E n, m \in DOMAIN its : its[n] = c.next /\ n <= m /\ fn[its[m]] = f

HooksInv ==
  /\ HooksTypeOK
  /\ \A n, m \in DOMAIN items : fnOf[items[n]] = fnOf[items[m]] => n = m
  /\ \A k \in DOMAIN calls : FrameSound(calls[k], items, fnOf)

\* A list without its k-th item: the others in their order.
LEMMA RemoveAtProperties ==
  ASSUME NEW S, NEW s \in Seq(S), NEW k \in 1 .. Len(s)
  PROVE  /\ RemoveAt(s, k) \in Seq(S)
         /\ Len(RemoveAt(s, k)) = Len(s) - 1
         /\ \A j \in 1 .. Len(s) - 1 : RemoveAt(s, k)[j] = IF j < k THEN s[j] ELSE s[j + 1]
<1> DEFINE a == SubSeq(s, 1, k - 1)
           b == SubSeq(s, k + 1, Len(s))
<1>1. Len(s) \in Nat /\ k \in Nat /\ \A i \in 1 .. Len(s) : s[i] \in S
  OBVIOUS
<1>2. a \in Seq(S) /\ Len(a) = k - 1 /\ \A i \in 1 .. k - 1 : a[i] = s[i]
  <2>1. \A i \in 1 .. k - 1 : s[i] \in S
    BY <1>1
  <2> QED BY <1>1, <2>1, SubSeqProperties
<1>3. b \in Seq(S) /\ Len(b) = Len(s) - k /\ \A i \in 1 .. Len(s) - k : b[i] = s[k + i]
  <2>1. \A i \in k + 1 .. Len(s) : s[i] \in S
    BY <1>1
  <2>2. /\ b \in Seq(S) /\ Len(b) = IF k + 1 <= Len(s) THEN Len(s) - (k + 1) + 1 ELSE 0
        /\ \A i \in 1 .. Len(s) - (k + 1) + 1 : b[i] = s[k + 1 + i - 1]
    BY <1>1, <2>1, SubSeqProperties
  <2> QED BY <1>1, <2>2
<1>4. RemoveAt(s, k) = a \o b
  BY DEF RemoveAt
<1> HIDE DEF a, b
<1>5. /\ a \o b \in Seq(S) /\ Len(a \o b) = Len(a) + Len(b)
      /\ \A i \in 1 .. Len(a) + Len(b) : (a \o b)[i] = IF i <= Len(a) THEN a[i] ELSE b[i - Len(a)]
  BY <1>2, <1>3, ConcatProperties
<1>6. ASSUME NEW j \in 1 .. Len(s) - 1
      PROVE  RemoveAt(s, k)[j] = IF j < k THEN s[j] ELSE s[j + 1]
  <2>1. CASE j < k
    BY <1>1, <1>2, <1>3, <1>4, <1>5, <2>1
  <2>2. CASE ~(j < k)
    <3>1. j - (k - 1) \in 1 .. Len(s) - k /\ k + (j - (k - 1)) = j + 1
      BY <1>1, <2>2
    <3>2. (a \o b)[j] = b[j - (k - 1)]
      BY <1>1, <1>2, <1>3, <1>5, <2>2
    <3>3. b[j - (k - 1)] = s[j + 1]
      BY <1>3, <3>1
    <3> QED BY <1>4, <2>2, <3>2, <3>3
  <2> QED BY <2>1, <2>2
<1> QED BY <1>1, <1>2, <1>3, <1>4, <1>5, <1>6

-----------------------------------------------------------------------------
(* What adding and removing leave to the calls at work *)

\* An item that is added goes before all that calls go on with.
LEMMA AddKeepsFrame ==
  ASSUME HooksTypeOK, NEW c \in Frames, FrameSound(c, items, fnOf),
         NEW i \in Items \ Range(items), NEW f \in Fns, NoItem \notin Items
  PROVE  FrameSound(c, <<i>> \o items, [fnOf EXCEPT ![i] = f])
<1> DEFINE its == <<i>> \o items
           fn == [fnOf EXCEPT ![i] = f]
<1>1. items \in Seq(Items) /\ Len(items) \in Nat /\ fnOf \in [Items -> Fns]
  BY DEF HooksTypeOK
<1>2. <<i>> \in Seq(Items) /\ Len(<<i>>) = 1 /\ <<i>>[1] = i
  OBVIOUS
<1>3. /\ its \in Seq(Items) /\ Len(its) = Len(items) + 1 /\ its[1] = i
      /\ \A n \in 1 .. Len(items) : its[n + 1] = items[n]
  BY <1>1, <1>2, ConcatProperties
<1>4. \A n \in 1 .. Len(items) : items[n] # i /\ items[n] \in Items /\ fn[its[n + 1]] = fnOf[items[n]]
  BY <1>1, <1>3 DEF Range
<1>5. \A n \in DOMAIN its : n = 1 \/ (n - 1 \in 1 .. Len(items) /\ its[n] = items[n - 1] /\ fn[its[n]] = fnOf[items[n - 1]])
  BY <1>1, <1>3, <1>4
<1>6. c.next # i
  BY DEF FrameSound, Frames
<1>7. c.next # NoItem => c.next \in Range(its)
  <2> SUFFICES ASSUME c.next # NoItem PROVE c.next \in Range(its)
    OBVIOUS
  <2>1. PICK n \in DOMAIN items : items[n] = c.next
    BY DEF FrameSound, Range
  <2>2. n + 1 \in DOMAIN its /\ its[n + 1] = c.next
    BY <1>1, <1>3, <2>1
  <2> HIDE DEF its
  <2> QED BY <2>2 DEF Range
<1> HIDE DEF its, fn
<1>8. ASSUME NEW n \in DOMAIN its, NEW m \in DOMAIN its, its[n] = c.next, n <= m
      PROVE  fn[its[m]] \in c.start \ Range(c.called)
  <2>1. n # 1 /\ m # 1
    BY <1>1, <1>3, <1>6, <1>8
  <2>2. n - 1 \in 1 .. Len(items) /\ m - 1 \in 1 .. Len(items) /\ items[n - 1] = c.next /\ n - 1 <= m - 1
    BY <1>1, <1>3, <1>5, <1>8, <2>1
  <2>3. fnOf[items[m - 1]] \in c.start \ Range(c.called)
    BY <1>1, <2>2 DEF FrameSound
  <2> QED BY <1>5, <2>1, <2>3
<1>9. ASSUME NEW h \in c.start \ c.removed, h \notin Range(c.called)
      PROVE  \E n, m \in DOMAIN its : its[n] = c.next /\ n <= m /\ fn[its[m]] = h
  <2>1. PICK n \in DOMAIN items, m \in DOMAIN items :
          items[n] = c.next /\ n <= m /\ fnOf[items[m]] = h
    BY <1>9 DEF FrameSound
  <2>2. n + 1 \in DOMAIN its /\ m + 1 \in DOMAIN its /\ n + 1 <= m + 1
    BY <1>1, <1>3, <2>1
  <2> QED BY <1>1, <1>3, <1>4, <2>1, <2>2
<1> QED BY <1>7, <1>8, <1>9 DEF FrameSound, its, fn

\* An item that is removed is not the one a call goes on with, and is noted.
LEMMA RemoveKeepsFrame ==
  ASSUME HooksTypeOK, NEW c \in Frames, FrameSound(c, items, fnOf),
         \A n, m \in DOMAIN items : fnOf[items[n]] = fnOf[items[m]] => n = m,
         NEW k \in DOMAIN items, c.next # items[k]
  PROVE  FrameSound([c EXCEPT !.removed = @ \cup {fnOf[items[k]]}], RemoveAt(items, k), fnOf)
<1> DEFINE its == RemoveAt(items, k)
           d == [c EXCEPT !.removed = @ \cup {fnOf[items[k]]}]
           Old(j) == IF j < k THEN j ELSE j + 1
<1>1. items \in Seq(Items) /\ Len(items) \in Nat /\ k \in 1 .. Len(items)
  BY DEF HooksTypeOK
<1>2. /\ its \in Seq(Items) /\ DOMAIN its = 1 .. Len(items) - 1
      /\ \A j \in DOMAIN its : its[j] = items[Old(j)] /\ Old(j) \in DOMAIN items
  <2>1. /\ its \in Seq(Items) /\ Len(its) = Len(items) - 1
        /\ \A j \in 1 .. Len(items) - 1 : its[j] = IF j < k THEN items[j] ELSE items[j + 1]
    BY <1>1, RemoveAtProperties
  <2> HIDE DEF its
  <2> QED BY <1>1, <2>1
<1>3. /\ d.next = c.next /\ d.called = c.called /\ d.start = c.start
      /\ d.removed = c.removed \cup {fnOf[items[k]]}
  BY DEF Frames
<1>4. \A j \in DOMAIN items : j # k => \E n \in DOMAIN its : Old(n) = j
  <2> SUFFICES ASSUME NEW j \in DOMAIN items, j # k PROVE \E n \in DOMAIN its : Old(n) = j
    OBVIOUS
  <2>1. CASE j < k
    BY <1>1, <1>2, <2>1
  <2>2. CASE j > k
    <3>1. j - 1 \in DOMAIN its /\ Old(j - 1) = j
      BY <1>1, <1>2, <2>2
    <3> QED BY <3>1
  <2> QED BY <1>1, <2>1, <2>2
<1>5. \A n, m \in DOMAIN its : n <= m <=> Old(n) <= Old(m)
  BY <1>1, <1>2
<1> HIDE DEF its, d, Old
<1>6. d.next # NoItem => d.next \in Range(its)
  <2> SUFFICES ASSUME c.next # NoItem PROVE c.next \in Range(its)
    BY <1>3
  <2>1. PICK j \in DOMAIN items : items[j] = c.next
    BY DEF FrameSound, Range
  <2>2. PICK n \in DOMAIN its : Old(n) = j
    BY <1>4, <2>1
  <2> QED BY <1>2, <2>1, <2>2 DEF Range
<1>7. ASSUME NEW n \in DOMAIN its, NEW m \in DOMAIN its, its[n] = d.next, n <= m
      PROVE  fnOf[its[m]] \in d.start \ Range(d.called)
  BY <1>2, <1>3, <1>5, <1>7 DEF FrameSound
<1>8. ASSUME NEW f \in d.start \ d.removed, f \notin Range(d.called)
      PROVE  \E n, m \in DOMAIN its : its[n] = d.next /\ n <= m /\ fnOf[its[m]] = f
  <2>1. PICK i \in DOMAIN items, j \in DOMAIN items :
          items[i] = c.next /\ i <= j /\ fnOf[items[j]] = f
    BY <1>3, <1>8 DEF FrameSound
  <2>2. i # k /\ j # k
    BY <1>3, <1>8, <2>1
  <2>3. PICK n \in DOMAIN its : Old(n) = i
    BY <1>4, <2>1, <2>2
  <2>4. PICK m \in DOMAIN its : Old(m) = j
    BY <1>4, <2>1, <2>2
  <2> QED BY <1>2, <1>3, <1>5, <2>1, <2>3, <2>4
<1>9. IsInjective(d.called) /\ Range(d.called) \subseteq d.start
  BY <1>3 DEF FrameSound
<1> QED BY <1>6, <1>7, <1>8, <1>9 DEF FrameSound, its, d

-----------------------------------------------------------------------------
(* The invariance proof *)

\* Every step keeps the frames sound: adding and removing by the lemmas above, a call by
\* going on by one item.
LEMMA HooksStep ==
  ASSUME "removenext" \notin HookCalls
  PROVE  HooksInv /\ [HooksNext]_hooks => HooksInv'
<1> SUFFICES ASSUME HooksInv, [HooksNext]_hooks PROVE HooksInv'
  OBVIOUS
<1>1. /\ items \in Seq(Items) /\ Len(items) \in Nat /\ fnOf \in [Items -> Fns]
      /\ calls \in Seq(Frames) /\ Len(calls) \in Nat /\ hooked \in 0 .. MaxHooked
      /\ MaxHooked \in Nat /\ NoItem \notin Items
      /\ HooksTypeOK
  BY HooksAssumption DEF HooksInv, HooksTypeOK
<1>2. \A n, m \in DOMAIN items : fnOf[items[n]] = fnOf[items[m]] => n = m
  BY DEF HooksInv
<1>3. \A k \in DOMAIN calls : calls[k] \in Frames /\ FrameSound(calls[k], items, fnOf)
  BY <1>1 DEF HooksInv
<1>4. CASE hook_add
  <2>1. PICK f \in Fns \ Hooked, i \in Items \ Range(items) :
          items' = <<i>> \o items /\ fnOf' = [fnOf EXCEPT ![i] = f]
    BY <1>4 DEF hook_add, create_item
  <2>2. calls' = calls /\ hooked' \in 0 .. MaxHooked
    BY <1>1, <1>4 DEF hook_add, HookOp
  <2>3. <<i>> \in Seq(Items) /\ Len(<<i>>) = 1 /\ <<i>>[1] = i
    OBVIOUS
  <2>4. /\ items' \in Seq(Items) /\ Len(items') = Len(items) + 1 /\ items'[1] = i
        /\ \A n \in 1 .. Len(items) : items'[n + 1] = items[n]
    BY <1>1, <2>1, <2>3, ConcatProperties
  <2>5. fnOf' \in [Items -> Fns] /\ fnOf'[i] = f
    BY <1>1, <2>1
  <2>6. \A n \in 1 .. Len(items) : fnOf'[items'[n + 1]] = fnOf[items[n]] /\ fnOf[items[n]] # f
    BY <1>1, <2>1, <2>4 DEF Hooked, Range
  <2>7. \A n \in DOMAIN items' : n = 1 \/ (n - 1 \in 1 .. Len(items) /\ (n - 1) + 1 = n)
    BY <1>1, <2>4
  <2>8. \A n, m \in DOMAIN items' : fnOf'[items'[n]] = fnOf'[items'[m]] => n = m
    <3> SUFFICES ASSUME NEW n \in DOMAIN items', NEW m \in DOMAIN items',
                        fnOf'[items'[n]] = fnOf'[items'[m]]
                 PROVE  n = m
      OBVIOUS
    <3>1. CASE n = 1 /\ m = 1
      BY <3>1
    <3>2. CASE n # 1 /\ m # 1
      <4>1. fnOf[items[n - 1]] = fnOf[items[m - 1]]
        BY <2>6, <2>7, <3>2
      <4>2. n - 1 = m - 1
        BY <1>1, <1>2, <2>7, <3>2, <4>1
      <4> QED BY <1>1, <2>4, <4>2
    <3>3. CASE n # 1 /\ m = 1
      BY <2>4, <2>5, <2>6, <2>7, <3>3
    <3>4. CASE n = 1 /\ m # 1
      BY <2>4, <2>5, <2>6, <2>7, <3>4
    <3> QED BY <3>1, <3>2, <3>3, <3>4
  <2>9. \A k \in DOMAIN calls : FrameSound(calls[k], items', fnOf')
    BY <1>1, <1>3, <2>1, AddKeepsFrame
  <2> QED BY <1>1, <2>2, <2>4, <2>5, <2>8, <2>9 DEF HooksInv, HooksTypeOK
<1>5. CASE hook_remove
  <2>1. PICK k \in DOMAIN items :
          MayFree({items[k]}) /\ items' = RemoveAt(items, k) /\ Forget({items[k]})
    BY <1>5 DEF hook_remove
  <2>2. fnOf' = fnOf /\ hooked' \in 0 .. MaxHooked
    BY <1>1, <1>5 DEF hook_remove, HookOp
  <2>3. /\ items' \in Seq(Items) /\ Len(items') = Len(items) - 1
        /\ \A j \in 1 .. Len(items) - 1 : items'[j] = IF j < k THEN items[j] ELSE items[j + 1]
    BY <1>1, <2>1, RemoveAtProperties
  <2>4. \A n, m \in DOMAIN items' : fnOf'[items'[n]] = fnOf'[items'[m]] => n = m
    <3> SUFFICES ASSUME NEW n \in DOMAIN items', NEW m \in DOMAIN items',
                        fnOf[items'[n]] = fnOf[items'[m]]
                 PROVE  n = m
      BY <2>2
    <3> DEFINE Old(j) == IF j < k THEN j ELSE j + 1
    <3>1. /\ Old(n) \in DOMAIN items /\ items'[n] = items[Old(n)]
          /\ Old(m) \in DOMAIN items /\ items'[m] = items[Old(m)]
      <4>1. /\ n \in 1 .. Len(items) - 1 /\ m \in 1 .. Len(items) - 1
            /\ k \in 1 .. Len(items) /\ DOMAIN items = 1 .. Len(items)
        BY <1>1, <2>3
      <4>2. Old(n) \in 1 .. Len(items) /\ Old(m) \in 1 .. Len(items)
        BY <1>1, <4>1
      <4> QED BY <2>3, <4>1, <4>2
    <3>2. Old(n) = Old(m)
      BY <1>2, <3>1
    <3> QED BY <1>1, <2>3, <3>2
  <2>5. {fnOf[i] : i \in {items[k]}} = {fnOf[items[k]]}
    OBVIOUS
  <2>6. calls' = [j \in DOMAIN calls |->
                   [calls[j] EXCEPT !.removed = @ \cup {fnOf[items[k]]}]]
    BY <2>1, <2>5 DEF Forget
  <2>7. fnOf[items[k]] \in Fns
    BY <1>1
  <2>8. ASSUME NEW j \in DOMAIN calls
        PROVE  calls'[j] \in Frames /\ FrameSound(calls'[j], items', fnOf')
    <3>1. calls[j].next # items[k]
      BY <2>1 DEF MayFree
    <3>2. calls'[j] = [calls[j] EXCEPT !.removed = @ \cup {fnOf[items[k]]}]
      BY <2>6
    <3>3. calls'[j] \in Frames
      BY <1>3, <2>7, <3>2 DEF Frames
    <3> QED BY <1>1, <1>2, <1>3, <2>1, <2>2, <3>1, <3>2, <3>3, RemoveKeepsFrame
  <2>9. calls' \in Seq(Frames) /\ DOMAIN calls' = DOMAIN calls
    <3>1. DOMAIN calls = 1 .. Len(calls)
      BY <1>1
    <3>2. calls' \in [1 .. Len(calls) -> Frames]
      BY <2>6, <2>8, <3>1
    <3> QED BY <1>1, <3>1, <3>2
  <2> QED BY <1>1, <2>2, <2>3, <2>4, <2>8, <2>9 DEF HooksInv, HooksTypeOK
<1>6. CASE hook_deinit
  <2>1. items' = <<>> /\ fnOf' = fnOf /\ calls' = <<>> /\ hooked' \in 0 .. MaxHooked
    BY <1>1, <1>6 DEF hook_deinit, HookOp
  <2> QED BY <1>1, <2>1 DEF HooksInv, HooksTypeOK
<1>7. CASE hook_call
  <2>1. PICK alt \in BOOLEAN :
          calls' = <<[next |-> IF items = <<>> THEN NoItem ELSE items[1], running |-> FALSE,
                      called |-> <<>>, alt |-> alt, start |-> Hooked, removed |-> {},
                      stopped |-> FALSE]>> \o calls
    BY <1>7 DEF hook_call
  <2>2. items' = items /\ fnOf' = fnOf /\ hooked' \in 0 .. MaxHooked
    BY <1>1, <1>7 DEF hook_call, HookOp
  <2> DEFINE c == [next |-> IF items = <<>> THEN NoItem ELSE items[1], running |-> FALSE,
                   called |-> <<>>, alt |-> alt, start |-> Hooked, removed |-> {},
                   stopped |-> FALSE]
  <2>3. Hooked = {fnOf[items[n]] : n \in DOMAIN items} /\ Hooked \subseteq Fns
    BY <1>1 DEF Hooked, Range
  <2>4. c \in Frames
    BY <1>1, <2>3 DEF Frames
  <2>5. FrameSound(c, items, fnOf)
    <3>1. /\ c.called = <<>> /\ Range(c.called) = {} /\ IsInjective(c.called)
          /\ c.start = Hooked /\ c.removed = {}
      BY DEF Range, IsInjective
    <3>2. c.next # NoItem => c.next \in Range(items)
      BY <1>1 DEF Range
    <3>3. \A n, m \in DOMAIN items : fnOf[items[m]] \in Hooked
      BY <2>3
    <3>4. \A m \in DOMAIN items : 1 \in DOMAIN items /\ items[1] = c.next /\ 1 <= m
      BY <1>1
    <3>5. \A f \in Hooked : \E n, m \in DOMAIN items : items[n] = c.next /\ n <= m /\ fnOf[items[m]] = f
      BY <2>3, <3>4
    <3> HIDE DEF c
    <3> QED BY <3>1, <3>2, <3>3, <3>5 DEF FrameSound
  <2> HIDE DEF c
  <2>6. calls' = <<c>> \o calls
    BY <2>1 DEF c
  <2>7. <<c>> \in Seq(Frames) /\ Len(<<c>>) = 1 /\ <<c>>[1] = c
    BY <2>4
  <2>8. /\ calls' \in Seq(Frames) /\ Len(calls') = Len(calls) + 1 /\ calls'[1] = c
        /\ \A n \in 1 .. Len(calls) : calls'[n + 1] = calls[n]
    BY <1>1, <2>6, <2>7, ConcatProperties
  <2>9. \A n \in DOMAIN calls' : n = 1 \/ (n - 1 \in 1 .. Len(calls) /\ calls'[n] = calls[n - 1])
    <3> SUFFICES ASSUME NEW n \in DOMAIN calls', n # 1
                 PROVE  n - 1 \in 1 .. Len(calls) /\ calls'[n] = calls[n - 1]
      OBVIOUS
    <3>1. n \in 1 .. Len(calls) + 1
      BY <2>8
    <3>2. n - 1 \in 1 .. Len(calls) /\ (n - 1) + 1 = n
      BY <1>1, <3>1
    <3> QED BY <2>8, <3>2
  <2>10. ASSUME NEW k \in DOMAIN calls' PROVE FrameSound(calls'[k], items, fnOf)
    <3>1. CASE k = 1
      BY <2>5, <2>8, <3>1
    <3>2. CASE k # 1
      <4>1. k - 1 \in DOMAIN calls /\ calls'[k] = calls[k - 1]
        BY <1>1, <2>9, <3>2
      <4> QED BY <1>3, <4>1
    <3> QED BY <3>1, <3>2
  <2> QED BY <1>1, <1>2, <2>2, <2>8, <2>10 DEF HooksInv, HooksTypeOK
<1>8. CASE CallItem
  <2> DEFINE c == calls[1]
  <2>1. 1 \in DOMAIN calls /\ Head(calls) = c /\ c \in Frames /\ FrameSound(c, items, fnOf)
    BY <1>1, <1>3, <1>8 DEF CallItem
  <2>2. /\ calls' = [calls EXCEPT ![1].next = NextItem(c.next), ![1].running = TRUE,
                                  ![1].called = Append(@, fnOf[c.next])]
        /\ items' = items /\ fnOf' = fnOf /\ hooked' = hooked /\ c.next # NoItem
    BY <1>8, <2>1 DEF CallItem
  <2>3. PICK n \in DOMAIN items : items[n] = c.next
    BY <2>1, <2>2 DEF FrameSound, Range
  <2>4. \A m \in DOMAIN items : items[m] = c.next => m = n
    BY <1>2, <2>3
  <2>5. NextItem(c.next) = IF n = Len(items) THEN NoItem ELSE items[n + 1]
    <3>1. (CHOOSE m \in DOMAIN items : items[m] = c.next) = n
      BY <2>3, <2>4
    <3>2. NextItem(c.next) =
            IF (CHOOSE m \in DOMAIN items : items[m] = c.next) = Len(items) THEN NoItem
            ELSE items[(CHOOSE m \in DOMAIN items : items[m] = c.next) + 1]
      BY Zenon DEF NextItem
    <3> QED BY <3>1, <3>2
  <2> DEFINE d == [c EXCEPT !.next = NextItem(c.next), !.running = TRUE,
                            !.called = Append(@, fnOf[c.next])]
  <2>6. c.called \in Seq(Fns) /\ fnOf[c.next] \in Fns /\ NextItem(c.next) \in Items \cup {NoItem}
    BY <1>1, <2>1, <2>3, <2>5 DEF Frames
  <2>7. /\ Append(c.called, fnOf[c.next]) \in Seq(Fns)
        /\ Len(Append(c.called, fnOf[c.next])) = Len(c.called) + 1
        /\ \A i \in 1 .. Len(c.called) : Append(c.called, fnOf[c.next])[i] = c.called[i]
        /\ Append(c.called, fnOf[c.next])[Len(c.called) + 1] = fnOf[c.next]
    BY <2>6, AppendProperties
  <2>8. /\ d.next = NextItem(c.next) /\ d.called = Append(c.called, fnOf[c.next])
        /\ d.start = c.start /\ d.removed = c.removed /\ d \in Frames
    BY <2>1, <2>6, <2>7 DEF Frames
  <2>9. calls' = [calls EXCEPT ![1] = d]
    BY <2>1, <2>2 DEF Frames
  <2>10. Len(c.called) \in Nat /\ n \in 1 .. Len(items)
    BY <1>1, <2>3, <2>6
  <2> HIDE DEF d, c
  <2>11. Range(d.called) = Range(c.called) \cup {fnOf[c.next]}
    <3>1. DOMAIN d.called = 1 .. Len(c.called) + 1 /\ DOMAIN c.called = 1 .. Len(c.called)
      BY <2>6, <2>7, <2>8
    <3> QED BY <2>7, <2>8, <2>10, <3>1 DEF Range
  <2>12. fnOf[c.next] \in c.start \ Range(c.called)
    BY <2>1, <2>3, <2>10 DEF FrameSound
  <2>13. IsInjective(d.called)
    <3>1. DOMAIN d.called = 1 .. Len(c.called) + 1 /\ DOMAIN c.called = 1 .. Len(c.called)
      BY <2>6, <2>7, <2>8
    <3>2. \A i \in 1 .. Len(c.called) : d.called[i] = c.called[i] /\ c.called[i] # fnOf[c.next]
      BY <2>7, <2>8, <2>12, <3>1 DEF Range
    <3>3. d.called[Len(c.called) + 1] = fnOf[c.next]
      BY <2>7, <2>8
    <3>4. \A i, j \in 1 .. Len(c.called) : c.called[i] = c.called[j] => i = j
      BY <2>1, <3>1 DEF FrameSound, IsInjective
    <3> SUFFICES ASSUME NEW i \in 1 .. Len(c.called) + 1, NEW j \in 1 .. Len(c.called) + 1,
                        d.called[i] = d.called[j]
                 PROVE  i = j
      BY <3>1 DEF IsInjective
    <3>5. CASE i \in 1 .. Len(c.called) /\ j \in 1 .. Len(c.called)
      BY <3>2, <3>4, <3>5
    <3>6. CASE i = Len(c.called) + 1 \/ j = Len(c.called) + 1
      BY <2>10, <3>2, <3>3, <3>6
    <3> QED BY <2>10, <3>5, <3>6
  <2>14. \A m \in DOMAIN items : items[m] = d.next => m = n + 1
    BY <1>1, <1>2, <2>5, <2>8, <2>10
  <2>15. ASSUME NEW i \in DOMAIN items, NEW m \in DOMAIN items, items[i] = d.next, i <= m
         PROVE  fnOf[items[m]] \in d.start \ Range(d.called)
    <3>1. n < m
      BY <1>1, <2>14, <2>15, <2>10
    <3>2. fnOf[items[m]] \in c.start \ Range(c.called)
      BY <1>1, <2>1, <2>3, <3>1, <2>10 DEF FrameSound
    <3>3. fnOf[items[m]] # fnOf[c.next]
      BY <1>2, <2>3, <3>1, <2>10
    <3> QED BY <2>8, <2>11, <3>2, <3>3
  <2>16. ASSUME NEW f \in d.start \ d.removed, f \notin Range(d.called)
         PROVE  \E i, m \in DOMAIN items : items[i] = d.next /\ i <= m /\ fnOf[items[m]] = f
    <3>1. PICK i \in DOMAIN items, m \in DOMAIN items :
            items[i] = c.next /\ i <= m /\ fnOf[items[m]] = f
      BY <2>1, <2>8, <2>11, <2>16 DEF FrameSound
    <3>2. i = n /\ m # n
      BY <2>3, <2>4, <2>11, <2>16, <3>1
    <3>3. n + 1 \in DOMAIN items /\ n + 1 <= m /\ items[n + 1] = d.next
      BY <1>1, <2>5, <2>8, <2>10, <3>1, <3>2
    <3> QED BY <3>1, <3>3
  <2>17. d.next # NoItem => d.next \in Range(items)
    <3> SUFFICES ASSUME n # Len(items) PROVE items[n + 1] \in Range(items)
      BY <2>5, <2>8
    <3>1. n + 1 \in DOMAIN items
      BY <1>1, <2>10
    <3> QED BY <3>1 DEF Range
  <2>18. FrameSound(d, items, fnOf)
    BY <2>1, <2>8, <2>11, <2>12, <2>13, <2>15, <2>16, <2>17 DEF FrameSound
  <2>19. /\ calls' \in Seq(Frames) /\ DOMAIN calls' = DOMAIN calls
         /\ \A k \in DOMAIN calls : calls'[k] = IF k = 1 THEN d ELSE calls[k]
    BY <1>1, <2>1, <2>8, <2>9
  <2> QED BY <1>1, <1>2, <1>3, <2>2, <2>18, <2>19 DEF HooksInv, HooksTypeOK
<1>9. CASE Returned
  <2>1. PICK ret \in BOOLEAN : calls' = [calls EXCEPT ![1].running = FALSE, ![1].stopped = ret]
    BY <1>9 DEF Returned
  <2>2. items' = items /\ fnOf' = fnOf /\ hooked' = hooked /\ 1 \in DOMAIN calls
    BY <1>1, <1>9 DEF Returned
  <2> DEFINE d == [calls[1] EXCEPT !.running = FALSE, !.stopped = ret]
  <2>3. /\ d \in Frames /\ d.next = calls[1].next /\ d.called = calls[1].called
        /\ d.start = calls[1].start /\ d.removed = calls[1].removed
    BY <1>3, <2>2 DEF Frames
  <2>4. calls' = [calls EXCEPT ![1] = d]
    BY <1>3, <2>1, <2>2 DEF Frames
  <2> HIDE DEF d
  <2>5. FrameSound(d, items, fnOf)
    BY <1>3, <2>2, <2>3 DEF FrameSound
  <2>6. /\ calls' \in Seq(Frames) /\ DOMAIN calls' = DOMAIN calls
        /\ \A k \in DOMAIN calls : calls'[k] = IF k = 1 THEN d ELSE calls[k]
    BY <1>1, <2>2, <2>3, <2>4
  <2> QED BY <1>1, <1>2, <1>3, <2>2, <2>5, <2>6 DEF HooksInv, HooksTypeOK
<1>10. CASE CallEnds
  <2>1. calls' = Tail(calls) /\ calls # <<>> /\ items' = items /\ fnOf' = fnOf /\ hooked' = hooked
    BY <1>10 DEF CallEnds
  <2>2. /\ calls' \in Seq(Frames) /\ Len(calls') = Len(calls) - 1
        /\ \A i \in 1 .. Len(calls') : calls'[i] = calls[i + 1]
    BY <1>1, <2>1, HeadTailProperties
  <2>3. \A i \in DOMAIN calls' : i + 1 \in DOMAIN calls /\ calls'[i] = calls[i + 1]
    BY <1>1, <2>2
  <2> QED BY <1>1, <1>2, <1>3, <2>1, <2>2, <2>3 DEF HooksInv, HooksTypeOK
<1>11. CASE UNCHANGED hooks
  BY <1>11 DEF HooksInv, HooksTypeOK, hooks
<1> QED BY <1>4, <1>5, <1>6, <1>7, <1>8, <1>9, <1>10, <1>11 DEF HooksNext

\* No call is at work when the hook is created.
LEMMA HooksInitially == HooksInit => HooksInv
<1> SUFFICES ASSUME HooksInit PROVE HooksInv
  OBVIOUS
<1>1. items = <<>> /\ calls = <<>> /\ hooked = MaxHooked /\ MaxHooked \in Nat
  BY HooksAssumption DEF HooksInit
<1>2. fnOf \in [Items -> Fns]
  <2>1. (CHOOSE f \in Fns : TRUE) \in Fns
    BY HooksAssumption
  <2> QED BY <2>1 DEF HooksInit
<1> QED BY <1>1, <1>2 DEF HooksInv, HooksTypeOK

\* CallsSound, for any functions, items, operations and nesting, as long as no
\* function removes the item behind the one that calls it.
THEOREM HookCallsSound ==
  ASSUME "removenext" \notin HookCalls
  PROVE  HooksSpec => []CallsSound
<1>1. HooksInv => CallsSound
  <2> SUFFICES ASSUME HooksInv PROVE CallsSound
    OBVIOUS
  <2>1. \A n, m \in DOMAIN items : fnOf[items[n]] = fnOf[items[m]] => n = m
    BY DEF HooksInv
  <2>2. IsInjective([k \in DOMAIN items |-> fnOf[items[k]]])
    BY <2>1 DEF IsInjective
  <2>3. ASSUME NEW k \in DOMAIN calls
        PROVE  /\ calls[k].next # NoItem => calls[k].next \in Range(items)
               /\ IsInjective(calls[k].called) /\ Range(calls[k].called) \subseteq calls[k].start
               /\ calls[k].next = NoItem =>
                    calls[k].start \ calls[k].removed \subseteq Range(calls[k].called)
    <3>1. FrameSound(calls[k], items, fnOf)
      BY DEF HooksInv
    <3>2. \A n \in DOMAIN items : items[n] # NoItem
      BY HooksAssumption DEF HooksInv, HooksTypeOK
    <3> QED BY <3>1, <3>2 DEF FrameSound
  <2> QED BY <2>2, <2>3 DEF CallsSound, HooksInv
<1> QED BY <1>1, HooksInitially, HooksStep, PTL DEF HooksSpec

-----------------------------------------------------------------------------
(* Descriptors, pipes and connections *)

\* A set of numbers has a least one.
LEMMA NatMin ==
  ASSUME NEW T \in SUBSET Nat, T # {}
  PROVE  \E n \in T : \A m \in T : n <= m
<1> DEFINE R == {p \in Nat \X Nat : p[1] < p[2]}
<1>1. IsWellFoundedOn(R, Nat)
  <2>1. R = OpToRel(<, Nat)
    BY DEF OpToRel
  <2> QED BY <2>1, NatLessThanWellFounded
<1>2. \E n \in T : \A m \in T : ~(<<m, n>> \in R)
  <2> HIDE DEF R
  <2> QED BY <1>1, WFMin
<1>3. PICK n \in T : \A m \in T : ~(<<m, n>> \in R)
  BY <1>2
<1>4. ASSUME NEW m \in T PROVE n <= m
  <2>1. <<m, n>> \in Nat \X Nat
    OBVIOUS
  <2> QED BY <1>3, <2>1
<1> QED BY <1>4

\* A stream, an entry of the list of descriptors and a buffer of a connection.
Stream == [sent : Nat, read : Nat, ended : BOOLEAN, closed : BOOLEAN,
           state : {"none", "new", "waiting", "open", "done", "failed"}]
Callback == [fd : Fds \cup {Listen}, fn : {"connection_attempt", "process_pipe", "receive_data"},
             data : Streams \cup {Nothing} \cup 1 .. MAX_SERVED]
Buffer == [fd : Fds \cup {-1}, ndata : 0 .. MAX_DATA, data : BOOLEAN]
Once(l) == \A j, k \in DOMAIN l : l[j].fd = l[k].fd => j = k

\* What an entry of the list is, given what its descriptor stands for
Meant(e, o, s, b) ==
  \/ e = Entry(Listen, "connection_attempt", Nothing)
  \/ e.fd \in Fds /\ o[e.fd] \in Pipes /\ e = Entry(e.fd, "process_pipe", o[e.fd])
  \/ /\ e.fd \in Fds /\ o[e.fd] \in Conns
     /\ \E x \in 1 .. MAX_SERVED :
          b[x].fd = e.fd /\ b[x].ndata = s[o[e.fd]].read /\ e = Entry(e.fd, "receive_data", x)

\* The descriptors o, streams s, entries l and buffers b fit: no stream has two
\* descriptors and none that is closed has one, each descriptor that is open has one
\* entry, the entries are those, and a buffer that is free is empty.
Served(o, s, l, b) ==
  /\ o \in [Fds -> Streams \cup {Nothing}] /\ s \in [Streams -> Stream]
  /\ l \in Seq(Callback) /\ b \in [1 .. MAX_SERVED -> Buffer]
  /\ \A f, g \in Fds : o[f] = o[g] /\ o[f] # Nothing => f = g
  /\ \A f \in Fds : o[f] # Nothing => s[o[f]].state = "open"
  /\ \A x \in 1 .. MAX_SERVED : b[x].fd < 0 => b[x] = FreeBuf
  /\ Once(l)
  /\ \A k \in DOMAIN l : Meant(l[k], o, s, b)
  /\ \A f \in Fds : o[f] # Nothing => \E k \in DOMAIN l : l[k].fd = f

\* There is always a descriptor that is free: there are more of them than streams.
LEMMA FreeFdFree ==
  ASSUME InputsAssumption, NEW o \in [Fds -> Streams \cup {Nothing}],
         \A f, g \in Fds : o[f] = o[g] /\ o[f] # Nothing => f = g
  PROVE  FreeFd(o) \in Fds /\ o[FreeFd(o)] = Nothing
<1> DEFINE N == Cardinality(Streams)
           T == {fd \in Fds : o[fd] = Nothing}
<1>1. N \in Nat /\ Fds = 1 .. N + 1 /\ Fds \subseteq Nat
  BY FS_CardinalityType DEF InputsAssumption, Fds
<1>2. IsFiniteSet(Fds) /\ Cardinality(Fds) = N + 1
  <2> DEFINE M == N + 1
  <2>1. M \in Int /\ ~(1 > M) /\ M - 1 + 1 = M /\ Fds = 1 .. M
    BY <1>1
  <2> HIDE DEF M
  <2>2. 1 \in Int
    OBVIOUS
  <2>3. IsFiniteSet(1 .. M) /\ Cardinality(1 .. M) = IF 1 > M THEN 0 ELSE M - 1 + 1
    BY <2>1, <2>2, FS_Interval, Zenon
  <2>4. IsFiniteSet(Fds) /\ Cardinality(Fds) = M
    BY <2>1, <2>3
  <2> QED BY <2>4 DEF M
<1>3. T # {}
  <2> SUFFICES ASSUME T = {} PROVE FALSE
    OBVIOUS
  <2>1. o \in [Fds -> Streams]
    OBVIOUS
  <2>2. Cardinality(Streams) < Cardinality(Fds)
    BY <1>1, <1>2
  <2>3. \E f, g \in Fds : f # g /\ o[f] = o[g]
    BY <1>2, <2>1, <2>2, FS_PigeonHole DEF InputsAssumption
  <2> QED BY <2>1, <2>3 DEF InputsAssumption
<1>4. PICK n \in T : \A m \in T : n <= m
  BY <1>1, <1>3, NatMin
<1>5. o[n] = Nothing /\ n \in Fds /\ \A x \in Fds : o[x] = Nothing => n <= x
  BY <1>4
<1> QED BY <1>5 DEF FreeFd

\* connection_attempt takes a buffer that is free.
LEMMA FreeBufFree ==
  ASSUME NEW b, NEW free \in SUBSET (1 .. MAX_SERVED), free # {}, InputsAssumption,
         b = CHOOSE x \in free : \A y \in free : x <= y
  PROVE  b \in free
<1>1. free \in SUBSET Nat
  BY DEF InputsAssumption
<1>2. \E n \in free : \A m \in free : n <= m
  BY <1>1, NatMin
<1> QED BY <1>2

\* A registered callback that was not yet in the list comes at its end, the others stay.
LEMMA Registered ==
  ASSUME NEW l \in Seq(Callback), NEW e \in Callback, \A k \in DOMAIN l : l[k].fd # e.fd, Once(l)
  PROVE  LET m == mainloop_register_input_fd(l, e)
         IN /\ m \in Seq(Callback) /\ Once(m)
            /\ \A k \in DOMAIN m : m[k] = e \/ \E j \in DOMAIN l : m[k] = l[j]
            /\ \A j \in DOMAIN l : \E k \in DOMAIN m : m[k] = l[j]
            /\ \E k \in DOMAIN m : m[k] = e
<1>1. mainloop_register_input_fd(l, e) = Append(l, e)
  BY DEF mainloop_register_input_fd, find_input_fd
<1>2. Append(l, e) \in Seq(Callback) /\ Len(Append(l, e)) = Len(l) + 1 /\ Len(l) \in Nat
  OBVIOUS
<1>3. Append(l, e)[Len(l) + 1] = e /\ \A k \in 1 .. Len(l) : Append(l, e)[k] = l[k]
  OBVIOUS
<1>4. DOMAIN Append(l, e) = 1 .. Len(l) + 1 /\ DOMAIN l = 1 .. Len(l)
  BY <1>2
<1> DEFINE m == Append(l, e)
<1>5. Once(m)
  <2> SUFFICES ASSUME NEW j \in DOMAIN m, NEW k \in DOMAIN m, m[j].fd = m[k].fd PROVE j = k
    BY DEF Once
  <2>1. CASE j = Len(l) + 1 /\ k # Len(l) + 1
    BY <1>2, <1>3, <1>4, <2>1
  <2>2. CASE k = Len(l) + 1 /\ j # Len(l) + 1
    BY <1>2, <1>3, <1>4, <2>2
  <2>3. CASE k # Len(l) + 1 /\ j # Len(l) + 1
    BY <1>2, <1>3, <1>4, <2>3 DEF Once
  <2> QED BY <2>1, <2>2, <2>3
<1>6. \A k \in DOMAIN m : m[k] = e \/ \E j \in DOMAIN l : m[k] = l[j]
  BY <1>2, <1>3, <1>4
<1>7. \A j \in DOMAIN l : \E k \in DOMAIN m : m[k] = l[j]
  BY <1>2, <1>3, <1>4
<1>8. \E k \in DOMAIN m : m[k] = e
  BY <1>2, <1>3, <1>4
<1> HIDE DEF m
<1> QED BY <1>1, <1>2, <1>5, <1>6, <1>7, <1>8 DEF m

\* The list without the callback of a descriptor.
Without(m, l, fd) ==
  /\ m \in Seq(Callback) /\ Once(m)
  /\ \A k \in DOMAIN m : m[k].fd # fd /\ \E j \in DOMAIN l : m[k] = l[j]
  /\ \A j \in DOMAIN l : l[j].fd # fd => \E k \in DOMAIN m : m[k] = l[j]

\* mainloop_unregister_input_fd takes the entry of fd out of the list, and no other.
LEMMA Unregistered ==
  ASSUME NEW l \in Seq(Callback), Once(l), NEW fd, NEW i \in DOMAIN l, l[i].fd = fd
  PROVE  Without(mainloop_unregister_input_fd(l, fd), l, fd)
<1>1. find_input_fd(l, fd) = {i}
  BY DEF find_input_fd, Once
<1>2. i \in 1 .. Len(l) /\ Len(l) \in Nat /\ DOMAIN l = 1 .. Len(l)
  OBVIOUS
<1>3. (CHOOSE k \in {i} : \A j \in {i} : k <= j) = i
  BY <1>2
<1>4. mainloop_unregister_input_fd(l, fd) = RemoveAt(l, i)
  BY <1>1, <1>3, Zenon DEF mainloop_unregister_input_fd
<1> DEFINE m == RemoveAt(l, i)
           Old(j) == IF j < i THEN j ELSE j + 1
<1>5. /\ m \in Seq(Callback) /\ Len(m) = Len(l) - 1 /\ DOMAIN m = 1 .. Len(l) - 1
      /\ \A j \in 1 .. Len(l) - 1 : m[j] = l[Old(j)]
  <2>1. /\ m \in Seq(Callback) /\ Len(m) = Len(l) - 1
        /\ \A j \in 1 .. Len(l) - 1 : m[j] = IF j < i THEN l[j] ELSE l[j + 1]
    BY <1>2, RemoveAtProperties
  <2> HIDE DEF m
  <2> QED BY <2>1
<1> HIDE DEF m
<1>6. \A j \in DOMAIN m : Old(j) \in DOMAIN l /\ Old(j) # i /\ m[j] = l[Old(j)]
  BY <1>2, <1>5
<1>7. Once(m)
  <2> SUFFICES ASSUME NEW j \in DOMAIN m, NEW k \in DOMAIN m, m[j].fd = m[k].fd PROVE j = k
    BY DEF Once
  <2>1. Old(j) = Old(k)
    BY <1>6 DEF Once
  <2> QED BY <1>2, <1>5, <2>1
<1>8. \A j \in DOMAIN l : l[j].fd # fd => \E k \in DOMAIN m : m[k] = l[j]
  <2> SUFFICES ASSUME NEW j \in DOMAIN l, j # i PROVE \E k \in DOMAIN m : m[k] = l[j]
    OBVIOUS
  <2>1. CASE j < i
    <3>1. j \in DOMAIN m /\ m[j] = l[j]
      BY <1>2, <1>5, <2>1
    <3> QED BY <3>1
  <2>2. CASE j > i
    <3>1. j - 1 \in DOMAIN m /\ Old(j - 1) = j
      BY <1>2, <1>5, <2>2
    <3>2. m[j - 1] = l[j]
      BY <1>6, <3>1
    <3> QED BY <3>1, <3>2
  <2> QED BY <1>2, <2>1, <2>2
<1>9. \A k \in DOMAIN m : m[k].fd # fd /\ \E j \in DOMAIN l : m[k] = l[j]
  BY <1>6 DEF Once
<1>10. Without(m, l, fd)
  BY <1>5, <1>7, <1>8, <1>9 DEF Without
<1> QED BY <1>4, <1>10 DEF m

\* A stream that changes without that its descriptor, or what was read of a
\* connection, does.
LEMMA StreamsChange ==
  ASSUME NEW o, NEW s, NEW l, NEW b, Served(o, s, l, b), NEW t \in [Streams -> Stream],
         \A f \in Fds : o[f] # Nothing =>
           t[o[f]].state = s[o[f]].state /\ (o[f] \in Conns => t[o[f]].read = s[o[f]].read)
  PROVE  Served(o, t, l, b)
<1>1. ASSUME NEW e, Meant(e, o, s, b) PROVE Meant(e, o, t, b)
  <2>1. o \in [Fds -> Streams \cup {Nothing}]
    BY DEF Served
  <2>2. ASSUME e.fd \in Fds, o[e.fd] \in Conns, InputsAssumption
        PROVE  t[o[e.fd]].read = s[o[e.fd]].read
    BY <2>2 DEF InputsAssumption, Streams
  <2> QED BY <1>1, <2>1, <2>2, InputsAssumption DEF Meant
<1> QED BY <1>1 DEF Served

\* A program's pipe is given a descriptor that was free.
LEMMA PipeOpens ==
  ASSUME NEW o, NEW s, NEW l, NEW b, Served(o, s, l, b),
         NEW p \in Pipes, s[p].state = "new", NEW f \in Fds, o[f] = Nothing
  PROVE  Served([o EXCEPT ![f] = p], [s EXCEPT ![p].state = "open"],
                mainloop_register_input_fd(l, Entry(f, "process_pipe", p)), b)
<1> DEFINE o2 == [o EXCEPT ![f] = p]
           s2 == [s EXCEPT ![p].state = "open"]
           e == Entry(f, "process_pipe", p)
           l2 == mainloop_register_input_fd(l, e)
<1>0. p \in Streams /\ p # Nothing /\ p \notin Conns /\ f # Listen /\ f # -1
  <2>1. f \in Int /\ f >= 1
    BY FS_CardinalityType, InputsAssumption DEF Fds, InputsAssumption
  <2> QED BY <2>1, InputsAssumption DEF InputsAssumption, Streams, Listen
<1>1. /\ o \in [Fds -> Streams \cup {Nothing}] /\ s \in [Streams -> Stream]
      /\ l \in Seq(Callback) /\ b \in [1 .. MAX_SERVED -> Buffer] /\ Once(l)
      /\ \A k \in DOMAIN l : Meant(l[k], o, s, b)
  BY DEF Served
<1>2. e \in Callback /\ e.fd = f
  BY <1>0 DEF Callback, Entry
<1>3. \A k \in DOMAIN l : l[k].fd # f
  BY <1>0, <1>1, InputsAssumption DEF Meant, Entry, InputsAssumption, Streams
<1>4. /\ l2 \in Seq(Callback) /\ Once(l2)
      /\ \A k \in DOMAIN l2 : l2[k] = e \/ \E j \in DOMAIN l : l2[k] = l[j]
      /\ \A j \in DOMAIN l : \E k \in DOMAIN l2 : l2[k] = l[j]
      /\ \E k \in DOMAIN l2 : l2[k] = e
  BY <1>1, <1>2, <1>3, Registered
<1>5. o2 \in [Fds -> Streams \cup {Nothing}] /\ o2[f] = p /\ \A g \in Fds : g # f => o2[g] = o[g]
  BY <1>0, <1>1
<1>6. s2 \in [Streams -> Stream] /\ s2[p].state = "open"
      /\ \A x \in Streams : x # p => s2[x] = s[x]
  <2>1. s[p] \in Stream /\ [s[p] EXCEPT !.state = "open"] \in Stream
    BY <1>0, <1>1 DEF Stream
  <2> QED BY <1>0, <1>1, <2>1 DEF Stream
<1>7. \A g \in Fds : o[g] # p
  BY <1>0 DEF Served
<1> HIDE DEF o2, s2, l2
<1>8. ASSUME NEW k \in DOMAIN l2 PROVE Meant(l2[k], o2, s2, b)
  <2>1. CASE l2[k] = e
    BY <1>0, <1>2, <1>5, <2>1 DEF Meant, e
  <2>2. CASE \E j \in DOMAIN l : l2[k] = l[j]
    <3>1. PICK j \in DOMAIN l : l2[k] = l[j]
      BY <2>2
    <3>2. Meant(l[j], o, s, b) /\ l[j].fd # f
      BY <1>1, <1>3
    <3>3. l[j].fd \in Fds => o2[l[j].fd] = o[l[j].fd] /\ o[l[j].fd] # p
      BY <1>5, <1>7, <3>2
    <3>4. l[j].fd \in Fds /\ o[l[j].fd] \in Conns => s2[o2[l[j].fd]] = s[o[l[j].fd]]
      BY <1>6, <3>3 DEF Streams
    <3> QED BY <3>1, <3>2, <3>3, <3>4 DEF Meant
  <2> QED BY <1>4, <2>1, <2>2
<1>9. \A g, h \in Fds : o2[g] = o2[h] /\ o2[g] # Nothing => g = h
  BY <1>5, <1>7 DEF Served
<1>10. \A g \in Fds : o2[g] # Nothing => s2[o2[g]].state = "open"
  <2> SUFFICES ASSUME NEW g \in Fds, o2[g] # Nothing PROVE s2[o2[g]].state = "open"
    OBVIOUS
  <2>1. CASE g = f
    BY <1>5, <1>6, <2>1
  <2>2. CASE g # f
    <3>1. o2[g] = o[g] /\ o[g] # p /\ o[g] \in Streams
      BY <1>1, <1>5, <1>7, <2>2
    <3> QED BY <1>6, <3>1 DEF Served
  <2> QED BY <2>1, <2>2
<1>11. \A g \in Fds : o2[g] # Nothing => \E k \in DOMAIN l2 : l2[k].fd = g
  <2> SUFFICES ASSUME NEW g \in Fds, o2[g] # Nothing PROVE \E k \in DOMAIN l2 : l2[k].fd = g
    OBVIOUS
  <2>1. CASE g = f
    BY <1>2, <1>4, <2>1
  <2>2. CASE g # f
    <3>1. PICK j \in DOMAIN l : l[j].fd = g
      BY <1>5, <2>2 DEF Served
    <3> QED BY <1>4, <3>1
  <2> QED BY <2>1, <2>2
<1>12. \A x \in 1 .. MAX_SERVED : b[x].fd < 0 => b[x] = FreeBuf
  BY DEF Served
<1>13. Served(o2, s2, l2, b)
  BY <1>1, <1>4, <1>5, <1>6, <1>8, <1>9, <1>10, <1>11, <1>12 DEF Served
<1> QED BY <1>13 DEF o2, s2, l2, e

\* A connection is given a descriptor and a buffer that were free.
LEMMA ConnOpens ==
  ASSUME NEW o, NEW s, NEW l, NEW b, Served(o, s, l, b),
         NEW c \in Conns, s[c].state = "waiting", s[c].read = 0, NEW f \in Fds, o[f] = Nothing,
         NEW x \in 1 .. MAX_SERVED, b[x].fd < 0
  PROVE  Served([o EXCEPT ![f] = c], [s EXCEPT ![c].state = "open"],
                mainloop_register_input_fd(l, Entry(f, "receive_data", x)),
                [b EXCEPT ![x].fd = f, ![x].data = TRUE])
<1> DEFINE o2 == [o EXCEPT ![f] = c]
           s2 == [s EXCEPT ![c].state = "open"]
           e == Entry(f, "receive_data", x)
           l2 == mainloop_register_input_fd(l, e)
           b2 == [b EXCEPT ![x].fd = f, ![x].data = TRUE]
<1>0. c \in Streams /\ c # Nothing /\ c \notin Pipes /\ f \in Int /\ f >= 1 /\ f # Listen
  <2>1. f \in Int /\ f >= 1
    BY FS_CardinalityType, InputsAssumption DEF Fds, InputsAssumption
  <2> QED BY <2>1, InputsAssumption DEF InputsAssumption, Streams, Listen
<1>1. /\ o \in [Fds -> Streams \cup {Nothing}] /\ s \in [Streams -> Stream]
      /\ l \in Seq(Callback) /\ b \in [1 .. MAX_SERVED -> Buffer] /\ Once(l)
      /\ \A k \in DOMAIN l : Meant(l[k], o, s, b)
  BY DEF Served
<1>2. e \in Callback /\ e.fd = f
  BY <1>0 DEF Callback, Entry
<1>3. \A k \in DOMAIN l : l[k].fd # f
  BY <1>0, <1>1, InputsAssumption DEF Meant, Entry, InputsAssumption, Streams
<1>4. /\ l2 \in Seq(Callback) /\ Once(l2)
      /\ \A k \in DOMAIN l2 : l2[k] = e \/ \E j \in DOMAIN l : l2[k] = l[j]
      /\ \A j \in DOMAIN l : \E k \in DOMAIN l2 : l2[k] = l[j]
      /\ \E k \in DOMAIN l2 : l2[k] = e
  BY <1>1, <1>2, <1>3, Registered
<1>5. o2 \in [Fds -> Streams \cup {Nothing}] /\ o2[f] = c /\ \A g \in Fds : g # f => o2[g] = o[g]
  BY <1>0, <1>1
<1>6. s2 \in [Streams -> Stream] /\ s2[c].state = "open" /\ s2[c].read = 0
      /\ \A y \in Streams : y # c => s2[y] = s[y]
  <2>1. s[c] \in Stream /\ [s[c] EXCEPT !.state = "open"] \in Stream
    BY <1>0, <1>1 DEF Stream
  <2> QED BY <1>0, <1>1, <2>1 DEF Stream
<1>7. \A g \in Fds : o[g] # c
  BY <1>0 DEF Served
<1>14. /\ b2 \in [1 .. MAX_SERVED -> Buffer] /\ b2[x].fd = f /\ b2[x].ndata = 0
       /\ \A y \in 1 .. MAX_SERVED : y # x => b2[y] = b[y]
  <2>1. b[x] = FreeBuf
    BY DEF Served
  <2> DEFINE r == [b[x] EXCEPT !.fd = f]
             q == [r EXCEPT !.data = TRUE]
  <2>2. b2 = [b EXCEPT ![x] = q]
    BY <1>1
  <2>3. b[x].ndata = 0
    BY <2>1 DEF FreeBuf
  <2>4. r \in Buffer /\ r.fd = f /\ r.ndata = 0
    <3>1. b[x] \in Buffer
      BY <1>1
    <3> QED BY <2>3, <3>1 DEF Buffer
  <2> HIDE DEF r
  <2>5. q \in Buffer /\ q.fd = f /\ q.ndata = 0
    BY <2>4 DEF Buffer
  <2> HIDE DEF q
  <2> HIDE DEF b2
  <2> QED BY <1>1, <2>2, <2>5
<1> HIDE DEF o2, s2, l2, b2
<1>8. ASSUME NEW k \in DOMAIN l2 PROVE Meant(l2[k], o2, s2, b2)
  <2>1. CASE l2[k] = e
    BY <1>0, <1>2, <1>5, <1>6, <1>14, <2>1 DEF Meant, e
  <2>2. CASE \E j \in DOMAIN l : l2[k] = l[j]
    <3>1. PICK j \in DOMAIN l : l2[k] = l[j]
      BY <2>2
    <3>2. Meant(l[j], o, s, b) /\ l[j].fd # f
      BY <1>1, <1>3
    <3>3. l[j].fd \in Fds => o2[l[j].fd] = o[l[j].fd] /\ o[l[j].fd] # c
      BY <1>5, <1>7, <3>2
    <3>4. l[j].fd \in Fds /\ o[l[j].fd] \in Conns => s2[o2[l[j].fd]] = s[o[l[j].fd]]
      BY <1>6, <3>3 DEF Streams
    <3>5. l[j].fd \in Fds => l[j].fd \in Int /\ l[j].fd >= 1
      BY FS_CardinalityType, InputsAssumption DEF Fds, InputsAssumption
    <3>6. \A y \in 1 .. MAX_SERVED : l[j].fd \in Fds /\ b[y].fd = l[j].fd => b2[y] = b[y]
      BY <1>14, <3>5
    <3> QED BY <3>1, <3>2, <3>3, <3>4, <3>6 DEF Meant
  <2> QED BY <1>4, <2>1, <2>2
<1>9. \A g, h \in Fds : o2[g] = o2[h] /\ o2[g] # Nothing => g = h
  BY <1>5, <1>7 DEF Served
<1>10. \A g \in Fds : o2[g] # Nothing => s2[o2[g]].state = "open"
  <2> SUFFICES ASSUME NEW g \in Fds, o2[g] # Nothing PROVE s2[o2[g]].state = "open"
    OBVIOUS
  <2>1. CASE g = f
    BY <1>5, <1>6, <2>1
  <2>2. CASE g # f
    <3>1. o2[g] = o[g] /\ o[g] # c /\ o[g] \in Streams
      BY <1>1, <1>5, <1>7, <2>2
    <3> QED BY <1>6, <3>1 DEF Served
  <2> QED BY <2>1, <2>2
<1>11. \A g \in Fds : o2[g] # Nothing => \E k \in DOMAIN l2 : l2[k].fd = g
  <2> SUFFICES ASSUME NEW g \in Fds, o2[g] # Nothing PROVE \E k \in DOMAIN l2 : l2[k].fd = g
    OBVIOUS
  <2>1. CASE g = f
    BY <1>2, <1>4, <2>1
  <2>2. CASE g # f
    <3>1. PICK j \in DOMAIN l : l[j].fd = g
      BY <1>5, <2>2 DEF Served
    <3> QED BY <1>4, <3>1
  <2> QED BY <2>1, <2>2
<1>12. \A y \in 1 .. MAX_SERVED : b2[y].fd < 0 => b2[y] = FreeBuf
  BY <1>0, <1>14 DEF Served
<1>13. Served(o2, s2, l2, b2)
  BY <1>1, <1>4, <1>5, <1>6, <1>8, <1>9, <1>10, <1>11, <1>12, <1>14 DEF Served
<1> QED BY <1>13 DEF o2, s2, l2, b2, e

\* A descriptor is closed, with the buffer of its connection.
LEMMA StreamCloses ==
  ASSUME NEW o, NEW s, NEW l, NEW b, Served(o, s, l, b), NEW f \in Fds, o[f] # Nothing, NEW b2,
         NEW how \in {"done", "failed"},
         \/ b2 = b
         \/ \E x \in 1 .. MAX_SERVED : b[x].fd = f /\ b2 = [b EXCEPT ![x] = FreeBuf]
  PROVE  Served([o EXCEPT ![f] = Nothing], [s EXCEPT ![o[f]].state = how],
                mainloop_unregister_input_fd(l, f), b2)
<1> DEFINE o2 == [o EXCEPT ![f] = Nothing]
           s2 == [s EXCEPT ![o[f]].state = how]
           l2 == mainloop_unregister_input_fd(l, f)
<1>1. /\ o \in [Fds -> Streams \cup {Nothing}] /\ s \in [Streams -> Stream]
      /\ l \in Seq(Callback) /\ b \in [1 .. MAX_SERVED -> Buffer] /\ Once(l)
      /\ \A k \in DOMAIN l : Meant(l[k], o, s, b)
      /\ o[f] \in Streams /\ f # Listen
  <2>1. f # Listen
    BY FS_CardinalityType, InputsAssumption DEF Fds, InputsAssumption, Listen
  <2> QED BY <2>1 DEF Served
<1>2. PICK i \in DOMAIN l : l[i].fd = f
  BY DEF Served
<1>3. Without(l2, l, f)
  BY <1>1, <1>2, Unregistered
<1> HIDE DEF l2
<1>4. /\ l2 \in Seq(Callback) /\ Once(l2)
      /\ \A k \in DOMAIN l2 : l2[k].fd # f /\ \E j \in DOMAIN l : l2[k] = l[j]
      /\ \A j \in DOMAIN l : l[j].fd # f => \E k \in DOMAIN l2 : l2[k] = l[j]
  BY <1>3, Zenon DEF Without
<1>5. o2 \in [Fds -> Streams \cup {Nothing}] /\ o2[f] = Nothing /\ \A g \in Fds : g # f => o2[g] = o[g]
  BY <1>1
<1>6. s2 \in [Streams -> Stream] /\ \A y \in Streams : y # o[f] => s2[y] = s[y]
  <2> DEFINE y == o[f]
  <2>1. y \in Streams /\ s[y] \in Stream
    BY <1>1
  <2> HIDE DEF y
  <2>2. [s[y] EXCEPT !.state = how] \in Stream
    BY <2>1 DEF Stream
  <2>3. [s EXCEPT ![y].state = how] \in [Streams -> Stream]
    BY <1>1, <2>1, <2>2
  <2>4. \A z \in Streams : z # y => [s EXCEPT ![y].state = how][z] = s[z]
    BY <1>1, <2>1
  <2> QED BY <2>3, <2>4 DEF y
<1>7. /\ b2 \in [1 .. MAX_SERVED -> Buffer]
      /\ \A x \in 1 .. MAX_SERVED : (b[x].fd # f => b2[x] = b[x]) /\ (b2[x].fd < 0 => b2[x] = FreeBuf)
  <2>1. FreeBuf \in Buffer
    BY InputsAssumption DEF FreeBuf, Buffer, InputsAssumption
  <2> QED BY <1>1, <2>1 DEF Served
<1>8. \A g \in Fds : g # f /\ o[g] # Nothing => o[g] # o[f]
  BY DEF Served
<1> HIDE DEF o2, s2, l2
<1>9. ASSUME NEW k \in DOMAIN l2 PROVE Meant(l2[k], o2, s2, b2)
  <2>1. PICK j \in DOMAIN l : l2[k] = l[j]
    BY <1>4
  <2>2. Meant(l[j], o, s, b) /\ l[j].fd # f
    BY <1>1, <1>4, <2>1
  <2>3. l[j].fd \in Fds => o2[l[j].fd] = o[l[j].fd]
    BY <1>5, <2>2
  <2>4. l[j].fd \in Fds /\ o[l[j].fd] \in Conns => s2[o2[l[j].fd]] = s[o[l[j].fd]]
    BY <1>6, <1>8, <2>2, <2>3, InputsAssumption DEF Streams, InputsAssumption
  <2> QED BY <1>7, <2>1, <2>2, <2>3, <2>4 DEF Meant
<1>10. \A g \in Fds : o2[g] # Nothing => s2[o2[g]].state = "open"
  <2> SUFFICES ASSUME NEW g \in Fds, o2[g] # Nothing PROVE s2[o2[g]].state = "open"
    OBVIOUS
  <2>1. g # f /\ o2[g] = o[g] /\ o[g] # o[f] /\ o[g] \in Streams
    BY <1>1, <1>5, <1>8
  <2> QED BY <1>6, <2>1 DEF Served
<1>11. \A g \in Fds : o2[g] # Nothing => \E k \in DOMAIN l2 : l2[k].fd = g
  <2> SUFFICES ASSUME NEW g \in Fds, o2[g] # Nothing PROVE \E k \in DOMAIN l2 : l2[k].fd = g
    OBVIOUS
  <2>1. g # f /\ o2[g] = o[g]
    BY <1>5
  <2>2. PICK j \in DOMAIN l : l[j].fd = g
    BY <2>1 DEF Served
  <2> QED BY <1>4, <2>1, <2>2
<1>12. \A g, h \in Fds : o2[g] = o2[h] /\ o2[g] # Nothing => g = h
  BY <1>5 DEF Served
<1>13. Served(o2, s2, l2, b2)
  BY <1>4, <1>5, <1>6, <1>7, <1>9, <1>10, <1>11, <1>12 DEF Served
<1> QED BY <1>13 DEF o2, s2, l2

\* What was read and answered: a handler got all that was read from its pipe, and the end
\* with nothing left; a connection got no answer, or one that fits what it sent.
Answers == {"busy", "toomuch", "result", "io"}
Answered(x, r) ==
  /\ x.state = "done" => \/ r = <<"busy">>
                         \/ r = <<"result">> /\ x.ended
                         \/ r = <<"toomuch">> /\ (~x.ended \/ x.sent >= MAX_DATA)
                         \/ r = <<>> /\ (x.sent >= MAX_DATA \/ (x.closed /\ ~x.ended))
  /\ x.state = "failed" => r \in {<<>>, <<"io">>}
  /\ x.state \notin {"done", "failed"} => r = <<>>
\* Each handler, and each connection, of the streams s was told what is due.
GotAll(x, h) ==
  /\ h.data = x.read /\ h.ends = IF x.state = "done" THEN 1 ELSE 0
  /\ x.state = "done" => x.ended /\ x.read = x.sent
ReadSome(x) == x.read <= x.sent /\ (x.state \in {"none", "new", "waiting"} => x.read = 0)
Told(s, h, r) ==
  /\ h \in [Pipes -> [data : Nat, ends : Nat]] /\ r \in [Conns -> Seq(Answers)]
  /\ \A x \in Streams : ReadSome(s[x])
  /\ \A p \in Pipes : GotAll(s[p], h[p])
  /\ \A c \in Conns : Answered(s[c], r[c])

\* One stream changes, with what its handler or its client was told.
LEMMA PipeTold ==
  ASSUME NEW s \in [Streams -> Stream], NEW h, NEW r, Told(s, h, r),
         NEW p \in Pipes, NEW y, ReadSome(y), NEW g \in [data : Nat, ends : Nat], GotAll(y, g)
  PROVE  Told([s EXCEPT ![p] = y], [h EXCEPT ![p] = g], r)
<1>1. p \in Streams /\ p \notin Conns
  BY InputsAssumption DEF Streams, InputsAssumption
<1>2. /\ h \in [Pipes -> [data : Nat, ends : Nat]]
      /\ [h EXCEPT ![p] = g] \in [Pipes -> [data : Nat, ends : Nat]]
  BY DEF Told
<1> DEFINE t == [s EXCEPT ![p] = y]
           k == [h EXCEPT ![p] = g]
<1>3. t[p] = y /\ k[p] = g /\ (\A x \in Streams : x # p => t[x] = s[x]) /\ \A x \in Pipes : x # p => k[x] = h[x]
  BY <1>1, <1>2
<1> HIDE DEF t, k
<1>4. \A x \in Streams : ReadSome(t[x])
  BY <1>3 DEF Told
<1>5. \A x \in Pipes : GotAll(t[x], k[x])
  BY <1>3 DEF Told, Streams
<1>6. \A c \in Conns : Answered(t[c], r[c])
  BY <1>1, <1>3 DEF Told, Streams
<1>7. Told(t, k, r)
  BY <1>2, <1>4, <1>5, <1>6 DEF Told, k
<1> QED BY <1>7 DEF t, k

\* The same for a connection and its answers.
LEMMA ConnTold ==
  ASSUME NEW s \in [Streams -> Stream], NEW h, NEW r, Told(s, h, r),
         NEW c \in Conns, NEW y, ReadSome(y), NEW a \in Seq(Answers), Answered(y, a)
  PROVE  Told([s EXCEPT ![c] = y], h, [r EXCEPT ![c] = a])
<1>1. c \in Streams /\ c \notin Pipes
  BY InputsAssumption DEF Streams, InputsAssumption
<1>2. r \in [Conns -> Seq(Answers)] /\ [r EXCEPT ![c] = a] \in [Conns -> Seq(Answers)]
  BY DEF Told
<1> DEFINE t == [s EXCEPT ![c] = y]
           k == [r EXCEPT ![c] = a]
<1>3. t[c] = y /\ k[c] = a /\ (\A x \in Streams : x # c => t[x] = s[x]) /\ \A x \in Conns : x # c => k[x] = r[x]
  BY <1>1, <1>2
<1> HIDE DEF t, k
<1>4. \A x \in Streams : ReadSome(t[x])
  BY <1>3 DEF Told
<1>5. \A x \in Pipes : GotAll(t[x], h[x])
  BY <1>1, <1>3 DEF Told, Streams
<1>6. \A x \in Conns : Answered(t[x], k[x])
  BY <1>3 DEF Told, Streams
<1>7. Told(t, h, k)
  BY <1>2, <1>4, <1>5, <1>6 DEF Told, k
<1> QED BY <1>7 DEF t, k

\* The invariant: also where the loop stands is registered.
InputsInv ==
  /\ Served(open, streams, input_fds, bufs) /\ Told(streams, handled, replied)
  /\ rfds \subseteq Fds \cup {Listen}
  /\ next # -1 => \E k \in DOMAIN input_fds : input_fds[k].fd = next

\* In the beginning there is only the listening socket.
LEMMA InputsInvInit == InputsInit => InputsInv
<1> SUFFICES ASSUME InputsInit PROVE InputsInv
  OBVIOUS
<1> USE DEF InputsInit
<1>1. input_fds = <<Entry(Listen, "connection_attempt", Nothing)>>
  OBVIOUS
<1>2. /\ input_fds \in Seq(Callback) /\ DOMAIN input_fds = {1}
      /\ input_fds[1] = Entry(Listen, "connection_attempt", Nothing)
  <2>1. Entry(Listen, "connection_attempt", Nothing) \in Callback
    BY DEF Callback, Entry
  <2> QED BY <1>1, <2>1
<1>3. PICK used \in InUse :
         streams = [st \in Streams |-> [sent |-> 0, read |-> 0, ended |-> FALSE, closed |-> FALSE,
                                        state |-> IF st \in used THEN "new" ELSE "none"]]
  OBVIOUS
<1>4. \A x \in Streams : /\ streams[x] \in Stream /\ streams[x].read = 0 /\ streams[x].sent = 0
                         /\ streams[x].state \in {"none", "new"}
  BY <1>3 DEF Stream
<1>5. streams \in [Streams -> Stream]
  BY <1>3, <1>4
<1>6. bufs \in [1 .. MAX_SERVED -> Buffer] /\ \A x \in 1 .. MAX_SERVED : bufs[x] = FreeBuf
  <2>1. FreeBuf \in Buffer
    BY InputsAssumption DEF FreeBuf, Buffer, InputsAssumption
  <2> QED BY <2>1
<1>7. Once(input_fds) /\ \A k \in DOMAIN input_fds : Meant(input_fds[k], open, streams, bufs)
  BY <1>2 DEF Once, Meant
<1>8. open \in [Fds -> Streams \cup {Nothing}] /\ \A f \in Fds : open[f] = Nothing
  OBVIOUS
<1>9. Served(open, streams, input_fds, bufs)
  BY <1>2, <1>5, <1>6, <1>7, <1>8 DEF Served
<1>10. Told(streams, handled, replied)
  <2>1. handled \in [Pipes -> [data : Nat, ends : Nat]] /\ replied \in [Conns -> Seq(Answers)]
    OBVIOUS
  <2>2. \A c \in Conns : Answered(streams[c], replied[c])
    BY <1>4 DEF Answered, Streams
  <2>3. \A p \in Pipes : handled[p].data = 0 /\ handled[p].ends = 0
    OBVIOUS
  <2> QED BY <1>4, <2>1, <2>2, <2>3 DEF Told, GotAll, ReadSome, Streams
<1> QED BY <1>9, <1>10 DEF InputsInv

\* The entry looked at is that of its descriptor, and the next one is another.
LEMMA AdvanceToOther ==
  ASSUME InputsInv, next # -1, Advance(next)
  PROVE  /\ rfds' \subseteq Fds \cup {Listen}
         /\ next' # -1 => next' # next /\ \E k \in DOMAIN input_fds : input_fds[k].fd = next'
<1> DEFINE k == CHOOSE n \in DOMAIN input_fds : input_fds[n].fd = next
<1>1. k \in DOMAIN input_fds /\ input_fds[k].fd = next
  BY DEF InputsInv
<1>2. /\ input_fds \in Seq(Callback) /\ Once(input_fds) /\ rfds \subseteq Fds \cup {Listen}
  BY DEF InputsInv, Served
<1>3. IF k < Len(input_fds) THEN next' = input_fds[k + 1].fd /\ rfds' = rfds
      ELSE next' = -1 /\ rfds' = {}
  BY Zenon DEF Advance
<1> HIDE DEF k
<1>4. CASE k < Len(input_fds)
  <2>1. k + 1 \in DOMAIN input_fds /\ k + 1 # k
    BY <1>1, <1>2, <1>4
  <2>2. input_fds[k + 1].fd # next
    BY <1>1, <1>2, <2>1 DEF Once
  <2> QED BY <1>2, <1>3, <1>4, <2>1, <2>2
<1>5. CASE ~(k < Len(input_fds))
  BY <1>3, <1>5
<1> QED BY <1>4, <1>5

\* What the loop looks at is registered.
LEMMA EntryAt ==
  ASSUME InputsInv, next # -1
  PROVE  /\ At(next).fd = next /\ Meant(At(next), open, streams, bufs)
         /\ \E k \in DOMAIN input_fds : input_fds[k] = At(next)
<1> DEFINE k == CHOOSE n \in DOMAIN input_fds : input_fds[n].fd = next
<1>1. k \in DOMAIN input_fds /\ input_fds[k].fd = next
  BY DEF InputsInv
<1>2. At(next) = input_fds[k]
  BY Zenon DEF At
<1> HIDE DEF k
<1> QED BY <1>1, <1>2 DEF InputsInv, Served

\* One stream changes where nothing but its client or its program sees it.
LEMMA StreamMoves ==
  ASSUME InputsInv, NEW st \in Streams, NEW y \in Stream, streams' = [streams EXCEPT ![st] = y],
         streams[st].state \in {"new", "waiting", "open"},
         y.state = streams[st].state \/ (streams[st].state = "new" /\ y.state = "waiting"),
         y.read = streams[st].read, y.sent >= streams[st].sent,
         UNCHANGED <<open, input_fds, bufs, rfds, next, handled, replied>>
  PROVE  InputsInv'
<1>1. /\ UNCHANGED open /\ UNCHANGED input_fds /\ UNCHANGED bufs /\ UNCHANGED rfds
      /\ UNCHANGED next /\ UNCHANGED handled /\ UNCHANGED replied
  OBVIOUS
<1>2. /\ streams \in [Streams -> Stream] /\ open \in [Fds -> Streams \cup {Nothing}]
      /\ streams[st] \in Stream
  BY DEF InputsInv, Served
<1>3. streams' \in [Streams -> Stream] /\ streams'[st] = y /\ \A x \in Streams : x # st => streams'[x] = streams[x]
  BY <1>2
<1>4. Served(open, streams', input_fds, bufs)
  <2>1. \A f \in Fds : open[f] # Nothing => streams[open[f]].state = "open" /\ open[f] \in Streams
    BY <1>2 DEF InputsInv, Served
  <2>2. \A f \in Fds : open[f] # Nothing =>
           streams'[open[f]].state = streams[open[f]].state /\ streams'[open[f]].read = streams[open[f]].read
    BY <1>2, <1>3, <2>1
  <2>3. Served(open, streams, input_fds, bufs) /\ streams' \in [Streams -> Stream]
    BY <1>3 DEF InputsInv
  <2> QED BY <2>2, <2>3, StreamsChange
<1>5. Told(streams', handled, replied)
  <2>1. \A x \in Streams : streams[x] \in Stream /\ streams'[x] \in Stream
    BY <1>2, <1>3
  <2>2. \A x \in Streams : ReadSome(streams'[x])
    <3>1. ReadSome(streams[st])
      BY DEF InputsInv, Told
    <3>2. ReadSome(y)
      BY <1>2, <3>1 DEF ReadSome, Stream
    <3> QED BY <1>3, <3>2 DEF InputsInv, Told
  <2>3. \A p \in Pipes : GotAll(streams'[p], handled[p])
    <3> SUFFICES ASSUME NEW p \in Pipes PROVE GotAll(streams'[p], handled[p])
      OBVIOUS
    <3>1. GotAll(streams[p], handled[p]) /\ p \in Streams
      BY DEF InputsInv, Told, Streams
    <3>2. CASE p = st
      <4>1. y.state # "done" /\ streams[st].state # "done"
        OBVIOUS
      <4> QED BY <1>3, <3>1, <3>2, <4>1 DEF GotAll
    <3>3. CASE p # st
      BY <1>3, <3>1, <3>3
    <3> QED BY <3>2, <3>3
  <2>4. \A c \in Conns : Answered(streams'[c], replied[c])
    <3> SUFFICES ASSUME NEW c \in Conns PROVE Answered(streams'[c], replied[c])
      OBVIOUS
    <3>1. Answered(streams[c], replied[c]) /\ c \in Streams
      BY DEF InputsInv, Told, Streams
    <3>2. CASE c = st
      <4>1. y.state \notin {"done", "failed"} /\ streams[st].state \notin {"done", "failed"}
        OBVIOUS
      <4> QED BY <1>3, <3>1, <3>2, <4>1 DEF Answered
    <3>3. CASE c # st
      BY <1>3, <3>1, <3>3
    <3> QED BY <3>2, <3>3
  <2> QED BY <2>2, <2>3, <2>4 DEF InputsInv, Told
<1> QED BY <1>1, <1>4, <1>5 DEF InputsInv

\* Data, ends, clients and their leaving arrive.
LEMMA StreamSends ==
  ASSUME InputsInv, NEW st \in Streams,
         Send(st) \/ End(st) \/ (st \in Conns /\ (Connect(st) \/ Hangup(st)))
  PROVE  InputsInv'
<1>1. streams \in [Streams -> Stream] /\ streams[st] \in Stream
  BY DEF InputsInv, Served
<1>2. CASE Send(st)
  <2> DEFINE y == [streams[st] EXCEPT !.sent = streams[st].sent + 1]
  <2>1. streams' = [streams EXCEPT ![st] = y]
    BY <1>2 DEF Send
  <2>2. streams[st].sent + 1 \in Nat
    BY <1>1 DEF Stream
  <2>3. /\ y \in Stream /\ y.read = streams[st].read /\ y.state = streams[st].state
        /\ y.sent >= streams[st].sent
    BY <1>1, <2>2 DEF Stream
  <2>4. /\ streams[st].state \in {"new", "waiting", "open"}
        /\ UNCHANGED <<open, input_fds, bufs, rfds, next, handled, replied>>
    BY <1>2 DEF Send
  <2> HIDE DEF y
  <2> QED BY <2>1, <2>3, <2>4, StreamMoves
<1>3. CASE End(st)
  <2> DEFINE y == [streams[st] EXCEPT !.ended = TRUE]
  <2>1. streams' = [streams EXCEPT ![st] = y]
    BY <1>3 DEF End
  <2>0. y \in Stream
    BY <1>1 DEF Stream
  <2>4. y.read = streams[st].read /\ y.state = streams[st].state /\ y.sent = streams[st].sent
    BY <1>1 DEF Stream
  <2>2. /\ y \in Stream /\ y.read = streams[st].read /\ y.state = streams[st].state
        /\ y.sent >= streams[st].sent
    <3> HIDE DEF y
    <3> QED BY <2>0, <2>4 DEF Stream
  <2>3. /\ streams[st].state \in {"new", "waiting", "open"}
        /\ UNCHANGED <<open, input_fds, bufs, rfds, next, handled, replied>>
    BY <1>3 DEF End
  <2> HIDE DEF y
  <2> QED BY <2>1, <2>2, <2>3, StreamMoves
<1>4. CASE Connect(st)
  <2> DEFINE y == [streams[st] EXCEPT !.state = "waiting"]
  <2>1. streams' = [streams EXCEPT ![st] = y]
    BY <1>4 DEF Connect
  <2>2. /\ y \in Stream /\ y.read = streams[st].read /\ y.state = "waiting"
        /\ y.sent >= streams[st].sent
    BY <1>1 DEF Stream
  <2>3. /\ streams[st].state = "new"
        /\ UNCHANGED <<open, input_fds, bufs, rfds, next, handled, replied>>
    BY <1>4 DEF Connect
  <2> HIDE DEF y
  <2> QED BY <2>1, <2>2, <2>3, StreamMoves
<1>5. CASE Hangup(st)
  <2> DEFINE y == [streams[st] EXCEPT !.closed = TRUE]
  <2>1. streams' = [streams EXCEPT ![st] = y]
    BY <1>5 DEF Hangup
  <2>0. y \in Stream
    BY <1>1 DEF Stream
  <2>4. y.read = streams[st].read /\ y.state = streams[st].state /\ y.sent = streams[st].sent
    BY <1>1 DEF Stream
  <2>2. /\ y \in Stream /\ y.read = streams[st].read /\ y.state = streams[st].state
        /\ y.sent >= streams[st].sent
    <3> HIDE DEF y
    <3> QED BY <2>0, <2>4 DEF Stream
  <2>3. /\ streams[st].state \in {"new", "waiting", "open"}
        /\ UNCHANGED <<open, input_fds, bufs, rfds, next, handled, replied>>
    BY <1>5 DEF Hangup
  <2> HIDE DEF y
  <2> QED BY <2>1, <2>2, <2>3, StreamMoves
<1> QED BY <1>2, <1>3, <1>4, <1>5

\* mainloop_select starts with the first entry.
LEMMA SelectReturns ==
  ASSUME InputsInv, mainloop_select
  PROVE  InputsInv'
<1>1. input_fds \in Seq(Callback)
  BY DEF InputsInv, Served
<1>2. rfds' \subseteq Fds \cup {Listen}
  <2>1. \A k \in DOMAIN input_fds : input_fds[k].fd \in Fds \cup {Listen}
    <3> SUFFICES ASSUME NEW k \in DOMAIN input_fds PROVE input_fds[k].fd \in Fds \cup {Listen}
      OBVIOUS
    <3>1. input_fds[k] \in Callback
      BY <1>1
    <3> QED BY <3>1 DEF Callback
  <2> QED BY <2>1 DEF mainloop_select
<1>3. 1 \in DOMAIN input_fds
  BY <1>1 DEF mainloop_select
<1>4. /\ next' = input_fds[1].fd /\ UNCHANGED open /\ UNCHANGED streams /\ UNCHANGED input_fds
      /\ UNCHANGED bufs /\ UNCHANGED handled /\ UNCHANGED replied
  BY DEF mainloop_select
<1> QED BY <1>2, <1>3, <1>4 DEF InputsInv

\* One that is not readable is passed.
LEMMA DescriptorSkipped ==
  ASSUME InputsInv, Skip
  PROVE  InputsInv'
<1>1. /\ rfds' \subseteq Fds \cup {Listen}
      /\ next' # -1 => \E k \in DOMAIN input_fds : input_fds[k].fd = next'
  BY AdvanceToOther DEF Skip
<1> QED BY <1>1 DEF InputsInv, Skip

\* What starting a program, if there is one to start, does to the streams.
StreamsStarted(news) ==
  [x \in Streams |-> IF x \in news THEN [streams[x] EXCEPT !.state = "open"] ELSE streams[x]]

\* A program is started by mainloop_popen_bgread or by a handler.
LEMMA ProgramStarts ==
  ASSUME InputsInv, NEW news \in News
  PROVE  /\ Served(Started(news).open, StreamsStarted(news), Started(news).fds, bufs)
         /\ \A k \in DOMAIN input_fds :
              \E n \in DOMAIN Started(news).fds : Started(news).fds[n] = input_fds[k]
         /\ \A f \in Fds : open[f] # Nothing => Started(news).open[f] = open[f]
         /\ Told(StreamsStarted(news), handled, replied)
         /\ \A f \in Fds : open[f] \notin news
<1>1. streams \in [Streams -> Stream]
  BY DEF InputsInv, Served
<1>2. CASE news = {}
  <2>1. StreamsStarted(news) = streams
    BY <1>1, <1>2 DEF StreamsStarted
  <2>2. Started(news).open = open /\ Started(news).fds = input_fds
    BY <1>2 DEF Started
  <2> QED BY <1>2, <2>1, <2>2 DEF InputsInv
<1>3. CASE news # {}
  <2>1. PICK p \in Pipes : streams[p].state = "new" /\ news = {p}
    BY <1>3 DEF News
  <2> DEFINE fd == FreeFd(open)
  <2>2. fd \in Fds /\ open[fd] = Nothing
    BY FreeFdFree, InputsAssumption DEF InputsInv, Served
  <2>3. (CHOOSE x \in news : TRUE) = p
    BY <2>1
  <2>4. /\ Started(news).open = [open EXCEPT ![fd] = p]
        /\ Started(news).fds = mainloop_register_input_fd(input_fds, Entry(fd, "process_pipe", p))
    BY <1>3, <2>3 DEF Started
  <2> HIDE DEF fd
  <2> DEFINE s2 == [streams EXCEPT ![p].state = "open"]
  <2>5. StreamsStarted(news) = s2
    BY <1>1, <2>1 DEF StreamsStarted
  <2>6. Served([open EXCEPT ![fd] = p], s2,
               mainloop_register_input_fd(input_fds, Entry(fd, "process_pipe", p)), bufs)
    BY <2>1, <2>2, PipeOpens DEF InputsInv
  <2>7. \A k \in DOMAIN input_fds :
              \E n \in DOMAIN Started(news).fds : Started(news).fds[n] = input_fds[k]
    <3>1. input_fds \in Seq(Callback)
      BY DEF InputsInv, Served
    <3> DEFINE e == Entry(fd, "process_pipe", p)
    <3>2. \A k \in DOMAIN input_fds : \E n \in DOMAIN Append(input_fds, e) : Append(input_fds, e)[n] = input_fds[k]
      <4> HIDE DEF e
      <4> SUFFICES ASSUME NEW k \in DOMAIN input_fds
                   PROVE  k \in DOMAIN Append(input_fds, e) /\ Append(input_fds, e)[k] = input_fds[k]
        OBVIOUS
      <4> QED BY <3>1
    <3>3. Started(news).fds = Append(input_fds, e) \/ Started(news).fds = input_fds
      BY <2>4 DEF mainloop_register_input_fd
    <3> HIDE DEF e
    <3> QED BY <3>2, <3>3
  <2>8. p \in Streams /\ streams[p] \in Stream
    BY <1>1, <2>1 DEF Streams
  <2>10. Told(s2, handled, replied)
    <3> DEFINE y == [streams[p] EXCEPT !.state = "open"]
               g == handled[p]
    <3>1. s2 = [streams EXCEPT ![p] = y]
      OBVIOUS
    <3>2. handled \in [Pipes -> [data : Nat, ends : Nat]] /\ GotAll(streams[p], g) /\ ReadSome(streams[p])
      BY <2>8 DEF InputsInv, Told
    <3>3. handled = [handled EXCEPT ![p] = g] /\ g \in [data : Nat, ends : Nat]
      BY <3>2
    <3>4. y \in Stream /\ GotAll(y, g) /\ ReadSome(y)
      BY <2>1, <2>8, <3>2 DEF Stream, GotAll, ReadSome
    <3> HIDE DEF y, g, s2
    <3>5. Told([streams EXCEPT ![p] = y], [handled EXCEPT ![p] = g], replied)
      BY <1>1, <3>3, <3>4, PipeTold DEF InputsInv
    <3> QED BY <3>1, <3>3, <3>5
  <2> HIDE DEF s2
  <2>11. \A f \in Fds : open[f] \notin news
    BY <2>1, <2>8, InputsAssumption DEF InputsInv, Served, InputsAssumption
  <2>12. \A f \in Fds : open[f] # Nothing => Started(news).open[f] = open[f]
    BY <2>2, <2>4 DEF InputsInv, Served
  <2> QED BY <2>4, <2>5, <2>6, <2>7, <2>10, <2>11, <2>12
<1> QED BY <1>2, <1>3

\* mainloop_popen_bgread keeps the invariant.
LEMMA ProgramStarted ==
  ASSUME InputsInv, mainloop_popen_bgread
  PROVE  InputsInv'
<1>1. PICK news \in News :
        /\ open' = Started(news).open /\ input_fds' = Started(news).fds
        /\ streams' = StreamsAfter(news, Nothing, 0, "open")
  BY DEF mainloop_popen_bgread
<1>2. streams' = StreamsStarted(news)
  BY <1>1, InputsAssumption DEF StreamsAfter, StreamsStarted, InputsAssumption
<1>3. /\ next = -1 /\ UNCHANGED bufs /\ UNCHANGED rfds /\ UNCHANGED next /\ UNCHANGED handled /\ UNCHANGED replied
  BY DEF mainloop_popen_bgread
<1> QED BY <1>1, <1>2, <1>3, ProgramStarts DEF InputsInv

\* A callback unregisters its descriptor and closes it, with the buffer of a connection, after
\* it may have started a program.
LEMMA CallbackCloses ==
  ASSUME InputsInv, next \in Fds, NEW st \in Streams, open[next] = st, NEW news \in News,
         NEW how \in {"done", "failed"}, Close(news, st, how),
         bufs' = bufs \/ \E x \in 1 .. MAX_SERVED : bufs[x].fd = next /\ bufs' = [bufs EXCEPT ![x] = FreeBuf]
  PROVE  /\ Served(open', streams', input_fds', bufs')
         /\ \A k \in DOMAIN input_fds : input_fds[k].fd # next =>
              \E n \in DOMAIN input_fds' : input_fds'[n] = input_fds[k]
         /\ StreamsStarted(news) \in [Streams -> Stream] /\ Told(StreamsStarted(news), handled, replied)
         /\ streams' = [StreamsStarted(news) EXCEPT ![st] = [streams[st] EXCEPT !.state = how]]
<1> DEFINE s1 == StreamsStarted(news)
           o1 == Started(news).open
           l1 == Started(news).fds
           y == [streams[st] EXCEPT !.state = how]
<1>1. st # Nothing /\ streams[st] \in Stream
  BY InputsAssumption DEF InputsAssumption, InputsInv, Served
<1>2. /\ st \notin news /\ Served(o1, s1, l1, bufs) /\ Told(s1, handled, replied) /\ o1[next] = st
      /\ \A k \in DOMAIN input_fds : \E n \in DOMAIN l1 : l1[n] = input_fds[k]
  BY <1>1, ProgramStarts
<1>3. /\ open' = [o1 EXCEPT ![next] = Nothing] /\ input_fds' = mainloop_unregister_input_fd(l1, next)
      /\ streams' = StreamsAfter(news, st, streams[st].read, how)
  BY DEF Close
<1> HIDE DEF o1, l1
<1>4. s1[st] = streams[st] /\ s1 \in [Streams -> Stream]
  <2>1. s1[st] = streams[st]
    BY <1>2 DEF StreamsStarted
  <2> QED BY <1>2, <2>1 DEF Served
<1>5. streams' = [s1 EXCEPT ![st] = y]
  <2>1. [[streams[st] EXCEPT !.read = streams[st].read] EXCEPT !.state = how] = y
    BY <1>1 DEF Stream
  <2>2. \A x \in Streams : StreamsAfter(news, st, streams[st].read, how)[x]
           = IF x = st THEN y ELSE s1[x]
    BY <1>2, <2>1 DEF StreamsAfter, StreamsStarted
  <2>3. StreamsAfter(news, st, streams[st].read, how)
          = [x \in Streams |-> StreamsAfter(news, st, streams[st].read, how)[x]]
    BY DEF StreamsAfter
  <2> HIDE DEF y, s1
  <2> QED BY <1>3, <1>4, <2>2, <2>3
<1>6. streams' = [s1 EXCEPT ![o1[next]].state = how]
  BY <1>2, <1>4, <1>5
<1>7. Served(open', streams', input_fds', bufs')
  <2>1. \/ bufs' = bufs
        \/ \E x \in 1 .. MAX_SERVED : bufs[x].fd = next /\ bufs' = [bufs EXCEPT ![x] = FreeBuf]
    OBVIOUS
  <2> HIDE DEF s1
  <2>2. Served(o1, s1, l1, bufs) /\ next \in Fds /\ o1[next] # Nothing
    BY <1>1, <1>2
  <2>3. Served([o1 EXCEPT ![next] = Nothing], [s1 EXCEPT ![o1[next]].state = how],
               mainloop_unregister_input_fd(l1, next), bufs')
    BY <2>1, <2>2, StreamCloses
  <2> QED BY <1>3, <1>6, <2>3
<1>8. ASSUME NEW k \in DOMAIN input_fds, input_fds[k].fd # next
      PROVE  \E n \in DOMAIN input_fds' : input_fds'[n] = input_fds[k]
  <2>1. PICK i \in DOMAIN l1 : l1[i].fd = next
    BY <1>1, <1>2 DEF Served
  <2>2. Without(input_fds', l1, next)
    BY <1>2, <1>3, <2>1, Unregistered DEF Served
  <2>3. PICK j \in DOMAIN l1 : l1[j] = input_fds[k]
    BY <1>2
  <2>4. PICK n \in DOMAIN input_fds' : input_fds'[n] = l1[j]
    BY <1>8, <2>2, <2>3 DEF Without
  <2> QED BY <2>3, <2>4
<1> QED BY <1>2, <1>4, <1>5, <1>7, <1>8 DEF s1, y

\* process_pipe: data to its handler, or the end and the descriptor closed, after the
\* handler may have started a program.
LEMMA PipeServed ==
  ASSUME InputsInv, process_pipe
  PROVE  InputsInv'
<1> DEFINE st == open[next]
<1>1. /\ next # -1 /\ next \in rfds /\ At(next).fn = "process_pipe" /\ Advance(next)
      /\ UNCHANGED bufs /\ UNCHANGED replied
  <2>1. next \in Fds \cup {Listen} /\ -1 \notin Fds \cup {Listen}
    BY FS_CardinalityType, InputsAssumption DEF InputsInv, process_pipe, Fds, Listen, InputsAssumption
  <2> QED BY <2>1 DEF process_pipe
<1>2. /\ next \in Fds /\ st \in Pipes /\ At(next).data = st /\ At(next).fd = next
  BY <1>1, EntryAt DEF Meant, Entry
<1>3. /\ rfds' \subseteq Fds \cup {Listen}
      /\ next' # -1 => next' # next /\ \E k \in DOMAIN input_fds : input_fds[k].fd = next'
  BY <1>1, AdvanceToOther
<1>4. /\ streams \in [Streams -> Stream] /\ st \in Streams /\ st \notin Conns /\ st # Nothing
      /\ streams[st] \in Stream /\ streams[st].state = "open"
  <2>1. st \in Streams /\ st \notin Conns /\ st # Nothing
    BY <1>2, InputsAssumption DEF Streams, InputsAssumption
  <2>2. streams \in [Streams -> Stream] /\ streams[st].state = "open"
    BY <1>2, <2>1 DEF InputsInv, Served
  <2> HIDE DEF st
  <2> QED BY <2>1, <2>2
<1>5. Left(st) = streams[st].sent - streams[st].read
  BY DEF Left
<1>6. /\ handled \in [Pipes -> [data : Nat, ends : Nat]]
      /\ handled[st].data = streams[st].read /\ handled[st].ends = 0 /\ ReadSome(streams[st])
  BY <1>2, <1>4 DEF InputsInv, Told, GotAll
<1>7. CASE /\ Left(st) > 0
           /\ \E news \in News :
                /\ open' = Started(news).open /\ input_fds' = Started(news).fds
                /\ streams' = StreamsAfter(news, st, streams[st].sent, "open")
           /\ handled' = [handled EXCEPT ![st].data = @ + Left(st)]
  <2>1. PICK news \in News :
           /\ open' = Started(news).open /\ input_fds' = Started(news).fds
           /\ streams' = StreamsAfter(news, st, streams[st].sent, "open")
    BY <1>7
  <2> HIDE DEF st
  <2> DEFINE s1 == StreamsStarted(news)
             y == [[streams[st] EXCEPT !.read = streams[st].sent] EXCEPT !.state = "open"]
  <2>2. st \notin news /\ Served(open', s1, input_fds', bufs) /\ Told(s1, handled, replied)
    BY <1>2, <2>1, ProgramStarts DEF st
  <2>3. \A k \in DOMAIN input_fds : \E n \in DOMAIN input_fds' : input_fds'[n] = input_fds[k]
    BY <2>1, ProgramStarts
  <2>4. s1[st] = streams[st] /\ s1 \in [Streams -> Stream]
    <3>1. s1[st] = streams[st]
      BY <1>4, <2>2 DEF StreamsStarted
    <3> QED BY <2>2, <3>1 DEF Served
  <2>5. streams' = [s1 EXCEPT ![st] = y]
    <3>1. \A x \in Streams : StreamsAfter(news, st, streams[st].sent, "open")[x]
             = IF x = st THEN y ELSE s1[x]
      BY <2>2 DEF StreamsAfter, StreamsStarted
    <3>2. StreamsAfter(news, st, streams[st].sent, "open")
            = [x \in Streams |-> StreamsAfter(news, st, streams[st].sent, "open")[x]]
      BY DEF StreamsAfter
    <3> HIDE DEF y, s1
    <3> QED BY <2>1, <2>4, <3>1, <3>2
  <2>6. y \in Stream /\ y.read = streams[st].sent /\ y.sent = streams[st].sent /\ y.state = "open"
        /\ y.ended = streams[st].ended
    BY <1>4 DEF Stream
  <2> HIDE DEF y, s1
  <2>7. /\ streams' \in [Streams -> Stream] /\ streams'[st] = y
        /\ \A x \in Streams : x # st => streams'[x] = s1[x]
    BY <1>4, <2>4, <2>5, <2>6
  <2>8. Served(open', streams', input_fds', bufs)
    <3>1. open' \in [Fds -> Streams \cup {Nothing}]
      BY <2>2 DEF Served
    <3>2. ASSUME NEW f \in Fds, open'[f] # Nothing
          PROVE  /\ streams'[open'[f]].state = s1[open'[f]].state
                 /\ open'[f] \in Conns => streams'[open'[f]].read = s1[open'[f]].read
      <4>1. open'[f] \in Streams
        BY <3>1, <3>2
      <4>2. CASE open'[f] = st
        BY <1>4, <2>4, <2>6, <2>7, <4>2
      <4>3. CASE open'[f] # st
        BY <2>7, <4>1, <4>3
      <4> QED BY <4>2, <4>3
    <3> QED BY <2>2, <2>7, <3>2, StreamsChange
  <2>10. Told(streams', handled', replied)
    <3> DEFINE g == [handled[st] EXCEPT !.data = streams[st].sent]
    <3>1. handled[st].data + Left(st) = streams[st].sent /\ streams[st].sent \in Nat
      BY <1>4, <1>5, <1>6 DEF Stream
    <3>2. handled' = [handled EXCEPT ![st] = g]
      BY <1>7, <3>1
    <3>3. g \in [data : Nat, ends : Nat] /\ GotAll(y, g)
      BY <1>2, <1>6, <2>6, <3>1 DEF st, GotAll
    <3>4. ReadSome(y)
      BY <2>6, <3>1 DEF ReadSome
    <3> HIDE DEF g
    <3> QED BY <1>2, <2>2, <2>4, <2>5, <3>2, <3>3, <3>4, PipeTold DEF st
  <2>11. next' # -1 => \E k \in DOMAIN input_fds' : input_fds'[k].fd = next'
    BY <1>3, <2>3
  <2> QED BY <1>1, <1>3, <2>8, <2>10, <2>11 DEF InputsInv
<1>8. ASSUME NEW news \in News, NEW how \in {"done", "failed"}, Close(news, st, how),
             NEW g \in [data : Nat, ends : Nat], handled' = [handled EXCEPT ![st] = g],
             GotAll([streams[st] EXCEPT !.state = how], g)
      PROVE  InputsInv'
  <2> DEFINE s1 == StreamsStarted(news)
             y == [streams[st] EXCEPT !.state = how]
  <2>1. open[next] = st
    OBVIOUS
  <2> HIDE DEF st
  <2>2. /\ Served(open', streams', input_fds', bufs')
        /\ \A k \in DOMAIN input_fds : input_fds[k].fd # next =>
              \E n \in DOMAIN input_fds' : input_fds'[n] = input_fds[k]
        /\ s1 \in [Streams -> Stream] /\ Told(s1, handled, replied)
        /\ streams' = [s1 EXCEPT ![st] = y]
    BY <1>1, <1>2, <1>4, <1>8, <2>1, CallbackCloses
  <2>3. ReadSome(y) /\ GotAll(y, g)
    BY <1>4, <1>6, <1>8 DEF Stream, ReadSome
  <2> HIDE DEF s1, y
  <2>4. Told(streams', handled', replied)
    BY <1>2, <1>8, <2>2, <2>3, PipeTold
  <2>5. next' # -1 => \E k \in DOMAIN input_fds' : input_fds'[k].fd = next'
    BY <1>3, <2>2
  <2> QED BY <1>1, <1>3, <2>2, <2>4, <2>5 DEF InputsInv
<1>9. CASE /\ Left(st) = 0 /\ streams[st].ended
           /\ \E news \in News : Close(news, st, "done")
           /\ handled' = [handled EXCEPT ![st].ends = @ + 1]
  <2>1. PICK news \in News : Close(news, st, "done")
    BY <1>9
  <2> DEFINE g == [handled[st] EXCEPT !.ends = 1]
             y == [streams[st] EXCEPT !.state = "done"]
  <2> HIDE DEF st
  <2>2. handled' = [handled EXCEPT ![st] = g]
    BY <1>6, <1>9
  <2>3. streams[st].read = streams[st].sent
    BY <1>4, <1>5, <1>9 DEF Stream
  <2>4. handled[st] \in [data : Nat, ends : Nat]
    BY <1>2, <1>6 DEF st
  <2>5. g \in [data : Nat, ends : Nat] /\ g.data = handled[st].data /\ g.ends = 1
    BY <2>4
  <2>6. /\ y.state = "done" /\ y.read = streams[st].read /\ y.sent = streams[st].sent
        /\ y.ended = streams[st].ended
    BY <1>4 DEF Stream
  <2> HIDE DEF y, g
  <2>7. GotAll(y, g)
    BY <1>6, <1>9, <2>3, <2>5, <2>6 DEF GotAll
  <2> QED BY <1>8, <2>1, <2>2, <2>5, <2>7 DEF y
<1>10. CASE Close({}, st, "failed") /\ UNCHANGED handled
  <2> DEFINE g == handled[st]
             y == [streams[st] EXCEPT !.state = "failed"]
  <2> HIDE DEF st
  <2>1. g \in [data : Nat, ends : Nat] /\ handled' = [handled EXCEPT ![st] = g]
    BY <1>2, <1>6, <1>10 DEF st
  <2>2. y.state = "failed" /\ y.read = streams[st].read
    BY <1>4 DEF Stream
  <2> HIDE DEF y
  <2>3. GotAll(y, g)
    BY <1>6, <2>2 DEF GotAll
  <2>4. {} \in News
    BY DEF News
  <2> QED BY <1>8, <1>10, <2>1, <2>3, <2>4 DEF y
<1>11. CASE /\ Left(st) = 0 /\ ~streams[st].ended
            /\ UNCHANGED <<open, input_fds, streams, handled>>
  BY <1>1, <1>3, <1>11 DEF InputsInv
<1> QED BY <1>2, <1>7, <1>9, <1>10, <1>11, Zenon DEF process_pipe

\* connection_attempt: a connection gets a free buffer or is told that there is none.
LEMMA ConnAttempted ==
  ASSUME "nomem" \notin InputCalls, InputsInv, connection_attempt
  PROVE  InputsInv'
<1>1. /\ next # -1 /\ next = Listen /\ Advance(next) /\ UNCHANGED handled
  BY DEF connection_attempt, Listen
<1>2. /\ rfds' \subseteq Fds \cup {Listen}
      /\ next' # -1 => next' # next /\ \E k \in DOMAIN input_fds : input_fds[k].fd = next'
  BY <1>1, AdvanceToOther
<1> DEFINE fd == FreeFd(open)
           free == {b \in DOMAIN bufs : bufs[b].fd < 0}
           x == CHOOSE x \in free : \A y \in free : x <= y
<1>3. \/ UNCHANGED <<open, streams, input_fds, bufs, replied>>
      \/ \E c \in Waiting :
           /\ streams' = [streams EXCEPT ![c].state = "failed"]
           /\ UNCHANGED <<open, input_fds, bufs, replied>>
      \/ \E c \in Waiting :
           IF free = {}
           THEN /\ Reply(c, "busy")
                /\ streams' = [streams EXCEPT ![c].state = "done"]
                /\ UNCHANGED <<open, input_fds, bufs>>
           ELSE /\ open' = [open EXCEPT ![fd] = c]
                /\ streams' = [streams EXCEPT ![c].state = "open"]
                /\ input_fds' = mainloop_register_input_fd(input_fds, Entry(fd, "receive_data", x))
                /\ bufs' = [bufs EXCEPT ![x].fd = fd, ![x].data = TRUE]
                /\ UNCHANGED replied
  BY Zenon DEF connection_attempt
<1>4. ASSUME NEW c \in Waiting
      PROVE  /\ c \in Conns /\ c \in Streams /\ streams[c].state = "waiting" /\ streams \in [Streams -> Stream]
             /\ streams[c] \in Stream /\ streams[c].read = 0 /\ replied[c] = <<>> /\ ReadSome(streams[c])
             /\ replied \in [Conns -> Seq(Answers)] /\ \A f \in Fds : open[f] # c
  <2>1. /\ c \in Conns /\ c \in Streams /\ streams[c].state = "waiting" /\ streams \in [Streams -> Stream]
        /\ streams[c] \in Stream /\ streams[c].read = 0 /\ replied[c] = <<>> /\ ReadSome(streams[c])
        /\ replied \in [Conns -> Seq(Answers)]
    BY DEF Waiting, InputsInv, Served, Told, ReadSome, Answered, Streams
  <2>2. \A f \in Fds : open[f] # c
    BY <2>1, InputsAssumption DEF InputsInv, Served, InputsAssumption
  <2> QED BY <2>1, <2>2
<1>5. fd \in Fds /\ open[fd] = Nothing
  BY FreeFdFree, InputsAssumption DEF InputsInv, Served
<1>6. CASE UNCHANGED <<open, streams, input_fds, bufs, replied>>
  BY <1>1, <1>2, <1>6 DEF InputsInv
<1>7. ASSUME NEW c \in Waiting, NEW how \in {"done", "failed"}, NEW a \in Seq(Answers),
             streams' = [streams EXCEPT ![c].state = how], replied' = [replied EXCEPT ![c] = a],
             how = "done" => a = <<"busy">>, how = "failed" => a = <<>>,
             UNCHANGED <<open, input_fds, bufs>>
      PROVE  InputsInv'
  <2> DEFINE y == [streams[c] EXCEPT !.state = how]
  <2>1. /\ streams' = [streams EXCEPT ![c] = y] /\ UNCHANGED open /\ UNCHANGED input_fds /\ UNCHANGED bufs
    BY <1>7
  <2>2. streams[c] \in Stream
    BY <1>4
  <2>3. y \in Stream /\ y.read = streams[c].read /\ y.sent = streams[c].sent /\ y.state = how
    BY <2>2 DEF Stream
  <2> HIDE DEF y
  <2>4. streams' \in [Streams -> Stream] /\ \A z \in Streams : z # c => streams'[z] = streams[z]
    BY <1>4, <2>1, <2>3
  <2>5. ReadSome(y) /\ Answered(y, a)
    BY <1>4, <1>7, <2>3 DEF ReadSome, Answered
  <2>6. Told(streams', handled, replied')
    <3>1. c \in Conns /\ streams \in [Streams -> Stream] /\ Told(streams, handled, replied)
      BY <1>4 DEF InputsInv
    <3>2. Told([streams EXCEPT ![c] = y], handled, [replied EXCEPT ![c] = a])
      BY <2>5, <3>1, ConnTold
    <3> QED BY <1>7, <2>1, <3>2
  <2>7. Served(open, streams', input_fds, bufs)
    <3>1. \A f \in Fds : open[f] # Nothing => streams'[open[f]] = streams[open[f]]
      BY <1>4, <2>4 DEF InputsInv, Served
    <3> QED BY <2>4, <3>1, StreamsChange DEF InputsInv
  <2> QED BY <1>1, <1>2, <2>1, <2>6, <2>7 DEF InputsInv
<1>8. ASSUME NEW c \in Waiting, streams' = [streams EXCEPT ![c].state = "failed"],
             UNCHANGED <<open, input_fds, bufs, replied>>
      PROVE  InputsInv'
  <2>1. replied' = [replied EXCEPT ![c] = <<>>] /\ <<>> \in Seq(Answers)
    BY <1>4, <1>8
  <2> QED BY <1>7, <1>8, <2>1
<1>9. ASSUME NEW c \in Waiting, Reply(c, "busy"), streams' = [streams EXCEPT ![c].state = "done"],
             UNCHANGED <<open, input_fds, bufs>>
      PROVE  InputsInv'
  <2>0. replied[c] = <<>>
    BY <1>4
  <2>1. replied' = [replied EXCEPT ![c] = <<"busy">>]
    BY <1>9, <2>0 DEF Reply
  <2>2. <<"busy">> \in Seq(Answers)
    BY DEF Answers
  <2> QED BY <1>7, <1>9, <2>1, <2>2
<1>10. ASSUME NEW c \in Waiting, free # {}, open' = [open EXCEPT ![fd] = c],
              streams' = [streams EXCEPT ![c].state = "open"],
              input_fds' = mainloop_register_input_fd(input_fds, Entry(fd, "receive_data", x)),
              bufs' = [bufs EXCEPT ![x].fd = fd, ![x].data = TRUE], UNCHANGED replied
       PROVE  InputsInv'
  <2>1. /\ open' = [open EXCEPT ![fd] = c] /\ streams' = [streams EXCEPT ![c].state = "open"]
        /\ input_fds' = mainloop_register_input_fd(input_fds, Entry(fd, "receive_data", x))
        /\ bufs' = [bufs EXCEPT ![x].fd = fd, ![x].data = TRUE] /\ UNCHANGED replied
    BY <1>10
  <2>2. DOMAIN bufs = 1 .. MAX_SERVED
    BY DEF InputsInv, Served
  <2>3. x \in free
    <3>1. free \in SUBSET (1 .. MAX_SERVED)
      BY <2>2
    <3> HIDE DEF free
    <3> QED BY <1>10, <3>1, FreeBufFree, InputsAssumption
  <2>4. x \in 1 .. MAX_SERVED /\ bufs[x].fd < 0
    BY <2>2, <2>3
  <2> HIDE DEF x, free, fd
  <2>5. Served(open', streams', input_fds', bufs')
    BY <1>4, <1>5, <2>1, <2>4, ConnOpens DEF InputsInv
  <2> DEFINE y == [streams[c] EXCEPT !.state = "open"]
  <2>6. streams' = [streams EXCEPT ![c] = y]
    BY <2>1
  <2>7. ReadSome(y) /\ Answered(y, <<>>)
    BY <1>4 DEF Stream, ReadSome, Answered
  <2> HIDE DEF y
  <2>8. replied = [replied EXCEPT ![c] = <<>>]
    BY <1>4
  <2>9. Told(streams', handled, replied')
    <3>1. <<>> \in Seq(Answers)
      OBVIOUS
    <3>2. Told([streams EXCEPT ![c] = y], handled, [replied EXCEPT ![c] = <<>>])
      BY <1>4, <2>7, <3>1, ConnTold DEF InputsInv
    <3> QED BY <2>1, <2>6, <2>8, <3>2
  <2>10. next' # -1 => \E k \in DOMAIN input_fds' : input_fds'[k].fd = next'
    <3>1. input_fds \in Seq(Callback)
      BY DEF InputsInv, Served
    <3> DEFINE e == Entry(fd, "receive_data", x)
    <3>2. \A k \in DOMAIN input_fds : k \in DOMAIN Append(input_fds, e) /\ Append(input_fds, e)[k] = input_fds[k]
      <4> HIDE DEF e
      <4> QED BY <3>1
    <3>3. input_fds' = Append(input_fds, e) \/ input_fds' = input_fds
      BY <2>1 DEF mainloop_register_input_fd
    <3> HIDE DEF e
    <3> QED BY <1>2, <3>2, <3>3
  <2> QED BY <1>1, <1>2, <2>5, <2>9, <2>10 DEF InputsInv
<1> QED BY <1>3, <1>6, <1>8, <1>9, <1>10

\* receive_data: more of a request, or the answer and the connection closed.
LEMMA ConnServed ==
  ASSUME InputsInv, receive_data
  PROVE  InputsInv'
<1> DEFINE c == open[next]
           b == At(next).data
           avail == Left(c) + (IF streams[c].ended THEN 1 ELSE 0)
           room == MAX_DATA - bufs[b].ndata
           n == IF avail < room THEN avail ELSE room
           end == streams[c].ended /\ n = Left(c) + 1
           close_conn(news, how) == Close(news, c, how) /\ bufs' = [bufs EXCEPT ![b] = FreeBuf]
<1>1. /\ next # -1 /\ next \in rfds /\ At(next).fn = "receive_data" /\ Advance(next) /\ UNCHANGED handled
  <2>1. next \in Fds \cup {Listen} /\ -1 \notin Fds \cup {Listen}
    BY FS_CardinalityType, InputsAssumption DEF InputsInv, receive_data, Fds, Listen, InputsAssumption
  <2> QED BY <2>1 DEF receive_data
<1>2. /\ next \in Fds /\ c \in Conns /\ b \in 1 .. MAX_SERVED /\ bufs[b].fd = next
      /\ bufs[b].ndata = streams[c].read
  BY <1>1, EntryAt DEF Meant, Entry
<1>3. /\ rfds' \subseteq Fds \cup {Listen}
      /\ next' # -1 => next' # next /\ \E k \in DOMAIN input_fds : input_fds[k].fd = next'
  BY <1>1, AdvanceToOther
<1>4. /\ c \in Streams /\ c \notin Pipes /\ c # Nothing /\ streams \in [Streams -> Stream]
      /\ streams[c] \in Stream /\ streams[c].state = "open" /\ ReadSome(streams[c])
      /\ replied \in [Conns -> Seq(Answers)] /\ replied[c] = <<>>
  <2>1. c \in Streams /\ c \notin Pipes /\ c # Nothing
    BY <1>2, InputsAssumption DEF Streams, InputsAssumption
  <2>2. streams \in [Streams -> Stream] /\ streams[c].state = "open"
    BY <1>2, <2>1 DEF InputsInv, Served
  <2>3. /\ ReadSome(streams[c]) /\ replied \in [Conns -> Seq(Answers)] /\ Answered(streams[c], replied[c])
    BY <1>2, <2>1 DEF InputsInv, Told
  <2> HIDE DEF c
  <2> QED BY <2>1, <2>2, <2>3 DEF Answered
<1>5. bufs \in [1 .. MAX_SERVED -> Buffer] /\ bufs[b].ndata \in 0 .. MAX_DATA /\ MAX_DATA \in Nat
  BY <1>2, InputsAssumption DEF InputsInv, Served, Buffer, InputsAssumption
<1>6. /\ Left(c) = streams[c].sent - streams[c].read /\ Left(c) \in Nat /\ streams[c].read \in Nat
      /\ streams[c].sent \in Nat /\ streams[c].ended \in BOOLEAN
  BY <1>4 DEF Left, ReadSome, Stream
<1>7. avail \in Nat /\ room \in Nat /\ n \in Nat /\ n <= avail /\ n <= room /\ (n = avail \/ n = room)
  <2>1. avail \in Nat
    BY <1>6
  <2>2. room \in Nat
    <3> HIDE DEF b
    <3> QED BY <1>5
  <2> HIDE DEF avail, room
  <2> QED BY <2>1, <2>2
<1>8. \/ Reply(c, "io") /\ close_conn({}, "failed")
      \/ avail = 0 /\ room > 0 /\ ~streams[c].closed /\ UNCHANGED <<input_fds, open, bufs, streams, replied>>
      \/ /\ n = 0 /\ (room = 0 \/ streams[c].closed) /\ UNCHANGED replied /\ close_conn({}, "done")
      \/ /\ n > 0 /\ ~end /\ bufs[b].ndata + n + n = MAX_DATA
         /\ Reply(c, "toomuch") /\ close_conn({}, "done")
      \/ /\ n > 0 /\ ~end
         /\ bufs' = [bufs EXCEPT ![b].ndata = @ + n]
         /\ streams' = [streams EXCEPT ![c].read = @ + n]
         /\ UNCHANGED <<input_fds, open, replied>>
      \/ n > 0 /\ end /\ Reply(c, "result") /\ \E news \in News : close_conn(news, "done")
  BY Zenon DEF receive_data
<1> HIDE DEF n, room, avail
<1>9. ASSUME NEW news \in News, NEW how \in {"done", "failed"}, close_conn(news, how),
             NEW a \in Seq(Answers), replied' = [replied EXCEPT ![c] = a],
             Answered([streams[c] EXCEPT !.state = how], a)
      PROVE  InputsInv'
  <2> DEFINE s1 == StreamsStarted(news)
             y == [streams[c] EXCEPT !.state = how]
  <2>1. open[next] = c
    OBVIOUS
  <2>2. /\ Close(news, c, how)
        /\ bufs' = bufs \/ \E x \in 1 .. MAX_SERVED : bufs[x].fd = next /\ bufs' = [bufs EXCEPT ![x] = FreeBuf]
    BY <1>2, <1>9
  <2> HIDE DEF c, close_conn, b
  <2>7. Close(news, c, how)
    BY <2>2
  <2>8. bufs' = bufs \/ \E x \in 1 .. MAX_SERVED : bufs[x].fd = next /\ bufs' = [bufs EXCEPT ![x] = FreeBuf]
    BY <2>2
  <2>0. next \in Fds /\ c \in Streams
    BY <1>2, <1>4
  <2>3. /\ Served(open', streams', input_fds', bufs')
        /\ \A k \in DOMAIN input_fds : input_fds[k].fd # next =>
              \E m \in DOMAIN input_fds' : input_fds'[m] = input_fds[k]
        /\ s1 \in [Streams -> Stream] /\ Told(s1, handled, replied)
        /\ streams' = [s1 EXCEPT ![c] = y]
    BY <2>0, <2>1, <2>7, <2>8, CallbackCloses
  <2>4. ReadSome(y) /\ Answered(y, a)
    BY <1>4, <1>9 DEF Stream, ReadSome
  <2> HIDE DEF s1, y
  <2>5. Told(streams', handled', replied')
    BY <1>1, <1>2, <1>9, <2>3, <2>4, ConnTold
  <2>6. next' # -1 => \E k \in DOMAIN input_fds' : input_fds'[k].fd = next'
    BY <1>3, <2>3
  <2> QED BY <1>3, <2>3, <2>5, <2>6 DEF InputsInv
<1>10. CASE avail = 0 /\ room > 0 /\ ~streams[c].closed /\ UNCHANGED <<input_fds, open, bufs, streams, replied>>
  BY <1>1, <1>3, <1>10 DEF InputsInv
<1>11. CASE /\ n > 0 /\ ~end
            /\ bufs' = [bufs EXCEPT ![b].ndata = @ + n]
            /\ streams' = [streams EXCEPT ![c].read = @ + n]
            /\ UNCHANGED <<input_fds, open, replied>>
  <2>1. n <= Left(c)
    BY <1>6, <1>7, <1>11 DEF avail
  <2> DEFINE y == [streams[c] EXCEPT !.read = streams[c].read + n]
             g == [bufs[b] EXCEPT !.ndata = bufs[b].ndata + n]
  <2>2. streams' = [streams EXCEPT ![c] = y] /\ bufs' = [bufs EXCEPT ![b] = g]
    BY <1>11
  <2>3. streams[c].read + n \in Nat /\ streams[c].read + n <= streams[c].sent
        /\ bufs[b].ndata + n \in 0 .. MAX_DATA
    <3>1. n <= MAX_DATA - bufs[b].ndata /\ n \in Nat
      BY <1>7 DEF room
    <3>2. bufs[b].ndata + n \in 0 .. MAX_DATA
      BY <1>5, <3>1
    <3>3. streams[c].read + n <= streams[c].sent
      BY <1>6, <2>1, <3>1
    <3> QED BY <1>6, <3>1, <3>2, <3>3
  <2>4. /\ y \in Stream /\ y.read = streams[c].read + n /\ y.sent = streams[c].sent
        /\ y.ended = streams[c].ended /\ y.state = "open"
    BY <1>4, <2>3 DEF Stream
  <2>5. g \in Buffer /\ g.fd = next /\ g.ndata = streams[c].read + n
    <3>1. bufs[b] \in Buffer
      BY <1>2, <1>5
    <3> QED BY <1>2, <2>3, <3>1 DEF Buffer
  <2> HIDE DEF y, g
  <2>6. Told(streams', handled', replied')
    <3>1. ReadSome(y) /\ Answered(y, <<>>)
      BY <2>3, <2>4 DEF ReadSome, Answered, Answers
    <3>2. <<>> \in Seq(Answers) /\ replied = [replied EXCEPT ![c] = <<>>]
      BY <1>4
    <3>3. Told([streams EXCEPT ![c] = y], handled, [replied EXCEPT ![c] = <<>>])
      BY <1>2, <1>4, <3>1, <3>2, ConnTold DEF InputsInv
    <3> QED BY <1>1, <1>11, <2>2, <3>2, <3>3
  <2>7. /\ streams' \in [Streams -> Stream] /\ streams'[c] = y
        /\ \A x \in Streams : x # c => streams'[x] = streams[x]
    BY <1>4, <2>2, <2>4
  <2>8. /\ bufs' \in [1 .. MAX_SERVED -> Buffer] /\ bufs'[b] = g
        /\ \A x \in 1 .. MAX_SERVED : x # b => bufs'[x] = bufs[x]
    BY <1>2, <1>5, <2>2, <2>5
  <2>9. next >= 1 /\ next \in Int
    BY <1>2, FS_CardinalityType, InputsAssumption DEF Fds, InputsAssumption
  <2>10. UNCHANGED open /\ UNCHANGED input_fds
    BY <1>11
  <2>11. ASSUME NEW k \in DOMAIN input_fds PROVE Meant(input_fds[k], open, streams', bufs')
    <3> DEFINE e == input_fds[k]
    <3>0. Meant(e, open, streams, bufs) /\ (e.fd = next => e = At(next))
      BY <1>1, EntryAt DEF InputsInv, Served, Once
    <3> SUFFICES Meant(e, open, streams', bufs')
      OBVIOUS
    <3> HIDE DEF e
    <3>1. CASE e.fd \in Fds /\ open[e.fd] \in Conns
      <4>1. CASE e.fd = next
        <5>1. e = Entry(next, "receive_data", b)
          <6>1. e = At(next)
            BY <3>0, <4>1
          <6>2. Meant(e, open, streams, bufs) /\ open[e.fd] \notin Pipes /\ e.fd # Listen
            BY <1>2, <1>4, <2>9, <3>0, <4>1 DEF Listen
          <6> QED BY <1>2, <4>1, <6>1, <6>2 DEF Meant, Entry
        <5>2. bufs'[b].fd = next /\ bufs'[b].ndata = streams'[c].read
          BY <2>4, <2>5, <2>7, <2>8
        <5> QED BY <1>2, <5>1, <5>2 DEF Meant, Entry
      <4>2. CASE e.fd # next
        <5>1. open[e.fd] # c /\ open[e.fd] \in Streams
          BY <1>2, <1>4, <3>1, <4>2, InputsAssumption DEF InputsInv, Served, Streams, InputsAssumption
        <5>2. \A x \in 1 .. MAX_SERVED : bufs[x].fd = e.fd => bufs'[x] = bufs[x]
          BY <1>2, <2>8, <4>2
        <5> QED BY <2>7, <3>0, <5>1, <5>2 DEF Meant
      <4> QED BY <4>1, <4>2
    <3>2. CASE ~(e.fd \in Fds /\ open[e.fd] \in Conns)
      BY <3>0, <3>2 DEF Meant
    <3> QED BY <3>1, <3>2
  <2>12. \A f \in Fds : open[f] # Nothing => streams'[open[f]].state = "open"
    <3> SUFFICES ASSUME NEW f \in Fds, open[f] # Nothing PROVE streams'[open[f]].state = "open"
      OBVIOUS
    <3>1. open[f] \in Streams /\ streams[open[f]].state = "open"
      BY DEF InputsInv, Served
    <3> QED BY <2>4, <2>7, <3>1
  <2>13. \A x \in 1 .. MAX_SERVED : bufs'[x].fd < 0 => bufs'[x] = FreeBuf
    BY <2>5, <2>8, <2>9 DEF InputsInv, Served
  <2> HIDE DEF c, b
  <2>14. Served(open', streams', input_fds', bufs')
    BY <2>7, <2>8, <2>10, <2>11, <2>12, <2>13 DEF InputsInv, Served
  <2> QED BY <1>3, <2>6, <2>10, <2>14 DEF InputsInv
<1>12. ASSUME NEW how \in {"done", "failed"}
       PROVE  LET y == [streams[c] EXCEPT !.state = how]
              IN /\ y.state = how /\ y.sent = streams[c].sent /\ y.ended = streams[c].ended
                 /\ y.closed = streams[c].closed
  <2> HIDE DEF c
  <2> QED BY <1>4 DEF Stream
<1>13. {} \in News
  BY DEF News
<1>14. CASE Reply(c, "io") /\ close_conn({}, "failed")
  <2>1. replied' = [replied EXCEPT ![c] = <<"io">>]
    BY <1>4, <1>14 DEF Reply
  <2>2. <<"io">> \in Seq(Answers)
    BY DEF Answers
  <2>3. Answered([streams[c] EXCEPT !.state = "failed"], <<"io">>)
    BY <1>12 DEF Answered
  <2> HIDE DEF c, b, close_conn
  <2> QED BY <1>9, <1>13, <1>14, <2>1, <2>2, <2>3
<1>15. CASE n = 0 /\ (room = 0 \/ streams[c].closed) /\ UNCHANGED replied /\ close_conn({}, "done")
  <2>1. replied' = [replied EXCEPT ![c] = <<>>]
    BY <1>2, <1>4, <1>15
  <2>2. <<>> \in Seq(Answers)
    OBVIOUS
  <2>3. streams[c].sent >= MAX_DATA \/ (streams[c].closed /\ ~streams[c].ended)
    <3>1. CASE room = 0
      BY <1>2, <1>4, <1>5, <1>6, <3>1 DEF room, ReadSome
    <3>2. CASE room # 0
      <4>1. avail = 0 /\ streams[c].closed
        BY <1>7, <1>15, <3>2
      <4> QED BY <1>6, <4>1 DEF avail
    <3> QED BY <3>1, <3>2
  <2>4. Answered([streams[c] EXCEPT !.state = "done"], <<>>)
    BY <1>12, <2>3 DEF Answered
  <2> HIDE DEF c, b, close_conn
  <2> QED BY <1>9, <1>13, <1>15, <2>1, <2>2, <2>4
<1>16. CASE /\ n > 0 /\ ~end /\ bufs[b].ndata + n + n = MAX_DATA
            /\ Reply(c, "toomuch") /\ close_conn({}, "done")
  <2>1. replied' = [replied EXCEPT ![c] = <<"toomuch">>]
    BY <1>4, <1>16 DEF Reply
  <2>2. <<"toomuch">> \in Seq(Answers)
    BY DEF Answers
  <2>3. ~streams[c].ended
    <3> SUFFICES ASSUME streams[c].ended PROVE FALSE
      OBVIOUS
    <3>1. n > 0 /\ n # Left(c) + 1 /\ bufs[b].ndata + n + n = MAX_DATA
      BY <1>16
    <3>2. avail = Left(c) + 1
      BY DEF avail
    <3>3. n = MAX_DATA - bufs[b].ndata
      BY <1>7, <3>1, <3>2 DEF room
    <3> QED BY <1>5, <1>7, <3>1, <3>3
  <2>4. Answered([streams[c] EXCEPT !.state = "done"], <<"toomuch">>)
    BY <1>12, <2>3 DEF Answered
  <2> HIDE DEF c, b, close_conn
  <2> QED BY <1>9, <1>13, <1>16, <2>1, <2>2, <2>4
<1>17. ASSUME NEW news \in News, n > 0, end, Reply(c, "result"), close_conn(news, "done")
       PROVE  InputsInv'
  <2>1. replied' = [replied EXCEPT ![c] = <<"result">>]
    BY <1>4, <1>17 DEF Reply
  <2>2. <<"result">> \in Seq(Answers)
    BY DEF Answers
  <2>3. Answered([streams[c] EXCEPT !.state = "done"], <<"result">>)
    BY <1>12, <1>17 DEF Answered
  <2> HIDE DEF c, b, close_conn
  <2> QED BY <1>9, <1>17, <2>1, <2>2, <2>3
<1> HIDE DEF c, b, close_conn, end
<1> QED BY <1>8, <1>10, <1>11, <1>14, <1>15, <1>16, <1>17

\* Every step keeps the invariant while memory does not fail in connection_attempt.
LEMMA InputsStep ==
  ASSUME "nomem" \notin InputCalls, InputsInv, [InputsNext]_inputs
  PROVE  InputsInv'
<1>1. CASE UNCHANGED inputs
  BY <1>1 DEF inputs, InputsInv
<1>2. ASSUME NEW c \in Conns, Connect(c) \/ Hangup(c) PROVE InputsInv'
  BY <1>2, StreamSends DEF Streams
<1> QED BY <1>1, <1>2, StreamSends, SelectReturns, DescriptorSkipped, ProgramStarted, PipeServed,
           ConnAttempted, ConnServed DEF InputsNext

\* StreamsKept follows.
LEMMA InputsInvKept == InputsInv => StreamsKept
<1> SUFFICES ASSUME InputsInv PROVE StreamsKept
  OBVIOUS
<1>1. Served(open, streams, input_fds, bufs) /\ Told(streams, handled, replied)
  BY DEF InputsInv
<1>2. InputsTypeOK
  <2>1. next # -1 => next \in Fds \cup {Listen}
    <3> SUFFICES ASSUME next # -1 PROVE next \in Fds \cup {Listen}
      OBVIOUS
    <3>1. PICK k \in DOMAIN input_fds : input_fds[k].fd = next
      BY DEF InputsInv
    <3>2. input_fds[k] \in Callback
      BY <1>1 DEF Served
    <3> QED BY <3>1, <3>2 DEF Callback
  <2>2. \A b \in DOMAIN bufs : bufs[b].ndata \in 0 .. MAX_DATA
    BY <1>1 DEF Served, Buffer
  <2> QED BY <1>1, <2>1, <2>2 DEF InputsInv, InputsTypeOK, Served
<1>3. ASSUME NEW fd \in Fds
      PROVE  LET ks == find_input_fd(input_fds, fd)
             IN /\ open[fd] = Nothing => ks = {}
                /\ open[fd] \in Pipes => {input_fds[k] : k \in ks} = {Entry(fd, "process_pipe", open[fd])}
                /\ open[fd] \in Conns => \E b \in DOMAIN bufs :
                     bufs[b].fd = fd /\ {input_fds[k] : k \in ks} = {Entry(fd, "receive_data", b)}
                /\ Cardinality(ks) <= 1
  <2> DEFINE ks == find_input_fd(input_fds, fd)
  <2>1. fd # Listen
    BY FS_CardinalityType, InputsAssumption DEF Fds, InputsAssumption, Listen
  <2>2. CASE open[fd] = Nothing
    <3>1. \A k \in DOMAIN input_fds : input_fds[k].fd # fd
      BY <1>1, <2>1, <2>2, InputsAssumption DEF Served, Meant, Entry, Streams, InputsAssumption
    <3>2. ks = {}
      BY <3>1 DEF find_input_fd
    <3> QED BY <2>2, <3>2, FS_EmptySet, InputsAssumption DEF Streams, InputsAssumption
  <2>3. CASE open[fd] # Nothing
    <3>1. PICK i \in DOMAIN input_fds : input_fds[i].fd = fd
      BY <1>1, <2>3 DEF Served
    <3>2. ks = {i}
      BY <1>1, <3>1 DEF find_input_fd, Served, Once
    <3>3. Cardinality(ks) <= 1 /\ {input_fds[k] : k \in ks} = {input_fds[i]}
      BY <3>2, FS_Singleton
    <3>4. Meant(input_fds[i], open, streams, bufs) /\ DOMAIN bufs = 1 .. MAX_SERVED
      BY <1>1 DEF Served
    <3>5. open[fd] \in Pipes => input_fds[i] = Entry(fd, "process_pipe", open[fd])
      BY <2>1, <3>1, <3>4, InputsAssumption DEF Meant, Entry, InputsAssumption
    <3>6. open[fd] \in Conns => \E b \in DOMAIN bufs :
             bufs[b].fd = fd /\ input_fds[i] = Entry(fd, "receive_data", b)
      BY <2>1, <3>1, <3>4, InputsAssumption DEF Meant, Entry, InputsAssumption
    <3> HIDE DEF ks
    <3>7. open[fd] \in Pipes => {input_fds[k] : k \in ks} = {Entry(fd, "process_pipe", open[fd])}
      BY <3>3, <3>5
    <3>8. open[fd] \in Conns => \E b \in DOMAIN bufs :
             bufs[b].fd = fd /\ {input_fds[k] : k \in ks} = {Entry(fd, "receive_data", b)}
      BY <3>3, <3>6
    <3> QED BY <2>3, <3>3, <3>7, <3>8 DEF ks
  <2> QED BY <2>2, <2>3
<1>4. next # -1 => find_input_fd(input_fds, next) # {}
  BY DEF InputsInv, find_input_fd
<1>5. ASSUME NEW p \in Pipes
      PROVE  /\ handled[p].data = streams[p].read
             /\ handled[p].ends = (IF streams[p].state = "done" THEN 1 ELSE 0)
             /\ streams[p].state = "done" => streams[p].ended /\ Left(p) = 0
  <2>1. streams[p] \in Stream
    BY <1>1 DEF Served, Streams
  <2> QED BY <1>1, <2>1 DEF Told, GotAll, Left, Stream
<1>6. \A b \in DOMAIN bufs : bufs[b].fd < 0 => bufs[b] = FreeBuf
  BY <1>1 DEF Served
<1>7. ASSUME NEW c \in Conns
      PROVE  LET x == streams[c]
                 big == x.sent >= MAX_DATA
             IN CASE x.state = "done" -> \/ replied[c] = <<"busy">>
                                         \/ replied[c] = <<"result">> /\ x.ended
                                         \/ replied[c] = <<"toomuch">> /\ (~x.ended \/ big)
                                         \/ replied[c] = <<>> /\ (big \/ (x.closed /\ ~x.ended))
                  [] x.state = "failed" -> replied[c] \in {<<>>, <<"io">>}
                  [] OTHER -> replied[c] = <<>>
  BY <1>1 DEF Told, Answered
<1> QED BY <1>2, <1>3, <1>4, <1>5, <1>6, <1>7, Zenon DEF StreamsKept

\* StreamsKept, for every number of programs and connections that come and go, in every
\* order in which descriptors are closed and used again, and whatever the size of the
\* buffers and their number, while memory does not fail in connection_attempt.
THEOREM StreamsAlwaysKept ==
  ASSUME "nomem" \notin InputCalls
  PROVE  InputsSpec => []StreamsKept
<1>1. InputsInv /\ [InputsNext]_inputs => InputsInv'
  BY InputsStep
<1> QED BY <1>1, InputsInvInit, InputsInvKept, PTL DEF InputsSpec

-----------------------------------------------------------------------------
(* Moments and timeouts *)

USE TimeValAssumption

\* Seconds outweigh microseconds.
LEMMA Multiples ==
  ASSUME NEW S \in Nat \ {0}, NEW a \in Int, NEW b \in Int, a > b
  PROVE  a * S >= b * S + S
<1>1. a - (b + 1) \in Nat
  OBVIOUS
<1>2. ASSUME NEW n \in Nat PROVE n * S >= 0
  OBVIOUS
<1>3. (a - (b + 1)) * S >= 0
  BY <1>1, <1>2
<1>4. (a - (b + 1)) * S = a * S - (b * S + S)
  OBVIOUS
<1> QED BY <1>3, <1>4

\* Division and remainder.
LEMMA DivMod ==
  ASSUME NEW S \in Nat \ {0}, NEW c \in Nat
  PROVE  /\ c \div S \in Nat /\ c % S \in 0 .. S - 1
         /\ c = (c \div S) * S + (c % S)
OBVIOUS

\* The remainder of a number that is smaller than the divisor.
LEMMA SmallMod ==
  ASSUME NEW n \in Nat, NEW c \in Nat, c < n
  PROVE  c % n = c
OBVIOUS

\* gettime splits a moment, and Usecs puts it together.
LEMMA Gettime ==
  ASSUME NEW c \in Nat
  PROVE  gettime(c) \in Timeval /\ Usecs(gettime(c)) = c
BY DivMod DEF gettime, Timeval, Usecs

\* Carrying over keeps the microseconds.
LEMMA CarryExact ==
  ASSUME NEW sec \in Nat, NEW usec \in Nat
  PROVE  /\ Carry(sec, usec) \in Timeval
         /\ Usecs(Carry(sec, usec)) = sec * USECS_IN_SEC + usec
<1> DEFINE S == USECS_IN_SEC
<1>1. /\ usec \div S \in Nat /\ usec % S \in 0 .. S - 1
      /\ usec = (usec \div S) * S + (usec % S)
  BY DivMod
<1>2. (sec + (usec \div S)) * S = sec * S + (usec \div S) * S
  BY <1>1
<1> QED BY <1>1, <1>2 DEF Carry, Timeval, Usecs

\* TIMEVAL_LATER compares the moments.
LEMMA LaterExact ==
  ASSUME NEW a \in Timeval, NEW b \in Timeval
  PROVE  Later(a, b) <=> Usecs(a) > Usecs(b)
<1> DEFINE S == USECS_IN_SEC
<1>1. /\ a.sec \in Nat /\ b.sec \in Nat
      /\ a.usec \in 0 .. S - 1 /\ b.usec \in 0 .. S - 1
  BY DEF Timeval
<1>2. CASE a.sec > b.sec
  <2>1. a.sec * S >= b.sec * S + S
    BY <1>1, <1>2, Multiples
  <2> QED BY <1>1, <1>2, <2>1 DEF Later, Usecs
<1>3. CASE a.sec = b.sec
  BY <1>1, <1>3 DEF Later, Usecs
<1>4. CASE b.sec > a.sec
  <2>1. b.sec * S >= a.sec * S + S
    BY <1>1, <1>4, Multiples
  <2> QED BY <1>1, <1>4, <2>1 DEF Later, Usecs
<1> QED BY <1>1, <1>2, <1>3, <1>4

\* libmainloop_get_timeout subtracts, with or without a borrow.
LEMMA TimeoutIsLeft ==
  ASSUME NEW when \in Timeval, NEW tv \in Timeval
  PROVE  IF Usecs(when) > Usecs(tv)
         THEN /\ get_timeout(when, tv) \in Timeval
              /\ Usecs(get_timeout(when, tv)) = Usecs(when) - Usecs(tv)
         ELSE get_timeout(when, tv) = NoTimeout
<1> DEFINE S == USECS_IN_SEC
<1>1. /\ when.sec \in Nat /\ tv.sec \in Nat
      /\ when.usec \in 0 .. S - 1 /\ tv.usec \in 0 .. S - 1
  BY DEF Timeval
<1>2. CASE ~Later(when, tv)
  BY <1>2, LaterExact DEF get_timeout
<1>3. CASE Later(when, tv) /\ when.usec < tv.usec
  <2>1. /\ (when.sec - 1) - tv.sec \in Nat
        /\ (when.usec + S) - tv.usec \in Nat
    BY <1>1, <1>3 DEF Later
  <2>2. ((when.sec - 1) - tv.sec) * S = (when.sec * S - S) - tv.sec * S
    BY <1>1
  <2>3. get_timeout(when, tv) = Carry((when.sec - 1) - tv.sec, (when.usec + S) - tv.usec)
    BY <1>3 DEF get_timeout
  <2>4. /\ get_timeout(when, tv) \in Timeval
        /\ Usecs(get_timeout(when, tv)) =
             ((when.sec - 1) - tv.sec) * S + ((when.usec + S) - tv.usec)
    BY <2>1, <2>3, CarryExact
  <2> QED BY <1>1, <1>3, <2>2, <2>4, LaterExact DEF Usecs
<1>4. CASE Later(when, tv) /\ ~(when.usec < tv.usec)
  <2>1. when.sec - tv.sec \in Nat /\ when.usec - tv.usec \in Nat
    BY <1>1, <1>4 DEF Later
  <2>2. (when.sec - tv.sec) * S = when.sec * S - tv.sec * S
    BY <1>1
  <2>3. get_timeout(when, tv) = Carry(when.sec - tv.sec, when.usec - tv.usec)
    BY <1>4 DEF get_timeout
  <2>4. /\ get_timeout(when, tv) \in Timeval
        /\ Usecs(get_timeout(when, tv)) =
             (when.sec - tv.sec) * S + (when.usec - tv.usec)
    BY <2>1, <2>3, CarryExact
  <2> QED BY <1>1, <1>4, <2>2, <2>4, LaterExact DEF Usecs
<1> QED BY <1>2, <1>3, <1>4

\* add_to_current_time adds, while the product fits.
LEMMA DueIsLater ==
  ASSUME NEW tv \in Timeval, NEW msecs \in Nat
  PROVE  /\ add_to_current_time(tv, msecs) \in Timeval
         /\ msecs * USECS_IN_MSEC < UINT =>
              Usecs(add_to_current_time(tv, msecs)) = Usecs(tv) + msecs * USECS_IN_MSEC
<1> DEFINE p == (msecs * USECS_IN_MSEC) % UINT
<1>1. msecs * USECS_IN_MSEC \in Nat
  OBVIOUS
<1>2. p \in Nat /\ (msecs * USECS_IN_MSEC < UINT => p = msecs * USECS_IN_MSEC)
  <2>1. p \in 0 .. UINT - 1
    BY <1>1, DivMod
  <2>2. ASSUME msecs * USECS_IN_MSEC < UINT PROVE p = msecs * USECS_IN_MSEC
    BY <1>1, <2>2, SmallMod
  <2> QED BY <2>1, <2>2
<1>3. tv.sec \in Nat /\ tv.usec \in Nat
  BY DEF Timeval
<1>4. add_to_current_time(tv, msecs) = Carry(tv.sec, tv.usec + p)
  BY DEF add_to_current_time
<1> HIDE DEF p
<1>5. tv.usec + p \in Nat
  BY <1>2, <1>3
<1>6. /\ add_to_current_time(tv, msecs) \in Timeval
      /\ Usecs(add_to_current_time(tv, msecs)) = tv.sec * USECS_IN_SEC + (tv.usec + p)
  BY <1>3, <1>4, <1>5, CarryExact
<1> QED BY <1>2, <1>3, <1>6 DEF Usecs

\* Setting a timer and computing the timeout again keep both exact.
LEMMA TimerStep == TimerExact /\ [Next]_vars => TimerExact'
<1> SUFFICES ASSUME TimerExact, [Next]_vars PROVE TimerExact'
  OBVIOUS
<1> USE DEF TimerExact, TypeOK
<1>1. ASSUME NEW msecs \in 0 .. MaxMsecs, Set(msecs) PROVE TimerExact'
  <2>1. msecs \in Nat /\ gettime(clock) \in Timeval /\ Usecs(gettime(clock)) = clock
    BY Gettime
  <2>2. /\ due' \in Timeval
        /\ msecs * USECS_IN_MSEC < UINT => Usecs(due') = clock + msecs * USECS_IN_MSEC
    BY <1>1, <2>1, DueIsLater DEF Set
  <2>3. timeout' = get_timeout(due', gettime(clock)) /\ clock' = clock
        /\ set' = [at |-> clock, msecs |-> msecs]
    BY <1>1 DEF Set
  <2>4. DueExact'
    BY <2>2, <2>3 DEF DueExact, Usecs
  <2>5. NoTimeout \notin Timeval
    BY DEF NoTimeout, Timeval
  <2>6. TimeoutExact' /\ timeout' \in Timeval \cup {NoTimeout}
    BY <2>1, <2>2, <2>3, <2>5, TimeoutIsLeft DEF TimeoutExact, Usecs
  <2> QED BY <2>2, <2>3, <2>4, <2>6
<1>2. ASSUME NEW c \in 0 .. MaxClock, Rearm(c) PROVE TimerExact'
  <2>1. c \in Nat /\ gettime(c) \in Timeval /\ Usecs(gettime(c)) = c
    BY Gettime
  <2>2. timeout' = get_timeout(due, gettime(c)) /\ clock' = c /\ due' = due /\ set' = set
    BY <1>2 DEF Rearm
  <2>3. DueExact'
    BY <2>2 DEF DueExact, Usecs
  <2>4. NoTimeout \notin Timeval
    BY DEF NoTimeout, Timeval
  <2>5. TimeoutExact' /\ timeout' \in Timeval \cup {NoTimeout}
    BY <2>1, <2>2, <2>4, TimeoutIsLeft DEF TimeoutExact, Usecs
  <2> QED BY <2>1, <2>2, <2>3, <2>5
<1>3. CASE UNCHANGED vars
  BY <1>3 DEF vars, DueExact, TimeoutExact, Usecs
<1> QED BY <1>1, <1>2, <1>3 DEF Next

\* TimerExact, for every clock and every width: a timeout is the time that is left, and a
\* timer is due when it was asked for, while its product fits a uint.
THEOREM TimersExact == Spec => []TimerExact
<1>1. Init => TimerExact
  <2> SUFFICES ASSUME Init PROVE TimerExact
    OBVIOUS
  <2>1. due \in Timeval /\ Usecs(due) = 0
    BY Gettime DEF Init
  <2> QED BY <2>1 DEF Init, TimerExact, TypeOK, DueExact, TimeoutExact
<1> QED BY <1>1, TimerStep, PTL DEF Spec
=============================================================================
