--------------------------- MODULE MainLoop_proof ---------------------------
(***************************************************************************)
(* The loop never sleeps over a timer, a signal or a dead child, and the   *)
(* queue of timers is sorted, for any timers, children and clock.          *)
(*                                                                         *)
(* What wakes the loop for a timer is passed on from the interval timer to *)
(* the pending signal, to the flag, and to mainloop_check_signals, which   *)
(* has a do_timer_set before it: Alarmed says that one of them always has  *)
(* it.  Notified says the same of SIGCHLD, and Quiet that a blocked signal *)
(* raises no flag between the test of the flags and pselect.               *)
(*                                                                         *)
(* Its timers implement TimerService: RunningOK says that a handler is at  *)
(* work until it returns, so that handlers are not nested.                 *)
(***************************************************************************)
EXTENDS MCMainLoop, SequenceTheorems, TLAPS

\* A do_timer_set is still to come before the program can sleep.
Rearming == pc \in {"time", "fire", "handler", "insert", "set", "itimer"}

Alarmed == queue # <<>> => had_tmr \/ itimer # Off \/ "ALRM" \in pending \/ Rearming

Quiet == pc \in {"enter", "pselect"} =>
           ~had_tmr /\ ~wait_sig /\ ~usr2_sig /\ kill_sig # "TERM"

Notified == \A c \in Children :
              child[c] = "zombie" => wait_sig \/ "CHLD" \in pending \/ pc = "reap"

\* The timer that timer_do_set is about to put in the queue is not there.
ArgOK == pc = "insert" \/ (pc \in {"set", "itimer"} /\ back = "insert") =>
           arg.timer \in Timers /\ ~timer_is_set(arg.timer)

IInv == TypeOK /\ Alarmed /\ Quiet /\ Notified /\ ArgOK /\ QueueSorted

\* A sequence without its i-th element.
LEMMA RemoveAtFacts ==
  ASSUME NEW S, NEW q \in Seq(S), NEW i \in 1 .. Len(q)
  PROVE  /\ RemoveAt(q, i) \in Seq(S)
         /\ Len(RemoveAt(q, i)) = Len(q) - 1
         /\ \A j \in 1 .. Len(q) - 1 :
              RemoveAt(q, i)[j] = IF j < i THEN q[j] ELSE q[j + 1]
<1> DEFINE l == SubSeq(q, 1, i - 1)
           r == SubSeq(q, i + 1, Len(q))
<1>0. Len(q) \in Nat
  BY LenProperties
<1>1. /\ l \in Seq(S) /\ Len(l) = i - 1
      /\ \A j \in 1 .. i - 1 : l[j] = q[j]
  BY SubSeqProperties, LenProperties
<1>2. /\ r \in Seq(S) /\ Len(r) = Len(q) - i
      /\ \A j \in 1 .. Len(q) - i : r[j] = q[i + j]
  <2>1. Len(q) \in Nat /\ i + 1 \in 1 .. Len(q) + 1 /\ Len(q) \in (i + 1) - 1 .. Len(q)
    BY LenProperties
  <2>2. /\ r \in Seq(S) /\ Len(r) = Len(q) - (i + 1) + 1
        /\ \A j \in 1 .. Len(q) - (i + 1) + 1 : r[j] = q[(i + 1) + j - 1]
    BY <2>1, SubSeqProperties
  <2> QED BY <2>1, <2>2
<1>3. RemoveAt(q, i) = l \o r
  BY DEF RemoveAt
<1> HIDE DEF l, r
<1>4. /\ l \o r \in Seq(S) /\ Len(l \o r) = Len(q) - 1
      /\ \A j \in 1 .. Len(l) + Len(r) : (l \o r)[j] = IF j <= Len(l) THEN l[j] ELSE r[j - Len(l)]
  <2>1. Len(l) + Len(r) = Len(q) - 1
    BY <1>0, <1>1, <1>2
  <2> QED BY <1>1, <1>2, <2>1, ConcatProperties
<1>5. ASSUME NEW j \in 1 .. Len(q) - 1
      PROVE  (l \o r)[j] = IF j < i THEN q[j] ELSE q[j + 1]
  <2>1. CASE j < i
    <3>1. j \in 1 .. Len(l) + Len(r) /\ j <= Len(l) /\ j \in 1 .. i - 1
      BY <1>0, <1>1, <1>2, <2>1
    <3> QED BY <1>1, <1>4, <2>1, <3>1
  <2>2. CASE ~(j < i)
    <3>0. j \in 1 .. Len(l) + Len(r) /\ ~(j <= Len(l))
      BY <1>0, <1>1, <1>2, <2>2
    <3>1. (l \o r)[j] = r[j - (i - 1)]
      BY <1>1, <1>4, <3>0
    <3>2. j - (i - 1) \in 1 .. Len(q) - i /\ i + (j - (i - 1)) = j + 1
      BY <1>0, <2>2
    <3>3. r[j - (i - 1)] = q[i + (j - (i - 1))]
      BY <1>2, <3>2
    <3> QED BY <2>2, <3>1, <3>2, <3>3
  <2> QED BY <2>1, <2>2
<1> QED BY <1>3, <1>4, <1>5

\* The queue with a timer put at position i.
LEMMA InsertAtFacts ==
  ASSUME queue \in Seq(Timers), NEW i \in 1 .. Len(queue) + 1, NEW e \in Timers
  PROVE  /\ InsertAt(queue, i, e) \in Seq(Timers)
         /\ Len(InsertAt(queue, i, e)) = Len(queue) + 1
         /\ \A j \in 1 .. Len(queue) + 1 :
              InsertAt(queue, i, e)[j] =
                IF j < i THEN queue[j] ELSE IF j = i THEN e ELSE queue[j - 1]
<1> DEFINE l == SubSeq(queue, 1, i - 1)
           m == l \o <<e>>
           r == SubSeq(queue, i, Len(queue))
<1>1. /\ l \in Seq(Timers) /\ Len(l) = i - 1
      /\ \A j \in 1 .. i - 1 : l[j] = queue[j]
  BY SubSeqProperties, LenProperties
<1>2. /\ r \in Seq(Timers) /\ Len(r) = Len(queue) - i + 1
      /\ \A j \in 1 .. Len(queue) - i + 1 : r[j] = queue[i + j - 1]
  BY SubSeqProperties, LenProperties
<1>3. InsertAt(queue, i, e) = m \o r
  BY DEF InsertAt
<1>4. /\ m \in Seq(Timers) /\ Len(m) = i
      /\ \A j \in 1 .. i : m[j] = IF j < i THEN queue[j] ELSE e
  <2> HIDE DEF l
  <2>1. <<e>> \in Seq(Timers) /\ Len(<<e>>) = 1 /\ <<e>>[1] = e
    OBVIOUS
  <2> QED BY <1>1, <2>1, ConcatProperties
<1> HIDE DEF m, r
<1>5. /\ m \o r \in Seq(Timers) /\ Len(m \o r) = Len(queue) + 1
      /\ \A j \in 1 .. Len(m) + Len(r) : (m \o r)[j] = IF j <= Len(m) THEN m[j] ELSE r[j - Len(m)]
  BY <1>4, <1>2, ConcatProperties
<1>6. ASSUME NEW j \in 1 .. Len(queue) + 1
      PROVE  (m \o r)[j] = IF j < i THEN queue[j] ELSE IF j = i THEN e ELSE queue[j - 1]
  <2>0. Len(queue) \in Nat /\ j \in 1 .. Len(m) + Len(r)
    BY <1>2, <1>4, LenProperties
  <2>1. CASE j <= i
    BY <1>4, <1>5, <2>0, <2>1
  <2>2. CASE j > i
    <3>1. (m \o r)[j] = r[j - i]
      BY <1>4, <1>5, <2>0, <2>2
    <3>2. j - i \in 1 .. Len(queue) - i + 1 /\ i + (j - i) - 1 = j - 1
      BY <2>0, <2>2
    <3> QED BY <2>0, <1>2, <2>2, <3>1, <3>2
  <2> QED BY <2>0, <2>1, <2>2
<1> QED BY <1>3, <1>5, <1>6

\* Taking a timer out of the queue leaves a sorted queue without it.
LEMMA UnqueueSorted ==
  ASSUME TypeOK, QueueSorted, NEW t \in Timers, Unqueue(t), when' = when
  PROVE  /\ queue' \in Seq(Timers)
         /\ QueueSorted'
         /\ ~Contains(queue', t)
         /\ \A u \in Timers : Contains(queue', u) => Contains(queue, u)
<1> PICK i \in 1 .. Len(queue) : queue[i] = t /\ queue' = RemoveAt(queue, i)
  BY DEF Unqueue
<1>1. queue \in Seq(Timers) /\ Len(queue) \in Nat
  BY DEF TypeOK
<1>2. /\ queue' \in Seq(Timers)
      /\ Len(queue') = Len(queue) - 1
      /\ \A j \in 1 .. Len(queue) - 1 : queue'[j] = IF j < i THEN queue[j] ELSE queue[j + 1]
  BY <1>1, RemoveAtFacts
<1>3. QueueSorted'
  <2>1. SUFFICES ASSUME NEW j \in 1 .. Len(queue'), NEW k \in 1 .. Len(queue'), j < k
                 PROVE  queue'[j] # queue'[k] /\ when[queue'[j]] <= when[queue'[k]]
    BY DEF QueueSorted
  <2> DEFINE j1 == IF j < i THEN j ELSE j + 1
             k1 == IF k < i THEN k ELSE k + 1
  <2>2. j1 \in 1 .. Len(queue) /\ k1 \in 1 .. Len(queue) /\ j1 < k1
    BY <1>1, <1>2, <2>1
  <2>3. queue'[j] = queue[j1] /\ queue'[k] = queue[k1]
    BY <1>1, <1>2
  <2> HIDE DEF j1, k1
  <2> QED BY <2>2, <2>3 DEF QueueSorted
<1>4. \A j \in 1 .. Len(queue) : j # i => queue[j] # t
  BY <1>1 DEF QueueSorted
<1>0. ASSUME NEW j \in 1 .. Len(queue')
      PROVE  \E k \in 1 .. Len(queue) : k # i /\ queue'[j] = queue[k]
  <2>1. CASE j < i
    <3>1. j \in 1 .. Len(queue) /\ j # i /\ queue'[j] = queue[j]
      BY <1>1, <1>2, <2>1
    <3> QED BY <3>1
  <2>2. CASE ~(j < i)
    <3>1. j + 1 \in 1 .. Len(queue) /\ j + 1 # i /\ queue'[j] = queue[j + 1]
      BY <1>1, <1>2, <2>2
    <3> QED BY <3>1
  <2> QED BY <2>1, <2>2
<1>5. ~Contains(queue', t)
  BY <1>0, <1>4 DEF Contains
<1>6. \A u \in Timers : Contains(queue', u) => Contains(queue, u)
  BY <1>0 DEF Contains
<1> QED BY <1>2, <1>3, <1>5, <1>6

\* TimerInsert puts the timer where it keeps the queue sorted.
LEMMA InsertSorted ==
  ASSUME IInv, TimerInsert
  PROVE  /\ queue' \in Seq(Timers)
         /\ QueueSorted'
<1> DEFINE w == now + arg.msecs
           t == arg.timer
<1> PICK i \in 1 .. Len(queue) + 1 :
      /\ \A j \in 1 .. i - 1 : when[queue[j]] <= w
      /\ i <= Len(queue) => when[queue[i]] > w
      /\ queue' = InsertAt(queue, i, t)
  BY DEF TimerInsert
<1>1. /\ queue \in Seq(Timers) /\ Len(queue) \in Nat
      /\ t \in Timers /\ w \in Nat
      /\ \A j \in 1 .. Len(queue) : queue[j] \in Timers /\ queue[j] # t /\ when[queue[j]] \in Nat
      /\ when' = [when EXCEPT ![t] = w] /\ when \in [Timers -> Nat]
  <2>1. pc = "insert" /\ when' = [when EXCEPT ![t] = w]
    BY DEF TimerInsert
  <2>2. queue \in Seq(Timers) /\ when \in [Timers -> Nat] /\ w \in Nat
    BY DEF IInv, TypeOK
  <2>3. t \in Timers /\ \A j \in 1 .. Len(queue) : queue[j] # t
    BY <2>1 DEF IInv, ArgOK, timer_is_set, Contains
  <2> QED BY <2>1, <2>2, <2>3
<1>2. /\ queue' \in Seq(Timers)
      /\ Len(queue') = Len(queue) + 1
      /\ \A j \in 1 .. Len(queue) + 1 :
           queue'[j] = IF j < i THEN queue[j] ELSE IF j = i THEN t ELSE queue[j - 1]
  <2> HIDE DEF w, t
  <2>1. /\ queue \in Seq(Timers) /\ t \in Timers /\ queue' = InsertAt(queue, i, t)
    BY <1>1
  <2>2. /\ InsertAt(queue, i, t) \in Seq(Timers)
        /\ Len(InsertAt(queue, i, t)) = Len(queue) + 1
        /\ \A j \in 1 .. Len(queue) + 1 :
             InsertAt(queue, i, t)[j] =
               IF j < i THEN queue[j] ELSE IF j = i THEN t ELSE queue[j - 1]
    BY <2>1, InsertAtFacts, Zenon
  <2> QED BY <2>1, <2>2
<1>3. \A j, k \in 1 .. Len(queue) :
        j < k => queue[j] # queue[k] /\ when[queue[j]] <= when[queue[k]]
  BY DEF IInv, QueueSorted
<1>4. when'[t] = w /\ \A j \in 1 .. Len(queue) : when'[queue[j]] = when[queue[j]]
  BY <1>1
<1> HIDE DEF w, t
<1>7. ASSUME NEW j \in 1 .. Len(queue'), j < i
      PROVE  queue'[j] = queue[j] /\ j \in 1 .. i - 1 /\ j \in 1 .. Len(queue)
  <2>1. j \in 1 .. Len(queue) + 1 /\ j \in 1 .. i - 1 /\ j \in 1 .. Len(queue)
    BY <1>1, <1>2, <1>7
  <2> QED BY <1>2, <1>7, <2>1
<1>8. ASSUME NEW j \in 1 .. Len(queue'), j > i
      PROVE  /\ queue'[j] = queue[j - 1] /\ j - 1 \in 1 .. Len(queue)
             /\ j - 1 >= i
  <2>1. j \in 1 .. Len(queue) + 1 /\ ~(j < i) /\ j # i /\ j - 1 \in 1 .. Len(queue) /\ j - 1 >= i
    BY <1>1, <1>2, <1>8
  <2> QED BY <1>2, <2>1
<1>9. i \in 1 .. Len(queue') /\ queue'[i] = t
  <2>1. i \in 1 .. Len(queue) + 1 /\ ~(i < i)
    BY <1>1
  <2> QED BY <1>2, <2>1
<1>5. \A j \in 1 .. Len(queue) : j >= i => when[queue[j]] >= w
  <2> TAKE j \in 1 .. Len(queue)
  <2> HAVE j >= i
  <2>1. i \in 1 .. Len(queue) /\ when[queue[i]] > w
    BY <1>1
  <2>2. when[queue[i]] <= when[queue[j]]
    BY <1>1, <1>3, <2>1
  <2> QED BY <1>1, <2>1, <2>2
<1>6. ASSUME NEW j \in 1 .. Len(queue'), NEW k \in 1 .. Len(queue'), j < k
      PROVE  queue'[j] # queue'[k] /\ when'[queue'[j]] <= when'[queue'[k]]
  <2>0. j \in Int /\ k \in Int /\ i \in Int /\ Len(queue) \in Nat
    BY <1>1, <1>2
  <2>1. CASE k < i
    <3>1. queue'[k] = queue[k] /\ k \in 1 .. Len(queue)
      BY <1>7, <2>1
    <3>2. queue'[j] = queue[j] /\ j \in 1 .. Len(queue)
      BY <1>6, <1>7, <2>0, <2>1
    <3> QED BY <1>3, <1>4, <1>6, <3>1, <3>2
  <2>2. CASE k = i
    <3>1. queue'[k] = t
      BY <1>9, <2>2
    <3>2. queue'[j] = queue[j] /\ j \in 1 .. i - 1 /\ j \in 1 .. Len(queue)
      BY <1>6, <1>7, <2>2
    <3>3. queue[j] # t /\ when'[queue[j]] <= w
      BY <1>1, <1>4, <3>2
    <3> QED BY <1>4, <3>1, <3>2, <3>3
  <2>3. CASE k > i
    <3>1. queue'[k] = queue[k - 1] /\ k - 1 \in 1 .. Len(queue) /\ k - 1 >= i
      BY <1>8, <2>3
    <3>2. CASE j < i
      <4>1. queue'[j] = queue[j] /\ j \in 1 .. Len(queue)
        BY <1>7, <3>2
      <4>2. j < k - 1
        BY <2>0, <3>1, <3>2
      <4> QED BY <1>3, <1>4, <3>1, <4>1, <4>2
    <3>3. CASE j = i
      <4>1. queue'[j] = t
        BY <1>9, <3>3
      <4>2. queue[k - 1] # t /\ when'[queue[k - 1]] = when[queue[k - 1]]
        BY <1>1, <1>4, <3>1
      <4>3. when[queue[k - 1]] >= w /\ when[queue[k - 1]] \in Nat /\ w \in Nat
        BY <1>1, <1>5, <3>1
      <4> QED BY <1>4, <3>1, <4>1, <4>2, <4>3
    <3>4. CASE j > i
      <4>1. queue'[j] = queue[j - 1] /\ j - 1 \in 1 .. Len(queue)
        BY <1>8, <3>4
      <4>2. j - 1 < k - 1
        BY <1>6, <2>0
      <4> QED BY <1>3, <1>4, <3>1, <4>1, <4>2
    <3> QED BY <2>0, <3>2, <3>3, <3>4
  <2> QED BY <2>0, <2>1, <2>2, <2>3
<1> QED BY <1>2, <1>6 DEF QueueSorted

\* A step that leaves the queue and the moments alone keeps the queue sorted.
LEMMA KeepSorted ==
  ASSUME IInv, queue' = queue, when' = when
  PROVE  QueueSorted' /\ \A t \in Timers : timer_is_set(t)' <=> timer_is_set(t)
BY DEF IInv, QueueSorted, timer_is_set, Contains

\* The signals delivered are those the mask lets through.
LEMMA DeliverKeeps ==
  ASSUME IInv, NEW s \in Signals, Deliver(s)
  PROVE  IInv'
<1>1. queue' = queue /\ when' = when
  BY DEF Deliver
<1>2. TypeOK'
  BY DEF Deliver, Wake, IInv, TypeOK, Places, Moments, Signals
<1>3. Alarmed'
  BY DEF Deliver, Wake, IInv, TypeOK, Alarmed, Rearming
<1>4. Quiet'
  BY DEF Deliver, Wake, IInv, TypeOK, Quiet, Masked, special_sigs, Signals
<1>5. Notified'
  BY DEF Deliver, Wake, IInv, TypeOK, Notified
<1>6. ArgOK'
  BY <1>1, KeepSorted DEF Deliver, Wake, IInv, ArgOK, timer_is_set
<1> QED BY <1>1, <1>2, <1>3, <1>4, <1>5, <1>6, KeepSorted DEF IInv

\* At the start no signal, timer or child is pending.
LEMMA InitSound == Init => IInv
<1> SUFFICES ASSUME Init PROVE IInv
  OBVIOUS
<1>1. TypeOK
  <2>0. queue \in Seq(Timers)
    BY EmptySeq DEF Init
  <2>1. had_tmr \in BOOLEAN /\ wait_sig \in BOOLEAN /\ usr2_sig \in BOOLEAN
    BY DEF Init
  <2>2. arg \in [timer : Timers \cup {Off}, msecs : Nat, ret : {"handler", "run", "event"}]
    BY DEF Init, NoArg
  <2>3. /\ when \in [Timers -> Nat] /\ child \in [Children -> {"none", "running", "zombie"}]
        /\ pc \in Places /\ itimer \in Moments
    BY DEF Init, Places, Moments
  <2>4. /\ caller = "loop" /\ back = "run" /\ now = 0 /\ cur = 0 /\ wait = 0
        /\ running = Off /\ pending = {} /\ kill_sig = "none"
    BY DEF Init
  <2> QED BY <2>0, <2>1, <2>2, <2>3, <2>4 DEF TypeOK
<1>2. Alarmed /\ Quiet /\ Notified /\ ArgOK
  BY DEF Init, Alarmed, Quiet, Notified, ArgOK
<1>3. QueueSorted
  <2>1. Len(queue) = 0
    BY DEF Init
  <2> QED BY <2>1 DEF QueueSorted
<1> QED BY <1>1, <1>2, <1>3 DEF IInv

\* One action at a time.
LEMMA StepSound == IInv /\ [Next]_vars => IInv'
<1> SUFFICES ASSUME IInv, [Next]_vars PROVE IInv'
  OBVIOUS
<1> USE DEF Goto, OnlyPc, code, flags
<1>1. CASE CheckUsr2
  <2>1. queue' = queue /\ when' = when
    BY <1>1 DEF CheckUsr2
  <2>2. TypeOK'
    <3>1. /\ pc' \in Places /\ usr2_sig' \in BOOLEAN
          /\ UNCHANGED <<caller, back, arg, now, cur, wait, queue, when, running, itimer,
                         pending, had_tmr, wait_sig, kill_sig, child>>
      BY <1>1 DEF CheckUsr2, Places
    <3> QED BY <3>1 DEF IInv, TypeOK
  <2>3. Alarmed' /\ Quiet' /\ Notified'
    BY <1>1 DEF CheckUsr2, IInv, TypeOK, Alarmed, Rearming, Quiet, Notified
  <2>4. ArgOK'
    BY <1>1, <2>1, KeepSorted DEF CheckUsr2, IInv, TypeOK, ArgOK, timer_is_set
  <2> QED BY <2>1, <2>2, <2>3, <2>4, KeepSorted DEF IInv
<1>2. CASE CheckChld
  <2>1. queue' = queue /\ when' = when
    BY <1>2 DEF CheckChld
  <2>2. TypeOK'
    <3>1. /\ pc' \in Places /\ wait_sig' \in BOOLEAN
          /\ UNCHANGED <<caller, back, arg, now, cur, wait, queue, when, running, itimer,
                         pending, had_tmr, usr2_sig, kill_sig, child>>
      BY <1>2 DEF CheckChld, Places
    <3> QED BY <3>1 DEF IInv, TypeOK
  <2>3. Alarmed' /\ Quiet' /\ Notified'
    BY <1>2 DEF CheckChld, IInv, TypeOK, Alarmed, Rearming, Quiet, Notified
  <2>4. ArgOK'
    BY <1>2, <2>1, KeepSorted DEF CheckChld, IInv, TypeOK, ArgOK, timer_is_set
  <2> QED BY <2>1, <2>2, <2>3, <2>4, KeepSorted DEF IInv
<1>3. CASE NoneToReap
  <2>1. queue' = queue /\ when' = when
    BY <1>3 DEF NoneToReap
  <2>2. TypeOK'
    BY <1>3 DEF NoneToReap, IInv, TypeOK, Places, Moments, Signals
  <2>3. Alarmed' /\ Quiet' /\ Notified'
    BY <1>3 DEF NoneToReap, IInv, TypeOK, Alarmed, Rearming, Quiet, Notified
  <2>4. ArgOK'
    BY <1>3, <2>1, KeepSorted DEF NoneToReap, IInv, TypeOK, ArgOK, timer_is_set
  <2> QED BY <2>1, <2>2, <2>3, <2>4, KeepSorted DEF IInv
<1>4. CASE CheckKill
  <2>1. queue' = queue /\ when' = when
    BY <1>4 DEF CheckKill
  <2>2. TypeOK'
    BY <1>4 DEF CheckKill, IInv, TypeOK, Places, Moments, Signals
  <2>3. Alarmed' /\ Quiet' /\ Notified'
    BY <1>4 DEF CheckKill, IInv, TypeOK, Alarmed, Rearming, Quiet, Notified
  <2>4. ArgOK'
    BY <1>4, <2>1, KeepSorted DEF CheckKill, IInv, TypeOK, ArgOK, timer_is_set
  <2> QED BY <2>1, <2>2, <2>3, <2>4, KeepSorted DEF IInv
<1>5. CASE CheckTimers
  <2>1. queue' = queue /\ when' = when
    BY <1>5 DEF CheckTimers
  <2>2. TypeOK'
    <3>1. /\ pc' \in Places /\ had_tmr' \in BOOLEAN
          /\ UNCHANGED <<caller, back, arg, now, cur, wait, queue, when, running, itimer,
                         pending, wait_sig, usr2_sig, kill_sig, child>>
      BY <1>5 DEF CheckTimers, Leave, Places
    <3> QED BY <3>1 DEF IInv, TypeOK
  <2>3. Alarmed' /\ Quiet' /\ Notified'
    BY <1>5 DEF CheckTimers, IInv, TypeOK, Alarmed, Rearming, Quiet, Notified, Leave
  <2>4. ArgOK'
    BY <1>5, <2>1, KeepSorted DEF CheckTimers, IInv, TypeOK, ArgOK, timer_is_set, Leave
  <2> QED BY <2>1, <2>2, <2>3, <2>4, KeepSorted DEF IInv
<1>6. CASE GetTime
  <2>1. queue' = queue /\ when' = when
    BY <1>6 DEF GetTime
  <2>2. TypeOK'
    BY <1>6 DEF GetTime, IInv, TypeOK, Places, Moments, Signals
  <2>3. Alarmed' /\ Quiet' /\ Notified'
    BY <1>6 DEF GetTime, IInv, TypeOK, Alarmed, Rearming, Quiet, Notified
  <2>4. ArgOK'
    BY <1>6, <2>1, KeepSorted DEF GetTime, IInv, TypeOK, ArgOK, timer_is_set
  <2> QED BY <2>1, <2>2, <2>3, <2>4, KeepSorted DEF IInv
<1>7. CASE HandlerReturns
  <2>1. queue' = queue /\ when' = when
    BY <1>7 DEF HandlerReturns
  <2>2. TypeOK'
    BY <1>7 DEF HandlerReturns, IInv, TypeOK, Places, Moments, Signals
  <2>3. Alarmed' /\ Quiet' /\ Notified'
    BY <1>7 DEF HandlerReturns, IInv, TypeOK, Alarmed, Rearming, Quiet, Notified
  <2>4. ArgOK'
    BY <1>7, <2>1, KeepSorted DEF HandlerReturns, IInv, TypeOK, ArgOK, timer_is_set
  <2> QED BY <2>1, <2>2, <2>3, <2>4, KeepSorted DEF IInv
<1>8. CASE NoneDue
  <2>1. queue' = queue /\ when' = when
    BY <1>8 DEF NoneDue
  <2>2. TypeOK'
    BY <1>8 DEF NoneDue, IInv, TypeOK, Places, Moments, Signals
  <2>3. Alarmed' /\ Quiet' /\ Notified'
    BY <1>8 DEF NoneDue, IInv, TypeOK, Alarmed, Rearming, Quiet, Notified
  <2>4. ArgOK'
    BY <1>8, <2>1, KeepSorted DEF NoneDue, IInv, TypeOK, ArgOK, timer_is_set
  <2> QED BY <2>1, <2>2, <2>3, <2>4, KeepSorted DEF IInv
<1>9. CASE SetTimeout
  <2>1. queue' = queue /\ when' = when
    BY <1>9 DEF SetTimeout
  <2>2. TypeOK'
    <3>1. /\ pc' \in {back, "itimer"} /\ wait' \in Nat
          /\ itimer' \in {itimer, Off} /\ had_tmr' \in BOOLEAN
      <4>1. CASE queue = <<>>
        BY <1>9, <4>1 DEF SetTimeout, IInv, TypeOK
      <4>2. CASE queue # <<>>
        <5>1. Head(queue) \in Timers /\ when[Head(queue)] \in Nat /\ now \in Nat
          BY <4>2, HeadTailProperties DEF IInv, TypeOK
        <5>2. CASE when[Head(queue)] > now
          BY <1>9, <4>2, <5>1, <5>2 DEF SetTimeout, IInv, TypeOK
        <5>3. CASE ~(when[Head(queue)] > now)
          BY <1>9, <4>2, <5>1, <5>3 DEF SetTimeout, IInv, TypeOK
        <5> QED BY <5>2, <5>3
      <4> QED BY <4>1, <4>2
    <3>2. UNCHANGED <<caller, back, arg, now, cur, queue, when, running, pending,
                      wait_sig, usr2_sig, kill_sig, child>>
      BY <1>9 DEF SetTimeout
    <3> QED BY <3>1, <3>2 DEF IInv, TypeOK, Places, Moments
  <2>3. Alarmed' /\ Quiet' /\ Notified'
    BY <1>9 DEF SetTimeout, IInv, TypeOK, Alarmed, Rearming, Quiet, Notified
  <2>4. ArgOK'
    BY <1>9, <2>1, KeepSorted DEF SetTimeout, IInv, TypeOK, ArgOK, timer_is_set
  <2> QED BY <2>1, <2>2, <2>3, <2>4, KeepSorted DEF IInv
<1>10. CASE SetItimer
  <2>1. queue' = queue /\ when' = when
    BY <1>10 DEF SetItimer
  <2>2. /\ pc = "itimer" /\ pc' = back /\ wait' = 0
        /\ UNCHANGED <<caller, back, arg, now, cur, queue, when, running, pending,
                       wait_sig, usr2_sig, kill_sig, child>>
        /\ \/ itimer' = now + wait /\ had_tmr' = had_tmr
           \/ had_tmr' = TRUE /\ itimer' = itimer
    BY <1>10 DEF SetItimer
  <2>3. TypeOK' /\ Alarmed' /\ Quiet' /\ Notified'
    <3>1. CASE itimer' = now + wait /\ had_tmr' = had_tmr
      <4>1. itimer' \in Nat /\ itimer' # Off
        BY <3>1, MainLoopAssumption DEF IInv, TypeOK
      <4> QED BY <2>2, <3>1, <4>1 DEF IInv, TypeOK, Places, Moments, Alarmed, Quiet, Notified
    <3>2. CASE had_tmr' = TRUE /\ itimer' = itimer
      BY <2>2, <3>2 DEF IInv, TypeOK, Places, Moments, Alarmed, Quiet, Notified
    <3> QED BY <2>2, <3>1, <3>2
  <2>4. ArgOK'
    BY <1>10, <2>1, KeepSorted DEF SetItimer, IInv, TypeOK, ArgOK, timer_is_set
  <2> QED BY <2>1, <2>2, <2>3, <2>4, KeepSorted DEF IInv
<1>11. CASE XEvent
  <2>1. queue' = queue /\ when' = when
    BY <1>11 DEF XEvent
  <2>2. TypeOK'
    BY <1>11 DEF XEvent, IInv, TypeOK, Places, Moments, Signals
  <2>3. Alarmed' /\ Quiet' /\ Notified'
    BY <1>11 DEF XEvent, IInv, TypeOK, Alarmed, Rearming, Quiet, Notified
  <2>4. ArgOK'
    BY <1>11, <2>1, KeepSorted DEF XEvent, IInv, TypeOK, ArgOK, timer_is_set
  <2> QED BY <2>1, <2>2, <2>3, <2>4, KeepSorted DEF IInv
<1>12. CASE EnterSelect
  <2>1. queue' = queue /\ when' = when
    BY <1>12 DEF EnterSelect
  <2>2. TypeOK'
    BY <1>12 DEF EnterSelect, IInv, TypeOK, Places, Moments, Signals
  <2>3. Alarmed' /\ Quiet' /\ Notified'
    BY <1>12 DEF EnterSelect, IInv, TypeOK, Alarmed, Rearming, Quiet, Notified
  <2>4. ArgOK'
    BY <1>12, <2>1, KeepSorted DEF EnterSelect, IInv, TypeOK, ArgOK, timer_is_set
  <2> QED BY <2>1, <2>2, <2>3, <2>4, KeepSorted DEF IInv
<1>13. CASE TestSignals
  <2>1. queue' = queue /\ when' = when
    BY <1>13 DEF TestSignals
  <2>2. TypeOK'
    BY <1>13 DEF TestSignals, IInv, TypeOK, Places, Moments, Signals
  <2>3. Alarmed' /\ Quiet' /\ Notified'
    BY <1>13 DEF TestSignals, IInv, TypeOK, Alarmed, Rearming, Quiet, Notified
  <2>4. ArgOK'
    BY <1>13, <2>1, KeepSorted DEF TestSignals, IInv, TypeOK, ArgOK, timer_is_set
  <2> QED BY <2>1, <2>2, <2>3, <2>4, KeepSorted DEF IInv
<1>14. CASE EnterPselect
  <2>1. queue' = queue /\ when' = when
    BY <1>14 DEF EnterPselect
  <2>2. TypeOK'
    BY <1>14 DEF EnterPselect, IInv, TypeOK, Places, Moments, Signals
  <2>3. Alarmed' /\ Quiet' /\ Notified'
    BY <1>14 DEF EnterPselect, IInv, TypeOK, Alarmed, Rearming, Quiet, Notified
  <2>4. ArgOK'
    BY <1>14, <2>1, KeepSorted DEF EnterPselect, IInv, TypeOK, ArgOK, timer_is_set
  <2> QED BY <2>1, <2>2, <2>3, <2>4, KeepSorted DEF IInv
<1>15. CASE Unmask
  <2>1. queue' = queue /\ when' = when
    BY <1>15 DEF Unmask
  <2>2. TypeOK'
    BY <1>15 DEF Unmask, IInv, TypeOK, Places, Moments, Signals
  <2>3. Alarmed' /\ Quiet' /\ Notified'
    BY <1>15 DEF Unmask, IInv, TypeOK, Alarmed, Rearming, Quiet, Notified
  <2>4. ArgOK'
    BY <1>15, <2>1, KeepSorted DEF Unmask, IInv, TypeOK, ArgOK, timer_is_set
  <2> QED BY <2>1, <2>2, <2>3, <2>4, KeepSorted DEF IInv
<1>16. CASE EventDone
  <2>1. queue' = queue /\ when' = when
    BY <1>16 DEF EventDone
  <2>2. TypeOK'
    BY <1>16 DEF EventDone, IInv, TypeOK, Places, Moments, Signals
  <2>3. Alarmed' /\ Quiet' /\ Notified'
    BY <1>16 DEF EventDone, IInv, TypeOK, Alarmed, Rearming, Quiet, Notified
  <2>4. ArgOK'
    BY <1>16, <2>1, KeepSorted DEF EventDone, IInv, TypeOK, ArgOK, timer_is_set
  <2> QED BY <2>1, <2>2, <2>3, <2>4, KeepSorted DEF IInv
<1>17. CASE GetEvent
  <2>1. queue' = queue /\ when' = when
    BY <1>17 DEF GetEvent
  <2>2. TypeOK'
    BY <1>17 DEF GetEvent, IInv, TypeOK, Places, Moments, Signals
  <2>3. Alarmed' /\ Quiet' /\ Notified'
    BY <1>17 DEF GetEvent, IInv, TypeOK, Alarmed, Rearming, Quiet, Notified
  <2>4. ArgOK'
    BY <1>17, <2>1, KeepSorted DEF GetEvent, IInv, TypeOK, ArgOK, timer_is_set
  <2> QED BY <2>1, <2>2, <2>3, <2>4, KeepSorted DEF IInv
<1>18. CASE GotEvent
  <2>1. queue' = queue /\ when' = when
    BY <1>18 DEF GotEvent
  <2>2. TypeOK'
    BY <1>18 DEF GotEvent, IInv, TypeOK, Places, Moments, Signals
  <2>3. Alarmed' /\ Quiet' /\ Notified'
    BY <1>18 DEF GotEvent, IInv, TypeOK, Alarmed, Rearming, Quiet, Notified
  <2>4. ArgOK'
    BY <1>18, <2>1, KeepSorted DEF GotEvent, IInv, TypeOK, ArgOK, timer_is_set
  <2> QED BY <2>1, <2>2, <2>3, <2>4, KeepSorted DEF IInv
<1>19. CASE NoEvent
  <2>1. queue' = queue /\ when' = when
    BY <1>19 DEF NoEvent
  <2>2. TypeOK'
    BY <1>19 DEF NoEvent, IInv, TypeOK, Places, Moments, Signals
  <2>3. Alarmed' /\ Quiet' /\ Notified'
    BY <1>19 DEF NoEvent, IInv, TypeOK, Alarmed, Rearming, Quiet, Notified
  <2>4. ArgOK'
    BY <1>19, <2>1, KeepSorted DEF NoEvent, IInv, TypeOK, ArgOK, timer_is_set
  <2> QED BY <2>1, <2>2, <2>3, <2>4, KeepSorted DEF IInv
<1>20. CASE Readable
  <2>1. queue' = queue /\ when' = when
    BY <1>20 DEF Readable
  <2>2. TypeOK'
    BY <1>20 DEF Readable, IInv, TypeOK, Places, Moments, Signals
  <2>3. Alarmed' /\ Quiet' /\ Notified'
    BY <1>20 DEF Readable, IInv, TypeOK, Alarmed, Rearming, Quiet, Notified
  <2>4. ArgOK'
    BY <1>20, <2>1, KeepSorted DEF Readable, IInv, TypeOK, ArgOK, timer_is_set
  <2> QED BY <2>1, <2>2, <2>3, <2>4, KeepSorted DEF IInv
<1>21. CASE XReadable
  <2>1. queue' = queue /\ when' = when
    BY <1>21 DEF XReadable
  <2>2. TypeOK'
    BY <1>21 DEF XReadable, IInv, TypeOK, Places, Moments, Signals
  <2>3. Alarmed' /\ Quiet' /\ Notified'
    BY <1>21 DEF XReadable, IInv, TypeOK, Alarmed, Rearming, Quiet, Notified
  <2>4. ArgOK'
    BY <1>21, <2>1, KeepSorted DEF XReadable, IInv, TypeOK, ArgOK, timer_is_set
  <2> QED BY <2>1, <2>2, <2>3, <2>4, KeepSorted DEF IInv
<1>22. CASE Tick
  <2>1. queue' = queue /\ when' = when
    BY <1>22 DEF Tick
  <2>2. TypeOK'
    BY <1>22 DEF Tick, IInv, TypeOK, Places, Moments, Signals
  <2>3. Alarmed' /\ Quiet' /\ Notified'
    BY <1>22 DEF Tick, IInv, TypeOK, Alarmed, Rearming, Quiet, Notified
  <2>4. ArgOK'
    BY <1>22, <2>1, KeepSorted DEF Tick, IInv, TypeOK, ArgOK, timer_is_set
  <2> QED BY <2>1, <2>2, <2>3, <2>4, KeepSorted DEF IInv
<1>23. CASE Expire
  <2>1. queue' = queue /\ when' = when
    BY <1>23 DEF Expire
  <2>2. TypeOK'
    BY <1>23 DEF Expire, IInv, TypeOK, Places, Moments, Signals, Raise
  <2>3. Alarmed' /\ Quiet' /\ Notified'
    BY <1>23 DEF Expire, IInv, TypeOK, Alarmed, Rearming, Quiet, Notified, Raise
  <2>4. ArgOK'
    BY <1>23, <2>1, KeepSorted DEF Expire, IInv, TypeOK, ArgOK, timer_is_set
  <2> QED BY <2>1, <2>2, <2>3, <2>4, KeepSorted DEF IInv
<1>24. ASSUME NEW c \in Children, Reap(c) PROVE IInv'
  <2>1. queue' = queue /\ when' = when
    BY <1>24 DEF Reap
  <2>2. TypeOK'
    BY <1>24 DEF Reap, IInv, TypeOK, Places, Moments, Signals
  <2>3. Alarmed' /\ Quiet' /\ Notified'
    BY <1>24 DEF Reap, IInv, TypeOK, Alarmed, Rearming, Quiet, Notified
  <2>4. ArgOK'
    BY <1>24, <2>1, KeepSorted DEF Reap, IInv, TypeOK, ArgOK, timer_is_set
  <2> QED BY <2>1, <2>2, <2>3, <2>4, KeepSorted DEF IInv
<1>25. ASSUME NEW c \in Children, ChildDies(c) PROVE IInv'
  <2>1. queue' = queue /\ when' = when
    BY <1>25 DEF ChildDies
  <2>2. TypeOK'
    BY <1>25 DEF ChildDies, IInv, TypeOK, Places, Moments, Signals, Raise
  <2>3. Alarmed' /\ Quiet' /\ Notified'
    BY <1>25 DEF ChildDies, IInv, TypeOK, Alarmed, Rearming, Quiet, Notified, Raise
  <2>4. ArgOK'
    BY <1>25, <2>1, KeepSorted DEF ChildDies, IInv, TypeOK, ArgOK, timer_is_set
  <2> QED BY <2>1, <2>2, <2>3, <2>4, KeepSorted DEF IInv
<1>26. ASSUME NEW c \in Children, Spawn(c) PROVE IInv'
  <2>1. queue' = queue /\ when' = when
    BY <1>26 DEF Spawn
  <2>2. TypeOK'
    BY <1>26 DEF Spawn, IInv, TypeOK, Places, Moments, Signals, Free
  <2>3. Alarmed' /\ Quiet' /\ Notified'
    BY <1>26 DEF Spawn, IInv, TypeOK, Alarmed, Rearming, Quiet, Notified, Free
  <2>4. ArgOK'
    BY <1>26, <2>1, KeepSorted DEF Spawn, IInv, TypeOK, ArgOK, timer_is_set
  <2> QED BY <2>1, <2>2, <2>3, <2>4, KeepSorted DEF IInv
<1>27. ASSUME NEW s \in Signals, UserSignal(s) PROVE IInv'
  <2>1. queue' = queue /\ when' = when
    BY <1>27 DEF UserSignal
  <2>2. TypeOK'
    BY <1>27 DEF UserSignal, Raise, IInv, TypeOK
  <2>3. Alarmed' /\ Quiet' /\ Notified'
    BY <1>27 DEF UserSignal, Raise, IInv, Alarmed, Rearming, Quiet, Notified
  <2>4. ArgOK'
    BY <1>27, <2>1, KeepSorted DEF UserSignal, IInv, ArgOK, timer_is_set
  <2> QED BY <2>1, <2>2, <2>3, <2>4, KeepSorted DEF IInv
<1>28. ASSUME NEW s \in Signals, Deliver(s) PROVE IInv'
  BY <1>28, DeliverKeeps
<1>29. CASE CallHandler
  <2>1. /\ queue \in Seq(Timers) /\ queue # <<>> /\ Len(queue) \in Nat
        /\ queue' = Tail(queue) /\ running' = Head(queue) /\ pc' = "handler"
        /\ when' = when /\ UNCHANGED <<caller, back, arg, now, cur, wait, itimer, pending, flags, child>>
    BY <1>29 DEF CallHandler, IInv, TypeOK
  <2>2. /\ queue' \in Seq(Timers) /\ running' \in Timers
        /\ Len(queue') = Len(queue) - 1
        /\ \A j \in 1 .. Len(queue') : queue'[j] = queue[j + 1]
    BY <2>1, HeadTailProperties
  <2>3. QueueSorted'
    BY <2>1, <2>2 DEF IInv, QueueSorted
  <2>4. TypeOK'
    BY <2>1, <2>2 DEF IInv, TypeOK, Places
  <2>5. Alarmed' /\ Quiet' /\ Notified' /\ ArgOK'
    BY <1>29, <2>1 DEF CallHandler, IInv, Alarmed, Rearming, Quiet, Notified, ArgOK
  <2> QED BY <2>3, <2>4, <2>5 DEF IInv
<1>30. CASE TimerInsert
  <2>1. /\ pc = "insert" /\ arg.timer \in Timers
        /\ when' = [when EXCEPT ![arg.timer] = now + arg.msecs]
        /\ back' = arg.ret /\ arg' = NoArg /\ pc' = "set"
        /\ UNCHANGED <<caller, now, cur, wait, running, itimer, pending, flags, child>>
    BY <1>30 DEF TimerInsert, IInv, ArgOK
  <2>2. queue' \in Seq(Timers) /\ QueueSorted'
    BY <1>30, InsertSorted
  <2>3. TypeOK'
    BY <2>1, <2>2 DEF IInv, TypeOK, Places, NoArg
  <2>4. Alarmed' /\ Quiet' /\ Notified' /\ ArgOK'
    BY <2>1 DEF IInv, TypeOK, Alarmed, Rearming, Quiet, Notified, ArgOK
  <2> QED BY <2>2, <2>3, <2>4 DEF IInv
<1>31. ASSUME NEW t \in Timers, TimerReset(t) PROVE IInv'
  <2>1. /\ pc \in {"handler", "run", "event"} /\ Unqueue(t) /\ back' = pc /\ pc' = "set"
        /\ UNCHANGED <<caller, arg, now, cur, wait, when, running, itimer, pending, flags, child>>
    BY <1>31 DEF TimerReset, Free
  <2>2. queue' \in Seq(Timers) /\ QueueSorted'
    BY <2>1, UnqueueSorted DEF IInv
  <2>3. TypeOK'
    BY <2>1, <2>2 DEF IInv, TypeOK, Places
  <2>4. Alarmed' /\ Quiet' /\ Notified' /\ ArgOK'
    BY <2>1 DEF IInv, TypeOK, Alarmed, Rearming, Quiet, Notified, ArgOK
  <2> QED BY <2>2, <2>3, <2>4 DEF IInv
<1>32. ASSUME NEW t \in Timers, NEW d \in 0 .. MaxDelay, TimerSet(t, d) PROVE IInv'
  <2>1. /\ pc \in {"handler", "run", "event"}
        /\ arg' = [timer |-> t, msecs |-> d, ret |-> pc]
        /\ UNCHANGED <<caller, now, cur, wait, when, running, itimer, pending, flags, child>>
    BY <1>32 DEF TimerSet, Free
  <2>2. /\ queue' \in Seq(Timers) /\ QueueSorted' /\ ~timer_is_set(t)'
        /\ back' \in {back, "insert"} /\ pc' \in {"set", "insert"}
        /\ pc' = "set" => back' = "insert"
    <3>1. CASE timer_is_set(t)
      BY <1>32, <2>1, <3>1, UnqueueSorted DEF TimerSet, IInv, timer_is_set
    <3>2. CASE ~timer_is_set(t)
      BY <1>32, <2>1, <3>2, KeepSorted DEF TimerSet, IInv, TypeOK
    <3> QED BY <3>1, <3>2
  <2>3. TypeOK'
    BY <2>1, <2>2 DEF IInv, TypeOK, Places
  <2>4. ArgOK'
    BY <2>1, <2>2 DEF ArgOK, timer_is_set
  <2>5. Alarmed' /\ Quiet' /\ Notified'
    BY <2>1, <2>2 DEF IInv, TypeOK, Alarmed, Rearming, Quiet, Notified
  <2> QED BY <2>2, <2>3, <2>4, <2>5 DEF IInv
<1>33. CASE UNCHANGED vars
  BY <1>33 DEF vars, IInv, TypeOK, Alarmed, Rearming, Quiet, Notified, ArgOK, QueueSorted,
                timer_is_set, Contains
<1> QED BY <1>1, <1>2, <1>3, <1>4, <1>5, <1>6, <1>7, <1>8, <1>9, <1>10, <1>11, <1>12, <1>13, <1>14, <1>15, <1>16, <1>17, <1>18, <1>19, <1>20, <1>21, <1>22, <1>23, <1>24, <1>25, <1>26, <1>27, <1>28, <1>29, <1>30, <1>31, <1>32, <1>33
        DEF Next, Environment, CheckSignals, TimerOps, Loop

\* The loop, its signals and its timers are sound for every value of the constants.
THEOREM MainLoopSound == Spec => []IInv
BY InitSound, StepSound, PTL DEF Spec

\* Type correctness, for every value of the constants.
THEOREM MainLoopTypeOK == Spec => []TypeOK
BY MainLoopSound, PTL DEF IInv

\* The queue of timers is sorted and holds a timer once.
THEOREM TimersSorted == Spec => []QueueSorted
BY MainLoopSound, PTL DEF IInv

\* The loop never sleeps over work that a blocked signal announced.
THEOREM NoSignalMissed == Spec => []NoMissedSignal
<1>1. IInv => NoMissedSignal
  BY DEF IInv, Quiet, NoMissedSignal
<1> QED BY <1>1, MainLoopSound, PTL

\* The loop never sleeps with a timer set and nothing to wake it.
THEOREM NoTimerLost == Spec => []NoLostTimer
<1>1. IInv => NoLostTimer
  BY DEF IInv, Quiet, Alarmed, Rearming, NoLostTimer
<1> QED BY <1>1, MainLoopSound, PTL

\* The loop never sleeps over a dead child whose signal has been taken already.
THEOREM NoChildLost == Spec => []NoLostChild
<1>1. IInv => NoLostChild
  BY DEF IInv, Quiet, Notified, NoLostChild
<1> QED BY <1>1, MainLoopSound, PTL

-----------------------------------------------------------------------------
(* The promises of TimerService *)

\* A handler runs until it returns, the timers it sets included, and the moment
\* timers are compared with is in the past.
RunningOK ==
  running # Off =>
    LET returns == IF pc = "insert" \/ (pc \in {"set", "itimer"} /\ back = "insert") THEN arg.ret
                   ELSE IF pc \in {"set", "itimer"} THEN back ELSE pc
    IN returns = "handler"

ServiceInv == IInv /\ cur <= now /\ RunningOK

Due == [t \in Timers |-> IF timer_is_set(t) THEN when[t] ELSE Off]

\* The current time is not ahead of the clock, and handlers are not nested.
LEMMA ServiceStep ==
  ASSUME ServiceInv, [Next]_vars
  PROVE  cur' <= now' /\ RunningOK'
<1> USE DEF Goto, OnlyPc, code, flags
<1>1. TypeOK /\ cur <= now /\ RunningOK
  BY DEF ServiceInv, IInv
<1>2. CASE UNCHANGED vars
  BY <1>1, <1>2 DEF vars, RunningOK
<1>3. CASE Tick \/ Expire \/ (\E c \in Children : ChildDies(c)) \/ (\E s \in Signals : UserSignal(s))
  BY <1>1, <1>3 DEF Tick, Expire, ChildDies, UserSignal, RunningOK, TypeOK
<1>4. CASE \E s \in Signals : Deliver(s)
  BY <1>1, <1>4 DEF Deliver, Wake, RunningOK
<1>5. CASE Readable \/ XReadable \/ CheckUsr2 \/ CheckChld \/ NoneToReap \/ CheckKill
  BY <1>1, <1>5 DEF Readable, XReadable, CheckUsr2, CheckChld, NoneToReap, CheckKill, RunningOK
<1>6. CASE CheckTimers \/ GetTime \/ \E c \in Children : Reap(c)
  BY <1>1, <1>6 DEF CheckTimers, Leave, GetTime, Reap, RunningOK, TypeOK
<1>7. CASE CallHandler \/ HandlerReturns \/ NoneDue
  BY <1>1, <1>7 DEF CallHandler, HandlerReturns, NoneDue, RunningOK, TypeOK
<1>8. CASE SetTimeout
  <2>1. pc = "set" /\ pc' \in {"itimer", back} /\ UNCHANGED <<back, arg, now, cur, running>>
    BY <1>8 DEF SetTimeout
  <2> QED BY <1>1, <2>1 DEF RunningOK, TypeOK
<1>9. CASE SetItimer
  <2>1. pc = "itimer" /\ pc' = back /\ UNCHANGED <<back, arg, now, cur, running>>
    BY <1>9 DEF SetItimer
  <2> QED BY <1>1, <2>1 DEF RunningOK, TypeOK
<1>10. CASE TimerInsert
  <2>1. pc = "insert" /\ pc' = "set" /\ back' = arg.ret /\ UNCHANGED <<now, cur, running>>
    BY <1>10 DEF TimerInsert
  <2>2. arg.ret # "insert"
    BY <1>1 DEF TypeOK
  <2> QED BY <1>1, <2>1, <2>2 DEF RunningOK
<1>11. CASE \E t \in Timers : TimerReset(t)
  <2>1. pc' = "set" /\ back' = pc /\ Free /\ UNCHANGED <<now, cur, running>>
    BY <1>11 DEF TimerReset
  <2> QED BY <1>1, <2>1 DEF RunningOK, Free
<1>12. ASSUME NEW t \in Timers, NEW d \in 0 .. MaxDelay, TimerSet(t, d)
       PROVE  cur' <= now' /\ RunningOK'
  <2>1. /\ Free /\ arg'.ret = pc /\ UNCHANGED <<now, cur, running>>
        /\ pc' = "insert" \/ (pc' = "set" /\ back' = "insert")
    BY <1>12 DEF TimerSet
  <2> QED BY <1>1, <2>1 DEF RunningOK, Free
<1>13. CASE Loop
  BY <1>1, <1>13 DEF Loop, XEvent, EnterSelect, TestSignals, EnterPselect, Unmask, EventDone,
     GetEvent, GotEvent, NoEvent, Spawn, RunningOK
<1> QED BY <1>2, <1>3, <1>4, <1>5, <1>6, <1>7, <1>8, <1>9, <1>10, <1>11, <1>12, <1>13
        DEF Next, Environment, CheckSignals, TimerOps

\* A step that leaves the queue and the moments alone is none for the service, but
\* for the clock and for the end of a handler.
LEMMA SameDue ==
  ASSUME queue' = queue, when' = when
  PROVE  Due' = Due
BY DEF Due, timer_is_set, Contains

\* The timer that fires is due, and no other was due before.
LEMMA FireStep ==
  ASSUME ServiceInv, CallHandler
  PROVE  \E t \in Timers : Service!Fire(t)
<1>0. PICK t \in Timers : t = Head(queue)
  BY HeadTailProperties DEF CallHandler, ServiceInv, IInv, TypeOK
<1>1. /\ pc = "fire" /\ queue # <<>> /\ when[t] < cur /\ queue' = Tail(queue) /\ running' = t
      /\ when' = when /\ now' = now
  BY <1>0 DEF CallHandler
<1>2. /\ queue \in Seq(Timers) /\ when \in [Timers -> Nat] /\ now \in Nat /\ cur \in Nat
      /\ cur <= now /\ running = Off
  BY <1>1 DEF ServiceInv, IInv, TypeOK, RunningOK
<1>3. /\ t \in Timers /\ t = queue[1] /\ Len(queue) \in Nat \ {0} /\ Len(queue') = Len(queue) - 1
      /\ \A j \in 1 .. Len(queue) - 1 : queue'[j] = queue[j + 1]
  BY <1>0, <1>1, <1>2, HeadTailProperties, EmptySeq
<1>4. timer_is_set(t)
  BY <1>3 DEF timer_is_set, Contains
<1>5. ASSUME NEW u \in Timers, timer_is_set(u) PROVE when[t] <= when[u]
  <2>1. PICK j \in 1 .. Len(queue) : queue[j] = u
    BY <1>5 DEF timer_is_set, Contains
  <2>2. CASE j = 1
    BY <1>2, <1>3, <2>1, <2>2
  <2>3. CASE j > 1
    BY <1>3, <2>1, <2>3 DEF ServiceInv, IInv, QueueSorted
  <2> QED BY <1>3, <2>1, <2>2, <2>3
<1>6. ASSUME NEW u \in Timers
      PROVE  timer_is_set(u)' <=> timer_is_set(u) /\ u # t
  <2>1. \A j \in 1 .. Len(queue) : j # 1 => queue[j] # t
    BY <1>3 DEF ServiceInv, IInv, QueueSorted
  <2>2. ASSUME timer_is_set(u)' PROVE timer_is_set(u) /\ u # t
    <3>1. PICK j \in 1 .. Len(queue') : queue'[j] = u
      BY <2>2 DEF timer_is_set, Contains
    <3>2. j + 1 \in 1 .. Len(queue) /\ queue[j + 1] = u /\ j + 1 # 1
      BY <1>3, <3>1
    <3> QED BY <2>1, <3>2 DEF timer_is_set, Contains
  <2>3. ASSUME timer_is_set(u), u # t PROVE timer_is_set(u)'
    <3>1. PICK j \in 1 .. Len(queue) : queue[j] = u
      BY <2>3 DEF timer_is_set, Contains
    <3>2. j # 1
      BY <1>3, <2>3, <3>1
    <3>3. j - 1 \in 1 .. Len(queue') /\ queue'[j - 1] = queue[(j - 1) + 1] /\ (j - 1) + 1 = j
      BY <1>3, <3>1, <3>2
    <3> QED BY <3>1, <3>3 DEF timer_is_set, Contains
  <2> QED BY <2>2, <2>3
<1>7. Due[t] = when[t] /\ Due[t] # Off
  BY <1>2, <1>3, <1>4, MainLoopAssumption DEF Due
<1>8. Due' = [Due EXCEPT ![t] = Off]
  BY <1>1, <1>6 DEF Due
<1>9. \A u \in Timers : Due[u] # Off => Due[t] <= Due[u]
  BY <1>4, <1>5, <1>7 DEF Due
<1>10. Due[t] < now
  BY <1>1, <1>2, <1>3, <1>7
<1>11. Service!Fire(t)
  BY <1>1, <1>2, <1>7, <1>8, <1>9, <1>10, Zenon DEF Service!Fire, Due
<1> QED BY <1>11

\* A timer that is taken out of the queue is reset, and no other.
LEMMA ResetStep ==
  ASSUME IInv, NEW t \in Timers, Unqueue(t), when' = when
  PROVE  Due' = [Due EXCEPT ![t] = Off]
<1>1. ~Contains(queue', t) /\ \A u \in Timers : Contains(queue', u) => Contains(queue, u)
  BY UnqueueSorted DEF IInv
<1>2. ASSUME NEW u \in Timers, u # t, Contains(queue, u) PROVE Contains(queue', u)
  <2>1. PICK i \in 1 .. Len(queue) : queue[i] = t /\ queue' = RemoveAt(queue, i)
    BY DEF Unqueue
  <2>2. queue \in Seq(Timers) /\ Len(queue) \in Nat
    BY DEF IInv, TypeOK
  <2>3. /\ queue' \in Seq(Timers) /\ Len(queue') = Len(queue) - 1
        /\ \A j \in 1 .. Len(queue) - 1 : queue'[j] = IF j < i THEN queue[j] ELSE queue[j + 1]
    BY <2>1, <2>2, RemoveAtFacts
  <2>4. PICK j \in 1 .. Len(queue) : queue[j] = u
    BY <1>2 DEF Contains
  <2>5. CASE j < i
    <3>1. j \in 1 .. Len(queue') /\ queue'[j] = u
      BY <2>2, <2>3, <2>4, <2>5
    <3> QED BY <3>1 DEF Contains
  <2>6. CASE j > i
    <3>1. j - 1 \in 1 .. Len(queue') /\ queue'[j - 1] = queue[(j - 1) + 1] /\ (j - 1) + 1 = j
      BY <2>2, <2>3, <2>6
    <3> QED BY <2>4, <3>1 DEF Contains
  <2>7. j # i
    BY <1>2, <2>1, <2>4
  <2> QED BY <2>2, <2>5, <2>6, <2>7
<1> QED BY <1>1, <1>2 DEF Due, timer_is_set

\* The timer that is put in the queue is set to a moment that is not past.
LEMMA InsertStep ==
  ASSUME IInv, TimerInsert
  PROVE  \E t \in Timers : Service!Set(t)
<1> DEFINE w == now + arg.msecs
           t == arg.timer
<1>1. PICK i \in 1 .. Len(queue) + 1 :
        /\ when' = [when EXCEPT ![t] = w] /\ queue' = InsertAt(queue, i, t)
        /\ UNCHANGED <<now, running>> /\ pc = "insert"
  BY DEF TimerInsert
<1>2. /\ queue \in Seq(Timers) /\ Len(queue) \in Nat /\ when \in [Timers -> Nat]
      /\ now \in Nat /\ w \in Nat /\ w >= now /\ t \in Timers /\ ~timer_is_set(t)
  BY <1>1 DEF IInv, TypeOK, ArgOK
<1> HIDE DEF w, t
<1>3. /\ queue' \in Seq(Timers) /\ Len(queue') = Len(queue) + 1
      /\ \A j \in 1 .. Len(queue) + 1 :
           queue'[j] = IF j < i THEN queue[j] ELSE IF j = i THEN t ELSE queue[j - 1]
  <2>1. /\ InsertAt(queue, i, t) \in Seq(Timers)
        /\ Len(InsertAt(queue, i, t)) = Len(queue) + 1
        /\ \A j \in 1 .. Len(queue) + 1 :
             InsertAt(queue, i, t)[j] =
               IF j < i THEN queue[j] ELSE IF j = i THEN t ELSE queue[j - 1]
    BY <1>2, InsertAtFacts, Zenon
  <2> QED BY <1>1, <2>1
<1>4. Contains(queue', t)
  <2>1. i \in 1 .. Len(queue') /\ queue'[i] = t
    BY <1>2, <1>3
  <2> QED BY <2>1 DEF Contains
<1>5. ASSUME NEW u \in Timers, u # t PROVE Contains(queue', u) <=> Contains(queue, u)
  <2>1. ASSUME Contains(queue', u) PROVE Contains(queue, u)
    <3>1. PICK j \in 1 .. Len(queue') : queue'[j] = u
      BY <2>1 DEF Contains
    <3>2. CASE j < i
      <4>1. j \in 1 .. Len(queue) /\ queue[j] = u
        BY <1>2, <1>3, <3>1, <3>2
      <4> QED BY <4>1 DEF Contains
    <3>3. CASE ~(j < i)
      <4>1. j # i
        BY <1>2, <1>3, <1>5, <3>1
      <4>2. j - 1 \in 1 .. Len(queue) /\ queue[j - 1] = u
        BY <1>2, <1>3, <3>1, <3>3, <4>1
      <4> QED BY <4>2 DEF Contains
    <3> QED BY <3>2, <3>3
  <2>2. ASSUME Contains(queue, u) PROVE Contains(queue', u)
    <3>1. PICK j \in 1 .. Len(queue) : queue[j] = u
      BY <2>2 DEF Contains
    <3>2. CASE j < i
      <4>1. j \in 1 .. Len(queue') /\ queue'[j] = u
        BY <1>2, <1>3, <3>1, <3>2
      <4> QED BY <4>1 DEF Contains
    <3>3. CASE ~(j < i)
      <4>1. j + 1 \in 1 .. Len(queue') /\ ~(j + 1 < i) /\ j + 1 # i /\ (j + 1) - 1 = j
        BY <1>2, <1>3, <3>3
      <4>2. queue'[j + 1] = u
        BY <1>3, <3>1, <4>1
      <4> QED BY <4>1, <4>2 DEF Contains
    <3> QED BY <3>2, <3>3
  <2> QED BY <2>1, <2>2
<1>6. Due'[t] = w /\ Due'[t] # Off
  BY <1>1, <1>2, <1>4, MainLoopAssumption DEF Due, timer_is_set
<1>7. Due' = [Due EXCEPT ![t] = Due'[t]]
  <2>1. ASSUME NEW u \in Timers, u # t PROVE Due'[u] = Due[u]
    BY <1>1, <1>2, <1>5, <2>1 DEF Due, timer_is_set
  <2>2. DOMAIN Due = Timers /\ DOMAIN Due' = Timers
    BY DEF Due
  <2>3. Due' = [u \in Timers |-> Due'[u]] /\ Due = [u \in Timers |-> Due[u]]
    BY DEF Due
  <2> QED BY <2>1, <2>2, <2>3
<1> QED BY <1>1, <1>2, <1>6, <1>7 DEF Service!Set, Due

\* Each step of the loop is one of the service, or none.
LEMMA RefineStep ==
  ASSUME ServiceInv, [Next]_vars
  PROVE  [Service!Next]_<<now, Due, running>>
<1> USE DEF Goto, OnlyPc, code, flags
<1>1. CASE CallHandler
  BY <1>1, FireStep DEF Service!Next
<1>2. CASE TimerInsert
  BY <1>2, InsertStep DEF Service!Next, ServiceInv
<1>3. ASSUME NEW t \in Timers, TimerReset(t) PROVE Service!Next
  <2>1. Due' = [Due EXCEPT ![t] = Off] /\ UNCHANGED <<now, running>>
    BY <1>3, ResetStep DEF TimerReset, ServiceInv
  <2> QED BY <2>1 DEF Service!Next, Service!Reset, Due
<1>4. ASSUME NEW t \in Timers, NEW d \in 0 .. MaxDelay, TimerSet(t, d)
      PROVE  [Service!Next]_<<now, Due, running>>
  <2>1. UNCHANGED <<now, running>> /\ when' = when
    BY <1>4 DEF TimerSet
  <2>2. CASE timer_is_set(t)
    <3>1. Due' = [Due EXCEPT ![t] = Off]
      BY <1>4, <2>1, <2>2, ResetStep DEF TimerSet, ServiceInv
    <3> QED BY <2>1, <3>1 DEF Service!Next, Service!Reset, Due
  <2>3. CASE ~timer_is_set(t)
    BY <1>4, <2>1, <2>3, SameDue DEF TimerSet
  <2> QED BY <2>2, <2>3
<1>5. CASE Tick
  <2>1. now' = now + 1 /\ Due' = Due /\ running' = running
    BY <1>5, SameDue DEF Tick
  <2> QED BY <2>1 DEF Service!Next, Service!Tick, Due
<1>6. CASE HandlerReturns
  <2>1. now' = now /\ Due' = Due /\ running' = Off
    BY <1>6, SameDue DEF HandlerReturns
  <2> QED BY <2>1 DEF Service!Next, Service!Done, Due
<1>7. ASSUME UNCHANGED <<now, queue, when, running>> PROVE UNCHANGED <<now, Due, running>>
  BY <1>7, SameDue
<1>8. CASE UNCHANGED vars
  BY <1>7, <1>8 DEF vars
<1>9. CASE Expire \/ (\E c \in Children : ChildDies(c)) \/ (\E s \in Signals : UserSignal(s) \/ Deliver(s))
           \/ Readable \/ XReadable
  BY <1>7, <1>9 DEF Expire, ChildDies, UserSignal, Deliver, Readable, XReadable
<1>10. CASE CheckUsr2 \/ CheckChld \/ NoneToReap \/ CheckKill \/ CheckTimers \/ GetTime
            \/ NoneDue \/ \E c \in Children : Reap(c)
  BY <1>7, <1>10 DEF CheckUsr2, CheckChld, NoneToReap, CheckKill, CheckTimers, GetTime, NoneDue, Reap
<1>11. CASE SetTimeout \/ SetItimer
  BY <1>7, <1>11 DEF SetTimeout, SetItimer
<1>12. CASE Loop
  BY <1>7, <1>12 DEF Loop, XEvent, EnterSelect, TestSignals, EnterPselect, Unmask, EventDone,
     GetEvent, GotEvent, NoEvent, Spawn
<1> QED BY <1>1, <1>2, <1>3, <1>4, <1>5, <1>6, <1>8, <1>9, <1>10, <1>11, <1>12
        DEF Next, Environment, CheckSignals, TimerOps

\* The timers of the loop do what TimerService promises: a handler runs once, after
\* the moment its timer was last set to, in the order of the moments and never
\* within another, whatever sets and resets timers in between (signal.c).
THEOREM LoopImplementsService == Spec => ImplementsService
<1>1. Init => ServiceInv /\ Service!Init
  <2> SUFFICES ASSUME Init PROVE ServiceInv /\ Service!Init
    OBVIOUS
  <2>1. cur <= now /\ RunningOK
    BY DEF Init, RunningOK
  <2>2. Due = [t \in Timers |-> Off]
    <3>1. Len(queue) = 0
      BY DEF Init
    <3> QED BY <3>1 DEF Due, timer_is_set, Contains
  <2> QED BY <2>1, <2>2, InitSound DEF ServiceInv, Service!Init, Due, Init
<1>2. ServiceInv /\ [Next]_vars => ServiceInv'
  BY ServiceStep, StepSound DEF ServiceInv
<1>3. ServiceInv /\ [Next]_vars => [Service!Next]_(Service!vars)
  BY RefineStep DEF Service!vars, Due
<1> QED BY <1>1, <1>2, <1>3, PTL DEF Spec, ImplementsService, Service!Spec

-----------------------------------------------------------------------------
(* The interval timer *)

\* While the program takes no time of its own the interval timer is set to the moment of
\* the first timer, or before, unless it has expired or is to be set anew.
InTime ==
  ~slow =>
    /\ pc = "itimer" => queue # <<>> /\ now + wait = when[Head(queue)]
    /\ queue # <<>> /\ "ALRM" \notin pending /\ ~had_tmr /\ ~Rearming =>
         itimer <= when[Head(queue)]

\* A step of a program that takes no time keeps the interval timer in time.
LEMMA InTimeStep ==
  ASSUME IInv, InTime, [MCNext]_<<vars, slow>>, slow \in BOOLEAN
  PROVE  InTime'
<1> USE DEF Goto, OnlyPc, code, flags
<1>1. CASE UNCHANGED <<vars, slow>>
  BY <1>1 DEF vars, InTime, Rearming
<1> SUFFICES ASSUME Next, slow' = (slow \/ (now' # now /\ ~Asleep)), ~slow' PROVE InTime'
  BY <1>1 DEF MCNext, InTime
<1>2. TypeOK /\ ~slow /\ (now' = now \/ Asleep)
  BY DEF IInv
<1>3. /\ pc = "itimer" => queue # <<>> /\ now + wait = when[Head(queue)]
      /\ queue # <<>> /\ "ALRM" \notin pending /\ ~had_tmr /\ ~Rearming =>
           itimer <= when[Head(queue)]
  BY <1>2 DEF InTime
<1>4. queue # <<>> /\ "ALRM" \notin pending /\ ~had_tmr /\ ~Rearming => itimer # Off
  BY DEF IInv, Alarmed
<1>5. CASE Tick
  BY <1>2, <1>3, <1>5 DEF Tick, Asleep, InTime, Rearming
<1>6. CASE Expire
  BY <1>3, <1>6 DEF Expire, Raise, InTime, Rearming
<1>7. CASE (\E c \in Children : ChildDies(c)) \/ (\E s \in Signals : UserSignal(s))
  BY <1>3, <1>7 DEF ChildDies, UserSignal, Raise, InTime, Rearming
<1>8. ASSUME NEW s \in Signals, Deliver(s) PROVE InTime'
  BY <1>2, <1>3, <1>8 DEF Deliver, Wake, InTime, Rearming, TypeOK
<1>9. CASE Readable \/ XReadable \/ CheckUsr2 \/ CheckChld \/ NoneToReap \/ CheckKill
  BY <1>3, <1>9 DEF Readable, XReadable, CheckUsr2, CheckChld, NoneToReap, CheckKill, InTime, Rearming
<1>10. CASE CheckTimers \/ GetTime \/ \E c \in Children : Reap(c)
  BY <1>3, <1>10 DEF CheckTimers, Leave, GetTime, Reap, InTime, Rearming
<1>11. CASE CallHandler \/ HandlerReturns \/ NoneDue
  BY <1>11 DEF CallHandler, HandlerReturns, NoneDue, InTime, Rearming
<1>12. CASE SetTimeout
  <2>1. pc = "set" /\ UNCHANGED <<back, now, queue, when, pending>> /\ back # "itimer"
    BY <1>2, <1>12 DEF SetTimeout, TypeOK
  <2>2. CASE queue = <<>>
    BY <1>12, <2>1, <2>2 DEF SetTimeout, InTime
  <2>3. CASE queue # <<>>
    <3>1. when[Head(queue)] \in Nat /\ now \in Nat
      BY <1>2, <2>3, HeadTailProperties DEF TypeOK
    <3>2. CASE when[Head(queue)] > now
      <4>1. pc' = "itimer" /\ wait' = when[Head(queue)] - now
        BY <1>12, <2>3, <3>2 DEF SetTimeout
      <4>2. now + (when[Head(queue)] - now) = when[Head(queue)]
        BY <3>1
      <4> QED BY <2>1, <2>3, <4>1, <4>2 DEF InTime, Rearming
    <3>3. CASE ~(when[Head(queue)] > now)
      BY <1>12, <2>1, <2>3, <3>3 DEF SetTimeout, InTime
    <3> QED BY <3>2, <3>3
  <2> QED BY <2>2, <2>3
<1>13. CASE SetItimer
  <2>1. /\ pc = "itimer" /\ pc' = back /\ back # "itimer"
        /\ UNCHANGED <<now, queue, when, pending>>
        /\ itimer' = now + wait \/ had_tmr' = TRUE
    BY <1>2, <1>13 DEF SetItimer, TypeOK
  <2>2. when[Head(queue)] \in Nat /\ now + wait = when[Head(queue)]
    BY <1>2, <1>3, <2>1, HeadTailProperties DEF TypeOK
  <2> QED BY <2>1, <2>2 DEF InTime
<1>14. CASE TimerInsert
  BY <1>14 DEF TimerInsert, InTime, Rearming
<1>15. CASE \E t \in Timers : TimerReset(t)
  BY <1>15 DEF TimerReset, InTime, Rearming
<1>16. CASE \E t \in Timers, d \in 0 .. MaxDelay : TimerSet(t, d)
  BY <1>16 DEF TimerSet, InTime, Rearming
<1>17. CASE Loop
  BY <1>3, <1>17 DEF Loop, XEvent, EnterSelect, TestSignals, EnterPselect, Unmask, EventDone,
     GetEvent, GotEvent, NoEvent, Spawn, InTime, Rearming, Free
<1> QED BY <1>5, <1>6, <1>7, <1>8, <1>9, <1>10, <1>11, <1>12, <1>13, <1>14, <1>15, <1>16, <1>17
        DEF Next, Environment, CheckSignals, TimerOps

\* A program that takes no time of its own sleeps with the interval timer set to the moment
\* of the first timer or before, for any timers, delays and failures of setitimer
\* (do_timer_set, libmainloop_get_timeout).
THEOREM AlwaysOnTime == MCSpec => []OnTime
<1>1. MCInit => IInv /\ InTime /\ slow \in BOOLEAN
  BY InitSound DEF MCInit, Init, InTime
<1>2. IInv /\ InTime /\ slow \in BOOLEAN /\ [MCNext]_<<vars, slow>>
        => IInv' /\ InTime' /\ (slow \in BOOLEAN)'
  <2> SUFFICES ASSUME IInv, InTime, slow \in BOOLEAN, [MCNext]_<<vars, slow>>
               PROVE  IInv' /\ InTime' /\ (slow \in BOOLEAN)'
    OBVIOUS
  <2>1. IInv'
    <3>1. [Next]_vars
      BY DEF MCNext
    <3> QED BY <3>1, StepSound
  <2>2. slow' \in BOOLEAN
    BY DEF MCNext
  <2> QED BY <2>1, <2>2, InTimeStep
<1>3. IInv /\ InTime => OnTime
  BY DEF IInv, Quiet, InTime, OnTime, Rearming
<1> QED BY <1>1, <1>2, <1>3, PTL DEF MCSpec
=============================================================================
