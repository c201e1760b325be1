---------------------------- MODULE Query_proof ----------------------------
(***************************************************************************)
(* A query asks for completions of every change of its line, and takes the *)
(* answers for what they answer, whatever the lines, the history, the      *)
(* number of operations and the order in which programs answer.  The ring  *)
(* of the history (mod_query/history.c) implements the list of             *)
(* HistoryList, whatever its size and the strings: each of its steps is a  *)
(* step of the list, or none.                                              *)
(***************************************************************************)
EXTENDS Query, WellFoundedInduction, SequenceTheorems, TLAPS

-----------------------------------------------------------------------------
(* The history *)

IInv == HistoryTypeOK /\ EntriesDistinct

\* Indices are at most once around the ring.
LEMMA ModFacts ==
  ASSUME NEW H \in Nat \ {0}, NEW a \in 0 .. H - 1, NEW b \in 0 .. H - 1
  PROVE  (a + b) % H = IF a + b < H THEN a + b ELSE a + b - H
  OBVIOUS

\* Different indices are different places, all in the ring; the place before
\* the first is the last of a ring that is full.
LEMMA IndexFacts ==
  ASSUME hist_head \in 0 .. HISTORY_SIZE - 1
  PROVE  /\ \A i \in 0 .. HISTORY_SIZE - 1 :
              /\ Index(i) \in 0 .. HISTORY_SIZE - 1
              /\ Index(i) = IF hist_head + i < HISTORY_SIZE THEN hist_head + i
                            ELSE hist_head + i - HISTORY_SIZE
         /\ \A i, j \in 0 .. HISTORY_SIZE - 1 : Index(i) = Index(j) => i = j
         /\ Before(hist_head) = Index(HISTORY_SIZE - 1)
<1>1. ASSUME NEW i \in 0 .. HISTORY_SIZE - 1
      PROVE  Index(i) = IF hist_head + i < HISTORY_SIZE THEN hist_head + i
                        ELSE hist_head + i - HISTORY_SIZE
  BY ModFacts, HistoryAssumption DEF Index
<1> QED BY <1>1, HistoryAssumption DEF Before

\* The first place of the ring moves back by one, so that the i-th entry
\* is where the one before it was.
LEMMA IndexMoves ==
  ASSUME hist_head \in 0 .. HISTORY_SIZE, hist_head' = Before(hist_head)
  PROVE  /\ hist_head' \in 0 .. HISTORY_SIZE - 1
         /\ Index(0)' = hist_head'
         /\ hist_head # HISTORY_SIZE =>
              \A i \in 1 .. HISTORY_SIZE - 1 : Index(i)' = Index(i - 1)
<1>1. hist_head' \in 0 .. HISTORY_SIZE - 1
  BY HistoryAssumption DEF Before
<1>2. ASSUME NEW i \in 0 .. HISTORY_SIZE - 1
      PROVE  Index(i)' = IF hist_head' + i < HISTORY_SIZE THEN hist_head' + i
                         ELSE hist_head' + i - HISTORY_SIZE
  BY <1>1, ModFacts, HistoryAssumption DEF Index
<1>3. Index(0)' = hist_head'
  BY <1>1, <1>2, HistoryAssumption
<1>4. ASSUME hist_head # HISTORY_SIZE, NEW i \in 1 .. HISTORY_SIZE - 1
      PROVE  Index(i)' = Index(i - 1)
  <2>1. Index(i - 1) = IF hist_head + (i - 1) < HISTORY_SIZE THEN hist_head + (i - 1)
                       ELSE hist_head + (i - 1) - HISTORY_SIZE
    BY <1>4, IndexFacts, HistoryAssumption
  <2> QED BY <1>2, <1>4, <2>1, HistoryAssumption DEF Before
<1> QED BY <1>1, <1>3, <1>4

\* What the loop that closes the gap leaves at each place in use.
LEMMA RemovedFacts ==
  ASSUME HistoryTypeOK, NEW k \in 1 .. hist_count - 1
  PROVE  /\ Removed(k) \in [0 .. HISTORY_SIZE - 1 -> Entries \cup {NoEntry}]
         /\ \A i \in 0 .. hist_count - 2 :
              Removed(k)[Index(i)] = IF i < k THEN Get[i] ELSE Get[i + 1]
<1>1. hist_head \in 0 .. HISTORY_SIZE - 1 /\ hist_count \in 0 .. HISTORY_SIZE
  BY HistoryAssumption DEF HistoryTypeOK
<1>2. ASSUME NEW i \in k .. hist_count - 2
      PROVE  (CHOOSE n \in k .. hist_count - 2 : Index(i) = Index(n)) = i
  BY <1>1, IndexFacts, HistoryAssumption
<1>3. ASSUME NEW i \in k .. hist_count - 2
      PROVE  Removed(k)[Index(i)] = hist[Index(i + 1)]
  <2>1. Index(i) \in DOMAIN hist
    BY <1>1, IndexFacts, HistoryAssumption DEF HistoryTypeOK
  <2> QED BY <1>2, <2>1 DEF Removed
<1>4. ASSUME NEW j \in 0 .. HISTORY_SIZE - 1, \A i \in k .. hist_count - 2 : j # Index(i)
      PROVE  Removed(k)[j] = hist[j]
  BY <1>4 DEF Removed, HistoryTypeOK
<1>5. ASSUME NEW j \in 0 .. HISTORY_SIZE - 1
      PROVE  Removed(k)[j] \in Entries \cup {NoEntry}
  <2>1. CASE \E i \in k .. hist_count - 2 : j = Index(i)
    <3>1. PICK i \in k .. hist_count - 2 : j = Index(i)
      BY <2>1
    <3>2. Index(i + 1) \in 0 .. HISTORY_SIZE - 1
      BY <1>1, IndexFacts, HistoryAssumption
    <3> QED BY <1>3, <3>1, <3>2 DEF HistoryTypeOK
  <2>2. CASE \A i \in k .. hist_count - 2 : j # Index(i)
    BY <1>4, <2>2 DEF HistoryTypeOK
  <2> QED BY <2>1, <2>2
<1>6. Removed(k) \in [0 .. HISTORY_SIZE - 1 -> Entries \cup {NoEntry}]
  <2>1. Removed(k) = [j \in 0 .. HISTORY_SIZE - 1 |-> Removed(k)[j]]
    BY DEF Removed, HistoryTypeOK
  <2> QED BY <1>5, <2>1
<1>7. ASSUME NEW i \in 0 .. hist_count - 2
      PROVE  Removed(k)[Index(i)] = IF i < k THEN Get[i] ELSE Get[i + 1]
  <2>1. CASE i < k
    <3>1. Index(i) \in 0 .. HISTORY_SIZE - 1 /\ \A n \in k .. hist_count - 2 : Index(i) # Index(n)
      BY <1>1, <2>1, IndexFacts, HistoryAssumption
    <3>2. Removed(k)[Index(i)] = hist[Index(i)]
      BY <1>4, <3>1
    <3> QED BY <1>1, <2>1, <3>2 DEF Get
  <2>2. CASE i >= k
    BY <1>1, <1>3, <2>2 DEF Get
  <2> QED BY <1>1, <2>1, <2>2
<1> QED BY <1>6, <1>7

\* What a string that was in the history leaves of it when it is pushed.
LEMMA PushKnown ==
  ASSUME HistoryTypeOK, NEW e \in Entries,
         NEW k \in 1 .. hist_count - 1, Prepend(e, Removed(k), hist_count - 1)
  PROVE  /\ HistoryTypeOK' /\ hist_count' = hist_count
         /\ Get' = [i \in 0 .. hist_count - 1 |->
                      IF i = 0 THEN e ELSE IF i <= k THEN Get[i - 1] ELSE Get[i]]
<1>1. hist_head \in 0 .. HISTORY_SIZE - 1 /\ hist_count \in 0 .. HISTORY_SIZE
  BY HistoryAssumption DEF HistoryTypeOK
<1>2. hist_head' = Before(hist_head) /\ hist_count' = hist_count
  BY <1>1, HistoryAssumption DEF Prepend
<1>3. hist' = [Removed(k) EXCEPT ![hist_head'] = e]
  BY <1>2 DEF Prepend
<1>4. HistoryTypeOK'
  BY <1>1, <1>2, <1>3, IndexMoves, RemovedFacts, HistoryAssumption DEF HistoryTypeOK
<1>5. Get' = [i \in 0 .. hist_count - 1 |-> hist'[Index(i)']]
  BY <1>2 DEF Get
<1>6. hist'[Index(0)'] = e
  <2>1. Removed(k) \in [0 .. HISTORY_SIZE - 1 -> Entries \cup {NoEntry}]
    BY RemovedFacts
  <2>2. Index(0)' = hist_head' /\ hist_head' \in 0 .. HISTORY_SIZE - 1
    BY <1>1, <1>2, IndexMoves, HistoryAssumption
  <2> QED BY <1>3, <2>1, <2>2
<1>7. ASSUME NEW i \in 1 .. hist_count - 1
      PROVE  hist'[Index(i)'] = IF i <= k THEN Get[i - 1] ELSE Get[i]
  <2>1. Index(i)' = Index(i - 1) /\ Index(i - 1) # hist_head'
    BY <1>1, <1>2, IndexMoves, IndexFacts, HistoryAssumption
  <2>2. hist'[Index(i)'] = Removed(k)[Index(i - 1)]
    BY <1>1, <1>3, <2>1, IndexFacts, RemovedFacts, HistoryAssumption
  <2> QED BY <1>1, <2>2, RemovedFacts
<1> QED BY <1>1, <1>2, <1>4, <1>5, <1>6, <1>7

\* What a new string leaves of the history when it is pushed.
LEMMA PushNew ==
  ASSUME HistoryTypeOK, NEW e \in Entries, Prepend(e, hist, hist_count)
  PROVE  /\ HistoryTypeOK'
         /\ hist_count' = IF hist_count = HISTORY_SIZE THEN hist_count ELSE hist_count + 1
         /\ Get' = [i \in 0 .. hist_count' - 1 |-> IF i = 0 THEN e ELSE Get[i - 1]]
<1>1. hist_head \in 0 .. HISTORY_SIZE /\ hist_count \in 0 .. HISTORY_SIZE
  BY DEF HistoryTypeOK
<1>2. /\ hist_head' = Before(hist_head)
      /\ hist_count' = IF hist_count = HISTORY_SIZE THEN hist_count ELSE hist_count + 1
      /\ hist' = [hist EXCEPT ![hist_head'] = e]
  BY DEF Prepend
<1>3. HistoryTypeOK'
  BY <1>1, <1>2, IndexMoves, HistoryAssumption DEF HistoryTypeOK
<1>4. Get' = [i \in 0 .. hist_count' - 1 |-> hist'[Index(i)']]
  BY DEF Get
<1>5. hist'[Index(0)'] = e
  BY <1>1, <1>2, IndexMoves DEF HistoryTypeOK
<1>6. ASSUME NEW i \in 1 .. hist_count' - 1 PROVE hist'[Index(i)'] = Get[i - 1]
  <2>1. hist_head \in 0 .. HISTORY_SIZE - 1
    BY <1>1, <1>2, HistoryAssumption DEF HistoryTypeOK
  <2>2. Index(i)' = Index(i - 1) /\ Index(i - 1) # hist_head' /\ i - 1 \in 0 .. hist_count - 1
    BY <1>1, <1>2, <2>1, IndexMoves, IndexFacts, HistoryAssumption
  <2> QED BY <1>1, <1>2, <2>1, <2>2, IndexFacts, HistoryAssumption DEF Get, HistoryTypeOK
<1> QED BY <1>1, <1>2, <1>3, <1>4, <1>5, <1>6

\* An empty history is sound.
LEMMA InitSound == HistoryInit => IInv
  BY HistoryAssumption DEF HistoryInit, IInv, HistoryTypeOK, EntriesDistinct, Get

\* A push is a push of the list: the place that is left free is the one the
\* string had, or one behind the last.
LEMMA PushStep ==
  ASSUME IInv, NEW e \in Entries, mod_query_history_push_(e)
  PROVE  /\ IInv'
         /\ UNCHANGED history \/ List!Push(e)
<1> DEFINE entries == [i \in 1 .. hist_count |-> Get[i - 1]]
<1> USE DEF IInv
<1>0. hist_count \in 0 .. HISTORY_SIZE /\ DOMAIN Get = 0 .. hist_count - 1
  BY DEF HistoryTypeOK, Get
<1>1. CASE UNCHANGED history
  BY <1>1 DEF history, HistoryTypeOK, EntriesDistinct, Get, Index
<1>2. ASSUME NEW k \in 1 .. hist_count - 1, Get[k] = e, Prepend(e, Removed(k), hist_count - 1)
      PROVE  IInv' /\ List!Push(e)
  <2>1. /\ HistoryTypeOK' /\ hist_count' = hist_count
        /\ Get' = [i \in 0 .. hist_count - 1 |->
                     IF i = 0 THEN e ELSE IF i <= k THEN Get[i - 1] ELSE Get[i]]
    BY <1>2, PushKnown
  <2>2. EntriesDistinct'
    BY <1>0, <1>2, <2>1 DEF EntriesDistinct
  <2>3. (CHOOSE n \in DOMAIN entries : entries[n] = e) = k + 1
    BY <1>0, <1>2 DEF EntriesDistinct
  <2>4. List!Vacated(e) = k + 1
    <3>1. k + 1 \in DOMAIN entries /\ entries[k + 1] = e
      BY <1>0, <1>2
    <3> QED BY <2>3, <3>1 DEF List!Vacated
  <2>5. entries' = [i \in (DOMAIN entries) \cup {List!Vacated(e)} |->
                      IF i = 1 THEN e
                      ELSE IF i <= List!Vacated(e) THEN entries[i - 1] ELSE entries[i]]
    BY <1>0, <1>2, <2>1, <2>4
  <2>6. List!Push(e)
    BY <2>5 DEF List!Push
  <2> QED BY <2>1, <2>2, <2>6
<1>3. ASSUME \A k \in DOMAIN Get : Get[k] # e, Prepend(e, hist, hist_count)
      PROVE  IInv' /\ List!Push(e)
  <2>1. /\ HistoryTypeOK'
        /\ hist_count' = IF hist_count = HISTORY_SIZE THEN hist_count ELSE hist_count + 1
        /\ Get' = [i \in 0 .. hist_count' - 1 |-> IF i = 0 THEN e ELSE Get[i - 1]]
    BY <1>3, PushNew
  <2>2. EntriesDistinct'
    BY <1>0, <1>3, <2>1, HistoryAssumption DEF EntriesDistinct
  <2>3. List!Vacated(e) = hist_count'
    <3>1. \A n \in DOMAIN entries : entries[n] # e
      BY <1>0, <1>3
    <3>2. Len(entries) = hist_count
      BY <1>0, HistoryAssumption
    <3> QED BY <1>0, <2>1, <3>1, <3>2, HistoryAssumption DEF List!Vacated
  <2>4. entries' = [i \in (DOMAIN entries) \cup {hist_count'} |->
                      IF i = 1 THEN e ELSE IF i <= hist_count' THEN entries[i - 1] ELSE entries[i]]
    BY <1>0, <2>1, HistoryAssumption
  <2> QED BY <2>1, <2>2, <2>3, <2>4 DEF List!Push
<1> QED BY <1>1, <1>2, <1>3 DEF mod_query_history_push_

\* Clearing the ring is clearing the list.
LEMMA ClearStep ==
  ASSUME IInv, mod_query_history_clear
  PROVE  IInv' /\ List!Clear
  BY HistoryAssumption DEF IInv, mod_query_history_clear, history, HistoryTypeOK, EntriesDistinct,
     Get, List!Clear

\* Every step of the ring is one of the list, or leaves it.
LEMMA Step ==
  ASSUME IInv, [HistoryNext]_history
  PROVE  IInv' /\ (UNCHANGED history \/ List!Next)
<1>1. CASE UNCHANGED history
  BY <1>1 DEF IInv, history, HistoryTypeOK, EntriesDistinct, Get, Index
<1>2. CASE mod_query_history_clear
  BY <1>2, ClearStep DEF List!Next
<1>3. ASSUME NEW e \in Entries, mod_query_history_push_(e)
      PROVE  IInv' /\ (UNCHANGED history \/ List!Next)
  BY <1>3, PushStep DEF List!Next
<1> QED BY <1>1, <1>2, <1>3 DEF HistoryNext

\* Every history is in order: its indices are in the ring, none of its strings
\* is NoEntry, and none is there twice (mod_query/history.c).
THEOREM HistorySound == HistorySpec => []IInv
<1>1. HistoryInit => IInv
  BY InitSound
<1>2. IInv /\ [HistoryNext]_history => IInv'
  BY Step
<1> QED BY <1>1, <1>2, PTL DEF HistorySpec

\* No string is in the history twice, and none that was not pushed.
THEOREM HistoryDistinct == HistorySpec => []EntriesDistinct
<1>1. IInv => EntriesDistinct
  BY DEF IInv
<1> QED BY <1>1, HistorySound, PTL

\* The ring implements the list.
THEOREM HistoryImplementsList == HistorySpec => HistoryIsList
<1>1. HistoryInit => List!Init
  BY DEF HistoryInit, List!Init, Get
<1>2. IInv /\ [HistoryNext]_history => [List!Next]_([i \in 1 .. hist_count |-> Get[i - 1]])
  <2>1. UNCHANGED history => UNCHANGED [i \in 1 .. hist_count |-> Get[i - 1]]
    BY DEF history, Get, Index
  <2> QED BY <2>1, Step
<1> QED BY <1>1, <1>2, HistorySound, PTL DEF HistorySpec, HistoryIsList, List!Spec

\* So do its steps from any history that is there already.
THEOREM HistoryKeepsList == IInv /\ [][HistoryNext]_history => HistoryStaysList
<1>1. IInv /\ [HistoryNext]_history => IInv'
  BY Step
<1>2. IInv /\ [HistoryNext]_history => [List!Next]_history
  BY Step
<1> QED BY <1>1, <1>2, PTL DEF HistoryStaysList

-----------------------------------------------------------------------------
(* The query *)

Edln ==
  [open : BOOLEAN, line : Lines, before : Lines, histent : Int, saved : Lines \cup {NULL},
   waiting : Int, current : Int, timed : Int, timer : BOOLEAN, list : Seq(Lines), sel : Nat,
   histmode : BOOLEAN, runs : Nat, done : Nat, fresh : BOOLEAN]
Proxy == [id : Int, cycle : {-1, 0, 1}, run : Nat, line : Lines]

\* A WEdln that is in order: the point is on the line, the line that was there
\* before the history was looked at is kept, the selected completion exists
LineOK(u) ==
  /\ u \in Edln /\ u.before <= u.line
  /\ u.histent >= 0 => u.saved \in Lines
  /\ u.sel <= Len(u.list)

\* What no operation on the list of completions changes
Same(u, v) ==
  /\ v.open = u.open /\ v.timer = u.timer /\ v.timed = u.timed
  /\ v.fresh = u.fresh /\ v.waiting = u.waiting /\ v.runs = u.runs

-----------------------------------------------------------------------------
(* Numbers, sequences, the history *)

\* A set of numbers that is not empty has a least one.
LEMMA NatMin ==
  ASSUME NEW T \in SUBSET Nat, T # {}
  PROVE  \E n \in T : \A m \in T : n <= m
<1> DEFINE R == {p \in Nat \X Nat : p[1] < p[2]}
<1>1. IsWellFoundedOn(R, Nat)
  <2>1. R = OpToRel(<, Nat)
    BY DEF OpToRel
  <2> QED BY <2>1, NatLessThanWellFounded
<1>2. \E n \in T : \A m \in T : ~(<<m, n>> \in R)
  <2> HIDE DEF R
  <2> QED BY <1>1, WFMin
<1>3. PICK n \in T : \A m \in T : ~(<<m, n>> \in R)
  BY <1>2
<1>4. ASSUME NEW m \in T PROVE n <= m
  <2>1. <<m, n>> \in Nat \X Nat
    OBVIOUS
  <2> QED BY <1>3, <2>1
<1> QED BY <1>4

\* An entry of the context holds a line.
LEMMA EntryLine ==
  ASSUME IInv, NEW i \in DOMAIN Get
  PROVE  Get[i][2] \in Lines /\ i \in Nat
<1>1. Get[i] \in {Context, Foreign} \X Lines
  BY QueryAssumption DEF IInv, EntriesDistinct
<1>2. DOMAIN Get = 0 .. hist_count - 1
  BY DEF Get
<1> QED BY <1>1, <1>2

\* The loop over the history, up to its n-th entry
Loop(u, f, n) ==
  f = [i \in 0 .. n |->
         IF i = 0 THEN <<>>
         ELSE IF InContext(i - 1) /\ u.before <= Get[i - 1][2] THEN Append(f[i - 1], Get[i - 1][2])
         ELSE f[i - 1]]

\* The loop ends, and what it has found are lines.
LEMMA LoopEnds ==
  ASSUME NEW u, NEW n \in Nat
  PROVE  \E f : Loop(u, f, n)
<1> DEFINE T == {m \in Nat : ~\E f : Loop(u, f, m)}
<1>1. SUFFICES ASSUME T # {} PROVE FALSE
  OBVIOUS
<1>2. PICK m \in T : \A k \in T : m <= k
  <2>1. T \in SUBSET Nat
    OBVIOUS
  <2> HIDE DEF T
  <2> QED BY <1>1, <2>1, NatMin
<1>3. CASE m = 0
  <2>1. Loop(u, [i \in 0 .. m |-> <<>>], m)
    BY <1>3 DEF Loop
  <2> QED BY <2>1
<1>4. CASE m # 0
  <2>1. m \in Nat /\ m - 1 \in Nat /\ m - 1 \notin T
    BY <1>2, <1>4
  <2>2. PICK f : Loop(u, f, m - 1)
    BY <2>1
  <2> DEFINE g == [i \in 0 .. m |->
         IF i < m THEN f[i]
         ELSE IF InContext(i - 1) /\ u.before <= Get[i - 1][2] THEN Append(f[i - 1], Get[i - 1][2])
         ELSE f[i - 1]]
  <2>3. ASSUME NEW i \in 0 .. m
        PROVE  g[i] = IF i = 0 THEN <<>>
                      ELSE IF InContext(i - 1) /\ u.before <= Get[i - 1][2]
                           THEN Append(g[i - 1], Get[i - 1][2])
                      ELSE g[i - 1]
    <3>1. CASE i < m
      <4>1. i \in 0 .. m - 1 /\ g[i] = f[i] /\ (i # 0 => g[i - 1] = f[i - 1])
        BY <2>1, <3>1
      <4>2. f[i] = IF i = 0 THEN <<>>
                   ELSE IF InContext(i - 1) /\ u.before <= Get[i - 1][2]
                        THEN Append(f[i - 1], Get[i - 1][2])
                   ELSE f[i - 1]
        BY <2>2, <4>1 DEF Loop
      <4> HIDE DEF g
      <4> QED BY <4>1, <4>2
    <3>2. CASE i = m
      BY <1>4, <2>1, <3>2
    <3> QED BY <2>1, <3>1, <3>2
  <2>4. Loop(u, g, m)
    <3> DEFINE h == [i \in 0 .. m |->
         IF i = 0 THEN <<>>
         ELSE IF InContext(i - 1) /\ u.before <= Get[i - 1][2] THEN Append(g[i - 1], Get[i - 1][2])
         ELSE g[i - 1]]
    <3>1. DOMAIN g = DOMAIN h
      OBVIOUS
    <3>2. \A i \in DOMAIN g : g[i] = h[i]
      <4> HIDE DEF g
      <4>1. DOMAIN g = 0 .. m
        BY DEF g
      <4> QED BY <2>3, <4>1
    <3>3. g = h
      <4>1. g = [i \in DOMAIN g |-> g[i]] /\ h = [i \in DOMAIN h |-> h[i]]
        OBVIOUS
      <4> HIDE DEF g, h
      <4> QED BY <3>1, <3>2, <4>1
    <3> QED BY <3>3 DEF Loop
  <2> QED BY <2>4
<1> QED BY <1>3, <1>4

\* The loop collects lines.
LEMMA LoopLines ==
  ASSUME IInv, NEW u, NEW n \in Nat, NEW f, Loop(u, f, n), NEW i \in 0 .. n
  PROVE  f[i] \in Seq(Lines)
<1> DEFINE T == {m \in 0 .. n : f[m] \notin Seq(Lines)}
<1>1. SUFFICES ASSUME T # {} PROVE FALSE
  OBVIOUS
<1>2. PICK m \in T : \A k \in T : m <= k
  <2>1. T \in SUBSET Nat
    OBVIOUS
  <2> HIDE DEF T
  <2> QED BY <1>1, <2>1, NatMin
<1>3. f[m] = IF m = 0 THEN <<>>
             ELSE IF InContext(m - 1) /\ u.before <= Get[m - 1][2] THEN Append(f[m - 1], Get[m - 1][2])
             ELSE f[m - 1]
  BY <1>2 DEF Loop
<1>4. m # 0 => f[m - 1] \in Seq(Lines)
  BY <1>2
<1>5. InContext(m - 1) => Get[m - 1][2] \in Lines
  BY EntryLine DEF InContext
<1>6. f[m] \notin Seq(Lines)
  BY <1>2
<1>7. CASE m # 0 /\ InContext(m - 1) /\ u.before <= Get[m - 1][2]
  BY <1>3, <1>4, <1>5, <1>6, <1>7, AppendProperties
<1>8. CASE ~(m # 0 /\ InContext(m - 1) /\ u.before <= Get[m - 1][2])
  BY <1>3, <1>4, <1>6, <1>8
<1> QED BY <1>7, <1>8

\* The matches of the history are a list of lines.
LEMMA MatchesLines ==
  ASSUME IInv, NEW u
  PROVE  HistoryMatches(u) \in Seq(Lines)
<1>1. hist_count \in Nat
  BY HistoryAssumption DEF IInv, HistoryTypeOK
<1> DEFINE f == CHOOSE f : Loop(u, f, hist_count)
<1>2. Loop(u, f, hist_count)
  BY <1>1, LoopEnds
<1>3. HistoryMatches(u) = f[hist_count]
  BY Zenon DEF HistoryMatches, Loop
<1> HIDE DEF f
<1> QED BY <1>1, <1>2, <1>3, LoopLines

-----------------------------------------------------------------------------
(* The operations on a WEdln *)

\* wedln_alloc_compl_id gives the next number.
LEMMA AllocFacts ==
  ASSUME NEW u \in Edln, u.waiting >= -1
  PROVE  Alloc(u) = [u EXCEPT !.waiting = u.waiting + 1] /\ u.waiting \in Int
<1>1. u.waiting \in Int
  BY DEF Edln
<1> QED BY <1>1 DEF Alloc

\* Another current completion is still a state of the line.
LEMMA CurrentFacts ==
  ASSUME NEW u \in Edln, NEW id \in Int
  PROVE  [u EXCEPT !.current = id] \in Edln
  BY DEF Edln

\* A change of the line asks for completions by the timer, if shown automatically.
LEMMA ChangedFacts ==
  ASSUME NEW u, LineOK(u), u.waiting >= -1, autoshow \in BOOLEAN
  PROVE  /\ LineOK(Changed(u)) /\ Changed(u).line = u.line
         /\ ~autoshow => Changed(u) = u
         /\ autoshow => /\ Changed(u).waiting = u.waiting + 1 /\ Changed(u).timed = u.waiting + 1
                        /\ Changed(u).current = -1 /\ Changed(u).timer
                        /\ Changed(u).runs = u.runs /\ Changed(u).done = u.done
<1>1. CASE ~autoshow
  BY <1>1 DEF Changed
<1>2. CASE autoshow
  <2>1. Changed(u) = [u EXCEPT !.waiting = u.waiting + 1, !.current = -1, !.timed = u.waiting + 1,
                               !.timer = TRUE, !.fresh = TRUE]
    <3>1. u \in Edln
      BY DEF LineOK
    <3>2. Alloc(u) = [u EXCEPT !.waiting = u.waiting + 1] /\ u.waiting \in Int
      BY <3>1, AllocFacts
    <3> QED BY <1>2, <3>1, <3>2 DEF Changed, Edln
  <2>2. u \in Edln /\ u.waiting + 1 \in Int
    BY DEF LineOK, Edln
  <2>3. Changed(u) \in Edln
    <3> DEFINE a == [u EXCEPT !.waiting = u.waiting + 1]
               b == [a EXCEPT !.current = -1]
               c == [b EXCEPT !.timed = u.waiting + 1]
               d == [c EXCEPT !.timer = TRUE]
    <3>1. a \in Edln
      BY <2>2 DEF Edln
    <3>2. b \in Edln
      <4> HIDE DEF a
      <4> QED BY <3>1 DEF Edln
    <3>3. c \in Edln
      <4> HIDE DEF b
      <4> QED BY <2>2, <3>2 DEF Edln
    <3>4. d \in Edln
      <4> HIDE DEF c
      <4> QED BY <3>3 DEF Edln
    <3>5. Changed(u) = [d EXCEPT !.fresh = TRUE]
      BY <2>1
    <3> HIDE DEF d
    <3> QED BY <3>4, <3>5 DEF Edln
  <2>4. /\ Changed(u).line = u.line /\ Changed(u).before = u.before
        /\ Changed(u).histent = u.histent /\ Changed(u).saved = u.saved
        /\ Changed(u).sel = u.sel /\ Changed(u).list = u.list
        /\ Changed(u).waiting = u.waiting + 1 /\ Changed(u).timed = u.waiting + 1
        /\ Changed(u).current = -1 /\ Changed(u).timer
        /\ Changed(u).runs = u.runs /\ Changed(u).done = u.done
    BY <2>1, <2>2 DEF Edln
  <2> QED BY <1>2, <2>3, <2>4 DEF LineOK
<1> QED BY <1>1, <1>2

\* Hiding completions leaves the line and the requests.
LEMMA HideFacts ==
  ASSUME NEW u, LineOK(u)
  PROVE  /\ LineOK(Hide(u)) /\ Same(u, Hide(u)) /\ Hide(u).line = u.line
         /\ Hide(u).current = u.current /\ Hide(u).done = u.done
<1>1. u \in Edln /\ <<>> \in Seq(Lines) /\ Len(<<>>) = 0
  BY EmptySeq DEF LineOK
<1>2. Hide(u) \in Edln
  BY <1>1 DEF Hide, Edln
<1>3. /\ Hide(u).before = u.before /\ Hide(u).histent = u.histent /\ Hide(u).saved = u.saved
      /\ Hide(u).sel = 0 /\ Hide(u).list = <<>> /\ Hide(u).line = u.line
      /\ Hide(u).current = u.current /\ Hide(u).done = u.done
  BY <1>1 DEF Hide, Edln
<1>4. Same(u, Hide(u))
  BY <1>1 DEF Same, Hide, Edln
<1> QED BY <1>1, <1>2, <1>3, <1>4 DEF LineOK

\* Setting the line leaves the requests and the completions.
LEMMA SetLineFacts ==
  ASSUME NEW u, LineOK(u), NEW l \in Lines
  PROVE  /\ LineOK(SetLine(u, l)) /\ Same(u, SetLine(u, l))
         /\ SetLine(u, l).current = u.current /\ SetLine(u, l).done = u.done
         /\ SetLine(u, l).list = u.list /\ SetLine(u, l).sel = u.sel
<1>1. l <= l
  BY QueryAssumption
<1>2. u \in Edln
  BY DEF LineOK
<1>3. SetLine(u, l) \in Edln
  <2> DEFINE a == [u EXCEPT !.line = l]
             b == [a EXCEPT !.before = l]
  <2>1. a \in Edln
    BY <1>2 DEF Edln
  <2>2. b \in Edln
    <3> HIDE DEF a
    <3> QED BY <2>1 DEF Edln
  <2>3. SetLine(u, l) = [b EXCEPT !.histent = -1]
    BY DEF SetLine
  <2> HIDE DEF b
  <2> QED BY <2>2, <2>3 DEF Edln
<1>4. /\ SetLine(u, l).before = l /\ SetLine(u, l).line = l /\ SetLine(u, l).histent = -1
      /\ SetLine(u, l).current = u.current /\ SetLine(u, l).done = u.done
      /\ SetLine(u, l).list = u.list /\ SetLine(u, l).sel = u.sel
  BY <1>2 DEF SetLine, Edln
<1>5. Same(u, SetLine(u, l))
  BY <1>2 DEF SetLine, Same, Edln
<1> QED BY <1>1, <1>3, <1>4, <1>5 DEF LineOK

\* The list that is set has the selected completion, and a common beginning.
LEMMA SetCompletionsFacts ==
  ASSUME NEW u, LineOK(u), NEW strs \in Seq(Lines), strs # <<>>,
         NEW cycle \in {-1, 0, 1}, NEW run \in Nat
  PROVE  LET x == SetCompletions(u, strs, cycle, run)
         IN LineOK(x) /\ Same(u, x) /\ x.current = -1 /\ x.done = run
<1> DEFINE sel == CASE cycle = 0 \/ ~autoshow -> 0 [] cycle > 0 /\ autoshow -> 1
                    [] OTHER -> Len(strs)
           common == CHOOSE l \in Range(strs) : \A k \in Range(strs) : l <= k
           v == [u EXCEPT !.current = -1, !.done = run]
           x == IF ~autoshow THEN SetLine(v, common)
                ELSE IF sel > 0 THEN SetLine(v, strs[sel]) ELSE v
<1>1. Len(strs) \in Nat /\ Len(strs) > 0 /\ DOMAIN strs = 1 .. Len(strs)
  BY EmptySeq, LenProperties
<1>2. sel \in 0 .. Len(strs)
  BY <1>1
<1>3. common \in Lines
  <2>1. Range(strs) \in SUBSET Lines /\ Range(strs) # {}
    BY <1>1 DEF Range
  <2>2. \E l \in Range(strs) : \A k \in Range(strs) : l <= k
    BY <2>1, NatMin, QueryAssumption
  <2> QED BY <2>1, <2>2
<1>4. LineOK(v) /\ Same(u, v) /\ v.current = -1 /\ v.done = run
  <2>1. u \in Edln
    BY DEF LineOK
  <2>2. v \in Edln
    <3> DEFINE a == [u EXCEPT !.current = -1]
    <3>1. a \in Edln
      BY <2>1, CurrentFacts
    <3>2. v = [a EXCEPT !.done = run]
      OBVIOUS
    <3> HIDE DEF a
    <3> QED BY <3>1, <3>2 DEF Edln
  <2>3. /\ v.before = u.before /\ v.line = u.line /\ v.histent = u.histent /\ v.saved = u.saved
        /\ v.list = u.list /\ v.sel = u.sel /\ v.current = -1 /\ v.done = run
    BY <2>1 DEF Edln
  <2>4. Same(u, v)
    BY <2>1 DEF Same, Edln
  <2> QED BY <2>2, <2>3, <2>4 DEF LineOK
<1>5. sel > 0 => strs[sel] \in Lines
  BY <1>1, <1>2, ElementOfSeq
<1>6. LineOK(x) /\ Same(u, x) /\ x.current = -1 /\ x.done = run
  <2> HIDE DEF v, sel, common
  <2>1. CASE ~autoshow
    BY <1>3, <1>4, <2>1, SetLineFacts DEF Same
  <2>2. CASE autoshow
    BY <1>4, <1>5, <2>2, SetLineFacts DEF Same
  <2> QED BY <2>1, <2>2
<1>7. SetCompletions(u, strs, cycle, run)
        = IF Shown(strs) THEN [x EXCEPT !.list = strs, !.sel = sel] ELSE x
  BY Zenon DEF SetCompletions
<1> HIDE DEF x, v, sel, common
<1>8. CASE Shown(strs)
  <2>1. SetCompletions(u, strs, cycle, run) = [x EXCEPT !.list = strs, !.sel = sel]
    BY <1>7, <1>8
  <2> DEFINE y == [x EXCEPT !.list = strs, !.sel = sel]
  <2>2. x \in Edln /\ sel \in Nat
    BY <1>2, <1>6 DEF LineOK
  <2>3. y \in Edln
    BY <2>2 DEF Edln
  <2>4. /\ y.before = x.before /\ y.line = x.line /\ y.histent = x.histent /\ y.saved = x.saved
        /\ y.list = strs /\ y.sel = sel /\ y.current = x.current /\ y.done = x.done
    BY <2>2 DEF Edln
  <2>5. Same(x, y)
    BY <2>2 DEF Same, Edln
  <2>6. Same(u, y)
    <3> HIDE DEF y
    <3> QED BY <1>6, <2>5 DEF Same
  <2>7. LineOK(y)
    BY <1>2, <1>6, <2>3, <2>4 DEF LineOK
  <2>8. SetCompletions(u, strs, cycle, run) = y /\ y.current = -1 /\ y.done = run
    BY <1>6, <2>1, <2>4
  <2> HIDE DEF y
  <2> QED BY <2>6, <2>7, <2>8
<1> QED BY <1>6, <1>7, <1>8

\* An answer is taken for the request it is an answer to, or not at all.
LEMMA AnswerFacts ==
  ASSUME NEW u, LineOK(u), NEW proxy \in Proxy, NEW strs \in Seq(Lines)
  PROVE  LET x == complproxy_set_completions(u, proxy, strs)
         IN /\ LineOK(x) /\ Same(u, x)
            /\ u.waiting # proxy.id => x = u
            /\ u.waiting = proxy.id => x.current = proxy.id /\ x.done = proxy.run
<1> DEFINE c == SetCompletions(u, strs, proxy.cycle, proxy.run)
           d == [u EXCEPT !.done = proxy.run]
           v == IF strs = <<>> THEN Hide(d) ELSE IF Shown(strs) THEN c ELSE Hide(c)
<1>1. LineOK(v) /\ Same(u, v) /\ v.done = proxy.run
  <2>1. CASE strs = <<>>
    <3>1. LineOK(d) /\ Same(u, d) /\ d.done = proxy.run
      BY DEF LineOK, Same, Edln, Proxy
    <3> HIDE DEF d
    <3> QED BY <2>1, <3>1, HideFacts DEF Same
  <2>2. CASE strs # <<>>
    <3>1. LineOK(c) /\ Same(u, c) /\ c.done = proxy.run
      BY <2>2, SetCompletionsFacts DEF Proxy
    <3> HIDE DEF c
    <3> QED BY <2>2, <3>1, HideFacts DEF Same
  <2> QED BY <2>1, <2>2
<1>2. complproxy_set_completions(u, proxy, strs)
        = IF u.waiting = proxy.id THEN [v EXCEPT !.current = proxy.id] ELSE u
  BY Zenon DEF complproxy_set_completions
<1> HIDE DEF v
<1>3. LineOK([v EXCEPT !.current = proxy.id]) /\ Same(u, [v EXCEPT !.current = proxy.id])
        /\ [v EXCEPT !.current = proxy.id].current = proxy.id
        /\ [v EXCEPT !.current = proxy.id].done = proxy.run
  BY <1>1 DEF LineOK, Same, Edln, Proxy
<1>4. Same(u, u)
  BY DEF Same
<1> QED BY <1>2, <1>3, <1>4

\* An answer is a list of lines.
LEMMA AnswersLines ==
  ASSUME NEW line, NEW strs \in Answers(line)
  PROVE  strs \in Seq(Lines)
<1>1. CASE strs = <<>>
  BY <1>1, EmptySeq
<1>2. ASSUME NEW k \in Lines, strs = <<k>> PROVE strs \in Seq(Lines)
  BY <1>2
<1>3. ASSUME NEW p \in Lines \X Lines, strs = <<p[1], p[2]>> PROVE strs \in Seq(Lines)
  BY <1>3
<1> QED BY <1>1, <1>2, <1>3 DEF Answers

\* Completing from the history asks once, and shows what it finds or that there
\* is nothing.
LEMMA HistoryCompletedFacts ==
  ASSUME IInv, NEW u, LineOK(u), NEW id \in Int, NEW cycle \in {-1, 0, 1}
  PROVE  LET x == HistoryCompleted(u, id, cycle)
         IN /\ LineOK(x) /\ x.waiting = id /\ x.runs = u.runs + 1 /\ x.fresh = FALSE
            /\ x.open = u.open /\ x.timer = u.timer /\ x.timed = u.timed
            /\ HistoryMatches(u) = <<>> =>
                 x.current = u.current /\ x.done = u.done /\ x.line = u.line
            /\ HistoryMatches(u) # <<>> => x.done = u.runs + 1 /\ x.current \in {-1, id}
<1> DEFINE strs == HistoryMatches(u)
           v == [u EXCEPT !.waiting = id, !.runs = @ + 1, !.fresh = FALSE]
           c == SetCompletions(v, strs, cycle, v.runs)
<1>1. /\ LineOK(v) /\ v.waiting = id /\ v.runs = u.runs + 1 /\ v.fresh = FALSE /\ v.open = u.open
      /\ v.timer = u.timer /\ v.timed = u.timed /\ v.line = u.line /\ v.current = u.current
      /\ v.done = u.done /\ v.runs \in Nat
  <2>1. u \in Edln /\ u.runs + 1 \in Nat
    BY DEF LineOK, Edln
  <2>2. v \in Edln
    BY <2>1 DEF Edln
  <2>3. /\ v.waiting = id /\ v.runs = u.runs + 1 /\ v.fresh = FALSE /\ v.open = u.open
        /\ v.timer = u.timer /\ v.timed = u.timed /\ v.line = u.line /\ v.current = u.current
        /\ v.done = u.done
    BY <2>1 DEF Edln
  <2>4. /\ v.before = u.before /\ v.histent = u.histent /\ v.saved = u.saved
        /\ v.list = u.list /\ v.sel = u.sel
    BY <2>1 DEF Edln
  <2> QED BY <2>1, <2>2, <2>3, <2>4 DEF LineOK
<1>2. strs \in Seq(Lines)
  BY MatchesLines
<1>3. HistoryCompleted(u, id, cycle)
        = IF strs = <<>> THEN Hide(v) ELSE IF Shown(strs) THEN [c EXCEPT !.current = id] ELSE c
  BY Zenon DEF HistoryCompleted
<1> HIDE DEF v, strs
<1>4. CASE strs = <<>>
  <2>1. HistoryCompleted(u, id, cycle) = Hide(v) /\ HistoryMatches(u) = <<>>
    BY <1>3, <1>4 DEF strs
  <2>2. /\ LineOK(Hide(v)) /\ Same(v, Hide(v)) /\ Hide(v).line = v.line
        /\ Hide(v).current = v.current /\ Hide(v).done = v.done
    BY <1>1, HideFacts
  <2> QED BY <1>1, <2>1, <2>2 DEF Same
<1>5. CASE strs # <<>>
  <2>0. LineOK(v) /\ v.runs \in Nat /\ strs \in Seq(Lines) /\ strs # <<>>
    BY <1>1, <1>2, <1>5
  <2>1. LineOK(c) /\ Same(v, c) /\ c.current = -1 /\ c.done = v.runs
    BY <2>0, SetCompletionsFacts, ZenonT(60)
  <2> HIDE DEF c
  <2>2. CASE Shown(strs)
    <3>1. HistoryCompleted(u, id, cycle) = [c EXCEPT !.current = id]
      BY <1>3, <1>5, <2>2
    <3> QED BY <1>1, <1>5, <2>1, <3>1 DEF LineOK, Same, Edln, strs
  <2>3. CASE ~Shown(strs)
    BY <1>1, <1>3, <1>5, <2>1, <2>3 DEF Same, strs
  <2> QED BY <2>2, <2>3
<1> QED BY <1>4, <1>5

\* What calling the completor does: it has answered, or its program will.
LEMMA CompletorCalledFacts ==
  ASSUME NEW u, LineOK(u), NEW id \in Int, u.waiting = id, NEW cycle \in {-1, 0, 1},
         CompletorCalled(u, id, cycle)
  PROVE  /\ LineOK(w') /\ w'.waiting = id /\ w'.runs = u.runs + 1 /\ w'.fresh = FALSE
         /\ w'.open = u.open /\ w'.timer = u.timer /\ w'.timed = u.timed
         /\ \/ w'.done = u.runs + 1 /\ w'.current = id /\ UNCHANGED proxies
            \/ /\ w'.done = u.done /\ w'.current = u.current /\ w'.line = u.line
               /\ proxies' = proxies \cup {[id |-> id, cycle |-> cycle, run |-> u.runs + 1, line |-> u.line]}
<1> DEFINE v == [u EXCEPT !.runs = @ + 1, !.fresh = FALSE]
           proxy == [id |-> id, cycle |-> cycle, run |-> v.runs, line |-> u.line]
<1>1. /\ LineOK(v) /\ v.waiting = id /\ v.runs = u.runs + 1 /\ v.fresh = FALSE /\ v.open = u.open
      /\ v.timer = u.timer /\ v.timed = u.timed /\ v.line = u.line /\ v.current = u.current
      /\ v.done = u.done /\ v.runs \in Nat
  <2>1. u \in Edln /\ u.runs + 1 \in Nat
    BY DEF LineOK, Edln
  <2>2. v \in Edln
    BY <2>1 DEF Edln
  <2>3. /\ v.waiting = id /\ v.runs = u.runs + 1 /\ v.fresh = FALSE /\ v.open = u.open
        /\ v.timer = u.timer /\ v.timed = u.timed /\ v.line = u.line /\ v.current = u.current
        /\ v.done = u.done
    BY <2>1 DEF Edln
  <2>4. /\ v.before = u.before /\ v.histent = u.histent /\ v.saved = u.saved
        /\ v.list = u.list /\ v.sel = u.sel
    BY <2>1 DEF Edln
  <2> QED BY <2>1, <2>2, <2>3, <2>4 DEF LineOK
<1>2. proxy \in Proxy /\ proxy.id = id /\ proxy.run = u.runs + 1
  BY <1>1 DEF Proxy, LineOK, Edln
<1>3. \/ (\E strs \in Answers(u.line) : w' = complproxy_set_completions(v, proxy, strs))
         /\ UNCHANGED proxies
      \/ w' = v /\ proxies' = proxies \cup {proxy}
  BY DEF CompletorCalled
<1>4. CASE (\E strs \in Answers(u.line) : w' = complproxy_set_completions(v, proxy, strs))
           /\ UNCHANGED proxies
  <2>1. PICK strs \in Answers(u.line) : w' = complproxy_set_completions(v, proxy, strs)
    BY <1>4
  <2> HIDE DEF v, proxy
  <2> QED BY <1>1, <1>2, <1>4, <2>1, AnswerFacts, AnswersLines DEF Same
<1>5. CASE w' = v /\ proxies' = proxies \cup {proxy}
  <2>1. proxy = [id |-> id, cycle |-> cycle, run |-> u.runs + 1, line |-> u.line]
    BY <1>1
  <2> HIDE DEF v, proxy
  <2> QED BY <1>1, <1>5, <2>1
<1> QED BY <1>3, <1>4, <1>5

\* Going through the list leaves what was asked for.
LEMMA CycleToFacts ==
  ASSUME LineOK(w), NEW forward \in BOOLEAN
  PROVE  LET x == CycleTo(forward)
         IN /\ LineOK(x) /\ Same(w, x) /\ x.current = w.current /\ x.done = w.done
            /\ x.line # w.line => w.current = w.waiting
<1> DEFINE n == Len(w.list)
           i == IF forward THEN IF w.sel <= 0 \/ w.sel = n THEN 1 ELSE w.sel + 1
                ELSE IF w.sel <= 1 THEN n ELSE w.sel - 1
           u == [w EXCEPT !.sel = i]
<1>1. w \in Edln /\ w.list \in Seq(Lines) /\ n \in Nat /\ w.sel \in Nat /\ w.sel <= n
  BY LenProperties DEF LineOK, Edln
<1>2. CycleTo(forward) = IF w.current = w.waiting /\ n > 0 /\ i # w.sel
                         THEN SetLine(u, w.list[i]) ELSE w
  BY Zenon DEF CycleTo
<1>3. CASE w.current = w.waiting /\ n > 0 /\ i # w.sel
  <2>1. i \in 1 .. n
    BY <1>1, <1>3
  <2>2. w.list[i] \in Lines
    BY <1>1, <2>1, ElementOfSeq
  <2>3. LineOK(u) /\ Same(w, u) /\ u.current = w.current /\ u.done = w.done
    <3> HIDE DEF i
    <3> QED BY <1>1, <2>1 DEF LineOK, Same, Edln
  <2> HIDE DEF u, i
  <2> QED BY <1>2, <1>3, <2>2, <2>3, SetLineFacts DEF Same
<1>4. CASE ~(w.current = w.waiting /\ n > 0 /\ i # w.sel)
  <2> HIDE DEF i, u
  <2> QED BY <1>2, <1>4 DEF Same
<1> QED BY <1>3, <1>4

-----------------------------------------------------------------------------
(* The inductive invariant *)

\* Each request took an operation, so that requests are numbered up to MaxOps.
Counted ==
  /\ IInv /\ LineOK(w) /\ autoshow \in BOOLEAN /\ proxies \subseteq Proxy
  /\ left \in 0 .. MaxOps
  /\ w.waiting >= -1 /\ w.waiting + left <= MaxOps - 1
  /\ w.timed >= -1 /\ w.timed <= w.waiting

Asked == "cut" \notin Calls /\ w.fresh => w.timer /\ w.timed = w.waiting /\ w.timed >= 0

\* At most one program can answer the request that is waited for.  It was asked
\* after what is shown, and of the line that is there.  No program was asked
\* yet what the timer will ask.
Fits ==
  /\ w.done <= w.runs /\ w.current <= w.waiting
  /\ \A p \in proxies : p.id <= w.waiting /\ p.run <= w.runs
  /\ \A p, q \in proxies : p.run = q.run => p = q
  /\ \A p, q \in proxies : p.id = w.waiting /\ q.id = w.waiting => p = q
  /\ \A p \in proxies : p.id = w.waiting =>
       p.run > w.done /\ w.current # w.waiting /\ (autoshow => p.line = w.line)
  /\ w.timer /\ w.timed = w.waiting /\ w.timed >= 0 =>
       w.current # w.waiting /\ \A p \in proxies : p.id # w.waiting
  /\ ~autoshow => ~w.timer

\* No call is included after which an answer is not for the line that is there
Plain == "one" \notin Calls /\ "cut" \notin Calls

QueryInv == Counted /\ Asked /\ (Plain => Fits)

\* What AnswerFits says of a step
AnswerStep ==
  w'.done # w.done => w'.done > w.done /\
    (autoshow => \A p \in proxies : p.run = w'.done => p.line = w.line)

QueryStep == QueryInv' /\ (Plain => AnswerStep)

\* At first nothing was asked for.
LEMMA QueryInit == IInv /\ Init => QueryInv
<1> SUFFICES ASSUME IInv, Init PROVE QueryInv
  OBVIOUS
<1>1. LineOK(w)
  <2>1. w \in Edln
    BY QueryAssumption, EmptySeq DEF Init, Edln
  <2> QED BY <2>1, QueryAssumption, EmptySeq DEF Init, LineOK
<1>2. Counted
  BY <1>1, QueryAssumption DEF Counted, Init
<1> QED BY <1>2 DEF QueryInv, Asked, Fits, Init

-----------------------------------------------------------------------------
(* What a step does to the requests *)

\* A step that asks for nothing: a line that is changed was not asked for, or
\* has been answered.
LEMMA KeepStep ==
  ASSUME QueryInv, IInv', LineOK(w'), proxies' \subseteq proxies, autoshow' = autoshow,
         left' \in 0 .. left, w'.waiting = w.waiting, w'.current = w.current, w'.done = w.done,
         w'.timed = w.timed \/ (w'.timed = -1 /\ ~w'.timer), w'.runs >= w.runs,
         w'.timer => w.timer,
         \/ "cut" \in Calls
         \/ /\ w'.fresh => w.fresh
            /\ (w'.timer = w.timer /\ w'.timed = w.timed) \/ ~w'.fresh
            /\ autoshow /\ w'.line # w.line => w.current = w.waiting
  PROVE  QueryStep
<1> USE DEF QueryInv, QueryStep
<1>1. w \in Edln /\ w' \in Edln
  BY DEF Counted, LineOK
<1>2. /\ w.waiting \in Int /\ w.timed \in Int /\ w.runs \in Nat /\ w'.runs \in Nat /\ w.done \in Nat
      /\ w.current \in Int /\ w.timer \in BOOLEAN /\ w'.timer \in BOOLEAN
      /\ w.fresh \in BOOLEAN /\ w'.fresh \in BOOLEAN
  BY <1>1 DEF Edln
<1>3. Counted'
  BY <1>2, QueryAssumption DEF Counted
<1>4. Asked'
  BY <1>2 DEF Asked
<1>5. ASSUME Plain PROVE Fits'
  <2>1. \A p \in proxies : p.run \in Int
    BY DEF Counted, Proxy
  <2>2. autoshow /\ w'.line # w.line => w.current = w.waiting
    BY <1>5 DEF Plain
  <2> QED BY <1>2, <1>5, <2>1, <2>2 DEF Fits
<1>6. AnswerStep
  BY DEF AnswerStep
<1> QED BY <1>3, <1>4, <1>5, <1>6

\* A step that asks for the completions of a new request, or of that of the
\* timer.
LEMMA AskStep ==
  ASSUME QueryInv, UNCHANGED history, UNCHANGED autoshow, LineOK(w'),
         w'.runs = w.runs + 1, w'.fresh = FALSE,
         \/ /\ w'.waiting = w.waiting + 1 /\ w'.timer = w.timer /\ w'.timed = w.timed
            /\ left > 0 /\ left' = left - 1
         \/ /\ w'.waiting = w.waiting /\ w.timer /\ w.timed = w.waiting /\ w.timed >= 0
            /\ w'.timer = FALSE /\ w'.timed = -1 /\ left' = left,
         \/ /\ w'.done = w.runs + 1 /\ w'.current \in {-1, w'.waiting} /\ UNCHANGED proxies
         \/ /\ w'.done = w.done /\ w'.current = w.current /\ w'.line = w.line
            /\ \E cycle \in {-1, 0, 1} : proxies' = proxies \cup
                 {[id |-> w'.waiting, cycle |-> cycle, run |-> w.runs + 1, line |-> w.line]}
  PROVE  QueryStep
<1> USE DEF QueryInv, QueryStep
<1>1. w \in Edln /\ w' \in Edln
  BY DEF Counted, LineOK
<1>2. /\ w.waiting \in Int /\ w.timed \in Int /\ w.runs \in Nat /\ w.done \in Nat
      /\ w.current \in Int /\ w.timer \in BOOLEAN /\ w.line \in Lines
  BY <1>1 DEF Edln
<1>3. IInv'
  BY Step DEF Counted
<1>4. proxies' \subseteq Proxy
  BY <1>2 DEF Counted, Proxy
<1>5. Counted'
  BY <1>2, <1>3, <1>4, QueryAssumption DEF Counted
<1>6. Asked'
  BY DEF Asked
<1>7. ASSUME Plain PROVE Fits'
  <2>1. \A p \in proxies : p.run \in Int /\ p.id \in Int /\ p.run <= w.runs /\ p.id <= w.waiting
    BY <1>7 DEF Counted, Proxy, Fits
  <2>2. /\ w.done <= w.runs /\ w.current <= w.waiting /\ (~autoshow => ~w.timer)
        /\ \A p, q \in proxies : p.run = q.run => p = q
    BY <1>7 DEF Fits
  <2>3. w'.current <= w'.waiting
    BY <1>2, <2>2 DEF Counted
  <2>4. \A p \in proxies : p.id # w'.waiting
    BY <1>2, <1>7, <2>1 DEF Fits
  <2>5. CASE w'.done = w.runs + 1 /\ w'.current \in {-1, w'.waiting} /\ UNCHANGED proxies
    BY <1>2, <2>1, <2>2, <2>3, <2>4, <2>5 DEF Counted, Fits
  <2>6. ASSUME NEW cycle \in {-1, 0, 1}, w'.done = w.done, w'.current = w.current,
               w'.line = w.line, proxies' = proxies \cup
                 {[id |-> w'.waiting, cycle |-> cycle, run |-> w.runs + 1, line |-> w.line]}
        PROVE  Fits'
    <3> DEFINE new == [id |-> w'.waiting, cycle |-> cycle, run |-> w.runs + 1, line |-> w.line]
    <3>1. new.id = w'.waiting /\ new.run = w.runs + 1 /\ new.line = w.line
      OBVIOUS
    <3>2. proxies' = proxies \cup {new}
      BY <2>6
    <3> HIDE DEF new
    <3>3. \A p \in proxies' : p.id <= w'.waiting /\ p.run <= w'.runs
      BY <1>2, <2>1, <3>1, <3>2
    <3>4. \A p, q \in proxies' : p.run = q.run => p = q
      BY <1>2, <2>1, <2>2, <3>1, <3>2
    <3>5. \A p \in proxies' : p.id = w'.waiting => p = new
      BY <2>4, <3>2
    <3>6. new.run > w'.done /\ w'.current # w'.waiting
      BY <1>2, <1>7, <2>2, <2>6, <3>1 DEF Fits
    <3>7. ~(w'.timer /\ w'.timed = w'.waiting /\ w'.timed >= 0)
      BY <1>2 DEF Counted
    <3> QED BY <1>2, <2>2, <2>3, <2>6, <3>1, <3>3, <3>4, <3>5, <3>6, <3>7 DEF Fits
  <2> QED BY <2>5, <2>6
<1>8. ASSUME Plain PROVE AnswerStep
  <2>1. \A p \in proxies : p.run \in Int /\ p.run <= w.runs
    BY <1>8 DEF Counted, Proxy, Fits
  <2>2. w.done <= w.runs
    BY <1>8 DEF Fits
  <2> QED BY <1>2, <2>1, <2>2 DEF AnswerStep
<1> QED BY <1>5, <1>6, <1>7, <1>8

\* The answer of a program that is taken: no other can answer the request.
LEMMA TakeStep ==
  ASSUME QueryInv, UNCHANGED history, UNCHANGED <<autoshow, left>>, LineOK(w'), Same(w, w'),
         NEW p \in proxies, proxies' = proxies \ {p},
         p.id = w.waiting, w'.done = p.run, w'.current = p.id
  PROVE  QueryStep
<1> USE DEF QueryInv, QueryStep
<1>1. w \in Edln /\ w' \in Edln
  BY DEF Counted, LineOK
<1>2. /\ w.waiting \in Int /\ w.timed \in Int /\ w.runs \in Nat /\ w.done \in Nat /\ w.current \in Int
  BY <1>1 DEF Edln
<1>3. IInv'
  BY Step DEF Counted
<1>4. Counted' /\ Asked'
  BY <1>2, <1>3 DEF Counted, Asked, Same
<1>5. ASSUME Plain PROVE Fits'
  <2>1. \A q \in proxies' : q.id # w'.waiting
    BY <1>5 DEF Fits, Same
  <2>2. p.run <= w.runs
    BY <1>5 DEF Fits
  <2>3. w'.done <= w'.runs /\ w'.current <= w'.waiting
    BY <1>2, <2>2 DEF Same
  <2>4. ~(w'.timer /\ w'.timed = w'.waiting /\ w'.timed >= 0)
    BY <1>5 DEF Fits, Same
  <2> QED BY <1>5, <2>1, <2>3, <2>4 DEF Fits, Same
<1>6. ASSUME Plain PROVE AnswerStep
  BY <1>6 DEF AnswerStep, Fits
<1> QED BY <1>4, <1>5, <1>6

\* A change of the line that is to be asked for: no program was asked for it.
LEMMA ChangeStep ==
  ASSUME QueryInv, UNCHANGED history, UNCHANGED <<autoshow, proxies>>, LineOK(w'), autoshow,
         left > 0, left' = left - 1, w'.waiting = w.waiting + 1, w'.timed = w.waiting + 1,
         w'.current = -1, w'.timer, w'.runs = w.runs, w'.done = w.done
  PROVE  QueryStep
<1> USE DEF QueryInv, QueryStep
<1>1. w \in Edln
  BY DEF Counted, LineOK
<1>2. /\ w.waiting \in Int /\ w.timed \in Int /\ w.runs \in Nat /\ w.done \in Nat /\ w.current \in Int
  BY <1>1 DEF Edln
<1>3. IInv'
  BY Step DEF Counted
<1>4. Counted'
  BY <1>2, <1>3, QueryAssumption DEF Counted
<1>6. Asked'
  BY <1>2 DEF Asked, Counted
<1>5. ASSUME Plain PROVE Fits'
  <2>1. \A p \in proxies : p.id \in Int /\ p.id <= w.waiting
    BY <1>5 DEF Counted, Fits, Proxy
  <2>2. \A p \in proxies' : p.id < w'.waiting
    BY <1>2, <2>1
  <2>3. w'.done <= w'.runs /\ w'.current <= w'.waiting /\ w'.current # w'.waiting
    BY <1>2, <1>5 DEF Fits, Counted
  <2>4. \A q, r \in proxies' : q.run = r.run => q = r
    BY <1>5 DEF Fits
  <2>5. \A q \in proxies' : q.id <= w'.waiting /\ q.id # w'.waiting /\ q.run <= w'.runs
    BY <1>2, <1>5, <2>1 DEF Fits
  <2> QED BY <2>3, <2>4, <2>5 DEF Fits
<1>7. AnswerStep
  BY DEF AnswerStep
<1> QED BY <1>4, <1>5, <1>6, <1>7

-----------------------------------------------------------------------------
(* The actions *)

\* A line that is edited, with nothing asked for but by the timer.
LEMMA EditedStep ==
  ASSUME QueryInv, NEW u, LineOK(u), Same(w, u), u.current = w.current, u.done = w.done, Edited(u)
  PROVE  QueryStep
<1>1. /\ left > 0 /\ left' = left - 1 /\ w' = Changed(u) /\ UNCHANGED history
      /\ UNCHANGED <<autoshow, proxies>>
  BY DEF Edited, Key, Op
<1>2. autoshow \in BOOLEAN /\ left \in Nat /\ u.waiting = w.waiting /\ u.waiting >= -1
  BY DEF QueryInv, Counted, Same
<1>3. LineOK(w')
  BY <1>1, <1>2, ChangedFacts
<1>4. CASE autoshow
  BY <1>1, <1>2, <1>3, <1>4, ChangedFacts, ChangeStep DEF Same
<1>5. CASE ~autoshow
  <2>1. w' = u
    BY <1>1, <1>2, <1>5, ChangedFacts
  <2>2. IInv'
    BY <1>1, Step DEF QueryInv, Counted
  <2>3. w \in Edln
    BY DEF QueryInv, Counted, LineOK
  <2>4. w'.runs >= w.runs
    BY <2>1, <2>3 DEF Same, Edln
  <2>5. /\ proxies' \subseteq proxies /\ autoshow' = autoshow /\ left' \in 0 .. left
        /\ w'.waiting = w.waiting /\ w'.current = w.current /\ w'.done = w.done
        /\ (w'.timer => w.timer) /\ (w'.fresh => w.fresh)
        /\ w'.timed = w.timed \/ (w'.timed = -1 /\ ~w'.timer)
        /\ (w'.timer = w.timer /\ w'.timed = w.timed) \/ ~w'.fresh
        /\ autoshow /\ w'.line # w.line => w.current = w.waiting
    BY <1>1, <1>2, <1>5, <2>1 DEF Same
  <2> QED BY <1>3, <1>5, <2>2, <2>4, <2>5, KeepStep
<1> QED BY <1>2, <1>4, <1>5

\* Looking at an entry of the history keeps the line that was there.
LEMMA SetHistFacts ==
  ASSUME QueryInv, NEW i \in DOMAIN Get, NEW match \in BOOLEAN
  PROVE  LET u == SetHist(i, match)
         IN LineOK(u) /\ Same(w, u) /\ u.current = w.current /\ u.done = w.done
<1> DEFINE line == Get[i][2]
           s == IF w.histent < 0 THEN w.line ELSE w.saved
           b == IF match THEN IF w.before < line THEN w.before ELSE line ELSE line
           u1 == [w EXCEPT !.saved = s]
           u2 == [u1 EXCEPT !.histent = i]
           u3 == [u2 EXCEPT !.line = line]
           u == [u3 EXCEPT !.before = b]
<1>1. w \in Edln /\ w.before \in Lines /\ w.line \in Lines /\ w.histent \in Int
  BY DEF QueryInv, Counted, LineOK, Edln
<1>2. line \in Lines /\ i \in Nat
  BY EntryLine DEF QueryInv, Counted
<1>3. s \in Lines
  BY <1>1 DEF QueryInv, Counted, LineOK
<1>4. b \in Lines /\ b <= line
  <2> HIDE DEF line
  <2>1. w.before \in Nat /\ line \in Nat
    BY <1>1, <1>2, QueryAssumption
  <2> QED BY <1>1, <1>2, <2>1
<1> HIDE DEF line, s, b
<1>5. u1 \in Edln
  BY <1>1, <1>3 DEF Edln
<1>6. u2 \in Edln
  <2> HIDE DEF u1
  <2> QED BY <1>2, <1>5 DEF Edln
<1>7. u3 \in Edln
  <2> HIDE DEF u2
  <2> QED BY <1>2, <1>6 DEF Edln
<1>8. u \in Edln
  <2> HIDE DEF u3
  <2> QED BY <1>4, <1>7 DEF Edln
<1>9. SetHist(i, match) = u
  BY DEF SetHist, line, s, b
<1>10. /\ u.line = line /\ u.before = b /\ u.saved = s /\ u.list = w.list /\ u.sel = w.sel
       /\ u.current = w.current /\ u.done = w.done
  BY <1>1 DEF Edln
<1>11. Same(w, u)
  BY <1>1 DEF Same, Edln
<1> HIDE DEF u
<1> QED BY <1>3, <1>4, <1>8, <1>9, <1>10, <1>11 DEF LineOK, QueryInv, Counted

\* A key changes the line.
LEMMA EditStep ==
  ASSUME QueryInv, Edit
  PROVE  QueryStep
<1>1. PICK line \in Lines : Edited([w EXCEPT !.line = line, !.before = line])
  BY DEF Edit
<1> DEFINE a == [w EXCEPT !.line = line]
           u == [a EXCEPT !.before = line]
<1>2. w \in Edln /\ line <= line
  BY QueryAssumption DEF QueryInv, Counted, LineOK
<1>3. a \in Edln
  BY <1>2 DEF Edln
<1>4. u \in Edln
  <2> HIDE DEF a
  <2> QED BY <1>3 DEF Edln
<1>5. /\ u.line = line /\ u.before = line /\ u.saved = w.saved /\ u.histent = w.histent
      /\ u.list = w.list /\ u.sel = w.sel /\ u.current = w.current /\ u.done = w.done
  BY <1>2 DEF Edln
<1>6. Same(w, u)
  BY <1>2 DEF Same, Edln
<1>7. Edited(u)
  BY <1>1
<1> HIDE DEF u
<1>8. LineOK(u)
  BY <1>2, <1>4, <1>5 DEF LineOK, QueryInv, Counted
<1> QED BY <1>5, <1>6, <1>7, <1>8, EditedStep

\* edln_history_prev.
LEMMA HistoryPrevStep ==
  ASSUME QueryInv, NEW match \in BOOLEAN, edln_history_prev(match)
  PROVE  QueryStep
<1>1. PICK i \in DOMAIN Get : Edited(SetHist(i, match))
  BY DEF edln_history_prev
<1> QED BY <1>1, SetHistFacts, EditedStep

\* edln_history_next.
LEMMA HistoryNextStep ==
  ASSUME QueryInv, NEW match \in BOOLEAN, edln_history_next(match)
  PROVE  QueryStep
<1> DEFINE found == {k \in DOMAIN Get : k < w.histent /\ Found(k, match)}
           e == CHOOSE i \in found : \A k \in found : k <= i
           u == [w EXCEPT !.line = w.saved, !.before = w.saved, !.saved = NULL, !.histent = -1]
<1>1. w \in Edln /\ w.histent \in Int /\ DOMAIN Get = 0 .. hist_count - 1
  BY DEF QueryInv, Counted, LineOK, Edln, Get
<1>2. /\ w.histent >= 0
      /\ Edited(IF found # {} /\ w.histent - 1 \in DOMAIN Get THEN SetHist(e, match) ELSE u)
  BY Zenon DEF edln_history_next
<1>3. CASE found # {} /\ w.histent - 1 \in DOMAIN Get
  <2>1. e \in found
    <3> DEFINE T == {w.histent - 1 - k : k \in found}
    <3>1. T \in SUBSET Nat /\ T # {}
      <4>1. ASSUME NEW k \in found PROVE w.histent - 1 - k \in Nat
        <5>1. k \in 0 .. hist_count - 1 /\ k < w.histent
          BY <1>1
        <5> QED BY <1>1, <5>1
      <4> QED BY <1>3, <4>1
    <3>2. PICK t \in T : \A m \in T : t <= m
      <4> HIDE DEF T
      <4> QED BY <3>1, NatMin
    <3>3. PICK i \in found : t = w.histent - 1 - i
      BY <3>2
    <3>4. ASSUME NEW k \in found PROVE k <= i
      <4>1. w.histent - 1 - k \in T
        OBVIOUS
      <4>2. w.histent - 1 - i <= w.histent - 1 - k
        BY <3>2, <3>3, <4>1
      <4> QED BY <1>1, <4>2
    <3> HIDE DEF found
    <3> QED BY <3>3, <3>4
  <2>2. e \in DOMAIN Get
    BY <2>1
  <2>3. Edited(SetHist(e, match))
    BY <1>2, <1>3
  <2> HIDE DEF e
  <2> QED BY <2>2, <2>3, SetHistFacts, EditedStep
<1>4. CASE ~(found # {} /\ w.histent - 1 \in DOMAIN Get)
  <2> DEFINE a == [w EXCEPT !.line = w.saved]
             b == [a EXCEPT !.before = w.saved]
             c == [b EXCEPT !.saved = NULL]
             v == [c EXCEPT !.histent = -1]
  <2>1. w.saved \in Lines /\ w.saved <= w.saved
    BY <1>2, QueryAssumption DEF QueryInv, Counted, LineOK
  <2>2. a \in Edln
    BY <1>1, <2>1 DEF Edln
  <2>3. b \in Edln
    <3> HIDE DEF a
    <3> QED BY <2>1, <2>2 DEF Edln
  <2>4. c \in Edln
    <3> HIDE DEF b
    <3> QED BY <2>3 DEF Edln
  <2>5. v \in Edln
    <3> HIDE DEF c
    <3> QED BY <2>4 DEF Edln
  <2>6. Edited(v)
    BY <1>2, <1>4
  <2>7. /\ v.line = w.saved /\ v.before = w.saved /\ v.histent = -1
        /\ v.list = w.list /\ v.sel = w.sel /\ v.current = w.current /\ v.done = w.done
    BY <1>1 DEF Edln
  <2>8. Same(w, v)
    BY <1>1 DEF Same, Edln
  <2> HIDE DEF v
  <2>9. LineOK(v)
    BY <2>1, <2>5, <2>7 DEF LineOK, QueryInv, Counted
  <2> QED BY <2>6, <2>7, <2>8, <2>9, EditedStep
<1> QED BY <1>3, <1>4

\* A step of the history and the deferred actions, and moving the point
LEMMA MovePointStep ==
  ASSUME QueryInv, MovePoint
  PROVE  QueryStep
<1>1. PICK k \in Lines : k <= w.line /\ w' = [w EXCEPT !.before = k]
  BY DEF MovePoint
<1>2. w \in Edln /\ LineOK(w) /\ w.runs \in Nat
  BY DEF QueryInv, Counted, LineOK, Edln
<1>3. w' \in Edln
  BY <1>1, <1>2 DEF Edln
<1>4. /\ w'.line = w.line /\ w'.before = k /\ w'.histent = w.histent /\ w'.saved = w.saved
      /\ w'.list = w.list /\ w'.sel = w.sel /\ w'.current = w.current /\ w'.done = w.done
      /\ Same(w, w')
  BY <1>1, <1>2 DEF Edln, Same
<1>5. LineOK(w')
  BY <1>1, <1>2, <1>3, <1>4 DEF LineOK
<1>6. UNCHANGED history /\ UNCHANGED <<autoshow, proxies>> /\ left' \in 0 .. left
  BY DEF MovePoint, Key, Op, QueryInv, Counted
<1>7. IInv'
  BY <1>6, Step DEF QueryInv, Counted
<1>8. /\ proxies' \subseteq proxies /\ autoshow' = autoshow /\ w'.waiting = w.waiting
      /\ w'.runs >= w.runs /\ (w'.timer => w.timer) /\ (w'.fresh => w.fresh)
      /\ w'.timed = w.timed \/ (w'.timed = -1 /\ ~w'.timer)
      /\ (w'.timer = w.timer /\ w'.timed = w.timed) \/ ~w'.fresh
      /\ autoshow /\ w'.line # w.line => w.current = w.waiting
  BY <1>2, <1>4, <1>6 DEF Same
<1> QED BY <1>4, <1>5, <1>6, <1>7, <1>8, KeepStep

\* Cutting, which is not asked for: when completions are shown automatically, the call is
\* one of those that are included.
LEMMA CutStep ==
  ASSUME QueryInv, edln_cut
  PROVE  QueryStep
<1>1. PICK line \in Lines : w' = [w EXCEPT !.line = line, !.before = line, !.fresh = autoshow]
  BY DEF edln_cut
<1>2. /\ w \in Edln /\ LineOK(w) /\ w.runs \in Nat /\ line <= line /\ autoshow \in BOOLEAN
      /\ w.timer \in BOOLEAN
  BY QueryAssumption DEF QueryInv, Counted, LineOK, Edln
<1> DEFINE a == [w EXCEPT !.line = line]
           b == [a EXCEPT !.before = line]
           u == [b EXCEPT !.fresh = autoshow]
<1>3. a \in Edln
  BY <1>2 DEF Edln
<1>4. b \in Edln
  <2> HIDE DEF a
  <2> QED BY <1>3 DEF Edln
<1>5. u \in Edln
  <2> HIDE DEF b
  <2> QED BY <1>2, <1>4 DEF Edln
<1>6. /\ u.line = line /\ u.before = line /\ u.saved = w.saved /\ u.histent = w.histent
      /\ u.list = w.list /\ u.sel = w.sel /\ u.current = w.current /\ u.done = w.done
      /\ u.fresh = autoshow /\ u.timer = w.timer /\ u.timed = w.timed
      /\ u.waiting = w.waiting /\ u.runs = w.runs
  BY <1>2 DEF Edln
<1>7. w' = u
  BY <1>1
<1> HIDE DEF u
<1>8. LineOK(w')
  BY <1>2, <1>5, <1>6, <1>7 DEF LineOK
<1>9. /\ UNCHANGED history /\ UNCHANGED <<autoshow, proxies>> /\ left' \in 0 .. left
      /\ ~autoshow \/ "cut" \in Calls
  BY DEF edln_cut, Guarded, Key, Op, QueryInv, Counted
<1>10. IInv'
  BY <1>9, Step DEF QueryInv, Counted
<1>11. \/ "cut" \in Calls
       \/ /\ w'.fresh => w.fresh
          /\ (w'.timer = w.timer /\ w'.timed = w.timed) \/ ~w'.fresh
          /\ autoshow /\ w'.line # w.line => w.current = w.waiting
  BY <1>6, <1>7, <1>9
<1>12. /\ proxies' \subseteq proxies /\ autoshow' = autoshow /\ w'.waiting = w.waiting
       /\ w'.current = w.current /\ w'.done = w.done
       /\ w'.runs >= w.runs /\ (w'.timer => w.timer)
       /\ w'.timed = w.timed \/ (w'.timed = -1 /\ ~w'.timer)
  BY <1>2, <1>6, <1>7, <1>9
<1> QED BY <1>8, <1>9, <1>10, <1>11, <1>12, KeepStep

\* The selection moves among the completions.
LEMMA CycleStep ==
  ASSUME QueryInv, NEW forward \in BOOLEAN, w' = CycleTo(forward),
         UNCHANGED history, UNCHANGED <<autoshow, proxies>>, Op
  PROVE  QueryStep
<1>1. LineOK(w) /\ w.runs \in Nat
  BY DEF QueryInv, Counted, LineOK, Edln
<1>2. /\ LineOK(w') /\ Same(w, w') /\ w'.current = w.current /\ w'.done = w.done
      /\ w'.line # w.line => w.current = w.waiting
  BY <1>1, CycleToFacts
<1>3. left' \in 0 .. left
  BY DEF Op, QueryInv, Counted
<1>4. IInv'
  BY Step DEF QueryInv, Counted
<1>5. /\ proxies' \subseteq proxies /\ autoshow' = autoshow /\ w'.waiting = w.waiting
      /\ w'.runs >= w.runs /\ (w'.timer => w.timer) /\ (w'.fresh => w.fresh)
      /\ w'.timed = w.timed \/ (w'.timed = -1 /\ ~w'.timer)
      /\ (w'.timer = w.timer /\ w'.timed = w.timed) \/ ~w'.fresh
      /\ autoshow /\ w'.line # w.line => w.current = w.waiting
  BY <1>1, <1>2 DEF Same
<1> QED BY <1>2, <1>3, <1>4, <1>5, KeepStep

\* Asking from the history or the completor: for a new request, which is given
\* up if the history has nothing.
LEMMA CompleteStep ==
  ASSUME QueryInv, NEW cycle \in {-1, 0, 1}, NEW always \in BOOLEAN, NEW histmode \in BOOLEAN,
         wedln_complete(cycle, always, histmode)
  PROVE  QueryStep
<1> DEFINE valid == histmode = w.histmode
           cyclei == IF valid \/ always THEN cycle ELSE 0
           u == [w EXCEPT !.histmode = histmode]
           v == Alloc(u)
           x == HistoryCompleted(v, v.waiting, cyclei)
<1>1. LineOK(w) /\ w \in Edln /\ w.waiting >= -1 /\ w.waiting \in Int /\ w.runs \in Nat
  BY DEF QueryInv, Counted, LineOK, Edln
<1>2. /\ LineOK(v) /\ v.waiting = w.waiting + 1 /\ v.runs = w.runs /\ v.done = w.done
      /\ v.current = w.current /\ v.line = w.line /\ v.timer = w.timer /\ v.timed = w.timed
  <2>1. u \in Edln
    BY <1>1 DEF Edln
  <2>2. /\ u.before = w.before /\ u.line = w.line /\ u.histent = w.histent /\ u.saved = w.saved
        /\ u.list = w.list /\ u.sel = w.sel /\ u.current = w.current /\ u.done = w.done
        /\ u.waiting = w.waiting /\ u.runs = w.runs /\ u.timer = w.timer /\ u.timed = w.timed
    BY <1>1 DEF Edln
  <2> HIDE DEF u
  <2>3. v = [u EXCEPT !.waiting = w.waiting + 1]
    BY <1>1, <2>1, <2>2, AllocFacts
  <2> HIDE DEF v
  <2>4. v \in Edln
    <3>1. w.waiting + 1 \in Int
      BY <1>1
    <3> QED BY <2>1, <2>3, <3>1 DEF Edln
  <2>5. /\ v.before = u.before /\ v.line = u.line /\ v.histent = u.histent /\ v.saved = u.saved
        /\ v.list = u.list /\ v.sel = u.sel /\ v.current = u.current /\ v.done = u.done
        /\ v.waiting = w.waiting + 1 /\ v.runs = u.runs /\ v.timer = u.timer /\ v.timed = u.timed
    BY <2>1, <2>3 DEF Edln
  <2> QED BY <1>1, <2>2, <2>4, <2>5 DEF LineOK
<1>3. cyclei \in {-1, 0, 1} /\ v.waiting \in Int
  BY <1>1, <1>2
<1>4. /\ Op /\ UNCHANGED history /\ autoshow' = autoshow
      /\ IF valid /\ cyclei # 0 /\ autoshow /\ w.list # <<>>
         THEN w' = CycleTo(cyclei > 0) /\ UNCHANGED proxies
         ELSE IF histmode
         THEN /\ Guarded("one", HistoryMatches(v) # <<>> /\ ~HistoryReturns(v))
              /\ w' = IF HistoryReturns(v) THEN x
                      ELSE [x EXCEPT !.waiting = w.waiting, !.fresh = w.fresh]
              /\ UNCHANGED proxies
         ELSE CompletorCalled(v, v.waiting, cyclei)
  <2>1. /\ Key /\ UNCHANGED <<history, autoshow, actions>>
        /\ IF valid /\ cyclei # 0 /\ autoshow /\ w.list # <<>>
         THEN w' = CycleTo(cyclei > 0) /\ UNCHANGED proxies
         ELSE IF histmode
         THEN /\ Guarded("one", HistoryMatches(v) # <<>> /\ ~HistoryReturns(v))
              /\ w' = IF HistoryReturns(v) THEN x
                      ELSE [x EXCEPT !.waiting = w.waiting, !.fresh = w.fresh]
              /\ UNCHANGED proxies
         ELSE CompletorCalled(v, v.waiting, cyclei)
    BY Zenon DEF wedln_complete
  <2> HIDE DEF v, cyclei, valid, x
  <2> QED BY <2>1 DEF Key
<1> HIDE DEF u, v, cyclei, valid
<1>5. left > 0 /\ left' = left - 1 /\ left' \in 0 .. left
  BY <1>4 DEF Op, QueryInv, Counted
<1>6. IInv /\ IInv'
  BY <1>4, Step DEF QueryInv, Counted
<1>7. CASE valid /\ cyclei # 0 /\ autoshow /\ w.list # <<>>
  <2>1. w' = CycleTo(cyclei > 0) /\ UNCHANGED proxies
    BY <1>4, <1>7
  <2>2. (cyclei > 0) \in BOOLEAN
    OBVIOUS
  <2> QED BY <1>4, <2>1, <2>2, CycleStep
<1>8. CASE ~(valid /\ cyclei # 0 /\ autoshow /\ w.list # <<>>) /\ histmode
  <2>1. /\ LineOK(x) /\ x.waiting = w.waiting + 1 /\ x.runs = w.runs + 1 /\ x.fresh = FALSE
        /\ x.timer = w.timer /\ x.timed = w.timed
        /\ HistoryMatches(v) = <<>> =>
             x.current = w.current /\ x.done = w.done /\ x.line = w.line
        /\ HistoryMatches(v) # <<>> => x.done = w.runs + 1 /\ x.current \in {-1, w.waiting + 1}
    <3>1. /\ LineOK(x) /\ x.waiting = v.waiting /\ x.runs = v.runs + 1 /\ x.fresh = FALSE
          /\ x.open = v.open /\ x.timer = v.timer /\ x.timed = v.timed
          /\ HistoryMatches(v) = <<>> =>
               x.current = v.current /\ x.done = v.done /\ x.line = v.line
          /\ HistoryMatches(v) # <<>> => x.done = v.runs + 1 /\ x.current \in {-1, v.waiting}
      <4>1. LineOK(v) /\ IInv /\ cyclei \in {-1, 0, 1} /\ v.waiting \in Int
        BY <1>2, <1>3, <1>6
      <4> QED BY Zenon, <4>1, HistoryCompletedFacts
    <3> HIDE DEF x
    <3> QED BY <1>2, <3>1
  <2>2. /\ Guarded("one", HistoryMatches(v) # <<>> /\ ~HistoryReturns(v))
        /\ w' = IF HistoryReturns(v) THEN x
                ELSE [x EXCEPT !.waiting = w.waiting, !.fresh = w.fresh]
        /\ UNCHANGED proxies
    BY <1>4, <1>8
  <2> DEFINE a == [x EXCEPT !.waiting = w.waiting]
             y == [a EXCEPT !.fresh = w.fresh]
  <2>5. y = [x EXCEPT !.waiting = w.waiting, !.fresh = w.fresh]
    OBVIOUS
  <2> HIDE DEF x
  <2>3. CASE HistoryReturns(v)
    <3>1. w' = x /\ HistoryMatches(v) # <<>>
      BY <2>2, <2>3 DEF HistoryReturns
    <3> QED BY <1>4, <1>5, <2>1, <2>2, <3>1, AskStep
  <2>4. CASE ~HistoryReturns(v)
    <3>1. w' = y
      <4> HIDE DEF y
      <4> QED BY <2>2, <2>4, <2>5
    <3>2. x \in Edln /\ w.fresh \in BOOLEAN
      BY <1>1, <2>1 DEF LineOK, Edln
    <3>8. a \in Edln
      BY <1>1, <3>2 DEF Edln
    <3>3. y \in Edln
      <4> HIDE DEF a
      <4> QED BY <3>2, <3>8 DEF Edln
    <3>4. /\ y.before = x.before /\ y.line = x.line /\ y.histent = x.histent /\ y.saved = x.saved
          /\ y.list = x.list /\ y.sel = x.sel /\ y.current = x.current /\ y.done = x.done
          /\ y.waiting = w.waiting /\ y.runs = x.runs /\ y.timer = x.timer /\ y.timed = x.timed
          /\ y.fresh = w.fresh
      BY <3>2 DEF Edln
    <3> HIDE DEF y
    <3>5. LineOK(y)
      BY <2>1, <3>3, <3>4 DEF LineOK
    <3>6. CASE HistoryMatches(v) = <<>>
      <4>1. /\ w'.waiting = w.waiting /\ w'.current = w.current /\ w'.done = w.done
            /\ w'.runs >= w.runs /\ (w'.timer => w.timer) /\ (w'.fresh => w.fresh)
            /\ w'.timed = w.timed \/ (w'.timed = -1 /\ ~w'.timer)
            /\ (w'.timer = w.timer /\ w'.timed = w.timed) \/ ~w'.fresh
            /\ autoshow /\ w'.line # w.line => w.current = w.waiting
        BY <1>1, <2>1, <3>1, <3>4, <3>6
      <4>2. proxies' \subseteq proxies /\ autoshow' = autoshow
        BY <1>4, <2>2
      <4> QED BY <1>5, <1>6, <3>1, <3>5, <4>1, <4>2, KeepStep
    <3>7. CASE HistoryMatches(v) # <<>>
      <4>1. "one" \in Calls
        BY <2>2, <2>4, <3>7 DEF Guarded
      <4>4. ~Plain
        BY <4>1 DEF Plain
      <4>2. Counted'
        <5>1. w.timed >= -1 /\ w.timed <= w.waiting /\ w.waiting + left <= MaxOps - 1
              /\ left \in 0 .. MaxOps /\ autoshow \in BOOLEAN /\ proxies \subseteq Proxy
          BY DEF QueryInv, Counted
        <5>2. w'.waiting = w.waiting /\ w'.timed = w.timed /\ LineOK(w')
          BY <2>1, <3>1, <3>4, <3>5
        <5>3. left' \in 0 .. MaxOps /\ w.waiting + left' <= MaxOps - 1
          BY <1>1, <1>5, <5>1, QueryAssumption
        <5> QED BY <1>1, <1>4, <1>6, <2>2, <5>1, <5>2, <5>3 DEF Counted
      <4>3. Asked'
        BY <2>1, <3>1, <3>4 DEF Asked, QueryInv
      <4> QED BY <4>2, <4>3, <4>4 DEF QueryStep, QueryInv
    <3> QED BY <3>6, <3>7
  <2> QED BY <2>3, <2>4
<1>9. CASE ~(valid /\ cyclei # 0 /\ autoshow /\ w.list # <<>>) /\ ~histmode
  <2>1. CompletorCalled(v, v.waiting, cyclei)
    BY <1>4, <1>9
  <2>2. /\ LineOK(w') /\ w'.waiting = w.waiting + 1 /\ w'.runs = w.runs + 1 /\ w'.fresh = FALSE
        /\ w'.timer = w.timer /\ w'.timed = w.timed
        /\ \/ w'.done = w.runs + 1 /\ w'.current = w.waiting + 1 /\ UNCHANGED proxies
           \/ /\ w'.done = w.done /\ w'.current = w.current /\ w'.line = w.line
              /\ proxies' = proxies \cup
                   {[id |-> w.waiting + 1, cycle |-> cyclei, run |-> w.runs + 1, line |-> w.line]}
    <3>1. /\ LineOK(w') /\ w'.waiting = v.waiting /\ w'.runs = v.runs + 1 /\ w'.fresh = FALSE
          /\ w'.open = v.open /\ w'.timer = v.timer /\ w'.timed = v.timed
          /\ \/ w'.done = v.runs + 1 /\ w'.current = v.waiting /\ UNCHANGED proxies
             \/ /\ w'.done = v.done /\ w'.current = v.current /\ w'.line = v.line
                /\ proxies' = proxies \cup
                     {[id |-> v.waiting, cycle |-> cyclei, run |-> v.runs + 1, line |-> v.line]}
      <4>1. LineOK(v) /\ v.waiting \in Int /\ v.waiting = v.waiting
        BY <1>2, <1>3
      <4>2. cyclei \in {-1, 0, 1}
        BY <1>3
      <4> HIDE DEF x
      <4> QED BY ZenonT(60), <2>1, <4>1, <4>2, CompletorCalledFacts
    <3> QED BY <1>2, <3>1
  <2>3. \/ w'.done = w.runs + 1 /\ w'.current \in {-1, w'.waiting} /\ UNCHANGED proxies
        \/ /\ w'.done = w.done /\ w'.current = w.current /\ w'.line = w.line
           /\ \E c \in {-1, 0, 1} : proxies' = proxies \cup
                {[id |-> w'.waiting, cycle |-> c, run |-> w.runs + 1, line |-> w.line]}
    BY <1>3, <2>2
  <2> QED BY <1>4, <1>5, <2>2, <2>3, AskStep
<1> QED BY <1>7, <1>8, <1>9

\* The timer asks for what was waited for when it was set, if it still is.
LEMMA TimedStep ==
  ASSUME QueryInv, timed_complete
  PROVE  QueryStep
<1> DEFINE a == [w EXCEPT !.timed = -1]
           u == [a EXCEPT !.timer = FALSE]
           x == HistoryCompleted(u, w.timed, 0)
<1>1. LineOK(w) /\ w \in Edln /\ w.timed \in Int /\ w.waiting \in Int /\ w.runs \in Nat
  BY DEF QueryInv, Counted, LineOK, Edln
<1>2. /\ LineOK(u) /\ u.timed = -1 /\ u.timer = FALSE /\ u.waiting = w.waiting /\ u.line = w.line
      /\ u.current = w.current /\ u.done = w.done /\ u.runs = w.runs /\ u.fresh = w.fresh
  <2>1. a \in Edln
    BY <1>1 DEF Edln
  <2>2. u \in Edln
    <3> HIDE DEF a
    <3> QED BY <2>1 DEF Edln
  <2>3. /\ u.timed = -1 /\ u.timer = FALSE /\ u.waiting = w.waiting /\ u.line = w.line
        /\ u.current = w.current /\ u.done = w.done /\ u.runs = w.runs /\ u.fresh = w.fresh
        /\ u.before = w.before /\ u.histent = w.histent /\ u.saved = w.saved
        /\ u.list = w.list /\ u.sel = w.sel
    BY <1>1 DEF Edln
  <2> HIDE DEF u
  <2> QED BY <1>1, <2>2, <2>3 DEF LineOK
<1>3. /\ w.timer /\ UNCHANGED history /\ autoshow' = autoshow /\ left' = left
      /\ IF w.timed # w.waiting \/ w.timed < 0 THEN w' = u /\ UNCHANGED proxies
         ELSE IF w.histmode THEN w' = x /\ UNCHANGED proxies
         ELSE CompletorCalled(u, w.timed, 0)
  <2>1. u = [w EXCEPT !.timed = -1, !.timer = FALSE]
    OBVIOUS
  <2> HIDE DEF u
  <2> QED BY <2>1 DEF timed_complete
<1> HIDE DEF u
<1>4. IInv /\ IInv' /\ left' \in 0 .. left
  BY <1>3, Step DEF QueryInv, Counted
<1>5. CASE w.timed # w.waiting \/ w.timed < 0
  <2>1. "cut" \in Calls \/ ~w.fresh
    BY <1>1, <1>5 DEF QueryInv, Asked
  <2>2. w' = u /\ UNCHANGED proxies
    BY <1>3, <1>5
  <2>3. "cut" \in Calls \/ ~w'.fresh
    BY <1>2, <2>1, <2>2
  <2>4. /\ w'.waiting = w.waiting /\ w'.current = w.current /\ w'.done = w.done
        /\ w'.runs >= w.runs /\ (w'.timer => w.timer) /\ (w'.fresh => w.fresh)
        /\ w'.timed = w.timed \/ (w'.timed = -1 /\ ~w'.timer)
        /\ autoshow /\ w'.line # w.line => w.current = w.waiting
    BY <1>1, <1>2, <2>2
  <2> QED BY <1>2, <1>3, <1>4, <2>2, <2>3, <2>4, KeepStep
<1>6. CASE ~(w.timed # w.waiting \/ w.timed < 0) /\ w.histmode
  <2>1. /\ LineOK(x) /\ x.waiting = w.timed /\ x.runs = w.runs + 1 /\ x.fresh = FALSE
        /\ x.timer = FALSE /\ x.timed = -1
        /\ HistoryMatches(u) = <<>> =>
             x.current = w.current /\ x.done = w.done /\ x.line = w.line
        /\ HistoryMatches(u) # <<>> => x.done = w.runs + 1 /\ x.current \in {-1, w.timed}
    <3>1. /\ LineOK(x) /\ x.waiting = w.timed /\ x.runs = u.runs + 1 /\ x.fresh = FALSE
          /\ x.open = u.open /\ x.timer = u.timer /\ x.timed = u.timed
          /\ HistoryMatches(u) = <<>> =>
               x.current = u.current /\ x.done = u.done /\ x.line = u.line
          /\ HistoryMatches(u) # <<>> => x.done = u.runs + 1 /\ x.current \in {-1, w.timed}
      BY <1>1, <1>2, <1>4, HistoryCompletedFacts
    <3> HIDE DEF x
    <3> QED BY <1>2, <3>1
  <2> HIDE DEF x
  <2>2. w' = x /\ UNCHANGED proxies
    BY <1>3, <1>6
  <2>3. CASE HistoryMatches(u) = <<>>
    <3>1. /\ w'.waiting = w.waiting /\ w'.current = w.current /\ w'.done = w.done
          /\ w'.runs >= w.runs /\ (w'.timer => w.timer) /\ (w'.fresh => w.fresh)
          /\ w'.timed = w.timed \/ (w'.timed = -1 /\ ~w'.timer)
          /\ (w'.timer = w.timer /\ w'.timed = w.timed) \/ ~w'.fresh
          /\ autoshow /\ w'.line # w.line => w.current = w.waiting
      BY <1>1, <1>6, <2>1, <2>2, <2>3
    <3> QED BY <1>3, <1>4, <2>1, <2>2, <3>1, KeepStep
  <2>4. CASE HistoryMatches(u) # <<>>
    <3>1. /\ LineOK(w') /\ w'.runs = w.runs + 1 /\ w'.fresh = FALSE /\ w'.waiting = w.waiting
          /\ w'.timer = FALSE /\ w'.timed = -1
          /\ w'.done = w.runs + 1 /\ w'.current \in {-1, w'.waiting}
      BY <1>6, <2>1, <2>2, <2>4
    <3>2. w.timer /\ w.timed = w.waiting /\ w.timed >= 0 /\ left' = left
      BY <1>1, <1>3, <1>6
    <3>3. UNCHANGED history /\ UNCHANGED autoshow /\ UNCHANGED proxies
      BY <1>3, <2>2
    <3> QED BY <3>1, <3>2, <3>3, AskStep
  <2> QED BY <2>3, <2>4
<1>7. CASE ~(w.timed # w.waiting \/ w.timed < 0) /\ ~w.histmode
  <2>1. CompletorCalled(u, w.timed, 0)
    BY <1>3, <1>7
  <2>2. /\ LineOK(w') /\ w'.waiting = w.timed /\ w'.runs = w.runs + 1 /\ w'.fresh = FALSE
        /\ w'.timer = FALSE /\ w'.timed = -1
        /\ \/ w'.done = w.runs + 1 /\ w'.current = w.timed /\ UNCHANGED proxies
           \/ /\ w'.done = w.done /\ w'.current = w.current /\ w'.line = w.line
              /\ proxies' = proxies \cup
                   {[id |-> w.timed, cycle |-> 0, run |-> w.runs + 1, line |-> w.line]}
    <3>1. /\ LineOK(w') /\ w'.waiting = w.timed /\ w'.runs = u.runs + 1 /\ w'.fresh = FALSE
          /\ w'.open = u.open /\ w'.timer = u.timer /\ w'.timed = u.timed
          /\ \/ w'.done = u.runs + 1 /\ w'.current = w.timed /\ UNCHANGED proxies
             \/ /\ w'.done = u.done /\ w'.current = u.current /\ w'.line = u.line
                /\ proxies' = proxies \cup
                     {[id |-> w.timed, cycle |-> 0, run |-> u.runs + 1, line |-> u.line]}
      <4>1. u.waiting = w.timed
        BY <1>2, <1>7
      <4> QED BY <1>1, <1>2, <2>1, <4>1, CompletorCalledFacts
    <3> QED BY <1>2, <3>1
  <2>3. \/ w'.done = w.runs + 1 /\ w'.current \in {-1, w'.waiting} /\ UNCHANGED proxies
        \/ /\ w'.done = w.done /\ w'.current = w.current /\ w'.line = w.line
           /\ \E c \in {-1, 0, 1} : proxies' = proxies \cup
                {[id |-> w'.waiting, cycle |-> c, run |-> w.runs + 1, line |-> w.line]}
    BY <2>2
  <2>4. w'.waiting = w.waiting /\ w.timed >= 0 /\ w.timed = w.waiting
    BY <1>1, <1>7, <2>2
  <2> QED BY <1>3, <2>2, <2>3, <2>4, AskStep
<1> QED BY <1>5, <1>6, <1>7

\* A program that answers: its answer is taken or lost, or it fails.
LEMMA AnsweredStep ==
  ASSUME QueryInv, Answered
  PROVE  QueryStep
<1>1. /\ UNCHANGED history /\ autoshow' = autoshow /\ left' = left
  BY DEF Answered
<1>2. PICK p \in proxies :
        /\ proxies' = proxies \ {p}
        /\ \/ UNCHANGED w
           \/ \E strs \in Answers(p.line) : w' = complproxy_set_completions(w, p, strs)
  BY DEF Answered
<1>3. LineOK(w) /\ p \in Proxy /\ IInv' /\ left' \in 0 .. left /\ w.runs \in Nat
  BY <1>1, Step DEF QueryInv, Counted, LineOK, Edln
<1>4. CASE UNCHANGED w
  <2>1. /\ w'.waiting = w.waiting /\ w'.current = w.current /\ w'.done = w.done
        /\ w'.runs >= w.runs /\ (w'.timer => w.timer) /\ (w'.fresh => w.fresh)
        /\ w'.timed = w.timed \/ (w'.timed = -1 /\ ~w'.timer)
        /\ (w'.timer = w.timer /\ w'.timed = w.timed) \/ ~w'.fresh
        /\ autoshow /\ w'.line # w.line => w.current = w.waiting
    BY <1>3, <1>4
  <2>2. LineOK(w') /\ proxies' \subseteq proxies
    BY <1>2, <1>3, <1>4 DEF LineOK
  <2> QED BY <1>1, <1>3, <2>1, <2>2, KeepStep
<1>5. ASSUME NEW strs \in Answers(p.line), w' = complproxy_set_completions(w, p, strs)
      PROVE  QueryStep
  <2>1. /\ LineOK(w') /\ Same(w, w')
        /\ w.waiting # p.id => w' = w
        /\ w.waiting = p.id => w'.current = p.id /\ w'.done = p.run
    BY <1>3, <1>5, AnswerFacts, AnswersLines
  <2> QED BY <1>1, <1>2, <1>4, <2>1, TakeStep
<1> QED BY <1>2, <1>4, <1>5

\* The steps of the history that everybody takes are steps of a history.
LEMMA HistorySteps == ASSUME QueryInv, [Next]_vars PROVE [HistoryNext]_history
<1>1. CASE UNCHANGED vars
  BY <1>1 DEF vars
<1>2. CASE ChangeHistory
  BY <1>2, QueryAssumption DEF ChangeHistory, HistoryNext
<1>3. CASE ExecuteDeferred
  <2>1. <<Context, w.line>> \in Entries
    BY QueryAssumption DEF QueryInv, Counted, LineOK, Edln
  <2> QED BY <1>3, <2>1 DEF ExecuteDeferred, HistoryNext
<1>4. CASE UserNext
  BY <1>4 DEF UserNext, Edit, edln_cut, MovePoint, wedln_finish, input_cancel, edln_history_prev,
     edln_history_next, wedln_cycle, wedln_complete, Defer, Edited
<1>5. CASE timed_complete \/ Answered
  BY <1>5 DEF timed_complete, Answered
<1> QED BY <1>1, <1>2, <1>3, <1>4, <1>5 DEF Next

\* The steps that leave the WEdln alone but for its timer.
LEMMA OtherStep ==
  ASSUME QueryInv, [Next]_vars, w' = w \/ ExecuteDeferred, UNCHANGED <<autoshow, proxies>>,
         left' \in 0 .. left
  PROVE  QueryStep
<1>1. LineOK(w) /\ w \in Edln /\ w.runs \in Nat
  BY DEF QueryInv, Counted, LineOK, Edln
<1>2. IInv'
  BY HistorySteps, Step DEF QueryInv, Counted
<1>3. CASE w' = w
  <2>1. /\ w'.waiting = w.waiting /\ w'.current = w.current /\ w'.done = w.done
        /\ w'.runs >= w.runs /\ (w'.timer => w.timer) /\ (w'.fresh => w.fresh)
        /\ w'.timed = w.timed \/ (w'.timed = -1 /\ ~w'.timer)
        /\ (w'.timer = w.timer /\ w'.timed = w.timed) \/ ~w'.fresh
        /\ autoshow /\ w'.line # w.line => w.current = w.waiting
    BY <1>1, <1>3
  <2> QED BY <1>1, <1>2, <1>3, <2>1, KeepStep
<1>4. CASE ExecuteDeferred
  <2> DEFINE a == [w EXCEPT !.open = FALSE]
             b == [a EXCEPT !.timer = FALSE]
             u == [b EXCEPT !.fresh = FALSE]
  <2>1. a \in Edln
    BY <1>1 DEF Edln
  <2>2. b \in Edln
    <3> HIDE DEF a
    <3> QED BY <2>1 DEF Edln
  <2>3. u \in Edln
    <3> HIDE DEF b
    <3> QED BY <2>2 DEF Edln
  <2>4. /\ u.before = w.before /\ u.line = w.line /\ u.histent = w.histent /\ u.saved = w.saved
        /\ u.list = w.list /\ u.sel = w.sel /\ u.current = w.current /\ u.done = w.done
        /\ u.waiting = w.waiting /\ u.runs = w.runs /\ u.timer = FALSE /\ u.timed = w.timed
        /\ u.fresh = FALSE
    BY <1>1 DEF Edln
  <2>5. w' = u
    BY <1>4 DEF ExecuteDeferred
  <2> HIDE DEF u
  <2>6. LineOK(u)
    BY <1>1, <2>3, <2>4 DEF LineOK
  <2>7. /\ w'.waiting = w.waiting /\ w'.current = w.current /\ w'.done = w.done
        /\ w'.runs >= w.runs /\ (w'.timer => w.timer) /\ (w'.fresh => w.fresh)
        /\ w'.timed = w.timed \/ (w'.timed = -1 /\ ~w'.timer)
        /\ (w'.timer = w.timer /\ w'.timed = w.timed) \/ ~w'.fresh
        /\ autoshow /\ w'.line # w.line => w.current = w.waiting
    BY <1>1, <2>4, <2>5
  <2> QED BY <1>2, <2>5, <2>6, <2>7, KeepStep
<1> QED BY <1>3, <1>4

\* Every step keeps the invariant, and sets completions only as an answer that fits.
LEMMA NextStep == QueryInv /\ [Next]_vars => QueryStep
<1> SUFFICES ASSUME QueryInv, [Next]_vars PROVE QueryStep
  OBVIOUS
<1>1. left \in Nat
  BY DEF QueryInv, Counted
<1>2. CASE UNCHANGED vars
  BY <1>1, <1>2, OtherStep DEF vars
<1>3. CASE wedln_finish \/ input_cancel
  BY <1>1, <1>3, OtherStep DEF wedln_finish, input_cancel, Defer, Key, Op
<1>4. CASE ChangeHistory
  BY <1>1, <1>4, OtherStep DEF ChangeHistory, Op
<1>5. CASE ExecuteDeferred
  BY <1>1, <1>5, OtherStep DEF ExecuteDeferred
<1>6. ASSUME NEW b \in BOOLEAN, wedln_cycle(b) PROVE QueryStep
  BY <1>6, CycleStep DEF wedln_cycle, Key
<1>7. ASSUME NEW b \in BOOLEAN, edln_history_prev(b) \/ edln_history_next(b) PROVE QueryStep
  BY <1>7, HistoryPrevStep, HistoryNextStep
<1>8. CASE Edit \/ edln_cut \/ MovePoint
  BY <1>8, EditStep, CutStep, MovePointStep
<1>9. ASSUME NEW cycle \in {-1, 0, 1}, NEW always \in BOOLEAN, NEW histmode \in BOOLEAN,
             wedln_complete(cycle, always, histmode)
      PROVE  QueryStep
  BY <1>9, CompleteStep
<1>10. CASE timed_complete \/ Answered
  BY <1>10, TimedStep, AnsweredStep
<1> QED BY <1>2, <1>3, <1>4, <1>5, <1>6, <1>7, <1>8, <1>9, <1>10 DEF Next, UserNext

-----------------------------------------------------------------------------
(* The theorems *)

\* A query whose history is in order when it begins is in order, and a change
\* of its line is asked for by the timer, if it was not otherwise, whatever the
\* user, the programs and other queries do, but for cutting a part of the line while
\* completions are shown automatically (mod_query/wedln.c, edln.c).
THEOREM QueryAsks == ASSUME "cut" \notin Calls PROVE IInv /\ Spec => []AskedAfterChange
<1>1. IInv /\ Init => QueryInv
  BY QueryInit
<1>2. QueryInv /\ [Next]_vars => QueryInv'
  BY NextStep DEF QueryStep
<1>3. QueryInv => AskedAfterChange
  <2> SUFFICES ASSUME QueryInv PROVE AskedAfterChange
    OBVIOUS
  <2>1. LineOK(w) /\ w.line \in Lines /\ w.before \in Lines /\ w.waiting \in Int /\ w.timed \in Int
    BY DEF QueryInv, Counted, LineOK, Edln
  <2> QED BY <2>1, QueryAssumption
          DEF QueryInv, Counted, LineOK, IInv, AskedAfterChange, QueryTypeOK, Asked
<1> QED BY <1>1, <1>2, <1>3, PTL DEF Spec

\* Answers are used for the latest request, once, in the order in which
\* completors were asked, and if completions are shown automatically for the
\* line they are for: unless a history that has one line that fits is completed
\* from when they are not, or a part of the line is cut when they are
\* (mod_query/complete.c, wedln.c, edln.c).
THEOREM QueryAnswers ==
  ASSUME "one" \notin Calls, "cut" \notin Calls PROVE IInv /\ Spec => AnswerFits
<1>1. IInv /\ Init => QueryInv
  BY QueryInit
<1>2. QueryInv /\ [Next]_vars => QueryInv'
  BY NextStep DEF QueryStep
<1>3. QueryInv /\ [Next]_vars =>
        [w'.done # w.done => w'.done > w.done /\
           (autoshow => \A p \in proxies : p.run = w'.done => p.line = w.line)]_vars
  BY NextStep DEF QueryStep, AnswerStep, Plain
<1> QED BY <1>1, <1>2, <1>3, PTL DEF Spec, AnswerFits

\* What a query and those around it do with the history keeps it the list of
\* what was pushed (mod_query/history.c).
THEOREM QueryKeepsHistory == IInv /\ Spec => HistoryStaysList
<1>1. IInv /\ Init => QueryInv
  BY QueryInit
<1>2. QueryInv /\ [Next]_vars => QueryInv'
  BY NextStep DEF QueryStep
<1>3. QueryInv /\ [Next]_vars => [List!Next]_history
  BY HistorySteps, Step DEF QueryInv, Counted
<1> QED BY <1>1, <1>2, <1>3, PTL DEF Spec, HistoryStaysList
=============================================================================
