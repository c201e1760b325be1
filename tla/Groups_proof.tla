---------------------------- MODULE Groups_proof ----------------------------
EXTENDS Groups, WellFoundedInduction, SequenceTheorems, FiniteSetTheorems, TLAPS

-----------------------------------------------------------------------------
(* Lists: which item comes before which *)

Prec(l, a, b) == \E i, j \in DOMAIN l : i < j /\ l[i] = a /\ l[j] = b

\* A set of numbers has a least one.
LEMMA NatMin ==
  ASSUME NEW T \in SUBSET Nat, T # {}
  PROVE  \E n \in T : \A m \in T : n <= m
<1> DEFINE R == {p \in Nat \X Nat : p[1] < p[2]}
<1>1. IsWellFoundedOn(R, Nat)
  <2>1. R = OpToRel(<, Nat)
    BY DEF OpToRel
  <2> QED BY <2>1, NatLessThanWellFounded
<1>2. \E n \in T : \A m \in T : ~(<<m, n>> \in R)
  <2> HIDE DEF R
  <2> QED BY <1>1, WFMin
<1>3. PICK n \in T : \A m \in T : ~(<<m, n>> \in R)
  BY <1>2
<1>4. ASSUME NEW m \in T PROVE n <= m
  <2>1. <<m, n>> \in Nat \X Nat
    OBVIOUS
  <2> QED BY <1>3, <2>1
<1> QED BY <1>4

\* Induction up to N, on what holds in a set of numbers.
LEMMA UpTo ==
  ASSUME NEW N \in Nat, NEW P, 0 \in P, \A n \in 1 .. N : n - 1 \in P => n \in P
  PROVE  \A n \in 0 .. N : n \in P
<1> DEFINE T == {n \in 0 .. N : n \notin P}
<1>1. SUFFICES ASSUME T # {} PROVE FALSE
  OBVIOUS
<1>2. PICK n \in T : \A m \in T : n <= m
  <2>1. T \in SUBSET Nat
    OBVIOUS
  <2> HIDE DEF T
  <2> QED BY <1>1, <2>1, NatMin
<1>3. n \in 1 .. N /\ n - 1 \in 0 .. N /\ n - 1 \notin T
  BY <1>2
<1> QED BY <1>3

\* f is defined by recursion: F gives what follows a value at a number
Recurs(f, S, base, N, F) ==
  f \in [0 .. N -> S] /\ f[0] = base /\ \A n \in 1 .. N : f[n] = F[<<f[n-1], n>>]
Closed(F, S, N) == \A s \in S, n \in 1 .. N : F[<<s, n>>] \in S

\* A function that is defined by recursion over numbers exists.
LEMMA Recursion ==
  ASSUME NEW S, NEW base \in S, NEW N \in Nat, NEW F, Closed(F, S, N)
  PROVE  \E f : Recurs(f, S, base, N, F)
<1> DEFINE Q(f, m) == \A n \in 0 .. m : f[n] = IF n = 0 THEN base ELSE F[<<f[n-1], n>>]
           P == {m \in 0 .. N : \E f \in [0 .. m -> S] : Q(f, m)}
<1>1. 0 \in P
  <2> DEFINE f == [n \in 0 .. 0 |-> base]
  <2>1. f \in [0 .. 0 -> S] /\ f[0] = base /\ 0 .. 0 = {0}
    OBVIOUS
  <2> HIDE DEF f
  <2> QED BY <2>1
<1>2. ASSUME NEW m \in 1 .. N, m - 1 \in P PROVE m \in P
  <2>1. PICK f \in [0 .. m - 1 -> S] : Q(f, m - 1)
    BY <1>2
  <2> DEFINE e == [n \in 0 .. m |-> IF n = m THEN F[<<f[m-1], m>>] ELSE f[n]]
  <2>2. m - 1 \in 0 .. m - 1 /\ F[<<f[m-1], m>>] \in S
    BY DEF Closed
  <2>3. e \in [0 .. m -> S]
    BY <2>2
  <2>4. ASSUME NEW n \in 0 .. m PROVE e[n] = IF n = 0 THEN base ELSE F[<<e[n-1], n>>]
    <3>1. CASE n = m
      BY <3>1, <2>2
    <3>2. CASE n # m
      <4>1. n \in 0 .. m - 1 /\ e[n] = f[n] /\ (n # 0 => e[n-1] = f[n-1])
        BY <3>2
      <4> HIDE DEF e
      <4> QED BY <4>1, <2>1
    <3> QED BY <3>1, <3>2
  <2> HIDE DEF e
  <2> QED BY <2>3, <2>4
<1>3. N \in P
  <2> HIDE DEF P
  <2>1. \A n \in 0 .. N : n \in P
    BY <1>1, <1>2, UpTo
  <2> QED BY <2>1
<1>4. PICK f \in [0 .. N -> S] : Q(f, N)
  BY <1>3
<1>5. 0 \in 0 .. N /\ \A n \in 1 .. N : n \in 0 .. N /\ n # 0
  OBVIOUS
<1> QED BY <1>4, <1>5 DEF Recurs

\* Of the items of a list Only leaves those that are in a set, in their order.
LEMMA OnlyFacts ==
  ASSUME NEW S, NEW l \in Seq(S), NEW A
  PROVE  /\ Only(l, A) \in Seq(S)
         /\ Range(Only(l, A)) = Range(l) \cap A
         /\ \A a, b : Prec(Only(l, A), a, b) <=> a \in A /\ b \in A /\ Prec(l, a, b)
         /\ IsInjective(l) => IsInjective(Only(l, A))
<1> DEFINE N == Len(l)
           Next(s, n) == IF l[n] \in A THEN Append(s, l[n]) ELSE s
           Is(f) == f = [n \in 0 .. N |-> IF n = 0 THEN <<>> ELSE Next(f[n-1], n)]
           kept == CHOOSE f : Is(f)
           Upto(n) == {l[i] : i \in {j \in 1 .. n : l[j] \in A}}
           Fits(s, n) == /\ s \in Seq(S) /\ Range(s) = Upto(n)
                         /\ \A a, b : Prec(s, a, b) <=>
                              \E i, j \in 1 .. n : i < j /\ l[i] \in A /\ l[j] \in A /\ l[i] = a /\ l[j] = b
                         /\ IsInjective(l) => IsInjective(s)
           P == {n \in 0 .. N : Fits(kept[n], n)}
<1>1. N \in Nat /\ \A n \in 1 .. N : l[n] \in S
  OBVIOUS
<1>2. \E f : Is(f)
  <2> DEFINE F == [p \in Seq(S) \X (1 .. N) |-> Next(p[1], p[2])]
  <2>1. \A s \in Seq(S), n \in 1 .. N : F[<<s, n>>] = Next(s, n) /\ F[<<s, n>>] \in Seq(S)
    BY <1>1
  <2> HIDE DEF F
  <2>2. PICK f : f[0] = <<>> /\ \A n \in 1 .. N : f[n] = F[<<f[n-1], n>>] /\ f[n-1] \in Seq(S)
    <3>1. <<>> \in Seq(S) /\ Closed(F, Seq(S), N)
      BY <2>1 DEF Closed
    <3>2. PICK f : Recurs(f, Seq(S), <<>>, N, F)
      BY <1>1, <3>1, Recursion
    <3>3. \A n \in 1 .. N : n - 1 \in 0 .. N
      BY <1>1
    <3> QED BY <3>2, <3>3 DEF Recurs
  <2> DEFINE h == [n \in 0 .. N |-> f[n]]
  <2>3. ASSUME NEW n \in 0 .. N
        PROVE  h[n] = IF n = 0 THEN <<>> ELSE Next(h[n-1], n)
    <3>1. CASE n # 0
      <4>1. n \in 1 .. N /\ h[n] = f[n] /\ h[n-1] = f[n-1]
        BY <1>1, <3>1
      <4>2. f[n] = F[<<f[n-1], n>>] /\ f[n-1] \in Seq(S)
        BY <2>2, <4>1
      <4>3. F[<<f[n-1], n>>] = Next(f[n-1], n)
        BY <2>1, <4>1, <4>2
      <4> HIDE DEF h, Next
      <4> QED BY <3>1, <4>1, <4>2, <4>3
    <3>2. CASE n = 0
      <4>1. h[n] = f[0]
        BY <3>2
      <4> QED BY <2>2, <3>2, <4>1
    <3> QED BY <3>1, <3>2
  <2>4. h = [n \in 0 .. N |-> h[n]]
    OBVIOUS
  <2>5. h = [n \in 0 .. N |-> IF n = 0 THEN <<>> ELSE Next(h[n-1], n)]
    <3> HIDE DEF h, Next, N
    <3> QED BY <2>3, <2>4
  <2> HIDE DEF h, Next, N
  <2> QED BY <2>5
<1>3. Is(kept)
  <2> HIDE DEF Is
  <2> QED BY <1>2
<1>4. kept[0] = <<>> /\ \A n \in 1 .. N : kept[n] = Next(kept[n-1], n)
  <2> HIDE DEF kept, Next
  <2>1. \A n \in 0 .. N : kept[n] = IF n = 0 THEN <<>> ELSE Next(kept[n-1], n)
    BY <1>3
  <2>2. 0 \in 0 .. N /\ \A n \in 1 .. N : n \in 0 .. N /\ n # 0
    BY <1>1
  <2> QED BY <2>1, <2>2
<1> HIDE DEF kept
<1>5. 0 \in P
  <2>1. Fits(<<>>, 0)
    <3>1. <<>> \in Seq(S) /\ DOMAIN <<>> = {} /\ 1 .. 0 = {}
      OBVIOUS
    <3> QED BY <3>1 DEF Range, Prec, IsInjective
  <2>2. 0 \in 0 .. N /\ kept[0] = <<>>
    BY <1>1, <1>4
  <2> HIDE DEF Fits, N
  <2> QED BY <2>1, <2>2
<1>6. ASSUME NEW n \in 1 .. N, n - 1 \in P PROVE n \in P
  <2> DEFINE s == kept[n-1]
             x == l[n]
  <2>1. Fits(s, n - 1)
    BY <1>6
  <2>2. kept[n] = Next(s, n)
    BY <1>4
  <2>3. n - 1 \in Nat /\ x \in S /\ 1 .. n = (1 .. n - 1) \cup {n} /\ \A i \in 1 .. n - 1 : i < n
    BY <1>1
  <2> HIDE DEF s
  <2>4. CASE x \in A
    <3> DEFINE v == Append(s, x)
    <3>1. kept[n] = v
      BY <2>2, <2>4
    <3>2. /\ v \in Seq(S) /\ Len(v) = Len(s) + 1 /\ DOMAIN v = DOMAIN s \cup {Len(s) + 1}
          /\ Len(s) \in Nat /\ DOMAIN s = 1 .. Len(s)
          /\ v[Len(s) + 1] = x /\ \A i \in DOMAIN s : v[i] = s[i] /\ i < Len(s) + 1
      BY <2>1, <2>3
    <3> HIDE DEF v
    <3>3. Range(v) = Range(s) \cup {x}
      BY <3>2 DEF Range
    <3>4. Upto(n) = Upto(n - 1) \cup {x}
      BY <2>3, <2>4
    <3>5. ASSUME NEW a, NEW b
          PROVE  Prec(v, a, b) <=> Prec(s, a, b) \/ (a \in Range(s) /\ b = x)
      BY <3>2 DEF Prec, Range
    <3>6. ASSUME NEW a, NEW b
          PROVE  Prec(v, a, b) <=>
                   \E i, j \in 1 .. n : i < j /\ l[i] \in A /\ l[j] \in A /\ l[i] = a /\ l[j] = b
      <4>1. Prec(s, a, b) <=>
              \E i, j \in 1 .. n - 1 : i < j /\ l[i] \in A /\ l[j] \in A /\ l[i] = a /\ l[j] = b
        BY <2>1
      <4>2. a \in Range(s) <=> \E i \in 1 .. n - 1 : l[i] \in A /\ l[i] = a
        BY <2>1
      <4>3. ASSUME NEW i \in 1 .. n, NEW j \in 1 .. n, i < j
            PROVE  i \in 1 .. n - 1 /\ (j \in 1 .. n - 1 \/ j = n)
        BY <2>3, <4>3
      <4>4. \A i \in 1 .. n - 1 : i \in 1 .. n
        BY <2>3
      <4> QED BY <2>3, <2>4, <3>5, <4>1, <4>2, <4>3, <4>4
    <3>7. IsInjective(l) => IsInjective(v)
      <4> SUFFICES ASSUME IsInjective(l) PROVE IsInjective(v)
        OBVIOUS
      <4>1. x \notin Range(s)
        <5>1. \A i \in 1 .. n - 1 : l[i] # x
          BY <1>1, <2>3 DEF IsInjective
        <5> QED BY <2>1, <5>1
      <4>2. IsInjective(s)
        BY <2>1
      <4>3. \A i \in DOMAIN s : s[i] # x
        BY <4>1 DEF Range
      <4>4. ASSUME NEW i \in DOMAIN v, NEW j \in DOMAIN v, v[i] = v[j] PROVE i = j
        BY <3>2, <4>2, <4>3, <4>4 DEF IsInjective
      <4> QED BY <4>4 DEF IsInjective
    <3>8. Fits(v, n)
      BY <2>1, <3>2, <3>3, <3>4, <3>6, <3>7
    <3> QED BY <3>1, <3>8
  <2>5. CASE x \notin A
    <3>1. kept[n] = s
      BY <2>2, <2>5
    <3>2. Upto(n) = Upto(n - 1)
      BY <2>3, <2>5
    <3>3. \A i \in 1 .. n : l[i] \in A <=> i \in 1 .. n - 1 /\ l[i] \in A
      BY <2>3, <2>5
    <3>4. Fits(s, n)
      BY <2>1, <2>3, <3>2, <3>3
    <3> QED BY <3>1, <3>4
  <2> QED BY <2>4, <2>5
<1>7. Fits(kept[N], N)
  <2> HIDE DEF P
  <2>1. \A n \in 0 .. N : n \in P
    BY <1>1, <1>5, <1>6, UpTo
  <2>2. N \in P
    BY <1>1, <2>1
  <2> QED BY <2>2 DEF P
<1>8. Only(l, A) = kept[N]
  BY DEF Only, kept
<1>9. /\ Upto(N) = Range(l) \cap A
      /\ \A a, b : Prec(l, a, b) <=> \E i, j \in 1 .. N : i < j /\ l[i] = a /\ l[j] = b
  BY <1>1 DEF Range, Prec
<1> QED BY <1>7, <1>8, <1>9

\* In a list without repetitions an item comes before another or after it.
LEMMA PrecFacts ==
  ASSUME NEW S, NEW l \in Seq(S), IsInjective(l)
  PROVE  /\ \A i, j \in DOMAIN l : Prec(l, l[i], l[j]) <=> i < j
         /\ \A a, b : Prec(l, a, b) => a # b /\ ~Prec(l, b, a) /\ a \in Range(l) /\ b \in Range(l)
         /\ \A a, b \in Range(l) : a = b \/ Prec(l, a, b) \/ Prec(l, b, a)
         /\ \A a, b, c : Prec(l, a, b) /\ Prec(l, b, c) => Prec(l, a, c)
<1>1. DOMAIN l \in SUBSET Int /\ \A i, j \in DOMAIN l : i < j \/ i = j \/ j < i
  OBVIOUS
<1>2. \A i, j \in DOMAIN l : l[i] = l[j] => i = j
  BY DEF IsInjective
<1>3. \A i, j \in DOMAIN l : Prec(l, l[i], l[j]) <=> i < j
  BY <1>1, <1>2 DEF Prec
<1>4. \A a, b : Prec(l, a, b) => a # b /\ ~Prec(l, b, a) /\ a \in Range(l) /\ b \in Range(l)
  BY <1>1, <1>2 DEF Prec, Range
<1>5. \A a, b \in Range(l) : a = b \/ Prec(l, a, b) \/ Prec(l, b, a)
  BY <1>1 DEF Prec, Range
<1>6. ASSUME NEW a, NEW b, NEW c, Prec(l, a, b), Prec(l, b, c) PROVE Prec(l, a, c)
  <2>1. PICK i \in DOMAIN l, j \in DOMAIN l : i < j /\ l[i] = a /\ l[j] = b
    BY <1>6 DEF Prec
  <2>2. PICK k \in DOMAIN l : j < k /\ l[k] = c
    BY <1>2, <1>6, <2>1 DEF Prec
  <2>3. i < k
    BY <1>1, <2>1, <2>2
  <2> QED BY <2>1, <2>2, <2>3 DEF Prec
<1> QED BY <1>3, <1>4, <1>5, <1>6

\* Two lists of the same items in the same order are the same.
LEMMA SameList ==
  ASSUME NEW S, NEW l \in Seq(S), NEW m \in Seq(S), IsInjective(l), IsInjective(m),
         Range(l) = Range(m), \A a, b : Prec(l, a, b) => Prec(m, a, b)
  PROVE  l = m
<1> DEFINE N == Len(l)
           P == {n \in 0 .. N : \A i \in 1 .. n : i \in DOMAIN m /\ m[i] = l[i]}
<1>1. N \in Nat /\ DOMAIN l = 1 .. N /\ Len(m) \in Nat /\ DOMAIN m = 1 .. Len(m)
  OBVIOUS
<1>2. 0 \in P
  BY <1>1
<1>3. ASSUME NEW n \in 1 .. N, n - 1 \in P PROVE n \in P
  <2>1. \A i \in 1 .. n - 1 : i \in DOMAIN m /\ m[i] = l[i]
    BY <1>3
  <2>2. n \in DOMAIN l /\ n - 1 \in Nat
    BY <1>1
  <2>3. PICK k \in DOMAIN m : m[k] = l[n]
    BY <2>2 DEF Range
  <2>4. k >= n
    <3>1. SUFFICES ASSUME k < n PROVE FALSE
      BY <1>1
    <3>2. k \in 1 .. n - 1 /\ k \in DOMAIN l
      BY <1>1, <3>1
    <3>3. l[k] = l[n]
      BY <2>1, <2>3, <3>2
    <3>4. k = n
      BY <2>2, <3>2, <3>3 DEF IsInjective
    <3> QED BY <3>1, <3>4
  <2>5. n \in DOMAIN m
    BY <1>1, <2>4
  <2>6. m[n] = l[n]
    <3>1. SUFFICES ASSUME k > n PROVE FALSE
      BY <1>1, <2>3, <2>4
    <3>2. PICK j \in DOMAIN l : l[j] = m[n]
      BY <2>5 DEF Range
    <3>3. ~(j < n)
      <4>1. SUFFICES ASSUME j < n PROVE FALSE
        OBVIOUS
      <4>2. j \in 1 .. n - 1
        BY <1>1, <4>1
      <4>3. m[j] = m[n] /\ j \in DOMAIN m
        BY <2>1, <3>2, <4>2
      <4>4. j = n
        BY <2>5, <4>3 DEF IsInjective
      <4> QED BY <4>1, <4>4
    <3>4. j # n
      <4>1. SUFFICES ASSUME j = n PROVE FALSE
        OBVIOUS
      <4>2. m[k] = m[n]
        BY <2>3, <3>2, <4>1
      <4>3. k = n
        BY <2>5, <4>2 DEF IsInjective
      <4> QED BY <3>1, <4>3
    <3>5. n < j
      BY <1>1, <3>3, <3>4
    <3>6. Prec(l, l[n], m[n])
      BY <2>2, <3>2, <3>5 DEF Prec
    <3>7. Prec(m, m[k], m[n])
      BY <2>3, <3>6
    <3>8. k < n
      BY <2>5, <3>7, PrecFacts
    <3> QED BY <1>1, <3>1, <3>8
  <2>7. \A i \in 1 .. n : i \in 1 .. n - 1 \/ i = n
    BY <1>1
  <2> QED BY <2>1, <2>5, <2>6, <2>7
<1>4. \A n \in 0 .. N : n \in P
  <2> HIDE DEF P, N
  <2> QED BY <1>1, <1>2, <1>3, UpTo
<1>5. \A i \in 1 .. N : i \in DOMAIN m /\ m[i] = l[i]
  BY <1>1, <1>4
<1>6. Len(m) <= N
  <2>1. SUFFICES ASSUME N < Len(m) PROVE FALSE
    BY <1>1
  <2>2. N + 1 \in DOMAIN m
    BY <1>1, <2>1
  <2>3. PICK j \in DOMAIN l : l[j] = m[N + 1]
    BY <2>2 DEF Range
  <2>4. m[j] = m[N + 1] /\ j \in DOMAIN m
    BY <1>1, <1>5, <2>3
  <2>5. j = N + 1
    BY <2>2, <2>4 DEF IsInjective
  <2> QED BY <1>1, <2>5
<1>7. Len(m) = N
  <2>1. CASE N = 0
    BY <1>1, <1>6, <2>1
  <2>2. CASE N # 0
    <3>1. N \in 1 .. N
      BY <1>1, <2>2
    <3>2. N \in DOMAIN m
      BY <1>5, <3>1
    <3> DEFINE M == Len(m)
    <3>3. N \in Nat /\ M \in Nat /\ M <= N /\ N \in 1 .. M
      BY <1>1, <1>6, <3>2
    <3> HIDE DEF M, N
    <3>4. M = N
      BY <3>3
    <3> QED BY <3>4 DEF M
  <2> QED BY <2>1, <2>2
<1> QED BY <1>1, <1>5, <1>7

\* What InsertAt returns.
LEMMA InsertFacts ==
  ASSUME NEW S, NEW l \in Seq(S), NEW x \in S, NEW p \in 1 .. Len(l) + 1
  PROVE  /\ InsertAt(l, p, x) \in Seq(S) /\ Len(InsertAt(l, p, x)) = Len(l) + 1
         /\ InsertAt(l, p, x)[p] = x
         /\ \A i \in DOMAIN l : /\ i < p => InsertAt(l, p, x)[i] = l[i]
                                /\ i >= p => InsertAt(l, p, x)[i + 1] = l[i]
<1> DEFINE a == SubSeq(l, 1, p - 1)
           b == SubSeq(l, p, Len(l))
<1>1. Len(l) \in Nat /\ DOMAIN l = 1 .. Len(l)
  OBVIOUS
<1>2. a \in Seq(S) /\ Len(a) = p - 1 /\ \A i \in 1 .. p - 1 : a[i] = l[i]
  BY <1>1
<1>3. b \in Seq(S) /\ Len(b) = Len(l) + 1 - p /\ \A i \in 1 .. Len(l) + 1 - p : b[i] = l[p + i - 1]
  BY <1>1
<1> DEFINE c == a \o <<x>>
<1>4. c \in Seq(S) /\ Len(c) = p /\ c[p] = x /\ \A i \in 1 .. p - 1 : c[i] = l[i]
  <2> HIDE DEF a, b
  <2> QED BY <1>1, <1>2
<1> DEFINE v == c \o b
<1>5. InsertAt(l, p, x) = v
  BY DEF InsertAt
<1> HIDE DEF a, b, c
<1>6. v \in Seq(S) /\ Len(v) = Len(l) + 1
  BY <1>1, <1>3, <1>4
<1>7. v[p] = x
  BY <1>1, <1>3, <1>4
<1>8. ASSUME NEW i \in DOMAIN l, i < p PROVE v[i] = l[i]
  BY <1>1, <1>3, <1>4, <1>8
<1>9. ASSUME NEW i \in DOMAIN l, i >= p PROVE v[i + 1] = l[i]
  <2>1. PICK k \in Int : k = i + 1 - p
    BY <1>1
  <2>2. k \in 1 .. Len(l) + 1 - p /\ p + k - 1 = i /\ i + 1 = Len(c) + k
    BY <1>1, <1>4, <1>9, <2>1
  <2>3. b[k] = l[i]
    BY <1>3, <2>2
  <2>4. v[i + 1] = b[k]
    BY <1>1, <1>3, <1>4, <2>2
  <2> QED BY <2>3, <2>4
<1> HIDE DEF v
<1> QED BY <1>5, <1>6, <1>7, <1>8, <1>9

\* What is inserted comes before the items from its place on, and after the others.
LEMMA InsertOrder ==
  ASSUME NEW S, NEW l \in Seq(S), IsInjective(l), NEW x \in S, x \notin Range(l),
         NEW p \in 1 .. Len(l) + 1
  PROVE  LET v == InsertAt(l, p, x)
         IN /\ v \in Seq(S) /\ Range(v) = Range(l) \cup {x} /\ IsInjective(v)
            /\ \A a, b \in Range(l) : Prec(v, a, b) <=> Prec(l, a, b)
            /\ \A i \in DOMAIN l : /\ i < p => Prec(v, l[i], x)
                                   /\ i >= p => Prec(v, x, l[i])
<1> DEFINE v == InsertAt(l, p, x)
           At(i) == IF i < p THEN i ELSE i + 1
<1>1. Len(l) \in Nat /\ DOMAIN l = 1 .. Len(l)
  OBVIOUS
<1>2. v \in Seq(S) /\ Len(v) = Len(l) + 1 /\ v[p] = x
  BY InsertFacts
<1>3. \A i \in DOMAIN l : v[At(i)] = l[i]
  BY <1>1, InsertFacts
<1> HIDE DEF v
<1>4. DOMAIN v = 1 .. Len(l) + 1 /\ p \in DOMAIN v
  BY <1>1, <1>2
<1>5. \A i \in DOMAIN l : At(i) \in DOMAIN v /\ At(i) # p
  BY <1>1, <1>4
<1>6. \A k \in DOMAIN v : k = p \/ \E i \in DOMAIN l : k = At(i)
  <2> TAKE k \in DOMAIN v
  <2>1. CASE k < p
    <3>1. k \in DOMAIN l /\ k = At(k)
      BY <1>1, <1>4, <2>1
    <3> QED BY <3>1
  <2>2. CASE k > p
    <3>1. k - 1 \in DOMAIN l /\ k = At(k - 1)
      BY <1>1, <1>4, <2>2
    <3> QED BY <3>1
  <2> QED BY <1>4, <2>1, <2>2
<1>7. \A i, j \in DOMAIN l : i < j <=> At(i) < At(j)
  BY <1>1
<1>8. \A i \in DOMAIN l : i < p <=> At(i) < p
  BY <1>1
<1>9. \A i \in DOMAIN l : i >= p => p < At(i)
  BY <1>1
<1> HIDE DEF At
<1>10. Range(v) = Range(l) \cup {x}
  BY <1>2, <1>3, <1>4, <1>5, <1>6 DEF Range
<1>11. \A i, j \in DOMAIN l : l[i] = l[j] => i = j
  BY DEF IsInjective
<1>12. \A i \in DOMAIN l : l[i] # x
  BY DEF Range
<1>13. IsInjective(v)
  <2>1. SUFFICES ASSUME NEW k \in DOMAIN v, NEW m \in DOMAIN v, v[k] = v[m] PROVE k = m
    BY DEF IsInjective
  <2>2. CASE k = p
    BY <1>2, <1>3, <1>6, <1>12, <2>1, <2>2
  <2>3. CASE m = p
    BY <1>2, <1>3, <1>6, <1>12, <2>1, <2>3
  <2>4. CASE k # p /\ m # p
    BY <1>3, <1>6, <1>11, <2>1, <2>4
  <2> QED BY <2>2, <2>3, <2>4
<1>14. ASSUME NEW a \in Range(l), NEW b \in Range(l) PROVE Prec(v, a, b) <=> Prec(l, a, b)
  <2>1. PICK i \in DOMAIN l, j \in DOMAIN l : a = l[i] /\ b = l[j]
    BY DEF Range
  <2>2. Prec(l, a, b) <=> i < j
    BY <2>1, PrecFacts
  <2>3. a = v[At(i)] /\ b = v[At(j)] /\ At(i) \in DOMAIN v /\ At(j) \in DOMAIN v
    BY <1>3, <1>5, <2>1
  <2>4. Prec(v, a, b) <=> At(i) < At(j)
    BY <1>2, <1>13, <2>3, PrecFacts
  <2> QED BY <1>7, <2>2, <2>4
<1>15. ASSUME NEW i \in DOMAIN l
       PROVE  (i < p => Prec(v, l[i], x)) /\ (i >= p => Prec(v, x, l[i]))
  <2>1. l[i] = v[At(i)] /\ At(i) \in DOMAIN v
    BY <1>3, <1>5
  <2> QED BY <1>2, <1>4, <1>8, <1>9, <2>1 DEF Prec
<1>16. v = InsertAt(l, p, x)
  BY DEF v
<1> QED BY <1>2, <1>10, <1>13, <1>14, <1>15, <1>16

\* What is appended comes after all others.
LEMMA AppendOrder ==
  ASSUME NEW S, NEW l \in Seq(S), IsInjective(l), NEW x \in S, x \notin Range(l)
  PROVE  LET v == Append(l, x)
         IN /\ v \in Seq(S) /\ Range(v) = Range(l) \cup {x} /\ IsInjective(v)
            /\ \A a, b \in Range(l) : Prec(v, a, b) <=> Prec(l, a, b)
            /\ \A a \in Range(l) : Prec(v, a, x)
<1> DEFINE v == Append(l, x)
           u == InsertAt(l, Len(l) + 1, x)
<1>1. Len(l) \in Nat /\ DOMAIN l = 1 .. Len(l) /\ Len(l) + 1 \in 1 .. Len(l) + 1
  OBVIOUS
<1>2. u \in Seq(S) /\ Len(u) = Len(l) + 1 /\ u[Len(l) + 1] = x /\ \A i \in DOMAIN l : u[i] = l[i]
  <2>1. \A i \in DOMAIN l : i < Len(l) + 1
    BY <1>1
  <2> QED BY <1>1, <2>1, InsertFacts
<1>3. v \in Seq(S) /\ Len(v) = Len(l) + 1 /\ v[Len(l) + 1] = x /\ \A i \in DOMAIN l : v[i] = l[i]
  BY <1>1
<1> HIDE DEF u, v
<1>4. u = v
  <2>1. DOMAIN u = 1 .. Len(l) + 1 /\ DOMAIN v = 1 .. Len(l) + 1
    BY <1>2, <1>3
  <2>2. \A i \in 1 .. Len(l) + 1 : i = Len(l) + 1 \/ i \in DOMAIN l
    BY <1>1
  <2>3. \A i \in 1 .. Len(l) + 1 : u[i] = v[i]
    BY <1>2, <1>3, <2>2
  <2> QED BY <1>2, <1>3, <2>1, <2>3
<1>5. /\ u \in Seq(S) /\ Range(u) = Range(l) \cup {x} /\ IsInjective(u)
      /\ \A a, b \in Range(l) : Prec(u, a, b) <=> Prec(l, a, b)
      /\ \A i \in DOMAIN l : i < Len(l) + 1 => Prec(u, l[i], x)
  BY <1>1, InsertOrder DEF u
<1>6. \A a \in Range(l) : Prec(v, a, x)
  <2>1. \A a \in Range(l) : \E i \in DOMAIN l : a = l[i] /\ i < Len(l) + 1
    BY <1>1 DEF Range
  <2> QED BY <1>4, <1>5, <2>1
<1> QED BY <1>4, <1>5, <1>6 DEF v

\* Two lists one after the other.
LEMMA ConcatOrder ==
  ASSUME NEW S, NEW l \in Seq(S), NEW m \in Seq(S), IsInjective(l), IsInjective(m),
         Range(l) \cap Range(m) = {}
  PROVE  LET v == l \o m
         IN /\ v \in Seq(S) /\ Range(v) = Range(l) \cup Range(m) /\ IsInjective(v)
            /\ \A a, b : Prec(v, a, b) <=> \/ Prec(l, a, b) \/ Prec(m, a, b)
                                           \/ a \in Range(l) /\ b \in Range(m)
<1> DEFINE v == l \o m
           N == Len(l)
<1>1. N \in Nat /\ DOMAIN l = 1 .. N /\ Len(m) \in Nat /\ DOMAIN m = 1 .. Len(m)
  OBVIOUS
<1>2. v \in Seq(S) /\ DOMAIN v = 1 .. N + Len(m)
  OBVIOUS
<1>3. \A i \in DOMAIN l : i \in DOMAIN v /\ v[i] = l[i]
  BY <1>1, <1>2
<1>4. \A i \in DOMAIN m : N + i \in DOMAIN v /\ v[N + i] = m[i]
  BY <1>1, <1>2
<1>5. \A k \in DOMAIN v : k \in DOMAIN l \/ \E i \in DOMAIN m : k = N + i
  <2> TAKE k \in DOMAIN v
  <2>1. CASE k > N
    <3>1. k - N \in DOMAIN m /\ k = N + (k - N)
      BY <1>1, <1>2, <2>1
    <3> QED BY <3>1
  <2>2. CASE k <= N
    BY <1>1, <1>2, <2>2
  <2> QED BY <1>1, <1>2, <2>1, <2>2
<1> HIDE DEF v, N
<1>6. Range(v) = Range(l) \cup Range(m)
  BY <1>3, <1>4, <1>5 DEF Range
<1>7. \A i \in DOMAIN l, j \in DOMAIN m : l[i] # m[j] /\ i < N + j
  <2>1. ASSUME NEW i \in DOMAIN l, NEW j \in DOMAIN m PROVE l[i] # m[j]
    <3>1. l[i] \in Range(l) /\ m[j] \in Range(m)
      BY DEF Range
    <3> QED BY <3>1
  <2>2. \A i \in DOMAIN l, j \in DOMAIN m : i < N + j
    BY <1>1
  <2> QED BY <2>1, <2>2
<1>8. IsInjective(v)
  <2>1. SUFFICES ASSUME NEW i \in DOMAIN v, NEW j \in DOMAIN v, v[i] = v[j] PROVE i = j
    BY DEF IsInjective
  <2>2. CASE i \in DOMAIN l /\ j \in DOMAIN l
    BY <1>3, <2>1, <2>2 DEF IsInjective
  <2>3. CASE i \in DOMAIN l /\ j \notin DOMAIN l
    BY <1>3, <1>4, <1>5, <1>7, <2>1, <2>3
  <2>4. CASE i \notin DOMAIN l /\ j \in DOMAIN l
    BY <1>3, <1>4, <1>5, <1>7, <2>1, <2>4
  <2>5. CASE i \notin DOMAIN l /\ j \notin DOMAIN l
    BY <1>4, <1>5, <2>1, <2>5 DEF IsInjective
  <2> QED BY <2>2, <2>3, <2>4, <2>5
<1>9. ASSUME NEW a, NEW b
      PROVE  Prec(v, a, b) <=> \/ Prec(l, a, b) \/ Prec(m, a, b)
                               \/ a \in Range(l) /\ b \in Range(m)
  <2>1. ASSUME Prec(v, a, b)
        PROVE  Prec(l, a, b) \/ Prec(m, a, b) \/ (a \in Range(l) /\ b \in Range(m))
    <3>1. PICK i \in DOMAIN v, j \in DOMAIN v : i < j /\ v[i] = a /\ v[j] = b
      BY <2>1 DEF Prec
    <3>2. CASE i \in DOMAIN l /\ j \in DOMAIN l
      BY <1>3, <3>1, <3>2 DEF Prec
    <3>3. CASE i \in DOMAIN l /\ j \notin DOMAIN l
      BY <1>3, <1>4, <1>5, <3>1, <3>3 DEF Range
    <3>4. CASE i \notin DOMAIN l
      <4>1. PICK x \in DOMAIN m : i = N + x
        BY <1>5, <3>4
      <4>2. j \notin DOMAIN l
        BY <1>1, <1>7, <3>1, <4>1
      <4>3. PICK y \in DOMAIN m : j = N + y
        BY <1>5, <4>2
      <4>4. x < y
        BY <1>1, <3>1, <4>1, <4>3
      <4> QED BY <1>4, <3>1, <4>1, <4>3, <4>4 DEF Prec
    <3> QED BY <3>2, <3>3, <3>4
  <2>2. ASSUME Prec(l, a, b) PROVE Prec(v, a, b)
    BY <1>3, <2>2 DEF Prec
  <2>3. ASSUME Prec(m, a, b) PROVE Prec(v, a, b)
    <3>1. PICK i \in DOMAIN m, j \in DOMAIN m : i < j /\ m[i] = a /\ m[j] = b
      BY <2>3 DEF Prec
    <3>2. N + i < N + j
      BY <1>1, <3>1
    <3> QED BY <1>4, <3>1, <3>2 DEF Prec
  <2>4. ASSUME a \in Range(l), b \in Range(m) PROVE Prec(v, a, b)
    BY <1>3, <1>4, <1>7, <2>4 DEF Prec, Range
  <2> QED BY <2>1, <2>2, <2>3, <2>4
<1> QED BY <1>2, <1>6, <1>8, <1>9 DEF v

\* A list turned round.
LEMMA ReverseOrder ==
  ASSUME NEW S, NEW l \in Seq(S)
  PROVE  LET v == Reverse(l)
         IN /\ v \in Seq(S) /\ Range(v) = Range(l) /\ Len(v) = Len(l)
            /\ \A i \in DOMAIN l : v[Len(l) - i + 1] = l[i]
            /\ IsInjective(l) => IsInjective(v)
            /\ \A a, b : Prec(v, a, b) <=> Prec(l, b, a)
<1> DEFINE v == Reverse(l)
           N == Len(l)
<1>1. N \in Nat /\ DOMAIN l = 1 .. N
  OBVIOUS
<1>2. v = [i \in 1 .. N |-> l[(N - i) + 1]]
  BY DEF Reverse
<1>3. v \in Seq(S) /\ DOMAIN v = 1 .. N /\ Len(v) = N
  <2>1. \A i \in 1 .. N : l[(N - i) + 1] \in S
    BY <1>1
  <2> HIDE DEF v, N
  <2> QED BY <1>1, <1>2, <2>1
<1>4. \A i \in 1 .. N : (N - i) + 1 \in 1 .. N /\ v[i] = l[(N - i) + 1] /\ (N - ((N - i) + 1)) + 1 = i
  <2> HIDE DEF v, N
  <2> QED BY <1>1, <1>2
<1> HIDE DEF v, N
<1>5. \A i \in 1 .. N : v[(N - i) + 1] = l[i]
  BY <1>1, <1>4
<1>6. Range(v) = Range(l)
  BY <1>1, <1>3, <1>4, <1>5 DEF Range
<1>7. ASSUME IsInjective(l) PROVE IsInjective(v)
  <2>1. SUFFICES ASSUME NEW i \in 1 .. N, NEW j \in 1 .. N, v[i] = v[j] PROVE i = j
    BY <1>3 DEF IsInjective
  <2>2. (N - i) + 1 = (N - j) + 1
    BY <1>1, <1>4, <1>7, <2>1 DEF IsInjective
  <2> QED BY <1>1, <2>2
<1>8. \A i, j \in 1 .. N : i < j <=> (N - j) + 1 < (N - i) + 1
  BY <1>1
<1>9. ASSUME NEW a, NEW b PROVE Prec(v, a, b) <=> Prec(l, b, a)
  <2>1. ASSUME Prec(v, a, b) PROVE Prec(l, b, a)
    <3>1. PICK i \in 1 .. N, j \in 1 .. N : i < j /\ v[i] = a /\ v[j] = b
      BY <1>3, <2>1 DEF Prec
    <3>2. /\ (N - j) + 1 \in 1 .. N /\ (N - i) + 1 \in 1 .. N /\ (N - j) + 1 < (N - i) + 1
          /\ l[(N - j) + 1] = b /\ l[(N - i) + 1] = a
      BY <1>4, <1>8, <3>1
    <3> QED BY <1>1, <3>2 DEF Prec
  <2>2. ASSUME Prec(l, b, a) PROVE Prec(v, a, b)
    <3>1. PICK i \in 1 .. N, j \in 1 .. N : i < j /\ l[i] = b /\ l[j] = a
      BY <1>1, <2>2 DEF Prec
    <3>2. /\ (N - j) + 1 \in 1 .. N /\ (N - i) + 1 \in 1 .. N /\ (N - j) + 1 < (N - i) + 1
          /\ v[(N - j) + 1] = a /\ v[(N - i) + 1] = b
      BY <1>4, <1>5, <1>8, <3>1
    <3> QED BY <1>3, <3>2 DEF Prec
  <2> QED BY <2>1, <2>2
<1> QED BY <1>1, <1>3, <1>5, <1>6, <1>7, <1>9 DEF v, N

\* The place of an item in a list.
LEMMA PlaceFacts ==
  ASSUME NEW l, NEW x \in Range(l)
  PROVE  Place(l, x) \in DOMAIN l /\ l[Place(l, x)] = x
<1>1. \E i \in DOMAIN l : l[i] = x
  BY DEF Range
<1>2. Place(l, x) = CHOOSE i \in DOMAIN l : l[i] = x
  BY DEF Place
<1> QED BY <1>1, <1>2

-----------------------------------------------------------------------------
(* Restacking and weaving *)

\* The server moves x just below other, or to the top, and leaves the rest in order.
LEMMA RestackFacts ==
  ASSUME NEW S, NEW order \in Seq(S), IsInjective(order), NEW x \in Range(order), NEW other,
         NoItem \notin S, other = NoItem \/ (other \in Range(order) /\ other # x)
  PROVE  LET v == RestackWindow(order, x, other)
         IN /\ v \in Seq(S) /\ Range(v) = Range(order) /\ IsInjective(v)
            /\ \A a, b \in Range(order) \ {x} : Prec(v, a, b) <=> Prec(order, a, b)
            /\ \A a \in Range(order) \ {x} :
                 /\ other # NoItem /\ (a = other \/ Prec(order, other, a)) => Prec(v, x, a)
                 /\ ~(other # NoItem /\ (a = other \/ Prec(order, other, a))) => Prec(v, a, x)
<1> DEFINE v == RestackWindow(order, x, other)
           o == Without(order, {x})
<1>1. /\ o \in Seq(S) /\ Range(o) = Range(order) \ {x} /\ IsInjective(o) /\ x \in S
      /\ \A a, b \in Range(order) \ {x} : Prec(o, a, b) <=> Prec(order, a, b)
  <2> DEFINE A == Range(order) \ {x}
  <2>1. o = Only(order, A)
    BY DEF Without
  <2>2. x \in S
    BY DEF Range
  <2> HIDE DEF A, o
  <2>3. /\ o \in Seq(S) /\ Range(o) = Range(order) \cap A /\ IsInjective(o)
        /\ \A a, b : Prec(o, a, b) <=> a \in A /\ b \in A /\ Prec(order, a, b)
    BY <2>1, OnlyFacts
  <2> QED BY <2>2, <2>3 DEF A
<1>2. v = IF other = NoItem THEN Append(o, x) ELSE InsertAt(o, Place(o, other), x)
  BY DEF RestackWindow
<1> HIDE DEF o, v
<1>3. x \notin Range(o)
  BY <1>1
<1>4. CASE other = NoItem
  <2>1. v = Append(o, x)
    BY <1>2, <1>4
  <2>2. /\ v \in Seq(S) /\ Range(v) = Range(o) \cup {x} /\ IsInjective(v)
        /\ \A a, b \in Range(o) : Prec(v, a, b) <=> Prec(o, a, b)
        /\ \A a \in Range(o) : Prec(v, a, x)
    BY <1>1, <1>3, <2>1, AppendOrder
  <2> QED BY <1>1, <1>4, <2>2 DEF v
<1>5. CASE other # NoItem
  <2> DEFINE p == Place(o, other)
  <2>1. other \in Range(o)
    BY <1>1, <1>5
  <2>2. p \in DOMAIN o /\ o[p] = other
    BY <2>1, PlaceFacts
  <2> HIDE DEF p
  <2>3. p \in 1 .. Len(o) + 1 /\ DOMAIN o \in SUBSET Int
    BY <1>1, <2>2
  <2>4. v = InsertAt(o, p, x)
    BY <1>2, <1>5 DEF p
  <2>5. /\ v \in Seq(S) /\ Range(v) = Range(o) \cup {x} /\ IsInjective(v)
        /\ \A a, b \in Range(o) : Prec(v, a, b) <=> Prec(o, a, b)
        /\ \A i \in DOMAIN o : /\ i < p => Prec(v, o[i], x)
                               /\ i >= p => Prec(v, x, o[i])
    BY <1>1, <1>3, <2>3, <2>4, InsertOrder
  <2>6. ASSUME NEW a \in Range(o)
        PROVE  IF a = other \/ Prec(o, other, a) THEN Prec(v, x, a) ELSE Prec(v, a, x)
    <3>1. PICK i \in DOMAIN o : o[i] = a
      BY DEF Range
    <3>2. Prec(o, other, a) <=> p < i
      BY <1>1, <2>2, <3>1, PrecFacts
    <3>3. a = other <=> i = p
      BY <1>1, <2>2, <3>1 DEF IsInjective
    <3>4. i \in Int /\ p \in Int
      BY <2>2, <2>3, <3>1
    <3>5. CASE i >= p
      BY <2>5, <3>1, <3>2, <3>3, <3>4, <3>5
    <3>6. CASE i < p
      BY <2>5, <3>1, <3>2, <3>3, <3>4, <3>6
    <3> QED BY <3>4, <3>5, <3>6
  <2> QED BY <1>1, <1>5, <2>1, <2>5, <2>6 DEF v
<1> QED BY <1>4, <1>5

\* z is a stacking of lists of items
Stackings == [list : Seq(Items), order : Seq(Items), level : [Items -> Nat],
              above : [Items -> Items \cup {NoItem}]]

\* The items of l are sorted by level
Sorted(z, l) == \A a, b : Prec(l, a, b) => z.level[a] <= z.level[b]

\* What is to be woven is not in the stacking, is sorted, and the server has it
Weavable(z, items) ==
  /\ z \in Stackings /\ items \in Seq(Items)
  /\ IsInjective(z.list) /\ IsInjective(z.order) /\ IsInjective(items)
  /\ Range(items) \cap Range(z.list) = {} /\ Range(items) \cup Range(z.list) \subseteq Range(z.order)
  /\ \A a, b \in Range(z.list) : Prec(z.order, a, b) <=> Prec(z.list, a, b)
  /\ Sorted(z, z.list) /\ Sorted(z, items)

\* The stacking z with the lists l and o
With(z, l, o) == [list |-> l, order |-> o, level |-> z.level, above |-> z.above]

\* When the first k are woven: the lists l and o, and the place p
Woven(z, items, below, l, o, p, k) ==
  /\ l \in Seq(Items) /\ o \in Seq(Items) /\ IsInjective(l) /\ IsInjective(o)
  /\ Range(l) = Range(z.list) \cup {items[i] : i \in 1 .. k}
  /\ Range(o) = Range(z.order)
  /\ \A a, b \in Range(l) : Prec(o, a, b) <=> Prec(l, a, b)
  /\ \A a, b \in Range(z.list) : Prec(z.list, a, b) => Prec(l, a, b)
  /\ \A i, j \in 1 .. k : i < j => Prec(l, items[i], items[j])
  /\ Sorted(z, l)
  /\ p \in 1 .. Len(l) + 1
  /\ \A i \in DOMAIN l, j \in k + 1 .. Len(items) : i < p => z.level[l[i]] <= z.level[items[j]]
  /\ IF k = 0 THEN p = 1 ELSE p - 1 \in DOMAIN l /\ l[p - 1] = items[k]
  /\ \A a \in Range(z.list), j \in 1 .. k :
       IF below THEN z.level[items[j]] <= z.level[a] => Prec(l, items[j], a)
       ELSE z.level[a] <= z.level[items[j]] => Prec(l, a, items[j])

\* The places, from the place from on, that an item x is not put behind; and its place
Stops(lev, l, x, from, below) ==
  {i \in from .. Len(l) : \/ lev[l[i]] > lev[x]
                          \/ below /\ lev[l[i]] = lev[x]}
StopAt(lev, l, x, from, below) ==
  IF Stops(lev, l, x, from, below) = {} THEN Len(l) + 1 ELSE Min(Stops(lev, l, x, from, below))

\* The place of an item that is woven: all before it are of a lower level, or of the
\* same one unless it comes below those, and the next one is not.
LEMMA StopFacts ==
  ASSUME NEW lev \in [Items -> Nat], NEW l \in Seq(Items), NEW x \in Items, NEW from \in 1 .. Len(l) + 1,
         NEW below \in BOOLEAN
  PROVE  LET p == StopAt(lev, l, x, from, below)
         IN /\ p \in from .. Len(l) + 1
            /\ Stops(lev, l, x, from, below) = {} <=> p = Len(l) + 1
            /\ \A i \in from .. p - 1 : IF below THEN lev[l[i]] < lev[x] ELSE lev[l[i]] <= lev[x]
            /\ p # Len(l) + 1 => IF below THEN lev[l[p]] >= lev[x] ELSE lev[l[p]] > lev[x]
<1> DEFINE stop == Stops(lev, l, x, from, below)
           p == StopAt(lev, l, x, from, below)
<1>1. Len(l) \in Nat /\ DOMAIN l = 1 .. Len(l) /\ lev[x] \in Nat /\ from \in Nat /\ from >= 1
  OBVIOUS
<1>2. \A i \in from .. Len(l) : lev[l[i]] \in Nat /\ i \in Nat
  BY <1>1
<1>3. \A i \in from .. Len(l) : i \notin stop =>
         IF below THEN lev[l[i]] < lev[x] ELSE lev[l[i]] <= lev[x]
  <2> SUFFICES ASSUME NEW i \in from .. Len(l), i \notin stop
               PROVE  IF below THEN lev[l[i]] < lev[x] ELSE lev[l[i]] <= lev[x]
    OBVIOUS
  <2>1. stop = {k \in from .. Len(l) : \/ lev[l[k]] > lev[x]
                                       \/ below /\ lev[l[k]] = lev[x]}
    BY DEF Stops
  <2> HIDE DEF stop
  <2>2. ~(lev[l[i]] > lev[x])
    BY <2>1
  <2>3. below => lev[l[i]] # lev[x]
    BY <2>1
  <2> QED BY <1>1, <1>2, <2>2, <2>3
<1>4. \A i \in stop : /\ i \in from .. Len(l)
                      /\ IF below THEN lev[l[i]] >= lev[x] ELSE lev[l[i]] > lev[x]
  BY <1>1, <1>2 DEF Stops
<1>5. stop \in SUBSET Nat
  BY <1>2 DEF Stops
<1>0. p = IF stop = {} THEN Len(l) + 1 ELSE Min(stop)
  BY DEF StopAt
<1> HIDE DEF stop, p
<1>6. CASE stop = {}
  <2>1. p = Len(l) + 1
    BY <1>0, <1>6
  <2>2. p \in from .. Len(l) + 1
    BY <1>1, <2>1
  <2>3. \A i \in from .. p - 1 : i \in from .. Len(l) /\ i \notin stop
    BY <1>1, <1>6, <2>1
  <2> QED BY <1>3, <1>6, <2>1, <2>2, <2>3 DEF p, stop
<1>7. CASE stop # {}
  <2>1. \E n \in stop : \A m \in stop : n <= m
    BY <1>5, <1>7, NatMin
  <2>2. Min(stop) \in stop /\ \A m \in stop : Min(stop) <= m
    BY <2>1 DEF Min
  <2>3. p = Min(stop)
    BY <1>0, <1>7
  <2>4. p \in from .. Len(l) /\ p \in stop /\ \A m \in stop : p <= m
    BY <1>4, <2>2, <2>3
  <2>5. ASSUME NEW i \in from .. p - 1
        PROVE  IF below THEN lev[l[i]] < lev[x] ELSE lev[l[i]] <= lev[x]
    <3>1. i \in from .. Len(l) /\ i < p /\ i \in Nat /\ p \in Nat
      BY <1>1, <2>4
    <3>2. i \notin stop
      BY <2>4, <3>1
    <3> QED BY <1>3, <3>1, <3>2
  <2>6. p \in from .. Len(l) + 1 /\ p # Len(l) + 1
    BY <1>1, <2>4
  <2> QED BY <1>4, <1>7, <2>4, <2>5, <2>6 DEF p, stop
<1> QED BY <1>6, <1>7

\* One more item is woven.
LEMMA WeaveStep ==
  ASSUME NEW z, NEW items, Weavable(z, items), NEW below \in BOOLEAN, NEW l, NEW o, NEW p,
         NEW k \in Nat, k + 1 \in DOMAIN items, Woven(z, items, below, l, o, p, k),
         NEW x, x = items[k + 1], NEW q \in p .. Len(l) + 1,
         \A i \in p .. q - 1 : IF below THEN z.level[l[i]] < z.level[x] ELSE z.level[l[i]] <= z.level[x],
         q # Len(l) + 1 => IF below THEN z.level[l[q]] >= z.level[x] ELSE z.level[l[q]] > z.level[x],
         NEW m, m = InsertAt(l, q, x), NEW other,
         q = Len(l) + 1 => other = NoItem, q # Len(l) + 1 => other = l[q],
         NEW r, r = RestackWindow(o, x, other)
  PROVE  Woven(z, items, below, m, r, q + 1, k + 1)
<1> DEFINE lev == z.level
<1>0. ASSUME NEW y \in Range(o), IsInjective(o), o \in Seq(Items), NoItem \notin Items,
             other = NoItem \/ (other \in Range(o) /\ other # y),
             NEW a \in Range(o) \ {y}, NEW b \in Range(o) \ {y}
      PROVE  Prec(RestackWindow(o, y, other), a, b) <=> Prec(o, a, b)
  BY <1>0, RestackFacts
<1>1. /\ l \in Seq(Items) /\ o \in Seq(Items) /\ IsInjective(l) /\ IsInjective(o)
      /\ Range(l) = Range(z.list) \cup {items[i] : i \in 1 .. k} /\ Range(o) = Range(z.order)
      /\ Sorted(z, l) /\ p \in 1 .. Len(l) + 1
  BY DEF Woven
<1>2. /\ z \in Stackings /\ items \in Seq(Items) /\ IsInjective(items)
      /\ Range(items) \cap Range(z.list) = {} /\ Range(items) \cup Range(z.list) \subseteq Range(z.order)
      /\ Sorted(z, items)
  BY DEF Weavable
<1>3. /\ lev \in [Items -> Nat] /\ x \in Items /\ Len(items) \in Nat /\ DOMAIN items = 1 .. Len(items)
      /\ Len(l) \in Nat /\ DOMAIN l = 1 .. Len(l) /\ k + 1 \in 1 .. Len(items) /\ x \in Range(items)
  <2>1. lev \in [Items -> Nat]
    BY <1>2 DEF Stackings
  <2> QED BY <1>1, <1>2, <2>1 DEF Range
<1>4. \A i \in DOMAIN l : l[i] \in Items /\ lev[l[i]] \in Nat /\ l[i] \in Range(l)
  BY <1>1, <1>3 DEF Range
<1>5. \A i \in DOMAIN items : items[i] \in Items /\ lev[items[i]] \in Nat
  BY <1>2, <1>3
<1>6. x \notin Range(l) /\ x \in Range(o) /\ lev[x] \in Nat
  <2>1. ASSUME NEW i \in 1 .. k PROVE items[i] # x
    <3>1. i \in DOMAIN items /\ k + 1 \in DOMAIN items /\ i # k + 1
      BY <1>3
    <3> QED BY <1>2, <3>1 DEF IsInjective
  <2> QED BY <1>1, <1>2, <1>3, <2>1
<1> HIDE DEF lev
<1>7. q \in 1 .. Len(l) + 1 /\ q \in Nat /\ p \in Nat /\ p >= 1
  BY <1>1, <1>3
<1>8. /\ m \in Seq(Items) /\ Range(m) = Range(l) \cup {x} /\ IsInjective(m)
      /\ \A a, b \in Range(l) : Prec(m, a, b) <=> Prec(l, a, b)
      /\ \A i \in DOMAIN l : /\ i < q => Prec(m, l[i], x)
                             /\ i >= q => Prec(m, x, l[i])
  <2>1. l \in Seq(Items) /\ IsInjective(l) /\ x \in Items /\ x \notin Range(l) /\ q \in 1 .. Len(l) + 1
    BY <1>1, <1>3, <1>6, <1>7
  <2> QED BY <2>1, InsertOrder
<1>9. /\ Len(m) = Len(l) + 1 /\ m[q] = x
      /\ \A i \in DOMAIN l : i < q => m[i] = l[i]
  <2>1. l \in Seq(Items) /\ x \in Items /\ q \in 1 .. Len(l) + 1
    BY <1>1, <1>3, <1>7
  <2> QED BY <2>1, InsertFacts
<1>10. \A i \in DOMAIN l : i < p => lev[l[i]] <= lev[x]
  <2>1. k + 1 \in k + 1 .. Len(items)
    BY <1>3
  <2> QED BY <2>1 DEF Woven, lev
<1>11. \A i \in DOMAIN l : i < q => lev[l[i]] <= lev[x]
  <2>1. ASSUME NEW i \in DOMAIN l, i < q, ~(i < p) PROVE lev[l[i]] <= lev[x]
    <3>1. i \in p .. q - 1
      BY <1>3, <1>7, <2>1
    <3>2. IF below THEN lev[l[i]] < lev[x] ELSE lev[l[i]] <= lev[x]
      BY <3>1 DEF lev
    <3> QED BY <1>4, <1>6, <3>2
  <2> QED BY <1>10, <2>1
<1>12. \A i, j \in DOMAIN l : i < j => lev[l[i]] <= lev[l[j]]
  <2>1. \A i, j \in DOMAIN l : i < j => Prec(l, l[i], l[j])
    BY DEF Prec
  <2> QED BY <1>1, <2>1 DEF Sorted, lev
<1>13. \A i \in DOMAIN l : i >= q => IF below THEN lev[l[i]] >= lev[x] ELSE lev[l[i]] > lev[x]
  <2> SUFFICES ASSUME NEW i \in DOMAIN l, i >= q
               PROVE  IF below THEN lev[l[i]] >= lev[x] ELSE lev[l[i]] > lev[x]
    OBVIOUS
  <2>1. q \in DOMAIN l /\ q # Len(l) + 1
    BY <1>3, <1>7
  <2>2. IF below THEN lev[l[q]] >= lev[x] ELSE lev[l[q]] > lev[x]
    BY <2>1 DEF lev
  <2>3. lev[l[q]] <= lev[l[i]]
    <3>1. q = i \/ q < i
      BY <1>3, <1>7
    <3> QED BY <1>4, <1>12, <2>1, <3>1
  <2> QED BY <1>4, <1>6, <2>1, <2>2, <2>3
<1>14. Sorted(z, m)
  <2>1. SUFFICES ASSUME NEW a, NEW b, Prec(m, a, b) PROVE lev[a] <= lev[b]
    BY DEF Sorted, lev
  <2>2. a # b /\ ~Prec(m, b, a) /\ a \in Range(m) /\ b \in Range(m)
    BY <1>8, <2>1, PrecFacts
  <2>3. CASE a = x
    <3>1. PICK i \in DOMAIN l : l[i] = b
      BY <1>8, <2>2, <2>3 DEF Range
    <3>2. i >= q
      BY <1>3, <1>7, <1>8, <2>2, <2>3, <3>1
    <3>3. IF below THEN lev[b] >= lev[x] ELSE lev[b] > lev[x]
      BY <1>13, <3>1, <3>2
    <3> QED BY <1>4, <1>6, <2>3, <3>1, <3>3
  <2>4. CASE b = x
    <3>1. PICK i \in DOMAIN l : l[i] = a
      BY <1>8, <2>2, <2>4 DEF Range
    <3>2. i < q
      BY <1>3, <1>7, <1>8, <2>2, <2>4, <3>1
    <3> QED BY <1>11, <2>4, <3>1, <3>2
  <2>5. CASE a # x /\ b # x
    BY <1>1, <1>8, <2>1, <2>2, <2>5 DEF Sorted, lev
  <2> QED BY <2>3, <2>4, <2>5
<1>15. q # Len(l) + 1 => other = l[q] /\ other # NoItem /\ other \in Range(o) /\ other # x
                         /\ q \in DOMAIN l
  <2>1. ASSUME q # Len(l) + 1 PROVE q \in DOMAIN l /\ other = l[q]
    BY <1>3, <1>7, <2>1
  <2>2. NoItem \notin Items
    BY GroupsAssumption
  <2>3. Range(l) \subseteq Range(o)
    <3>1. {items[i] : i \in 1 .. k} \subseteq Range(items)
      BY <1>3 DEF Range
    <3> QED BY <1>1, <1>2, <3>1
  <2> QED BY <1>4, <1>6, <2>1, <2>2, <2>3
<1>16. /\ r \in Seq(Items) /\ Range(r) = Range(o) /\ IsInjective(r)
       /\ \A a, b \in Range(o) \ {x} : Prec(r, a, b) <=> Prec(o, a, b)
       /\ \A a \in Range(o) \ {x} :
            /\ other # NoItem /\ (a = other \/ Prec(o, other, a)) => Prec(r, x, a)
            /\ ~(other # NoItem /\ (a = other \/ Prec(o, other, a))) => Prec(r, a, x)
  <2>1. other = NoItem \/ (other \in Range(o) /\ other # x)
    BY <1>15
  <2>2. NoItem \notin Items
    BY GroupsAssumption
  <2>3. o \in Seq(Items) /\ IsInjective(o) /\ x \in Range(o)
    BY <1>1, <1>6
  <2>4. r \in Seq(Items) /\ Range(r) = Range(o) /\ IsInjective(r)
    BY <2>1, <2>2, <2>3, RestackFacts
  <2>5. ASSUME NEW a \in Range(o) \ {x}, NEW b \in Range(o) \ {x} PROVE Prec(r, a, b) <=> Prec(o, a, b)
    BY <1>0, <2>1, <2>2, <2>3
  <2>6. ASSUME NEW a \in Range(o) \ {x}, other # NoItem /\ (a = other \/ Prec(o, other, a))
        PROVE Prec(r, x, a)
    BY <2>1, <2>2, <2>3, <2>6, RestackFacts
  <2>7. ASSUME NEW a \in Range(o) \ {x}, ~(other # NoItem /\ (a = other \/ Prec(o, other, a)))
        PROVE Prec(r, a, x)
    BY <2>1, <2>2, <2>3, <2>7, RestackFacts
  <2> QED BY <2>4, <2>5, <2>6, <2>7
<1>17. Range(l) \subseteq Range(o) \ {x}
  <2>1. {items[i] : i \in 1 .. k} \subseteq Range(items)
    BY <1>3 DEF Range
  <2> QED BY <1>1, <1>2, <1>6, <2>1
<1>18. \A a, b \in Range(l) : Prec(o, a, b) <=> Prec(l, a, b)
  BY DEF Woven
<1>19. \A i \in DOMAIN l : IF i < q THEN Prec(r, l[i], x) ELSE Prec(r, x, l[i])
  <2> SUFFICES ASSUME NEW i \in DOMAIN l PROVE IF i < q THEN Prec(r, l[i], x) ELSE Prec(r, x, l[i])
    OBVIOUS
  <2>1. l[i] \in Range(o) \ {x} /\ l[i] \in Range(l)
    BY <1>4, <1>17
  <2>2. CASE q = Len(l) + 1
    <3>1. i < q /\ other = NoItem
      BY <1>3, <2>2
    <3> QED BY <1>16, <2>1, <3>1
  <2>3. CASE q # Len(l) + 1
    <3>1. Prec(o, other, l[i]) <=> q < i
      <4>1. Prec(l, l[q], l[i]) <=> q < i
        BY <1>1, <1>15, <2>3, PrecFacts
      <4>2. Prec(o, l[q], l[i]) <=> Prec(l, l[q], l[i])
        BY <1>4, <1>15, <1>18, <2>1, <2>3
      <4> QED BY <1>15, <2>3, <4>1, <4>2
    <3>2. l[i] = other <=> i = q
      BY <1>1, <1>15, <2>3 DEF IsInjective
    <3>3. i < q \/ i = q \/ q < i
      BY <1>3, <1>7
    <3>4. i < q => ~(i = q) /\ ~(q < i)
      BY <1>3, <1>7
    <3>5. other # NoItem
      BY <1>15, <2>3
    <3> QED BY <1>16, <2>1, <3>1, <3>2, <3>3, <3>4, <3>5
  <2> QED BY <2>2, <2>3
<1>20. ASSUME NEW a \in Range(m), NEW b \in Range(m) PROVE Prec(r, a, b) <=> Prec(m, a, b)
  <2>1. CASE a # x /\ b # x
    <3>1. a \in Range(l) /\ b \in Range(l)
      BY <1>8, <2>1
    <3>2. a \in Range(o) \ {x} /\ b \in Range(o) \ {x}
      BY <1>17, <3>1
    <3> QED BY <1>8, <1>16, <1>18, <3>1, <3>2
  <2>2. CASE a = x /\ b # x
    <3>1. PICK i \in DOMAIN l : l[i] = b
      BY <1>8, <2>2 DEF Range
    <3>2. IF i < q THEN Prec(r, b, x) /\ Prec(m, b, x) ELSE Prec(r, x, b) /\ Prec(m, x, b)
      BY <1>3, <1>7, <1>8, <1>19, <3>1
    <3> QED BY <1>8, <1>16, <2>2, <3>2, PrecFacts
  <2>3. CASE a # x /\ b = x
    <3>1. PICK i \in DOMAIN l : l[i] = a
      BY <1>8, <2>3 DEF Range
    <3>2. IF i < q THEN Prec(r, a, x) /\ Prec(m, a, x) ELSE Prec(r, x, a) /\ Prec(m, x, a)
      BY <1>3, <1>7, <1>8, <1>19, <3>1
    <3> QED BY <1>8, <1>16, <2>3, <3>2, PrecFacts
  <2>4. CASE a = x /\ b = x
    BY <1>8, <1>16, <2>4, PrecFacts
  <2> QED BY <2>1, <2>2, <2>3, <2>4
<1>21. Range(m) = Range(z.list) \cup {items[i] : i \in 1 .. k + 1}
  <2>1. 1 .. k + 1 = (1 .. k) \cup {k + 1}
    BY <1>3
  <2>2. {items[i] : i \in 1 .. k + 1} = {items[i] : i \in 1 .. k} \cup {x}
    BY <2>1
  <2> QED BY <1>1, <1>8, <2>2
<1>22. \A a, b \in Range(z.list) : Prec(z.list, a, b) => Prec(m, a, b)
  <2>1. \A a, b \in Range(z.list) : Prec(z.list, a, b) => Prec(l, a, b)
    BY DEF Woven
  <2> QED BY <1>1, <1>8, <2>1
<1>23. \A i \in 1 .. k : Prec(m, items[i], x)
  <2>1. SUFFICES ASSUME k # 0 PROVE \A i \in 1 .. k : Prec(m, items[i], x)
    <3>1. k = 0 => 1 .. k = {}
      OBVIOUS
    <3> QED BY <3>1
  <2>2. p - 1 \in DOMAIN l /\ l[p - 1] = items[k]
    BY <2>1 DEF Woven
  <2>3. p - 1 < q
    BY <1>7
  <2>4. Prec(m, items[k], x)
    BY <1>8, <2>2, <2>3
  <2>5. ASSUME NEW i \in 1 .. k - 1 PROVE Prec(m, items[i], x)
    <3>1. i < k /\ i \in 1 .. k /\ k \in 1 .. k
      OBVIOUS
    <3>2. Prec(l, items[i], items[k])
      BY <3>1 DEF Woven
    <3>3. items[i] \in Range(l) /\ items[k] \in Range(l)
      BY <1>1, <3>1
    <3>4. Prec(m, items[i], items[k])
      BY <1>8, <3>2, <3>3
    <3> QED BY <1>8, <2>4, <3>4, PrecFacts
  <2>6. \A i \in 1 .. k : i = k \/ i \in 1 .. k - 1
    OBVIOUS
  <2> QED BY <2>4, <2>5, <2>6
<1>24. \A i, j \in 1 .. k + 1 : i < j => Prec(m, items[i], items[j])
  <2> SUFFICES ASSUME NEW i \in 1 .. k + 1, NEW j \in 1 .. k + 1, i < j
               PROVE  Prec(m, items[i], items[j])
    OBVIOUS
  <2>1. i \in 1 .. k
    OBVIOUS
  <2>2. CASE j = k + 1
    BY <1>23, <2>1, <2>2
  <2>3. CASE j # k + 1
    <3>1. j \in 1 .. k
      BY <2>3
    <3>2. Prec(l, items[i], items[j])
      BY <2>1, <3>1 DEF Woven
    <3> QED BY <1>1, <1>8, <2>1, <3>1, <3>2
  <2> QED BY <2>2, <2>3
<1>25. q + 1 \in 1 .. Len(m) + 1
  BY <1>3, <1>7, <1>9
<1>26. ASSUME NEW i \in DOMAIN m, NEW j \in (k + 1) + 1 .. Len(items), i < q + 1
       PROVE  lev[m[i]] <= lev[items[j]]
  <2>1. k + 1 < j /\ j \in DOMAIN items /\ k + 1 \in DOMAIN items
    BY <1>3
  <2>2. lev[x] <= lev[items[j]]
    BY <1>2, <2>1 DEF Sorted, Prec, lev
  <2>3. CASE i = q
    BY <1>9, <2>2, <2>3
  <2>4. CASE i # q
    <3>1. DOMAIN m = 1 .. Len(m)
      BY <1>8
    <3>2. i \in DOMAIN l /\ i < q
      BY <1>3, <1>7, <1>9, <1>26, <2>4, <3>1
    <3>3. lev[l[i]] <= lev[x] /\ m[i] = l[i]
      BY <1>9, <1>11, <3>2
    <3> QED BY <1>4, <1>5, <1>6, <2>1, <2>2, <3>2, <3>3
  <2> QED BY <2>3, <2>4
<1>27. (q + 1) - 1 \in DOMAIN m /\ m[(q + 1) - 1] = items[k + 1] /\ k + 1 # 0
  <2>1. (q + 1) - 1 = q /\ DOMAIN m = 1 .. Len(m) /\ k + 1 # 0
    BY <1>7, <1>8
  <2> QED BY <1>3, <1>7, <1>9, <2>1
<1>28. ASSUME NEW a \in Range(z.list)
       PROVE  IF below THEN lev[x] <= lev[a] => Prec(m, x, a) ELSE lev[a] <= lev[x] => Prec(m, a, x)
  <2>1. PICK i \in DOMAIN l : l[i] = a
    BY <1>1 DEF Range
  <2>2. CASE ~below
    <3>1. i >= q => lev[a] > lev[x]
      BY <1>13, <2>1, <2>2
    <3>2. i < q \/ i >= q
      BY <1>3, <1>7
    <3> QED BY <1>4, <1>6, <1>8, <2>1, <2>2, <3>1, <3>2
  <2>3. CASE below
    <3>1. SUFFICES ASSUME lev[x] <= lev[a] PROVE Prec(m, x, a)
      BY <2>3
    <3>2. i < q \/ i >= q
      BY <1>3, <1>7
    <3>3. CASE i < p
      <4>1. k # 0
        BY <1>3, <3>3 DEF Woven
      <4>2. p - 1 \in DOMAIN l /\ l[p - 1] = items[k]
        BY <4>1 DEF Woven
      <4>3. k \in 1 .. k /\ k \in DOMAIN items /\ k < k + 1
        BY <1>3, <4>1
      <4>4. lev[items[k]] <= lev[x]
        BY <1>2, <1>3, <4>3 DEF Sorted, Prec, lev
      <4>5. lev[items[k]] <= lev[a]
        BY <1>4, <1>5, <1>6, <2>1, <3>1, <4>3, <4>4
      <4>6. Prec(l, items[k], a)
        BY <2>3, <4>3, <4>5 DEF Woven, lev
      <4>7. p - 1 < i
        BY <1>1, <2>1, <4>2, <4>6, PrecFacts
      <4> QED BY <1>3, <1>7, <3>3, <4>7
    <3>4. CASE i \in p .. q - 1
      <4>1. lev[l[i]] < lev[x]
        BY <2>3, <3>4 DEF lev
      <4> QED BY <1>4, <1>6, <2>1, <3>1, <4>1
    <3>5. CASE i >= q
      BY <1>8, <2>1, <3>5
    <3>6. i < p \/ i \in p .. q - 1 \/ i >= q
      BY <1>3, <1>7
    <3> QED BY <3>3, <3>4, <3>5, <3>6
  <2> QED BY <2>2, <2>3
<1>29. ASSUME NEW a \in Range(z.list), NEW j \in 1 .. k + 1
       PROVE  IF below THEN lev[items[j]] <= lev[a] => Prec(m, items[j], a)
              ELSE lev[a] <= lev[items[j]] => Prec(m, a, items[j])
  <2>1. CASE j = k + 1
    BY <1>28, <2>1
  <2>2. CASE j # k + 1
    <3>1. j \in 1 .. k
      BY <2>2
    <3>2. items[j] \in Range(l) /\ a \in Range(l)
      BY <1>1, <3>1
    <3>3. IF below THEN lev[items[j]] <= lev[a] => Prec(l, items[j], a)
          ELSE lev[a] <= lev[items[j]] => Prec(l, a, items[j])
      BY <3>1 DEF Woven, lev
    <3> QED BY <1>8, <3>2, <3>3
  <2> QED BY <2>1, <2>2
<1> QED
  <2>1. Range(r) = Range(z.order)
    BY <1>1, <1>16
  <2>2. \A i \in DOMAIN m, j \in (k + 1) + 1 .. Len(items) : i < q + 1 => lev[m[i]] <= lev[items[j]]
    BY <1>26
  <2>3. \A a \in Range(z.list), j \in 1 .. k + 1 :
          IF below THEN lev[items[j]] <= lev[a] => Prec(m, items[j], a)
          ELSE lev[a] <= lev[items[j]] => Prec(m, a, items[j])
    BY <1>29
  <2> QED BY <1>8, <1>14, <1>16, <1>20, <1>21, <1>22, <1>24, <1>25, <1>27, <2>1, <2>2, <2>3 DEF Woven, lev

\* Another list and order.
LEMMA WithOther ==
  ASSUME NEW z \in Stackings, NEW m \in Seq(Items), NEW r \in Seq(Items)
  PROVE  [z EXCEPT !.list = m, !.order = r] = With(z, m, r)
<1> DEFINE y == [z EXCEPT !.list = m, !.order = r]
<1>1. y \in Stackings
  BY DEF Stackings
<1>2. y.list = m /\ y.order = r /\ y.level = z.level /\ y.above = z.above
  BY DEF Stackings
<1> HIDE DEF y
<1>3. y = [list |-> y.list, order |-> y.order, level |-> y.level, above |-> y.above]
  BY <1>1 DEF Stackings
<1>4. y = With(z, m, r)
  BY <1>2, <1>3 DEF With
<1> QED BY <1>4 DEF y

\* What WeaveOne does to a stacking is one more step.
LEMMA WeaveOneFacts ==
  ASSUME NEW z, NEW items, Weavable(z, items), NEW below \in BOOLEAN, NEW l, NEW o, NEW p,
         NEW k \in Nat, k + 1 \in DOMAIN items, Woven(z, items, below, l, o, p, k)
  PROVE  \E m, r, q : /\ WeaveOne([z |-> With(z, l, o), at |-> p], items[k + 1], below)
                           = [z |-> With(z, m, r), at |-> q]
                      /\ Woven(z, items, below, m, r, q, k + 1)
<1> DEFINE x == items[k + 1]
           v == [z |-> With(z, l, o), at |-> p]
           lev == z.level
           stop == Stops(lev, l, x, p, below)
           at == StopAt(lev, l, x, p, below)
           other == IF stop = {} THEN NoItem ELSE l[at]
           m == InsertAt(l, at, x)
           r == RestackWindow(o, x, other)
<1>1. l \in Seq(Items) /\ p \in 1 .. Len(l) + 1
  BY DEF Woven
<1>2. lev \in [Items -> Nat] /\ x \in Items
  BY DEF Weavable, Stackings
<1>3. /\ at \in p .. Len(l) + 1
      /\ stop = {} <=> at = Len(l) + 1
      /\ \A i \in p .. at - 1 : IF below THEN lev[l[i]] < lev[x] ELSE lev[l[i]] <= lev[x]
      /\ at # Len(l) + 1 => IF below THEN lev[l[at]] >= lev[x] ELSE lev[l[at]] > lev[x]
  <2> HIDE DEF x, lev
  <2> QED BY <1>1, <1>2, StopFacts
<1>4. /\ at = Len(l) + 1 => other = NoItem
      /\ at # Len(l) + 1 => other = l[at]
  BY <1>3
<1>5. Woven(z, items, below, m, r, at + 1, k + 1)
  <2>1. m = InsertAt(l, at, x) /\ r = RestackWindow(o, x, other) /\ x = items[k + 1]
    OBVIOUS
  <2>2. /\ \A i \in p .. at - 1 : IF below THEN z.level[l[i]] < z.level[x] ELSE z.level[l[i]] <= z.level[x]
        /\ at # Len(l) + 1 => IF below THEN z.level[l[at]] >= z.level[x] ELSE z.level[l[at]] > z.level[x]
    BY <1>3
  <2> HIDE DEF x, lev, stop, at, other, m, r
  <2> QED BY <1>3, <1>4, <2>1, <2>2, WeaveStep
<1>6. /\ v.z = With(z, l, o) /\ v.at = p /\ v.z.list = l /\ v.z.order = o /\ v.z.level = lev
      /\ v.z.above = z.above
  BY DEF With
<1>7. With(v.z, m, r) = With(z, m, r)
  BY <1>6 DEF With
<1>8. v.z \in Stackings
  <2>1. o \in Seq(Items) /\ z \in Stackings
    BY DEF Woven, Weavable
  <2> QED BY <1>1, <2>1 DEF With, Stackings
<1>9. /\ stop = {i \in v.at .. Len(v.z.list) :
                     \/ v.z.level[v.z.list[i]] > v.z.level[x]
                     \/ below /\ v.z.level[v.z.list[i]] = v.z.level[x]}
      /\ at = IF stop = {} THEN Len(v.z.list) + 1 ELSE Min(stop)
      /\ other = IF stop = {} THEN NoItem ELSE v.z.list[at]
      /\ m = InsertAt(v.z.list, at, x) /\ r = RestackWindow(v.z.order, x, other)
  <2> HIDE DEF v
  <2>1. /\ stop = {i \in p .. Len(l) : \/ lev[l[i]] > lev[x]
                                       \/ below /\ lev[l[i]] = lev[x]}
        /\ at = IF stop = {} THEN Len(l) + 1 ELSE Min(stop)
    BY DEF Stops, StopAt
  <2> HIDE DEF stop, at, lev, x
  <2>2. m = InsertAt(v.z.list, at, x) /\ r = RestackWindow(v.z.order, x, other)
    BY <1>6
  <2> HIDE DEF m, r
  <2> QED BY <1>6, <2>1, <2>2
<1> HIDE DEF v, x, stop, at, other, m, r
<1>10. WeaveOne(v, x, below) = [z |-> [v.z EXCEPT !.list = m, !.order = r], at |-> at + 1]
  BY <1>9 DEF WeaveOne
<1>11. [v.z EXCEPT !.list = m, !.order = r] = With(z, m, r)
  <2>1. m \in Seq(Items) /\ r \in Seq(Items)
    BY <1>5 DEF Woven
  <2>2. [v.z EXCEPT !.list = m, !.order = r] = With(v.z, m, r)
    BY <1>8, <2>1, WithOther
  <2> QED BY <1>7, <2>2
<1>12. WeaveOne(v, x, below) = [z |-> With(z, m, r), at |-> at + 1]
  BY <1>10, <1>11
<1> QED BY <1>5, <1>12 DEF v, x

\* Weaving begins with what there is.
LEMMA WeaveBegin ==
  ASSUME NEW z, NEW items, Weavable(z, items), NEW below \in BOOLEAN
  PROVE  z = With(z, z.list, z.order) /\ Woven(z, items, below, z.list, z.order, 1, 0)
<1>1. z = With(z, z.list, z.order)
  BY DEF Weavable, Stackings, With
<1>2. z.list \in Seq(Items) /\ z.order \in Seq(Items) /\ Len(z.list) \in Nat /\ 1 .. 0 = {}
      /\ 1 \in 1 .. Len(z.list) + 1
  BY DEF Weavable, Stackings
<1>3. \A i \in DOMAIN z.list : ~(i < 1)
  BY <1>2
<1> QED BY <1>1, <1>2, <1>3 DEF Weavable, Woven

\* f has what weaving leads to, one item after the other
Weaving(f, z, items, below, N) ==
  f = [k \in 0 .. N |-> IF k = 0 THEN [z |-> z, at |-> 1] ELSE WeaveOne(f[k-1], items[k], below)]

LEMMA WeavingTurns ==
  ASSUME NEW f, NEW z, NEW items, NEW below, NEW N \in Nat, Weaving(f, z, items, below, N)
  PROVE  f[0] = [z |-> z, at |-> 1] /\ \A k \in 1 .. N : f[k] = WeaveOne(f[k-1], items[k], below)
<1>1. 0 \in 0 .. N /\ \A k \in 1 .. N : k \in 0 .. N /\ k # 0
  OBVIOUS
<1>2. \A k \in 0 .. N : f[k] = IF k = 0 THEN [z |-> z, at |-> 1] ELSE WeaveOne(f[k-1], items[k], below)
  BY DEF Weaving
<1> QED BY <1>1, <1>2

LEMMA WeavingExists ==
  ASSUME NEW z, NEW items, NEW below, NEW N \in Nat
  PROVE  \E f : Weaving(f, z, items, below, N)
<1> DEFINE P == {n \in Nat : \E f : Weaving(f, z, items, below, n)}
<1>1. 0 \in P
  <2>1. Weaving([n \in 0 .. 0 |-> [z |-> z, at |-> 1]], z, items, below, 0)
    BY DEF Weaving
  <2> QED BY <2>1
<1>2. ASSUME NEW n \in 1 .. N, n - 1 \in P PROVE n \in P
  <2>1. PICK f : Weaving(f, z, items, below, n - 1)
    BY <1>2
  <2>2. n - 1 \in Nat /\ n \in Nat /\ n # 0
    OBVIOUS
  <2>3. /\ f[0] = [z |-> z, at |-> 1]
        /\ \A k \in 1 .. n - 1 : f[k] = WeaveOne(f[k - 1], items[k], below)
    BY <2>1, <2>2, WeavingTurns
  <2> DEFINE new == WeaveOne(f[n - 1], items[n], below)
             h == [k \in 0 .. n |-> IF k = n THEN new ELSE f[k]]
  <2> HIDE DEF new
  <2>4. ASSUME NEW k \in 0 .. n
        PROVE  h[k] = IF k = 0 THEN [z |-> z, at |-> 1] ELSE WeaveOne(h[k - 1], items[k], below)
    <3>1. CASE k = 0
      BY <2>2, <2>3, <3>1
    <3>2. CASE k = n
      <4>1. h[k] = new /\ h[k - 1] = f[n - 1] /\ k # 0
        BY <2>2, <3>2
      <4> QED BY <3>2, <4>1 DEF new
    <3>3. CASE k # 0 /\ k # n
      <4>1. k \in 1 .. n - 1 /\ h[k] = f[k] /\ h[k - 1] = f[k - 1]
        BY <2>2, <3>3
      <4> QED BY <2>3, <3>3, <4>1
    <3> QED BY <3>1, <3>2, <3>3
  <2>5. h = [k \in 0 .. n |-> h[k]]
    OBVIOUS
  <2> HIDE DEF h
  <2>6. Weaving(h, z, items, below, n)
    BY <2>4, <2>5 DEF Weaving
  <2> QED BY <2>2, <2>6
<1>3. N \in P
  <2> HIDE DEF P
  <2>1. \A n \in 0 .. N : n \in P
    BY <1>1, <1>2, UpTo
  <2> QED BY <2>1
<1> QED BY <1>3

\* l and o are the list and the order when items are woven into z
Wove(z, items, below, l, o) ==
  /\ stacking_weave(z, items, below) = With(z, l, o)
  /\ l \in Seq(Items) /\ o \in Seq(Items) /\ IsInjective(l) /\ IsInjective(o)
  /\ Range(l) = Range(z.list) \cup Range(items) /\ Range(o) = Range(z.order)
  /\ \A a, b \in Range(l) : Prec(o, a, b) <=> Prec(l, a, b)
  /\ \A a, b \in Range(z.list) : Prec(z.list, a, b) => Prec(l, a, b)
  /\ \A a, b : Prec(items, a, b) => Prec(l, a, b)
  /\ Sorted(z, l)
  /\ \A a \in Range(z.list), x \in Range(items) :
       /\ below /\ z.level[x] <= z.level[a] => Prec(l, x, a)
       /\ ~below /\ z.level[a] <= z.level[x] => Prec(l, a, x)

\* What stacking_weave returns: a stacking of all the items, sorted by level, in the same
\* order as for the server, with those that were there and the new ones in the order they
\* were in.  What is woven comes above the items of its level, or below them.
LEMMA WeaveFacts ==
  ASSUME NEW z, NEW items, Weavable(z, items), NEW below \in BOOLEAN
  PROVE  \E l, o : Wove(z, items, below, l, o)
<1> DEFINE N == Len(items)
           woven == CHOOSE f : Weaving(f, z, items, below, N)
           P == {k \in 0 .. N : \E l, o, p : /\ woven[k] = [z |-> With(z, l, o), at |-> p]
                                             /\ Woven(z, items, below, l, o, p, k)}
<1>1. N \in Nat /\ DOMAIN items = 1 .. N
  BY DEF Weavable
<1>2. Weaving(woven, z, items, below, N)
  BY <1>1, WeavingExists
<1>3. stacking_weave(z, items, below) = woven[N].z
  BY DEF stacking_weave, Weaving
<1> HIDE DEF woven, N
<1>4. /\ woven[0] = [z |-> z, at |-> 1]
      /\ \A k \in 1 .. N : woven[k] = WeaveOne(woven[k-1], items[k], below)
  BY <1>1, <1>2, WeavingTurns
<1>5. 0 \in P
  <2>1. 0 \in 0 .. N
    BY <1>1
  <2> QED BY <1>4, <2>1, WeaveBegin
<1>6. ASSUME NEW k \in 1 .. N, k - 1 \in P PROVE k \in P
  <2>1. PICK l, o, p : /\ woven[k - 1] = [z |-> With(z, l, o), at |-> p]
                       /\ Woven(z, items, below, l, o, p, k - 1)
    BY <1>6
  <2> DEFINE j == k - 1
  <2>2. j \in Nat /\ j + 1 = k /\ j + 1 \in DOMAIN items /\ k \in 0 .. N
    BY <1>1
  <2>3. Woven(z, items, below, l, o, p, j)
    BY <2>1
  <2> HIDE DEF j
  <2>4. \E m, r, q : /\ WeaveOne([z |-> With(z, l, o), at |-> p], items[j + 1], below)
                          = [z |-> With(z, m, r), at |-> q]
                     /\ Woven(z, items, below, m, r, q, j + 1)
    BY <2>2, <2>3, WeaveOneFacts
  <2>5. PICK m, r, q : /\ WeaveOne([z |-> With(z, l, o), at |-> p], items[j + 1], below)
                          = [z |-> With(z, m, r), at |-> q]
                       /\ Woven(z, items, below, m, r, q, j + 1)
    BY <2>4
  <2>6. woven[k] = [z |-> With(z, m, r), at |-> q]
    BY <1>4, <2>1, <2>2, <2>5
  <2> QED BY <2>2, <2>5, <2>6
<1>7. N \in P
  <2> HIDE DEF P
  <2>1. \A k \in 0 .. N : k \in P
    BY <1>1, <1>5, <1>6, UpTo
  <2> QED BY <1>1, <2>1
<1>8. PICK l, o, p : /\ woven[N] = [z |-> With(z, l, o), at |-> p]
                     /\ Woven(z, items, below, l, o, p, N)
  BY <1>7
<1>9. stacking_weave(z, items, below) = With(z, l, o)
  BY <1>3, <1>8
<1>10. Range(items) = {items[i] : i \in 1 .. N}
  BY <1>1 DEF Range
<1>11. \A a, b : Prec(items, a, b) => Prec(l, a, b)
  BY <1>1, <1>8 DEF Woven, Prec
<1>12. ASSUME NEW a \in Range(z.list), NEW x \in Range(items)
       PROVE  /\ below /\ z.level[x] <= z.level[a] => Prec(l, x, a)
              /\ ~below /\ z.level[a] <= z.level[x] => Prec(l, a, x)
  <2>1. PICK j \in 1 .. N : items[j] = x
    BY <1>1 DEF Range
  <2> QED BY <1>8, <2>1 DEF Woven
<1>13. Wove(z, items, below, l, o)
  BY <1>8, <1>9, <1>10, <1>11, <1>12 DEF Woven, Wove
<1> QED BY <1>13

-----------------------------------------------------------------------------
(* What is above what *)

\* The server has the order of the list, which is sorted by level; what an item is above
\* comes before it and has its level
Stacked(z) ==
  /\ z \in Stackings /\ IsInjective(z.list) /\ z.order = z.list /\ Sorted(z, z.list)
  /\ \A y \in Range(z.list) :
       z.above[y] # NoItem => Prec(z.list, z.above[y], y) /\ z.level[z.above[y]] = z.level[y]

\* How Up goes on.
LEMMA UpTurns ==
  ASSUME NEW z \in Stackings, NEW x \in Items
  PROVE  /\ Up(z, x) \in [1 .. Len(z.list) + 1 -> Items \cup {NoItem}] /\ Up(z, x)[1] = x
         /\ \A k \in 1 .. Len(z.list) :
              Up(z, x)[k + 1] = IF Up(z, x)[k] = NoItem THEN NoItem ELSE z.above[Up(z, x)[k]]
<1> DEFINE N == Len(z.list)
           S == Items \cup {NoItem}
           Next(y) == IF y = NoItem THEN NoItem ELSE z.above[y]
           Is(f) == f = [k \in 1 .. N + 1 |-> IF k = 1 THEN x ELSE Next(f[k-1])]
           up == CHOOSE f : Is(f)
<1>1. N \in Nat /\ \A y \in S : Next(y) \in S
  BY DEF Stackings
<1>2. \E f : Is(f) /\ f \in [1 .. N + 1 -> S]
  <2> DEFINE F == [p \in S \X (1 .. N) |-> Next(p[1])]
  <2> HIDE DEF S
  <2>1. \A s \in S, n \in 1 .. N : F[<<s, n>>] = Next(s) /\ F[<<s, n>>] \in S
    BY <1>1
  <2>2. x \in S
    BY DEF S
  <2> HIDE DEF F, Next
  <2>3. PICK f : /\ f \in [0 .. N -> S] /\ f[0] = x
                 /\ \A n \in 1 .. N : f[n] = F[<<f[n-1], n>>] /\ f[n-1] \in S
    <3>1. Closed(F, S, N)
      BY <2>1 DEF Closed
    <3>2. PICK f : Recurs(f, S, x, N, F)
      BY <1>1, <2>2, <3>1, Recursion
    <3>3. \A n \in 1 .. N : n - 1 \in 0 .. N
      BY <1>1
    <3> QED BY <3>2, <3>3 DEF Recurs
  <2> DEFINE h == [k \in 1 .. N + 1 |-> f[k-1]]
  <2>4. ASSUME NEW k \in 1 .. N + 1
        PROVE  h[k] = (IF k = 1 THEN x ELSE Next(h[k-1])) /\ h[k] \in S
    <3>1. CASE k # 1
      <4>1. k - 1 \in 1 .. N /\ h[k] = f[k-1] /\ h[k-1] = f[(k-1)-1]
        BY <1>1, <3>1
      <4>2. f[k-1] = F[<<f[(k-1)-1], k-1>>] /\ f[(k-1)-1] \in S
        BY <2>3, <4>1
      <4>3. F[<<f[(k-1)-1], k-1>>] = Next(f[(k-1)-1]) /\ F[<<f[(k-1)-1], k-1>>] \in S
        BY <2>1, <4>1, <4>2
      <4> HIDE DEF h
      <4> QED BY <3>1, <4>1, <4>2, <4>3
    <3>2. CASE k = 1
      <4>1. h[k] = f[0]
        BY <1>1, <3>2
      <4> QED BY <2>2, <2>3, <3>2, <4>1
    <3> QED BY <3>1, <3>2
  <2>5. h = [k \in 1 .. N + 1 |-> h[k]]
    OBVIOUS
  <2> HIDE DEF h
  <2>6. Is(h)
    <3> HIDE DEF N
    <3> QED BY <2>4, <2>5
  <2>7. h \in [1 .. N + 1 -> S]
    BY <2>4, <2>5
  <2> QED BY <2>6, <2>7
<1>3. Up(z, x) = up
  BY DEF Up
<1>4. Is(up)
  <2> HIDE DEF Is
  <2> QED BY <1>2
<1> HIDE DEF up, S
<1>5. \A k \in 1 .. N + 1 : up[k] = IF k = 1 THEN x ELSE Next(up[k-1])
  <2> HIDE DEF N, Next
  <2> QED BY <1>4
<1>6. up[1] = x
  <2>1. 1 \in 1 .. N + 1
    BY <1>1
  <2> HIDE DEF N, Next
  <2> QED BY <1>5, <2>1
<1>7. \A k \in 1 .. N : up[k + 1] = Next(up[k])
  <2> SUFFICES ASSUME NEW k \in 1 .. N PROVE up[k + 1] = Next(up[k])
    OBVIOUS
  <2>1. k + 1 \in 1 .. N + 1 /\ k + 1 # 1 /\ (k + 1) - 1 = k
    BY <1>1
  <2> HIDE DEF N, Next
  <2> QED BY <1>5, <2>1
<1>8. \A k \in 1 .. N + 1 : up[k] \in S
  <2> DEFINE P == {n \in 0 .. N : up[n + 1] \in S}
  <2>1. 0 \in P
    BY <1>1, <1>6 DEF S
  <2>2. ASSUME NEW n \in 1 .. N, n - 1 \in P PROVE n \in P
    <3>1. up[n] \in S
      BY <2>2
    <3> QED BY <1>1, <1>7, <3>1
  <2> HIDE DEF P
  <2>3. \A n \in 0 .. N : n \in P
    BY <1>1, <2>1, <2>2, UpTo
  <2>4. ASSUME NEW k \in 1 .. N + 1 PROVE up[k] \in S
    <3>1. k - 1 \in 0 .. N /\ (k - 1) + 1 = k
      BY <1>1
    <3> QED BY <2>3, <3>1 DEF P
  <2> QED BY <2>4
<1>9. up \in [1 .. N + 1 -> S]
  <2>1. up = [k \in 1 .. N + 1 |-> IF k = 1 THEN x ELSE Next(up[k-1])]
    BY <1>4
  <2>2. up = [k \in 1 .. N + 1 |-> up[k]]
    BY <2>1
  <2> HIDE DEF N, Next
  <2> QED BY <1>8, <2>2
<1> QED BY <1>3, <1>6, <1>7, <1>9 DEF S

\* What Up leads to comes earlier in the list, and it comes to an end.
LEMMA UpFacts ==
  ASSUME NEW z, Stacked(z), NEW x \in Range(z.list)
  PROVE  LET up == Up(z, x)
             N == Len(z.list)
         IN /\ \A k \in 1 .. N + 1 : up[k] = NoItem \/ (up[k] \in Range(z.list) /\ z.level[up[k]] = z.level[x])
            /\ \A j, k \in 1 .. N + 1 :
                 j < k /\ up[k] # NoItem => up[j] # NoItem /\ Prec(z.list, up[k], up[j])
            /\ up[N + 1] = NoItem
<1> DEFINE up == Up(z, x)
           N == Len(z.list)
           l == z.list
           Fits(k) == up[k] # NoItem =>
                        /\ up[k] \in Range(l) /\ z.level[up[k]] = z.level[x]
                        /\ \A j \in 1 .. k - 1 : up[j] # NoItem /\ Prec(l, up[k], up[j])
                        /\ \E i \in DOMAIN l : l[i] = up[k] /\ i <= N + 1 - k
           P == {n \in 0 .. N : Fits(n + 1)}
<1>1. /\ z \in Stackings /\ l \in Seq(Items) /\ IsInjective(l) /\ N \in Nat /\ DOMAIN l = 1 .. N
      /\ \A y \in Range(l) : z.above[y] # NoItem => Prec(l, z.above[y], y) /\ z.level[z.above[y]] = z.level[y]
  BY DEF Stacked, Stackings
<1>2. x \in Items
  BY <1>1 DEF Range
<1>3. /\ up[1] = x
      /\ \A k \in 1 .. N : up[k + 1] = IF up[k] = NoItem THEN NoItem ELSE z.above[up[k]]
  BY <1>1, <1>2, UpTurns
<1> HIDE DEF up, N, l
<1>4. 0 \in P
  <2>1. PICK i \in DOMAIN l : l[i] = x
    BY DEF Range, l
  <2>2. i <= N + 1 - 1 /\ 0 + 1 = 1 /\ 1 .. 1 - 1 = {} /\ 0 \in 0 .. N
    BY <1>1, <2>1
  <2>3. x \in Range(l)
    BY DEF l
  <2>4. Fits(1)
    BY <1>3, <2>1, <2>2, <2>3
  <2> QED BY <2>2, <2>4
<1>5. ASSUME NEW n \in 1 .. N, n - 1 \in P PROVE n \in P
  <2>1. n \in 0 .. N /\ (n - 1) + 1 = n
    BY <1>1
  <2>2. Fits(n)
    BY <1>5, <2>1
  <2>3. SUFFICES ASSUME up[n + 1] # NoItem PROVE Fits(n + 1)
    BY <2>1
  <2>4. up[n] # NoItem /\ up[n + 1] = z.above[up[n]]
    BY <1>3, <2>3
  <2>5. /\ up[n] \in Range(l) /\ z.level[up[n]] = z.level[x]
        /\ \A j \in 1 .. n - 1 : up[j] # NoItem /\ Prec(l, up[n], up[j])
    BY <2>2, <2>4
  <2>6. PICK i \in DOMAIN l : l[i] = up[n] /\ i <= N + 1 - n
    BY <2>2, <2>4
  <2>7. Prec(l, up[n + 1], up[n]) /\ z.level[up[n + 1]] = z.level[x]
    BY <1>1, <2>3, <2>4, <2>5
  <2>8. PICK h \in DOMAIN l : l[h] = up[n + 1]
    BY <1>1, <2>7, PrecFacts DEF Range
  <2>9. h < i
    BY <1>1, <2>6, <2>7, <2>8, PrecFacts
  <2>10. h <= N + 1 - (n + 1)
    BY <1>1, <2>6, <2>8, <2>9
  <2>11. ASSUME NEW j \in 1 .. (n + 1) - 1 PROVE up[j] # NoItem /\ Prec(l, up[n + 1], up[j])
    <3>1. j = n \/ j \in 1 .. n - 1
      BY <1>1
    <3> QED BY <1>1, <2>4, <2>5, <2>7, <3>1, PrecFacts
  <2>12. up[n + 1] \in Range(l)
    BY <2>8 DEF Range
  <2> QED BY <2>7, <2>8, <2>10, <2>11, <2>12
<1>6. ASSUME NEW k \in 1 .. N + 1 PROVE Fits(k)
  <2>1. \A n \in 0 .. N : n \in P
    <3> HIDE DEF P
    <3> QED BY <1>1, <1>4, <1>5, UpTo
  <2>2. k - 1 \in 0 .. N /\ (k - 1) + 1 = k
    BY <1>1
  <2> QED BY <2>1, <2>2
<1>7. ASSUME NEW j \in 1 .. N + 1, NEW k \in 1 .. N + 1, j < k, up[k] # NoItem
      PROVE  up[j] # NoItem /\ Prec(l, up[k], up[j])
  <2>1. j \in 1 .. k - 1
    BY <1>1, <1>7
  <2> QED BY <1>6, <1>7, <2>1
<1>8. up[N + 1] = NoItem
  <2>1. SUFFICES ASSUME up[N + 1] # NoItem PROVE FALSE
    OBVIOUS
  <2>2. N + 1 \in 1 .. N + 1
    BY <1>1
  <2>3. PICK i \in DOMAIN l : i <= N + 1 - (N + 1)
    BY <1>6, <2>1, <2>2
  <2> QED BY <1>1, <2>3
<1> QED BY <1>6, <1>7, <1>8 DEF up, N, l

\* What is above what the item y is above, is above y.
LEMMA UpShift ==
  ASSUME NEW z, Stacked(z), NEW y \in Range(z.list), z.above[y] # NoItem
  PROVE  /\ z.above[y] \in Range(z.list)
         /\ \A k \in 1 .. Len(z.list) : Up(z, z.above[y])[k] = Up(z, y)[k + 1]
<1> DEFINE N == Len(z.list)
           p == z.above[y]
           P == {n \in 0 .. N : n + 1 \in 1 .. N => Up(z, p)[n + 1] = Up(z, y)[(n + 1) + 1]}
<1>1. N \in Nat /\ z \in Stackings /\ z.list \in Seq(Items) /\ IsInjective(z.list) /\ y \in Items
  BY DEF Stacked, Stackings, Range
<1>2. p \in Range(z.list) /\ p \in Items
  <2>1. Prec(z.list, p, y)
    BY DEF Stacked
  <2>2. p \in Range(z.list)
    BY <1>1, <2>1, PrecFacts
  <2> QED BY <1>1, <2>2 DEF Range
<1>3. /\ Up(z, y)[1] = y
      /\ \A k \in 1 .. N : Up(z, y)[k + 1] = IF Up(z, y)[k] = NoItem THEN NoItem ELSE z.above[Up(z, y)[k]]
  BY <1>1, UpTurns
<1>4. /\ Up(z, p)[1] = p
      /\ \A k \in 1 .. N : Up(z, p)[k + 1] = IF Up(z, p)[k] = NoItem THEN NoItem ELSE z.above[Up(z, p)[k]]
  <2> HIDE DEF p
  <2> QED BY <1>1, <1>2, UpTurns
<1>5. y # NoItem /\ p # NoItem
  BY <1>1, GroupsAssumption
<1> HIDE DEF N
<1>6. 0 \in P
  <2>1. 1 \in 1 .. N => Up(z, y)[1 + 1] = p
    BY <1>3, <1>5
  <2>2. 0 \in 0 .. N /\ 0 + 1 = 1
    BY <1>1
  <2> HIDE DEF p
  <2> QED BY <1>4, <2>1, <2>2
<1>7. ASSUME NEW n \in 1 .. N, n - 1 \in P PROVE n \in P
  <2>1. n \in 0 .. N /\ (n - 1) + 1 = n
    BY <1>1
  <2>2. SUFFICES ASSUME n + 1 \in 1 .. N PROVE Up(z, p)[n + 1] = Up(z, y)[(n + 1) + 1]
    BY <2>1
  <2>3. Up(z, p)[n] = Up(z, y)[n + 1]
    BY <1>7, <2>1
  <2> HIDE DEF p
  <2> QED BY <1>3, <1>4, <2>2, <2>3
<1>8. ASSUME NEW k \in 1 .. N PROVE Up(z, p)[k] = Up(z, y)[k + 1]
  <2>1. \A n \in 0 .. N : n \in P
    <3> HIDE DEF P
    <3> QED BY <1>1, <1>6, <1>7, UpTo
  <2>2. k - 1 \in 0 .. N /\ (k - 1) + 1 = k
    BY <1>1
  <2> HIDE DEF p
  <2> QED BY <2>1, <2>2
<1> QED BY <1>2, <1>8 DEF N

\* To be above something.
LEMMA AboveFacts ==
  ASSUME NEW z, Stacked(z), NEW y \in Range(z.list), NEW p, p # NoItem
  PROVE  /\ is_above(z, y, p) <=> /\ z.above[y] # NoItem
                                  /\ z.above[y] = p \/ is_above(z, z.above[y], p)
         /\ is_above(z, y, p) => Prec(z.list, p, y) /\ z.level[p] = z.level[y]
<1> DEFINE N == Len(z.list)
           up == Up(z, y)
<1>1. N \in Nat /\ z \in Stackings /\ z.list \in Seq(Items) /\ IsInjective(z.list) /\ y \in Items
  BY DEF Stacked, Stackings, Range
<1>2. up[1] = y /\ \A k \in 1 .. N : up[k + 1] = IF up[k] = NoItem THEN NoItem ELSE z.above[up[k]]
  BY <1>1, UpTurns
<1>3. /\ \A k \in 1 .. N + 1 : up[k] = NoItem \/ (up[k] \in Range(z.list) /\ z.level[up[k]] = z.level[y])
      /\ \A j, k \in 1 .. N + 1 : j < k /\ up[k] # NoItem => up[j] # NoItem /\ Prec(z.list, up[k], up[j])
      /\ up[N + 1] = NoItem
  BY UpFacts
<1>4. y # NoItem /\ N >= 1
  <2>1. y # NoItem
    BY <1>1, GroupsAssumption
  <2> QED BY <1>1, <2>1 DEF Range
<1>5. is_above(z, y, p) <=> \E k \in 2 .. N + 1 : up[k] = p
  BY DEF is_above
<1> HIDE DEF N, up
<1>6. is_above(z, y, p) => Prec(z.list, p, y) /\ z.level[p] = z.level[y]
  <2> SUFFICES ASSUME is_above(z, y, p) PROVE Prec(z.list, p, y) /\ z.level[p] = z.level[y]
    OBVIOUS
  <2>1. PICK k \in 2 .. N + 1 : up[k] = p
    BY <1>5
  <2>2. k \in 1 .. N + 1 /\ 1 \in 1 .. N + 1 /\ 1 < k
    BY <1>1, <1>4
  <2> QED BY <1>2, <1>3, <2>1, <2>2
<1>7. CASE z.above[y] = NoItem
  <2>1. up[2] = NoItem
    <3>1. 1 \in 1 .. N /\ 1 + 1 = 2
      BY <1>1, <1>4
    <3>2. up[1 + 1] = z.above[y]
      BY <1>2, <1>4, <3>1
    <3> QED BY <1>7, <3>1, <3>2
  <2>2. \A k \in 2 .. N + 1 : up[k] = NoItem
    <3> SUFFICES ASSUME NEW k \in 2 .. N + 1, up[k] # NoItem PROVE FALSE
      OBVIOUS
    <3>1. k # 2 /\ 2 \in 1 .. N + 1 /\ k \in 1 .. N + 1 /\ 2 < k
      BY <1>1, <1>4, <2>1
    <3> QED BY <1>3, <2>1, <3>1
  <2> QED BY <1>5, <1>6, <1>7, <2>2
<1>8. CASE z.above[y] # NoItem
  <2> DEFINE a == z.above[y]
  <2>1. a \in Range(z.list) /\ \A k \in 1 .. N : Up(z, a)[k] = up[k + 1]
    BY <1>8, UpShift DEF N, up
  <2>2. Up(z, a)[N + 1] = NoItem
    <3> HIDE DEF a
    <3> QED BY <2>1, UpFacts DEF N
  <2>3. is_above(z, a, p) <=> \E k \in 2 .. N + 1 : Up(z, a)[k] = p
    BY DEF is_above, N
  <2>4. up[2] = a
    <3>1. 1 \in 1 .. N /\ 1 + 1 = 2
      BY <1>1, <1>4
    <3>2. up[1 + 1] = z.above[y]
      BY <1>2, <1>4, <3>1
    <3> QED BY <3>1, <3>2
  <2> HIDE DEF a
  <2>5. ASSUME is_above(z, y, p), p # a PROVE is_above(z, a, p)
    <3>1. PICK k \in 2 .. N + 1 : up[k] = p
      BY <1>5, <2>5
    <3>2. k - 1 \in 2 .. N + 1 /\ k - 1 \in 1 .. N /\ (k - 1) + 1 = k
      BY <1>1, <2>4, <2>5, <3>1
    <3> QED BY <2>1, <2>3, <3>1, <3>2
  <2>6. ASSUME is_above(z, a, p) PROVE is_above(z, y, p)
    <3>1. PICK k \in 2 .. N + 1 : Up(z, a)[k] = p
      BY <2>3, <2>6
    <3>2. k \in 1 .. N /\ k + 1 \in 2 .. N + 1
      <4>1. k # N + 1
        BY <2>2, <3>1
      <4> QED BY <1>1, <4>1
    <3> QED BY <1>5, <2>1, <3>1, <3>2
  <2>7. p = a => is_above(z, y, p)
    <3>1. 2 \in 2 .. N + 1
      BY <1>1, <1>4
    <3> QED BY <1>5, <2>4, <3>1
  <2> QED BY <1>6, <1>8, <2>5, <2>6, <2>7 DEF a
<1> QED BY <1>7, <1>8

\* The chain of what x is above, from the lowest on, is a list of items of one level.
LEMMA ChainFacts ==
  ASSUME NEW z, Stacked(z), NEW x \in Range(z.list), NEW parents \in BOOLEAN
  PROVE  LET chain == IF parents THEN Without(Reverse(Up(z, x)), {NoItem}) ELSE <<x>>
         IN /\ chain \in Seq(Items) /\ IsInjective(chain) /\ x \in Range(chain)
            /\ \A y \in Range(chain) : /\ y \in Range(z.list) /\ z.level[y] = z.level[x]
                                       /\ y = x \/ Prec(z.list, y, x)
                                       /\ ~parents => y = x
            /\ \A a, b : Prec(chain, a, b) => Prec(z.list, a, b)
            /\ parents => \A y \in Range(chain) :
                 z.above[y] # NoItem => Prec(chain, z.above[y], y)
<1> DEFINE N == Len(z.list)
           up == Up(z, x)
<1>1. N \in Nat /\ z \in Stackings /\ z.list \in Seq(Items) /\ IsInjective(z.list) /\ x \in Items
  BY DEF Stacked, Stackings, Range
<1>2. /\ up \in [1 .. N + 1 -> Items \cup {NoItem}] /\ up[1] = x
      /\ \A k \in 1 .. N : up[k + 1] = IF up[k] = NoItem THEN NoItem ELSE z.above[up[k]]
  BY <1>1, UpTurns
<1>3. /\ \A k \in 1 .. N + 1 : up[k] = NoItem \/ (up[k] \in Range(z.list) /\ z.level[up[k]] = z.level[x])
      /\ \A j, k \in 1 .. N + 1 : j < k /\ up[k] # NoItem => up[j] # NoItem /\ Prec(z.list, up[k], up[j])
      /\ up[N + 1] = NoItem
  BY UpFacts
<1>4. x # NoItem /\ NoItem \notin Items
  BY <1>1, GroupsAssumption
<1> HIDE DEF N, up
<1>5. CASE ~parents
  <2>1. /\ <<x>> \in Seq(Items) /\ Range(<<x>>) = {x} /\ IsInjective(<<x>>)
        /\ \A a, b : ~Prec(<<x>>, a, b)
    BY <1>1 DEF Range, IsInjective, Prec
  <2> QED BY <1>5, <2>1
<1>6. CASE parents
  <2> DEFINE rev == Reverse(up)
             A == Range(rev) \ {NoItem}
             c == Only(rev, A)
             S == Items \cup {NoItem}
  <2>1. up \in Seq(S) /\ DOMAIN up = 1 .. N + 1 /\ Len(up) = N + 1
    BY <1>1, <1>2
  <2>2. rev \in Seq(S) /\ Range(rev) = Range(up) /\ \A a, b : Prec(rev, a, b) <=> Prec(up, b, a)
    BY <2>1, ReverseOrder
  <2> HIDE DEF rev, A, c
  <2>3. /\ c \in Seq(S) /\ Range(c) = Range(rev) \cap A
        /\ \A a, b : Prec(c, a, b) <=> a \in A /\ b \in A /\ Prec(rev, a, b)
    BY <2>2, OnlyFacts DEF c
  <2>4. Without(Reverse(up), {NoItem}) = c
    BY DEF Without, c, A, rev
  <2>5. Range(c) = {up[k] : k \in {j \in 1 .. N + 1 : up[j] # NoItem}}
    BY <2>1, <2>2, <2>3 DEF A, Range
  <2>6. \A a, b : Prec(c, a, b) <=> \E j, k \in 1 .. N + 1 : j < k /\ up[j] = b /\ up[k] = a /\ a # NoItem /\ b # NoItem
    <3>1. \A a, b : Prec(up, b, a) <=> \E j, k \in 1 .. N + 1 : j < k /\ up[j] = b /\ up[k] = a
      BY <2>1 DEF Prec
    <3>2. \A a, b : Prec(up, b, a) => a \in Range(up) /\ b \in Range(up)
      BY <2>1 DEF Prec, Range
    <3>3. \A a : a \in A <=> a \in Range(up) /\ a # NoItem
      BY <2>2 DEF A
    <3>4. \A a, b : Prec(c, a, b) <=> Prec(up, b, a) /\ a # NoItem /\ b # NoItem
      BY <2>2, <2>3, <3>2, <3>3
    <3> QED BY <3>1, <3>4
  <2>7. \A a, b : Prec(c, a, b) => Prec(z.list, a, b)
    BY <1>3, <2>6
  <2>8. \A y \in Range(c) : /\ y \in Range(z.list) /\ z.level[y] = z.level[x] /\ y \in Items
                            /\ y = x \/ Prec(z.list, y, x)
    <3> SUFFICES ASSUME NEW y \in Range(c)
                 PROVE  /\ y \in Range(z.list) /\ z.level[y] = z.level[x] /\ y \in Items
                        /\ y = x \/ Prec(z.list, y, x)
      OBVIOUS
    <3>1. PICK k \in 1 .. N + 1 : up[k] = y /\ y # NoItem
      BY <2>5
    <3>2. y \in Range(z.list) /\ z.level[y] = z.level[x] /\ y \in Items
      BY <1>2, <1>3, <3>1
    <3>3. k = 1 \/ 1 < k
      BY <1>1
    <3>4. 1 \in 1 .. N + 1
      BY <1>1
    <3> QED BY <1>2, <1>3, <3>1, <3>2, <3>3, <3>4
  <2>9. c \in Seq(Items)
    <3>1. \A i \in DOMAIN c : c[i] \in Items
      BY <2>8 DEF Range
    <3> QED BY <2>3, <3>1
  <2>10. IsInjective(c)
    <3>1. SUFFICES ASSUME NEW i \in DOMAIN c, NEW j \in DOMAIN c, c[i] = c[j], i < j PROVE FALSE
      <4>1. DOMAIN c \in SUBSET Int
        BY <2>9
      <4>2. \A i, j \in DOMAIN c : i < j \/ i = j \/ j < i
        BY <4>1
      <4> QED BY <4>2 DEF IsInjective
    <3>2. Prec(c, c[i], c[i])
      BY <3>1 DEF Prec
    <3> QED BY <1>1, <2>7, <3>2, PrecFacts
  <2>11. x \in Range(c)
    <3>1. 1 \in 1 .. N + 1
      BY <1>1
    <3> QED BY <1>2, <1>4, <2>5, <3>1
  <2>12. ASSUME NEW y \in Range(c), z.above[y] # NoItem PROVE Prec(c, z.above[y], y)
    <3>1. PICK k \in 1 .. N + 1 : up[k] = y /\ y # NoItem
      BY <2>5
    <3>2. k \in 1 .. N /\ k + 1 \in 1 .. N + 1 /\ k < k + 1
      <4>1. k # N + 1
        BY <1>3, <3>1
      <4> QED BY <1>1, <4>1
    <3>3. up[k + 1] = z.above[y]
      BY <1>2, <3>1, <3>2
    <3> QED BY <2>6, <2>12, <3>1, <3>2, <3>3
  <2> QED BY <1>6, <2>4, <2>7, <2>8, <2>9, <2>10, <2>11, <2>12 DEF up
<1> QED BY <1>5, <1>6

\* What Without leaves.
LEMMA WithoutFacts ==
  ASSUME NEW S, NEW l \in Seq(S), NEW A
  PROVE  /\ Without(l, A) \in Seq(S)
         /\ Range(Without(l, A)) = Range(l) \ A
         /\ \A a, b : Prec(Without(l, A), a, b) <=> a \notin A /\ b \notin A /\ Prec(l, a, b)
         /\ IsInjective(l) => IsInjective(Without(l, A))
<1> DEFINE B == Range(l) \ A
           v == Only(l, B)
<1>1. Without(l, A) = v
  BY DEF Without
<1>2. /\ v \in Seq(S)
      /\ Range(v) = Range(l) \cap B
      /\ \A a, b : Prec(v, a, b) <=> a \in B /\ b \in B /\ Prec(l, a, b)
      /\ IsInjective(l) => IsInjective(v)
  <2> HIDE DEF B
  <2> QED BY OnlyFacts
<1>3. \A a, b : Prec(l, a, b) => a \in Range(l) /\ b \in Range(l)
  BY DEF Prec, Range
<1> HIDE DEF v
<1> QED BY <1>1, <1>2, <1>3

\* The items that are restacked together: what they are above, of these, comes before
\* them; only when it is raised is x above another item, and only when it is lowered
\* is another item above one of these.
LEMMA SubtreeFacts ==
  ASSUME NEW z, Stacked(z), NEW x \in Range(z.list), NEW parents \in BOOLEAN
  PROVE  LET tree == Subtree(z, x, parents)
         IN /\ tree \in Seq(Items) /\ IsInjective(tree) /\ Range(tree) \subseteq Range(z.list)
            /\ \A y \in Range(tree) : z.level[y] = z.level[x]
            /\ \A y \in Range(tree) :
                 z.above[y] # NoItem => \/ Prec(tree, z.above[y], y)
                                        \/ z.above[y] \notin Range(tree) /\ ~parents
            /\ \A y \in Range(z.list) \ Range(tree) : z.above[y] \in Range(tree) => parents
<1> DEFINE c == IF parents THEN Without(Reverse(Up(z, x)), {NoItem}) ELSE <<x>>
           A == {y \in Range(z.list) \ Range(c) : is_above(z, y, x)}
           r == Only(z.list, A)
           tree == c \o r
           l == z.list
<1>1. z \in Stackings /\ l \in Seq(Items) /\ IsInjective(l) /\ x \in Items /\ x # NoItem
  <2>1. z \in Stackings /\ l \in Seq(Items) /\ IsInjective(l) /\ x \in Items
    BY DEF Stacked, Stackings, Range
  <2> QED BY <2>1, GroupsAssumption
<1>2. /\ c \in Seq(Items) /\ IsInjective(c) /\ x \in Range(c)
      /\ \A y \in Range(c) : /\ y \in Range(l) /\ z.level[y] = z.level[x]
                             /\ y = x \/ Prec(l, y, x)
                             /\ ~parents => y = x
      /\ \A a, b : Prec(c, a, b) => Prec(l, a, b)
      /\ parents => \A y \in Range(c) : z.above[y] # NoItem => Prec(c, z.above[y], y)
  <2> HIDE DEF A, r, tree
  <2>1. Stacked(z) /\ x \in Range(z.list) /\ parents \in BOOLEAN
    OBVIOUS
  <2> QED BY ZenonT(60), <2>1, ChainFacts
<1>3. Subtree(z, x, parents) = tree
  BY DEF Subtree
<1> HIDE DEF c
<1>4. A \subseteq Range(l) /\ A \cap Range(c) = {}
  OBVIOUS
<1>5. /\ r \in Seq(Items) /\ IsInjective(r) /\ Range(r) = A
      /\ \A a, b : Prec(r, a, b) <=> a \in A /\ b \in A /\ Prec(l, a, b)
  <2> HIDE DEF A
  <2>1. /\ r \in Seq(Items) /\ IsInjective(r) /\ Range(r) = Range(l) \cap A
        /\ \A a, b : Prec(r, a, b) <=> a \in A /\ b \in A /\ Prec(l, a, b)
    BY <1>1, OnlyFacts
  <2> QED BY <1>4, <2>1
<1> HIDE DEF r, l
<1>6. /\ tree \in Seq(Items) /\ Range(tree) = Range(c) \cup A /\ IsInjective(tree)
      /\ \A a, b : Prec(tree, a, b) <=> \/ Prec(c, a, b) \/ Prec(r, a, b)
                                        \/ a \in Range(c) /\ b \in A
  <2>1. Range(c) \cap Range(r) = {}
    BY <1>4, <1>5
  <2> HIDE DEF A
  <2>2. /\ tree \in Seq(Items) /\ Range(tree) = Range(c) \cup Range(r) /\ IsInjective(tree)
        /\ \A a, b : Prec(tree, a, b) <=> \/ Prec(c, a, b) \/ Prec(r, a, b)
                                          \/ a \in Range(c) /\ b \in Range(r)
    BY <1>2, <1>5, <2>1, ConcatOrder
  <2> QED BY <1>5, <2>2
<1> HIDE DEF tree
<1>7. \A y \in A : y \in Range(l) /\ y \notin Range(c) /\ is_above(z, y, x)
  BY DEF l
<1>8. \A y \in Range(l) : y \notin Range(c) /\ is_above(z, y, x) => y \in A
  BY DEF l
<1> HIDE DEF A
<1>9. \A y \in Range(l) :
        /\ is_above(z, y, x) <=> /\ z.above[y] # NoItem
                                 /\ z.above[y] = x \/ is_above(z, z.above[y], x)
        /\ is_above(z, y, x) => Prec(l, x, y) /\ z.level[x] = z.level[y]
  BY <1>1, AboveFacts DEF l
<1>10. \A y \in Range(l) : z.above[y] # NoItem => Prec(l, z.above[y], y) /\ z.above[y] \in Range(l)
  <2>1. \A y \in Range(l) : z.above[y] # NoItem => Prec(l, z.above[y], y)
    BY DEF Stacked, l
  <2> QED BY <1>1, <2>1, PrecFacts
<1>11. \A y \in Range(tree) : z.level[y] = z.level[x] /\ y \in Range(l)
  BY <1>2, <1>6, <1>7, <1>9
<1>12. ASSUME NEW y \in Range(tree), z.above[y] # NoItem
       PROVE  \/ Prec(tree, z.above[y], y)
              \/ z.above[y] \notin Range(tree) /\ ~parents
  <2> DEFINE p == z.above[y]
  <2>1. CASE y \in Range(c) /\ parents
    <3>1. Prec(c, p, y)
      BY <1>2, <1>12, <2>1
    <3> QED BY <1>6, <3>1
  <2>2. CASE y \in Range(c) /\ ~parents
    <3>1. y = x /\ Prec(l, p, x) /\ p \in Range(l)
      BY <1>2, <1>10, <1>12, <2>2
    <3>2. p # x /\ ~Prec(l, x, p)
      BY <1>1, <3>1, PrecFacts
    <3>3. p \notin Range(c)
      BY <1>2, <2>2, <3>2
    <3>4. p \notin A
      BY <1>7, <1>9, <3>2
    <3> QED BY <1>6, <2>2, <3>3, <3>4
  <2>3. CASE y \in A
    <3>1. y \in Range(l) /\ is_above(z, y, x)
      BY <1>7, <2>3
    <3>2. (p = x \/ is_above(z, p, x)) /\ Prec(l, p, y) /\ p \in Range(l)
      BY <1>9, <1>10, <1>12, <3>1
    <3>3. CASE p \in Range(c)
      BY <1>6, <2>3, <3>3
    <3>4. CASE p \notin Range(c)
      <4>1. p \in A
        BY <1>2, <1>8, <3>2, <3>4
      <4> QED BY <1>5, <1>6, <2>3, <3>2, <4>1
    <3> QED BY <3>3, <3>4
  <2> QED BY <1>6, <2>1, <2>2, <2>3
<1>13. ASSUME NEW y \in Range(l) \ Range(tree), z.above[y] \in Range(tree) PROVE parents
  <2> SUFFICES ASSUME ~parents PROVE FALSE
    OBVIOUS
  <2> DEFINE p == z.above[y]
  <2>1. p # NoItem
    BY <1>6, <1>13, GroupsAssumption DEF Range
  <2>2. p = x \/ is_above(z, p, x)
    BY <1>2, <1>6, <1>7, <1>13
  <2>3. is_above(z, y, x)
    BY <1>9, <1>13, <2>1, <2>2
  <2> QED BY <1>6, <1>8, <1>13, <2>3
<1> QED BY <1>3, <1>6, <1>11, <1>12, <1>13 DEF l

\* When an item is raised or lowered the stacking stays in order, with the same items.
LEMMA RestackStacked ==
  ASSUME NEW z, Stacked(z), NEW x \in Range(z.list), NEW lower \in BOOLEAN
  PROVE  \E l : /\ stacking_restack(z, x, lower) = With(z, l, l)
                /\ Stacked(With(z, l, l)) /\ Range(l) = Range(z.list)
<1> DEFINE tree == Subtree(z, x, lower)
           A == Range(tree)
           rest == Without(z.list, A)
           y == With(z, rest, z.order)
<1>1. /\ z \in Stackings /\ z.list \in Seq(Items) /\ z.order = z.list /\ IsInjective(z.list)
      /\ z.level \in [Items -> Nat]
  BY DEF Stacked, Stackings
<1>2. /\ tree \in Seq(Items) /\ IsInjective(tree) /\ Range(tree) \subseteq Range(z.list)
      /\ \A a \in Range(tree) : z.level[a] = z.level[x]
      /\ \A a \in Range(tree) : z.above[a] # NoItem => \/ Prec(tree, z.above[a], a)
                                                       \/ z.above[a] \notin Range(tree) /\ ~lower
      /\ \A a \in Range(z.list) \ Range(tree) : z.above[a] \in Range(tree) => lower
  BY SubtreeFacts
<1>3. stacking_restack(z, x, lower) = stacking_weave([z EXCEPT !.list = rest], tree, lower)
  BY DEF stacking_restack
<1> HIDE DEF tree, A
<1>4. /\ rest \in Seq(Items) /\ Range(rest) = Range(z.list) \ A /\ IsInjective(rest)
      /\ \A a, b : Prec(rest, a, b) <=> a \notin A /\ b \notin A /\ Prec(z.list, a, b)
  BY <1>1, WithoutFacts
<1> HIDE DEF rest
<1>5. [z EXCEPT !.list = rest] = y
  BY <1>1 DEF Stackings, With
<1>6. y.list = rest /\ y.order = z.list /\ y.level = z.level /\ y.above = z.above /\ y \in Stackings
  BY <1>1, <1>4 DEF With, Stackings
<1> HIDE DEF y
<1>7. \A a, b : Prec(z.list, a, b) => z.level[a] <= z.level[b]
  BY DEF Stacked, Sorted
<1>8. \A a, b : Prec(tree, a, b) => a \in A /\ b \in A
  BY <1>2, PrecFacts DEF A
<1>9. \A a \in A : z.level[a] \in Nat
  BY <1>1, <1>2 DEF A, Range
<1>10. Weavable(y, tree)
  <2>1. Sorted(y, rest)
    BY <1>4, <1>6, <1>7 DEF Sorted
  <2>2. Sorted(y, tree)
    <3>1. \A a, b : Prec(tree, a, b) => z.level[a] = z.level[b] /\ z.level[a] \in Nat
      BY <1>2, <1>8, <1>9 DEF A
    <3> QED BY <1>6, <3>1 DEF Sorted
  <2>3. Range(tree) \cap Range(rest) = {} /\ Range(tree) \cup Range(rest) \subseteq Range(z.list)
    BY <1>2, <1>4 DEF A
  <2> QED BY <1>1, <1>2, <1>4, <1>6, <2>1, <2>2, <2>3 DEF Weavable
<1>100. PICK l, o : Wove(y, tree, lower, l, o)
  BY <1>10, WeaveFacts
<1>11. /\ stacking_weave(y, tree, lower) = With(y, l, o)
       /\ l \in Seq(Items) /\ o \in Seq(Items) /\ IsInjective(l) /\ IsInjective(o)
       /\ Range(l) = Range(y.list) \cup Range(tree) /\ Range(o) = Range(y.order)
       /\ \A a, b \in Range(l) : Prec(o, a, b) <=> Prec(l, a, b)
       /\ \A a, b \in Range(y.list) : Prec(y.list, a, b) => Prec(l, a, b)
       /\ \A a, b : Prec(tree, a, b) => Prec(l, a, b)
       /\ Sorted(y, l)
       /\ \A a \in Range(y.list), b \in Range(tree) :
            /\ lower /\ y.level[b] <= y.level[a] => Prec(l, b, a)
            /\ ~lower /\ y.level[a] <= y.level[b] => Prec(l, a, b)
  BY <1>100 DEF Wove
<1>12. Range(l) = Range(z.list) /\ Range(o) = Range(z.list)
  BY <1>2, <1>4, <1>6, <1>11 DEF A
<1>13. l = o
  <2>1. \A a, b : Prec(l, a, b) => Prec(o, a, b)
    <3>1. \A a, b : Prec(l, a, b) => a \in Range(l) /\ b \in Range(l)
      BY <1>11, PrecFacts
    <3> QED BY <1>11, <3>1
  <2> QED BY <1>11, <1>12, <2>1, SameList
<1>14. stacking_restack(z, x, lower) = With(z, l, l)
  <2>1. With(y, l, l) = With(z, l, l)
    BY <1>6 DEF With
  <2> QED BY <1>3, <1>5, <1>11, <1>13, <2>1
<1> DEFINE v == With(z, l, l)
<1>15. v.list = l /\ v.order = l /\ v.level = z.level /\ v.above = z.above /\ v \in Stackings
  BY <1>1, <1>11 DEF With, Stackings
<1>16. ASSUME NEW a \in Range(l), z.above[a] # NoItem
       PROVE  Prec(l, z.above[a], a) /\ z.level[z.above[a]] = z.level[a]
  <2> DEFINE p == z.above[a]
  <2>1. Prec(z.list, p, a) /\ z.level[p] = z.level[a]
    BY <1>12, <1>16 DEF Stacked
  <2>2. p \in Range(z.list) /\ a \in Range(z.list)
    BY <1>1, <2>1, PrecFacts
  <2>3. z.level[p] \in Nat
    BY <1>1, <2>2 DEF Range
  <2>4. CASE a \in A
    <3>1. Prec(tree, p, a) \/ (p \notin A /\ ~lower)
      BY <1>2, <1>16, <2>4 DEF A
    <3>2. CASE Prec(tree, p, a)
      BY <1>11, <2>1, <3>2
    <3>3. CASE p \notin A /\ ~lower
      <4>1. p \in Range(y.list) /\ a \in Range(tree)
        BY <1>4, <1>6, <2>2, <2>4, <3>3 DEF A
      <4>2. y.level[p] <= y.level[a]
        BY <1>6, <2>1, <2>3
      <4> QED BY <1>11, <2>1, <3>3, <4>1, <4>2
    <3> QED BY <3>1, <3>2, <3>3
  <2>5. CASE a \notin A /\ p \in A
    <3>1. lower
      BY <1>2, <2>2, <2>5 DEF A
    <3>2. a \in Range(y.list) /\ p \in Range(tree)
      BY <1>4, <1>6, <2>2, <2>5 DEF A
    <3>3. y.level[p] <= y.level[a]
      BY <1>6, <2>1, <2>3
    <3> QED BY <1>11, <2>1, <3>1, <3>2, <3>3
  <2>6. CASE a \notin A /\ p \notin A
    <3>1. Prec(rest, p, a) /\ a \in Range(y.list) /\ p \in Range(y.list)
      BY <1>4, <1>6, <2>1, <2>2, <2>6
    <3> QED BY <1>6, <1>11, <2>1, <3>1
  <2> QED BY <2>4, <2>5, <2>6
<1>17. Stacked(v)
  <2>1. Sorted(v, l)
    BY <1>6, <1>11, <1>15 DEF Sorted
  <2> HIDE DEF v
  <2> QED BY <1>11, <1>15, <1>16, <2>1 DEF Stacked
<1> QED BY <1>12, <1>14, <1>17

LEMMA StackingType ==
  ASSUME NEW l \in Seq(Items), NEW o \in Seq(Items), NEW e \in [Items -> Nat],
         NEW f \in [Items -> Items \cup {NoItem}]
  PROVE  [list |-> l, order |-> o, level |-> e, above |-> f] \in Stackings
BY DEF Stackings

\* A stacking stays in order when only items that are not in it change.
LEMMA StackedSame ==
  ASSUME NEW z, Stacked(z), NEW y \in Stackings, y.list = z.list, y.order = z.list,
         \A a \in Range(z.list) : y.level[a] = z.level[a] /\ y.above[a] = z.above[a]
  PROVE  Stacked(y)
<1>1. /\ z.list \in Seq(Items) /\ IsInjective(z.list) /\ Sorted(z, z.list)
      /\ \A a \in Range(z.list) :
           z.above[a] # NoItem => Prec(z.list, z.above[a], a) /\ z.level[z.above[a]] = z.level[a]
  BY DEF Stacked, Stackings
<1>2. \A a, b : Prec(z.list, a, b) => a \in Range(z.list) /\ b \in Range(z.list)
  BY <1>1, PrecFacts
<1>3. Sorted(y, y.list)
  BY <1>1, <1>2 DEF Sorted
<1> QED BY <1>1, <1>2, <1>3 DEF Stacked

\* A list without items that are not in it is the list.
LEMMA WithoutNone ==
  ASSUME NEW S, NEW l \in Seq(S), IsInjective(l), NEW A, Range(l) \cap A = {}
  PROVE  Without(l, A) = l
<1> DEFINE v == Without(l, A)
<1>1. /\ v \in Seq(S) /\ Range(v) = Range(l) \ A /\ IsInjective(v)
      /\ \A a, b : Prec(v, a, b) <=> a \notin A /\ b \notin A /\ Prec(l, a, b)
  BY WithoutFacts
<1>2. Range(l) = Range(v)
  BY <1>1
<1>3. \A a, b : Prec(v, a, b) => Prec(l, a, b)
  BY <1>1
<1> HIDE DEF v
<1>4. v = l
  BY <1>1, <1>2, <1>3, SameList
<1> QED BY <1>4 DEF v

\* A new item goes above all of its level.
LEMMA AddStacked ==
  ASSUME NEW z, Stacked(z), NEW x \in Items, x \notin Range(z.list), NEW level \in Nat, NEW y,
         y = [list |-> z.list, order |-> Append(z.list, x), level |-> [z.level EXCEPT ![x] = level],
              above |-> [z.above EXCEPT ![x] = NoItem]]
  PROVE  \E l : /\ stacking_weave(y, <<x>>, FALSE) = With(y, l, l)
                /\ Stacked(With(y, l, l)) /\ Range(l) = Range(z.list) \cup {x}
                /\ \A a \in Range(z.list) : z.level[a] <= level => Prec(l, a, x)
<1>1. /\ z.list \in Seq(Items) /\ IsInjective(z.list) /\ z.level \in [Items -> Nat]
      /\ z.above \in [Items -> Items \cup {NoItem}] /\ z.order = z.list
  BY DEF Stacked, Stackings
<1>2. /\ y.list = z.list /\ y.order = Append(z.list, x) /\ y.level = [z.level EXCEPT ![x] = level]
      /\ y.above = [z.above EXCEPT ![x] = NoItem]
  OBVIOUS
<1>3. /\ Append(z.list, x) \in Seq(Items) /\ Range(Append(z.list, x)) = Range(z.list) \cup {x}
      /\ IsInjective(Append(z.list, x))
      /\ \A a, b \in Range(z.list) : Prec(Append(z.list, x), a, b) <=> Prec(z.list, a, b)
  BY <1>1, AppendOrder
<1>4. y.level \in [Items -> Nat] /\ y.above \in [Items -> Items \cup {NoItem}]
  BY <1>1, <1>2
<1>5. y \in Stackings
  <2> DEFINE o == Append(z.list, x)
             e == [z.level EXCEPT ![x] = level]
             f == [z.above EXCEPT ![x] = NoItem]
  <2>1. z.list \in Seq(Items) /\ o \in Seq(Items) /\ e \in [Items -> Nat] /\ f \in [Items -> Items \cup {NoItem}]
    BY <1>1, <1>2, <1>3, <1>4
  <2>2. y = [list |-> z.list, order |-> o, level |-> e, above |-> f]
    OBVIOUS
  <2> HIDE DEF o, e, f
  <2>3. [list |-> z.list, order |-> o, level |-> e, above |-> f] \in Stackings
    <3> DEFINE l == z.list
    <3>1. l \in Seq(Items)
      BY <2>1
    <3> HIDE DEF l
    <3>2. [list |-> l, order |-> o, level |-> e, above |-> f] \in Stackings
      BY <2>1, <3>1, StackingType
    <3> QED BY <3>2 DEF l
  <2> QED BY <2>2, <2>3
<1>6. \A a \in Range(z.list) : y.level[a] = z.level[a] /\ y.above[a] = z.above[a] /\ a # x /\ a \in Items
  BY <1>1, <1>2 DEF Range
<1>7. y.level[x] = level /\ y.above[x] = NoItem
  BY <1>1, <1>2
<1>8. \A a, b : Prec(z.list, a, b) => a \in Range(z.list) /\ b \in Range(z.list)
  BY <1>1, PrecFacts
<1> HIDE DEF Stackings
<1>9. Weavable(y, <<x>>)
  <2>1. /\ <<x>> \in Seq(Items) /\ Range(<<x>>) = {x} /\ IsInjective(<<x>>)
        /\ \A a, b : ~Prec(<<x>>, a, b)
    BY DEF Range, IsInjective, Prec
  <2>2. Sorted(y, z.list)
    <3>1. \A a, b : Prec(z.list, a, b) => z.level[a] <= z.level[b]
      BY DEF Stacked, Sorted
    <3> QED BY <1>6, <1>8, <3>1 DEF Sorted
  <2>3. Sorted(y, <<x>>)
    BY <2>1 DEF Sorted
  <2> QED BY <1>1, <1>2, <1>3, <1>5, <2>1, <2>2, <2>3 DEF Weavable
<1> DEFINE x1 == <<x>>
<1>10. Range(x1) = {x}
  BY DEF Range
<1>100. PICK l, o : Wove(y, x1, FALSE, l, o)
  <2> HIDE DEF x1
  <2>1. Weavable(y, x1)
    BY <1>9 DEF x1
  <2> QED BY <2>1, WeaveFacts
<1>11. /\ stacking_weave(y, x1, FALSE) = With(y, l, o)
       /\ l \in Seq(Items) /\ o \in Seq(Items) /\ IsInjective(l) /\ IsInjective(o)
       /\ Range(l) = Range(y.list) \cup Range(x1) /\ Range(o) = Range(y.order)
       /\ \A a, b \in Range(l) : Prec(o, a, b) <=> Prec(l, a, b)
       /\ \A a, b \in Range(y.list) : Prec(y.list, a, b) => Prec(l, a, b)
       /\ Sorted(y, l)
       /\ \A a \in Range(y.list), b \in Range(x1) : y.level[a] <= y.level[b] => Prec(l, a, b)
  BY <1>100 DEF Wove
<1>12. Range(l) = Range(z.list) \cup {x} /\ Range(o) = Range(l)
  BY <1>2, <1>3, <1>10, <1>11
<1>13. l = o
  <2>1. \A a, b : Prec(l, a, b) => Prec(o, a, b)
    <3>1. \A a, b : Prec(l, a, b) => a \in Range(l) /\ b \in Range(l)
      BY <1>11, PrecFacts
    <3> QED BY <1>11, <3>1
  <2> QED BY <1>11, <1>12, <2>1, SameList
<1> DEFINE v == With(y, l, l)
<1>14. v.list = l /\ v.order = l /\ v.level = y.level /\ v.above = y.above /\ v \in Stackings
  BY <1>5, <1>11 DEF With, Stackings
<1>15. ASSUME NEW a \in Range(l), y.above[a] # NoItem
       PROVE  Prec(l, y.above[a], a) /\ y.level[y.above[a]] = y.level[a]
  <2>1. a \in Range(z.list)
    BY <1>7, <1>12, <1>15
  <2>2. Prec(z.list, z.above[a], a) /\ z.level[z.above[a]] = z.level[a]
    BY <1>6, <1>15, <2>1 DEF Stacked
  <2>3. z.above[a] \in Range(z.list)
    BY <1>8, <2>2
  <2> QED BY <1>2, <1>6, <1>11, <2>1, <2>2, <2>3
<1>16. Stacked(v)
  <2>1. Sorted(v, l)
    BY <1>11, <1>14 DEF Sorted
  <2> HIDE DEF v
  <2> QED BY <1>11, <1>14, <1>15, <2>1 DEF Stacked
<1>17. ASSUME NEW a \in Range(z.list), z.level[a] <= level PROVE Prec(l, a, x)
  BY <1>2, <1>6, <1>7, <1>10, <1>11, <1>17
<1> QED BY <1>11, <1>12, <1>13, <1>16, <1>17

\* An item may be above one of its level that it comes after.
LEMMA AboveStacked ==
  ASSUME NEW z, Stacked(z), NEW x \in Range(z.list), NEW p, Prec(z.list, p, x), z.level[p] = z.level[x],
         NEW y, y = [list |-> z.list, order |-> z.order, level |-> z.level, above |-> [z.above EXCEPT ![x] = p]]
  PROVE  Stacked(y)
<1>1. /\ z.list \in Seq(Items) /\ IsInjective(z.list) /\ z.level \in [Items -> Nat]
      /\ z.above \in [Items -> Items \cup {NoItem}] /\ z.order = z.list
  BY DEF Stacked, Stackings
<1>2. p \in Range(z.list) /\ p \in Items /\ x \in Items
  <2>1. p \in Range(z.list)
    BY <1>1, PrecFacts
  <2> QED BY <1>1, <2>1 DEF Range
<1> DEFINE f == [z.above EXCEPT ![x] = p]
<1>3. f \in [Items -> Items \cup {NoItem}]
  BY <1>1, <1>2
<1>4. \A a \in Items : f[a] = IF a = x THEN p ELSE z.above[a]
  BY <1>1
<1> HIDE DEF f
<1>5. y.list = z.list /\ y.order = z.list /\ y.level = z.level /\ y.above = f /\ y \in Stackings
  BY <1>1, <1>3 DEF Stackings, f
<1>6. Sorted(y, z.list)
  BY <1>5 DEF Stacked, Sorted
<1>7. \A a \in Range(z.list) : f[a] # NoItem => Prec(z.list, f[a], a) /\ z.level[f[a]] = z.level[a]
  <2> SUFFICES ASSUME NEW a \in Range(z.list), f[a] # NoItem
               PROVE  Prec(z.list, f[a], a) /\ z.level[f[a]] = z.level[a]
    OBVIOUS
  <2>1. a \in Items
    BY <1>1 DEF Range
  <2>2. CASE a = x
    BY <1>4, <2>1, <2>2
  <2>3. CASE a # x
    <3>1. f[a] = z.above[a]
      BY <1>4, <2>1, <2>3
    <3>2. z.above[a] # NoItem
      BY <3>1
    <3>3. Prec(z.list, z.above[a], a) /\ z.level[z.above[a]] = z.level[a]
      BY <3>2 DEF Stacked
    <3> QED BY <3>1, <3>3
  <2> QED BY <2>2, <2>3
<1> QED BY <1>1, <1>5, <1>6, <1>7 DEF Stacked

\* Items go, and nothing is above them any more.
LEMMA LessStacked ==
  ASSUME NEW z, Stacked(z), NEW A, NEW f \in [Items -> Items \cup {NoItem}],
         \A a \in Range(z.list) \ A : f[a] = IF z.above[a] \in A THEN NoItem ELSE z.above[a],
         NEW y, y = [list |-> Without(z.list, A), order |-> Without(z.order, A), level |-> z.level, above |-> f]
  PROVE  Stacked(y) /\ Range(y.list) = Range(z.list) \ A
<1>1. /\ z.list \in Seq(Items) /\ IsInjective(z.list) /\ z.level \in [Items -> Nat] /\ z.order = z.list
  BY DEF Stacked, Stackings
<1> DEFINE l == Without(z.list, A)
<1>2. /\ l \in Seq(Items) /\ Range(l) = Range(z.list) \ A /\ IsInjective(l)
      /\ \A a, b : Prec(l, a, b) <=> a \notin A /\ b \notin A /\ Prec(z.list, a, b)
  BY <1>1, WithoutFacts
<1>3. y.list = l /\ y.order = l /\ y.level = z.level /\ y.above = f
  BY <1>1
<1> HIDE DEF l
<1>4. y \in Stackings
  BY <1>1, <1>2, <1>3 DEF Stackings, l
<1>5. Sorted(y, l)
  BY <1>2, <1>3 DEF Stacked, Sorted
<1>6. \A a \in Range(l) : f[a] # NoItem => Prec(l, f[a], a) /\ z.level[f[a]] = z.level[a]
  <2> SUFFICES ASSUME NEW a \in Range(l), f[a] # NoItem
               PROVE  Prec(l, f[a], a) /\ z.level[f[a]] = z.level[a]
    OBVIOUS
  <2>1. a \in Range(z.list) /\ a \notin A
    BY <1>2
  <2>2. f[a] = z.above[a] /\ z.above[a] \notin A
    BY <2>1
  <2>3. z.above[a] # NoItem
    BY <2>2
  <2>4. Prec(z.list, z.above[a], a) /\ z.level[z.above[a]] = z.level[a]
    BY <2>1, <2>3 DEF Stacked
  <2> QED BY <1>2, <2>1, <2>2, <2>4
<1> QED BY <1>2, <1>3, <1>4, <1>5, <1>6 DEF Stacked

\* What stacking_unstack returns.
LEMMA UnstackFacts ==
  ASSUME NEW z, Stacked(z), NEW x \in Range(z.list)
  PROVE  LET r == stacking_unstack(z, x)
         IN /\ r.z.list = Without(z.list, {x}) /\ r.z.order = z.order /\ r.z.level = z.level
            /\ r.z.above \in [Items -> Items \cup {NoItem}]
            /\ \A y \in Items : r.z.above[y] = IF z.above[y] = x /\ y \in Range(z.list) \ {x} THEN NoItem
                                               ELSE z.above[y]
            /\ r.next = z.above[x] \/ (r.next \in Range(z.list) /\ z.above[r.next] = x)
<1> DEFINE list == Without(z.list, {x})
           over == {i \in DOMAIN list : z.above[list[i]] = x}
           f == [y \in DOMAIN z.above |-> IF z.above[y] = x /\ y \in Range(list) THEN NoItem ELSE z.above[y]]
           r == stacking_unstack(z, x)
<1>1. /\ z \in Stackings /\ z.list \in Seq(Items) /\ IsInjective(z.list)
      /\ z.above \in [Items -> Items \cup {NoItem}] /\ DOMAIN z.above = Items
  BY DEF Stacked, Stackings
<1>2. list \in Seq(Items) /\ Range(list) = Range(z.list) \ {x}
  BY <1>1, WithoutFacts
<1>3. r = [z |-> [z EXCEPT !.list = list, !.above = f],
           next |-> IF over = {} THEN z.above[x] ELSE list[Max(over)]]
  BY DEF stacking_unstack
<1> HIDE DEF list, r
<1>4. /\ f \in [Items -> Items \cup {NoItem}]
      /\ \A y \in Items : f[y] = IF z.above[y] = x /\ y \in Range(list) THEN NoItem ELSE z.above[y]
  BY <1>1
<1> HIDE DEF f
<1>5. /\ r.z = [z EXCEPT !.list = list, !.above = f]
      /\ r.next = IF over = {} THEN z.above[x] ELSE list[Max(over)]
  <2> HIDE DEF over
  <2> QED BY <1>3
<1>6. r.z.list = list /\ r.z.order = z.order /\ r.z.level = z.level /\ r.z.above = f
  BY <1>1, <1>5 DEF Stackings
<1>7. r.next = z.above[x] \/ (r.next \in Range(z.list) /\ z.above[r.next] = x)
  <2>1. SUFFICES ASSUME over # {} PROVE r.next \in Range(z.list) /\ z.above[r.next] = x
    BY <1>5
  <2>2. \E i \in over : \A j \in over : i >= j
    <3> DEFINE N == Len(list)
               T == {N - i : i \in over}
    <3>1. N \in Nat /\ DOMAIN list = 1 .. N
      BY <1>2
    <3> HIDE DEF N
    <3>2. over \subseteq 1 .. N
      BY <3>1
    <3>3. T \in SUBSET Nat /\ T # {}
      <4>1. \A i \in over : N - i \in Nat
        BY <3>1, <3>2
      <4>2. over # {}
        BY <2>1
      <4> HIDE DEF over
      <4> QED BY <4>1, <4>2
    <3> HIDE DEF over
    <3>4. PICK n \in T : \A m \in T : n <= m
      <4> HIDE DEF T
      <4> QED BY <3>3, NatMin
    <3>5. PICK i \in over : n = N - i
      OBVIOUS
    <3>6. ASSUME NEW j \in over PROVE i >= j
      <4>1. N - i <= N - j
        BY <3>4, <3>5
      <4> QED BY <3>1, <3>2, <4>1
    <3> QED BY <3>6
  <2>3. Max(over) \in over
    <3> HIDE DEF over
    <3> QED BY <2>2 DEF Max
  <2>4. Max(over) \in DOMAIN list /\ z.above[list[Max(over)]] = x
    BY <2>3
  <2>5. r.next = list[Max(over)]
    BY <1>5, <2>1
  <2> HIDE DEF over
  <2>6. list[Max(over)] \in Range(list)
    BY <2>4 DEF Range
  <2> QED BY <1>2, <2>4, <2>5, <2>6
<1> QED BY <1>2, <1>4, <1>6, <1>7 DEF list, r

\* When what the wanted items are above, and what is above them, is wanted, then exactly
\* they are unwoven.
LEMMA UnweaveFacts ==
  ASSUME NEW z, Stacked(z), NEW wanted \in SUBSET Range(z.list),
         \A y \in Range(z.list) : z.above[y] # NoItem => (y \in wanted <=> z.above[y] \in wanted)
  PROVE  UnweaveItems(z, wanted) = Only(z.list, wanted)
<1> DEFINE N == Len(z.list)
           l == z.list
           A == {x \in Range(l) : \E y \in Range(Up(z, x)) \cap wanted : z.above[y] = NoItem}
<1>1. /\ N \in Nat /\ z \in Stackings /\ l \in Seq(Items) /\ NoItem \notin Items /\ Range(l) \subseteq Items
      /\ \A x \in Range(l) : x \in Items
  <2>1. N \in Nat /\ z \in Stackings /\ l \in Seq(Items) /\ NoItem \notin Items
    BY GroupsAssumption DEF Stacked, Stackings
  <2> QED BY <2>1 DEF Range
<1>2. ASSUME NEW x \in Range(l)
      PROVE  x \in wanted <=> \E y \in Range(Up(z, x)) \cap wanted : z.above[y] = NoItem
  <2> DEFINE up == Up(z, x)
             Fits(k) == up[k] # NoItem => up[k] \in Range(l) /\ (up[k] \in wanted <=> x \in wanted)
             P == {n \in 0 .. N : Fits(n + 1)}
             T == {k \in 1 .. N + 1 : up[k] = NoItem}
  <2>1. /\ up \in [1 .. N + 1 -> Items \cup {NoItem}] /\ up[1] = x
        /\ \A k \in 1 .. N : up[k + 1] = IF up[k] = NoItem THEN NoItem ELSE z.above[up[k]]
    <3>1. x \in Items
      BY <1>1
    <3> QED BY <1>1, <3>1, UpTurns
  <2>2. /\ \A k \in 1 .. N + 1 : up[k] = NoItem \/ up[k] \in Range(l)
        /\ up[N + 1] = NoItem
    BY UpFacts
  <2> HIDE DEF up, N, l
  <2>3. 0 \in P
    <3>1. 0 \in 0 .. N /\ 0 + 1 = 1
      BY <1>1
    <3> QED BY <2>1, <3>1
  <2>4. ASSUME NEW n \in 1 .. N, n - 1 \in P PROVE n \in P
    <3>1. n \in 0 .. N /\ (n - 1) + 1 = n /\ n + 1 \in 1 .. N + 1
      BY <1>1
    <3>2. Fits(n)
      BY <2>4, <3>1
    <3>3. SUFFICES ASSUME up[n + 1] # NoItem
                   PROVE  up[n + 1] \in Range(l) /\ (up[n + 1] \in wanted <=> x \in wanted)
      BY <3>1
    <3>4. up[n] # NoItem /\ up[n + 1] = z.above[up[n]]
      BY <2>1, <3>3
    <3>5. up[n] \in Range(l) /\ (up[n] \in wanted <=> x \in wanted)
      BY <3>2, <3>4
    <3>6. up[n] \in wanted <=> up[n + 1] \in wanted
      BY <3>3, <3>4, <3>5 DEF l
    <3> QED BY <2>2, <3>1, <3>3, <3>5, <3>6
  <2>5. ASSUME NEW k \in 1 .. N + 1 PROVE Fits(k)
    <3>1. \A n \in 0 .. N : n \in P
      <4> HIDE DEF P
      <4> QED BY <1>1, <2>3, <2>4, UpTo
    <3>2. k - 1 \in 0 .. N /\ (k - 1) + 1 = k
      BY <1>1
    <3> QED BY <3>1, <3>2
  <2>6. ASSUME NEW y \in Range(up), y \in wanted PROVE x \in wanted
    <3>1. PICK k \in 1 .. N + 1 : up[k] = y
      BY <2>1 DEF Range
    <3>2. y # NoItem
      BY <1>1, <2>6 DEF l
    <3> QED BY <2>5, <2>6, <3>1, <3>2
  <2>7. ASSUME x \in wanted PROVE \E y \in Range(up) \cap wanted : z.above[y] = NoItem
    <3>1. T \in SUBSET Nat /\ N + 1 \in T
      BY <1>1, <2>2
    <3>2. PICK k \in T : \A j \in T : k <= j
      <4> HIDE DEF T
      <4> QED BY <3>1, NatMin
    <3>3. k \in 1 .. N + 1 /\ up[k] = NoItem
      BY <3>2
    <3>4. k # 1
      BY <1>1, <2>1, <3>3 DEF l
    <3>5. k - 1 \in 1 .. N /\ k - 1 \in 1 .. N + 1 /\ (k - 1) + 1 = k /\ ~(k <= k - 1)
      BY <1>1, <3>3, <3>4
    <3>6. up[k - 1] # NoItem
      BY <3>2, <3>5
    <3>7. z.above[up[k - 1]] = NoItem
      BY <2>1, <3>3, <3>5, <3>6
    <3>8. up[k - 1] \in wanted
      BY <2>5, <2>7, <3>5, <3>6
    <3>9. up[k - 1] \in Range(up)
      BY <2>1, <3>5 DEF Range
    <3> QED BY <3>7, <3>8, <3>9
  <2> QED BY <2>6, <2>7 DEF up
<1>3. A = wanted
  BY <1>2 DEF l
<1>4. UnweaveItems(z, wanted) = Only(l, A)
  BY DEF UnweaveItems
<1> QED BY <1>3, <1>4

\* The list l when some items of the stacking z are woven into v
MovesTo(v, z, y, wanted, l) ==
  /\ stacking_weave(v, Only(z.list, wanted), FALSE) = With(v, l, l)
  /\ Stacked(With(v, l, l)) /\ Range(l) = Range(y.list) \cup wanted

\* The items of one stacking are woven into another.
LEMMA MoveStacked ==
  ASSUME NEW z, Stacked(z), NEW y, Stacked(y), y.level = z.level, y.above = z.above,
         NEW wanted \in SUBSET Range(z.list), Range(y.list) \cap wanted = {},
         \A a \in Range(z.list) : z.above[a] # NoItem => (a \in wanted <=> z.above[a] \in wanted),
         NEW m \in Seq(Items), IsInjective(m), Range(m) = wanted,
         NEW v, v = [list |-> y.list, order |-> y.order \o m, level |-> z.level, above |-> z.above]
  PROVE  \E l : MovesTo(v, z, y, wanted, l)
<1> DEFINE items == Only(z.list, wanted)
<1>1. /\ z.list \in Seq(Items) /\ IsInjective(z.list) /\ z.level \in [Items -> Nat]
      /\ z.above \in [Items -> Items \cup {NoItem}]
      /\ \A a, b : Prec(z.list, a, b) => z.level[a] <= z.level[b]
  BY DEF Stacked, Stackings, Sorted
<1>2. /\ y.list \in Seq(Items) /\ IsInjective(y.list) /\ y.order = y.list
      /\ \A a, b : Prec(y.list, a, b) => z.level[a] <= z.level[b]
  BY DEF Stacked, Stackings, Sorted
<1>3. /\ items \in Seq(Items) /\ Range(items) = Range(z.list) \cap wanted /\ IsInjective(items)
      /\ \A a, b : Prec(items, a, b) <=> a \in wanted /\ b \in wanted /\ Prec(z.list, a, b)
  BY <1>1, OnlyFacts
<1>4. Range(items) = wanted
  BY <1>3
<1> HIDE DEF items
<1> DEFINE o2 == y.order \o m
<1>5. /\ o2 \in Seq(Items) /\ Range(o2) = Range(y.list) \cup wanted /\ IsInjective(o2)
      /\ \A a, b : Prec(o2, a, b) <=> \/ Prec(y.list, a, b) \/ Prec(m, a, b)
                                      \/ a \in Range(y.list) /\ b \in Range(m)
  BY <1>2, ConcatOrder
<1>6. v.list = y.list /\ v.order = o2 /\ v.level = z.level /\ v.above = z.above
  OBVIOUS
<1> HIDE DEF o2
<1>7. v \in Stackings
  BY <1>1, <1>2, <1>5, <1>6 DEF Stackings, o2
<1>8. Weavable(v, items)
  <2>1. \A a, b \in Range(y.list) : Prec(o2, a, b) <=> Prec(y.list, a, b)
    <3>1. \A a, b : Prec(m, a, b) => a \in wanted /\ b \in wanted
      BY PrecFacts
    <3> QED BY <1>5, <3>1
  <2>2. Sorted(v, y.list)
    BY <1>2, <1>6 DEF Sorted
  <2>3. Sorted(v, items)
    BY <1>1, <1>3, <1>6 DEF Sorted
  <2> QED BY <1>2, <1>3, <1>4, <1>5, <1>6, <1>7, <2>1, <2>2, <2>3 DEF Weavable
<1>100. PICK l, o : Wove(v, items, FALSE, l, o)
  BY <1>8, WeaveFacts
<1>9. /\ stacking_weave(v, items, FALSE) = With(v, l, o)
      /\ l \in Seq(Items) /\ o \in Seq(Items) /\ IsInjective(l) /\ IsInjective(o)
      /\ Range(l) = Range(v.list) \cup Range(items) /\ Range(o) = Range(v.order)
      /\ \A a, b \in Range(l) : Prec(o, a, b) <=> Prec(l, a, b)
      /\ \A a, b \in Range(v.list) : Prec(v.list, a, b) => Prec(l, a, b)
      /\ \A a, b : Prec(items, a, b) => Prec(l, a, b)
      /\ Sorted(v, l)
  BY <1>100 DEF Wove
<1>10. Range(l) = Range(y.list) \cup wanted /\ Range(o) = Range(l)
  BY <1>4, <1>5, <1>6, <1>9
<1>11. l = o
  <2>1. \A a, b : Prec(l, a, b) => Prec(o, a, b)
    <3>1. \A a, b : Prec(l, a, b) => a \in Range(l) /\ b \in Range(l)
      BY <1>9, PrecFacts
    <3> QED BY <1>9, <3>1
  <2> QED BY <1>9, <1>10, <2>1, SameList
<1> DEFINE u == With(v, l, l)
<1>12. u.list = l /\ u.order = l /\ u.level = z.level /\ u.above = z.above /\ u \in Stackings
  BY <1>6, <1>7, <1>9 DEF With, Stackings
<1>13. ASSUME NEW a \in Range(l), z.above[a] # NoItem
       PROVE  Prec(l, z.above[a], a) /\ z.level[z.above[a]] = z.level[a]
  <2>1. CASE a \in wanted
    <3>1. a \in Range(z.list) /\ z.above[a] \in wanted
      BY <1>13, <2>1
    <3>2. Prec(z.list, z.above[a], a) /\ z.level[z.above[a]] = z.level[a]
      BY <1>13, <3>1 DEF Stacked
    <3> QED BY <1>3, <1>9, <2>1, <3>1, <3>2
  <2>2. CASE a \in Range(y.list)
    <3>1. Prec(y.list, z.above[a], a) /\ z.level[z.above[a]] = z.level[a]
      BY <1>13, <2>2 DEF Stacked
    <3>2. z.above[a] \in Range(y.list)
      BY <1>2, <3>1, PrecFacts
    <3> QED BY <1>6, <1>9, <2>2, <3>1, <3>2
  <2> QED BY <1>10, <2>1, <2>2
<1>14. Stacked(u)
  <2>1. Sorted(u, l)
    BY <1>6, <1>9, <1>12 DEF Sorted
  <2> HIDE DEF u
  <2> QED BY <1>9, <1>12, <1>13, <2>1 DEF Stacked
<1>15. MovesTo(v, z, y, wanted, l)
  BY <1>9, <1>10, <1>11, <1>14 DEF items, MovesTo
<1> QED BY <1>15

-----------------------------------------------------------------------------
(* States *)

PhStates == [set : BOOLEAN, level : Nat, bottom : BOOLEAN, above : Regs \cup {NoItem}]
GroupStates ==
  [list : [Wins -> Seq(Items)], order : [Wins -> Seq(Items)], level : [Items -> Nat],
   above : [Items -> Regs \cup {NoItem}], mgr : [Items -> Groups \cup Regs \cup {NoItem}],
   par : [Groups -> Wins \cup {NoItem}], managed : [Groups -> Seq(Items)],
   bottom : [Groups -> Regs \cup {NoItem}], current : [Groups -> Regs \cup {NoItem}],
   stdisp : [Groups -> {STDisp, NoItem}], shown : [Wins -> Groups \cup {NoItem}],
   ph : [Regs -> PhStates], phs : [Groups -> Seq(Regs)], detached : SUBSET Seq(Regs)]

\* The window that x is in
In(t, x, w) == t.mgr[x] \in Groups /\ t.par[t.mgr[x]] = w

\* The stacking of a window is in order, and of what is in it
StackOK(t, w) ==
  /\ Stacked(Z(t, w))
  /\ \A x \in Items : x \in Range(t.list[w]) <=> In(t, x, w)

\* The managed list of a group is of what it manages
ListOK(t, gr) ==
  /\ IsInjective(t.managed[gr])
  /\ \A x \in Items : x \in Range(t.managed[gr]) <=> t.mgr[x] = gr
  /\ t.par[gr] = NoItem => t.managed[gr] = <<>>

\* What a group refers to is its own
RefsOK(t, gr) ==
  /\ t.bottom[gr] # NoItem => t.mgr[t.bottom[gr]] = gr
  /\ t.current[gr] # NoItem => t.mgr[t.current[gr]] = gr

STDispOK(t) ==
  /\ \A gr \in Groups : t.stdisp[gr] = STDisp <=> t.mgr[STDisp] = gr
  /\ t.mgr[STDisp] \in Groups \cup Tilings \cup {NoItem}

\* A region is above one of the same group; it is managed by a group if at all
RegOK(t, x) ==
  /\ t.mgr[x] \in Groups /\ t.above[x] # NoItem => t.mgr[t.above[x]] = t.mgr[x]
  /\ t.mgr[x] \in Groups \cup {NoItem}

Body(t) ==
  /\ t \in GroupStates
  /\ \A w \in Wins : StackOK(t, w)
  /\ \A gr \in Groups : ListOK(t, gr) /\ RefsOK(t, gr)
  /\ \A x \in Regs : RegOK(t, x)
  /\ t.above[STDisp] = NoItem

Core(t) == Body(t) /\ STDispOK(t)

\* Every region has at most one placeholder, which is on one list
PhsOK(t) ==
  /\ \A x \in Regs : t.ph[x].set <=> \/ \E gr \in Groups : x \in Range(t.phs[gr])
                                     \/ \E l \in t.detached : x \in Range(l)
  /\ \A gr, h \in Groups : gr # h => Range(t.phs[gr]) \cap Range(t.phs[h]) = {}
  /\ \A gr \in Groups, l \in t.detached : Range(t.phs[gr]) \cap Range(l) = {}
  /\ \A l, m \in t.detached : l # m => Range(l) \cap Range(m) = {}
  /\ \A gr \in Groups : t.par[gr] = NoItem => t.phs[gr] = <<>>

\* A region that a group manages has none
NotAway(t) == \A x \in Regs : t.mgr[x] \in Groups => ~t.ph[x].set

\* A window shows a group that is in it; of the group that leaves this is not said
ShowsOK(t, leaving) ==
  \A w \in Wins : t.shown[w] \notin {NoItem, leaving} => t.par[t.shown[w]] = w

\* STDispShown of the state t
STDispWith(t) ==
  LET gr == t.shown[Home]
  IN gr # NoItem /\ gr \notin CWGroups =>
       t.mgr[STDisp] = IF t.bottom[gr] \in Tilings THEN t.bottom[gr] ELSE gr

GroupsInv(t) == Core(t) /\ PhsOK(t) /\ NotAway(t) /\ ShowsOK(t, NoItem)
\* The new stacking of a window.
LEMMA SetZFacts ==
  ASSUME NEW t \in GroupStates, NEW w \in Wins, NEW z, z.list \in Seq(Items), z.order \in Seq(Items),
         z.above \in [Items -> Regs \cup {NoItem}]
  PROVE  LET u == SetZ(t, w, z)
         IN /\ u \in GroupStates
            /\ u.list = [t.list EXCEPT ![w] = z.list] /\ u.order = [t.order EXCEPT ![w] = z.order]
            /\ u.above = z.above /\ u.level = t.level
            /\ u.mgr = t.mgr /\ u.managed = t.managed /\ u.bottom = t.bottom /\ u.current = t.current
            /\ u.stdisp = t.stdisp /\ u.par = t.par /\ u.shown = t.shown
            /\ u.ph = t.ph /\ u.phs = t.phs /\ u.detached = t.detached
<1> DEFINE u == SetZ(t, w, z)
           l == z.list
           o == z.order
           a == z.above
<1>1. /\ l \in Seq(Items) /\ o \in Seq(Items) /\ a \in [Items -> Regs \cup {NoItem}]
  OBVIOUS
<1>2. u = [t EXCEPT !.list[w] = l, !.order[w] = o, !.above = a]
  BY DEF SetZ
<1> HIDE DEF u, l, o, a
<1>3. u \in GroupStates
  BY <1>1, <1>2 DEF GroupStates
<1>4. /\ u.list = [t.list EXCEPT ![w] = l] /\ u.order = [t.order EXCEPT ![w] = o]
            /\ u.above = a /\ u.level = t.level
  BY <1>1, <1>2 DEF GroupStates
<1>5. /\ u.mgr = t.mgr /\ u.managed = t.managed /\ u.bottom = t.bottom /\ u.current = t.current
            /\ u.stdisp = t.stdisp /\ u.par = t.par /\ u.shown = t.shown
            /\ u.ph = t.ph /\ u.phs = t.phs /\ u.detached = t.detached
  BY <1>1, <1>2 DEF GroupStates
<1> QED BY <1>3, <1>4, <1>5 DEF u, l, o, a

LEMMA ZFacts ==
  ASSUME NEW t \in GroupStates, NEW w \in Wins
  PROVE  /\ Z(t, w) \in Stackings
         /\ Z(t, w).list = t.list[w] /\ Z(t, w).order = t.order[w]
         /\ Z(t, w).level = t.level /\ Z(t, w).above = t.above
<1> DEFINE l == t.list[w]
           o == t.order[w]
           e == t.level
           f == t.above
<1>1. l \in Seq(Items) /\ o \in Seq(Items) /\ e \in [Items -> Nat] /\ f \in [Items -> Items \cup {NoItem}]
  BY DEF GroupStates, Items
<1>2. Z(t, w) = [list |-> l, order |-> o, level |-> e, above |-> f]
  BY DEF Z
<1> HIDE DEF l, o, e, f
<1>3. [list |-> l, order |-> o, level |-> e, above |-> f] \in Stackings
  BY <1>1, StackingType
<1> QED BY <1>2, <1>3 DEF l, o, e, f

\* What does not concern the regions in groups is kept
Aside(u, t) ==
  /\ u.par = t.par /\ u.shown = t.shown
  /\ u.ph = t.ph /\ u.phs = t.phs /\ u.detached = t.detached

\* A new region is on the managed list and in the stacking of the group, above all of its
\* level.
LEMMA AddManagedFacts ==
  ASSUME NEW t, Body(t), NEW gr \in Groups, t.par[gr] # NoItem, NEW x \in Items, t.mgr[x] \notin Groups,
         NEW level \in Nat
  PROVE  LET u == AddManaged(t, gr, x, level)
         IN /\ Body(u) /\ Aside(u, t)
            /\ u.mgr = [t.mgr EXCEPT ![x] = gr] /\ u.level = [t.level EXCEPT ![x] = level]
            /\ u.above = [t.above EXCEPT ![x] = NoItem]
            /\ u.bottom = t.bottom /\ u.current = t.current /\ u.stdisp = t.stdisp
            /\ \A a \in Items : In(t, a, t.par[gr]) /\ t.level[a] <= level => Prec(u.list[t.par[gr]], a, x)
<1> DEFINE w == t.par[gr]
           o == Append(Without(t.order[w], {x}), x)
           u1 == [t EXCEPT !.level[x] = level, !.above[x] = NoItem, !.order[w] = o]
           y == Z(u1, w)
           z == Z(t, w)
           e == [t.level EXCEPT ![x] = level]
           f == [t.above EXCEPT ![x] = NoItem]
<1>1. t \in GroupStates /\ w \in Wins
  BY DEF Body, GroupStates
<1>2. Stacked(z) /\ z.list = t.list[w] /\ z.order = t.list[w] /\ z.level = t.level /\ z.above = t.above
      /\ t.order[w] = t.list[w] /\ t.list[w] \in Seq(Items) /\ IsInjective(t.list[w])
  <2>1. Stacked(z)
    BY <1>1 DEF Body, StackOK
  <2>2. z.list = t.list[w] /\ z.order = t.order[w] /\ z.level = t.level /\ z.above = t.above
    BY <1>1, ZFacts
  <2>3. t.list[w] \in Seq(Items)
    BY <1>1 DEF GroupStates
  <2> HIDE DEF z
  <2> QED BY <2>1, <2>2, <2>3 DEF Stacked
<1>3. \A v \in Wins : x \notin Range(t.list[v])
  BY DEF Body, StackOK, In
<1>4. Without(t.order[w], {x}) = t.list[w]
  <2>1. Range(t.list[w]) \cap {x} = {}
    BY <1>1, <1>3
  <2> QED BY <1>2, <2>1, WithoutNone
<1>5. o = Append(t.list[w], x) /\ o \in Seq(Items)
  <2>1. o = Append(t.list[w], x)
    BY <1>4
  <2>2. Append(t.list[w], x) \in Seq(Items)
    BY <1>2
  <2> QED BY <2>1, <2>2
<1>6. e \in [Items -> Nat] /\ f \in [Items -> Regs \cup {NoItem}] /\ f \in [Items -> Items \cup {NoItem}]
  BY <1>1 DEF GroupStates, Items
<1> HIDE DEF o
<1>7. /\ u1 \in GroupStates
      /\ u1.list = t.list /\ u1.order = [t.order EXCEPT ![w] = o] /\ u1.level = e /\ u1.above = f
      /\ u1.mgr = t.mgr /\ u1.managed = t.managed /\ u1.bottom = t.bottom /\ u1.current = t.current
      /\ u1.stdisp = t.stdisp /\ Aside(u1, t)
  <2>1. u1 \in GroupStates
    BY <1>1, <1>5 DEF GroupStates
  <2>2. u1.list = t.list /\ u1.order = [t.order EXCEPT ![w] = o] /\ u1.level = e /\ u1.above = f
    BY <1>1 DEF GroupStates
  <2>3. /\ u1.mgr = t.mgr /\ u1.managed = t.managed /\ u1.bottom = t.bottom /\ u1.current = t.current
        /\ u1.stdisp = t.stdisp
    BY <1>1 DEF GroupStates
  <2>4. Aside(u1, t)
    BY <1>1 DEF GroupStates, Aside
  <2> QED BY <2>1, <2>2, <2>3, <2>4
<1> HIDE DEF u1
<1>8. y = [list |-> t.list[w], order |-> Append(t.list[w], x), level |-> e, above |-> f]
  <2>1. u1.order[w] = o
    BY <1>1, <1>7 DEF GroupStates
  <2> QED BY <1>5, <1>7, <2>1 DEF Z
<1> HIDE DEF y, z, e, f
<1>9. \E l : /\ stacking_weave(y, <<x>>, FALSE) = With(y, l, l)
             /\ Stacked(With(y, l, l)) /\ Range(l) = Range(z.list) \cup {x}
             /\ \A a \in Range(z.list) : z.level[a] <= level => Prec(l, a, x)
  <2>1. x \notin Range(z.list)
    BY <1>1, <1>2, <1>3
  <2>2. y = [list |-> z.list, order |-> Append(z.list, x), level |-> [z.level EXCEPT ![x] = level],
             above |-> [z.above EXCEPT ![x] = NoItem]]
    BY <1>2, <1>8 DEF e, f
  <2> QED BY <1>2, <2>1, <2>2, AddStacked
<1>10. PICK l : /\ stacking_weave(y, <<x>>, FALSE) = With(y, l, l)
                /\ Stacked(With(y, l, l)) /\ Range(l) = Range(t.list[w]) \cup {x}
                /\ \A a \in Range(t.list[w]) : t.level[a] <= level => Prec(l, a, x)
  BY <1>2, <1>9
<1> DEFINE v == With(y, l, l)
           u2 == SetZ(u1, w, v)
           m == Append(t.managed[gr], x)
           u == [u2 EXCEPT !.managed[gr] = m, !.mgr[x] = gr]
<1>11. v = [list |-> l, order |-> l, level |-> e, above |-> f]
  BY <1>8 DEF With
<1>12. l \in Seq(Items)
  <2>1. v \in Stackings /\ v.list = l
    BY <1>10, <1>11 DEF Stacked
  <2> HIDE DEF v
  <2> QED BY <2>1 DEF Stackings
<1>13. v.list = l /\ v.order = l /\ v.above = f
  BY <1>11
<1> HIDE DEF v
<1>14. /\ u2 \in GroupStates
       /\ u2.list = [t.list EXCEPT ![w] = l] /\ u2.order = [u1.order EXCEPT ![w] = l]
       /\ u2.above = f /\ u2.level = e
       /\ u2.mgr = t.mgr /\ u2.managed = t.managed /\ u2.bottom = t.bottom /\ u2.current = t.current
       /\ u2.stdisp = t.stdisp /\ Aside(u2, t)
  <2>1. v.list \in Seq(Items) /\ v.order \in Seq(Items) /\ v.above \in [Items -> Regs \cup {NoItem}]
    BY <1>6, <1>12, <1>13 DEF f
  <2>2. /\ u2 \in GroupStates
        /\ u2.list = [u1.list EXCEPT ![w] = v.list] /\ u2.order = [u1.order EXCEPT ![w] = v.order]
        /\ u2.above = v.above /\ u2.level = u1.level
        /\ u2.mgr = u1.mgr /\ u2.managed = u1.managed /\ u2.bottom = u1.bottom /\ u2.current = u1.current
        /\ u2.stdisp = u1.stdisp /\ u2.par = u1.par /\ u2.shown = u1.shown
        /\ u2.ph = u1.ph /\ u2.phs = u1.phs /\ u2.detached = u1.detached
    BY <1>1, <1>7, <2>1, SetZFacts
  <2> HIDE DEF u2
  <2> QED BY <1>7, <1>13, <2>2 DEF Aside
<1> HIDE DEF u2
<1>15. m \in Seq(Items) /\ t.managed[gr] \in Seq(Items)
  BY <1>1 DEF GroupStates
<1>16. /\ u \in GroupStates
       /\ u.list = [t.list EXCEPT ![w] = l] /\ u.order = u2.order
       /\ u.above = f /\ u.level = e
       /\ u.mgr = [t.mgr EXCEPT ![x] = gr] /\ u.managed = [t.managed EXCEPT ![gr] = m]
       /\ u.bottom = t.bottom /\ u.current = t.current /\ u.stdisp = t.stdisp /\ Aside(u, t)
  <2> HIDE DEF m
  <2>1. u \in GroupStates
    BY <1>14, <1>15 DEF GroupStates
  <2>2. u.list = [t.list EXCEPT ![w] = l] /\ u.order = u2.order /\ u.above = f /\ u.level = e
    BY <1>14 DEF GroupStates
  <2>3. u.mgr = [t.mgr EXCEPT ![x] = gr] /\ u.managed = [t.managed EXCEPT ![gr] = m]
        /\ u.bottom = t.bottom /\ u.current = t.current /\ u.stdisp = t.stdisp
    BY <1>14 DEF GroupStates
  <2>4. Aside(u, t)
    BY <1>14 DEF GroupStates, Aside
  <2> QED BY <2>1, <2>2, <2>3, <2>4
<1>17. u = AddManaged(t, gr, x, level)
  <2>1. AddManaged(t, gr, x, level) =
          [SetZ(u1, w, stacking_weave(y, <<x>>, FALSE)) EXCEPT !.managed[gr] = Append(@, x), !.mgr[x] = gr]
    BY DEF AddManaged, u1, o, y
  <2>2. SetZ(u1, w, stacking_weave(y, <<x>>, FALSE)) = u2
    BY <1>10 DEF u2, v
  <2>3. [u2 EXCEPT !.managed[gr] = Append(@, x), !.mgr[x] = gr] = u
    BY <1>14
  <2> QED BY <2>1, <2>2, <2>3
<1> HIDE DEF u
<1>18. \A a \in Items : /\ u.mgr[a] = IF a = x THEN gr ELSE t.mgr[a]
                        /\ u.level[a] = IF a = x THEN level ELSE t.level[a]
                        /\ u.above[a] = IF a = x THEN NoItem ELSE t.above[a]
  BY <1>1, <1>16 DEF GroupStates, e, f
<1>19. u.par = t.par /\ \A h \in Groups : u.managed[h] = IF h = gr THEN m ELSE t.managed[h]
  BY <1>1, <1>16 DEF GroupStates, Aside
<1>20. ASSUME NEW a \in Items, NEW h \in Wins PROVE In(u, a, h) <=> In(t, a, h) \/ (a = x /\ h = w)
  BY <1>1, <1>18, <1>19 DEF In
<1>21. ASSUME NEW h \in Wins PROVE StackOK(u, h)
  <2>1. CASE h = w
    <3>1. u.list[w] = l /\ u.order[w] = l
      <4>1. DOMAIN t.list = Wins /\ DOMAIN u1.order = Wins
        BY <1>1, <1>7 DEF GroupStates
      <4> QED BY <1>1, <1>14, <1>16, <4>1
    <3>2. Z(u, w) = v
      BY <1>11, <1>16, <3>1 DEF Z
    <3>3. \A a \in Items : a \in Range(l) <=> In(u, a, w)
      BY <1>1, <1>10, <1>20 DEF Body, StackOK
    <3> QED BY <1>10, <2>1, <3>1, <3>2, <3>3 DEF StackOK, v
  <2>2. CASE h # w
    <3>1. u.list[h] = t.list[h] /\ u.order[h] = t.order[h]
      BY <1>1, <1>14, <1>16, <1>7, <2>2 DEF GroupStates
    <3>2. /\ Z(u, h) \in Stackings /\ Z(u, h).list = t.list[h] /\ Z(u, h).order = t.order[h]
          /\ Z(u, h).level = u.level /\ Z(u, h).above = u.above
      BY <1>16, <3>1, ZFacts
    <3>3. /\ Stacked(Z(t, h)) /\ Z(t, h).list = t.list[h] /\ Z(t, h).order = t.order[h]
          /\ Z(t, h).level = t.level /\ Z(t, h).above = t.above
      BY <1>1, ZFacts DEF Body, StackOK
    <3>4. t.order[h] = t.list[h]
      BY <3>3 DEF Stacked
    <3>5. \A a \in Range(t.list[h]) : u.level[a] = t.level[a] /\ u.above[a] = t.above[a]
      <4>1. \A a \in Range(t.list[h]) : a \in Items /\ a # x
        BY <1>1, <1>3 DEF GroupStates, Range
      <4> QED BY <1>18, <4>1
    <3>6. Stacked(Z(u, h))
      <4> DEFINE zt == Z(t, h)
                 zu == Z(u, h)
      <4>1. /\ Stacked(zt) /\ zu \in Stackings /\ zu.list = zt.list /\ zu.order = zt.list
            /\ \A a \in Range(zt.list) : zu.level[a] = zt.level[a] /\ zu.above[a] = zt.above[a]
        BY <3>2, <3>3, <3>4, <3>5
      <4> HIDE DEF zt, zu
      <4>2. Stacked(zu)
        BY <4>1, StackedSame
      <4> QED BY <4>2 DEF zu
    <3>7. \A a \in Items : a \in Range(t.list[h]) <=> In(t, a, h)
      BY DEF Body, StackOK
    <3> QED BY <1>20, <2>2, <3>1, <3>6, <3>7 DEF StackOK
  <2> QED BY <2>1, <2>2
<1>22. ASSUME NEW h \in Groups PROVE ListOK(u, h) /\ RefsOK(u, h)
  <2>1. /\ IsInjective(t.managed[h]) /\ \A a \in Items : a \in Range(t.managed[h]) <=> t.mgr[a] = h
        /\ t.par[h] = NoItem => t.managed[h] = <<>>
    BY DEF Body, ListOK
  <2>2. RefsOK(u, h)
    <3>1. u.bottom[h] = t.bottom[h] /\ u.current[h] = t.current[h]
          /\ t.bottom[h] \in Regs \cup {NoItem} /\ t.current[h] \in Regs \cup {NoItem}
      BY <1>1, <1>16 DEF GroupStates
    <3>2. RefsOK(t, h)
      BY DEF Body
    <3> QED BY <1>18, <3>1, <3>2 DEF RefsOK, Items
  <2>3. CASE h # gr
    <3>1. u.managed[h] = t.managed[h]
      BY <1>19, <2>3
    <3>2. \A a \in Items : u.mgr[a] = h <=> t.mgr[a] = h
      BY <1>18, <2>3
    <3> QED BY <1>19, <2>1, <2>2, <3>1, <3>2 DEF ListOK
  <2>4. CASE h = gr
    <3>1. x \notin Range(t.managed[gr])
      BY <2>1, <2>4
    <3>2. Range(m) = Range(t.managed[gr]) \cup {x} /\ IsInjective(m)
      BY <1>15, <2>1, <2>4, <3>1, AppendOrder
    <3>3. u.managed[gr] = m
      BY <1>19
    <3> HIDE DEF m
    <3> QED BY <1>18, <1>19, <2>1, <2>2, <2>4, <3>2, <3>3 DEF ListOK
  <2> QED BY <2>3, <2>4
<1>23. ASSUME NEW r \in Regs PROVE RegOK(u, r)
  <2>1. RegOK(t, r) /\ r \in Items
    BY DEF Body, Items
  <2>2. t.above[r] \in Regs \cup {NoItem}
    BY <1>1, <2>1 DEF GroupStates
  <2> QED BY <1>18, <2>1, <2>2 DEF RegOK, Items
<1>24. u.above[STDisp] = NoItem
  <2>1. STDisp \in Items /\ t.above[STDisp] = NoItem
    BY DEF Body, Items
  <2> QED BY <1>18, <2>1
<1>25. Body(u)
  BY <1>16, <1>21, <1>22, <1>23, <1>24 DEF Body
<1>26. ASSUME NEW a \in Items, In(t, a, w), t.level[a] <= level PROVE Prec(u.list[w], a, x)
  <2>1. a \in Range(t.list[w])
    BY <1>1, <1>26 DEF Body, StackOK
  <2>2. u.list[w] = l
    BY <1>1, <1>16 DEF GroupStates
  <2> QED BY <1>10, <1>26, <2>1, <2>2
<1> QED BY <1>16, <1>17, <1>25, <1>26 DEF e, f
\* A stacking stays as it is when what is in it does.
LEMMA StackElsewhere ==
  ASSUME NEW t, Body(t), NEW u \in GroupStates, NEW h \in Wins,
         u.list[h] = t.list[h], u.order[h] = t.order[h],
         \A a \in Items : In(u, a, h) <=> In(t, a, h),
         \A a \in Items : In(t, a, h) => u.level[a] = t.level[a] /\ u.above[a] = t.above[a]
  PROVE  StackOK(u, h)
<1>1. t \in GroupStates /\ \A a \in Items : a \in Range(t.list[h]) <=> In(t, a, h)
  BY DEF Body, StackOK
<1>2. /\ Z(u, h) \in Stackings /\ Z(u, h).list = t.list[h] /\ Z(u, h).order = t.order[h]
      /\ Z(u, h).level = u.level /\ Z(u, h).above = u.above
  BY ZFacts
<1>3. /\ Stacked(Z(t, h)) /\ Z(t, h).list = t.list[h] /\ Z(t, h).order = t.order[h]
      /\ Z(t, h).level = t.level /\ Z(t, h).above = t.above
  BY <1>1, ZFacts DEF Body, StackOK
<1>4. t.order[h] = t.list[h]
  BY <1>3 DEF Stacked
<1>5. \A a \in Range(t.list[h]) : u.level[a] = t.level[a] /\ u.above[a] = t.above[a]
  <2>1. \A a \in Range(t.list[h]) : a \in Items
    BY <1>1 DEF GroupStates, Range
  <2> QED BY <1>1, <2>1
<1> DEFINE zt == Z(t, h)
           zu == Z(u, h)
<1>6. /\ Stacked(zt) /\ zu \in Stackings /\ zu.list = zt.list /\ zu.order = zt.list
      /\ \A a \in Range(zt.list) : zu.level[a] = zt.level[a] /\ zu.above[a] = zt.above[a]
  BY <1>2, <1>3, <1>4, <1>5
<1> HIDE DEF zt, zu
<1>7. Stacked(zu)
  BY <1>6, StackedSame
<1> QED BY <1>1, <1>7 DEF StackOK, zu

\* The state u is t without x in its group
Left(u, t, x) ==
  LET gr == t.mgr[x]
      w == t.par[gr]
  IN /\ u \in GroupStates /\ u.level = t.level /\ u.mgr = [t.mgr EXCEPT ![x] = NoItem] /\ Aside(u, t)
     /\ u.list = [t.list EXCEPT ![w] = Without(t.list[w], {x})]
     /\ u.order = [t.order EXCEPT ![w] = Without(t.order[w], {x})]
     /\ u.managed = [t.managed EXCEPT ![gr] = Without(t.managed[gr], {x})]
     /\ \A a \in Items : u.above[a] = IF t.above[a] = x /\ a \in Range(t.list[w]) \ {x} THEN NoItem
                                      ELSE t.above[a]

\* The group and the window of what a group manages.
LEMMA GroupOf ==
  ASSUME NEW t, Body(t), NEW x \in Items, t.mgr[x] \in Groups
  PROVE  /\ t.par[t.mgr[x]] \in Wins /\ In(t, x, t.par[t.mgr[x]])
         /\ x \in Range(t.list[t.par[t.mgr[x]]]) /\ x \in Range(t.managed[t.mgr[x]])
<1> DEFINE gr == t.mgr[x]
<1>1. t \in GroupStates /\ ListOK(t, gr)
  BY DEF Body
<1>2. x \in Range(t.managed[gr])
  BY <1>1 DEF ListOK
<1>3. t.par[gr] # NoItem
  <2>1. Range(<<>>) = {}
    BY DEF Range
  <2> QED BY <1>1, <1>2, <2>1 DEF ListOK
<1>4. t.par[gr] \in Wins
  BY <1>1, <1>3 DEF GroupStates
<1>5. In(t, x, t.par[gr])
  BY DEF In
<1>6. StackOK(t, t.par[gr])
  BY <1>4 DEF Body
<1> QED BY <1>2, <1>4, <1>5, <1>6 DEF StackOK

\* Without x what is left is in order.
LEMMA LeftFacts ==
  ASSUME NEW t, Body(t), NEW x \in Items, t.mgr[x] \in Groups, NEW u, Left(u, t, x)
  PROVE  /\ u \in GroupStates /\ Aside(u, t) /\ u.above[STDisp] = NoItem
         /\ \A w \in Wins : StackOK(u, w)
         /\ \A gr \in Groups : ListOK(u, gr)
         /\ \A r \in Regs : RegOK(u, r)
         /\ \A a \in Items : u.mgr[a] = IF a = x THEN NoItem ELSE t.mgr[a]
         /\ \A a \in Items : In(u, a, t.par[t.mgr[x]]) <=> In(t, a, t.par[t.mgr[x]]) /\ a # x
<1> DEFINE gr == t.mgr[x]
           w == t.par[gr]
           l == Without(t.list[w], {x})
           o == Without(t.order[w], {x})
           m == Without(t.managed[gr], {x})
<1>1. t \in GroupStates /\ u \in GroupStates /\ w \in Wins /\ gr \in Groups /\ Aside(u, t) /\ u.level = t.level
  BY GroupOf DEF Body, Left
<1>2. /\ \A a \in Items : u.mgr[a] = IF a = x THEN NoItem ELSE t.mgr[a]
      /\ \A a \in Items : u.above[a] = IF t.above[a] = x /\ a \in Range(t.list[w]) \ {x} THEN NoItem
                                       ELSE t.above[a]
  BY <1>1 DEF Left, GroupStates
<1>3. /\ \A h \in Wins : u.list[h] = (IF h = w THEN l ELSE t.list[h])
      /\ \A h \in Wins : u.order[h] = (IF h = w THEN o ELSE t.order[h])
  BY <1>1 DEF Left, GroupStates
<1>4. \A h \in Groups : u.managed[h] = IF h = gr THEN m ELSE t.managed[h]
  BY <1>1 DEF Left, GroupStates
<1>5. u.par = t.par
  BY <1>1 DEF Aside
<1>6. NoItem \notin Groups
  BY GroupsAssumption
<1>7. ASSUME NEW a \in Items, NEW h \in Wins PROVE In(u, a, h) <=> In(t, a, h) /\ a # x
  BY <1>2, <1>5, <1>6 DEF In
<1>8. StackOK(t, w) /\ \A a \in Items : a \in Range(t.list[w]) <=> In(t, a, w)
  BY <1>1 DEF Body, StackOK
<1> HIDE DEF l, o, m, w, gr
<1>9. ASSUME NEW h \in Wins PROVE StackOK(u, h)
  <2>1. CASE h = w
    <3> DEFINE z == Z(t, w)
               y == Z(u, w)
               f == u.above
    <3>1. Stacked(z) /\ z.list = t.list[w] /\ z.order = t.order[w] /\ z.level = t.level /\ z.above = t.above
      BY <1>1, <1>8, ZFacts DEF StackOK
    <3>2. y = [list |-> l, order |-> o, level |-> t.level, above |-> f]
      BY <1>1, <1>3 DEF Z
    <3>3. f \in [Items -> Items \cup {NoItem}]
      BY <1>1 DEF GroupStates, Items
    <3>4. \A a \in Range(t.list[w]) : a \in Items
      BY <1>1 DEF GroupStates, Range
    <3>5. \A a \in Range(z.list) \ {x} : f[a] = IF z.above[a] \in {x} THEN NoItem ELSE z.above[a]
      BY <1>2, <3>1, <3>4
    <3> HIDE DEF z, y, f
    <3>6. y = [list |-> Without(z.list, {x}), order |-> Without(z.order, {x}), level |-> z.level, above |-> f]
      BY <3>1, <3>2 DEF l, o
    <3>7. Stacked(y) /\ Range(y.list) = Range(z.list) \ {x}
      <4> DEFINE A == {x}
      <4>1. \A a \in Range(z.list) \ A : f[a] = IF z.above[a] \in A THEN NoItem ELSE z.above[a]
        BY <3>5
      <4>2. y = [list |-> Without(z.list, A), order |-> Without(z.order, A), level |-> z.level, above |-> f]
        BY <3>6
      <4> HIDE DEF A
      <4>3. Stacked(y) /\ Range(y.list) = Range(z.list) \ A
        BY <3>1, <3>3, <4>1, <4>2, LessStacked
      <4> QED BY <4>3 DEF A
    <3>8. y.list = l
      BY <3>2
    <3>9. \A a \in Items : a \in Range(l) <=> In(u, a, w)
      BY <1>1, <1>7, <1>8, <3>1, <3>7, <3>8
    <3> QED BY <1>1, <1>3, <2>1, <3>7, <3>9 DEF StackOK, y
  <2>2. CASE h # w
    <3>1. u.list[h] = t.list[h] /\ u.order[h] = t.order[h]
      BY <1>3, <2>2
    <3>2. \A a \in Items : In(t, a, h) => ~In(t, a, w)
      BY <2>2 DEF In
    <3>3. \A a \in Items : In(t, a, h) => u.level[a] = t.level[a] /\ u.above[a] = t.above[a]
      BY <1>1, <1>2, <1>8, <3>2
    <3>4. In(t, x, w)
      BY GroupOf DEF w, gr
    <3>5. \A a \in Items : In(u, a, h) <=> In(t, a, h)
      BY <1>7, <3>2, <3>4
    <3> QED BY <1>1, <3>1, <3>3, <3>5, StackElsewhere
  <2> QED BY <2>1, <2>2
<1>10. ASSUME NEW h \in Groups PROVE ListOK(u, h)
  <2>1. /\ IsInjective(t.managed[h]) /\ \A a \in Items : a \in Range(t.managed[h]) <=> t.mgr[a] = h
        /\ t.par[h] = NoItem => t.managed[h] = <<>>
    BY DEF Body, ListOK
  <2>2. CASE h # gr
    <3>1. \A a \in Items : u.mgr[a] = h <=> t.mgr[a] = h
      BY <1>2, <1>6, <2>2 DEF gr
    <3> QED BY <1>4, <1>5, <2>1, <2>2, <3>1 DEF ListOK
  <2>3. CASE h = gr
    <3>1. t.managed[gr] \in Seq(Items)
      BY <1>1 DEF GroupStates
    <3>2. Range(m) = Range(t.managed[gr]) \ {x} /\ IsInjective(m)
      BY <2>1, <2>3, <3>1, WithoutFacts DEF m
    <3>3. \A a \in Items : a \in Range(m) <=> u.mgr[a] = gr
      BY <1>2, <1>6, <2>1, <2>3, <3>2
    <3>4. u.par[gr] # NoItem
      BY <1>1, <1>5, GroupsAssumption DEF w
    <3> QED BY <1>4, <2>3, <3>2, <3>3, <3>4 DEF ListOK
  <2> QED BY <2>2, <2>3
<1>11. ASSUME NEW r \in Regs PROVE RegOK(u, r)
  <2>1. RegOK(t, r) /\ r \in Items
    BY DEF Body, Items
  <2>2. t.above[r] \in Regs \cup {NoItem} /\ (t.above[r] # NoItem => t.above[r] \in Items)
    BY <1>1, <2>1 DEF GroupStates, Items
  <2>3. u.mgr[r] \in Groups \cup {NoItem}
    BY <1>2, <2>1 DEF RegOK
  <2>4. SUFFICES ASSUME u.mgr[r] \in Groups, u.above[r] # NoItem PROVE u.mgr[u.above[r]] = u.mgr[r]
    BY <2>3 DEF RegOK
  <2>5. r # x /\ u.mgr[r] = t.mgr[r] /\ u.above[r] = t.above[r]
    BY <1>2, <1>6, <2>1, <2>4
  <2>6. t.mgr[t.above[r]] = t.mgr[r]
    BY <2>1, <2>4, <2>5 DEF RegOK
  <2>7. t.above[r] # x
    <3>1. SUFFICES ASSUME t.above[r] = x PROVE FALSE
      OBVIOUS
    <3>2. In(t, r, w)
      BY <1>1, <2>6, <3>1 DEF In, w, gr
    <3> QED BY <1>2, <1>8, <2>1, <2>4, <2>5, <3>1, <3>2
  <2> QED BY <1>2, <2>2, <2>4, <2>5, <2>6, <2>7
<1>12. u.above[STDisp] = NoItem
  <2>1. STDisp \in Items /\ t.above[STDisp] = NoItem
    BY DEF Body, Items
  <2> QED BY <1>2, <2>1
<1> QED BY <1>1, <1>2, <1>7, <1>9, <1>10, <1>11, <1>12 DEF w, gr

LEMMA RangeIn ==
  ASSUME NEW S, NEW l \in Seq(S)
  PROVE  \A a \in Range(l) : a \in S
BY DEF Range

\* The state v is t without x in the stacking
Unstacked(v, t, x) ==
  LET w == t.par[t.mgr[x]]
  IN /\ v \in GroupStates /\ Aside(v, t)
     /\ v.list = [t.list EXCEPT ![w] = Without(t.list[w], {x})] /\ v.order = t.order
     /\ v.level = t.level /\ v.mgr = t.mgr /\ v.managed = t.managed
     /\ v.bottom = t.bottom /\ v.current = t.current /\ v.stdisp = t.stdisp
     /\ \A a \in Items : v.above[a] = IF t.above[a] = x /\ a \in Range(t.list[w]) \ {x} THEN NoItem
                                      ELSE t.above[a]

\* A region is taken off the stacking of its window; what is to be focused next is in the
\* same group.
LEMMA UnstackedFacts ==
  ASSUME NEW t, Body(t), NEW x \in Items, t.mgr[x] \in Groups
  PROVE  LET w == t.par[t.mgr[x]]
             un == stacking_unstack(Z(t, w), x)
             v == SetZ(t, w, un.z)
         IN /\ Unstacked(v, t, x)
            /\ un.next # NoItem => un.next \in Regs /\ un.next # x /\ t.mgr[un.next] = t.mgr[x]
<1> DEFINE gr == t.mgr[x]
           w == t.par[gr]
           z == Z(t, w)
           un == stacking_unstack(z, x)
           uz == un.z
           v == SetZ(t, w, uz)
           l == Without(t.list[w], {x})
<1>1. t \in GroupStates /\ w \in Wins /\ gr \in Groups /\ x \in Range(t.list[w])
  BY GroupOf DEF Body
<1>2. /\ Stacked(z) /\ z.list = t.list[w] /\ z.order = t.order[w] /\ z.level = t.level /\ z.above = t.above
      /\ \A a \in Items : a \in Range(t.list[w]) <=> In(t, a, w)
  BY <1>1, ZFacts DEF Body, StackOK
<1> HIDE DEF z
<1>3. /\ uz.list = Without(z.list, {x}) /\ uz.order = z.order /\ uz.level = z.level
      /\ uz.above \in [Items -> Items \cup {NoItem}]
      /\ \A y \in Items : uz.above[y] = IF z.above[y] = x /\ y \in Range(z.list) \ {x} THEN NoItem
                                        ELSE z.above[y]
      /\ un.next = z.above[x] \/ (un.next \in Range(z.list) /\ z.above[un.next] = x)
  <2>1. x \in Range(z.list)
    BY <1>1, <1>2
  <2> HIDE DEF un
  <2> QED BY <1>2, <2>1, UnstackFacts DEF un
<1> HIDE DEF uz, un
<1>4. uz.above \in [Items -> Regs \cup {NoItem}]
  <2>1. t.above \in [Items -> Regs \cup {NoItem}]
    BY <1>1 DEF GroupStates
  <2>2. \A y \in Items : uz.above[y] \in Regs \cup {NoItem}
    BY <1>2, <1>3, <2>1
  <2> QED BY <1>3, <2>2
<1>5. uz.list = l /\ l \in Seq(Items) /\ uz.order = t.order[w] /\ t.order[w] \in Seq(Items)
  <2>1. t.list[w] \in Seq(Items) /\ t.order[w] \in Seq(Items)
    BY <1>1 DEF GroupStates
  <2>2. l \in Seq(Items)
    BY <2>1, WithoutFacts
  <2> QED BY <1>2, <1>3, <2>1, <2>2
<1> HIDE DEF l
<1>6. /\ v \in GroupStates
      /\ v.list = [t.list EXCEPT ![w] = l] /\ v.order = [t.order EXCEPT ![w] = t.order[w]]
      /\ v.above = uz.above /\ v.level = t.level
      /\ v.mgr = t.mgr /\ v.managed = t.managed /\ v.bottom = t.bottom /\ v.current = t.current
      /\ v.stdisp = t.stdisp /\ v.par = t.par /\ v.shown = t.shown
      /\ v.ph = t.ph /\ v.phs = t.phs /\ v.detached = t.detached
  <2> HIDE DEF v, w
  <2>1. uz.list \in Seq(Items) /\ uz.order \in Seq(Items)
    BY <1>5
  <2> QED BY <1>1, <1>4, <1>5, <2>1, SetZFacts DEF v
<1>7. v.order = t.order
  <2>1. DOMAIN t.order = Wins
    BY <1>1 DEF GroupStates
  <2>2. [t.order EXCEPT ![w] = t.order[w]] = t.order
    BY <1>1, <2>1 DEF GroupStates
  <2> HIDE DEF v, w
  <2> QED BY <1>6, <2>2
<1>8. \A a \in Items : v.above[a] = IF t.above[a] = x /\ a \in Range(t.list[w]) \ {x} THEN NoItem
                                    ELSE t.above[a]
  <2> HIDE DEF v
  <2> QED BY <1>2, <1>3, <1>6
<1>9. ASSUME un.next # NoItem
      PROVE  un.next \in Regs /\ un.next # x /\ t.mgr[un.next] = gr
  <2> DEFINE n == un.next
  <2>1. /\ \A y \in Range(t.list[w]) : t.above[y] # NoItem => Prec(t.list[w], t.above[y], y)
        /\ t.list[w] \in Seq(Items) /\ IsInjective(t.list[w])
    <3>1. t.list[w] \in Seq(Items)
      BY <1>1 DEF GroupStates
    <3> QED BY <1>2, <3>1 DEF Stacked
  <2>2. t.above[x] # x /\ x # NoItem
    <3>1. x # NoItem
      BY GroupsAssumption
    <3> QED BY <1>1, <2>1, <3>1, PrecFacts
  <2>3. t.above \in [Items -> Regs \cup {NoItem}] /\ t.above[STDisp] = NoItem /\ Items = Regs \cup {STDisp}
    BY <1>1 DEF Body, GroupStates, Items
  <2>4. CASE n = t.above[x]
    <3>1. n \in Regs /\ x # STDisp
      BY <1>9, <2>3, <2>4
    <3>2. RegOK(t, x)
      BY <2>3, <3>1 DEF Body
    <3> QED BY <1>1, <1>9, <2>2, <2>4, <3>1, <3>2 DEF RegOK
  <2>5. CASE n \in Range(t.list[w]) /\ t.above[n] = x
    <3>1. n \in Items
      BY <2>1, <2>5, RangeIn
    <3>2. n \in Regs /\ n # x
      BY <2>2, <2>3, <2>5, <3>1
    <3>3. t.mgr[n] \in Groups
      BY <1>2, <2>5, <3>1 DEF In
    <3>4. RegOK(t, n)
      BY <3>2 DEF Body
    <3> QED BY <2>2, <2>5, <3>2, <3>3, <3>4 DEF RegOK
  <2> QED BY <1>2, <1>3, <2>4, <2>5
<1>10. Aside(v, t)
  BY <1>6 DEF Aside
<1>11. Unstacked(v, t, x)
  <2> HIDE DEF v
  <2> QED BY <1>6, <1>7, <1>8, <1>10 DEF Unstacked, l
<1> QED BY <1>9, <1>11 DEF un, uz, z

\* The status display leaves its manager.
LEMMA DropFacts ==
  ASSUME NEW t, Core(t)
  PROVE  LET u == DropSTDisp(t)
         IN /\ Core(u) /\ Aside(u, t) /\ u.mgr = [t.mgr EXCEPT ![STDisp] = NoItem]
            /\ u.bottom = t.bottom /\ u.current = t.current /\ u.level = t.level /\ u.above = t.above
            /\ \A gr \in Groups : u.stdisp[gr] = NoItem
<1> DEFINE u == DropSTDisp(t)
           x == STDisp
<1>1. t \in GroupStates /\ Body(t) /\ STDispOK(t) /\ x \in Items /\ STDisp \notin Regs /\ NoItem \notin Groups
      /\ Items = Regs \cup {STDisp} /\ NoItem \notin Items
  BY GroupsAssumption DEF Core, Body, Items
<1>2. CASE t.mgr[x] \in Groups
  <2> DEFINE gr == t.mgr[x]
             w == t.par[gr]
             un == stacking_unstack(Z(t, w), x)
             v == SetZ(t, w, un.z)
             m == Without(t.managed[gr], {x})
             o == Without(t.order[w], {x})
  <2>1. /\ v \in GroupStates /\ Aside(v, t)
        /\ v.list = [t.list EXCEPT ![w] = Without(t.list[w], {x})] /\ v.order = t.order
        /\ v.level = t.level /\ v.mgr = t.mgr /\ v.managed = t.managed
        /\ v.bottom = t.bottom /\ v.current = t.current /\ v.stdisp = t.stdisp
        /\ \A a \in Items : v.above[a] = IF t.above[a] = x /\ a \in Range(t.list[w]) \ {x} THEN NoItem
                                         ELSE t.above[a]
    <3>1. Unstacked(v, t, x)
      BY <1>1, <1>2, UnstackedFacts
    <3> HIDE DEF v
    <3> QED BY <3>1 DEF Unstacked
  <2>2. gr \in Groups /\ w \in Wins /\ m \in Seq(Items) /\ o \in Seq(Items)
    <3>1. gr \in Groups /\ w \in Wins
      BY <1>1, <1>2, GroupOf
    <3>2. t.managed[gr] \in Seq(Items) /\ t.order[w] \in Seq(Items)
      BY <1>1, <3>1 DEF GroupStates
    <3> QED BY <3>1, <3>2, WithoutFacts
  <2>3. u = [v EXCEPT !.managed[gr] = Without(@, {x}), !.stdisp[gr] = NoItem,
                      !.mgr[x] = NoItem, !.order[w] = Without(@, {x})]
    BY <1>2 DEF DropSTDisp
  <2> HIDE DEF v, u
  <2>4. v.managed[gr] = t.managed[gr] /\ v.order[w] = t.order[w]
    BY <2>1
  <2> HIDE DEF m, o
  <2>5. u = [v EXCEPT !.managed[gr] = m, !.stdisp[gr] = NoItem, !.mgr[x] = NoItem, !.order[w] = o]
    <3>1. u = [v EXCEPT !.managed[gr] = Without(v.managed[gr], {x}), !.stdisp[gr] = NoItem,
                        !.mgr[x] = NoItem, !.order[w] = Without(v.order[w], {x})]
      BY <2>3
    <3>2. Without(v.managed[gr], {x}) = m /\ Without(v.order[w], {x}) = o
      BY <2>4 DEF m, o
    <3> QED BY <3>1, <3>2
  <2> HIDE DEF w, gr
  <2>6. u \in GroupStates
    BY <1>1, <2>1, <2>2, <2>5 DEF GroupStates
  <2>7. /\ u.managed = [t.managed EXCEPT ![gr] = m] /\ u.order = [t.order EXCEPT ![w] = o]
        /\ u.mgr = [t.mgr EXCEPT ![x] = NoItem] /\ u.stdisp = [t.stdisp EXCEPT ![gr] = NoItem]
    BY <1>1, <2>1, <2>2, <2>5 DEF GroupStates
  <2>8. /\ u.list = v.list /\ u.level = t.level /\ u.above = v.above /\ u.bottom = t.bottom
        /\ u.current = t.current
    BY <2>1, <2>5 DEF GroupStates
  <2>9. Aside(u, t)
    BY <2>1, <2>5 DEF GroupStates, Aside
  <2>10. Left(u, t, x)
    BY <2>1, <2>6, <2>7, <2>8, <2>9 DEF Left, gr, w, m, o
  <2>11. /\ u.above[STDisp] = NoItem
         /\ \A h \in Wins : StackOK(u, h)
         /\ \A h \in Groups : ListOK(u, h)
         /\ \A r \in Regs : RegOK(u, r)
         /\ \A a \in Items : u.mgr[a] = IF a = x THEN NoItem ELSE t.mgr[a]
    BY <1>1, <1>2, <2>10, LeftFacts
  <2>12. u.above = t.above
    <3>1. \A a \in Items : t.above[a] # x
      BY <1>1 DEF GroupStates
    <3>2. \A a \in Items : u.above[a] = t.above[a]
      BY <2>1, <2>8, <3>1
    <3>3. u.above \in [Items -> Regs \cup {NoItem}] /\ t.above \in [Items -> Regs \cup {NoItem}]
      BY <1>1, <2>6 DEF GroupStates
    <3> QED BY <3>2, <3>3
  <2>13. ASSUME NEW h \in Groups PROVE RefsOK(u, h) /\ u.stdisp[h] = NoItem
    <3>1. RefsOK(t, h) /\ t.bottom[h] \in Regs \cup {NoItem} /\ t.current[h] \in Regs \cup {NoItem}
      BY <1>1 DEF Body, GroupStates
    <3>2. RefsOK(u, h)
      BY <1>1, <2>8, <2>11, <3>1 DEF RefsOK
    <3>3. t.stdisp[h] = STDisp <=> h = gr
      BY <1>1 DEF STDispOK, gr
    <3>4. t.stdisp \in [Groups -> {STDisp, NoItem}]
      BY <1>1 DEF GroupStates
    <3> QED BY <2>2, <2>7, <3>2, <3>3, <3>4
  <2>14. Body(u)
    BY <2>6, <2>11, <2>13 DEF Body
  <2>15. STDispOK(u)
    BY <1>1, <2>11, <2>13 DEF STDispOK
  <2> QED BY <2>7, <2>8, <2>9, <2>12, <2>13, <2>14, <2>15 DEF Core, u
<1>3. CASE t.mgr[x] \notin Groups
  <2>1. u = [t EXCEPT !.mgr[x] = NoItem]
    BY <1>3 DEF DropSTDisp
  <2> HIDE DEF u
  <2>2. /\ u \in GroupStates /\ u.mgr = [t.mgr EXCEPT ![x] = NoItem]
        /\ u.list = t.list /\ u.order = t.order /\ u.managed = t.managed /\ u.stdisp = t.stdisp
    BY <1>1, <2>1 DEF GroupStates
  <2>3. /\ u.level = t.level /\ u.above = t.above /\ u.bottom = t.bottom /\ u.current = t.current
    BY <1>1, <2>1 DEF GroupStates
  <2>4. Aside(u, t)
    BY <1>1, <2>1 DEF GroupStates, Aside
  <2>5. \A a \in Items : u.mgr[a] = IF a = x THEN NoItem ELSE t.mgr[a]
    BY <1>1, <2>2 DEF GroupStates
  <2>6. \A h \in Groups : t.stdisp[h] = NoItem
    BY <1>1, <1>3 DEF STDispOK, GroupStates
  <2>7. \A a \in Items, h \in Wins : In(u, a, h) <=> In(t, a, h)
    BY <1>1, <1>3, <2>4, <2>5 DEF In, Aside
  <2>8. \A h \in Wins : StackOK(u, h)
    BY <1>1, <2>2, <2>3, <2>7, StackElsewhere
  <2>9. ASSUME NEW h \in Groups PROVE ListOK(u, h) /\ RefsOK(u, h)
    <3>1. ListOK(t, h) /\ RefsOK(t, h) /\ t.bottom[h] \in Regs \cup {NoItem} /\ t.current[h] \in Regs \cup {NoItem}
      BY <1>1 DEF Body, GroupStates
    <3>2. \A a \in Items : u.mgr[a] = h <=> t.mgr[a] = h
      BY <1>1, <1>3, <2>5
    <3> QED BY <1>1, <2>2, <2>3, <2>4, <2>5, <3>1, <3>2 DEF ListOK, RefsOK, Aside
  <2>10. ASSUME NEW r \in Regs PROVE RegOK(u, r)
    <3>1. RegOK(t, r) /\ r \in Items /\ t.above[r] \in Regs \cup {NoItem}
      BY <1>1 DEF Body, GroupStates
    <3> QED BY <1>1, <2>3, <2>5, <3>1 DEF RegOK
  <2>11. Body(u)
    BY <1>1, <2>2, <2>3, <2>8, <2>9, <2>10 DEF Body
  <2>12. STDispOK(u)
    BY <1>1, <2>2, <2>5, <2>6 DEF STDispOK
  <2> QED BY <2>2, <2>3, <2>4, <2>6, <2>11, <2>12 DEF Core, u
<1> QED BY <1>2, <1>3

\* Only the status display changes; the bottom of a group may
Regular(u, t) ==
  /\ Aside(u, t) /\ u.current = t.current
  /\ \A r \in Regs : u.mgr[r] = t.mgr[r] /\ u.level[r] = t.level[r] /\ u.above[r] = t.above[r]

\* A group manages the status display, or the tiling at its bottom.
LEMMA ManageFacts ==
  ASSUME NEW t, Core(t), NEW gr \in Groups, t.par[gr] # NoItem
  PROVE  LET u == group_manage_stdisp(t, gr)
         IN /\ Core(u) /\ Regular(u, t) /\ u.bottom = t.bottom
            /\ u.mgr[STDisp] = IF t.bottom[gr] \in Tilings THEN t.bottom[gr] ELSE gr
<1> DEFINE d == DropSTDisp(t)
           u == group_manage_stdisp(t, gr)
           x == STDisp
<1>1. /\ t \in GroupStates /\ Body(t) /\ STDispOK(t) /\ x \in Items /\ STDisp \notin Regs /\ NoItem \notin Groups
      /\ Items = Regs \cup {STDisp} /\ NoItem \notin Items /\ Items \cap Groups = {} /\ Tilings \subseteq Regs
      /\ ON_TOP \in Nat
  BY GroupsAssumption DEF Core, Body, Items
<1>2. /\ Core(d) /\ Aside(d, t) /\ d.mgr = [t.mgr EXCEPT ![x] = NoItem]
      /\ d.bottom = t.bottom /\ d.current = t.current /\ d.level = t.level /\ d.above = t.above
      /\ \A h \in Groups : d.stdisp[h] = NoItem
  BY DropFacts
<1>3. d \in GroupStates /\ Body(d) /\ d.mgr[x] = NoItem /\ \A r \in Regs : d.mgr[r] = t.mgr[r]
  BY <1>1, <1>2 DEF GroupStates, Core, Body
<1> HIDE DEF d, u
<1>4. CASE t.bottom[gr] \in Tilings
  <2> DEFINE b == t.bottom[gr]
  <2>1. u = [d EXCEPT !.mgr[x] = b]
    BY <1>4 DEF u, d, group_manage_stdisp
  <2>2. b \in Tilings /\ b \in Regs
    BY <1>1, <1>4
  <2> HIDE DEF b
  <2>3. /\ u \in GroupStates /\ u.mgr = [d.mgr EXCEPT ![x] = b]
        /\ u.list = d.list /\ u.order = d.order /\ u.managed = d.managed /\ u.stdisp = d.stdisp
    <3>1. d \in GroupStates /\ x \in Items /\ b \in Groups \cup Regs \cup {NoItem}
      BY <1>1, <1>3, <2>2
    <3> HIDE DEF x
    <3>2. u \in GroupStates
      BY <2>1, <3>1 DEF GroupStates
    <3>3. /\ u.mgr = [d.mgr EXCEPT ![x] = b] /\ u.list = d.list /\ u.order = d.order
          /\ u.managed = d.managed /\ u.stdisp = d.stdisp
      BY <2>1, <3>1 DEF GroupStates
    <3> QED BY <3>2, <3>3
  <2>4. /\ u.level = d.level /\ u.above = d.above /\ u.bottom = d.bottom /\ u.current = d.current
    BY <1>3, <2>1 DEF GroupStates
  <2>5. Aside(u, d)
    BY <1>3, <2>1 DEF GroupStates, Aside
  <2>6. \A a \in Items : u.mgr[a] = IF a = x THEN b ELSE d.mgr[a]
    BY <1>3, <2>3 DEF GroupStates
  <2>7. b \notin Groups /\ b # NoItem
    BY <1>1, <2>2
  <2>8. \A a \in Items, h \in Wins : In(u, a, h) <=> In(d, a, h)
    BY <1>1, <1>3, <2>5, <2>6, <2>7 DEF In, Aside
  <2>9. \A h \in Wins : StackOK(u, h)
    BY <1>3, <2>3, <2>4, <2>8, StackElsewhere
  <2>10. ASSUME NEW h \in Groups PROVE ListOK(u, h) /\ RefsOK(u, h)
    <3>1. ListOK(d, h) /\ RefsOK(d, h) /\ d.bottom[h] \in Regs \cup {NoItem} /\ d.current[h] \in Regs \cup {NoItem}
      BY <1>3 DEF Body, GroupStates
    <3>2. \A a \in Items : u.mgr[a] = h <=> d.mgr[a] = h
      BY <1>1, <1>3, <2>6, <2>7
    <3> QED BY <1>1, <2>3, <2>4, <2>5, <2>6, <3>1, <3>2 DEF ListOK, RefsOK, Aside
  <2>11. ASSUME NEW r \in Regs PROVE RegOK(u, r)
    <3>1. RegOK(d, r) /\ r \in Items /\ d.above[r] \in Regs \cup {NoItem}
      BY <1>1, <1>3 DEF Body, GroupStates
    <3> QED BY <1>1, <2>4, <2>6, <3>1 DEF RegOK
  <2>12. Body(u)
    BY <1>3, <2>3, <2>4, <2>9, <2>10, <2>11 DEF Body
  <2>13. STDispOK(u)
    BY <1>1, <1>2, <2>2, <2>3, <2>6, <2>7 DEF STDispOK
  <2>14. Regular(u, t)
    BY <1>1, <1>2, <1>3, <2>4, <2>5, <2>6 DEF Regular, Aside
  <2> QED BY <1>1, <1>2, <1>4, <2>4, <2>6, <2>12, <2>13, <2>14 DEF Core, u, b
<1>5. CASE t.bottom[gr] \notin Tilings /\ t.stdisp[gr] = STDisp
  <2>1. u = t
    BY <1>5 DEF u, group_manage_stdisp
  <2>2. t.mgr[STDisp] = gr
    BY <1>1, <1>5 DEF STDispOK
  <2> QED BY <1>5, <2>1, <2>2 DEF Regular, Aside, u
<1>6. CASE t.bottom[gr] \notin Tilings /\ t.stdisp[gr] # STDisp
  <2> DEFINE a == AddManaged(d, gr, x, ON_TOP)
  <2>1. u = [a EXCEPT !.stdisp[gr] = STDisp]
    BY <1>6 DEF u, d, group_manage_stdisp
  <2>2. /\ Body(a) /\ Aside(a, d)
        /\ a.mgr = [d.mgr EXCEPT ![x] = gr] /\ a.level = [d.level EXCEPT ![x] = ON_TOP]
        /\ a.above = [d.above EXCEPT ![x] = NoItem]
        /\ a.bottom = d.bottom /\ a.current = d.current /\ a.stdisp = d.stdisp
    <3>1. d.par[gr] # NoItem /\ d.mgr[x] \notin Groups
      BY <1>1, <1>2, <1>3 DEF Aside
    <3> QED BY <1>1, <1>3, <3>1, AddManagedFacts
  <2> HIDE DEF a
  <2>3. a \in GroupStates
    BY <2>2 DEF Body
  <2>4. /\ u \in GroupStates /\ u.stdisp = [a.stdisp EXCEPT ![gr] = STDisp]
        /\ u.list = a.list /\ u.order = a.order /\ u.managed = a.managed /\ u.mgr = a.mgr
    BY <2>1, <2>3 DEF GroupStates
  <2>5. /\ u.level = a.level /\ u.above = a.above /\ u.bottom = a.bottom /\ u.current = a.current
    BY <2>1, <2>3 DEF GroupStates
  <2>6. Aside(u, a)
    BY <2>1, <2>3 DEF GroupStates, Aside
  <2>7. \A y \in Items, h \in Wins : In(u, y, h) <=> In(a, y, h)
    BY <2>4, <2>6 DEF In, Aside
  <2>8. \A h \in Wins : StackOK(u, h)
    BY <2>2, <2>4, <2>5, <2>7, StackElsewhere
  <2>9. ASSUME NEW h \in Groups PROVE ListOK(u, h) /\ RefsOK(u, h)
    <3>1. ListOK(a, h) /\ RefsOK(a, h)
      BY <2>2 DEF Body
    <3> QED BY <2>4, <2>5, <2>6, <3>1 DEF ListOK, RefsOK, Aside
  <2>10. ASSUME NEW r \in Regs PROVE RegOK(u, r)
    <3>1. RegOK(a, r)
      BY <2>2 DEF Body
    <3> QED BY <2>4, <2>5, <3>1 DEF RegOK
  <2>11. Body(u)
    BY <2>2, <2>4, <2>5, <2>8, <2>9, <2>10 DEF Body
  <2>12. u.mgr[x] = gr
    BY <1>1, <1>3, <2>2, <2>4 DEF GroupStates
  <2>13. STDispOK(u)
    <3>1. \A h \in Groups : u.stdisp[h] = IF h = gr THEN STDisp ELSE NoItem
      BY <1>2, <2>2, <2>3, <2>4 DEF GroupStates
    <3>2. STDisp # NoItem
      BY <1>1
    <3> QED BY <2>12, <3>1, <3>2 DEF STDispOK
  <2>14. Regular(u, t)
    <3>1. \A r \in Regs : r # x /\ r \in Items
      BY <1>1
    <3>2. \A r \in Regs : u.mgr[r] = d.mgr[r] /\ u.level[r] = d.level[r] /\ u.above[r] = d.above[r]
      BY <1>3, <2>2, <2>4, <2>5, <3>1 DEF GroupStates
    <3>3. u.current = t.current
      BY <1>2, <2>2, <2>5
    <3>4. Aside(u, t)
      BY <1>2, <2>2, <2>6 DEF Aside
    <3> QED BY <1>2, <1>3, <3>2, <3>3, <3>4 DEF Regular
  <2> QED BY <1>2, <1>6, <2>2, <2>5, <2>11, <2>12, <2>13, <2>14 DEF Core, u
<1> QED BY <1>4, <1>5, <1>6 DEF u

\* The multiplexer finds a manager for the status display.
LEMMA RemanageFacts ==
  ASSUME NEW t, Core(t), t.shown[Home] # NoItem => t.par[t.shown[Home]] = Home
  PROVE  LET u == mplex_remanage_stdisp(t)
         IN Core(u) /\ Regular(u, t) /\ u.bottom = t.bottom /\ STDispWith(u)
<1> DEFINE gr == t.shown[Home]
           d == IF t.mgr[STDisp] = gr THEN t ELSE DropSTDisp(t)
           u == mplex_remanage_stdisp(t)
<1>1. t \in GroupStates /\ Home \in Wins /\ gr \in Groups \cup {NoItem} /\ STDisp \notin Regs /\ Home # NoItem
  BY GroupsAssumption DEF Core, Body, GroupStates
<1>2. CASE gr = NoItem \/ gr \in CWGroups
  <2>1. u = t
    BY <1>2 DEF mplex_remanage_stdisp
  <2> HIDE DEF u
  <2> QED BY <1>2, <2>1 DEF Regular, Aside, STDispWith, u
<1>3. CASE gr # NoItem /\ gr \notin CWGroups
  <2>1. u = group_manage_stdisp(d, gr)
    BY <1>3 DEF mplex_remanage_stdisp
  <2>2. Core(d) /\ Regular(d, t) /\ d.bottom = t.bottom
    <3>1. CASE t.mgr[STDisp] = gr
      BY <3>1 DEF Regular, Aside
    <3>2. CASE t.mgr[STDisp] # gr
      <4> DEFINE e == DropSTDisp(t)
      <4>1. /\ Core(e) /\ Aside(e, t) /\ e.mgr = [t.mgr EXCEPT ![STDisp] = NoItem]
            /\ e.bottom = t.bottom /\ e.current = t.current /\ e.level = t.level /\ e.above = t.above
        BY DropFacts
      <4>2. d = e
        BY <3>2
      <4> HIDE DEF e, d
      <4>3. \A r \in Regs : e.mgr[r] = t.mgr[r]
        BY <1>1, <4>1 DEF GroupStates, Items
      <4> QED BY <4>1, <4>2, <4>3 DEF Regular
    <3> QED BY <3>1, <3>2
  <2> HIDE DEF d, u
  <2>3. gr \in Groups /\ d.par[gr] # NoItem
    BY <1>1, <1>3, <2>2 DEF Regular, Aside
  <2>4. /\ Core(u) /\ Regular(u, d) /\ u.bottom = d.bottom
        /\ u.mgr[STDisp] = IF d.bottom[gr] \in Tilings THEN d.bottom[gr] ELSE gr
    BY <2>1, <2>2, <2>3, ManageFacts
  <2>5. Regular(u, t) /\ u.shown = t.shown
    BY <2>2, <2>4 DEF Regular, Aside
  <2>6. STDispWith(u)
    BY <2>4, <2>5 DEF STDispWith
  <2> QED BY <2>2, <2>4, <2>5, <2>6 DEF u
<1> QED BY <1>2, <1>3

\* The bottom of a group changes, and with it who manages the status display.  That follows
\* what is shown, unless the bottom was a tiling and is to be another region.  When a tiling
\* is the bottom of what is shown no more it need not have followed that before.
LEMMA SetBottomFacts ==
  ASSUME NEW t, Core(t), NEW gr \in Groups, NEW x \in Regs \cup {NoItem},
         x # NoItem => t.mgr[x] = gr
  PROVE  LET u == SetBottom(t, gr, x)
         IN /\ Core(u) /\ Regular(u, t) /\ u.bottom = [t.bottom EXCEPT ![gr] = x]
            /\ ( /\ t.shown[Home] # NoItem => t.par[t.shown[Home]] = Home
                 /\ \/ STDispWith(t)
                    \/ t.shown[Home] = gr /\ t.bottom[gr] \in Tilings /\ x = NoItem
                 /\ \/ x \in Tilings \cup {NoItem} \/ t.bottom[gr] = NoItem
                    \/ t.mgr[STDisp] # t.bottom[gr] )
               => STDispWith(u)
<1> DEFINE was == t.bottom[gr]
           std == t.stdisp[gr]
           v == [t EXCEPT !.bottom[gr] = x]
           no == \/ was = x \/ (was = NoItem /\ std = NoItem)
                 \/ (x # NoItem /\ x = std) \/ (x = NoItem /\ was = std)
           r == group_remanage_stdisp(v, gr)
           u == SetBottom(t, gr, x)
<1>1. /\ t \in GroupStates /\ Body(t) /\ STDispOK(t) /\ STDisp \notin Regs /\ NoItem \notin Groups
      /\ Items = Regs \cup {STDisp} /\ NoItem \notin Items /\ Items \cap Groups = {} /\ Tilings \subseteq Regs
      /\ Home \in Wins
  BY GroupsAssumption DEF Core, Body, Items
<1>2. u = IF ~no /\ (x = NoItem \/ x \in Tilings) THEN r ELSE v
  BY DEF SetBottom
<1> HIDE DEF v, u, no
<1>3. /\ v \in GroupStates /\ v.bottom = [t.bottom EXCEPT ![gr] = x]
      /\ v.list = t.list /\ v.order = t.order /\ v.managed = t.managed /\ v.mgr = t.mgr
      /\ v.level = t.level /\ v.above = t.above /\ v.current = t.current /\ v.stdisp = t.stdisp
  <2>1. v \in GroupStates
    BY <1>1 DEF v, GroupStates
  <2>2. /\ v.bottom = [t.bottom EXCEPT ![gr] = x]
        /\ v.list = t.list /\ v.order = t.order /\ v.managed = t.managed /\ v.mgr = t.mgr
    BY <1>1 DEF v, GroupStates
  <2>3. v.level = t.level /\ v.above = t.above /\ v.current = t.current /\ v.stdisp = t.stdisp
    BY <1>1 DEF v, GroupStates
  <2> QED BY <2>1, <2>2, <2>3
<1>4. Aside(v, t)
  BY <1>1 DEF v, GroupStates, Aside
<1>5. \A h \in Groups : v.bottom[h] = IF h = gr THEN x ELSE t.bottom[h]
  BY <1>1, <1>3 DEF GroupStates
<1>6. Core(v)
  <2>1. \A y \in Items, h \in Wins : In(v, y, h) <=> In(t, y, h)
    BY <1>3, <1>4 DEF In, Aside
  <2>2. \A h \in Wins : StackOK(v, h)
    BY <1>1, <1>3, <2>1, StackElsewhere
  <2>3. ASSUME NEW h \in Groups PROVE ListOK(v, h) /\ RefsOK(v, h)
    <3>1. ListOK(t, h) /\ RefsOK(t, h)
      BY <1>1 DEF Body
    <3> QED BY <1>3, <1>4, <1>5, <3>1 DEF ListOK, RefsOK, Aside
  <2>4. ASSUME NEW y \in Regs PROVE RegOK(v, y)
    <3>1. RegOK(t, y)
      BY <1>1 DEF Body
    <3> QED BY <1>3, <3>1 DEF RegOK
  <2>5. Body(v)
    BY <1>1, <1>3, <2>2, <2>3, <2>4 DEF Body
  <2>6. STDispOK(v)
    BY <1>1, <1>3 DEF STDispOK
  <2> QED BY <2>5, <2>6 DEF Core
<1>7. Regular(v, t)
  BY <1>3, <1>4 DEF Regular
<1> DEFINE fits == /\ t.shown[Home] # NoItem => t.par[t.shown[Home]] = Home
                   /\ \/ STDispWith(t)
                      \/ t.shown[Home] = gr /\ t.bottom[gr] \in Tilings /\ x = NoItem
                   /\ \/ x \in Tilings \cup {NoItem} \/ t.bottom[gr] = NoItem
                      \/ t.mgr[STDisp] # t.bottom[gr]
<1>8. CASE ~(~no /\ (x = NoItem \/ x \in Tilings))
  <2>1. u = v
    BY <1>2, <1>8
  <2>2. ASSUME fits PROVE STDispWith(v)
    <3> DEFINE sh == t.shown[Home]
    <3>0. STDispWith(t)
      <4>1. std \in {STDisp, NoItem}
        BY <1>1 DEF GroupStates
      <4> QED BY <1>1, <1>8, <2>2, <4>1 DEF no
    <3>1. v.shown[Home] = sh /\ sh \in Groups \cup {NoItem}
      BY <1>1, <1>4 DEF Aside, GroupStates
    <3>2. SUFFICES ASSUME sh # NoItem, sh \notin CWGroups
                   PROVE  t.mgr[STDisp] = IF v.bottom[sh] \in Tilings THEN v.bottom[sh] ELSE sh
      BY <1>3, <3>1 DEF STDispWith
    <3>3. t.mgr[STDisp] = IF t.bottom[sh] \in Tilings THEN t.bottom[sh] ELSE sh
      BY <3>0, <3>2 DEF STDispWith
    <3>4. CASE sh # gr
      BY <1>5, <3>1, <3>2, <3>3, <3>4
    <3>5. CASE sh = gr /\ was = x
      BY <1>5, <3>3, <3>5
    <3>6. CASE sh = gr /\ was # x /\ (x = NoItem \/ x \in Tilings)
      <4>1. no
        BY <1>8, <3>6
      <4>2. std \in {STDisp, NoItem} /\ was \in Regs \cup {NoItem}
        BY <1>1 DEF GroupStates
      <4>3. was = NoItem /\ std = NoItem
        BY <1>1, <3>6, <4>1, <4>2 DEF no
      <4>4. t.mgr[STDisp] = gr
        BY <1>1, <3>3, <3>6, <4>3
      <4>5. std = STDisp
        BY <1>1, <4>4 DEF STDispOK
      <4> QED BY <1>1, <4>3, <4>5
    <3>7. CASE sh = gr /\ ~(x = NoItem \/ x \in Tilings)
      <4>1. was = NoItem \/ t.mgr[STDisp] # was
        BY <2>2, <3>7
      <4> QED BY <1>1, <1>5, <3>3, <3>7, <4>1
    <3> QED BY <3>4, <3>5, <3>6, <3>7
  <2> QED BY <1>3, <1>6, <1>7, <2>1, <2>2 DEF u
<1>9. CASE ~no /\ (x = NoItem \/ x \in Tilings)
  <2>1. u = r
    BY <1>2, <1>9
  <2>2. CASE v.par[gr] = Home /\ v.shown[Home] = gr
    <3>1. u = mplex_remanage_stdisp(v)
      BY <2>1, <2>2 DEF group_remanage_stdisp
    <3>2. Core(u) /\ Regular(u, v) /\ u.bottom = v.bottom /\ STDispWith(u)
      BY <1>6, <2>2, <3>1, RemanageFacts
    <3>3. Regular(u, t)
      BY <1>7, <3>2 DEF Regular, Aside
    <3> QED BY <1>3, <3>2, <3>3 DEF u
  <2>3. CASE ~(v.par[gr] = Home /\ v.shown[Home] = gr)
    <3>1. u = v
      BY <2>1, <2>3 DEF group_remanage_stdisp
    <3>2. ASSUME fits PROVE STDispWith(v)
      <4> DEFINE sh == t.shown[Home]
      <4>1. v.shown[Home] = sh /\ sh \in Groups \cup {NoItem} /\ v.par = t.par
        BY <1>1, <1>4 DEF Aside, GroupStates
      <4>2. sh # gr
        BY <1>1, <2>3, <3>2, <4>1
      <4> QED BY <1>3, <1>5, <3>2, <4>1, <4>2 DEF STDispWith
    <3> QED BY <1>3, <1>6, <1>7, <3>1, <3>2 DEF u
  <2> QED BY <2>2, <2>3
<1> QED BY <1>8, <1>9

\* What is looked at for the focus, from the top on, and how far.
LEMMA ReachedFacts ==
  ASSUME NEW z \in Stackings, NEW try, NEW shown
  PROVE  LET seen == Seen(z, try, shown)
             reached == Reached(z, try, shown)
         IN /\ seen \in Seq(Items) /\ reached \in Seq(Items) /\ Len(reached) <= Len(seen)
            /\ \A i \in DOMAIN reached : i \in DOMAIN seen /\ reached[i] = seen[i]
            /\ Range(seen) = Range(z.list) \cap (shown \cup {try})
            /\ \A a, b : Prec(seen, a, b) <=> /\ a \in shown \cup {try} /\ b \in shown \cup {try}
                                              /\ Prec(z.list, b, a)
            /\ IsInjective(z.list) => IsInjective(seen)
            /\ \A i \in DOMAIN reached : \A j \in 1 .. i - 1 :
                 ~(z.level[seen[j]] >= MODAL1 /\ z.level[seen[j]] > z.level[seen[i]])
            /\ Len(reached) # Len(seen) =>
                 \E j \in 1 .. Len(reached) : /\ z.level[seen[j]] >= MODAL1
                                              /\ z.level[seen[j]] > z.level[seen[Len(reached) + 1]]
<1> DEFINE A == shown \cup {try}
           rev == Reverse(z.list)
           seen == Seen(z, try, shown)
           N == Len(seen)
           Hides(i) == \E j \in 1 .. i - 1 : z.level[seen[j]] >= MODAL1 /\ z.level[seen[j]] > z.level[seen[i]]
           stop == {i \in DOMAIN seen : Hides(i)}
           reached == Reached(z, try, shown)
<1>1. z.list \in Seq(Items)
  BY DEF Stackings
<1>2. /\ rev \in Seq(Items) /\ Range(rev) = Range(z.list)
      /\ IsInjective(z.list) => IsInjective(rev)
      /\ \A a, b : Prec(rev, a, b) <=> Prec(z.list, b, a)
  BY <1>1, ReverseOrder
<1> HIDE DEF rev, A
<1>3. seen = Only(rev, A)
  BY DEF Seen, rev, A
<1>4. /\ seen \in Seq(Items) /\ Range(seen) = Range(rev) \cap A
      /\ \A a, b : Prec(seen, a, b) <=> a \in A /\ b \in A /\ Prec(rev, a, b)
      /\ IsInjective(rev) => IsInjective(seen)
  <2> HIDE DEF seen
  <2> QED BY <1>2, <1>3, OnlyFacts
<1>5. reached = IF stop = {} THEN seen ELSE SubSeq(seen, 1, Min(stop) - 1)
  BY DEF Reached
<1> HIDE DEF seen, reached
<1>6. N \in Nat /\ DOMAIN seen = 1 .. N
  BY <1>4
<1>7. CASE stop = {}
  <2>1. reached = seen
    BY <1>5, <1>7
  <2>2. \A i \in DOMAIN seen : ~Hides(i)
    BY <1>7
  <2>3. Len(reached) <= Len(seen)
    BY <1>6, <2>1
  <2> QED BY <1>2, <1>4, <2>1, <2>2, <2>3 DEF seen, reached, A
<1>8. CASE stop # {}
  <2>1. stop \in SUBSET Nat
    BY <1>6
  <2>2. \E n \in stop : \A m \in stop : n <= m
    <3> HIDE DEF stop
    <3> QED BY <1>8, <2>1, NatMin
  <2> DEFINE n == Min(stop)
  <2>3. n \in stop /\ \A m \in stop : n <= m
    <3> HIDE DEF stop
    <3> QED BY <2>2 DEF Min
  <2> HIDE DEF n
  <2>4. n \in 1 .. N /\ Hides(n) /\ n \in Nat /\ \A i \in 1 .. n - 1 : i \in 1 .. N /\ ~Hides(i)
    <3>1. n \in 1 .. N /\ Hides(n) /\ n \in Nat
      BY <1>6, <2>3
    <3>2. ASSUME NEW i \in 1 .. n - 1 PROVE i \in 1 .. N /\ ~Hides(i)
      <4>1. i \in 1 .. N /\ ~(n <= i)
        BY <1>6, <3>1
      <4>2. i \notin stop
        <5> HIDE DEF stop
        <5> QED BY <2>3, <4>1
      <4> QED BY <1>6, <4>1, <4>2
    <3> QED BY <3>1, <3>2
  <2>5. reached = SubSeq(seen, 1, n - 1)
    BY <1>5, <1>8 DEF n
  <2>6. n - 1 \in Nat /\ n - 1 <= N
    BY <1>6, <2>4
  <2>7. /\ reached \in Seq(Items) /\ Len(reached) = n - 1
        /\ \A i \in 1 .. n - 1 : reached[i] = seen[i]
    BY <1>4, <1>6, <2>4, <2>5, <2>6
  <2>8. DOMAIN reached = 1 .. n - 1 /\ Len(reached) + 1 = n /\ Len(reached) <= N
    BY <1>6, <2>4, <2>7
  <2>9. \A i \in DOMAIN reached : i \in DOMAIN seen /\ reached[i] = seen[i]
    BY <1>6, <2>4, <2>7, <2>8
  <2>10. \A i \in DOMAIN reached : \A j \in 1 .. i - 1 :
                 ~(z.level[seen[j]] >= MODAL1 /\ z.level[seen[j]] > z.level[seen[i]])
    BY <2>4, <2>8
  <2>11. \E j \in 1 .. Len(reached) : /\ z.level[seen[j]] >= MODAL1
                                      /\ z.level[seen[j]] > z.level[seen[Len(reached) + 1]]
    BY <2>4, <2>7, <2>8
  <2> QED BY <1>2, <1>4, <2>7, <2>8, <2>9, <2>10, <2>11 DEF seen, reached, A
<1> QED BY <1>7, <1>8

\* What is found is what was tried, or is shown and approved of.
LEMMA FindFacts ==
  ASSUME NEW z \in Stackings, NEW try, NEW shown, NEW approved
  PROVE  LET f == stacking_find_to_focus(z, try, shown, approved)
         IN /\ try \in Range(Reached(z, try, shown)) => f = try
            /\ f = NoItem \/ (f \in Range(Reached(z, try, shown)) /\ f \in Range(z.list)
                              /\ (f = try \/ (f \in shown /\ f \in approved)))
            /\ f = NoItem => Range(Reached(z, try, shown)) \cap approved = {}
<1> DEFINE reached == Reached(z, try, shown)
           fit == Only(reached, approved)
           f == stacking_find_to_focus(z, try, shown, approved)
           seen == Seen(z, try, shown)
<1>1. /\ seen \in Seq(Items) /\ reached \in Seq(Items)
      /\ \A i \in DOMAIN reached : i \in DOMAIN seen /\ reached[i] = seen[i]
      /\ Range(seen) = Range(z.list) \cap (shown \cup {try})
  BY ReachedFacts
<1>2. f = IF try \in Range(reached) THEN try ELSE IF fit = <<>> THEN NoItem ELSE fit[1]
  BY DEF stacking_find_to_focus
<1> HIDE DEF reached, seen
<1>3. Range(reached) \subseteq Range(z.list) \cap (shown \cup {try})
  <2>1. Range(reached) \subseteq Range(seen)
    BY <1>1 DEF Range
  <2> QED BY <1>1, <2>1
<1>4. fit \in Seq(Items) /\ Range(fit) = Range(reached) \cap approved
  BY <1>1, OnlyFacts
<1> HIDE DEF fit, f
<1>5. NoItem \notin Items /\ \A a \in Range(z.list) : a \in Items
  BY GroupsAssumption, RangeIn DEF Stackings
<1>6. fit # <<>> => fit[1] \in Range(fit)
  <2>1. fit # <<>> => 1 \in DOMAIN fit
    BY <1>4
  <2> QED BY <2>1 DEF Range
<1>7. fit = <<>> => Range(fit) = {}
  BY DEF Range
<1> QED BY <1>2, <1>3, <1>4, <1>5, <1>6, <1>7 DEF f, reached

\* The region a group is to focus is one of its own.
LEMMA GroupFocusFacts ==
  ASSUME NEW t, Body(t), NEW gr \in Groups, t.par[gr] # NoItem, NEW try, try # NoItem => try \in Regs /\ t.mgr[try] = gr
  PROVE  LET f == find_to_focus(t, gr, try, TRUE)
         IN f # NoItem => f \in Regs /\ t.mgr[f] = gr
<1> DEFINE z == Z(t, t.par[gr])
           shown == Focusable(t)
           approved == Managed(t, gr)
           f == find_to_focus(t, gr, try, TRUE)
<1>1. t \in GroupStates /\ t.par[gr] \in Wins
  BY DEF Body, GroupStates
<1>2. z \in Stackings
  BY <1>1, ZFacts
<1>3. f = stacking_find_to_focus(z, try, shown, approved)
  BY DEF find_to_focus
<1> HIDE DEF z, shown, approved, f
<1>4. f # NoItem => f \in Range(z.list) /\ (f = try \/ (f \in shown /\ f \in approved))
  BY <1>2, <1>3, FindFacts
<1>5. f \in shown => f \in Regs
  BY DEF shown, Focusable
<1>6. f \in shown /\ f \in approved => t.mgr[f] = gr
  <2>1. ListOK(t, gr) /\ Regs \subseteq Items
    BY DEF Body, Items
  <2> QED BY <1>5, <2>1 DEF ListOK, approved, Managed
<1> QED BY <1>4, <1>5, <1>6 DEF f

\* Another current region.
LEMMA CurrentFacts ==
  ASSUME NEW t, Core(t), NEW gr \in Groups, NEW x \in Regs \cup {NoItem}, x # NoItem => t.mgr[x] = gr,
         NEW u, u = [t EXCEPT !.current[gr] = x]
  PROVE  /\ Core(u) /\ Aside(u, t) /\ u.mgr = t.mgr /\ u.level = t.level /\ u.bottom = t.bottom
         /\ u.above = t.above /\ u.list = t.list
<1>1. t \in GroupStates /\ Body(t) /\ STDispOK(t)
  BY DEF Core, Body
<1>2. /\ u \in GroupStates /\ u.current = [t.current EXCEPT ![gr] = x]
      /\ u.list = t.list /\ u.order = t.order /\ u.managed = t.managed /\ u.mgr = t.mgr
  BY <1>1 DEF GroupStates
<1>3. /\ u.level = t.level /\ u.above = t.above /\ u.bottom = t.bottom /\ u.stdisp = t.stdisp
  BY <1>1 DEF GroupStates
<1>4. Aside(u, t)
  BY <1>1 DEF GroupStates, Aside
<1>5. \A a \in Items, h \in Wins : In(u, a, h) <=> In(t, a, h)
  BY <1>2, <1>4 DEF In, Aside
<1>6. \A h \in Wins : StackOK(u, h)
  BY <1>1, <1>2, <1>3, <1>5, StackElsewhere
<1>7. ASSUME NEW h \in Groups PROVE ListOK(u, h) /\ RefsOK(u, h)
  <2>1. ListOK(t, h) /\ RefsOK(t, h)
    BY <1>1 DEF Body
  <2>2. u.current[h] = IF h = gr THEN x ELSE t.current[h]
    BY <1>1, <1>2 DEF GroupStates
  <2> QED BY <1>2, <1>3, <1>4, <2>1, <2>2 DEF ListOK, RefsOK, Aside
<1>8. ASSUME NEW r \in Regs PROVE RegOK(u, r)
  <2>1. RegOK(t, r)
    BY <1>1 DEF Body
  <2> QED BY <1>2, <1>3, <2>1 DEF RegOK
<1>9. Body(u)
  BY <1>1, <1>2, <1>3, <1>6, <1>7, <1>8 DEF Body
<1>10. STDispOK(u)
  BY <1>1, <1>2, <1>3 DEF STDispOK
<1> QED BY <1>2, <1>3, <1>4, <1>9, <1>10 DEF Core

\* What multiplexer Home shows is in it
HomeShows(t) == t.shown[Home] # NoItem => t.par[t.shown[Home]] = Home

\* One of the regions xs is a tiling at the bottom of the group that Home shows
BottomGoes(t, xs) == t.shown[Home] # NoItem /\ t.bottom[t.shown[Home]] \in xs \cap Tilings

\* In the state u the regions xs of t are in no group any more
Out(u, t, xs) ==
  /\ Core(u) /\ Aside(u, t)
  /\ \A r \in Regs : u.level[r] = t.level[r]
  /\ \A r \in xs : u.mgr[r] = NoItem
  /\ \A r \in Regs \ xs : u.mgr[r] = t.mgr[r]
  /\ \A h \in Groups : t.bottom[h] \notin xs => u.bottom[h] = t.bottom[h]
  /\ HomeShows(t) /\ (STDispWith(t) \/ BottomGoes(t, xs)) => STDispWith(u)

\* A region is removed from its group.
LEMMA RemoveFacts ==
  ASSUME NEW t, Core(t), NEW x \in Regs, t.mgr[x] \in Groups, NEW mcf \in BOOLEAN
  PROVE  Out(group_managed_remove(t, x, mcf), t, {x})
<1> DEFINE gr == t.mgr[x]
           u == IF x = t.bottom[gr] THEN SetBottom(t, gr, NoItem) ELSE t
           w == u.par[gr]
           un == stacking_unstack(Z(u, w), x)
           s == SetZ(u, w, un.z)
           m == Without(u.managed[gr], {x})
           o == Without(u.order[w], {x})
           c == IF u.current[gr] = x THEN NoItem ELSE u.current[gr]
           v == [s EXCEPT !.managed[gr] = Without(@, {x}), !.mgr[x] = NoItem, !.order[w] = Without(@, {x}),
                          !.current[gr] = IF @ = x THEN NoItem ELSE @]
           next == un.next
           stf == find_to_focus(v, gr, next, TRUE)
           r == group_managed_remove(t, x, mcf)
           ready == STDispWith(t) \/ BottomGoes(t, {x})
<1>1. /\ t \in GroupStates /\ Body(t) /\ STDispOK(t) /\ STDisp \notin Regs /\ NoItem \notin Groups
      /\ Items = Regs \cup {STDisp} /\ NoItem \notin Items /\ x \in Items /\ gr \in Groups /\ Home \in Wins
  BY GroupsAssumption DEF Core, Body, Items
<1>2. r = IF t.current[gr] = x /\ ~(stf # NoItem /\ mcf) THEN [v EXCEPT !.current[gr] = stf] ELSE v
  BY DEF group_managed_remove, Unmanaged
<1>3. /\ Core(u) /\ Regular(u, t)
      /\ \A h \in Groups : u.bottom[h] # x /\ (t.bottom[h] # x => u.bottom[h] = t.bottom[h])
      /\ HomeShows(t) /\ ready => STDispWith(u)
  <2>1. \A h \in Groups : t.bottom[h] = x => h = gr
    BY <1>1 DEF Body, RefsOK
  <2>2. CASE x = t.bottom[gr]
    <3> DEFINE b == SetBottom(t, gr, NoItem)
    <3>1. /\ Core(b) /\ Regular(b, t) /\ b.bottom = [t.bottom EXCEPT ![gr] = NoItem]
          /\ HomeShows(t) /\ ready => STDispWith(b)
      <4>1. BottomGoes(t, {x}) => t.shown[Home] = gr /\ t.bottom[gr] \in Tilings
        <5>1. t.shown[Home] \in Groups \cup {NoItem}
          BY <1>1 DEF GroupStates
        <5> QED BY <2>1, <5>1 DEF BottomGoes
      <4> QED BY <1>1, <4>1, SetBottomFacts DEF HomeShows
    <3>2. u = b
      BY <2>2
    <3> HIDE DEF b, u
    <3>3. \A h \in Groups : b.bottom[h] = IF h = gr THEN NoItem ELSE t.bottom[h]
      BY <1>1, <3>1 DEF GroupStates
    <3> QED BY <1>1, <2>1, <2>2, <3>1, <3>2, <3>3
  <2>3. CASE x # t.bottom[gr]
    <3>1. u = t
      BY <2>3
    <3> HIDE DEF u
    <3>2. ~BottomGoes(t, {x})
      <4>1. t.shown[Home] \in Groups \cup {NoItem}
        BY <1>1 DEF GroupStates
      <4> QED BY <2>1, <2>3, <4>1 DEF BottomGoes
    <3> QED BY <2>1, <2>3, <3>1, <3>2 DEF Regular, Aside
  <2> QED BY <2>2, <2>3
<1> HIDE DEF u
<1>4. u \in GroupStates /\ Body(u) /\ STDispOK(u) /\ u.mgr[x] = gr
  BY <1>3 DEF Core, Body, Regular
<1>5. /\ Unstacked(s, u, x)
      /\ next # NoItem => next \in Regs /\ next # x /\ u.mgr[next] = gr
  BY <1>1, <1>4, UnstackedFacts
<1>6. w \in Wins
  BY <1>1, <1>4, GroupOf
<1>7. /\ s \in GroupStates /\ s.list = [u.list EXCEPT ![w] = Without(u.list[w], {x})] /\ s.order = u.order
      /\ s.level = u.level /\ s.mgr = u.mgr /\ s.managed = u.managed
      /\ s.bottom = u.bottom /\ s.current = u.current /\ s.stdisp = u.stdisp
      /\ Aside(s, u)
  BY <1>4, <1>5 DEF Unstacked
<1> HIDE DEF s, next
<1>8. \A a \in Items : s.above[a] = IF u.above[a] = x /\ a \in Range(u.list[w]) \ {x} THEN NoItem
                                      ELSE u.above[a]
  BY <1>4, <1>5 DEF Unstacked
<1>9. m \in Seq(Items) /\ o \in Seq(Items) /\ c \in Regs \cup {NoItem} /\ c # x
  <2>1. u.managed[gr] \in Seq(Items) /\ u.order[w] \in Seq(Items) /\ u.current[gr] \in Regs \cup {NoItem}
    BY <1>1, <1>4, <1>6 DEF GroupStates
  <2> QED BY <1>1, <2>1, WithoutFacts
<1>10. v = [s EXCEPT !.managed[gr] = m, !.mgr[x] = NoItem, !.order[w] = o, !.current[gr] = c]
  BY <1>7
<1> HIDE DEF m, o, c, v, w, gr
<1>11. v \in GroupStates
  BY <1>1, <1>6, <1>7, <1>9, <1>10 DEF GroupStates
<1>12. /\ v.managed = [u.managed EXCEPT ![gr] = m] /\ v.order = [u.order EXCEPT ![w] = o]
       /\ v.mgr = [u.mgr EXCEPT ![x] = NoItem] /\ v.current = [u.current EXCEPT ![gr] = c]
  BY <1>1, <1>6, <1>7, <1>9, <1>10 DEF GroupStates
<1>13. /\ v.list = s.list /\ v.level = u.level /\ v.above = s.above /\ v.bottom = u.bottom
       /\ v.stdisp = u.stdisp
  BY <1>7, <1>10 DEF GroupStates
<1>14. Aside(v, u)
  BY <1>7, <1>10 DEF GroupStates, Aside
<1>15. Left(v, u, x)
  BY <1>4, <1>7, <1>8, <1>11, <1>12, <1>13, <1>14 DEF Left, m, o, w
<1>16. /\ v.above[STDisp] = NoItem
       /\ \A h \in Wins : StackOK(v, h)
       /\ \A h \in Groups : ListOK(v, h)
       /\ \A y \in Regs : RegOK(v, y)
       /\ \A a \in Items : v.mgr[a] = IF a = x THEN NoItem ELSE u.mgr[a]
  BY <1>1, <1>4, <1>15, LeftFacts
<1>17. ASSUME NEW h \in Groups PROVE RefsOK(v, h)
  <2>1. /\ RefsOK(u, h) /\ u.bottom[h] \in Regs \cup {NoItem} /\ u.current[h] \in Regs \cup {NoItem}
        /\ u.bottom[h] # x
    BY <1>3, <1>4 DEF Body, GroupStates
  <2>2. v.current[h] = IF h = gr THEN c ELSE u.current[h]
    BY <1>4, <1>12 DEF GroupStates
  <2>3. v.current[h] # x /\ v.current[h] \in {u.current[h], NoItem}
    BY <1>1, <1>4, <1>9, <2>1, <2>2 DEF c, RefsOK
  <2> QED BY <1>1, <1>13, <1>16, <2>1, <2>3 DEF RefsOK
<1>18. Body(v)
  BY <1>11, <1>16, <1>17 DEF Body
<1>19. STDispOK(v)
  BY <1>1, <1>4, <1>13, <1>16 DEF STDispOK
<1>20. Core(v)
  BY <1>18, <1>19 DEF Core
<1>21. v.mgr[STDisp] = u.mgr[STDisp] /\ \A y \in Regs \ {x} : v.mgr[y] = t.mgr[y]
  BY <1>1, <1>3, <1>16 DEF Regular
<1>22. v.mgr[x] = NoItem /\ \A y \in Regs : v.level[y] = t.level[y]
  BY <1>1, <1>3, <1>13, <1>16 DEF Regular
<1>23. HomeShows(t) /\ ready => STDispWith(v)
  BY <1>3, <1>13, <1>14, <1>21 DEF STDispWith, Aside
<1>24. Aside(v, t)
  BY <1>3, <1>14 DEF Aside, Regular
<1> DEFINE xs == {x}
<1>25. Out(v, t, xs)
  BY <1>3, <1>13, <1>20, <1>21, <1>22, <1>23, <1>24 DEF Out
<1>26. stf \in Regs \cup {NoItem} /\ (stf # NoItem => v.mgr[stf] = gr)
  <2>1. v.par[gr] # NoItem
    <3>1. t.par[gr] \in Wins
      BY <1>1, GroupOf DEF gr
    <3> QED BY <1>24, <3>1, GroupsAssumption DEF Aside
  <2>2. next # NoItem => next \in Regs /\ v.mgr[next] = gr
    BY <1>1, <1>5, <1>16
  <2> QED BY <1>1, <1>18, <2>1, <2>2, GroupFocusFacts
<1> HIDE DEF xs, stf, r
<1>27. CASE t.current[gr] = x /\ ~(stf # NoItem /\ mcf)
  <2>1. r = [v EXCEPT !.current[gr] = stf]
    BY <1>2, <1>27
  <2>2. /\ Core(r) /\ Aside(r, v) /\ r.mgr = v.mgr /\ r.level = v.level /\ r.bottom = v.bottom
    BY <1>1, <1>20, <1>26, <2>1, CurrentFacts
  <2>3. STDispWith(v) => STDispWith(r)
    BY <2>2 DEF STDispWith, Aside
  <2>4. Aside(r, t)
    BY <1>24, <2>2 DEF Aside
  <2>5. Out(r, t, xs)
    BY <1>25, <2>2, <2>3, <2>4 DEF Out
  <2> QED BY <2>5 DEF r, xs
<1>28. CASE ~(t.current[gr] = x /\ ~(stf # NoItem /\ mcf))
  <2>1. r = v
    BY <1>2, <1>28
  <2> QED BY <1>25, <2>1 DEF r, xs
<1> QED BY <1>27, <1>28

\* In the state u the region x is in the group gr, and was in none
Joined(u, t, gr, x) ==
  /\ Core(u) /\ Aside(u, t) /\ u.mgr[x] = gr
  /\ \A r \in Regs \ {x} : u.mgr[r] = t.mgr[r] /\ u.level[r] = t.level[r]
  /\ \A h \in Groups \ {gr} : u.bottom[h] = t.bottom[h]

\* A region is above one of the group that comes before it.
LEMMA AboveFactsOf ==
  ASSUME NEW u, Core(u), NEW gr \in Groups, u.par[gr] # NoItem, NEW x \in Regs, u.mgr[x] = gr,
         u.above[x] = NoItem,
         NEW above \in Regs \cup {NoItem},
         above # NoItem => /\ u.mgr[above] = gr /\ u.level[above] = u.level[x]
                           /\ Prec(u.list[u.par[gr]], above, x),
         NEW v, v = [u EXCEPT !.above[x] = above]
  PROVE  /\ Core(v) /\ Aside(v, u) /\ v.mgr = u.mgr /\ v.level = u.level /\ v.bottom = u.bottom
<1> DEFINE w == u.par[gr]
<1>1. /\ u \in GroupStates /\ Body(u) /\ STDispOK(u) /\ x \in Items /\ x # STDisp /\ w \in Wins
      /\ \A r \in Regs : r \in Items
  BY GroupsAssumption DEF Core, Body, Items, GroupStates
<1>2. /\ v \in GroupStates /\ v.above = [u.above EXCEPT ![x] = above]
      /\ v.list = u.list /\ v.order = u.order /\ v.managed = u.managed /\ v.mgr = u.mgr
  BY <1>1 DEF GroupStates
<1>3. /\ v.level = u.level /\ v.current = u.current /\ v.bottom = u.bottom /\ v.stdisp = u.stdisp
  BY <1>1 DEF GroupStates
<1>4. Aside(v, u)
  BY <1>1 DEF GroupStates, Aside
<1>5. \A a \in Items : v.above[a] = IF a = x THEN above ELSE u.above[a]
  BY <1>1, <1>2 DEF GroupStates
<1>6. \A a \in Items, h \in Wins : In(v, a, h) <=> In(u, a, h)
  BY <1>2, <1>4 DEF In, Aside
<1>7. ASSUME NEW h \in Wins PROVE StackOK(v, h)
  <2>1. CASE h # w \/ above = NoItem
    <3>1. \A a \in Items : In(u, a, h) => v.level[a] = u.level[a] /\ v.above[a] = u.above[a]
      BY <1>3, <1>5, <2>1 DEF In
    <3> QED BY <1>1, <1>2, <1>6, <3>1, StackElsewhere
  <2>2. CASE h = w /\ above # NoItem
    <3> DEFINE z == Z(u, w)
               y == Z(v, w)
    <3>1. StackOK(u, w)
      BY <1>1 DEF Body
    <3>2. Stacked(z)
      BY <3>1 DEF StackOK
    <3>3. /\ z.list = u.list[w] /\ z.order = u.order[w] /\ z.level = u.level /\ z.above = u.above
      BY DEF Z
    <3>4. y = [list |-> z.list, order |-> z.order, level |-> z.level, above |-> [z.above EXCEPT ![x] = above]]
      BY <1>2, <1>3, <3>3 DEF Z
    <3> HIDE DEF z, y
    <3>5. In(u, x, w)
      BY DEF In
    <3>6. x \in Range(u.list[w])
      BY <1>1, <3>1, <3>5 DEF StackOK
    <3>7. x \in Range(z.list) /\ Prec(z.list, above, x) /\ z.level[above] = z.level[x]
      BY <2>2, <3>3, <3>6
    <3>8. Stacked(y)
      BY <3>2, <3>4, <3>7, AboveStacked
    <3> QED BY <1>2, <1>6, <2>2, <3>1, <3>8 DEF StackOK, y
  <2> QED BY <2>1, <2>2
<1>8. ASSUME NEW h \in Groups PROVE ListOK(v, h) /\ RefsOK(v, h)
  <2>1. ListOK(u, h) /\ RefsOK(u, h)
    BY <1>1 DEF Body
  <2> QED BY <1>2, <1>3, <1>4, <2>1 DEF ListOK, RefsOK, Aside
<1>9. ASSUME NEW r \in Regs PROVE RegOK(v, r)
  <2>1. RegOK(u, r) /\ r \in Items
    BY <1>1 DEF Body
  <2> QED BY <1>2, <1>5, <2>1 DEF RegOK
<1>10. v.above[STDisp] = NoItem
  BY <1>1, <1>5 DEF Body, Items
<1>11. Body(v)
  BY <1>2, <1>7, <1>8, <1>9, <1>10 DEF Body
<1>12. STDispOK(v)
  BY <1>1, <1>2, <1>3 DEF STDispOK
<1> QED BY <1>2, <1>3, <1>4, <1>11, <1>12 DEF Core

\* A region is attached to a group.  The status display stays where it is to be, if no
\* other region takes the place of a tiling at the bottom.
LEMMA AttachFacts ==
  ASSUME NEW t, Core(t), NEW gr \in Groups, t.par[gr] # NoItem, NEW x \in Regs, t.mgr[x] \notin Groups,
         NEW a, a.level \in Nat, a.above \in Regs \cup {NoItem}, NEW mcf \in BOOLEAN
  PROVE  LET u == group_do_attach_final(t, gr, x, a, mcf)
         IN /\ Joined(u, t, gr, x)
            /\ HomeShows(t) /\ STDispWith(t) /\ (a.bottom => t.bottom[gr] = NoItem \/ x \in Tilings)
                 => STDispWith(u)
<1> DEFINE w == t.par[gr]
           above == IF a.above \in Managed(t, gr) THEN a.above ELSE NoItem
           level == IF above # NoItem THEN t.level[above] ELSE a.level
           u == AddManaged(t, gr, x, level)
           v == [u EXCEPT !.above[x] = above]
           b == IF a.bottom THEN SetBottom(v, gr, x) ELSE v
           sw == IF a.switchto THEN find_to_focus(b, gr, x, FALSE) = x
                 ELSE stacking_must_focus(Z(b, b.par[gr]), x, Focusable(b))
           r == group_do_attach_final(t, gr, x, a, mcf)
<1>1. /\ t \in GroupStates /\ Body(t) /\ STDispOK(t) /\ STDisp \notin Regs /\ NoItem \notin Groups
      /\ Items = Regs \cup {STDisp} /\ NoItem \notin Items /\ x \in Items /\ x # STDisp /\ w \in Wins
  BY GroupsAssumption DEF Core, Body, Items, GroupStates
<1>2. r = IF sw /\ ~mcf THEN [b EXCEPT !.current[gr] = x] ELSE b
  BY DEF group_do_attach_final, Entered
<1>3. /\ above \in Regs \cup {NoItem} /\ (above # NoItem => t.mgr[above] = gr /\ above # x)
      /\ level \in Nat
  <2>1. a.above \in Managed(t, gr) /\ a.above \in Regs => t.mgr[a.above] = gr
    BY <1>1 DEF Body, ListOK, Managed
  <2>2. above \in Regs \cup {NoItem} /\ (above # NoItem => t.mgr[above] = gr /\ above # x)
    BY <1>1, <2>1
  <2> HIDE DEF above
  <2>3. level \in Nat
    BY <1>1, <2>2 DEF GroupStates
  <2> QED BY <2>2, <2>3
<1>4. /\ Body(u) /\ Aside(u, t)
      /\ u.mgr = [t.mgr EXCEPT ![x] = gr] /\ u.level = [t.level EXCEPT ![x] = level]
      /\ u.above = [t.above EXCEPT ![x] = NoItem]
      /\ u.bottom = t.bottom /\ u.current = t.current /\ u.stdisp = t.stdisp
      /\ \A y \in Items : In(t, y, w) /\ t.level[y] <= level => Prec(u.list[w], y, x)
  <2> HIDE DEF level, above
  <2> QED BY <1>1, <1>3, AddManagedFacts
<1> HIDE DEF u, v, b, sw, r
<1>5. u.par[gr] = w /\ u.par[gr] # NoItem
  BY <1>4 DEF Aside
<1>6. above # NoItem => level = t.level[above]
  OBVIOUS
<1> HIDE DEF above, level, w
<1>7. /\ \A y \in Items : u.mgr[y] = IF y = x THEN gr ELSE t.mgr[y]
      /\ \A y \in Items : u.level[y] = IF y = x THEN level ELSE t.level[y]
      /\ u.above[x] = NoItem
  BY <1>1, <1>4 DEF GroupStates
<1>8. Core(u)
  <2>1. STDispOK(u)
    BY <1>1, <1>4, <1>7 DEF STDispOK
  <2> QED BY <1>4, <2>1 DEF Core
<1>9. above # NoItem => /\ u.mgr[above] = gr /\ u.level[above] = u.level[x]
                        /\ Prec(u.list[u.par[gr]], above, x)
  <2>1. SUFFICES ASSUME above # NoItem
                 PROVE  /\ u.mgr[above] = gr /\ u.level[above] = u.level[x]
                        /\ Prec(u.list[u.par[gr]], above, x)
    OBVIOUS
  <2>2. above \in Items /\ t.mgr[above] = gr /\ above # x
    BY <1>1, <1>3, <2>1
  <2>3. In(t, above, w)
    BY <2>2 DEF In, w
  <2>4. t.level[above] <= level
    <3>1. t.level[above] \in Nat
      BY <1>1, <2>2 DEF GroupStates
    <3> QED BY <1>6, <2>1, <3>1
  <2> QED BY <1>1, <1>4, <1>5, <1>6, <1>7, <2>1, <2>2, <2>3, <2>4
<1>10. v = [u EXCEPT !.above[x] = above]
  BY DEF v
<1>11. u.mgr[x] = gr
  BY <1>1, <1>7
<1>12. Core(v) /\ Aside(v, u) /\ v.mgr = u.mgr /\ v.level = u.level /\ v.bottom = u.bottom
  BY <1>3, <1>5, <1>7, <1>8, <1>9, <1>10, <1>11, AboveFactsOf
<1>13. Joined(v, t, gr, x)
  BY <1>1, <1>4, <1>7, <1>12 DEF Joined, Aside
<1>14. STDispWith(t) => STDispWith(v)
  <2>1. v.mgr[STDisp] = t.mgr[STDisp] /\ v.bottom = t.bottom /\ v.shown = t.shown
    BY <1>1, <1>4, <1>7, <1>12 DEF Aside
  <2> QED BY <2>1 DEF STDispWith
<1> DEFINE fits == HomeShows(t) /\ STDispWith(t) /\ (a.bottom => t.bottom[gr] = NoItem \/ x \in Tilings)
<1>15. Joined(b, t, gr, x) /\ (fits => STDispWith(b))
  <2>1. CASE ~a.bottom
    BY <1>13, <1>14, <2>1 DEF b
  <2>2. CASE a.bottom
    <3> DEFINE c == SetBottom(v, gr, x)
    <3>1. b = c
      BY <2>2 DEF b
    <3>2. /\ v.mgr[x] = gr /\ v.bottom[gr] = t.bottom[gr] /\ v.shown = t.shown /\ v.par = t.par
      BY <1>4, <1>11, <1>12 DEF Aside
    <3>3. /\ Core(c) /\ Regular(c, v) /\ c.bottom = [v.bottom EXCEPT ![gr] = x]
          /\ ( /\ v.shown[Home] # NoItem => v.par[v.shown[Home]] = Home
               /\ STDispWith(v)
               /\ \/ x \in Tilings \cup {NoItem} \/ v.bottom[gr] = NoItem
                  \/ v.mgr[STDisp] # v.bottom[gr] )
               => STDispWith(c)
      BY <1>12, <3>2, SetBottomFacts
    <3> HIDE DEF c
    <3>4. fits => STDispWith(c)
      BY <1>14, <2>2, <3>2, <3>3 DEF HomeShows
    <3>5. \A h \in Groups \ {gr} : c.bottom[h] = t.bottom[h]
      <4>1. v \in GroupStates
        BY <1>12 DEF Core, Body
      <4> QED BY <1>13, <3>3, <4>1 DEF GroupStates, Joined
    <3>6. Aside(c, t) /\ c.mgr[x] = gr /\ \A y \in Regs \ {x} : c.mgr[y] = t.mgr[y] /\ c.level[y] = t.level[y]
      BY <1>13, <3>3 DEF Regular, Aside, Joined
    <3> QED BY <3>1, <3>3, <3>4, <3>5, <3>6 DEF Joined
  <2> QED BY <2>1, <2>2
<1>16. CASE sw /\ ~mcf
  <2>1. r = [b EXCEPT !.current[gr] = x]
    BY <1>2, <1>16
  <2>2. Core(b) /\ b.mgr[x] = gr
    BY <1>15 DEF Joined
  <2>3. /\ Core(r) /\ Aside(r, b) /\ r.mgr = b.mgr /\ r.level = b.level /\ r.bottom = b.bottom
    BY <2>1, <2>2, CurrentFacts
  <2>4. Joined(r, t, gr, x)
    BY <1>15, <2>3 DEF Joined, Aside
  <2>5. STDispWith(b) => STDispWith(r)
    BY <2>3 DEF STDispWith, Aside
  <2> QED BY <1>15, <2>4, <2>5 DEF r
<1>17. CASE ~(sw /\ ~mcf)
  <2>1. r = b
    BY <1>2, <1>17
  <2> QED BY <1>15, <2>1 DEF r
<1> QED BY <1>16, <1>17

\* The states t and u have the same regions in the same groups
SameCore(u, t) ==
  /\ u \in GroupStates /\ u.list = t.list /\ u.order = t.order /\ u.level = t.level
  /\ u.above = t.above /\ u.mgr = t.mgr /\ u.par = t.par /\ u.managed = t.managed
  /\ u.bottom = t.bottom /\ u.current = t.current /\ u.stdisp = t.stdisp

LEMMA CoreSame ==
  ASSUME NEW t, Core(t), NEW u, SameCore(u, t)
  PROVE  Core(u)
<1>1. \A a \in Items, h \in Wins : In(u, a, h) <=> In(t, a, h)
  BY DEF In, SameCore
<1>2. u \in GroupStates /\ Body(t)
  BY DEF SameCore, Core
<1>3. \A h \in Wins : StackOK(u, h)
  BY <1>1, <1>2, StackElsewhere DEF SameCore
<1>4. ASSUME NEW h \in Groups PROVE ListOK(u, h) /\ RefsOK(u, h)
  <2>1. ListOK(t, h) /\ RefsOK(t, h)
    BY <1>2 DEF Body
  <2> QED BY <2>1 DEF ListOK, RefsOK, SameCore
<1>5. ASSUME NEW r \in Regs PROVE RegOK(u, r)
  <2>1. RegOK(t, r)
    BY <1>2 DEF Body
  <2> QED BY <2>1 DEF RegOK, SameCore
<1>6. Body(u)
  BY <1>2, <1>3, <1>4, <1>5 DEF Body, SameCore
<1>7. STDispOK(u)
  BY DEF Core, STDispOK, SameCore
<1> QED BY <1>6, <1>7 DEF Core

-----------------------------------------------------------------------------
(* Placeholders *)

\* From t to u only placeholders change, and none are new
Fewer(u, t) ==
  /\ SameCore(u, t) /\ u.shown = t.shown
  /\ PhsOK(t) => PhsOK(u)
  /\ \A y \in Regs : u.ph[y].set => t.ph[y].set

LEMMA FewerTwice ==
  ASSUME NEW t, NEW u, NEW v, Fewer(u, t), Fewer(v, u)
  PROVE  Fewer(v, t)
BY DEF Fewer, SameCore

\* A placeholder is taken off its list, and lists that are empty go.
LEMMA UnlinkFacts ==
  ASSUME NEW t \in GroupStates, NEW x \in Regs
  PROVE  LET u == UnlinkPh(t, x) IN Fewer(u, t) /\ ~u.ph[x].set
<1> DEFINE p == [t.ph EXCEPT ![x] = NoPh]
           q == [gr \in Groups |-> Without(t.phs[gr], {x})]
           d == {Without(l, {x}) : l \in t.detached} \ {<<>>}
           u == UnlinkPh(t, x)
<1>1. u = [t EXCEPT !.ph = p, !.phs = q, !.detached = d]
  BY DEF UnlinkPh
<1>2. /\ t.ph \in [Regs -> PhStates] /\ \A gr \in Groups : t.phs[gr] \in Seq(Regs)
      /\ \A l \in t.detached : l \in Seq(Regs)
  BY DEF GroupStates
<1>3. NoPh \in PhStates /\ ~NoPh.set
  BY DEF NoPh, PhStates
<1> DEFINE A == {x}
<1>4. \A l \in Seq(Regs) : Without(l, A) \in Seq(Regs) /\ Range(Without(l, A)) = Range(l) \ A
  <2> HIDE DEF A
  <2> QED BY WithoutFacts
<1>5. p \in [Regs -> PhStates] /\ q \in [Groups -> Seq(Regs)] /\ d \in SUBSET Seq(Regs)
  BY <1>2, <1>3, <1>4
<1>6. p[x] = NoPh /\ \A y \in Regs : y # x => p[y] = t.ph[y]
  BY <1>2
<1>7. \A gr \in Groups : Range(q[gr]) = Range(t.phs[gr]) \ A
  BY <1>2, <1>4
<1>8. /\ \A l \in d : l # <<>> /\ \E m \in t.detached : l = Without(m, A) /\ Range(l) = Range(m) \ A
      /\ \A m \in t.detached : Range(m) \ A # {} => \E l \in d : Range(l) = Range(m) \ A
  <2>1. \A l \in d : l # <<>> /\ \E m \in t.detached : l = Without(m, A) /\ Range(l) = Range(m) \ A
    BY <1>2, <1>4
  <2>2. \A m \in t.detached : Range(m) \ A # {} => Without(m, A) \in d /\ Range(Without(m, A)) = Range(m) \ A
    <3>1. Range(<<>>) = {}
      BY DEF Range
    <3> QED BY <1>2, <1>4, <3>1
  <2> QED BY <2>1, <2>2
<1>9. \A gr \in Groups : t.phs[gr] = <<>> => q[gr] = <<>>
  <2>1. Range(<<>>) \cap A = {} /\ <<>> \in Seq(Regs) /\ IsInjective(<<>>)
    BY DEF Range, IsInjective
  <2>2. Without(<<>>, A) = <<>>
    <3> HIDE DEF A
    <3> QED BY <2>1, WithoutNone
  <2> QED BY <2>2
<1> HIDE DEF p, q, d, u
<1>10. u \in GroupStates /\ u.ph = p /\ u.phs = q /\ u.detached = d /\ u.shown = t.shown
  BY <1>1, <1>5 DEF GroupStates
<1>11. SameCore(u, t)
  <2>1. /\ u.list = t.list /\ u.order = t.order /\ u.level = t.level
        /\ u.above = t.above /\ u.mgr = t.mgr
    BY <1>1 DEF GroupStates
  <2>2. /\ u.par = t.par /\ u.managed = t.managed
        /\ u.bottom = t.bottom /\ u.current = t.current /\ u.stdisp = t.stdisp
    BY <1>1 DEF GroupStates
  <2> QED BY <1>10, <2>1, <2>2 DEF SameCore
<1>12. ASSUME PhsOK(t) PROVE PhsOK(u)
  <2>1. ASSUME NEW y \in Regs
        PROVE  u.ph[y].set <=> \/ \E gr \in Groups : y \in Range(u.phs[gr])
                               \/ \E l \in u.detached : y \in Range(l)
    <3>1. CASE y = x
      <4>1. /\ \A gr \in Groups : y \notin Range(u.phs[gr])
            /\ \A l \in u.detached : y \notin Range(l)
        <5>1. \A gr \in Groups : y \notin Range(u.phs[gr])
          BY <1>7, <1>10, <3>1
        <5>2. ASSUME NEW l \in u.detached PROVE y \notin Range(l)
          <6>1. PICK m \in t.detached : Range(l) = Range(m) \ A
            BY <1>8, <1>10
          <6> QED BY <3>1, <6>1
        <5> QED BY <5>1, <5>2
      <4> QED BY <1>3, <1>6, <1>10, <3>1, <4>1
    <3>2. CASE y # x
      <4>1. \A gr \in Groups : y \in Range(u.phs[gr]) <=> y \in Range(t.phs[gr])
        BY <1>7, <1>10, <3>2
      <4>2. (\E l \in u.detached : y \in Range(l)) <=> (\E l \in t.detached : y \in Range(l))
        BY <1>8, <1>10, <3>2
      <4>3. u.ph[y] = t.ph[y]
        BY <1>6, <1>10, <3>2
      <4> QED BY <1>12, <4>1, <4>2, <4>3 DEF PhsOK
    <3> QED BY <3>1, <3>2
  <2>2. \A gr, h \in Groups : gr # h => Range(u.phs[gr]) \cap Range(u.phs[h]) = {}
    BY <1>7, <1>10, <1>12 DEF PhsOK
  <2>3. \A gr \in Groups, l \in u.detached : Range(u.phs[gr]) \cap Range(l) = {}
    <3>1. ASSUME NEW gr \in Groups, NEW l \in u.detached PROVE Range(u.phs[gr]) \cap Range(l) = {}
      <4>1. PICK m \in t.detached : Range(l) = Range(m) \ A
        BY <1>8, <1>10
      <4>2. Range(t.phs[gr]) \cap Range(m) = {}
        BY <1>12 DEF PhsOK
      <4> QED BY <1>7, <1>10, <4>1, <4>2
    <3> QED BY <3>1
  <2>4. ASSUME NEW l \in u.detached, NEW m \in u.detached, l # m PROVE Range(l) \cap Range(m) = {}
    <3>1. PICK l0 \in t.detached : l = Without(l0, A) /\ Range(l) = Range(l0) \ A
      BY <1>8, <1>10
    <3>2. PICK m0 \in t.detached : m = Without(m0, A) /\ Range(m) = Range(m0) \ A
      BY <1>8, <1>10
    <3>3. l0 # m0
      BY <2>4, <3>1, <3>2
    <3>4. Range(l0) \cap Range(m0) = {}
      BY <1>12, <3>3 DEF PhsOK
    <3> QED BY <3>1, <3>2, <3>4
  <2>5. \A gr \in Groups : u.par[gr] = NoItem => u.phs[gr] = <<>>
    BY <1>9, <1>10, <1>11, <1>12 DEF PhsOK, SameCore
  <2> QED BY <2>1, <2>2, <2>3, <2>4, <2>5 DEF PhsOK
<1>13. ~u.ph[x].set /\ \A y \in Regs : u.ph[y].set => t.ph[y].set
  BY <1>3, <1>6, <1>10
<1> QED BY <1>10, <1>11, <1>12, <1>13 DEF Fewer, u

\* A region goes for good.
LEMMA ForgetFacts ==
  ASSUME NEW t \in GroupStates, NEW x \in Regs
  PROVE  LET u == Forget(t, x) IN Fewer(u, t) /\ ~u.ph[x].set
<1> DEFINE v == IF t.ph[x].set THEN UnlinkPh(t, x) ELSE t
           p == [y \in Regs |-> IF v.ph[y].above = x THEN [v.ph[y] EXCEPT !.above = NoItem] ELSE v.ph[y]]
           u == Forget(t, x)
<1>1. u = [v EXCEPT !.ph = p]
  BY DEF Forget
<1>2. Fewer(v, t) /\ ~v.ph[x].set
  <2>1. CASE t.ph[x].set
    BY <2>1, UnlinkFacts
  <2>2. CASE ~t.ph[x].set
    BY <2>2 DEF Fewer, SameCore
  <2> QED BY <2>1, <2>2
<1> HIDE DEF v, u
<1>3. v \in GroupStates
  BY <1>2 DEF Fewer, SameCore
<1>4. p \in [Regs -> PhStates] /\ \A y \in Regs : p[y].set = v.ph[y].set
  <2>1. ASSUME NEW y \in Regs PROVE p[y] \in PhStates /\ p[y].set = v.ph[y].set
    <3>1. v.ph[y] \in PhStates
      BY <1>3 DEF GroupStates
    <3> QED BY <3>1 DEF PhStates
  <2> QED BY <2>1
<1> HIDE DEF p
<1>5. /\ u \in GroupStates /\ u.ph = p /\ u.phs = v.phs /\ u.detached = v.detached /\ u.shown = v.shown
      /\ u.par = v.par
  BY <1>1, <1>3, <1>4 DEF GroupStates
<1>6. SameCore(u, v)
  <2>1. /\ u.list = v.list /\ u.order = v.order /\ u.level = v.level
        /\ u.above = v.above /\ u.mgr = v.mgr
    BY <1>1, <1>3 DEF GroupStates
  <2>2. /\ u.managed = v.managed
        /\ u.bottom = v.bottom /\ u.current = v.current /\ u.stdisp = v.stdisp
    BY <1>1, <1>3 DEF GroupStates
  <2> QED BY <1>5, <2>1, <2>2 DEF SameCore
<1>7. Fewer(u, v)
  <2>1. PhsOK(v) => PhsOK(u)
    BY <1>4, <1>5 DEF PhsOK
  <2> QED BY <1>4, <1>5, <1>6, <2>1 DEF Fewer
<1>8. Fewer(u, t)
  BY <1>2, <1>7, FewerTwice
<1> QED BY <1>2, <1>4, <1>5, <1>8 DEF u

\* One turn of the loops over regions: op says which
Turn(op, a, b, t, x) ==
  IF op = "forget" THEN Forget(t, x)
  ELSE IF op = "remove" THEN group_managed_remove(t, x, a)
  ELSE group_do_attach_final(t, IF x \in Tilings THEN a ELSE b, x,
                             [level |-> 0, above |-> NoItem, bottom |-> x \in Tilings,
                              switchto |-> FALSE], FALSE)

\* f has what N turns lead to, one after the other
Turns(f, op, a, b, t, xs, N) ==
  f = [k \in 0 .. N |-> IF k = 0 THEN t ELSE Turn(op, a, b, f[k-1], xs[k])]

LEMMA TurnsFacts ==
  ASSUME NEW f, NEW op, NEW a, NEW b, NEW t, NEW xs, NEW N \in Nat, Turns(f, op, a, b, t, xs, N)
  PROVE  f[0] = t /\ \A k \in 1 .. N : f[k] = Turn(op, a, b, f[k-1], xs[k])
<1>1. 0 \in 0 .. N /\ \A k \in 1 .. N : k \in 0 .. N /\ k # 0
  OBVIOUS
<1>2. \A k \in 0 .. N : f[k] = IF k = 0 THEN t ELSE Turn(op, a, b, f[k-1], xs[k])
  BY DEF Turns
<1> QED BY <1>1, <1>2

LEMMA TurnsExist ==
  ASSUME NEW op, NEW a, NEW b, NEW t, NEW xs, NEW N \in Nat
  PROVE  \E f : Turns(f, op, a, b, t, xs, N)
<1> DEFINE P == {n \in Nat : \E f : Turns(f, op, a, b, t, xs, n)}
<1>1. 0 \in P
  <2>1. Turns([n \in 0 .. 0 |-> t], op, a, b, t, xs, 0)
    BY DEF Turns
  <2> QED BY <2>1
<1>2. ASSUME NEW n \in 1 .. N, n - 1 \in P PROVE n \in P
  <2>1. PICK f : Turns(f, op, a, b, t, xs, n - 1)
    BY <1>2
  <2>2. n - 1 \in Nat /\ n \in Nat /\ n # 0
    OBVIOUS
  <2>3. f[0] = t /\ \A k \in 1 .. n - 1 : f[k] = Turn(op, a, b, f[k - 1], xs[k])
    BY <2>1, <2>2, TurnsFacts
  <2> DEFINE new == Turn(op, a, b, f[n - 1], xs[n])
             h == [k \in 0 .. n |-> IF k = n THEN new ELSE f[k]]
  <2> HIDE DEF new
  <2>4. ASSUME NEW k \in 0 .. n
        PROVE  h[k] = IF k = 0 THEN t ELSE Turn(op, a, b, h[k - 1], xs[k])
    <3>1. CASE k = 0
      BY <2>2, <2>3, <3>1
    <3>2. CASE k = n
      <4>1. h[k] = new /\ h[k - 1] = f[n - 1] /\ k # 0
        BY <2>2, <3>2
      <4> QED BY <3>2, <4>1 DEF new
    <3>3. CASE k # 0 /\ k # n
      <4>1. k \in 1 .. n - 1 /\ h[k] = f[k] /\ h[k - 1] = f[k - 1]
        BY <2>2, <3>3
      <4> QED BY <2>3, <3>3, <4>1
    <3> QED BY <3>1, <3>2, <3>3
  <2>5. h = [k \in 0 .. n |-> h[k]]
    OBVIOUS
  <2> HIDE DEF h
  <2>6. Turns(h, op, a, b, t, xs, n)
    BY <2>4, <2>5 DEF Turns
  <2> QED BY <2>2, <2>6
<1>3. N \in P
  <2> HIDE DEF P
  <2>1. \A n \in 0 .. N : n \in P
    BY <1>1, <1>2, UpTo
  <2> QED BY <2>1
<1> QED BY <1>3

\* Each of the three loops goes on turn by turn.
LEMMA ForgetTurns ==
  ASSUME NEW t, NEW S, NEW xs \in Seq(S)
  PROVE  \E f : /\ ForgetAll(t, xs) = f[Len(xs)] /\ f[0] = t
                /\ \A k \in 1 .. Len(xs) : f[k] = Forget(f[k-1], xs[k])
<1> DEFINE N == Len(xs)
           Is(f) == f = [k \in 0 .. N |-> IF k = 0 THEN t ELSE Forget(f[k-1], xs[k])]
           u == CHOOSE f : Is(f)
<1>1. N \in Nat
  OBVIOUS
<1>2. PICK f : Turns(f, "forget", FALSE, FALSE, t, xs, N)
  BY <1>1, TurnsExist
<1>3. Is(f)
  BY <1>2 DEF Turns, Turn
<1>4. Is(u)
  BY <1>3
<1>5. ForgetAll(t, xs) = u[N]
  BY DEF ForgetAll
<1> HIDE DEF u
<1>6. \A k \in 0 .. N : u[k] = IF k = 0 THEN t ELSE Forget(u[k-1], xs[k])
  BY <1>4
<1>7. 0 \in 0 .. N /\ \A k \in 1 .. N : k \in 0 .. N /\ k # 0
  BY <1>1
<1> HIDE DEF N, Is
<1>8. u[0] = t /\ \A k \in 1 .. N : u[k] = Forget(u[k-1], xs[k])
  BY <1>6, <1>7
<1> QED BY <1>5, <1>8 DEF N

\* f has what removing regions one by one leads to
RemoveBy(f, t, xs, mcf) ==
  /\ RemoveAll(t, xs, mcf) = f[Len(xs)] /\ f[0] = t
  /\ \A k \in 1 .. Len(xs) : f[k] = group_managed_remove(f[k-1], xs[k], mcf)

LEMMA RemoveTurns ==
  ASSUME NEW t, NEW S, NEW xs \in Seq(S), NEW mcf \in BOOLEAN
  PROVE  \E f : RemoveBy(f, t, xs, mcf)
<1> DEFINE N == Len(xs)
           Is(f) == f = [k \in 0 .. N |-> IF k = 0 THEN t ELSE group_managed_remove(f[k-1], xs[k], mcf)]
           u == CHOOSE f : Is(f)
<1>1. N \in Nat
  OBVIOUS
<1>2. PICK f : Turns(f, "remove", mcf, FALSE, t, xs, N)
  BY <1>1, TurnsExist
<1>3. Is(f)
  BY <1>2 DEF Turns, Turn
<1>4. Is(u)
  BY <1>3
<1>5. RemoveAll(t, xs, mcf) = u[N]
  BY DEF RemoveAll
<1> HIDE DEF u
<1>6. \A k \in 0 .. N : u[k] = IF k = 0 THEN t ELSE group_managed_remove(u[k-1], xs[k], mcf)
  BY <1>4
<1>7. 0 \in 0 .. N /\ \A k \in 1 .. N : k \in 0 .. N /\ k # 0
  BY <1>1
<1> HIDE DEF N, Is
<1>8. u[0] = t /\ \A k \in 1 .. N : u[k] = group_managed_remove(u[k-1], xs[k], mcf)
  BY <1>6, <1>7
<1> QED BY <1>5, <1>8 DEF N, RemoveBy

\* How a region of those that are there at first is attached
First(x) == [level |-> 0, above |-> NoItem, bottom |-> x \in Tilings, switchto |-> FALSE]

\* f has what putting regions where they are at first leads to
PutBy(f, t, ws, cw, xs) ==
  /\ PutAll(t, ws, cw, xs) = f[Len(xs)] /\ f[0] = t
  /\ \A k \in 1 .. Len(xs) :
       f[k] = group_do_attach_final(f[k-1], IF xs[k] \in Tilings THEN ws ELSE cw, xs[k],
                                    First(xs[k]), FALSE)

LEMMA PutTurns ==
  ASSUME NEW t, NEW S, NEW xs \in Seq(S), NEW ws, NEW cw
  PROVE  \E f : PutBy(f, t, ws, cw, xs)
<1> DEFINE N == Len(xs)
           Put(s, x) == group_do_attach_final(s, IF x \in Tilings THEN ws ELSE cw, x,
                          [level |-> 0, above |-> NoItem, bottom |-> x \in Tilings,
                           switchto |-> FALSE], FALSE)
           Is(f) == f = [k \in 0 .. N |-> IF k = 0 THEN t ELSE Put(f[k-1], xs[k])]
           u == CHOOSE f : Is(f)
<1>1. N \in Nat
  OBVIOUS
<1>2. PICK f : Turns(f, "put", ws, cw, t, xs, N)
  BY <1>1, TurnsExist
<1>3. Is(f)
  BY <1>2 DEF Turns, Turn
<1>4. Is(u)
  BY <1>3
<1>5. PutAll(t, ws, cw, xs) = u[N]
  BY DEF PutAll
<1> HIDE DEF u, Put
<1>6. \A k \in 0 .. N : u[k] = IF k = 0 THEN t ELSE Put(u[k-1], xs[k])
  BY <1>4
<1>7. 0 \in 0 .. N /\ \A k \in 1 .. N : k \in 0 .. N /\ k # 0
  BY <1>1
<1> HIDE DEF N, Is
<1>8. u[0] = t /\ \A k \in 1 .. N : u[k] = Put(u[k-1], xs[k])
  BY <1>6, <1>7
<1>9. /\ u[0] = t
      /\ \A k \in 1 .. N : u[k] = group_do_attach_final(u[k-1], IF xs[k] \in Tilings THEN ws ELSE cw, xs[k],
                                                        First(xs[k]), FALSE)
  BY <1>8 DEF Put, First
<1> QED BY <1>5, <1>9 DEF N, PutBy

\* Regions go for good.
LEMMA ForgetAllFacts ==
  ASSUME NEW t \in GroupStates, NEW xs \in Seq(Items), Range(xs) \subseteq Regs
  PROVE  Fewer(ForgetAll(t, xs), t)
<1> DEFINE N == Len(xs)
<1>1. N \in Nat /\ DOMAIN xs = 1 .. N
  OBVIOUS
<1>2. PICK f : /\ ForgetAll(t, xs) = f[N] /\ f[0] = t
               /\ \A k \in 1 .. N : f[k] = Forget(f[k-1], xs[k])
  BY ForgetTurns
<1> DEFINE P == {k \in Nat : Fewer(f[k], t)}
<1> HIDE DEF N
<1>3. 0 \in P
  BY <1>2 DEF Fewer, SameCore
<1>4. ASSUME NEW k \in 1 .. N, k - 1 \in P PROVE k \in P
  <2>1. Fewer(f[k-1], t) /\ k \in Nat
    BY <1>4
  <2>2. xs[k] \in Regs
    BY <1>1 DEF Range
  <2> DEFINE s == f[k-1]
             x == xs[k]
  <2>3. s \in GroupStates
    BY <2>1 DEF Fewer, SameCore
  <2>4. f[k] = Forget(s, x)
    BY <1>2
  <2> HIDE DEF s, x
  <2>5. Fewer(f[k], s)
    BY <2>2, <2>3, <2>4, ForgetFacts DEF x
  <2>6. Fewer(f[k], t)
    BY <2>1, <2>5, FewerTwice DEF s
  <2> QED BY <2>1, <2>6
<1>5. N \in P
  <2> HIDE DEF P
  <2>1. \A n \in 0 .. N : n \in P
    BY <1>1, <1>3, <1>4, UpTo
  <2> QED BY <1>1, <2>1
<1> QED BY <1>2, <1>5

\* Two steps out of the groups.
LEMMA OutTwice ==
  ASSUME NEW t, Core(t), NEW s, NEW u, NEW A, NEW B, A \subseteq Regs, Out(s, t, A), Out(u, s, B)
  PROVE  Out(u, t, A \cup B)
<1>1. Aside(u, t) /\ (HomeShows(t) => HomeShows(s)) /\ Core(u)
  BY DEF Out, Aside, HomeShows
<1>2. /\ \A r \in Regs : u.level[r] = t.level[r]
      /\ \A r \in A \cup B : u.mgr[r] = NoItem
      /\ \A r \in Regs \ (A \cup B) : u.mgr[r] = t.mgr[r]
  BY DEF Out
<1>3. \A h \in Groups : t.bottom[h] \notin A \cup B => u.bottom[h] = t.bottom[h]
  BY DEF Out
<1>4. ASSUME HomeShows(t), STDispWith(t) \/ BottomGoes(t, A \cup B) PROVE STDispWith(u)
  <2>1. CASE STDispWith(t) \/ BottomGoes(t, A)
    BY <1>1, <1>4, <2>1 DEF Out
  <2>2. CASE BottomGoes(t, B) /\ ~BottomGoes(t, A)
    <3>1. s.shown = t.shown /\ t.shown[Home] # NoItem /\ Core(t)
      BY <2>2 DEF BottomGoes, Out, Aside
    <3>2. t.shown[Home] \in Groups
      BY <3>1, GroupsAssumption DEF Core, Body, GroupStates
    <3>3. BottomGoes(s, B)
      BY <2>2, <3>1, <3>2 DEF BottomGoes, Out
    <3> QED BY <1>1, <1>4, <3>3 DEF Out
  <2> QED BY <1>4, <2>1, <2>2 DEF BottomGoes
<1> QED BY <1>1, <1>2, <1>3, <1>4 DEF Out

\* The regions of a group leave it one by one.
LEMMA RemoveAllFacts ==
  ASSUME NEW t, Core(t), NEW gr \in Groups, NEW xs \in Seq(Items), IsInjective(xs), Range(xs) \subseteq Regs,
         \A x \in Range(xs) : t.mgr[x] = gr, NEW mcf \in BOOLEAN
  PROVE  Out(RemoveAll(t, xs, mcf), t, Range(xs))
<1> DEFINE N == Len(xs)
           upto(k) == {xs[i] : i \in 1 .. k}
<1>1. N \in Nat /\ DOMAIN xs = 1 .. N
  OBVIOUS
<1>2. PICK f : RemoveBy(f, t, xs, mcf)
  <2>1. xs \in Seq(Items) /\ mcf \in BOOLEAN
    OBVIOUS
  <2> HIDE DEF N
  <2> QED BY <2>1, RemoveTurns
<1>7. /\ RemoveAll(t, xs, mcf) = f[N] /\ f[0] = t
      /\ \A k \in 1 .. N : f[k] = group_managed_remove(f[k-1], xs[k], mcf)
  BY <1>2 DEF RemoveBy
<1> DEFINE P == {k \in 0 .. N : Out(f[k], t, upto(k))}
<1> HIDE DEF N
<1>3. 0 \in P
  <2>1. upto(0) = {} /\ 0 \in 0 .. N
    BY <1>1
  <2>2. Out(t, t, {})
    BY DEF Out, Aside, BottomGoes
  <2> QED BY <1>7, <2>1, <2>2
<1>4. ASSUME NEW k \in 1 .. N, k - 1 \in P PROVE k \in P
  <2> DEFINE s == f[k-1]
             x == xs[k]
             A == upto(k - 1)
             B == {x}
  <2>1. Out(s, t, A) /\ k \in 0 .. N
    BY <1>1, <1>4
  <2>2. A \subseteq Regs /\ x \in Regs /\ x \in Range(xs)
    BY <1>1 DEF Range
  <2>3. x \notin A
    BY <1>1 DEF IsInjective
  <2>4. upto(k) = A \cup B
    <3>1. \A i \in 1 .. k : i \in 1 .. k - 1 \/ i = k
      BY <1>1
    <3>2. \A i \in 1 .. k - 1 : i \in 1 .. k
      BY <1>1
    <3> QED BY <1>1, <3>1, <3>2
  <2>5. f[k] = group_managed_remove(s, x, mcf)
    BY <1>7
  <2> HIDE DEF s, x, A, upto
  <2>6. Core(s) /\ s.mgr[x] \in Groups
    BY <2>1, <2>2, <2>3 DEF Out
  <2>7. Out(f[k], s, B)
    BY <2>2, <2>5, <2>6, RemoveFacts
  <2> HIDE DEF B
  <2>8. Out(f[k], t, A \cup B)
    BY <2>1, <2>2, <2>7, OutTwice
  <2> QED BY <2>1, <2>4, <2>8
<1>5. N \in P
  <2> HIDE DEF P
  <2>1. \A n \in 0 .. N : n \in P
    BY <1>1, <1>3, <1>4, UpTo
  <2> QED BY <1>1, <2>1
<1>6. upto(N) = Range(xs)
  BY <1>1 DEF Range
<1> QED BY <1>5, <1>6, <1>7

\* The placeholders of a group that goes.
LEMMA MigrateFacts ==
  ASSUME NEW t \in GroupStates, NEW gr \in Groups
  PROVE  LET u == Migrate(t, gr) IN Fewer(u, t) /\ u.phs[gr] = <<>>
<1> DEFINE l == t.phs[gr]
           q == [t.phs EXCEPT ![gr] = <<>>]
           u == Migrate(t, gr)
<1>1. /\ t.ph \in [Regs -> PhStates] /\ t.phs \in [Groups -> Seq(Regs)]
      /\ t.detached \in SUBSET Seq(Regs) /\ l \in Seq(Regs)
  BY DEF GroupStates
<1>2. /\ q \in [Groups -> Seq(Regs)] /\ q[gr] = <<>> /\ Range(q[gr]) = {}
      /\ \A h \in Groups : h # gr => q[h] = t.phs[h]
  BY <1>1 DEF Range
<1>3. CASE l = <<>>
  <2>1. u = t
    BY <1>3 DEF Migrate
  <2> HIDE DEF u
  <2> QED BY <1>3, <2>1 DEF Fewer, SameCore, u
<1>4. CASE l # <<>> /\ gr \in CWGroups
  <2> DEFINE d == t.detached \cup {l}
  <2>1. u = [t EXCEPT !.detached = d, !.phs = q]
    <3>1. u = [t EXCEPT !.detached = @ \cup {t.phs[gr]}, !.phs[gr] = <<>>]
      BY <1>4 DEF Migrate
    <3> QED BY <3>1
  <2>2. d \in SUBSET Seq(Regs)
    BY <1>1
  <2> HIDE DEF u, q, d
  <2>3. u \in GroupStates /\ u.ph = t.ph /\ u.phs = q /\ u.detached = d /\ u.shown = t.shown /\ u.par = t.par
    BY <1>2, <2>1, <2>2 DEF GroupStates
  <2>4. SameCore(u, t)
    <3>1. /\ u.list = t.list /\ u.order = t.order /\ u.level = t.level
          /\ u.above = t.above /\ u.mgr = t.mgr
      BY <2>1 DEF GroupStates
    <3>2. /\ u.managed = t.managed
          /\ u.bottom = t.bottom /\ u.current = t.current /\ u.stdisp = t.stdisp
      BY <2>1 DEF GroupStates
    <3> QED BY <2>3, <3>1, <3>2 DEF SameCore
  <2>5. ASSUME PhsOK(t) PROVE PhsOK(u)
    <3>1. ASSUME NEW y \in Regs
          PROVE  u.ph[y].set <=> \/ \E h \in Groups : y \in Range(u.phs[h])
                                 \/ \E m \in u.detached : y \in Range(m)
      <4>1. (\E m \in d : y \in Range(m)) <=> (\E m \in t.detached : y \in Range(m)) \/ y \in Range(l)
        BY DEF d
      <4>2. (\E h \in Groups : y \in Range(q[h])) \/ y \in Range(l) <=> (\E h \in Groups : y \in Range(t.phs[h]))
        BY <1>2
      <4> QED BY <2>3, <2>5, <4>1, <4>2 DEF PhsOK
    <3>2. ASSUME NEW h \in Groups, NEW i \in Groups, h # i PROVE Range(u.phs[h]) \cap Range(u.phs[i]) = {}
      <4>1. Range(t.phs[h]) \cap Range(t.phs[i]) = {}
        BY <2>5, <3>2 DEF PhsOK
      <4>2. Range(q[h]) \in {{}, Range(t.phs[h])} /\ Range(q[i]) \in {{}, Range(t.phs[i])}
        BY <1>2
      <4> QED BY <2>3, <4>1, <4>2
    <3>3. ASSUME NEW h \in Groups, NEW m \in u.detached PROVE Range(u.phs[h]) \cap Range(m) = {}
      <4>1. CASE h = gr
        BY <1>2, <2>3, <4>1
      <4>2. CASE h # gr /\ m = l
        BY <1>2, <2>3, <2>5, <4>2 DEF PhsOK
      <4>3. CASE h # gr /\ m # l
        BY <1>2, <2>3, <2>5, <4>3 DEF PhsOK, d
      <4> QED BY <4>1, <4>2, <4>3
    <3>4. ASSUME NEW m \in u.detached, NEW n \in u.detached, m # n PROVE Range(m) \cap Range(n) = {}
      BY <1>2, <2>3, <2>5, <3>4 DEF PhsOK, d
    <3>5. \A h \in Groups : u.par[h] = NoItem => u.phs[h] = <<>>
      BY <1>2, <2>3, <2>5 DEF PhsOK
    <3> QED BY <3>1, <3>2, <3>3, <3>4, <3>5 DEF PhsOK
  <2> QED BY <1>2, <2>3, <2>4, <2>5 DEF Fewer, u
<1>5. CASE l # <<>> /\ gr \notin CWGroups
  <2> DEFINE p == [y \in Regs |-> IF y \in Range(l) THEN NoPh ELSE t.ph[y]]
  <2>1. u = [t EXCEPT !.phs = q, !.ph = p]
    <3>1. u = [t EXCEPT !.phs[gr] = <<>>,
                 !.ph = [y \in Regs |-> IF y \in Range(t.phs[gr]) THEN NoPh ELSE @[y]]]
      BY <1>5 DEF Migrate
    <3> QED BY <3>1
  <2>2. p \in [Regs -> PhStates] /\ \A y \in Regs : p[y].set <=> t.ph[y].set /\ y \notin Range(l)
    <3>1. NoPh \in PhStates /\ ~NoPh.set
      BY DEF NoPh, PhStates
    <3>2. \A y \in Regs : t.ph[y].set \in BOOLEAN
      BY <1>1 DEF PhStates
    <3> QED BY <1>1, <3>1, <3>2
  <2> HIDE DEF u, q, p
  <2>3. u \in GroupStates /\ u.ph = p /\ u.phs = q /\ u.detached = t.detached /\ u.shown = t.shown /\ u.par = t.par
    BY <1>2, <2>1, <2>2 DEF GroupStates
  <2>4. SameCore(u, t)
    <3>1. /\ u.list = t.list /\ u.order = t.order /\ u.level = t.level
          /\ u.above = t.above /\ u.mgr = t.mgr
      BY <2>1 DEF GroupStates
    <3>2. /\ u.managed = t.managed
          /\ u.bottom = t.bottom /\ u.current = t.current /\ u.stdisp = t.stdisp
      BY <2>1 DEF GroupStates
    <3> QED BY <2>3, <3>1, <3>2 DEF SameCore
  <2>5. ASSUME PhsOK(t) PROVE PhsOK(u)
    <3>1. ASSUME NEW y \in Regs
          PROVE  u.ph[y].set <=> \/ \E h \in Groups : y \in Range(u.phs[h])
                                 \/ \E m \in u.detached : y \in Range(m)
      <4>1. t.ph[y].set <=> \/ \E h \in Groups : y \in Range(t.phs[h])
                            \/ \E m \in t.detached : y \in Range(m)
        BY <2>5 DEF PhsOK
      <4>2. CASE y \in Range(l)
        <5>1. \A h \in Groups : y \notin Range(u.phs[h])
          BY <1>2, <2>3, <2>5, <4>2 DEF PhsOK
        <5>2. \A m \in u.detached : y \notin Range(m)
          BY <2>3, <2>5, <4>2 DEF PhsOK
        <5> QED BY <2>2, <2>3, <4>2, <5>1, <5>2
      <4>3. CASE y \notin Range(l)
        <5>1. (\E h \in Groups : y \in Range(q[h])) <=> (\E h \in Groups : y \in Range(t.phs[h]))
          BY <1>2, <4>3
        <5> QED BY <2>2, <2>3, <4>1, <4>3, <5>1
      <4> QED BY <4>2, <4>3
    <3>2. ASSUME NEW h \in Groups, NEW i \in Groups, h # i PROVE Range(u.phs[h]) \cap Range(u.phs[i]) = {}
      <4>1. Range(t.phs[h]) \cap Range(t.phs[i]) = {}
        BY <2>5, <3>2 DEF PhsOK
      <4>2. Range(q[h]) \in {{}, Range(t.phs[h])} /\ Range(q[i]) \in {{}, Range(t.phs[i])}
        BY <1>2
      <4> QED BY <2>3, <4>1, <4>2
    <3>3. ASSUME NEW h \in Groups, NEW m \in u.detached PROVE Range(u.phs[h]) \cap Range(m) = {}
      BY <1>2, <2>3, <2>5 DEF PhsOK
    <3>4. \A m, n \in u.detached : m # n => Range(m) \cap Range(n) = {}
      BY <2>3, <2>5 DEF PhsOK
    <3>5. \A h \in Groups : u.par[h] = NoItem => u.phs[h] = <<>>
      BY <1>2, <2>3, <2>5 DEF PhsOK
    <3> QED BY <3>1, <3>2, <3>3, <3>4, <3>5 DEF PhsOK
  <2> QED BY <1>2, <2>2, <2>3, <2>4, <2>5 DEF Fewer, u
<1> QED BY <1>3, <1>4, <1>5

\* The placeholder of a region.
LEMMA MakeFacts ==
  ASSUME NEW t \in GroupStates, NEW gr \in Groups, NEW x \in Regs
  PROVE  LET u == MakePh(t, gr, x)
         IN /\ SameCore(u, t) /\ u.shown = t.shown
            /\ PhsOK(t) /\ t.par[gr] # NoItem /\ ~t.ph[x].set => PhsOK(u)
            /\ \A y \in Regs \ {x} : u.ph[y] = t.ph[y]
<1> DEFINE e == [set |-> TRUE, level |-> t.level[x], bottom |-> t.bottom[gr] = x, above |-> t.above[x]]
           l == <<x>> \o t.phs[gr]
           p == [t.ph EXCEPT ![x] = e]
           q == [t.phs EXCEPT ![gr] = l]
           u == MakePh(t, gr, x)
<1>1. u = [t EXCEPT !.ph = p, !.phs = q]
  <2>1. u = [t EXCEPT !.ph[x] = e, !.phs[gr] = <<x>> \o @]
    BY DEF MakePh
  <2> QED BY <2>1
<1>2. /\ t.ph \in [Regs -> PhStates] /\ t.phs \in [Groups -> Seq(Regs)]
      /\ t.level[x] \in Nat /\ t.above[x] \in Regs \cup {NoItem} /\ t.phs[gr] \in Seq(Regs)
  BY DEF GroupStates, Items
<1>3. e \in PhStates /\ e.set
  BY <1>2 DEF PhStates
<1>4. l \in Seq(Regs) /\ Range(l) = {x} \cup Range(t.phs[gr])
  <2> DEFINE m == t.phs[gr]
  <2>1. m \in Seq(Regs) /\ Len(m) \in Nat /\ DOMAIN m = 1 .. Len(m)
    BY <1>2
  <2> HIDE DEF m
  <2> DEFINE k == <<x>> \o m
  <2>2. k \in Seq(Regs) /\ DOMAIN k = 1 .. Len(m) + 1 /\ k[1] = x /\ \A i \in 1 .. Len(m) : k[i + 1] = m[i]
    BY <2>1
  <2> HIDE DEF k
  <2>3. \A i \in 1 .. Len(m) + 1 : i = 1 \/ (i - 1 \in 1 .. Len(m) /\ i - 1 + 1 = i)
    BY <2>1
  <2>4. 1 \in 1 .. Len(m) + 1 /\ \A i \in 1 .. Len(m) : i + 1 \in 1 .. Len(m) + 1
    BY <2>1
  <2>5. ASSUME NEW a \in Range(k) PROVE a = x \/ a \in Range(m)
    <3>1. PICK i \in 1 .. Len(m) + 1 : k[i] = a
      BY <2>2 DEF Range
    <3>2. CASE i = 1
      BY <2>2, <3>1, <3>2
    <3>3. CASE i # 1
      <4>1. i - 1 \in 1 .. Len(m) /\ k[i - 1 + 1] = m[i - 1] /\ i - 1 + 1 = i
        BY <2>2, <2>3, <3>3
      <4> QED BY <2>1, <3>1, <4>1 DEF Range
    <3> QED BY <3>2, <3>3
  <2>6. x \in Range(k) /\ Range(m) \subseteq Range(k)
    BY <2>1, <2>2, <2>4 DEF Range
  <2>7. Range(k) = {x} \cup Range(m)
    BY <2>5, <2>6
  <2> QED BY <2>2, <2>7 DEF k, m
<1> HIDE DEF e, l
<1>5. p \in [Regs -> PhStates] /\ p[x] = e /\ \A y \in Regs \ {x} : p[y] = t.ph[y]
  BY <1>2, <1>3
<1>6. q \in [Groups -> Seq(Regs)] /\ q[gr] = l /\ \A h \in Groups : h # gr => q[h] = t.phs[h]
  BY <1>2, <1>4
<1> HIDE DEF p, q, u
<1>7. u \in GroupStates /\ u.ph = p /\ u.phs = q /\ u.detached = t.detached /\ u.shown = t.shown /\ u.par = t.par
  BY <1>1, <1>5, <1>6 DEF GroupStates
<1>8. SameCore(u, t)
  <2>1. /\ u.list = t.list /\ u.order = t.order /\ u.level = t.level
        /\ u.above = t.above /\ u.mgr = t.mgr
    BY <1>1 DEF GroupStates
  <2>2. /\ u.managed = t.managed
        /\ u.bottom = t.bottom /\ u.current = t.current /\ u.stdisp = t.stdisp
    BY <1>1 DEF GroupStates
  <2> QED BY <1>7, <2>1, <2>2 DEF SameCore
<1>9. ASSUME PhsOK(t), t.par[gr] # NoItem, ~t.ph[x].set PROVE PhsOK(u)
  <2>1. /\ \A h \in Groups : x \notin Range(t.phs[h])
        /\ \A m \in t.detached : x \notin Range(m)
    BY <1>9 DEF PhsOK
  <2>2. ASSUME NEW y \in Regs
        PROVE  u.ph[y].set <=> \/ \E h \in Groups : y \in Range(u.phs[h])
                               \/ \E m \in u.detached : y \in Range(m)
    <3>1. CASE y = x
      BY <1>3, <1>4, <1>5, <1>6, <1>7, <3>1
    <3>2. CASE y # x
      <4>1. (\E h \in Groups : y \in Range(q[h])) <=> (\E h \in Groups : y \in Range(t.phs[h]))
        BY <1>4, <1>6, <3>2
      <4> QED BY <1>5, <1>7, <1>9, <3>2, <4>1 DEF PhsOK
    <3> QED BY <3>1, <3>2
  <2>3. ASSUME NEW h \in Groups, NEW i \in Groups, h # i PROVE Range(u.phs[h]) \cap Range(u.phs[i]) = {}
    <3>1. Range(t.phs[h]) \cap Range(t.phs[i]) = {} /\ x \notin Range(t.phs[h]) /\ x \notin Range(t.phs[i])
      BY <1>9, <2>1, <2>3 DEF PhsOK
    <3>2. CASE h = gr
      <4>1. Range(q[h]) = {x} \cup Range(t.phs[h]) /\ q[i] = t.phs[i]
        BY <1>4, <1>6, <2>3, <3>2
      <4> QED BY <1>7, <3>1, <4>1
    <3>3. CASE i = gr
      <4>1. Range(q[i]) = {x} \cup Range(t.phs[i]) /\ q[h] = t.phs[h]
        BY <1>4, <1>6, <2>3, <3>3
      <4> QED BY <1>7, <3>1, <4>1
    <3>4. CASE h # gr /\ i # gr
      BY <1>6, <1>7, <3>1, <3>4
    <3> QED BY <3>2, <3>3, <3>4
  <2>4. ASSUME NEW h \in Groups, NEW m \in u.detached PROVE Range(u.phs[h]) \cap Range(m) = {}
    BY <1>4, <1>6, <1>7, <1>9, <2>1 DEF PhsOK
  <2>5. \A m, n \in u.detached : m # n => Range(m) \cap Range(n) = {}
    BY <1>7, <1>9 DEF PhsOK
  <2>6. \A h \in Groups : u.par[h] = NoItem => u.phs[h] = <<>>
    BY <1>6, <1>7, <1>9 DEF PhsOK
  <2> QED BY <2>2, <2>3, <2>4, <2>5, <2>6 DEF PhsOK
<1> QED BY <1>5, <1>7, <1>8, <1>9 DEF u

-----------------------------------------------------------------------------
(* Groups come and go *)

\* From t to u no region gets into a group or a placeholder
Lesser(u, t) ==
  \A r \in Regs : u.mgr[r] \in {t.mgr[r], NoItem} /\ (u.ph[r].set => t.ph[r].set)

\* A group goes, with what is left in it.
LEMMA DestroyFacts ==
  ASSUME NEW t, Core(t), PhsOK(t), NEW gr \in Groups, t.par[gr] # NoItem,
         t.mgr[STDisp] \notin Managed(t, gr) \cup {gr}, t.phs[gr] = <<>>
  PROVE  LET u == DestroyRest(t, gr)
         IN /\ Core(u) /\ PhsOK(u) /\ u.par = [t.par EXCEPT ![gr] = NoItem] /\ u.shown = t.shown
            /\ Lesser(u, t)
            /\ t.shown[Home] # gr /\ STDispWith(t) => STDispWith(u)
<1> DEFINE rest == Managed(t, gr)
           w == t.par[gr]
           xs == t.managed[gr]
           l == Without(t.list[w], rest)
           o == Without(t.order[w], rest)
           m == [x \in Items |-> IF x \in rest THEN NoItem ELSE t.mgr[x]]
           f == [x \in Items |-> IF t.above[x] \in rest THEN NoItem ELSE t.above[x]]
           d == [t EXCEPT !.list[w] = l, !.order[w] = o, !.managed[gr] = <<>>,
                          !.mgr = m, !.above = f,
                          !.bottom[gr] = NoItem, !.current[gr] = NoItem, !.par[gr] = NoItem]
           u == DestroyRest(t, gr)
<1>1. /\ t \in GroupStates /\ Body(t) /\ STDispOK(t) /\ STDisp \notin Regs /\ NoItem \notin Groups
      /\ Items = Regs \cup {STDisp} /\ NoItem \notin Items /\ w \in Wins /\ STDisp \in Items
      /\ NoItem \notin Wins
  BY GroupsAssumption DEF Core, Body, Items, GroupStates
<1>2. u = ForgetAll(d, xs)
  <2>1. u = ForgetAll([t EXCEPT !.list[w] = Without(@, rest), !.order[w] = Without(@, rest), !.managed[gr] = <<>>,
                 !.mgr = [x \in Items |-> IF x \in rest THEN NoItem ELSE @[x]],
                 !.above = [x \in Items |-> IF @[x] \in rest THEN NoItem ELSE @[x]],
                 !.bottom[gr] = NoItem, !.current[gr] = NoItem, !.par[gr] = NoItem], xs)
    BY DEF DestroyRest
  <2> QED BY <2>1
<1>3. /\ xs \in Seq(Items) /\ rest = Range(xs)
      /\ \A x \in Items : x \in rest <=> t.mgr[x] = gr
  BY <1>1 DEF Body, ListOK, GroupStates, Managed
<1>4. rest \subseteq Items
  BY <1>3, RangeIn
<1>5. STDisp \notin rest /\ rest \subseteq Regs
  BY <1>1, <1>3, <1>4
<1>6. /\ t.list[w] \in Seq(Items) /\ t.order[w] \in Seq(Items)
      /\ t.mgr \in [Items -> Groups \cup Regs \cup {NoItem}] /\ t.above \in [Items -> Regs \cup {NoItem}]
  BY <1>1 DEF GroupStates
<1> HIDE DEF rest, xs, u, w
<1>7. l \in Seq(Items) /\ o \in Seq(Items)
  BY <1>6, WithoutFacts
<1>8. m \in [Items -> Groups \cup Regs \cup {NoItem}] /\ f \in [Items -> Regs \cup {NoItem}]
  BY <1>6
<1> HIDE DEF l, o, m, f
<1>9. d \in GroupStates
  <2> DEFINE e == <<>>
             c == [t EXCEPT !.list[w] = l, !.order[w] = o, !.managed[gr] = e, !.mgr = m]
  <2>1. e \in Seq(Items)
    OBVIOUS
  <2>2. d = [c EXCEPT !.above = f, !.bottom[gr] = NoItem, !.current[gr] = NoItem, !.par[gr] = NoItem]
    OBVIOUS
  <2> HIDE DEF e, d
  <2>3. c \in GroupStates
    BY <1>1, <1>7, <1>8, <2>1 DEF GroupStates
  <2> HIDE DEF c
  <2> QED BY <1>1, <1>8, <2>2, <2>3 DEF GroupStates
<1>10. /\ d.list = [t.list EXCEPT ![w] = l] /\ d.order = [t.order EXCEPT ![w] = o]
       /\ d.managed = [t.managed EXCEPT ![gr] = <<>>] /\ d.mgr = m /\ d.above = f
  BY <1>1, <1>7, <1>8 DEF GroupStates
<1>11. /\ d.bottom = [t.bottom EXCEPT ![gr] = NoItem] /\ d.current = [t.current EXCEPT ![gr] = NoItem]
       /\ d.par = [t.par EXCEPT ![gr] = NoItem] /\ d.level = t.level /\ d.stdisp = t.stdisp
  BY <1>1 DEF GroupStates
<1>12. d.shown = t.shown /\ d.ph = t.ph /\ d.phs = t.phs /\ d.detached = t.detached
  BY <1>1 DEF GroupStates
<1> HIDE DEF d
<1>13. /\ \A x \in Items : d.mgr[x] = IF x \in rest THEN NoItem ELSE t.mgr[x]
       /\ \A x \in Items : d.above[x] = IF t.above[x] \in rest THEN NoItem ELSE t.above[x]
       /\ \A h \in Groups : h # gr => /\ d.managed[h] = t.managed[h] /\ d.bottom[h] = t.bottom[h]
                                      /\ d.current[h] = t.current[h] /\ d.par[h] = t.par[h]
       /\ d.managed[gr] = <<>> /\ d.bottom[gr] = NoItem /\ d.current[gr] = NoItem /\ d.par[gr] = NoItem
  <2>1. /\ \A x \in Items : d.mgr[x] = IF x \in rest THEN NoItem ELSE t.mgr[x]
        /\ \A x \in Items : d.above[x] = IF t.above[x] \in rest THEN NoItem ELSE t.above[x]
    BY <1>10 DEF m, f
  <2>2. \A h \in Groups : h # gr => /\ d.managed[h] = t.managed[h] /\ d.bottom[h] = t.bottom[h]
                                    /\ d.current[h] = t.current[h] /\ d.par[h] = t.par[h]
    BY <1>1, <1>10, <1>11 DEF GroupStates
  <2>3. d.managed[gr] = <<>> /\ d.bottom[gr] = NoItem /\ d.current[gr] = NoItem /\ d.par[gr] = NoItem
    BY <1>1, <1>10, <1>11 DEF GroupStates
  <2> QED BY <2>1, <2>2, <2>3
<1>14. \A x \in Items, h \in Wins : In(d, x, h) <=> In(t, x, h) /\ x \notin rest
  <2>1. ASSUME NEW x \in Items, NEW h \in Wins PROVE In(d, x, h) <=> In(t, x, h) /\ x \notin rest
    <3>1. CASE x \in rest
      BY <1>1, <1>13, <3>1 DEF In
    <3>2. CASE x \notin rest
      <4>1. t.mgr[x] # gr /\ d.mgr[x] = t.mgr[x]
        BY <1>3, <1>13, <3>2
      <4> QED BY <1>13, <3>2, <4>1 DEF In
    <3> QED BY <3>1, <3>2
  <2> QED BY <2>1
<1>15. \A x \in Items : t.above[x] \in rest /\ t.mgr[x] \in Groups => x \in rest
  <2>1. ASSUME NEW x \in Items, t.above[x] \in rest, t.mgr[x] \in Groups PROVE x \in rest
    <3>1. x \in Regs
      BY <1>1, <1>4, <2>1 DEF Body
    <3>2. t.mgr[t.above[x]] = t.mgr[x]
      BY <1>1, <1>4, <2>1, <3>1 DEF Body, RegOK
    <3> QED BY <1>3, <1>4, <2>1, <3>2
  <2> QED BY <2>1
<1>16. ASSUME NEW h \in Wins PROVE StackOK(d, h)
  <2>1. CASE h # w
    <3>1. \A x \in Items : In(t, x, h) => x \notin rest
      BY <1>3, <2>1 DEF In, w
    <3>2. \A x \in Items : In(t, x, h) => d.level[x] = t.level[x] /\ d.above[x] = t.above[x]
      BY <1>11, <1>13, <1>15, <3>1 DEF In
    <3>3. d.list[h] = t.list[h] /\ d.order[h] = t.order[h]
      BY <1>1, <1>10, <2>1 DEF GroupStates
    <3>4. \A x \in Items : In(d, x, h) <=> In(t, x, h)
      BY <1>14, <3>1
    <3> QED BY <1>1, <1>9, <3>2, <3>3, <3>4, StackElsewhere
  <2>2. CASE h = w
    <3> DEFINE z == Z(t, w)
               y == Z(d, w)
    <3>1. StackOK(t, w)
      BY <1>1 DEF Body
    <3>2. Stacked(z)
      BY <3>1 DEF StackOK
    <3>3. /\ z.list = t.list[w] /\ z.order = t.order[w] /\ z.level = t.level /\ z.above = t.above
      BY DEF Z
    <3>4. d.list[w] = l /\ d.order[w] = o
      BY <1>1, <1>10 DEF GroupStates
    <3>5. y = [list |-> Without(z.list, rest), order |-> Without(z.order, rest), level |-> z.level, above |-> f]
      BY <1>10, <1>11, <3>3, <3>4 DEF Z, l, o
    <3>6. y.list = d.list[w]
      BY DEF Z
    <3> HIDE DEF z, y
    <3>7. \A x \in Range(z.list) \ rest : f[x] = IF z.above[x] \in rest THEN NoItem ELSE z.above[x]
      BY <1>6, <3>3, RangeIn DEF f
    <3>8. f \in [Items -> Items \cup {NoItem}]
      BY <1>1, <1>8
    <3>9. Stacked(y) /\ Range(y.list) = Range(z.list) \ rest
      BY <3>2, <3>5, <3>7, <3>8, LessStacked
    <3>10. \A x \in Items : x \in Range(d.list[w]) <=> In(d, x, w)
      BY <1>1, <1>14, <3>1, <3>3, <3>6, <3>9 DEF StackOK
    <3> QED BY <2>2, <3>9, <3>10 DEF StackOK, y
  <2> QED BY <2>1, <2>2
<1>17. ASSUME NEW h \in Groups PROVE ListOK(d, h)
  <2>1. ListOK(t, h)
    BY <1>1 DEF Body
  <2>2. CASE h = gr
    <3>1. IsInjective(<<>>) /\ Range(<<>>) = {}
      BY DEF IsInjective, Range
    <3>2. \A x \in Items : d.mgr[x] # gr
      BY <1>1, <1>3, <1>13
    <3> QED BY <1>13, <2>2, <3>1, <3>2 DEF ListOK
  <2>3. CASE h # gr
    <3>1. \A x \in Items : d.mgr[x] = h <=> t.mgr[x] = h
      BY <1>1, <1>3, <1>13, <2>3
    <3> QED BY <1>13, <2>1, <2>3, <3>1 DEF ListOK
  <2> QED BY <2>2, <2>3
<1>18. ASSUME NEW h \in Groups PROVE RefsOK(d, h)
  <2>1. RefsOK(t, h) /\ t.bottom[h] \in Regs \cup {NoItem} /\ t.current[h] \in Regs \cup {NoItem}
    BY <1>1 DEF Body, GroupStates
  <2>2. CASE h = gr
    BY <1>13, <2>2 DEF RefsOK
  <2>3. CASE h # gr
    BY <1>1, <1>3, <1>13, <2>1, <2>3 DEF RefsOK
  <2> QED BY <2>2, <2>3
<1>19. ASSUME NEW r \in Regs PROVE RegOK(d, r)
  <2>1. RegOK(t, r) /\ r \in Items /\ t.above[r] \in Regs \cup {NoItem}
    BY <1>1 DEF Body, GroupStates
  <2> QED BY <1>1, <1>13, <2>1 DEF RegOK
<1>20. d.above[STDisp] = NoItem
  BY <1>1, <1>13 DEF Body
<1>21. Body(d)
  BY <1>9, <1>16, <1>17, <1>18, <1>19, <1>20 DEF Body
<1>22. d.mgr[STDisp] = t.mgr[STDisp]
  BY <1>1, <1>5, <1>13
<1>23. STDispOK(d)
  BY <1>1, <1>11, <1>22 DEF STDispOK
<1>24. Core(d)
  BY <1>21, <1>23 DEF Core
<1>25. PhsOK(d)
  <2>1. \A h \in Groups : d.par[h] = NoItem => d.phs[h] = <<>>
    BY <1>12, <1>13 DEF PhsOK
  <2> QED BY <1>12, <2>1 DEF PhsOK
<1>26. Fewer(u, d)
  BY <1>2, <1>3, <1>5, <1>9, ForgetAllFacts
<1>27. SameCore(u, d) /\ u.shown = d.shown /\ PhsOK(u) /\ \A y \in Regs : u.ph[y].set => d.ph[y].set
  BY <1>25, <1>26 DEF Fewer
<1>28. Core(u)
  BY <1>24, <1>27, CoreSame
<1>29. Lesser(u, t)
  <2>1. u.mgr = d.mgr /\ \A y \in Regs : y \in Items
    BY <1>1, <1>27 DEF SameCore
  <2> QED BY <1>12, <1>13, <1>27, <2>1 DEF Lesser
<1>30. ASSUME t.shown[Home] # gr, STDispWith(t) PROVE STDispWith(u)
  <2>1. u.mgr = d.mgr /\ u.bottom = d.bottom /\ u.shown = t.shown
    BY <1>12, <1>27 DEF SameCore
  <2>2. Home \in Wins /\ t.shown[Home] \in Groups \cup {NoItem}
    BY <1>1, GroupsAssumption DEF GroupStates
  <2> QED BY <1>13, <1>22, <1>30, <2>1, <2>2 DEF STDispWith
<1> QED BY <1>11, <1>12, <1>27, <1>28, <1>29, <1>30 DEF u, SameCore

\* Apart from placeholders a state has all that is to be
Good(t) == Core(t) /\ PhsOK(t) /\ ShowsOK(t, NoItem)

\* No group, region or placeholder goes from one place to another
Kept(u, t) ==
  /\ u.par = t.par /\ u.ph = t.ph /\ u.phs = t.phs /\ u.detached = t.detached
  /\ \A r \in Regs : u.mgr[r] = t.mgr[r]

LEMMA KeptFacts ==
  ASSUME NEW t, NEW u, Kept(u, t)
  PROVE  Lesser(u, t) /\ (PhsOK(t) => PhsOK(u))
BY DEF Kept, Lesser, PhsOK

LEMMA LesserTwice ==
  ASSUME NEW t, NEW u, NEW v, Lesser(u, t), Lesser(v, u)
  PROVE  Lesser(v, t)
BY DEF Lesser

\* A multiplexer shows another group, or none.
Shown(t, w, h) == [t EXCEPT !.shown[w] = h]

LEMMA ShownFacts ==
  ASSUME NEW t, Core(t), NEW w \in Wins, NEW h \in Groups \cup {NoItem},
         NEW u, u = Shown(t, w, h)
  PROVE  Core(u) /\ Kept(u, t) /\ u.shown = [t.shown EXCEPT ![w] = h] /\ SameCore(u, t)
<1> USE DEF Shown
<1>1. t \in GroupStates
  BY DEF Core, Body
<1>2. /\ u \in GroupStates /\ u.shown = [t.shown EXCEPT ![w] = h]
      /\ u.par = t.par /\ u.ph = t.ph /\ u.phs = t.phs /\ u.detached = t.detached
  BY <1>1 DEF GroupStates
<1>3. SameCore(u, t)
  <2>1. /\ u.list = t.list /\ u.order = t.order /\ u.level = t.level
        /\ u.above = t.above /\ u.mgr = t.mgr
    BY <1>1 DEF GroupStates
  <2>2. /\ u.managed = t.managed
        /\ u.bottom = t.bottom /\ u.current = t.current /\ u.stdisp = t.stdisp
    BY <1>1 DEF GroupStates
  <2> QED BY <1>2, <2>1, <2>2 DEF SameCore
<1> QED BY <1>2, <1>3, CoreSame DEF Kept, SameCore

\* A multiplexer finds a manager for the status display when what it shows may be another group.
LEMMA RemanageKept ==
  ASSUME NEW t, Core(t), ShowsOK(t, NoItem)
  PROVE  LET u == mplex_remanage_stdisp(t)
         IN Core(u) /\ Kept(u, t) /\ ShowsOK(u, NoItem) /\ STDispWith(u)
<1> DEFINE u == mplex_remanage_stdisp(t)
<1>1. t.shown[Home] # NoItem => t.par[t.shown[Home]] = Home
  BY GroupsAssumption DEF ShowsOK
<1>2. Core(u) /\ Regular(u, t) /\ STDispWith(u)
  BY <1>1, RemanageFacts
<1> HIDE DEF u
<1>3. Kept(u, t) /\ ShowsOK(u, NoItem)
  BY <1>2 DEF Regular, Aside, Kept, ShowsOK
<1> QED BY <1>2, <1>3 DEF u

\* A multiplexer is to show a group that is in it.
LEMMA ShowFacts ==
  ASSUME NEW t, Core(t), ShowsOK(t, NoItem), NEW w \in Wins, NEW gr \in Groups, t.par[gr] = w,
         NEW switchto \in BOOLEAN
  PROVE  LET u == Show(t, w, gr, switchto)
         IN Core(u) /\ Kept(u, t) /\ ShowsOK(u, NoItem) /\ (STDispWith(t) => STDispWith(u))
<1> DEFINE h == IF t.shown[w] = NoItem \/ switchto THEN gr ELSE t.shown[w]
           v == [t EXCEPT !.shown[w] = h]
           u == Show(t, w, gr, switchto)
<1>1. t \in GroupStates /\ t.shown \in [Wins -> Groups \cup {NoItem}] /\ Home \in Wins
  BY GroupsAssumption DEF Core, Body, GroupStates
<1>2. h \in Groups \cup {NoItem}
  BY <1>1
<1>3. u = IF w = Home /\ v.shown # t.shown THEN mplex_remanage_stdisp(v) ELSE v
  <2>1. v = [t EXCEPT !.shown[w] = IF @ = NoItem \/ switchto THEN gr ELSE @]
    OBVIOUS
  <2> HIDE DEF v
  <2> QED BY <2>1 DEF Show
<1>4. h \in {gr, t.shown[w]}
  OBVIOUS
<1> HIDE DEF h, u
<1>5. Core(v) /\ Kept(v, t) /\ v.shown = [t.shown EXCEPT ![w] = h] /\ SameCore(v, t)
  <2>1. v = Shown(t, w, h)
    BY DEF Shown
  <2> HIDE DEF v
  <2> QED BY <1>2, <2>1, ShownFacts
<1> HIDE DEF v
<1>6. ShowsOK(v, NoItem)
  <2>1. ASSUME NEW i \in Wins, v.shown[i] # NoItem PROVE v.par[v.shown[i]] = i
    <3>1. CASE i = w
      BY <1>1, <1>4, <1>5, <2>1, <3>1 DEF ShowsOK, Kept
    <3>2. CASE i # w
      BY <1>1, <1>5, <2>1, <3>2 DEF ShowsOK, Kept
    <3> QED BY <3>1, <3>2
  <2> QED BY <2>1 DEF ShowsOK
<1>7. CASE w = Home /\ v.shown # t.shown
  <2>1. u = mplex_remanage_stdisp(v)
    BY <1>3, <1>7
  <2>2. Core(u) /\ Kept(u, v) /\ ShowsOK(u, NoItem) /\ STDispWith(u)
    BY <1>5, <1>6, <2>1, RemanageKept
  <2>3. Kept(u, t)
    BY <1>5, <2>2 DEF Kept
  <2> QED BY <2>2, <2>3 DEF u
<1>8. CASE ~(w = Home /\ v.shown # t.shown)
  <2>1. u = v
    BY <1>3, <1>8
  <2>2. v.shown[Home] = t.shown[Home]
    BY <1>1, <1>5, <1>8
  <2>3. STDispWith(t) => STDispWith(v)
    BY <1>5, <2>2 DEF STDispWith, SameCore
  <2> QED BY <1>5, <1>6, <2>1, <2>3 DEF u
<1> QED BY <1>7, <1>8

\* What a multiplexer does when a group has left it.
LEMMA LeavingFacts ==
  ASSUME NEW t, Core(t), NEW w \in Wins, NEW gr \in Groups, ShowsOK(t, gr),
         \A v \in Wins \ {w} : t.shown[v] # gr
  PROVE  LET u == AfterLeaving(t, w, gr)
         IN /\ Core(u) /\ Kept(u, t) /\ ShowsOK(u, NoItem)
            /\ (t.shown[Home] # gr => STDispWith(t)) => STDispWith(u)
<1> DEFINE rest == {h \in Groups : t.par[h] = w /\ h # gr}
           other == IF rest = {} THEN NoItem ELSE CHOOSE h \in rest : TRUE
           h == IF t.shown[w] # gr THEN t.shown[w] ELSE other
           v == [t EXCEPT !.shown[w] = h]
           u == AfterLeaving(t, w, gr)
<1>1. t \in GroupStates /\ t.shown \in [Wins -> Groups \cup {NoItem}] /\ Home \in Wins
  BY GroupsAssumption DEF Core, Body, GroupStates
<1>2. other = NoItem \/ (other \in Groups /\ t.par[other] = w)
  OBVIOUS
<1>3. h \in Groups \cup {NoItem} /\ h \in {t.shown[w], other} /\ (h = gr => h = other) 
  BY <1>1, <1>2
<1>4. u = IF w = Home /\ t.shown[w] = gr THEN mplex_remanage_stdisp(v) ELSE v
  <2>1. v = [t EXCEPT !.shown[w] = IF @ # gr THEN @ ELSE IF rest = {} THEN NoItem
                                   ELSE CHOOSE i \in rest : TRUE]
    OBVIOUS
  <2> HIDE DEF v
  <2> QED BY <2>1 DEF AfterLeaving
<1>5. t.shown[w] # gr => h = t.shown[w]
  OBVIOUS
<1> HIDE DEF h, other, u
<1>6. Core(v) /\ Kept(v, t) /\ v.shown = [t.shown EXCEPT ![w] = h] /\ SameCore(v, t)
  <2>1. v = Shown(t, w, h)
    BY DEF Shown
  <2> HIDE DEF v
  <2> QED BY <1>3, <2>1, ShownFacts
<1> HIDE DEF v
<1>7. ShowsOK(v, NoItem)
  <2>1. ASSUME NEW i \in Wins, v.shown[i] # NoItem PROVE v.par[v.shown[i]] = i
    <3>1. CASE i = w
      <4>1. v.shown[i] = h
        BY <1>1, <1>6, <3>1
      <4>2. CASE h = other
        BY <1>2, <1>6, <2>1, <3>1, <4>1, <4>2 DEF Kept
      <4>3. CASE h # other
        <5>1. h = t.shown[w] /\ h # gr
          BY <1>3, <4>3
        <5> QED BY <1>6, <2>1, <3>1, <4>1, <5>1 DEF Kept, ShowsOK
      <4> QED BY <4>2, <4>3
    <3>2. CASE i # w
      <4>1. v.shown[i] = t.shown[i]
        BY <1>1, <1>6, <3>2
      <4> QED BY <1>6, <2>1, <3>2, <4>1 DEF ShowsOK, Kept
    <3> QED BY <3>1, <3>2
  <2> QED BY <2>1 DEF ShowsOK
<1>8. CASE w = Home /\ t.shown[w] = gr
  <2>1. u = mplex_remanage_stdisp(v)
    BY <1>4, <1>8
  <2>2. Core(u) /\ Kept(u, v) /\ ShowsOK(u, NoItem) /\ STDispWith(u)
    BY <1>6, <1>7, <2>1, RemanageKept
  <2>3. Kept(u, t)
    BY <1>6, <2>2 DEF Kept
  <2> QED BY <2>2, <2>3 DEF u
<1>9. CASE ~(w = Home /\ t.shown[w] = gr)
  <2>1. u = v
    BY <1>4, <1>9
  <2>2. v.shown[Home] = t.shown[Home] /\ t.shown[Home] # gr
    BY <1>1, <1>5, <1>6, <1>9
  <2>3. STDispWith(t) => STDispWith(v)
    BY <1>6, <2>2 DEF STDispWith, SameCore
  <2> QED BY <1>6, <1>7, <2>1, <2>2, <2>3 DEF u
<1> QED BY <1>8, <1>9

\* What leads from a good state to a good one, and brings nothing in
Leads(u, t) == Good(u) /\ Lesser(u, t) /\ (STDispWith(t) => STDispWith(u))

LEMMA LeadsTwice ==
  ASSUME NEW t, NEW u, NEW v, Leads(u, t), Leads(v, u)
  PROVE  Leads(v, t)
BY LesserTwice DEF Leads

LEMMA OutLeads ==
  ASSUME NEW t, Good(t), NEW A, NEW u, Out(u, t, A)
  PROVE  Leads(u, t)
<1>1. Core(u) /\ Aside(u, t) /\ HomeShows(t)
  BY GroupsAssumption DEF Out, Good, ShowsOK, HomeShows
<1>2. PhsOK(u) /\ ShowsOK(u, NoItem)
  BY <1>1 DEF Good, PhsOK, ShowsOK, Aside
<1>3. Lesser(u, t)
  BY <1>1 DEF Out, Lesser, Aside
<1> QED BY <1>1, <1>2, <1>3 DEF Leads, Good, Out

\* The group is without the status display.
LEMMA DropOf ==
  ASSUME NEW t, Core(t), NEW gr \in Groups
  PROVE  LET u == IF HasSTDisp(t, gr) THEN DropSTDisp(t) ELSE t
         IN /\ Core(u) /\ Aside(u, t) /\ \A r \in Regs : u.mgr[r] = t.mgr[r]
            /\ u.mgr[STDisp] \notin Managed(u, gr) \cup {gr}
            /\ t.shown[Home] # gr /\ STDispWith(t) => STDispWith(u)
<1> DEFINE d == DropSTDisp(t)
           u == IF HasSTDisp(t, gr) THEN d ELSE t
<1>1. /\ t \in GroupStates /\ Body(t) /\ STDispOK(t) /\ STDisp \notin Regs /\ NoItem \notin Groups
      /\ Items = Regs \cup {STDisp} /\ NoItem \notin Items /\ Home \in Wins /\ Tilings \subseteq Regs
  BY GroupsAssumption DEF Core, Body, Items
<1>2. CASE HasSTDisp(t, gr)
  <2>1. u = d
    BY <1>2
  <2>2. Core(d) /\ Aside(d, t) /\ d.mgr = [t.mgr EXCEPT ![STDisp] = NoItem] /\ d.bottom = t.bottom
    BY DropFacts
  <2> HIDE DEF d, u
  <2>3. d.mgr[STDisp] = NoItem /\ \A r \in Regs : d.mgr[r] = t.mgr[r]
    BY <1>1, <2>2 DEF GroupStates
  <2>4. d.managed[gr] \in Seq(Items)
    BY <2>2 DEF Core, Body, GroupStates
  <2>5. d.mgr[STDisp] \notin Managed(d, gr) \cup {gr}
    BY <1>1, <2>3, <2>4, RangeIn DEF Managed
  <2>6. ASSUME t.shown[Home] # gr, STDispWith(t) PROVE STDispWith(d)
    <3> DEFINE sh == t.shown[Home]
    <3>1. SUFFICES ASSUME sh # NoItem, sh \notin CWGroups PROVE FALSE
      BY <2>2 DEF STDispWith, Aside
    <3>2. t.mgr[STDisp] = IF t.bottom[sh] \in Tilings THEN t.bottom[sh] ELSE sh
      BY <2>6, <3>1 DEF STDispWith
    <3>3. sh \in Groups /\ ListOK(t, gr) /\ RefsOK(t, sh)
      BY <1>1, <3>1 DEF GroupStates, Body
    <3>4. CASE t.bottom[sh] \in Tilings
      <4>1. t.mgr[t.bottom[sh]] = sh /\ t.mgr[STDisp] = t.bottom[sh] /\ t.bottom[sh] \in Items
        BY <1>1, <3>2, <3>3, <3>4 DEF RefsOK
      <4>2. t.bottom[sh] \notin Managed(t, gr)
        BY <2>6, <3>3, <4>1 DEF ListOK, Managed
      <4>3. t.bottom[sh] # gr
        BY <4>1, <1>1, GroupsAssumption
      <4> QED BY <1>2, <4>1, <4>2, <4>3 DEF HasSTDisp
    <3>5. CASE t.bottom[sh] \notin Tilings
      <4>1. t.mgr[STDisp] = sh /\ sh \notin Items
        BY <3>2, <3>3, <3>5, GroupsAssumption
      <4>2. sh \notin Managed(t, gr)
        <5>1. t.managed[gr] \in Seq(Items)
          BY <1>1 DEF GroupStates
        <5> QED BY <4>1, <5>1, RangeIn DEF Managed
      <4> QED BY <1>2, <2>6, <4>1, <4>2 DEF HasSTDisp
    <3> QED BY <3>4, <3>5
  <2> QED BY <2>1, <2>2, <2>3, <2>5, <2>6 DEF u, d
<1>3. CASE ~HasSTDisp(t, gr)
  <2>1. u = t
    BY <1>3
  <2>2. t.mgr[STDisp] \notin Managed(t, gr) \cup {gr}
    BY <1>3 DEF HasSTDisp
  <2> HIDE DEF u, d
  <2> QED BY <2>1, <2>2 DEF Aside, u, d
<1> QED BY <1>2, <1>3

\* A group is disposed of.
LEMMA DisposeFacts ==
  ASSUME NEW t, Good(t), NEW gr \in Groups, t.par[gr] # NoItem, NEW mcf \in BOOLEAN
  PROVE  Leads(DisposeGroup(t, gr, mcf), t)
<1> DEFINE w == t.par[gr]
           A == Tilings \cup {STDisp}
           xs == Without(t.managed[gr], A)
           a == RemoveAll(t, xs, mcf)
           b == Migrate(a, gr)
           c == IF HasSTDisp(b, gr) THEN DropSTDisp(b) ELSE b
           d == DestroyRest(c, gr)
           u == DisposeGroup(t, gr, mcf)
<1>1. /\ t \in GroupStates /\ Body(t) /\ Core(t) /\ PhsOK(t) /\ ShowsOK(t, NoItem) /\ NoItem \notin Groups
      /\ Items = Regs \cup {STDisp} /\ NoItem \notin Items /\ Home \in Wins /\ w \in Wins
  BY GroupsAssumption DEF Good, Core, Body, Items, GroupStates
<1>2. u = AfterLeaving(d, w, gr)
  BY DEF DisposeGroup, LeaveSTDisp
<1>3. /\ xs \in Seq(Items) /\ IsInjective(xs) /\ Range(xs) \subseteq Regs
      /\ \A x \in Range(xs) : t.mgr[x] = gr
  <2>1. t.managed[gr] \in Seq(Items) /\ ListOK(t, gr)
    BY <1>1 DEF Body, GroupStates
  <2>2. /\ xs \in Seq(Items) /\ Range(xs) = Range(t.managed[gr]) \ A
        /\ IsInjective(xs)
    <3> HIDE DEF A
    <3> QED BY <2>1, WithoutFacts DEF ListOK
  <2> HIDE DEF xs
  <2>3. \A x \in Range(xs) : x \in Items
    BY <2>2, RangeIn
  <2>4. Range(xs) \subseteq Regs
    BY <1>1, <2>2, <2>3
  <2> QED BY <2>1, <2>2, <2>3, <2>4 DEF ListOK
<1> HIDE DEF xs, A
<1>4. Out(a, t, Range(xs))
  BY <1>1, <1>3, RemoveAllFacts
<1> HIDE DEF a
<1>5. Leads(a, t) /\ Core(a) /\ PhsOK(a) /\ Aside(a, t)
  BY <1>4, OutLeads DEF Leads, Good, Out
<1>6. Fewer(b, a) /\ b.phs[gr] = <<>>
  <2>1. a \in GroupStates
    BY <1>5 DEF Core, Body
  <2> QED BY <2>1, MigrateFacts
<1> HIDE DEF b
<1>7. Core(b) /\ PhsOK(b) /\ b.shown = t.shown /\ b.par = t.par
  <2>1. SameCore(b, a)
    BY <1>6 DEF Fewer
  <2>2. Core(b)
    BY <1>5, <2>1, CoreSame
  <2> QED BY <1>5, <1>6, <2>1, <2>2 DEF Fewer, SameCore, Aside
<1>8. Lesser(b, t) /\ (STDispWith(t) => STDispWith(b))
  <2>1. Lesser(b, a)
    BY <1>6 DEF Fewer, SameCore, Lesser
  <2>2. Lesser(b, t)
    BY <1>5, <2>1, LesserTwice DEF Leads
  <2>3. STDispWith(a) => STDispWith(b)
    BY <1>6 DEF STDispWith, Fewer, SameCore
  <2> QED BY <1>5, <2>2, <2>3 DEF Leads
<1>9. /\ Core(c) /\ Aside(c, b) /\ \A r \in Regs : c.mgr[r] = b.mgr[r]
      /\ c.mgr[STDisp] \notin Managed(c, gr) \cup {gr}
      /\ b.shown[Home] # gr /\ STDispWith(b) => STDispWith(c)
  BY <1>7, DropOf
<1> HIDE DEF c
<1>10. PhsOK(c) /\ c.phs[gr] = <<>> /\ c.par = t.par /\ c.shown = t.shown
  BY <1>6, <1>7, <1>9 DEF PhsOK, Aside
<1>11. Lesser(c, t)
  BY <1>8, <1>9 DEF Lesser, Aside
<1>12. /\ Core(d) /\ PhsOK(d) /\ d.par = [c.par EXCEPT ![gr] = NoItem] /\ d.shown = c.shown
       /\ Lesser(d, c)
       /\ c.shown[Home] # gr /\ STDispWith(c) => STDispWith(d)
  BY <1>9, <1>10, DestroyFacts
<1> HIDE DEF d
<1>13. ShowsOK(d, gr) /\ \A v \in Wins \ {w} : d.shown[v] # gr
  <2>1. d.shown = t.shown
    BY <1>10, <1>12
  <2>2. \A h \in Groups : h # gr => d.par[h] = t.par[h]
    BY <1>1, <1>10, <1>12 DEF GroupStates
  <2>3. \A i \in Wins : t.shown[i] \in Groups \cup {NoItem}
    BY <1>1 DEF GroupStates
  <2>4. ShowsOK(d, gr)
    BY <1>1, <2>1, <2>2, <2>3 DEF ShowsOK
  <2>5. \A v \in Wins \ {w} : d.shown[v] # gr
    BY <1>1, <2>1 DEF ShowsOK
  <2> QED BY <2>4, <2>5
<1> HIDE DEF w
<1>14. /\ Core(u) /\ Kept(u, d) /\ ShowsOK(u, NoItem)
       /\ (d.shown[Home] # gr => STDispWith(d)) => STDispWith(u)
  BY <1>1, <1>2, <1>12, <1>13, LeavingFacts
<1> HIDE DEF u
<1>15. Lesser(u, d) /\ PhsOK(u)
  BY <1>12, <1>14, KeptFacts
<1>16. Lesser(u, t)
  <2>1. Lesser(d, t)
    BY <1>11, <1>12, LesserTwice
  <2> QED BY <1>15, <2>1, LesserTwice
<1>17. STDispWith(t) => STDispWith(u)
  BY <1>7, <1>8, <1>9, <1>10, <1>12, <1>14
<1> QED BY <1>14, <1>15, <1>16, <1>17 DEF Leads, Good, u

\* A region leaves its group, which may be disposed of then.
LEMMA TakeOutFacts ==
  ASSUME NEW t, Good(t), NEW x \in Regs, t.mgr[x] \in Groups, NEW mcf \in BOOLEAN
  PROVE  LET u == TakeOut(t, x, mcf)
         IN /\ Leads(u, t) /\ u.mgr[x] = NoItem
            /\ HomeShows(t) /\ BottomGoes(t, {x}) => STDispWith(u)
<1> DEFINE gr == t.mgr[x]
           v == group_managed_remove(t, x, mcf)
           u == TakeOut(t, x, mcf)
           A == {x}
<1>1. Core(t) /\ Body(t) /\ x \in Items
  BY DEF Good, Core, Items
<1>2. Out(v, t, A)
  BY <1>1, RemoveFacts
<1>3. v.mgr[x] = NoItem
  BY <1>2 DEF Out
<1>4. u = IF DisposedWith(t, gr, x) THEN DisposeGroup(v, gr, mcf) ELSE v
  BY DEF TakeOut
<1> HIDE DEF A, v, u
<1>5. Leads(v, t)
  BY <1>2, OutLeads
<1>6. CASE DisposedWith(t, gr, x)
  <2>1. u = DisposeGroup(v, gr, mcf)
    BY <1>4, <1>6
  <2>2. v.par[gr] # NoItem
    <3>1. t.par[gr] \in Wins
      BY <1>1, GroupOf
    <3> QED BY <1>2, <3>1, GroupsAssumption DEF Out, Aside
  <2>3. Leads(u, v)
    BY <1>5, <2>1, <2>2, DisposeFacts DEF Leads
  <2>4. Leads(u, t)
    BY <1>5, <2>3, LeadsTwice
  <2>5. u.mgr[x] = NoItem
    BY <1>3, <2>3 DEF Leads, Lesser
  <2>6. HomeShows(t) /\ BottomGoes(t, A) => STDispWith(u)
    BY <1>2, <2>3 DEF Leads, Out
  <2> QED BY <2>4, <2>5, <2>6 DEF u, A
<1>7. CASE ~DisposedWith(t, gr, x)
  <2>1. u = v
    BY <1>4, <1>7
  <2>2. HomeShows(t) /\ BottomGoes(t, A) => STDispWith(u)
    BY <1>2, <2>1 DEF Out
  <2> QED BY <1>3, <1>5, <2>1, <2>2 DEF u, A
<1> QED BY <1>6, <1>7
\* What group_fitrep does without the status display
Moved(u, gr, w) ==
  LET old == u.par[gr]
      items == UnweaveItems(Z(u, old), Managed(u, gr))
      v == [u EXCEPT !.par[gr] = w,
                     !.list[old] = Without(@, Range(items)),
                     !.order = [h \in Wins |-> IF h = old THEN Without(@[h], Managed(u, gr))
                                               ELSE IF h = w THEN @[h] \o u.managed[gr] ELSE @[h]]]
  IN SetZ(v, w, stacking_weave(Z(v, w), items, FALSE))

\* The regions of a group go to another window.
LEMMA MovedFacts ==
  ASSUME NEW u, Core(u), NEW gr \in Groups, u.par[gr] # NoItem, NEW w \in Wins, u.par[gr] # w
  PROVE  LET r == Moved(u, gr, w)
         IN /\ Core(r) /\ r.par = [u.par EXCEPT ![gr] = w] /\ r.mgr = u.mgr /\ r.bottom = u.bottom
            /\ r.shown = u.shown /\ r.ph = u.ph /\ r.phs = u.phs /\ r.detached = u.detached
<1> DEFINE old == u.par[gr]
           z == Z(u, old)
           y == Z(u, w)
           m == u.managed[gr]
           wanted == Managed(u, gr)
           items == UnweaveItems(z, wanted)
           lo == Without(u.list[old], wanted)
           oo == Without(u.order[old], wanted)
           ow == u.order[w] \o m
           lists == [u.list EXCEPT ![old] = lo]
           orders == [h \in Wins |-> IF h = old THEN Without(u.order[h], wanted)
                                  ELSE IF h = w THEN u.order[h] \o m ELSE u.order[h]]
           pars == [u.par EXCEPT ![gr] = w]
           v == [u EXCEPT !.par = pars, !.list = lists, !.order = orders]
           zv == Z(v, w)
           r == Moved(u, gr, w)
<1>1. /\ u \in GroupStates /\ Body(u) /\ STDispOK(u) /\ NoItem \notin Groups
      /\ Items = Regs \cup {STDisp} /\ NoItem \notin Items /\ old \in Wins /\ w # old /\ NoItem \notin Wins
  BY GroupsAssumption DEF Core, Body, Items, GroupStates
<1>2. /\ u.list[old] \in Seq(Items) /\ u.order[old] \in Seq(Items) /\ u.list[w] \in Seq(Items)
      /\ u.order[w] \in Seq(Items) /\ m \in Seq(Items) /\ ListOK(u, gr) /\ StackOK(u, old) /\ StackOK(u, w)
  BY <1>1 DEF Body, GroupStates
<1>3. /\ wanted = Range(m) /\ IsInjective(m)
      /\ \A x \in Items : x \in wanted <=> u.mgr[x] = gr
      /\ wanted \subseteq Items
  BY <1>2, RangeIn DEF ListOK, Managed
<1>4. /\ z.list = u.list[old] /\ z.order = u.order[old] /\ z.level = u.level /\ z.above = u.above
      /\ y.list = u.list[w] /\ y.order = u.order[w] /\ y.level = u.level /\ y.above = u.above
      /\ Stacked(z) /\ Stacked(y)
  BY <1>2 DEF Z, StackOK
<1> HIDE DEF m, wanted, z, y, old
<1>5. /\ \A x \in Items : x \in Range(z.list) <=> In(u, x, old)
      /\ \A x \in Items : x \in Range(y.list) <=> In(u, x, w)
      /\ \A x \in Range(z.list) : x \in Items
  BY <1>2, <1>4, RangeIn DEF StackOK
<1>6. wanted \in SUBSET Range(z.list) /\ Range(y.list) \cap wanted = {}
  BY <1>1, <1>3, <1>5 DEF In, old
<1>7. \A x \in Items : u.mgr[x] \in Groups /\ u.above[x] # NoItem => (x \in wanted <=> u.above[x] \in wanted)
  <2>1. ASSUME NEW x \in Items, u.mgr[x] \in Groups, u.above[x] # NoItem
        PROVE  x \in wanted <=> u.above[x] \in wanted
    <3>1. x \in Regs
      BY <1>1, <2>1 DEF Body
    <3>2. u.above[x] \in Items
      BY <1>1, <2>1 DEF GroupStates
    <3>3. u.mgr[u.above[x]] = u.mgr[x]
      BY <1>1, <2>1, <3>1 DEF Body, RegOK
    <3> QED BY <1>3, <3>2, <3>3
  <2> QED BY <2>1
<1>8. \A x \in Range(z.list) : z.above[x] # NoItem => (x \in wanted <=> z.above[x] \in wanted)
  BY <1>4, <1>5, <1>7 DEF In
<1>9. items = Only(z.list, wanted)
  BY <1>4, <1>6, <1>8, UnweaveFacts
<1>10. Range(items) = wanted
  <2>1. z.list \in Seq(Items)
    BY <1>2, <1>4
  <2>2. Range(Only(z.list, wanted)) = Range(z.list) \cap wanted
    BY <2>1, OnlyFacts
  <2> QED BY <1>6, <1>9, <2>2
<1> HIDE DEF items
<1>11. r = SetZ(v, w, stacking_weave(zv, items, FALSE))
  <2>1. v = [u EXCEPT !.par[gr] = w,
                      !.list[old] = Without(@, Range(items)),
                      !.order = [h \in Wins |-> IF h = old THEN Without(@[h], wanted)
                                                ELSE IF h = w THEN @[h] \o m ELSE @[h]]]
    BY <1>10 DEF v, lists, orders, pars, lo
  <2> HIDE DEF v
  <2> QED BY <2>1 DEF Moved, items, wanted, m, z, old
<1>12. lo \in Seq(Items) /\ oo \in Seq(Items) /\ ow \in Seq(Items)
  <2>1. lo \in Seq(Items) /\ oo \in Seq(Items)
    BY <1>2, WithoutFacts
  <2> QED BY <1>2, <2>1
<1> HIDE DEF r, lo, oo, ow
<1>13. /\ lists \in [Wins -> Seq(Items)] /\ lists[old] = lo /\ \A h \in Wins \ {old} : lists[h] = u.list[h]
       /\ orders \in [Wins -> Seq(Items)] /\ orders[old] = oo /\ orders[w] = ow
       /\ \A h \in Wins \ {old, w} : orders[h] = u.order[h]
       /\ pars \in [Groups -> Wins \cup {NoItem}] /\ pars[gr] = w /\ \A h \in Groups \ {gr} : pars[h] = u.par[h]
  <2>1. lists \in [Wins -> Seq(Items)] /\ lists[old] = lo /\ \A h \in Wins \ {old} : lists[h] = u.list[h]
    BY <1>1, <1>12 DEF GroupStates
  <2>2. orders[old] = oo /\ orders[w] = ow /\ \A h \in Wins \ {old, w} : orders[h] = u.order[h]
    BY <1>1 DEF oo, ow
  <2>3. \A h \in Wins : u.order[h] \in Seq(Items)
    BY <1>1 DEF GroupStates
  <2>4. orders = [h \in Wins |-> orders[h]]
    OBVIOUS
  <2> HIDE DEF orders
  <2>5. orders \in [Wins -> Seq(Items)]
    BY <1>1, <1>12, <2>2, <2>3, <2>4
  <2>6. /\ pars \in [Groups -> Wins \cup {NoItem}] /\ pars[gr] = w
        /\ \A h \in Groups \ {gr} : pars[h] = u.par[h]
    BY <1>1 DEF GroupStates
  <2> QED BY <2>1, <2>2, <2>5, <2>6
<1> HIDE DEF lists, orders, pars
<1>14. /\ v \in GroupStates /\ v.par = pars /\ v.list = lists /\ v.order = orders
       /\ v.level = u.level /\ v.above = u.above /\ v.mgr = u.mgr
  BY <1>1, <1>13 DEF GroupStates
<1>15. /\ v.managed = u.managed /\ v.bottom = u.bottom /\ v.current = u.current /\ v.stdisp = u.stdisp
       /\ v.shown = u.shown /\ v.ph = u.ph /\ v.phs = u.phs /\ v.detached = u.detached
  BY <1>1 DEF GroupStates
<1> HIDE DEF v
<1>16. zv = [list |-> y.list, order |-> y.order \o m, level |-> z.level, above |-> z.above]
  BY <1>1, <1>4, <1>13, <1>14 DEF Z, ow
<1> HIDE DEF zv
<1>100. PICK l : MovesTo(zv, z, y, wanted, l)
  <2>1. y.level = z.level /\ y.above = z.above
    BY <1>4
  <2>2. m \in Seq(Items) /\ IsInjective(m) /\ Range(m) = wanted
    BY <1>2, <1>3 DEF m
  <2>3. Stacked(z) /\ Stacked(y)
    BY <1>4
  <2> QED BY <1>6, <1>8, <1>16, <2>1, <2>2, <2>3, MoveStacked
<1>17. /\ stacking_weave(zv, Only(z.list, wanted), FALSE) = With(zv, l, l)
       /\ Stacked(With(zv, l, l)) /\ Range(l) = Range(y.list) \cup wanted
  BY <1>100 DEF MovesTo
<1> DEFINE s == With(zv, l, l)
<1>18. s.list = l /\ s.order = l /\ s.level = u.level /\ s.above = u.above
  BY <1>4, <1>16 DEF With
<1>19. l \in Seq(Items)
  <2>1. s \in Stackings /\ s.list = l
    BY <1>17, <1>18 DEF Stacked
  <2> HIDE DEF s
  <2> QED BY <2>1 DEF Stackings
<1> HIDE DEF s
<1>20. r = SetZ(v, w, s)
  BY <1>9, <1>11, <1>17 DEF s
<1>21. /\ r \in GroupStates
       /\ r.list = [v.list EXCEPT ![w] = s.list] /\ r.order = [v.order EXCEPT ![w] = s.order]
       /\ r.above = s.above /\ r.level = v.level
       /\ r.mgr = v.mgr /\ r.managed = v.managed /\ r.bottom = v.bottom /\ r.current = v.current
       /\ r.stdisp = v.stdisp /\ r.par = v.par /\ r.shown = v.shown
       /\ r.ph = v.ph /\ r.phs = v.phs /\ r.detached = v.detached
  <2>1. s.list \in Seq(Items) /\ s.order \in Seq(Items) /\ s.above \in [Items -> Regs \cup {NoItem}]
    BY <1>1, <1>18, <1>19 DEF GroupStates
  <2> QED BY <1>14, <1>20, <2>1, SetZFacts
<1>22. /\ r.list[w] = l /\ r.order[w] = l /\ r.list[old] = lo /\ r.order[old] = oo
       /\ \A h \in Wins \ {old, w} : r.list[h] = u.list[h] /\ r.order[h] = u.order[h]
  BY <1>1, <1>13, <1>14, <1>18, <1>21
<1>23. \A x \in Items, h \in Wins :
         In(r, x, h) <=> (u.mgr[x] = gr /\ h = w) \/ (In(u, x, h) /\ u.mgr[x] # gr)
  <2>1. r.mgr = u.mgr /\ r.par = pars
    BY <1>14, <1>21
  <2> QED BY <1>13, <2>1 DEF In
<1>24. ASSUME NEW h \in Wins PROVE StackOK(r, h)
  <2>1. CASE h = w
    <3>1. Z(r, w) = s
      <4>1. s = [list |-> l, order |-> l, level |-> u.level, above |-> u.above]
        BY <1>4, <1>16 DEF With, s
      <4> QED BY <1>14, <1>18, <1>21, <1>22, <4>1 DEF Z
    <3>2. Stacked(Z(r, w))
      BY <1>17, <3>1 DEF s
    <3>3. \A x \in Items : x \in Range(r.list[w]) <=> In(r, x, w)
      BY <1>3, <1>5, <1>6, <1>17, <1>22, <1>23
    <3> QED BY <2>1, <3>2, <3>3 DEF StackOK
  <2>2. CASE h = old
    <3> DEFINE q == Z(r, old)
               f == u.above
    <3>1. q = [list |-> Without(z.list, wanted), order |-> Without(z.order, wanted), level |-> z.level,
               above |-> f]
      BY <1>4, <1>14, <1>18, <1>21, <1>22 DEF Z, lo, oo
    <3>2. q.list = r.list[old]
      BY DEF Z
    <3>3. f \in [Items -> Items \cup {NoItem}]
      BY <1>1 DEF GroupStates
    <3> HIDE DEF q
    <3>4. \A x \in Range(z.list) \ wanted : f[x] = IF z.above[x] \in wanted THEN NoItem ELSE z.above[x]
      BY <1>1, <1>3, <1>4, <1>8
    <3> HIDE DEF f
    <3>5. Stacked(q) /\ Range(q.list) = Range(z.list) \ wanted
      <4>1. Stacked(z)
        BY <1>4
      <4> QED BY <3>1, <3>3, <3>4, <4>1, LessStacked
    <3>6. \A x \in Items : x \in Range(r.list[old]) <=> In(r, x, old)
      BY <1>1, <1>3, <1>5, <1>23, <3>2, <3>5
    <3> QED BY <2>2, <3>5, <3>6 DEF StackOK, q
  <2>3. CASE h \notin {w, old}
    <3>1. \A x \in Items : In(r, x, h) <=> In(u, x, h)
      BY <1>23, <2>3 DEF In, old
    <3>2. r.list[h] = u.list[h] /\ r.order[h] = u.order[h] /\ r.level = u.level /\ r.above = u.above
      BY <1>14, <1>18, <1>21, <1>22, <2>3
    <3> QED BY <1>1, <1>21, <3>1, <3>2, StackElsewhere
  <2> QED BY <2>1, <2>2, <2>3
<1>25. ASSUME NEW h \in Groups PROVE ListOK(r, h) /\ RefsOK(r, h)
  <2>1. ListOK(u, h) /\ RefsOK(u, h)
    BY <1>1 DEF Body
  <2>2. r.par[h] = NoItem => u.par[h] = NoItem
    BY <1>1, <1>13, <1>14, <1>21
  <2> QED BY <1>14, <1>15, <1>21, <2>1, <2>2 DEF ListOK, RefsOK
<1>26. ASSUME NEW x \in Regs PROVE RegOK(r, x)
  <2>1. RegOK(u, x)
    BY <1>1 DEF Body
  <2> QED BY <1>14, <1>18, <1>21, <2>1 DEF RegOK
<1>27. Body(r)
  BY <1>1, <1>18, <1>21, <1>24, <1>25, <1>26 DEF Body
<1>28. STDispOK(r)
  BY <1>1, <1>14, <1>15, <1>21 DEF STDispOK
<1> QED BY <1>14, <1>15, <1>21, <1>27, <1>28 DEF Core, r, pars

\* A group goes to another multiplexer, without the status display.
LEMMA FitFacts ==
  ASSUME NEW t, Good(t), NEW gr \in Groups, t.par[gr] # NoItem, NEW w \in Wins, t.par[gr] # w
  PROVE  LET r == group_fitrep(t, gr, w)
         IN /\ Core(r) /\ PhsOK(r) /\ Lesser(r, t) /\ r.par = [t.par EXCEPT ![gr] = w] /\ r.shown = t.shown
            /\ t.shown[Home] # gr /\ STDispWith(t) => STDispWith(r)
<1> DEFINE has == t.mgr[STDisp] \in {gr, t.bottom[gr]} \ {NoItem}
           d == DropSTDisp(t)
           u == IF has THEN d ELSE t
           r == group_fitrep(t, gr, w)
<1>1. /\ t \in GroupStates /\ Body(t) /\ Core(t) /\ STDispOK(t) /\ PhsOK(t) /\ NoItem \notin Groups
      /\ NoItem \notin Wins /\ Home \in Wins /\ STDisp \notin Regs /\ Tilings \subseteq Regs
      /\ \A h \in Groups : h \notin Items
  BY GroupsAssumption DEF Good, Core, Body
<1>2. Core(u) /\ Aside(u, t) /\ \A x \in Regs : u.mgr[x] = t.mgr[x]
  <2>1. CASE has
    <3>1. u = d
      BY <2>1
    <3>2. Core(d) /\ Aside(d, t) /\ d.mgr = [t.mgr EXCEPT ![STDisp] = NoItem]
      BY <1>1, DropFacts
    <3> HIDE DEF d, u
    <3> QED BY <1>1, <3>1, <3>2 DEF GroupStates, Items
  <2>2. CASE ~has
    <3>1. u = t
      BY <2>2
    <3> HIDE DEF u
    <3> QED BY <1>1, <3>1 DEF Aside
  <2> QED BY <2>1, <2>2
<1>3. ASSUME t.shown[Home] # gr, STDispWith(t) PROVE STDispWith(u)
  <2> DEFINE sh == t.shown[Home]
  <2>1. CASE has
    <3>1. u.shown = t.shown
      BY <1>2 DEF Aside
    <3> HIDE DEF u
    <3>2. SUFFICES ASSUME sh # NoItem, sh \notin CWGroups PROVE FALSE
      BY <3>1 DEF STDispWith
    <3>3. t.mgr[STDisp] = IF t.bottom[sh] \in Tilings THEN t.bottom[sh] ELSE sh
      BY <1>3, <3>2 DEF STDispWith
    <3>4. sh \in Groups /\ RefsOK(t, gr) /\ RefsOK(t, sh)
      BY <1>1, <3>2 DEF GroupStates, Body
    <3>5. t.bottom[gr] \in Regs \cup {NoItem} /\ t.bottom[sh] \in Regs \cup {NoItem} /\ \A h \in Groups : h \notin Regs
      BY <1>1, <3>4 DEF GroupStates, Items
    <3> QED BY <1>1, <1>3, <2>1, <3>2, <3>3, <3>4, <3>5 DEF RefsOK
  <2>2. CASE ~has
    BY <1>3, <2>2
  <2> QED BY <2>1, <2>2
<1>4. r = Moved(u, gr, w)
  <2>1. u.par[gr] = t.par[gr]
    BY <1>2 DEF Aside
  <2>2. u = IF t.mgr[STDisp] \in {gr, t.bottom[gr]} \ {NoItem} THEN DropSTDisp(t) ELSE t
    OBVIOUS
  <2> HIDE DEF u
  <2> QED BY <2>1, <2>2 DEF group_fitrep, Moved
<1> HIDE DEF u, r
<1>5. u.par = t.par /\ u.shown = t.shown /\ u.ph = t.ph /\ u.phs = t.phs /\ u.detached = t.detached
  BY <1>2 DEF Aside
<1>6. /\ Core(r) /\ r.par = [u.par EXCEPT ![gr] = w] /\ r.mgr = u.mgr /\ r.bottom = u.bottom
      /\ r.shown = u.shown /\ r.ph = u.ph /\ r.phs = u.phs /\ r.detached = u.detached
  BY <1>2, <1>4, <1>5, MovedFacts
<1>7. PhsOK(r)
  <2>1. \A h \in Groups : r.par[h] = NoItem => t.par[h] = NoItem
    BY <1>1, <1>5, <1>6 DEF GroupStates
  <2>2. r.ph = t.ph /\ r.phs = t.phs /\ r.detached = t.detached
    BY <1>5, <1>6
  <2> QED BY <1>1, <2>1, <2>2 DEF PhsOK
<1>8. Lesser(r, t)
  BY <1>2, <1>5, <1>6 DEF Lesser
<1>9. t.shown[Home] # gr /\ STDispWith(t) => STDispWith(r)
  BY <1>3, <1>5, <1>6 DEF STDispWith
<1> QED BY <1>5, <1>6, <1>7, <1>8, <1>9 DEF r


-----------------------------------------------------------------------------
(* Actions *)

\* From t to u the invariant is kept, and the status display stays where it is to be
Keeps(u, t) == GroupsInv(u) /\ (STDispWith(t) => STDispWith(u))

LEMMA LeadsKeeps ==
  ASSUME NEW t, GroupsInv(t), NEW u, Leads(u, t)
  PROVE  Keeps(u, t)
<1>1. NoItem \notin Groups
  BY GroupsAssumption
<1> QED BY <1>1 DEF Leads, Keeps, Good, Lesser, GroupsInv, NotAway

LEMMA KeptLeads ==
  ASSUME NEW t, Good(t), NEW u, Core(u), Kept(u, t), ShowsOK(u, NoItem), STDispWith(t) => STDispWith(u)
  PROVE  Leads(u, t)
BY KeptFacts DEF Leads, Good

\* Placeholders go.
LEMMA FewerLeads ==
  ASSUME NEW t, Good(t), NEW u, Fewer(u, t)
  PROVE  Leads(u, t)
<1>1. Core(u)
  BY CoreSame DEF Fewer, Good
<1>2. PhsOK(u) /\ ShowsOK(u, NoItem)
  BY DEF Fewer, SameCore, Good, ShowsOK
<1>3. Lesser(u, t) /\ (STDispWith(t) => STDispWith(u))
  BY DEF Fewer, SameCore, Lesser, STDispWith
<1> QED BY <1>1, <1>2, <1>3 DEF Leads, Good

\* A region without a placeholder gets into a group.
Arrives(u, t, x) ==
  /\ Good(u) /\ Aside(u, t) /\ (STDispWith(t) => STDispWith(u))
  /\ \A r \in Regs \ {x} : u.mgr[r] = t.mgr[r]

LEMMA AttachArrives ==
  ASSUME NEW t, Good(t), NEW gr \in Groups, t.par[gr] # NoItem, NEW x \in Regs, t.mgr[x] \notin Groups,
         NEW a, a.level \in Nat, a.above \in Regs \cup {NoItem},
         a.bottom => t.bottom[gr] = NoItem \/ x \in Tilings, NEW mcf \in BOOLEAN
  PROVE  Arrives(group_do_attach_final(t, gr, x, a, mcf), t, x)
<1> DEFINE u == group_do_attach_final(t, gr, x, a, mcf)
<1>1. /\ Joined(u, t, gr, x)
      /\ HomeShows(t) /\ STDispWith(t) /\ (a.bottom => t.bottom[gr] = NoItem \/ x \in Tilings)
           => STDispWith(u)
  BY AttachFacts DEF Good
<1> HIDE DEF u
<1>2. HomeShows(t)
  BY GroupsAssumption DEF Good, ShowsOK, HomeShows
<1>3. PhsOK(u) /\ ShowsOK(u, NoItem)
  <2>1. Aside(u, t)
    BY <1>1 DEF Joined
  <2>2. PhsOK(t) /\ ShowsOK(t, NoItem)
    BY DEF Good
  <2>3. PhsOK(u)
    BY <2>1, <2>2 DEF PhsOK, Aside
  <2> QED BY <2>1, <2>2, <2>3 DEF ShowsOK, Aside
<1> QED BY <1>1, <1>2, <1>3 DEF Arrives, Good, Joined, u

LEMMA ArrivesKeeps ==
  ASSUME NEW t, GroupsInv(t), NEW x \in Regs, ~t.ph[x].set, NEW u, Arrives(u, t, x)
  PROVE  Keeps(u, t)
BY DEF Arrives, Keeps, Good, GroupsInv, NotAway, Aside

LEMMA KeepsTwice ==
  ASSUME NEW t, NEW u, NEW v, Keeps(u, t), Keeps(v, u)
  PROVE  Keeps(v, t)
BY DEF Keeps

LEMMA GoodOf ==
  ASSUME NEW t, GroupsInv(t)
  PROVE  /\ Good(t) /\ Core(t) /\ PhsOK(t) /\ NotAway(t) /\ ShowsOK(t, NoItem) /\ Body(t) /\ t \in GroupStates
         /\ HomeShows(t) /\ STDispOK(t)
         /\ \A x \in Regs : t.mgr[x] \notin Groups => t.mgr[x] = NoItem
BY GroupsAssumption DEF GroupsInv, Good, Core, Body, ShowsOK, HomeShows, RegOK

-----------------------------------------------------------------------------
(* Groups are created, shown and closed *)

\* A group is created in a window.
Parented(t, gr, w) == [t EXCEPT !.par[gr] = w]

LEMMA NewGroupFacts ==
  ASSUME NEW t, Core(t), NEW gr \in Groups, t.par[gr] = NoItem, NEW w \in Wins, NEW u, u = Parented(t, gr, w)
  PROVE  /\ Core(u) /\ u.par = [t.par EXCEPT ![gr] = w] /\ u.mgr = t.mgr /\ u.bottom = t.bottom
         /\ u.shown = t.shown /\ u.ph = t.ph /\ u.phs = t.phs /\ u.detached = t.detached
         /\ t.bottom[gr] = NoItem /\ \A x \in Items : t.mgr[x] # gr
         /\ PhsOK(t) => PhsOK(u)
         /\ ShowsOK(t, NoItem) => ShowsOK(u, NoItem)
         /\ STDispWith(t) => STDispWith(u)
<1> USE DEF Parented
<1>1. t \in GroupStates /\ Body(t) /\ STDispOK(t) /\ NoItem \notin Wins /\ Regs \subseteq Items
  BY GroupsAssumption DEF Core, Body, Items
<1>2. /\ u \in GroupStates /\ u.par = [t.par EXCEPT ![gr] = w] /\ u.mgr = t.mgr /\ u.bottom = t.bottom
      /\ u.shown = t.shown
  BY <1>1 DEF GroupStates
<1>3. u.ph = t.ph /\ u.phs = t.phs /\ u.detached = t.detached
  BY <1>1 DEF GroupStates
<1>4. /\ u.list = t.list /\ u.order = t.order /\ u.level = t.level /\ u.above = t.above
      /\ u.managed = t.managed
  BY <1>1 DEF GroupStates
<1>5. u.current = t.current /\ u.stdisp = t.stdisp
  BY <1>1 DEF GroupStates
<1> HIDE DEF Parented
<1>6. u.par[gr] = w /\ \A h \in Groups : h # gr => u.par[h] = t.par[h]
  BY <1>1, <1>2 DEF GroupStates
<1>7. \A x \in Items : t.mgr[x] # gr
  <2>1. t.managed[gr] = <<>> /\ \A x \in Items : x \in Range(t.managed[gr]) <=> t.mgr[x] = gr
    BY <1>1 DEF Body, ListOK
  <2>2. Range(<<>>) = {}
    BY DEF Range
  <2> QED BY <2>1, <2>2
<1>8. t.bottom[gr] = NoItem
  <2>1. t.bottom[gr] \in Regs \cup {NoItem} /\ RefsOK(t, gr)
    BY <1>1 DEF Body, GroupStates
  <2> QED BY <1>1, <1>7, <2>1 DEF RefsOK
<1>9. ASSUME NEW h \in Wins PROVE StackOK(u, h)
  <2>1. \A x \in Items : In(u, x, h) <=> In(t, x, h)
    BY <1>2, <1>6, <1>7 DEF In
  <2> QED BY <1>1, <1>2, <1>4, <2>1, StackElsewhere
<1>10. ASSUME NEW h \in Groups PROVE ListOK(u, h) /\ RefsOK(u, h)
  <2>1. ListOK(t, h) /\ RefsOK(t, h)
    BY <1>1 DEF Body
  <2>2. u.par[h] = NoItem => t.par[h] = NoItem
    BY <1>1, <1>6
  <2> QED BY <1>2, <1>4, <1>5, <2>1, <2>2 DEF ListOK, RefsOK
<1>11. ASSUME NEW x \in Regs PROVE RegOK(u, x)
  <2>1. RegOK(t, x)
    BY <1>1 DEF Body
  <2> QED BY <1>2, <1>4, <2>1 DEF RegOK
<1>12. Core(u)
  <2>1. Body(u)
    BY <1>1, <1>2, <1>4, <1>9, <1>10, <1>11 DEF Body
  <2>2. STDispOK(u)
    BY <1>1, <1>2, <1>5 DEF STDispOK
  <2> QED BY <2>1, <2>2 DEF Core
<1>13. PhsOK(t) => PhsOK(u)
  <2>1. \A h \in Groups : u.par[h] = NoItem => t.par[h] = NoItem
    BY <1>1, <1>6
  <2> QED BY <1>3, <2>1 DEF PhsOK
<1>14. ShowsOK(t, NoItem) => ShowsOK(u, NoItem)
  <2>1. ASSUME NEW i \in Wins, ShowsOK(t, NoItem), t.shown[i] # NoItem PROVE u.par[t.shown[i]] = i
    <3>1. t.shown[i] \in Groups /\ t.par[t.shown[i]] = i
      BY <1>1, <2>1 DEF ShowsOK, GroupStates
    <3> QED BY <1>1, <1>6, <3>1
  <2> QED BY <1>2, <2>1 DEF ShowsOK
<1>15. STDispWith(t) => STDispWith(u)
  BY <1>2 DEF STDispWith
<1> QED BY <1>2, <1>3, <1>7, <1>8, <1>12, <1>13, <1>14, <1>15

\* A new group is shown.
LEMMA NewGroupKeeps ==
  ASSUME NEW t, GroupsInv(t), NEW gr \in Groups, NEW w \in Wins, NEW switchto \in BOOLEAN, ~Exists(t, gr)
  PROVE  Keeps(Show([t EXCEPT !.par[gr] = w], w, gr, switchto), t)
<1> DEFINE v == [t EXCEPT !.par[gr] = w]
           u == Show(v, w, gr, switchto)
<1>1. Core(t) /\ PhsOK(t) /\ ShowsOK(t, NoItem) /\ t.par[gr] = NoItem /\ t \in GroupStates
  BY GoodOf DEF Exists
<1>2. v = Parented(t, gr, w)
  BY DEF Parented
<1> HIDE DEF v
<1>3. /\ Core(v) /\ v.par = [t.par EXCEPT ![gr] = w] /\ v.mgr = t.mgr /\ v.ph = t.ph
      /\ PhsOK(v) /\ ShowsOK(v, NoItem) /\ (STDispWith(t) => STDispWith(v))
  BY <1>1, <1>2, NewGroupFacts
<1>4. v.par[gr] = w
  BY <1>1, <1>3 DEF GroupStates
<1>5. Core(u) /\ Kept(u, v) /\ ShowsOK(u, NoItem) /\ (STDispWith(v) => STDispWith(u))
  BY <1>3, <1>4, ShowFacts
<1> HIDE DEF u
<1>6. Leads(u, v)
  BY <1>3, <1>5, KeptLeads DEF Good
<1>7. Leads(v, t)
  BY <1>3 DEF Leads, Good, Lesser
<1>8. Leads(u, t)
  BY <1>6, <1>7, LeadsTwice
<1> QED BY <1>8, LeadsKeeps DEF u, v

\* A multiplexer switches to a group.
LEMMA SwitchToKeeps ==
  ASSUME NEW t, GroupsInv(t), NEW gr \in Groups, Exists(t, gr)
  PROVE  Keeps(Show(t, t.par[gr], gr, TRUE), t)
<1> DEFINE w == t.par[gr]
           u == Show(t, w, gr, TRUE)
<1>1. Good(t) /\ Core(t) /\ ShowsOK(t, NoItem) /\ w \in Wins
  BY GoodOf DEF Exists, GroupStates
<1>2. t.par[gr] = w
  OBVIOUS
<1> HIDE DEF w
<1>3. Core(u) /\ Kept(u, t) /\ ShowsOK(u, NoItem) /\ (STDispWith(t) => STDispWith(u))
  BY <1>1, <1>2, ShowFacts
<1> HIDE DEF u
<1>4. Leads(u, t)
  BY <1>1, <1>3, KeptLeads
<1> QED BY <1>4, LeadsKeeps DEF u, w

\* A group is attached to another multiplexer.
LEMMA MoveGroupKeeps ==
  ASSUME NEW t, GroupsInv(t), NEW gr \in Groups, Exists(t, gr), NEW w \in Wins, t.par[gr] # w,
         NEW switchto \in BOOLEAN
  PROVE  Keeps(Show(AfterLeaving(group_fitrep(t, gr, w), t.par[gr], gr), w, gr, switchto), t)
<1> DEFINE old == t.par[gr]
           r == group_fitrep(t, gr, w)
           v == AfterLeaving(r, old, gr)
           u == Show(v, w, gr, switchto)
<1>1. Good(t) /\ Core(t) /\ ShowsOK(t, NoItem) /\ old \in Wins /\ t.par[gr] # NoItem /\ t \in GroupStates
  BY GoodOf DEF Exists, GroupStates
<1>2. /\ Core(r) /\ PhsOK(r) /\ Lesser(r, t) /\ r.par = [t.par EXCEPT ![gr] = w] /\ r.shown = t.shown
      /\ t.shown[Home] # gr /\ STDispWith(t) => STDispWith(r)
  BY <1>1, FitFacts
<1> HIDE DEF r
<1>3. r.par[gr] = w /\ \A h \in Groups : h # gr => r.par[h] = t.par[h]
  BY <1>1, <1>2 DEF GroupStates
<1>4. ShowsOK(r, gr) /\ \A i \in Wins \ {old} : r.shown[i] # gr
  <2>1. \A i \in Wins : t.shown[i] \in Groups \cup {NoItem}
    BY <1>1 DEF GroupStates
  <2>2. ShowsOK(r, gr)
    BY <1>1, <1>2, <1>3, <2>1 DEF ShowsOK
  <2>3. \A i \in Wins \ {old} : r.shown[i] # gr
    BY <1>1, <1>2, GroupsAssumption DEF ShowsOK
  <2> QED BY <2>2, <2>3
<1> HIDE DEF old
<1>5. /\ Core(v) /\ Kept(v, r) /\ ShowsOK(v, NoItem)
      /\ (r.shown[Home] # gr => STDispWith(r)) => STDispWith(v)
  BY <1>1, <1>2, <1>4, LeavingFacts
<1> HIDE DEF v
<1>6. Lesser(v, r) /\ PhsOK(v)
  BY <1>2, <1>5, KeptFacts
<1>7. Leads(v, t)
  <2>1. Lesser(v, t)
    BY <1>2, <1>6, LesserTwice
  <2> QED BY <1>2, <1>5, <1>6, <2>1 DEF Leads, Good
<1>8. v.par[gr] = w
  BY <1>3, <1>5 DEF Kept
<1>9. Core(u) /\ Kept(u, v) /\ ShowsOK(u, NoItem) /\ (STDispWith(v) => STDispWith(u))
  BY <1>5, <1>8, ShowFacts
<1> HIDE DEF u
<1>10. Leads(u, v)
  BY <1>7, <1>9, KeptLeads DEF Leads
<1>11. Leads(u, t)
  BY <1>7, <1>10, LeadsTwice
<1> QED BY <1>11, LeadsKeeps DEF u, v, r, old

\* A group is closed.
LEMMA CloseGroupKeeps ==
  ASSUME NEW t, GroupsInv(t), NEW gr \in Groups, Exists(t, gr), NEW mcf \in BOOLEAN
  PROVE  Keeps(DisposeGroup(t, gr, mcf), t)
<1>1. Good(t) /\ t.par[gr] # NoItem
  BY GoodOf DEF Exists
<1>2. Leads(DisposeGroup(t, gr, mcf), t)
  BY <1>1, DisposeFacts
<1> QED BY <1>2, LeadsKeeps

-----------------------------------------------------------------------------
(* Regions come and go *)

\* What a region may be attached with.
LEMMA ParamsFacts ==
  ASSUME NEW a \in Params
  PROVE  a.level \in Nat /\ a.above \in Regs \cup {NoItem}
BY GroupsAssumption DEF Params

\* A region outside is attached.
LEMMA AttachKeeps ==
  ASSUME NEW t, GroupsInv(t), NEW gr \in Groups, NEW x \in Outside(t), NEW a \in Params, MayAttach(t, gr, a),
         NEW mcf \in BOOLEAN
  PROVE  Keeps(group_do_attach_final(IF t.ph[x].set THEN UnlinkPh(t, x) ELSE t, gr, x, a, mcf), t)
<1> DEFINE v == IF t.ph[x].set THEN UnlinkPh(t, x) ELSE t
           u == group_do_attach_final(v, gr, x, a, mcf)
<1>1. Good(t) /\ t \in GroupStates /\ x \in Regs /\ t.mgr[x] = NoItem /\ NoItem \notin Groups /\ t.par[gr] # NoItem
      /\ (a.bottom => t.bottom[gr] = NoItem)
  BY GoodOf, GroupsAssumption DEF Outside, MayAttach, Exists
<1>2. Fewer(v, t) /\ ~v.ph[x].set
  <2>1. CASE t.ph[x].set
    BY <1>1, <2>1, UnlinkFacts
  <2>2. CASE ~t.ph[x].set
    BY <1>1, <2>2 DEF Fewer, SameCore
  <2> QED BY <2>1, <2>2
<1> HIDE DEF v
<1>3. Leads(v, t)
  BY <1>1, <1>2, FewerLeads
<1>4. GroupsInv(v) /\ Good(v) /\ v.mgr = t.mgr /\ v.par = t.par /\ v.bottom = t.bottom
  BY <1>2, <1>3, LeadsKeeps DEF Keeps, Leads, Fewer, SameCore
<1>5. Arrives(u, v, x)
  BY <1>1, <1>4, ParamsFacts, AttachArrives
<1> HIDE DEF u
<1>6. Keeps(u, v)
  BY <1>1, <1>2, <1>4, <1>5, ArrivesKeeps
<1>7. Keeps(v, t)
  BY <1>3, LeadsKeeps
<1> QED BY <1>6, <1>7, KeepsTwice DEF u, v

\* A region goes from one group to another.
LEMMA ReparentKeeps ==
  ASSUME NEW t, GroupsInv(t), NEW gr \in Groups, NEW x \in Regs, NEW a \in Params, MayAttach(t, gr, a),
         t.mgr[x] \in Groups \ {gr}, NEW mcf \in BOOLEAN
  PROVE  LET old == t.mgr[x]
             u == group_do_attach_final(group_managed_remove(t, x, mcf), gr, x, a, mcf)
         IN Keeps(IF DisposedWith(t, old, x) THEN DisposeGroup(u, old, mcf) ELSE u, t)
<1> DEFINE old == t.mgr[x]
           v == group_managed_remove(t, x, mcf)
           u == group_do_attach_final(v, gr, x, a, mcf)
           d == DisposeGroup(u, old, mcf)
           A == {x}
<1>1. /\ Good(t) /\ Core(t) /\ Body(t) /\ old \in Groups /\ NoItem \notin Groups /\ t.par[gr] # NoItem
      /\ (a.bottom => t.bottom[gr] = NoItem) /\ x \in Items /\ NoItem \notin Wins /\ NoItem \notin Regs
  BY GoodOf, GroupsAssumption DEF MayAttach, Exists, Items
<1>2. ~t.ph[x].set
  BY <1>1 DEF GroupsInv, NotAway
<1>3. Out(v, t, A)
  BY <1>1, RemoveFacts
<1>4. v.mgr[x] = NoItem /\ v.par = t.par /\ v.ph = t.ph /\ (t.bottom[gr] = NoItem => v.bottom[gr] = NoItem)
  BY <1>1, <1>3 DEF Out, Aside
<1> HIDE DEF v, A
<1>5. Leads(v, t)
  BY <1>1, <1>3, OutLeads
<1>6. GroupsInv(v) /\ Good(v) /\ Keeps(v, t)
  BY <1>5, LeadsKeeps DEF Keeps, Leads
<1>7. Arrives(u, v, x)
  BY <1>1, <1>4, <1>6, ParamsFacts, AttachArrives
<1> HIDE DEF u
<1>8. Keeps(u, v) /\ u.par = t.par
  BY <1>2, <1>4, <1>6, <1>7, ArrivesKeeps DEF Arrives, Aside
<1>9. Keeps(u, t)
  BY <1>6, <1>8, KeepsTwice
<1>10. Keeps(d, t)
  <2>1. Good(u) /\ GroupsInv(u)
    BY <1>9, GoodOf DEF Keeps
  <2>2. u.par[old] # NoItem
    BY <1>1, <1>8, GroupOf
  <2> HIDE DEF old
  <2>3. Leads(d, u)
    BY <1>1, <2>1, <2>2, DisposeFacts
  <2> HIDE DEF d
  <2>4. Keeps(d, u)
    BY <2>1, <2>3, LeadsKeeps
  <2> QED BY <1>9, <2>4, KeepsTwice
<1> HIDE DEF d
<1> QED BY <1>9, <1>10 DEF d, u, v

\* A region is destroyed.
LEMMA DestroyedKeeps ==
  ASSUME NEW t, GroupsInv(t), NEW x \in Regs, NEW mcf \in BOOLEAN
  PROVE  LET v == IF t.mgr[STDisp] = x THEN DropSTDisp(t) ELSE t
         IN Keeps(Forget(IF t.mgr[x] \in Groups THEN TakeOut(v, x, mcf) ELSE v, x), t)
<1> DEFINE v == IF t.mgr[STDisp] = x THEN DropSTDisp(t) ELSE t
           u == IF t.mgr[x] \in Groups THEN TakeOut(v, x, mcf) ELSE v
           r == Forget(u, x)
           A == {x}
<1>1. /\ Good(t) /\ Core(t) /\ Body(t) /\ t \in GroupStates /\ HomeShows(t) /\ STDispOK(t)
      /\ STDisp \notin Regs /\ NoItem \notin Groups /\ Items = Regs \cup {STDisp} /\ NoItem \notin Items
      /\ Items \cap Groups = {} /\ Home \in Wins
  BY GoodOf, GroupsAssumption DEF Items
<1>2. /\ Core(v) /\ Aside(v, t) /\ v.bottom = t.bottom /\ \A y \in Regs : v.mgr[y] = t.mgr[y]
      /\ t.mgr[STDisp] # x => v = t
  <2>1. CASE t.mgr[STDisp] = x
    <3> DEFINE d == DropSTDisp(t)
    <3>1. v = d
      BY <2>1
    <3>2. Core(d) /\ Aside(d, t) /\ d.mgr = [t.mgr EXCEPT ![STDisp] = NoItem] /\ d.bottom = t.bottom
      BY <1>1, DropFacts
    <3> HIDE DEF d, v
    <3> QED BY <1>1, <2>1, <3>1, <3>2 DEF GroupStates
  <2>2. CASE t.mgr[STDisp] # x
    BY <1>1, <2>2 DEF Aside
  <2> QED BY <2>1, <2>2
<1> HIDE DEF v
<1>3. Good(v) /\ Lesser(v, t)
  <2>1. PhsOK(t) /\ ShowsOK(t, NoItem) /\ Aside(v, t)
    BY <1>1, <1>2 DEF Good
  <2>2. PhsOK(v)
    BY <2>1 DEF PhsOK, Aside
  <2>3. ShowsOK(v, NoItem)
    BY <2>1 DEF ShowsOK, Aside
  <2>4. Lesser(v, t)
    BY <1>2, <2>1 DEF Lesser, Aside
  <2> QED BY <1>2, <2>2, <2>3, <2>4 DEF Good
<1>4. ASSUME STDispWith(t), ~STDispWith(v) PROVE BottomGoes(v, A) /\ t.mgr[x] \in Groups /\ HomeShows(v)
  <2> DEFINE sh == t.shown[Home]
  <2>1. t.mgr[STDisp] = x
    BY <1>2, <1>4
  <2>2. v.shown = t.shown /\ sh # NoItem /\ sh \notin CWGroups
    BY <1>2, <1>4 DEF STDispWith, Aside
  <2>3. sh \in Groups
    BY <1>1, <2>2 DEF GroupStates
  <2>4. t.bottom[sh] \in Tilings /\ t.bottom[sh] = x
    BY <1>1, <1>4, <2>1, <2>2, <2>3 DEF STDispWith
  <2>5. t.mgr[x] = sh
    BY <1>1, <2>3, <2>4 DEF Body, RefsOK
  <2> QED BY <1>1, <1>2, <2>2, <2>3, <2>4, <2>5 DEF BottomGoes, HomeShows, Aside
<1>5. Good(u) /\ Lesser(u, v) /\ (STDispWith(t) => STDispWith(u))
  <2>1. CASE t.mgr[x] \in Groups
    <3>1. u = TakeOut(v, x, mcf)
      BY <2>1
    <3>2. v.mgr[x] \in Groups
      BY <1>2, <2>1
    <3> HIDE DEF u
    <3>3. Leads(u, v) /\ (HomeShows(v) /\ BottomGoes(v, A) => STDispWith(u))
      BY <1>3, <3>1, <3>2, TakeOutFacts
    <3> QED BY <1>4, <3>3 DEF Leads
  <2>2. CASE t.mgr[x] \notin Groups
    <3>1. u = v
      BY <2>2
    <3> HIDE DEF u
    <3> QED BY <1>3, <1>4, <2>2, <3>1 DEF Lesser
  <2> QED BY <2>1, <2>2
<1> HIDE DEF u
<1>6. Leads(u, t)
  <2>1. Lesser(u, t)
    BY <1>3, <1>5, LesserTwice
  <2> QED BY <1>5, <2>1 DEF Leads
<1>7. Leads(r, u)
  <2>1. u \in GroupStates
    BY <1>5 DEF Good, Core, Body
  <2>2. Fewer(r, u)
    BY <2>1, ForgetFacts
  <2> HIDE DEF r
  <2> QED BY <1>5, <2>2, FewerLeads
<1> HIDE DEF r
<1>8. Leads(r, t)
  BY <1>6, <1>7, LeadsTwice
<1> QED BY <1>8, LeadsKeeps DEF r, u, v

\* A region is detached.
LEMMA DetachKeeps ==
  ASSUME NEW t, GroupsInv(t), NEW x \in Regs, t.mgr[x] \in Groups, NEW mcf \in BOOLEAN
  PROVE  Keeps(TakeOut(MakePh(t, t.mgr[x], x), x, mcf), t)
<1> DEFINE gr == t.mgr[x]
           v == MakePh(t, gr, x)
           u == TakeOut(v, x, mcf)
<1>1. Good(t) /\ Core(t) /\ Body(t) /\ PhsOK(t) /\ t \in GroupStates /\ x \in Items /\ NoItem \notin Groups
      /\ NoItem \notin Wins /\ ShowsOK(t, NoItem) /\ NotAway(t)
  BY GoodOf, GroupsAssumption DEF Items
<1>2. ~t.ph[x].set /\ t.par[gr] # NoItem
  BY <1>1, GroupOf DEF NotAway
<1>3. SameCore(v, t) /\ v.shown = t.shown /\ PhsOK(v) /\ \A y \in Regs \ {x} : v.ph[y] = t.ph[y]
  <2> HIDE DEF gr
  <2> QED BY <1>1, <1>2, MakeFacts DEF gr
<1> HIDE DEF v
<1>4. Good(v)
  <2>1. Core(v)
    BY <1>1, <1>3, CoreSame
  <2> QED BY <1>1, <1>3, <2>1 DEF Good, SameCore, ShowsOK
<1>5. Leads(u, v) /\ u.mgr[x] = NoItem
  BY <1>3, <1>4, TakeOutFacts DEF SameCore
<1> HIDE DEF u
<1>6. NotAway(u)
  <2>1. ASSUME NEW y \in Regs, u.mgr[y] \in Groups PROVE ~u.ph[y].set
    <3>1. y # x
      BY <1>1, <1>5, <2>1
    <3>2. u.mgr[y] = v.mgr[y] /\ (u.ph[y].set => v.ph[y].set)
      BY <1>1, <1>5, <2>1 DEF Leads, Lesser
    <3> QED BY <1>1, <1>3, <2>1, <3>1, <3>2 DEF SameCore, NotAway
  <2> QED BY <2>1 DEF NotAway
<1>7. STDispWith(t) => STDispWith(u)
  BY <1>3, <1>5 DEF SameCore, STDispWith, Leads
<1> QED BY <1>5, <1>6, <1>7 DEF Keeps, GroupsInv, Leads, Good, u, v

\* A placeholder is forgotten.
LEMMA ForgetReturnKeeps ==
  ASSUME NEW t, GroupsInv(t), NEW x \in Regs
  PROVE  Keeps(UnlinkPh(t, x), t)
<1>1. Good(t) /\ t \in GroupStates
  BY GoodOf
<1>2. Fewer(UnlinkPh(t, x), t)
  BY <1>1, UnlinkFacts
<1>3. Leads(UnlinkPh(t, x), t)
  BY <1>1, <1>2, FewerLeads
<1> QED BY <1>3, LeadsKeeps

-----------------------------------------------------------------------------
(* Regions in their places *)

\* The bottom of a group is set, not from a tiling with the status display to another region.
LEMMA SetBottomKeeps ==
  ASSUME NEW t, GroupsInv(t), NEW gr \in Groups, NEW x \in (Managed(t, gr) \cap Regs) \cup {NoItem}
  PROVE  LET u == SetBottom(t, gr, x)
         IN /\ GroupsInv(u)
            /\ \/ x \in Tilings \cup {NoItem} \/ t.bottom[gr] = NoItem
               \/ t.mgr[STDisp] # t.bottom[gr]
               => Keeps(u, t)
<1> DEFINE u == SetBottom(t, gr, x)
<1>1. Good(t) /\ Core(t) /\ Body(t) /\ HomeShows(t) /\ Regs \subseteq Items /\ PhsOK(t) /\ NotAway(t)
      /\ ShowsOK(t, NoItem)
  BY GoodOf DEF Items
<1>2. x \in Regs \cup {NoItem} /\ (x # NoItem => t.mgr[x] = gr)
  BY <1>1 DEF Body, ListOK, Managed
<1>3. /\ Core(u) /\ Regular(u, t)
      /\ ( /\ STDispWith(t)
           /\ \/ x \in Tilings \cup {NoItem} \/ t.bottom[gr] = NoItem
              \/ t.mgr[STDisp] # t.bottom[gr] )
         => STDispWith(u)
  BY <1>1, <1>2, SetBottomFacts DEF HomeShows
<1> HIDE DEF u
<1>4. PhsOK(u) /\ ShowsOK(u, NoItem)
  <2>1. Aside(u, t)
    BY <1>3 DEF Regular
  <2>2. PhsOK(u)
    BY <1>1, <2>1 DEF PhsOK, Aside
  <2> QED BY <1>1, <2>1, <2>2 DEF ShowsOK, Aside
<1>5. NotAway(u)
  BY <1>1, <1>3 DEF NotAway, Regular, Aside
<1> QED BY <1>3, <1>4, <1>5 DEF Keeps, GroupsInv, u

\* Another region is current.
LEMMA NotifyKeeps ==
  ASSUME NEW t, GroupsInv(t), NEW x \in Regs, t.mgr[x] \in Groups, NEW u, NEW gr, gr = t.mgr[x],
         u = [t EXCEPT !.current[gr] = x]
  PROVE  Keeps(u, t)
<1>1. Good(t) /\ Core(t)
  BY GoodOf
<1>2. Core(u) /\ Aside(u, t) /\ u.mgr = t.mgr /\ u.bottom = t.bottom
  BY <1>1, CurrentFacts
<1>3. Kept(u, t) /\ ShowsOK(u, NoItem) /\ (STDispWith(t) => STDispWith(u))
  BY <1>1, <1>2 DEF Kept, Aside, ShowsOK, Good, STDispWith
<1>4. Leads(u, t)
  BY <1>1, <1>2, <1>3, KeptLeads
<1> QED BY <1>4, LeadsKeeps

\* A region is raised or lowered.
LEMMA RestackKeeps ==
  ASSUME NEW t, GroupsInv(t), NEW x \in Regs, t.mgr[x] \in Groups, NEW lower \in BOOLEAN
  PROVE  LET w == t.par[t.mgr[x]] IN Keeps(SetZ(t, w, stacking_restack(Z(t, w), x, lower)), t)
<1> DEFINE w == t.par[t.mgr[x]]
           z == Z(t, w)
           r == stacking_restack(z, x, lower)
           u == SetZ(t, w, r)
<1>1. Good(t) /\ Core(t) /\ Body(t) /\ STDispOK(t) /\ t \in GroupStates /\ x \in Items
  BY GoodOf DEF Items
<1>2. w \in Wins /\ x \in Range(t.list[w])
  BY <1>1, GroupOf
<1> HIDE DEF w
<1>3. /\ StackOK(t, w) /\ Stacked(z) /\ z.list = t.list[w] /\ z.level = t.level /\ z.above = t.above
  BY <1>1, <1>2 DEF Body, StackOK, Z
<1> HIDE DEF z
<1>4. PICK l : r = With(z, l, l) /\ Stacked(With(z, l, l)) /\ Range(l) = Range(z.list)
  BY <1>2, <1>3, RestackStacked
<1> HIDE DEF r, u
<1> DEFINE s == With(z, l, l)
<1>5. s.list = l /\ s.order = l /\ s.above = t.above /\ s.level = t.level
  BY <1>3 DEF With
<1>6. s.list \in Seq(Items) /\ s.order \in Seq(Items) /\ s.above \in [Items -> Regs \cup {NoItem}]
  <2>1. s \in Stackings
    BY <1>4 DEF Stacked
  <2>2. t.above \in [Items -> Regs \cup {NoItem}]
    BY <1>1 DEF GroupStates
  <2> HIDE DEF s
  <2> QED BY <1>5, <2>1, <2>2 DEF Stackings
<1>7. s = [list |-> l, order |-> l, level |-> t.level, above |-> t.above]
  BY <1>3 DEF With
<1>8. r = s /\ Stacked(s)
  BY <1>4
<1> HIDE DEF s
<1>9. u = SetZ(t, w, s)
  BY <1>8 DEF u
<1>10. /\ u \in GroupStates
       /\ u.list = [t.list EXCEPT ![w] = s.list] /\ u.order = [t.order EXCEPT ![w] = s.order]
       /\ u.above = s.above /\ u.level = t.level
       /\ u.mgr = t.mgr /\ u.managed = t.managed /\ u.bottom = t.bottom /\ u.current = t.current
       /\ u.stdisp = t.stdisp /\ u.par = t.par /\ u.shown = t.shown
       /\ u.ph = t.ph /\ u.phs = t.phs /\ u.detached = t.detached
  BY <1>1, <1>2, <1>6, <1>9, SetZFacts
<1>11. u.list[w] = l /\ u.order[w] = l /\ \A h \in Wins \ {w} : u.list[h] = t.list[h] /\ u.order[h] = t.order[h]
  BY <1>1, <1>2, <1>5, <1>10 DEF GroupStates
<1>12. \A a \in Items, h \in Wins : In(u, a, h) <=> In(t, a, h)
  BY <1>10 DEF In
<1>13. ASSUME NEW h \in Wins PROVE StackOK(u, h)
  <2>1. CASE h = w
    <3>1. Z(u, w) = s
      BY <1>5, <1>7, <1>10, <1>11 DEF Z
    <3>2. \A a \in Items : a \in Range(u.list[w]) <=> In(u, a, w)
      BY <1>2, <1>3, <1>4, <1>11, <1>12 DEF StackOK
    <3> QED BY <1>8, <2>1, <3>1, <3>2 DEF StackOK
  <2>2. CASE h # w
    <3>1. u \in GroupStates /\ u.list[h] = t.list[h] /\ u.order[h] = t.order[h]
      BY <1>10, <1>11, <2>2
    <3>2. \A a \in Items : In(t, a, h) => u.level[a] = t.level[a] /\ u.above[a] = t.above[a]
      BY <1>5, <1>10
    <3> QED BY <1>1, <1>12, <3>1, <3>2, StackElsewhere
  <2> QED BY <2>1, <2>2
<1>14. ASSUME NEW h \in Groups PROVE ListOK(u, h) /\ RefsOK(u, h)
  <2>1. ListOK(t, h) /\ RefsOK(t, h)
    BY <1>1 DEF Body
  <2> QED BY <1>10, <2>1 DEF ListOK, RefsOK
<1>15. ASSUME NEW y \in Regs PROVE RegOK(u, y)
  <2>1. RegOK(t, y)
    BY <1>1 DEF Body
  <2> QED BY <1>5, <1>10, <2>1 DEF RegOK
<1>16. Core(u)
  <2>1. Body(u)
    BY <1>1, <1>5, <1>10, <1>13, <1>14, <1>15 DEF Body
  <2>2. STDispOK(u)
    BY <1>1, <1>10 DEF STDispOK
  <2> QED BY <2>1, <2>2 DEF Core
<1>17. Kept(u, t) /\ ShowsOK(u, NoItem) /\ (STDispWith(t) => STDispWith(u))
  BY <1>1, <1>10 DEF Kept, ShowsOK, Good, STDispWith
<1>18. Leads(u, t)
  BY <1>1, <1>16, <1>17, KeptLeads
<1> QED BY <1>18, LeadsKeeps DEF u, r, z, w

\* A region returns to its group.
LEMMA ReturnToKeeps ==
  ASSUME NEW t, GroupsInv(t), NEW gr \in Groups, NEW x \in Away(t), x \in Range(t.phs[gr]),
         ~(t.ph[x].bottom /\ t.bottom[gr] # NoItem), NEW switchto \in BOOLEAN, NEW mcf \in BOOLEAN
  PROVE  Keeps(ReturnTo(t, gr, x, switchto, mcf), t)
<1> DEFINE a == [level |-> t.ph[x].level, above |-> t.ph[x].above, bottom |-> t.ph[x].bottom,
                 switchto |-> switchto]
           v == group_do_attach_final(t, gr, x, a, mcf)
           u == UnlinkPh(v, x)
<1>1. Good(t) /\ Core(t) /\ PhsOK(t) /\ NotAway(t) /\ t \in GroupStates /\ x \in Regs /\ t.ph[x].set
  BY GoodOf DEF Away
<1>2. t.mgr[x] \notin Groups /\ t.par[gr] # NoItem
  <2>1. Range(<<>>) = {}
    BY DEF Range
  <2> QED BY <1>1, <2>1 DEF NotAway, PhsOK
<1>3. a.level \in Nat /\ a.above \in Regs \cup {NoItem} /\ (a.bottom => t.bottom[gr] = NoItem)
  <2>1. t.ph[x] \in PhStates
    BY <1>1 DEF GroupStates
  <2> QED BY <2>1 DEF PhStates
<1>4. ReturnTo(t, gr, x, switchto, mcf) = u
  BY DEF ReturnTo
<1> HIDE DEF a
<1>5. Arrives(v, t, x)
  BY <1>1, <1>2, <1>3, AttachArrives
<1> HIDE DEF v
<1>6. Good(v) /\ Aside(v, t) /\ (STDispWith(t) => STDispWith(v)) /\ \A r \in Regs \ {x} : v.mgr[r] = t.mgr[r]
  BY <1>5 DEF Arrives
<1>7. Fewer(u, v) /\ ~u.ph[x].set
  <2>1. v \in GroupStates
    BY <1>6 DEF Good, Core, Body
  <2> QED BY <1>1, <2>1, UnlinkFacts
<1> HIDE DEF u
<1>8. Leads(u, v)
  BY <1>6, <1>7, FewerLeads
<1>9. NotAway(u)
  BY <1>1, <1>6, <1>7 DEF Fewer, SameCore, NotAway, Aside
<1>10. Keeps(u, t)
  BY <1>6, <1>8, <1>9 DEF Keeps, GroupsInv, Leads, Good
<1> QED BY <1>4, <1>10

\* The state u is t without one of the lists without a group
Unlisted(u, t, x, l) ==
  /\ SameCore(u, t) /\ u.shown = t.shown /\ u.phs = t.phs /\ u.detached = t.detached \ {l}
  /\ \A y \in Regs : u.ph[y].set = t.ph[y].set

LEMMA UnlistFacts ==
  ASSUME NEW t \in GroupStates, NEW x \in Regs, NEW l, NEW u, u = [t EXCEPT !.detached = @ \ {l}, !.ph[x].above = NoItem]
  PROVE  Unlisted(u, t, x, l)
<1> DEFINE e == [t.ph[x] EXCEPT !.above = NoItem]
           p == [t.ph EXCEPT ![x] = e]
           d == t.detached \ {l}
<1>1. u = [t EXCEPT !.detached = d, !.ph = p]
  OBVIOUS
<1>2. e \in PhStates /\ e.set = t.ph[x].set
  <2>1. t.ph[x] \in PhStates
    BY DEF GroupStates
  <2> QED BY <2>1 DEF PhStates
<1> HIDE DEF e
<1>3. p \in [Regs -> PhStates] /\ d \in SUBSET Seq(Regs) /\ \A y \in Regs : p[y].set = t.ph[y].set
  <2>1. t.ph \in [Regs -> PhStates] /\ t.detached \in SUBSET Seq(Regs)
    BY DEF GroupStates
  <2>2. p[x] = e /\ \A y \in Regs \ {x} : p[y] = t.ph[y]
    BY <2>1
  <2> HIDE DEF p
  <2>3. \A y \in Regs : p[y].set = t.ph[y].set
    BY <1>2, <2>2
  <2> QED BY <1>2, <2>1, <2>3 DEF p
<1> HIDE DEF p, d
<1>4. /\ u \in GroupStates /\ u.ph = p /\ u.phs = t.phs /\ u.detached = d /\ u.shown = t.shown
      /\ u.par = t.par
  BY <1>1, <1>3 DEF GroupStates
<1>5. /\ u.list = t.list /\ u.order = t.order /\ u.level = t.level
      /\ u.above = t.above /\ u.mgr = t.mgr
  BY <1>1 DEF GroupStates
<1>6. /\ u.managed = t.managed
      /\ u.bottom = t.bottom /\ u.current = t.current /\ u.stdisp = t.stdisp
  BY <1>1 DEF GroupStates
<1> QED BY <1>3, <1>4, <1>5, <1>6 DEF Unlisted, SameCore, d

\* A group has a list of placeholders.
Listed(t, gr, l) == [t EXCEPT !.phs[gr] = l]

LEMMA ListedFacts ==
  ASSUME NEW t \in GroupStates, NEW gr \in Groups, NEW l \in Seq(Regs), NEW u, u = Listed(t, gr, l)
  PROVE  SameCore(u, t) /\ u.shown = t.shown /\ u.ph = t.ph /\ u.detached = t.detached
         /\ u.phs[gr] = l /\ \A h \in Groups \ {gr} : u.phs[h] = t.phs[h]
<1> USE DEF Listed
<1>1. /\ u \in GroupStates /\ u.ph = t.ph /\ u.detached = t.detached /\ u.shown = t.shown
      /\ u.par = t.par
  BY DEF GroupStates
<1>2. /\ u.list = t.list /\ u.order = t.order /\ u.level = t.level
      /\ u.above = t.above /\ u.mgr = t.mgr
  BY DEF GroupStates
<1>3. /\ u.managed = t.managed
      /\ u.bottom = t.bottom /\ u.current = t.current /\ u.stdisp = t.stdisp
  BY DEF GroupStates
<1>4. u.phs[gr] = l /\ \A h \in Groups \ {gr} : u.phs[h] = t.phs[h]
  BY DEF GroupStates
<1> QED BY <1>1, <1>2, <1>3, <1>4 DEF SameCore

\* The list that a group takes over was one without a group.
LEMMA TakenOver ==
  ASSUME NEW t, PhsOK(t), NEW gr \in Groups, t.phs[gr] = <<>>, NEW l \in t.detached, NEW u,
         u.detached = t.detached \ {l}, u.phs[gr] = l, \A h \in Groups \ {gr} : u.phs[h] = t.phs[h],
         \A y \in Regs : u.ph[y].set = t.ph[y].set, u.par[gr] # NoItem,
         \A h \in Groups \ {gr} : u.par[h] = t.par[h]
  PROVE  PhsOK(u)
<1>1. Range(t.phs[gr]) = {}
  BY DEF Range
<1>2. ASSUME NEW y \in Regs
      PROVE  u.ph[y].set <=> \/ \E h \in Groups : y \in Range(u.phs[h])
                             \/ \E m \in u.detached : y \in Range(m)
  <2>1. t.ph[y].set <=> \/ \E h \in Groups : y \in Range(t.phs[h])
                        \/ \E m \in t.detached : y \in Range(m)
    BY DEF PhsOK
  <2>2. (\E h \in Groups : y \in Range(u.phs[h])) <=> y \in Range(l) \/ \E h \in Groups : y \in Range(t.phs[h])
    <3>1. ASSUME NEW h \in Groups, y \in Range(u.phs[h])
          PROVE  y \in Range(l) \/ \E i \in Groups : y \in Range(t.phs[i])
      BY <3>1
    <3>2. ASSUME NEW h \in Groups, y \in Range(t.phs[h]) PROVE \E i \in Groups : y \in Range(u.phs[i])
      <4>1. h \in Groups \ {gr}
        BY <1>1, <3>2
      <4>2. u.phs[h] = t.phs[h]
        BY <4>1
      <4> QED BY <3>2, <4>2
    <3> QED BY <3>1, <3>2
  <2>3. (\E m \in t.detached : y \in Range(m)) <=> y \in Range(l) \/ \E m \in u.detached : y \in Range(m)
    OBVIOUS
  <2> QED BY <2>1, <2>2, <2>3
<1>3. ASSUME NEW h \in Groups, NEW i \in Groups, h # i PROVE Range(u.phs[h]) \cap Range(u.phs[i]) = {}
  <2>1. CASE h = gr
    <3>1. Range(t.phs[i]) \cap Range(l) = {} /\ u.phs[h] = l /\ u.phs[i] = t.phs[i]
      BY <1>3, <2>1 DEF PhsOK
    <3> QED BY <3>1
  <2>2. CASE i = gr
    <3>1. Range(t.phs[h]) \cap Range(l) = {} /\ u.phs[i] = l /\ u.phs[h] = t.phs[h]
      BY <1>3, <2>2 DEF PhsOK
    <3> QED BY <3>1
  <2>3. CASE h # gr /\ i # gr
    BY <1>3, <2>3 DEF PhsOK
  <2> QED BY <2>1, <2>2, <2>3
<1>4. ASSUME NEW h \in Groups, NEW m \in u.detached PROVE Range(u.phs[h]) \cap Range(m) = {}
  <2>1. m \in t.detached /\ m # l
    OBVIOUS
  <2>2. CASE h = gr
    BY <2>1, <2>2 DEF PhsOK
  <2>3. CASE h # gr
    BY <2>1, <2>3 DEF PhsOK
  <2> QED BY <2>2, <2>3
<1>5. ASSUME NEW m \in u.detached, NEW n \in u.detached, m # n PROVE Range(m) \cap Range(n) = {}
  BY <1>5 DEF PhsOK
<1>6. \A h \in Groups : u.par[h] = NoItem => u.phs[h] = <<>>
  BY DEF PhsOK
<1> QED BY <1>2, <1>3, <1>4, <1>5, <1>6 DEF PhsOK

\* A region returns to a new group.
LEMMA ReturnToNewKeeps ==
  ASSUME NEW t, GroupsInv(t), NEW gr \in Groups, ~Exists(t, gr), NEW w \in Wins, NEW x \in Away(t),
         PhList(t, x) \in t.detached, NEW switchto \in BOOLEAN
  PROVE  Keeps(ReturnToNew(t, gr, x, w, switchto), t)
<1> DEFINE l == PhList(t, x)
           p == Parented(t, gr, w)
           c == [p EXCEPT !.detached = @ \ {l}, !.ph[x].above = NoItem]
           a == [level |-> t.ph[x].level, above |-> NoItem, bottom |-> t.ph[x].bottom, switchto |-> TRUE]
           v == group_do_attach_final(c, gr, x, a, FALSE)
           s == Listed(v, gr, l)
           h == Show(s, w, gr, switchto)
           u == UnlinkPh(h, x)
<1>1. Good(t) /\ Core(t) /\ PhsOK(t) /\ ShowsOK(t, NoItem) /\ NotAway(t) /\ t \in GroupStates /\ x \in Regs
      /\ t.ph[x].set /\ t.par[gr] = NoItem /\ NoItem \notin Wins /\ HomeShows(t) /\ Home \in Wins
  BY GoodOf, GroupsAssumption DEF Away, Exists
<1>2. t.mgr[x] \notin Groups /\ t.phs[gr] = <<>> /\ l \in t.detached /\ l \in Seq(Regs)
  BY <1>1 DEF NotAway, PhsOK, GroupStates
<1>3. a.level \in Nat /\ a.above \in Regs \cup {NoItem}
  <2>1. t.ph[x] \in PhStates
    BY <1>1 DEF GroupStates
  <2> QED BY <2>1 DEF PhStates
<1>4. ReturnToNew(t, gr, x, w, switchto) = u
  <2>1. c = [t EXCEPT !.par[gr] = w, !.detached = @ \ {l}, !.ph[x].above = NoItem]
    BY <1>1 DEF Parented, GroupStates
  <2>2. s = [v EXCEPT !.phs[gr] = l]
    BY DEF Listed
  <2> HIDE DEF c, s
  <2> QED BY <2>1, <2>2 DEF ReturnToNew
<1> HIDE DEF l, a, p
<1>5. /\ Core(p) /\ p.par = [t.par EXCEPT ![gr] = w] /\ p.mgr = t.mgr /\ p.bottom = t.bottom
      /\ p.shown = t.shown /\ p.ph = t.ph /\ p.phs = t.phs /\ p.detached = t.detached
      /\ t.bottom[gr] = NoItem /\ ShowsOK(p, NoItem) /\ (STDispWith(t) => STDispWith(p))
  BY <1>1, NewGroupFacts DEF p
<1>6. p.par[gr] = w /\ \A i \in Groups \ {gr} : p.par[i] = t.par[i]
  BY <1>1, <1>5 DEF GroupStates
<1>7. Unlisted(c, p, x, l)
  BY <1>1, <1>5, UnlistFacts DEF Core, Body
<1> HIDE DEF c
<1>8. /\ Core(c) /\ c.par = p.par /\ c.mgr = p.mgr /\ c.bottom = p.bottom /\ c.shown = p.shown
      /\ c.phs = t.phs /\ c.detached = t.detached \ {l} /\ \A y \in Regs : c.ph[y].set = t.ph[y].set
  BY <1>5, <1>7, CoreSame DEF Unlisted, SameCore
<1>9. HomeShows(c) /\ (STDispWith(t) => STDispWith(c)) /\ ShowsOK(c, NoItem)
  <2>1. ShowsOK(c, NoItem)
    BY <1>5, <1>8 DEF ShowsOK
  <2>2. HomeShows(c)
    BY <1>1, <2>1 DEF ShowsOK, HomeShows
  <2> QED BY <1>5, <1>8, <2>1, <2>2 DEF STDispWith
<1>10. Joined(v, c, gr, x) /\ (STDispWith(t) => STDispWith(v))
  <2>1. c.par[gr] # NoItem /\ c.mgr[x] \notin Groups /\ c.bottom[gr] = NoItem
    BY <1>1, <1>2, <1>5, <1>6, <1>8
  <2> QED BY <1>1, <1>3, <1>8, <1>9, <2>1, AttachFacts
<1> HIDE DEF v
<1>11. Core(v) /\ Aside(v, c) /\ \A r \in Regs \ {x} : v.mgr[r] = t.mgr[r]
  BY <1>5, <1>8, <1>10 DEF Joined
<1>12. /\ SameCore(s, v) /\ s.shown = v.shown /\ s.ph = v.ph /\ s.detached = v.detached
       /\ s.phs[gr] = l /\ \A i \in Groups \ {gr} : s.phs[i] = v.phs[i]
  BY <1>2, <1>11, ListedFacts DEF Core, Body
<1> HIDE DEF s
<1>13. s.par = p.par /\ s.shown = c.shown /\ s.detached = t.detached \ {l} /\ s.ph = c.ph
       /\ \A i \in Groups \ {gr} : s.phs[i] = t.phs[i]
  BY <1>8, <1>11, <1>12 DEF Aside, SameCore
<1>14. Core(s)
  BY <1>11, <1>12, CoreSame
<1>15. PhsOK(s)
  <2>1. /\ s.par[gr] # NoItem /\ \A i \in Groups \ {gr} : s.par[i] = t.par[i]
    BY <1>1, <1>6, <1>13
  <2>2. \A y \in Regs : s.ph[y].set = t.ph[y].set
    BY <1>8, <1>13
  <2> QED BY <1>1, <1>2, <1>12, <1>13, <2>1, <2>2, TakenOver
<1>16. ShowsOK(s, NoItem) /\ (STDispWith(t) => STDispWith(s))
  <2>1. ShowsOK(s, NoItem)
    BY <1>8, <1>9, <1>13 DEF ShowsOK
  <2>2. STDispWith(v) => STDispWith(s)
    BY <1>12 DEF STDispWith, SameCore
  <2> QED BY <1>10, <2>1, <2>2
<1>17. s.par[gr] = w
  BY <1>6, <1>13
<1>18. Core(h) /\ Kept(h, s) /\ ShowsOK(h, NoItem) /\ (STDispWith(s) => STDispWith(h))
  BY <1>14, <1>16, <1>17, ShowFacts
<1> HIDE DEF h
<1>19. Leads(h, s)
  BY <1>14, <1>15, <1>16, <1>18, KeptLeads DEF Good
<1>20. Fewer(u, h) /\ ~u.ph[x].set
  <2>1. h \in GroupStates
    BY <1>18 DEF Core, Body
  <2> QED BY <1>1, <2>1, UnlinkFacts
<1> HIDE DEF u
<1>21. Leads(u, h)
  BY <1>19, <1>20, FewerLeads DEF Leads
<1>22. Leads(u, s)
  BY <1>19, <1>21, LeadsTwice
<1>23. NotAway(u)
  <2>1. ASSUME NEW y \in Regs, u.mgr[y] \in Groups, u.ph[y].set PROVE FALSE
    <3>1. y # x
      BY <1>20, <2>1
    <3>2. u.mgr[y] = s.mgr[y] /\ s.ph[y].set
      BY <1>22, <2>1, GroupsAssumption DEF Leads, Lesser
    <3>3. s.mgr[y] = t.mgr[y] /\ t.ph[y].set
      BY <1>8, <1>11, <1>12, <1>13, <3>1, <3>2 DEF SameCore
    <3> QED BY <1>1, <2>1, <3>2, <3>3 DEF NotAway
  <2> QED BY <2>1 DEF NotAway
<1>24. Keeps(u, t)
  BY <1>16, <1>22, <1>23 DEF Keeps, GroupsInv, Leads, Good
<1> QED BY <1>4, <1>24

-----------------------------------------------------------------------------
(* The beginning *)

\* Nothing at all.
LEMMA EmptyFacts ==
  GroupsInv(EmptyGroup) /\ STDispWith(EmptyGroup) /\ (\A gr \in Groups : EmptyGroup.par[gr] = NoItem)
  /\ (\A x \in Items : EmptyGroup.mgr[x] = NoItem) /\ \A x \in Regs : ~EmptyGroup.ph[x].set
<1> DEFINE e == <<>>
           t == EmptyGroup
           f == [list |-> [w \in Wins |-> e], order |-> [w \in Wins |-> e],
                 level |-> [x \in Items |-> 0], above |-> [x \in Items |-> NoItem],
                 mgr |-> [x \in Items |-> NoItem], par |-> [gr \in Groups |-> NoItem],
                 managed |-> [gr \in Groups |-> e], bottom |-> [gr \in Groups |-> NoItem],
                 current |-> [gr \in Groups |-> NoItem], stdisp |-> [gr \in Groups |-> NoItem],
                 shown |-> [w \in Wins |-> NoItem], ph |-> [x \in Regs |-> NoPh],
                 phs |-> [gr \in Groups |-> e], detached |-> {}]
<1>1. /\ e \in Seq(Items) /\ e \in Seq(Regs) /\ Range(e) = {} /\ IsInjective(e)
      /\ \A a, b : ~Prec(e, a, b)
  BY DEF Range, IsInjective, Prec
<1>2. /\ NoItem \notin Groups /\ NoItem \notin Items /\ NoItem \notin Wins /\ Items = Regs \cup {STDisp}
      /\ STDisp \notin Regs /\ Home \in Wins
  BY GroupsAssumption DEF Items
<1>3. NoPh \in PhStates /\ ~NoPh.set
  BY DEF NoPh, PhStates
<1>4. t = f
  BY DEF EmptyGroup
<1>5. e = <<>>
  OBVIOUS
<1> HIDE DEF e, t, f
<1>6. f \in GroupStates
  BY <1>1, <1>3 DEF f, GroupStates
<1>7. /\ \A w \in Wins : f.list[w] = e /\ f.order[w] = e /\ f.shown[w] = NoItem
      /\ \A x \in Items : f.level[x] = 0 /\ f.above[x] = NoItem /\ f.mgr[x] = NoItem
  BY DEF f
<1>8. /\ \A gr \in Groups : f.par[gr] = NoItem /\ f.managed[gr] = e /\ f.bottom[gr] = NoItem
      /\ \A gr \in Groups : f.current[gr] = NoItem /\ f.stdisp[gr] = NoItem
  BY DEF f
<1>9. /\ \A gr \in Groups : f.phs[gr] = e
      /\ \A x \in Regs : f.ph[x] = NoPh
      /\ f.detached = {}
  BY DEF f
<1> HIDE DEF f
<1>10. ASSUME NEW w \in Wins PROVE StackOK(f, w)
  <2> DEFINE z == Z(f, w)
  <2>1. z \in Stackings /\ z.list = f.list[w] /\ z.order = f.order[w]
    BY <1>6, ZFacts
  <2> HIDE DEF z
  <2>2. Stacked(z)
    BY <1>1, <1>7, <2>1 DEF Stacked, Sorted
  <2> QED BY <1>1, <1>2, <1>7, <2>2 DEF StackOK, In, z
<1>11. \A gr \in Groups : ListOK(f, gr) /\ RefsOK(f, gr)
  BY <1>1, <1>2, <1>5, <1>7, <1>8 DEF ListOK, RefsOK
<1>12. \A x \in Regs : RegOK(f, x)
  BY <1>2, <1>7 DEF RegOK
<1>13. Body(f)
  BY <1>2, <1>6, <1>7, <1>10, <1>11, <1>12 DEF Body
<1>14. STDispOK(f)
  BY <1>2, <1>7, <1>8 DEF STDispOK
<1>15. PhsOK(f) /\ NotAway(f)
  BY <1>1, <1>3, <1>5, <1>9 DEF PhsOK, NotAway
<1>16. ShowsOK(f, NoItem) /\ STDispWith(f)
  BY <1>2, <1>7 DEF ShowsOK, STDispWith
<1> QED BY <1>3, <1>4, <1>7, <1>8, <1>9, <1>13, <1>14, <1>15, <1>16 DEF GroupsInv, Core, t

\* A list of the members of a set.
LEMMA ListOf ==
  ASSUME NEW S, IsFiniteSet(S)
  PROVE  SetToSeq(S) \in Seq(S) /\ IsInjective(SetToSeq(S))
<1> DEFINE n == Cardinality(S)
<1>1. n \in Nat /\ ExistsBijection(1 .. n, S)
  BY FS_CardinalityType
<1> HIDE DEF n
<1>2. \E f \in [1 .. n -> S] : IsInjective(f)
  BY <1>1 DEF ExistsBijection, Bijection, Injection
<1>3. SetToSeq(S) = CHOOSE f \in [1 .. n -> S] : IsInjective(f)
  BY DEF SetToSeq, n
<1>4. SetToSeq(S) \in [1 .. n -> S] /\ IsInjective(SetToSeq(S))
  BY <1>2, <1>3
<1> QED BY <1>1, <1>4

\* With a group of each kind.
LEMMA BothFacts ==
  ASSUME NEW ws \in Groups, NEW cw \in Groups, ws # cw
  PROVE  LET both == Show(Show([EmptyGroup EXCEPT !.par[ws] = Home, !.par[cw] = Home],
                               Home, ws, TRUE), Home, cw, FALSE)
         IN /\ GroupsInv(both) /\ STDispWith(both)
            /\ both.par[ws] = Home /\ both.par[cw] = Home
            /\ \A x \in Regs : both.mgr[x] = NoItem /\ ~both.ph[x].set
<1> DEFINE e == EmptyGroup
           a == Parented(e, ws, Home)
           b == Parented(a, cw, Home)
           c == Show(b, Home, ws, TRUE)
           d == Show(c, Home, cw, FALSE)
<1>1. /\ GroupsInv(e) /\ STDispWith(e) /\ \A gr \in Groups : e.par[gr] = NoItem
      /\ \A x \in Items : e.mgr[x] = NoItem
      /\ \A x \in Regs : ~e.ph[x].set
  BY EmptyFacts
<1> HIDE DEF e
<1>2. e \in GroupStates /\ Core(e) /\ PhsOK(e) /\ ShowsOK(e, NoItem) /\ NoItem \notin Groups /\ Regs \subseteq Items
      /\ Home \in Wins
  BY <1>1, GoodOf, GroupsAssumption DEF Items
<1>3. b = [e EXCEPT !.par[ws] = Home, !.par[cw] = Home]
  BY <1>2 DEF Parented, GroupStates
<1> HIDE DEF a
<1>4. /\ Core(a) /\ a.par = [e.par EXCEPT ![ws] = Home] /\ a.mgr = e.mgr /\ a.ph = e.ph
      /\ PhsOK(a) /\ ShowsOK(a, NoItem) /\ STDispWith(a)
  BY <1>1, <1>2, NewGroupFacts DEF a
<1>5. a.par[ws] = Home /\ a.par[cw] = NoItem
  BY <1>1, <1>2, <1>4 DEF GroupStates
<1> HIDE DEF b
<1>6. /\ Core(b) /\ b.par = [a.par EXCEPT ![cw] = Home] /\ b.mgr = a.mgr /\ b.ph = a.ph
      /\ PhsOK(b) /\ ShowsOK(b, NoItem) /\ STDispWith(b)
  <2>1. b = Parented(a, cw, Home)
    BY DEF b
  <2>2. a.par[cw] = NoItem /\ Core(a) /\ Home \in Wins
    BY <1>2, <1>4, <1>5
  <2>3. /\ Core(b) /\ b.par = [a.par EXCEPT ![cw] = Home] /\ b.mgr = a.mgr /\ b.ph = a.ph
        /\ (PhsOK(a) => PhsOK(b)) /\ (ShowsOK(a, NoItem) => ShowsOK(b, NoItem))
        /\ (STDispWith(a) => STDispWith(b))
    BY <2>1, <2>2, NewGroupFacts
  <2> QED BY <1>4, <2>3
<1>7. b.par[ws] = Home /\ b.par[cw] = Home
  <2>1. a \in GroupStates
    BY <1>4 DEF Core, Body
  <2> QED BY <1>5, <1>6, <2>1 DEF GroupStates
<1>8. Core(c) /\ Kept(c, b) /\ ShowsOK(c, NoItem) /\ STDispWith(c)
  BY <1>2, <1>6, <1>7, ShowFacts
<1> HIDE DEF c
<1>9. c.par[cw] = Home
  BY <1>7, <1>8 DEF Kept
<1>10. Core(d) /\ Kept(d, c) /\ ShowsOK(d, NoItem) /\ STDispWith(d)
  BY <1>2, <1>8, <1>9, ShowFacts
<1> HIDE DEF d
<1>11. Kept(d, b) /\ PhsOK(d)
  <2>1. Kept(d, b)
    BY <1>8, <1>10 DEF Kept
  <2> QED BY <1>6, <2>1, KeptFacts
<1>12. \A x \in Regs : d.mgr[x] = NoItem /\ ~d.ph[x].set
  BY <1>1, <1>2, <1>4, <1>6, <1>11 DEF Kept
<1>13. GroupsInv(d)
  BY <1>2, <1>10, <1>11, <1>12 DEF GroupsInv, NotAway
<1>14. d.par[ws] = Home /\ d.par[cw] = Home
  BY <1>7, <1>11 DEF Kept
<1> QED BY <1>3, <1>10, <1>12, <1>13, <1>14 DEF d, c, e

\* With regions in these.
LEMMA PutAllFacts ==
  ASSUME NEW t, GroupsInv(t), STDispWith(t), NEW ws \in Groups, NEW cw \in Groups, t.par[ws] # NoItem, t.par[cw] # NoItem,
         \A x \in Regs : t.mgr[x] = NoItem /\ ~t.ph[x].set,
         NEW xs \in Seq(Regs), IsInjective(xs)
  PROVE  LET u == PutAll(t, ws, cw, xs) IN GroupsInv(u) /\ STDispWith(u)
<1> DEFINE N == Len(xs)
<1>1. N \in Nat /\ DOMAIN xs = 1 .. N /\ \A k \in 1 .. N : xs[k] \in Regs
  OBVIOUS
<1>100. PICK f : PutBy(f, t, ws, cw, xs)
  BY PutTurns
<1>2. /\ PutAll(t, ws, cw, xs) = f[N] /\ f[0] = t
      /\ \A k \in 1 .. N :
           f[k] = group_do_attach_final(f[k-1], IF xs[k] \in Tilings THEN ws ELSE cw, xs[k],
                                        First(xs[k]), FALSE)
  BY <1>100 DEF PutBy
<1> DEFINE Fine(u, k) == /\ GroupsInv(u) /\ STDispWith(u) /\ u.par = t.par
                         /\ \A y \in Regs : ~u.ph[y].set
                         /\ \A y \in Regs : u.mgr[y] = NoItem \/ \E i \in 1 .. k : xs[i] = y
           P == {k \in 0 .. N : Fine(f[k], k)}
<1> HIDE DEF N
<1>3. 0 \in P
  BY <1>1, <1>2
<1>4. ASSUME NEW k \in 1 .. N, k - 1 \in P PROVE k \in P
  <2> DEFINE s == f[k-1]
             v == f[k]
             x == xs[k]
             gr == IF x \in Tilings THEN ws ELSE cw
             a == First(x)
  <2>1. Fine(s, k - 1) /\ k \in 0 .. N /\ x \in Regs /\ NoItem \notin Groups
    BY <1>1, <1>4, GroupsAssumption
  <2>2. v = group_do_attach_final(s, gr, x, a, FALSE)
    BY <1>2
  <2>3. gr \in Groups /\ s.par[gr] # NoItem
    BY <2>1
  <2>4. a.level \in Nat /\ a.above \in Regs \cup {NoItem} /\ (a.bottom => x \in Tilings)
    BY DEF First
  <2>5. ~ \E i \in 1 .. k - 1 : xs[i] = x
    BY <1>1 DEF IsInjective
  <2> HIDE DEF s, v, gr, a
  <2>6. s.mgr[x] \notin Groups /\ ~s.ph[x].set /\ GroupsInv(s) /\ STDispWith(s)
    BY <2>1, <2>5
  <2>7. Good(s)
    BY <2>6, GoodOf
  <2>8. Arrives(v, s, x)
    BY <2>1, <2>2, <2>3, <2>4, <2>6, <2>7, AttachArrives
  <2>9. Keeps(v, s)
    BY <2>1, <2>6, <2>8, ArrivesKeeps
  <2>10. GroupsInv(v) /\ STDispWith(v)
    BY <2>6, <2>9 DEF Keeps
  <2>11. v.par = t.par /\ \A y \in Regs : ~v.ph[y].set
    BY <2>1, <2>8 DEF Arrives, Aside
  <2>12. ASSUME NEW y \in Regs PROVE v.mgr[y] = NoItem \/ \E i \in 1 .. k : xs[i] = y
    <3>1. CASE y = x
      <4>1. k \in 1 .. k
        BY <1>1
      <4> QED BY <3>1, <4>1
    <3>2. CASE y # x
      <4>1. v.mgr[y] = s.mgr[y]
        BY <2>8, <3>2 DEF Arrives
      <4>2. 1 .. k - 1 \subseteq 1 .. k
        BY <1>1
      <4> QED BY <2>1, <4>1, <4>2
    <3> QED BY <3>1, <3>2
  <2>13. Fine(v, k)
    BY <2>10, <2>11, <2>12
  <2> HIDE DEF Fine
  <2> QED BY <2>1, <2>13 DEF v
<1>5. N \in P
  <2> HIDE DEF P
  <2>1. \A n \in 0 .. N : n \in P
    BY <1>1, <1>3, <1>4, UpTo
  <2> QED BY <1>1, <2>1
<1> QED BY <1>2, <1>5

LEMMA InitInv ==
  GroupsInit => GroupsInv(g) /\ STDispWith(g)
<1> SUFFICES ASSUME GroupsInit PROVE GroupsInv(g) /\ STDispWith(g)
  OBVIOUS
<1>1. PICK ws \in Groups \ CWGroups, cw \in CWGroups, full \in SUBSET Regs :
        LET both == Show(Show([EmptyGroup EXCEPT !.par[ws] = Home, !.par[cw] = Home],
                              Home, ws, TRUE), Home, cw, FALSE)
        IN g \in {EmptyGroup, PutAll(both, ws, cw, SetToSeq(full))}
  BY DEF GroupsInit
<1> DEFINE both == Show(Show([EmptyGroup EXCEPT !.par[ws] = Home, !.par[cw] = Home],
                             Home, ws, TRUE), Home, cw, FALSE)
           xs == SetToSeq(full)
<1>2. g = EmptyGroup \/ g = PutAll(both, ws, cw, xs)
  BY <1>1
<1>3. ws \in Groups /\ cw \in Groups /\ ws # cw /\ NoItem \notin Wins /\ Home \in Wins
  BY GroupsAssumption
<1>4. /\ GroupsInv(both) /\ STDispWith(both) /\ both.par[ws] = Home /\ both.par[cw] = Home
      /\ \A x \in Regs : both.mgr[x] = NoItem /\ ~both.ph[x].set
  BY <1>3, BothFacts
<1>5. xs \in Seq(Regs) /\ IsInjective(xs)
  <2>1. IsFiniteSet(full)
    BY FS_Subset, GroupsAssumption
  <2>2. xs \in Seq(full) /\ IsInjective(xs)
    BY <2>1, ListOf
  <2> HIDE DEF xs
  <2> QED BY <2>2
<1> HIDE DEF both, xs
<1>6. GroupsInv(PutAll(both, ws, cw, xs)) /\ STDispWith(PutAll(both, ws, cw, xs))
  <2>1. both.par[ws] # NoItem /\ both.par[cw] # NoItem
    BY <1>3, <1>4
  <2> QED BY <1>3, <1>4, <1>5, <2>1, PutAllFacts
<1>7. GroupsInv(EmptyGroup) /\ STDispWith(EmptyGroup)
  BY EmptyFacts
<1> QED BY <1>2, <1>6, <1>7

-----------------------------------------------------------------------------
(* All that is the case *)

LEMMA UnchangedKeeps ==
  ASSUME GroupsInv(g), g' = g
  PROVE  Keeps(g', g)
BY DEF Keeps

\* Every operation keeps the invariant, and the status display where it is to be, unless the
\* calls that are known to break that are included.
LEMMA NextKeeps ==
  ASSUME GroupsInv(g), GroupsNext
  PROVE  GroupsInv(g') /\ ("bottom" \notin GroupCalls => Keeps(g', g))
<1>1. CASE NewGroup
  <2>1. PICK gr \in Groups, w \in Wins, switchto \in BOOLEAN :
          ~Exists(g, gr) /\ g' = Show([g EXCEPT !.par[gr] = w], w, gr, switchto)
    BY <1>1 DEF NewGroup, Op
  <2> QED BY <2>1, NewGroupKeeps DEF Keeps
<1>2. CASE SwitchTo
  <2>1. PICK gr \in Groups : Exists(g, gr) /\ g' = Show(g, g.par[gr], gr, TRUE)
    BY <1>2 DEF SwitchTo, Op
  <2> QED BY <2>1, SwitchToKeeps DEF Keeps
<1>3. CASE MoveGroup
  <2>1. PICK gr \in Groups, w \in Wins, switchto \in BOOLEAN :
          /\ Exists(g, gr) /\ g.par[gr] # w
          /\ g' = Show(AfterLeaving(group_fitrep(g, gr, w), g.par[gr], gr), w, gr, switchto)
    BY <1>3 DEF MoveGroup, Op
  <2> QED BY <2>1, MoveGroupKeeps DEF Keeps
<1>4. CASE CloseGroup
  <2>1. PICK gr \in Groups, mcf \in BOOLEAN : Exists(g, gr) /\ g' = DisposeGroup(g, gr, mcf)
    BY <1>4 DEF CloseGroup, Op
  <2> QED BY <2>1, CloseGroupKeeps DEF Keeps
<1>5. CASE group_do_attach
  <2>1. PICK gr \in Groups, x \in Regs, a \in Params, mcf \in BOOLEAN :
          /\ MayAttach(g, gr, a) /\ x \in Outside(g)
          /\ g' = group_do_attach_final(IF g.ph[x].set THEN UnlinkPh(g, x) ELSE g, gr, x, a, mcf)
    BY <1>5 DEF group_do_attach, Op
  <2> QED BY <2>1, AttachKeeps DEF Keeps
<1>6. CASE Reparent
  <2>1. PICK gr \in Groups, x \in Regs, a \in Params, mcf \in BOOLEAN :
          /\ MayAttach(g, gr, a) /\ g.mgr[x] \in Groups \ {gr}
          /\ LET old == g.mgr[x]
                 u == group_do_attach_final(group_managed_remove(g, x, mcf), gr, x, a, mcf)
             IN g' = IF DisposedWith(g, old, x) THEN DisposeGroup(u, old, mcf) ELSE u
    BY <1>6 DEF Reparent, Op
  <2> DEFINE old == g.mgr[x]
             u == group_do_attach_final(group_managed_remove(g, x, mcf), gr, x, a, mcf)
             r == IF DisposedWith(g, old, x) THEN DisposeGroup(u, old, mcf) ELSE u
  <2>2. g' = r
    BY <2>1
  <2>3. Keeps(r, g)
    BY <2>1, ReparentKeeps
  <2> HIDE DEF r
  <2> QED BY <2>2, <2>3 DEF Keeps
<1>7. CASE RegionDestroyed
  <2>1. PICK x \in Regs, mcf \in BOOLEAN :
          LET t == IF g.mgr[STDisp] = x THEN DropSTDisp(g) ELSE g
          IN g' = Forget(IF g.mgr[x] \in Groups THEN TakeOut(t, x, mcf) ELSE t, x)
    BY <1>7 DEF RegionDestroyed, Op
  <2> DEFINE t == IF g.mgr[STDisp] = x THEN DropSTDisp(g) ELSE g
             r == Forget(IF g.mgr[x] \in Groups THEN TakeOut(t, x, mcf) ELSE t, x)
  <2>2. g' = r
    BY <2>1
  <2>3. Keeps(r, g)
    BY DestroyedKeeps
  <2> HIDE DEF r
  <2> QED BY <2>2, <2>3 DEF Keeps
<1>8. CASE group_set_bottom
  <2>1. PICK gr \in Groups : \E x \in (Managed(g, gr) \cap Regs) \cup {NoItem} :
          /\ Guarded("bottom", x \notin Tilings \cup {NoItem} /\ g.bottom[gr] # NoItem
                               /\ g.mgr[STDisp] = g.bottom[gr])
          /\ g' = SetBottom(g, gr, x)
    BY <1>8 DEF group_set_bottom, Op
  <2>2. PICK x \in (Managed(g, gr) \cap Regs) \cup {NoItem} :
          /\ Guarded("bottom", x \notin Tilings \cup {NoItem} /\ g.bottom[gr] # NoItem
                               /\ g.mgr[STDisp] = g.bottom[gr])
          /\ g' = SetBottom(g, gr, x)
    BY <2>1
  <2> DEFINE r == SetBottom(g, gr, x)
             fit == x \in Tilings \cup {NoItem} \/ g.bottom[gr] = NoItem \/ g.mgr[STDisp] # g.bottom[gr]
  <2>3. GroupsInv(r) /\ (fit => Keeps(r, g))
    BY SetBottomKeeps
  <2>4. "bottom" \notin GroupCalls => fit
    BY <2>2 DEF Guarded
  <2>5. g' = r
    BY <2>2
  <2> HIDE DEF r, fit
  <2> QED BY <2>3, <2>4, <2>5
<1>9. CASE group_managed_rqorder
  <2>1. PICK x \in Regs, lower \in BOOLEAN :
          /\ g.mgr[x] \in Groups
          /\ LET w == g.par[g.mgr[x]] IN g' = SetZ(g, w, stacking_restack(Z(g, w), x, lower))
    BY <1>9 DEF group_managed_rqorder, Op
  <2> QED BY <2>1, RestackKeeps DEF Keeps
<1>10. CASE group_managed_notify
  <2>1. PICK x \in Focusable(g) : g' = [g EXCEPT !.current[g.mgr[x]] = x]
    BY <1>10 DEF group_managed_notify, Op
  <2>2. x \in Regs /\ g.mgr[x] \in Groups
    BY DEF Focusable
  <2> DEFINE gr == g.mgr[x]
             r == [g EXCEPT !.current[gr] = x]
  <2>3. g' = r
    BY <2>1
  <2>4. gr = g.mgr[x] /\ r = [g EXCEPT !.current[gr] = x]
    OBVIOUS
  <2> HIDE DEF r, gr
  <2>5. Keeps(r, g)
    BY <2>2, <2>4, NotifyKeeps
  <2> QED BY <2>3, <2>5 DEF Keeps
<1>11. CASE Detach
  <2>1. PICK x \in Regs, mcf \in BOOLEAN :
          g.mgr[x] \in Groups /\ g' = TakeOut(MakePh(g, g.mgr[x], x), x, mcf)
    BY <1>11 DEF Detach, Op
  <2> QED BY <2>1, DetachKeeps DEF Keeps
<1>12. CASE Return
  <2>1. PICK x \in Away(g), switchto \in BOOLEAN, mcf \in BOOLEAN :
    \/ \E gr \in Groups :
         /\ x \in Range(g.phs[gr])
         /\ ~(g.ph[x].bottom /\ g.bottom[gr] # NoItem)
         /\ g' = ReturnTo(g, gr, x, switchto, mcf)
    \/ \E gr \in CWGroups, w \in Wins :
         /\ PhList(g, x) \in g.detached /\ ~Exists(g, gr)
         /\ g' = ReturnToNew(g, gr, x, w, switchto)
    BY <1>12 DEF Return, Op
  <2>2. CASE \E gr \in Groups :
               /\ x \in Range(g.phs[gr])
               /\ ~(g.ph[x].bottom /\ g.bottom[gr] # NoItem)
               /\ g' = ReturnTo(g, gr, x, switchto, mcf)
    BY <2>2, ReturnToKeeps DEF Keeps
  <2>3. CASE \E gr \in CWGroups, w \in Wins :
               /\ PhList(g, x) \in g.detached /\ ~Exists(g, gr)
               /\ g' = ReturnToNew(g, gr, x, w, switchto)
    <3>1. PICK gr \in CWGroups, w \in Wins :
               /\ PhList(g, x) \in g.detached /\ ~Exists(g, gr)
               /\ g' = ReturnToNew(g, gr, x, w, switchto)
      BY <2>3
    <3>2. gr \in Groups
      BY GroupsAssumption
    <3> QED BY <3>1, <3>2, ReturnToNewKeeps DEF Keeps
  <2> QED BY <2>1, <2>2, <2>3
<1>13. CASE ForgetReturn
  <2>1. PICK x \in Away(g) : g' = UnlinkPh(g, x)
    BY <1>13 DEF ForgetReturn, Op
  <2>2. x \in Regs
    BY DEF Away
  <2> QED BY <2>1, <2>2, ForgetReturnKeeps DEF Keeps
<1> QED BY <1>1, <1>2, <1>3, <1>4, <1>5, <1>6, <1>7, <1>8, <1>9, <1>10, <1>11, <1>12, <1>13 DEF GroupsNext

\* The list that a placeholder is on is the only one.
LEMMA OneList ==
  ASSUME NEW t \in GroupStates, PhsOK(t), NEW x \in Regs
  PROVE  t.ph[x].set <=> Cardinality({l \in Range(t.phs) \cup t.detached : x \in Range(l)}) = 1
<1> DEFINE L == {l \in Range(t.phs) \cup t.detached : x \in Range(l)}
<1>1. Range(t.phs) = {t.phs[gr] : gr \in Groups}
  BY DEF Range, GroupStates
<1>2. t.ph[x].set <=> L # {}
  BY <1>1 DEF PhsOK
<1>3. ASSUME NEW l \in L, NEW m \in L PROVE l = m
  <2>1. SUFFICES ASSUME l # m PROVE FALSE
    OBVIOUS
  <2>2. x \in Range(l) /\ x \in Range(m)
    OBVIOUS
  <2>3. CASE l \in Range(t.phs) /\ m \in Range(t.phs)
    <3>1. PICK a \in Groups, b \in Groups : l = t.phs[a] /\ m = t.phs[b]
      BY <1>1, <2>3
    <3>2. Range(t.phs[a]) \cap Range(t.phs[b]) = {}
      BY <2>1, <3>1 DEF PhsOK
    <3> QED BY <2>2, <3>1, <3>2
  <2>4. CASE l \in Range(t.phs) /\ m \in t.detached
    <3>1. Range(l) \cap Range(m) = {}
      BY <1>1, <2>4 DEF PhsOK
    <3> QED BY <2>2, <3>1
  <2>5. CASE m \in Range(t.phs) /\ l \in t.detached
    <3>1. Range(m) \cap Range(l) = {}
      BY <1>1, <2>5 DEF PhsOK
    <3> QED BY <2>2, <3>1
  <2>6. CASE l \in t.detached /\ m \in t.detached
    BY <2>1, <2>2, <2>6 DEF PhsOK
  <2> QED BY <2>3, <2>4, <2>5, <2>6
<1> HIDE DEF L
<1>4. CASE L = {}
  <2>1. Cardinality(L) = 0
    BY <1>4, FS_EmptySet
  <2> QED BY <1>2, <1>4, <2>1 DEF L
<1>5. CASE L # {}
  <2>1. PICK l \in L : TRUE
    BY <1>5
  <2>2. L = {l}
    BY <1>3
  <2>3. Cardinality(L) = 1
    BY <2>2, FS_Singleton
  <2> QED BY <1>2, <1>5, <2>3 DEF L
<1> QED BY <1>4, <1>5

\* A stacking that is in order is ordered.
LEMMA StackedOrdered ==
  ASSUME NEW z, Stacked(z), NoItem \notin Items
  PROVE  Ordered(z)
<1> DEFINE l == z.list
<1>1. l \in Seq(Items) /\ IsInjective(l) /\ z.order = l /\ z.level \in [Items -> Nat]
  BY DEF Stacked, Stackings
<1>2. \A i, j \in DOMAIN l : Prec(l, l[i], l[j]) <=> i < j
  BY <1>1, PrecFacts
<1>3. ASSUME NEW i \in DOMAIN l, NEW j \in DOMAIN l, i < j PROVE z.level[l[i]] <= z.level[l[j]]
  BY <1>2, <1>3 DEF Stacked, Sorted
<1>4. ASSUME NEW i \in DOMAIN l, NEW j \in DOMAIN l, z.above[l[j]] = l[i]
      PROVE  i < j /\ z.level[l[i]] = z.level[l[j]]
  <2>1. l[i] \in Items /\ l[j] \in Range(l)
    BY <1>1 DEF Range
  <2> QED BY <1>2, <1>4, <2>1 DEF Stacked
<1> QED BY <1>1, <1>3, <1>4 DEF Ordered

\* What the invariant says of groups is that they are sound.
LEMMA InvSound ==
  GroupsInv(g) => GroupsSound
<1> SUFFICES ASSUME GroupsInv(g) PROVE GroupsSound
  OBVIOUS
<1>1. /\ Body(g) /\ STDispOK(g) /\ PhsOK(g) /\ ShowsOK(g, NoItem) /\ g \in GroupStates
      /\ NoItem \notin Items /\ STDisp # NoItem /\ Regs \subseteq Items /\ STDisp \in Items
  BY GoodOf, GroupsAssumption DEF Items
<1>2. ASSUME NEW w \in Wins
      PROVE  /\ Ordered(Z(g, w)) /\ IsInjective(g.list[w])
             /\ Range(g.list[w]) = {x \in Items : g.mgr[x] \in Groups /\ g.par[g.mgr[x]] = w}
             /\ g.shown[w] # NoItem => g.par[g.shown[w]] = w
  <2>1. StackOK(g, w) /\ g.list[w] \in Seq(Items)
    BY <1>1 DEF Body, GroupStates
  <2>2. Ordered(Z(g, w))
    BY <1>1, <2>1, StackedOrdered DEF StackOK
  <2>3. Z(g, w).list = g.list[w]
    BY DEF Z
  <2>4. IsInjective(g.list[w])
    BY <2>1, <2>3 DEF StackOK, Stacked
  <2>5. \A x \in Range(g.list[w]) : x \in Items
    BY <2>1, RangeIn
  <2>6. Range(g.list[w]) = {x \in Items : g.mgr[x] \in Groups /\ g.par[g.mgr[x]] = w}
    BY <2>1, <2>5 DEF StackOK, In
  <2>7. g.shown[w] # NoItem => g.par[g.shown[w]] = w
    BY <1>1 DEF ShowsOK
  <2> QED BY <2>2, <2>4, <2>6, <2>7
<1>3. ASSUME NEW gr \in Groups
      PROVE  /\ Managed(g, gr) = {x \in Items : g.mgr[x] = gr} /\ IsInjective(g.managed[gr])
             /\ {g.bottom[gr], g.current[gr], g.stdisp[gr]} \subseteq Managed(g, gr) \cup {NoItem}
             /\ g.stdisp[gr] = STDisp <=> g.mgr[STDisp] = gr
             /\ ~Exists(g, gr) => g.managed[gr] = <<>> /\ g.phs[gr] = <<>>
  <2>1. ListOK(g, gr) /\ RefsOK(g, gr) /\ g.managed[gr] \in Seq(Items)
    BY <1>1 DEF Body, GroupStates
  <2>2. /\ g.bottom[gr] \in Regs \cup {NoItem} /\ g.current[gr] \in Regs \cup {NoItem}
        /\ g.stdisp[gr] \in {STDisp, NoItem}
    BY <1>1 DEF GroupStates
  <2>3. \A x \in Range(g.managed[gr]) : x \in Items
    BY <2>1, RangeIn
  <2>4. Managed(g, gr) = {x \in Items : g.mgr[x] = gr}
    BY <2>1, <2>3 DEF ListOK, Managed
  <2>5. g.stdisp[gr] = STDisp <=> g.mgr[STDisp] = gr
    BY <1>1 DEF STDispOK
  <2>6. {g.bottom[gr], g.current[gr], g.stdisp[gr]} \subseteq Managed(g, gr) \cup {NoItem}
    <3>1. g.bottom[gr] \in Managed(g, gr) \cup {NoItem}
      BY <1>1, <2>1, <2>2, <2>4 DEF RefsOK
    <3>2. g.current[gr] \in Managed(g, gr) \cup {NoItem}
      BY <1>1, <2>1, <2>2, <2>4 DEF RefsOK
    <3>3. g.stdisp[gr] \in Managed(g, gr) \cup {NoItem}
      BY <1>1, <2>2, <2>4, <2>5
    <3> QED BY <3>1, <3>2, <3>3
  <2>7. IsInjective(g.managed[gr]) /\ (~Exists(g, gr) => g.managed[gr] = <<>> /\ g.phs[gr] = <<>>)
    BY <1>1, <2>1 DEF ListOK, PhsOK, Exists
  <2> QED BY <2>4, <2>5, <2>6, <2>7
<1>4. \A x \in Regs :
        g.ph[x].set <=> Cardinality({l \in Range(g.phs) \cup g.detached : x \in Range(l)}) = 1
  BY <1>1, OneList
<1> QED BY <1>2, <1>3, <1>4 DEF GroupsSound

\* The invariant holds from the beginning on.
LEMMA InvHolds ==
  GroupsSpec => []GroupsInv(g)
<1>1. GroupsInit => GroupsInv(g)
  BY InitInv
<1>2. GroupsInv(g) /\ [GroupsNext]_group => GroupsInv(g)'
  <2>1. ASSUME GroupsInv(g), GroupsNext PROVE GroupsInv(g)'
    BY <2>1, NextKeeps
  <2>2. ASSUME GroupsInv(g), UNCHANGED group PROVE GroupsInv(g)'
    <3>1. g' = g
      BY <2>2 DEF group
    <3> QED BY <2>2, <3>1
  <2> QED BY <2>1, <2>2
<1> QED BY <1>1, <1>2, PTL DEF GroupsSpec

-----------------------------------------------------------------------------
(* What may have the focus *)

\* The shown modal regions that an item of the stacking z is below
Over(z, shown, x) ==
  {y \in shown \cap Range(z.list) : Place(z.list, y) > Place(z.list, x) /\ z.level[y] >= MODAL1
                                    /\ z.level[y] > z.level[x]}

\* What is found has no shown modal region of a higher level above it; what is tried is found
\* if it has none; and nothing is found only if nothing is shown.
LEMMA FindModal ==
  ASSUME NEW z, Stacked(z), NEW shown \in SUBSET Items, NEW try, try \in Range(z.list) \cup {NoItem},
         NoItem \notin Items
  PROVE  LET f == stacking_find_to_focus(z, try, shown, Items)
         IN /\ f # NoItem => Over(z, shown, f) = {}
            /\ try # NoItem /\ Over(z, shown, try) = {} => f = try
            /\ f = NoItem => shown \cap Range(z.list) = {}
<1> DEFINE l == z.list
           seen == Seen(z, try, shown)
           reached == Reached(z, try, shown)
           f == stacking_find_to_focus(z, try, shown, Items)
           N == Len(reached)
           M == Len(seen)
           at(x) == Place(l, x)
<1>1. z \in Stackings /\ l \in Seq(Items) /\ IsInjective(l) /\ z.level \in [Items -> Nat] /\ MODAL1 \in Nat
  BY GroupsAssumption DEF Stacked, Stackings
<1>2. /\ seen \in Seq(Items) /\ reached \in Seq(Items) /\ Len(reached) <= Len(seen)
      /\ \A i \in DOMAIN reached : i \in DOMAIN seen /\ reached[i] = seen[i]
      /\ Range(seen) = Range(l) \cap (shown \cup {try})
      /\ \A a, b : Prec(seen, a, b) <=> /\ a \in shown \cup {try} /\ b \in shown \cup {try}
                                        /\ Prec(l, b, a)
      /\ IsInjective(seen)
      /\ \A i \in DOMAIN reached : \A j \in 1 .. i - 1 :
           ~(z.level[seen[j]] >= MODAL1 /\ z.level[seen[j]] > z.level[seen[i]])
      /\ Len(reached) # Len(seen) =>
           \E j \in 1 .. Len(reached) : /\ z.level[seen[j]] >= MODAL1
                                        /\ z.level[seen[j]] > z.level[seen[Len(reached) + 1]]
  BY <1>1, ReachedFacts
<1>3. /\ try \in Range(reached) => f = try
      /\ f = NoItem \/ (f \in Range(reached) /\ f \in Range(l) /\ (f = try \/ (f \in shown /\ f \in Items)))
      /\ f = NoItem => Range(reached) \cap Items = {}
  BY <1>1, FindFacts
<1> HIDE DEF seen, reached, f
<1>4. /\ \A x \in Range(l) : at(x) \in DOMAIN l /\ l[at(x)] = x /\ x \in Items /\ at(x) \in Nat
      /\ \A i, j \in DOMAIN l : Prec(l, l[i], l[j]) <=> i < j
      /\ \A i, j \in DOMAIN seen : Prec(seen, seen[i], seen[j]) <=> i < j
      /\ DOMAIN l = 1 .. Len(l) /\ DOMAIN seen = 1 .. Len(seen) /\ DOMAIN reached = 1 .. N
      /\ Len(seen) \in Nat /\ N \in Nat
  <2>1. \A x \in Range(l) : at(x) \in DOMAIN l /\ l[at(x)] = x
    BY PlaceFacts
  <2>2. \A i, j \in DOMAIN l : Prec(l, l[i], l[j]) <=> i < j
    BY <1>1, PrecFacts
  <2>3. \A i, j \in DOMAIN seen : Prec(seen, seen[i], seen[j]) <=> i < j
    BY <1>2, PrecFacts
  <2> HIDE DEF at
  <2>4. \A x \in Range(l) : x \in Items /\ at(x) \in Nat
    BY <1>1, <2>1
  <2> QED BY <1>1, <1>2, <2>1, <2>2, <2>3, <2>4
<1>5. \A x, y \in Range(l) : Prec(l, x, y) <=> at(x) < at(y)
  <2> HIDE DEF at
  <2>1. ASSUME NEW x \in Range(l), NEW y \in Range(l) PROVE Prec(l, x, y) <=> at(x) < at(y)
    <3>1. Prec(l, l[at(x)], l[at(y)]) <=> at(x) < at(y)
      BY <1>4
    <3> QED BY <1>4, <3>1
  <2> QED BY <2>1
<1> HIDE DEF at
<1>6. \A x \in Range(l) : Over(z, shown, x) = {y \in shown \cap Range(l) : Prec(l, x, y) /\ z.level[y] >= MODAL1
                                                                         /\ z.level[y] > z.level[x]}
  <2>1. ASSUME NEW x \in Range(l)
        PROVE  Over(z, shown, x) = {y \in shown \cap Range(l) : Prec(l, x, y) /\ z.level[y] >= MODAL1
                                                               /\ z.level[y] > z.level[x]}
    <3>1. \A y \in Range(l) : at(y) > at(x) <=> Prec(l, x, y)
      BY <1>4, <1>5
    <3> QED BY <3>1 DEF Over, at
  <2> QED BY <2>1
<1>10. /\ DOMAIN seen = 1 .. M /\ DOMAIN reached = 1 .. N
  BY <1>4
<1>11. M \in Nat /\ N \in Nat /\ N <= M
  BY <1>2, <1>4
<1>12. N # M => \E j \in 1 .. N : /\ z.level[seen[j]] >= MODAL1
                                 /\ z.level[seen[j]] > z.level[seen[N + 1]]
  BY <1>2
<1> HIDE DEF N, M
<1>7. ASSUME f # NoItem PROVE Over(z, shown, f) = {}
  <2>1. f \in Range(reached) /\ f \in Range(l)
    BY <1>3, <1>7
  <2>2. SUFFICES ASSUME NEW y \in shown \cap Range(l), Prec(l, f, y), z.level[y] >= MODAL1, z.level[y] > z.level[f]
                 PROVE  FALSE
    BY <1>6, <2>1
  <2>3. PICK i \in DOMAIN reached : reached[i] = f
    BY <2>1 DEF Range
  <2>4. i \in DOMAIN seen /\ seen[i] = f /\ f \in Range(seen)
    BY <1>2, <2>3 DEF Range
  <2>5. y \in Range(seen) /\ f \in shown \cup {try}
    BY <1>2, <2>2, <2>4
  <2>6. PICK j \in DOMAIN seen : seen[j] = y
    BY <2>5 DEF Range
  <2>7. j < i
    BY <1>2, <1>4, <2>2, <2>4, <2>5, <2>6
  <2>8. j \in 1 .. i - 1
    BY <1>4, <2>4, <2>6, <2>7
  <2> QED BY <1>2, <2>2, <2>3, <2>4, <2>6, <2>8
<1>8. ASSUME try # NoItem, Over(z, shown, try) = {} PROVE f = try
  <2>1. try \in Range(l) /\ try \in Range(seen) /\ try \in Items
    BY <1>2, <1>4, <1>8
  <2>2. SUFFICES ASSUME try \notin Range(reached) PROVE FALSE
    BY <1>3
  <2>3. PICK i \in DOMAIN seen : seen[i] = try
    BY <2>1 DEF Range
  <2>4. i \notin DOMAIN reached
    BY <1>2, <2>2, <2>3 DEF Range
  <2>5. i \in Nat /\ N + 1 <= i /\ N # M /\ N + 1 \in DOMAIN seen
    <3>1. i \in 1 .. M /\ i \notin 1 .. N
      BY <1>10, <2>3, <2>4
    <3>2. i \in Nat /\ N + 1 <= i /\ N # M /\ N + 1 \in 1 .. M
      BY <1>11, <3>1
    <3> QED BY <1>10, <3>2
  <2>6. PICK j \in 1 .. N : z.level[seen[j]] >= MODAL1 /\ z.level[seen[j]] > z.level[seen[N + 1]]
    BY <1>12, <2>5
  <2>7. j \in DOMAIN seen /\ j < i
    <3>1. j \in 1 .. M /\ j < i
      BY <1>11, <2>5
    <3> QED BY <1>10, <3>1
  <2>8. \A k \in DOMAIN seen : seen[k] \in Range(seen) /\ seen[k] \in Items
    BY <1>2 DEF Range
  <2>9. Prec(l, try, seen[j]) /\ seen[j] # try
    <3>1. Prec(seen, seen[j], seen[i])
      BY <1>4, <2>3, <2>7
    <3>2. Prec(l, try, seen[j])
      BY <1>2, <2>3, <3>1
    <3>3. j # i
      BY <2>5, <2>7
    <3> QED BY <1>2, <2>3, <2>7, <3>2, <3>3 DEF IsInjective
  <2>10. seen[j] \in shown \cap Range(l)
    BY <1>2, <2>7, <2>8, <2>9
  <2>11. z.level[try] <= z.level[seen[N + 1]]
    <3>1. CASE i = N + 1
      BY <1>1, <2>1, <2>3, <3>1
    <3>2. CASE i # N + 1
      <4>1. N + 1 < i
        BY <1>11, <2>5, <3>2
      <4>2. Prec(l, try, seen[N + 1])
        BY <1>2, <1>4, <2>3, <2>5, <4>1
      <4> QED BY <4>2 DEF Stacked, Sorted
    <3> QED BY <3>1, <3>2
  <2>12. z.level[seen[j]] > z.level[try]
    BY <1>1, <2>1, <2>5, <2>6, <2>7, <2>8, <2>11
  <2> QED BY <1>6, <1>8, <2>1, <2>6, <2>9, <2>10, <2>12
<1>9. ASSUME f = NoItem PROVE shown \cap Range(l) = {}
  <2>1. Range(reached) \cap Items = {}
    BY <1>3, <1>9
  <2>2. N = 0
    <3>1. ASSUME N # 0 PROVE FALSE
      <4>1. 1 \in DOMAIN reached
        <5>1. 1 \in 1 .. N
          BY <1>11, <3>1
        <5> QED BY <1>10, <5>1
      <4>2. reached[1] \in Items /\ reached[1] \in Range(reached)
        BY <1>2, <4>1 DEF Range
      <4> QED BY <2>1, <4>2
    <3> QED BY <3>1
  <2>3. M = 0
    <3>1. \A j : j \notin 1 .. N
      BY <2>2
    <3> QED BY <1>12, <2>2, <3>1
  <2>4. Range(seen) = {}
    <3>1. \A j : j \notin 1 .. M
      BY <2>3
    <3> QED BY <1>10, <3>1 DEF Range
  <2> QED BY <1>2, <2>4
<1> QED BY <1>7, <1>8, <1>9 DEF f

\* A group's focus goes to no region that a shown modal one is above.
LEMMA InvModal ==
  GroupsInv(g) => ModalFirst
<1> SUFFICES ASSUME GroupsInv(g), NEW gr \in Groups, Exists(g, gr)
             PROVE  LET f == find_to_focus(g, gr, g.current[gr], FALSE)
                        list == g.list[g.par[gr]]
                        over(x) == {y \in Focusable(g) \cap Range(list) :
                                      Place(list, y) > Place(list, x) /\ g.level[y] >= MODAL1
                                      /\ g.level[y] > g.level[x]}
                    IN /\ f # NoItem => over(f) = {}
                       /\ g.current[gr] # NoItem /\ over(g.current[gr]) = {} => f = g.current[gr]
                       /\ f = NoItem => Focusable(g) \cap Range(list) = {}
  BY DEF ModalFirst
<1> DEFINE w == g.par[gr]
           z == Z(g, w)
           shown == Focusable(g)
           try == g.current[gr]
           f == stacking_find_to_focus(z, try, shown, Items)
<1>1. /\ Body(g) /\ g \in GroupStates /\ NoItem \notin Items /\ w \in Wins /\ Regs \subseteq Items
  <2>1. Body(g) /\ g \in GroupStates
    BY GoodOf
  <2> QED BY <2>1, GroupsAssumption DEF Items, Exists, GroupStates
<1>2. Stacked(z) /\ z.list = g.list[w] /\ z.level = g.level
  BY <1>1, ZFacts DEF Body, StackOK
<1>3. shown \in SUBSET Items
  BY <1>1 DEF Focusable
<1>4. try \in Range(g.list[w]) \cup {NoItem}
  <2>1. try \in Regs \cup {NoItem} /\ RefsOK(g, gr)
    BY <1>1 DEF Body, GroupStates
  <2>2. CASE try # NoItem
    <3>1. g.mgr[try] = gr /\ try \in Items
      BY <1>1, <2>1, <2>2 DEF RefsOK
    <3> QED BY <1>1, <3>1, GroupOf
  <2> QED BY <2>2
<1>5. find_to_focus(g, gr, try, FALSE) = f
  BY DEF find_to_focus
<1>6. \A x : Over(z, shown, x) = {y \in shown \cap Range(g.list[w]) :
                                     Place(g.list[w], y) > Place(g.list[w], x) /\ g.level[y] >= MODAL1
                                     /\ g.level[y] > g.level[x]}
  BY <1>2 DEF Over
<1> HIDE DEF z, shown, try, w
<1>7. /\ f # NoItem => Over(z, shown, f) = {}
      /\ try # NoItem /\ Over(z, shown, try) = {} => f = try
      /\ f = NoItem => shown \cap Range(z.list) = {}
  BY <1>1, <1>2, <1>3, <1>4, FindModal
<1> HIDE DEF f
<1>8. /\ Over(z, shown, f) = {y \in shown \cap Range(g.list[w]) :
                                 Place(g.list[w], y) > Place(g.list[w], f) /\ g.level[y] >= MODAL1
                                 /\ g.level[y] > g.level[f]}
      /\ Over(z, shown, try) = {y \in shown \cap Range(g.list[w]) :
                                 Place(g.list[w], y) > Place(g.list[w], try) /\ g.level[y] >= MODAL1
                                 /\ g.level[y] > g.level[try]}
  BY <1>6
<1> QED BY <1>2, <1>5, <1>7, <1>8 DEF shown, try, w

-----------------------------------------------------------------------------
(* Navigation *)

\* h is the walk of do_get_next through a list of n regions from the place i
Walks(m, i, up, wrap, h) ==
  /\ h = [k \in 0 .. Len(m) |-> h[k]]
  /\ h[0] = i
  /\ \A k \in 1 .. Len(m) : h[k] = IF h[k-1] = 0 \/ (k > 1 /\ h[k-1] = i) THEN 0
                                   ELSE IF up THEN nxt(m, h[k-1], wrap) ELSE prv(m, h[k-1], wrap)

Hit(ok, m, i, q) == q \notin {0, i} /\ m[q] \in ok

\* r is the first that is fit on the walk, or what is at i if nothing else is
Found(ok, m, i, sti_ok, h, r) ==
  \/ \E k \in 1 .. Len(m) : /\ Hit(ok, m, i, h[k]) /\ r = m[h[k]]
                            /\ \A j \in 1 .. k - 1 : ~Hit(ok, m, i, h[j])
  \/ /\ \A j \in 1 .. Len(m) : ~Hit(ok, m, i, h[j])
     /\ r = IF sti_ok /\ m[i] \in ok THEN m[i] ELSE NoItem

LEMMA WalkFacts ==
  ASSUME NEW t, NEW gr, NEW m, m = t.managed[gr], Len(m) \in Nat, NEW i, NEW up, NEW wrap, NEW sti_ok,
         NEW h, Walks(m, i, up, wrap, h)
  PROVE  Found(NaviOK(t, gr), m, i, sti_ok, h, do_get_next(t, gr, i, up, wrap, sti_ok))
<1> DEFINE n == Len(m)
           Next(a, k) == IF a = 0 \/ (k > 1 /\ a = i) THEN 0
                         ELSE IF up THEN nxt(m, a, wrap) ELSE prv(m, a, wrap)
           Is(f) == f = [k \in 0 .. n |-> IF k = 0 THEN i ELSE Next(f[k-1], k)]
           at == CHOOSE f : Is(f)
           ok == NaviOK(t, gr)
           hits(f) == {k \in 1 .. n : f[k] \notin {0, i} /\ m[f[k]] \in ok}
           r == do_get_next(t, gr, i, up, wrap, sti_ok)
<1>1. h = [k \in 0 .. n |-> h[k]] /\ h[0] = i /\ \A k \in 1 .. n : h[k] = Next(h[k-1], k)
  BY DEF Walks
<1>2. r = IF hits(at) # {} THEN m[at[Min(hits(at))]] ELSE IF sti_ok /\ m[i] \in ok THEN m[i] ELSE NoItem
  BY DEF do_get_next
<1> HIDE DEF n, Next, ok, r
<1>3. n \in Nat
  BY DEF n
<1>4. Is(h)
  <2>1. \A k \in 0 .. n : h[k] = IF k = 0 THEN i ELSE Next(h[k-1], k)
    <3>1. \A k \in 0 .. n : k = 0 \/ k \in 1 .. n
      BY <1>3
    <3> QED BY <1>1, <3>1
  <2>2. [k \in 0 .. n |-> h[k]] = [k \in 0 .. n |-> IF k = 0 THEN i ELSE Next(h[k-1], k)]
    BY <2>1
  <2> QED BY <1>1, <2>2
<1>5. Is(at)
  <2> HIDE DEF Is
  <2> QED BY <1>4
<1>6. at = [k \in 0 .. n |-> at[k]] /\ at[0] = i /\ \A k \in 1 .. n : at[k] = Next(at[k-1], k)
  <2> HIDE DEF at
  <2>1. 0 \in 0 .. n /\ \A k \in 1 .. n : k \in 0 .. n /\ k # 0
    BY <1>3
  <2>2. \A k \in 0 .. n : at[k] = IF k = 0 THEN i ELSE Next(at[k-1], k)
    BY <1>5
  <2>3. [k \in 0 .. n |-> at[k]] = [k \in 0 .. n |-> IF k = 0 THEN i ELSE Next(at[k-1], k)]
    BY <2>2
  <2> QED BY <1>5, <2>1, <2>2, <2>3
<1> HIDE DEF at
<1>7. \A k \in 0 .. n : at[k] = h[k]
  <2> DEFINE P == {k \in 0 .. n : at[k] = h[k]}
  <2>1. 0 \in P
    BY <1>1, <1>3, <1>6
  <2>2. ASSUME NEW k \in 1 .. n, k - 1 \in P PROVE k \in P
    <3>1. k \in 0 .. n /\ at[k-1] = h[k-1]
      BY <1>3, <2>2
    <3> QED BY <1>1, <1>6, <3>1
  <2> HIDE DEF P
  <2>3. \A k \in 0 .. n : k \in P
    BY <1>3, <2>1, <2>2, UpTo
  <2> QED BY <2>3 DEF P
<1>8. at = h
  BY <1>1, <1>6, <1>7
<1> DEFINE T == hits(h)
<1>9. /\ r = IF T # {} THEN m[h[Min(T)]] ELSE IF sti_ok /\ m[i] \in ok THEN m[i] ELSE NoItem
      /\ T \in SUBSET Nat /\ T \subseteq 1 .. n /\ \A k \in 1 .. n : k \in T <=> Hit(ok, m, i, h[k])
  BY <1>2, <1>3, <1>8 DEF Hit
<1> HIDE DEF T
<1>10. CASE T = {}
  <2>1. \A j \in 1 .. n : ~Hit(ok, m, i, h[j])
    BY <1>9, <1>10
  <2>2. r = IF sti_ok /\ m[i] \in ok THEN m[i] ELSE NoItem
    BY <1>9, <1>10
  <2> QED BY <2>1, <2>2 DEF Found, n, ok, r
<1>11. CASE T # {}
  <2>1. \E k \in T : \A j \in T : k <= j
    BY <1>9, <1>11, NatMin
  <2> DEFINE k == Min(T)
  <2>2. k \in T /\ \A j \in T : k <= j
    BY <2>1 DEF Min
  <2>3. r = m[h[k]]
    BY <1>9, <1>11
  <2> HIDE DEF k
  <2>4. k \in 1 .. n /\ Hit(ok, m, i, h[k])
    BY <1>9, <2>2
  <2>5. \A j \in 1 .. k - 1 : j \in 1 .. n /\ ~(k <= j)
    BY <1>3, <2>4
  <2>6. \A j \in 1 .. k - 1 : ~Hit(ok, m, i, h[j])
    BY <1>9, <2>2, <2>5
  <2> QED BY <2>3, <2>4, <2>6 DEF Found, n, ok, r
<1> QED BY <1>10, <1>11

-----------------------------------------------------------------------------

\* r is the first that is fit from the place lo on, or the last up to the place hi
UpFrom(ok, m, lo, r) ==
  \/ \E q \in lo .. Len(m) : m[q] \in ok /\ r = m[q] /\ \A j \in lo .. q - 1 : m[j] \notin ok
  \/ r = NoItem /\ \A j \in lo .. Len(m) : m[j] \notin ok
DownFrom(ok, m, hi, r) ==
  \/ \E q \in 1 .. hi : m[q] \in ok /\ r = m[q] /\ \A j \in q + 1 .. hi : m[j] \notin ok
  \/ r = NoItem /\ \A j \in 1 .. hi : m[j] \notin ok

\* From the last one on, around the end.
LEMMA NaviFirst ==
  ASSUME NEW t, NEW gr, NEW m, m = t.managed[gr], Len(m) \in Nat, Len(m) # 0
  PROVE  UpFrom(NaviOK(t, gr), m, 1, do_get_next(t, gr, Len(m), TRUE, TRUE, TRUE))
<1> DEFINE n == Len(m)
           h == [k \in 0 .. n |-> IF k = 0 THEN n ELSE k]
           ok == NaviOK(t, gr)
           r == do_get_next(t, gr, n, TRUE, TRUE, TRUE)
<1> HIDE DEF n, ok, r
<1>1. n \in Nat /\ n >= 1
  BY DEF n
<1>2. h[0] = n /\ h = [k \in 0 .. n |-> h[k]] /\ \A k \in 1 .. n : h[k] = k
  BY <1>1
<1> HIDE DEF h
<1>3. ASSUME NEW k \in 1 .. n
      PROVE  h[k] = IF h[k-1] = 0 \/ (k > 1 /\ h[k-1] = n) THEN 0 ELSE nxt(m, h[k-1], TRUE)
  <2>1. CASE k = 1
    <3>1. h[k-1] = n /\ ~(n < n) /\ h[k] = 1
      BY <1>1, <1>2, <2>1
    <3> QED BY <1>1, <2>1, <3>1 DEF nxt, n
  <2>2. CASE k # 1
    <3>1. k - 1 \in 1 .. n /\ k - 1 < n /\ k - 1 # 0 /\ k - 1 + 1 = k
      BY <1>1, <2>2
    <3>2. h[k-1] = k - 1 /\ h[k] = k
      BY <1>2, <3>1
    <3>3. nxt(m, h[k-1], TRUE) = k
      BY <3>1, <3>2 DEF nxt, n
    <3>4. ~(h[k-1] = 0 \/ (k > 1 /\ h[k-1] = n))
      BY <1>1, <3>1, <3>2
    <3> QED BY <3>2, <3>3, <3>4
  <2> QED BY <2>1, <2>2
<1>4. Walks(m, n, TRUE, TRUE, h)
  BY <1>2, <1>3 DEF Walks, n
<1>5. Found(ok, m, n, TRUE, h, r)
  BY <1>1, <1>4, WalkFacts DEF n, ok, r
<1>6. \A k \in 1 .. n : Hit(ok, m, n, h[k]) <=> k # n /\ m[k] \in ok
  BY <1>1, <1>2 DEF Hit
<1>7. CASE \E k \in 1 .. n : /\ Hit(ok, m, n, h[k]) /\ r = m[h[k]]
                             /\ \A j \in 1 .. k - 1 : ~Hit(ok, m, n, h[j])
  <2>1. PICK k \in 1 .. n : /\ Hit(ok, m, n, h[k]) /\ r = m[h[k]]
                            /\ \A j \in 1 .. k - 1 : ~Hit(ok, m, n, h[j])
    BY <1>7
  <2>2. \A j \in 1 .. k - 1 : j \in 1 .. n /\ j # n
    BY <1>1
  <2>3. m[k] \in ok /\ r = m[k] /\ \A j \in 1 .. k - 1 : m[j] \notin ok
    BY <1>2, <1>6, <2>1, <2>2
  <2> QED BY <2>3 DEF UpFrom, n, ok, r
<1>8. CASE /\ \A j \in 1 .. n : ~Hit(ok, m, n, h[j])
           /\ r = IF m[n] \in ok THEN m[n] ELSE NoItem
  <2>1. \A j \in 1 .. n : j # n => m[j] \notin ok
    BY <1>6, <1>8
  <2>2. CASE m[n] \in ok
    <3>1. n \in 1 .. n /\ \A j \in 1 .. n - 1 : j \in 1 .. n /\ j # n
      BY <1>1
    <3>2. r = m[n] /\ \A j \in 1 .. n - 1 : m[j] \notin ok
      BY <1>8, <2>1, <2>2, <3>1
    <3> QED BY <2>2, <3>1, <3>2 DEF UpFrom, n, ok, r
  <2>3. CASE m[n] \notin ok
    <3>1. r = NoItem /\ \A j \in 1 .. n : m[j] \notin ok
      BY <1>8, <2>1, <2>3
    <3> QED BY <3>1 DEF UpFrom, n, ok, r
  <2> QED BY <2>2, <2>3
<1>9. \/ \E k \in 1 .. n : /\ Hit(ok, m, n, h[k]) /\ r = m[h[k]]
                         /\ \A j \in 1 .. k - 1 : ~Hit(ok, m, n, h[j])
      \/ /\ \A j \in 1 .. n : ~Hit(ok, m, n, h[j])
         /\ r = IF m[n] \in ok THEN m[n] ELSE NoItem
  BY <1>5 DEF Found, n
<1> QED BY <1>7, <1>8, <1>9

\* From the first one back, around the start.
LEMMA NaviLast ==
  ASSUME NEW t, NEW gr, NEW m, m = t.managed[gr], Len(m) \in Nat, Len(m) # 0
  PROVE  DownFrom(NaviOK(t, gr), m, Len(m), do_get_next(t, gr, 1, FALSE, TRUE, TRUE))
<1> DEFINE n == Len(m)
           h == [k \in 0 .. n |-> IF k = 0 THEN 1 ELSE n + 1 - k]
           ok == NaviOK(t, gr)
           r == do_get_next(t, gr, 1, FALSE, TRUE, TRUE)
<1> HIDE DEF n, ok, r
<1>1. n \in Nat /\ n >= 1
  BY DEF n
<1>2. h[0] = 1 /\ h = [k \in 0 .. n |-> h[k]] /\ \A k \in 1 .. n : h[k] = n + 1 - k
  BY <1>1
<1> HIDE DEF h
<1>3. ASSUME NEW k \in 1 .. n
      PROVE  h[k] = IF h[k-1] = 0 \/ (k > 1 /\ h[k-1] = 1) THEN 0 ELSE prv(m, h[k-1], TRUE)
  <2>1. CASE k = 1
    <3>1. h[k-1] = 1 /\ ~(1 > 1) /\ h[k] = n
      <4>1. h[1] = n
        <5>1. 1 \in 1 .. n /\ n + 1 - 1 = n
          BY <1>1
        <5> QED BY <1>2, <5>1
      <4>2. k - 1 = 0
        BY <2>1
      <4> QED BY <1>2, <2>1, <4>1, <4>2
    <3>2. prv(m, h[k-1], TRUE) = n
      BY <3>1 DEF prv, n
    <3>3. ~(h[k-1] = 0 \/ (k > 1 /\ h[k-1] = 1))
      BY <2>1, <3>1
    <3> QED BY <3>1, <3>2, <3>3
  <2>2. CASE k # 1
    <3>1. k - 1 \in 1 .. n /\ n + 1 - (k - 1) > 1 /\ n + 1 - (k - 1) - 1 = n + 1 - k
      BY <1>1, <2>2
    <3>2. h[k-1] = n + 1 - (k - 1) /\ h[k] = n + 1 - k
      BY <1>2, <3>1
    <3>3. prv(m, h[k-1], TRUE) = n + 1 - k
      BY <3>1, <3>2 DEF prv, n
    <3>4. ~(h[k-1] = 0 \/ (k > 1 /\ h[k-1] = 1))
      BY <1>1, <3>1, <3>2
    <3> QED BY <3>2, <3>3, <3>4
  <2> QED BY <2>1, <2>2
<1>4. Walks(m, 1, FALSE, TRUE, h)
  BY <1>2, <1>3 DEF Walks, n
<1>5. Found(ok, m, 1, TRUE, h, r)
  BY <1>1, <1>4, WalkFacts DEF n, ok, r
<1>6. \A q \in 1 .. n : n + 1 - q \in 1 .. n /\ h[n + 1 - q] = q
  <2>1. \A q \in 1 .. n : n + 1 - q \in 1 .. n /\ n + 1 - (n + 1 - q) = q
    BY <1>1
  <2> QED BY <1>2, <2>1
<1>7. \A k \in 1 .. n : h[k] \in 1 .. n /\ (Hit(ok, m, 1, h[k]) <=> h[k] # 1 /\ m[h[k]] \in ok)
  BY <1>1, <1>2 DEF Hit
<1>8. CASE \E k \in 1 .. n : /\ Hit(ok, m, 1, h[k]) /\ r = m[h[k]]
                             /\ \A j \in 1 .. k - 1 : ~Hit(ok, m, 1, h[j])
  <2>1. PICK k \in 1 .. n : /\ Hit(ok, m, 1, h[k]) /\ r = m[h[k]]
                            /\ \A j \in 1 .. k - 1 : ~Hit(ok, m, 1, h[j])
    BY <1>8
  <2> DEFINE q == h[k]
  <2>2. q \in 1 .. n /\ q = n + 1 - k /\ m[q] \in ok /\ r = m[q]
    BY <1>2, <1>7, <2>1
  <2> HIDE DEF q
  <2>3. ASSUME NEW j \in q + 1 .. n PROVE m[j] \notin ok
    <3>1. j \in 1 .. n /\ j # 1 /\ n + 1 - j \in 1 .. k - 1
      BY <1>1, <2>2
    <3>2. h[n + 1 - j] = j /\ n + 1 - j \in 1 .. n
      BY <1>6, <3>1
    <3>3. ~Hit(ok, m, 1, h[n + 1 - j])
      BY <2>1, <3>1
    <3> QED BY <1>7, <3>1, <3>2, <3>3
  <2> QED BY <2>2, <2>3 DEF DownFrom, n, ok, r
<1>9. CASE /\ \A j \in 1 .. n : ~Hit(ok, m, 1, h[j])
           /\ r = IF m[1] \in ok THEN m[1] ELSE NoItem
  <2>1. \A j \in 1 .. n : j # 1 => m[j] \notin ok
    BY <1>6, <1>7, <1>9
  <2>2. CASE m[1] \in ok
    <3>1. 1 \in 1 .. n /\ \A j \in 1 + 1 .. n : j \in 1 .. n /\ j # 1
      BY <1>1
    <3>2. r = m[1] /\ \A j \in 1 + 1 .. n : m[j] \notin ok
      BY <1>9, <2>1, <2>2, <3>1
    <3> QED BY <2>2, <3>1, <3>2 DEF DownFrom, n, ok, r
  <2>3. CASE m[1] \notin ok
    <3>1. r = NoItem /\ \A j \in 1 .. n : m[j] \notin ok
      BY <1>9, <2>1, <2>3
    <3> QED BY <3>1 DEF DownFrom, n, ok, r
  <2> QED BY <2>2, <2>3
<1>10. \/ \E k \in 1 .. n : /\ Hit(ok, m, 1, h[k]) /\ r = m[h[k]]
                          /\ \A j \in 1 .. k - 1 : ~Hit(ok, m, 1, h[j])
       \/ /\ \A j \in 1 .. n : ~Hit(ok, m, 1, h[j])
          /\ r = IF m[1] \in ok THEN m[1] ELSE NoItem
  BY <1>5 DEF Found, n
<1> QED BY <1>8, <1>9, <1>10

\* From a place on, to the end.
LEMMA NaviForth ==
  ASSUME NEW t, NEW gr, NEW m, m = t.managed[gr], Len(m) \in Nat, NEW p \in 1 .. Len(m)
  PROVE  UpFrom(NaviOK(t, gr), m, p + 1, do_get_next(t, gr, p, TRUE, FALSE, FALSE))
<1> DEFINE n == Len(m)
           h == [k \in 0 .. n |-> IF p + k <= n THEN p + k ELSE 0]
           ok == NaviOK(t, gr)
           r == do_get_next(t, gr, p, TRUE, FALSE, FALSE)
<1> HIDE DEF n, ok, r
<1>1. n \in Nat /\ p \in 1 .. n /\ p \in Nat /\ p >= 1 /\ p <= n
  BY DEF n
<1>2. /\ h[0] = p /\ h = [k \in 0 .. n |-> h[k]]
      /\ \A k \in 0 .. n : (p + k <= n => h[k] = p + k) /\ (~(p + k <= n) => h[k] = 0)
  BY <1>1
<1> HIDE DEF h
<1>3. ASSUME NEW k \in 1 .. n
      PROVE  h[k] = IF h[k-1] = 0 \/ (k > 1 /\ h[k-1] = p) THEN 0 ELSE nxt(m, h[k-1], FALSE)
  <2>1. k \in 0 .. n /\ k - 1 \in 0 .. n /\ p + (k - 1) = p + k - 1
    BY <1>1
  <2>2. CASE ~(p + (k - 1) <= n)
    <3>1. h[k-1] = 0
      BY <1>2, <2>1, <2>2
    <3>2. h[k] = 0
      BY <1>1, <1>2, <2>1, <2>2
    <3> QED BY <3>1, <3>2
  <2>3. CASE p + (k - 1) <= n
    <3>1. h[k-1] = p + (k - 1)
      BY <1>2, <2>1, <2>3
    <3>2. p + (k - 1) \in Nat /\ p + (k - 1) # 0 /\ (k > 1 => p + (k - 1) # p) /\ p + (k - 1) + 1 = p + k
      BY <1>1
    <3>3. ~(h[k-1] = 0 \/ (k > 1 /\ h[k-1] = p))
      BY <3>1, <3>2
    <3>4. nxt(m, h[k-1], FALSE) = IF p + (k - 1) < n THEN p + k ELSE 0
      BY <3>1, <3>2 DEF nxt, n
    <3>5. h[k] = IF p + (k - 1) < n THEN p + k ELSE 0
      <4>1. p + (k - 1) < n <=> p + k <= n
        BY <1>1
      <4> QED BY <1>2, <2>1, <4>1
    <3> QED BY <3>3, <3>4, <3>5
  <2> QED BY <2>2, <2>3
<1>4. Walks(m, p, TRUE, FALSE, h)
  BY <1>2, <1>3 DEF Walks, n
<1>5. Found(ok, m, p, FALSE, h, r)
  BY <1>1, <1>4, WalkFacts DEF n, ok, r
<1>6. \A k \in 1 .. n : Hit(ok, m, p, h[k]) <=> p + k <= n /\ m[p + k] \in ok
  <2>1. ASSUME NEW k \in 1 .. n PROVE Hit(ok, m, p, h[k]) <=> p + k <= n /\ m[p + k] \in ok
    <3>1. k \in 0 .. n /\ p + k # 0 /\ p + k # p
      BY <1>1
    <3> QED BY <1>2, <3>1 DEF Hit
  <2> QED BY <2>1
<1>7. \A j \in p + 1 .. n : j - p \in 1 .. n /\ p + (j - p) = j /\ j <= n
  BY <1>1
<1>8. CASE \E k \in 1 .. n : /\ Hit(ok, m, p, h[k]) /\ r = m[h[k]]
                             /\ \A j \in 1 .. k - 1 : ~Hit(ok, m, p, h[j])
  <2>1. PICK k \in 1 .. n : /\ Hit(ok, m, p, h[k]) /\ r = m[h[k]]
                            /\ \A j \in 1 .. k - 1 : ~Hit(ok, m, p, h[j])
    BY <1>8
  <2> DEFINE q == p + k
  <2>2. q \in p + 1 .. n /\ m[q] \in ok /\ r = m[q]
    <3>1. p + k <= n /\ m[p + k] \in ok /\ k \in 0 .. n
      BY <1>1, <1>6, <2>1
    <3>2. h[k] = p + k
      BY <1>2, <3>1
    <3>3. p + k \in p + 1 .. n
      BY <1>1, <3>1
    <3> QED BY <2>1, <3>1, <3>2, <3>3
  <2>3. ASSUME NEW j \in p + 1 .. q - 1 PROVE m[j] \notin ok
    <3>1. j \in p + 1 .. n /\ j - p \in 1 .. k - 1
      BY <1>1, <2>2
    <3>2. ~Hit(ok, m, p, h[j - p])
      BY <2>1, <3>1
    <3> QED BY <1>6, <1>7, <3>1, <3>2
  <2> HIDE DEF q
  <2> QED BY <2>2, <2>3 DEF UpFrom, n, ok, r
<1>9. CASE /\ \A j \in 1 .. n : ~Hit(ok, m, p, h[j])
           /\ r = NoItem
  <2>1. \A j \in p + 1 .. n : m[j] \notin ok
    BY <1>6, <1>7, <1>9
  <2> QED BY <1>9, <2>1 DEF UpFrom, n, ok, r
<1>10. \/ \E k \in 1 .. n : /\ Hit(ok, m, p, h[k]) /\ r = m[h[k]]
                          /\ \A j \in 1 .. k - 1 : ~Hit(ok, m, p, h[j])
       \/ /\ \A j \in 1 .. n : ~Hit(ok, m, p, h[j])
          /\ r = NoItem
  BY <1>5 DEF Found, n
<1> QED BY <1>8, <1>9, <1>10

\* From a place back, to the start.
LEMMA NaviBack ==
  ASSUME NEW t, NEW gr, NEW m, m = t.managed[gr], Len(m) \in Nat, NEW p \in 1 .. Len(m)
  PROVE  DownFrom(NaviOK(t, gr), m, p - 1, do_get_next(t, gr, p, FALSE, FALSE, FALSE))
<1> DEFINE n == Len(m)
           h == [k \in 0 .. n |-> IF k < p THEN p - k ELSE 0]
           ok == NaviOK(t, gr)
           r == do_get_next(t, gr, p, FALSE, FALSE, FALSE)
<1> HIDE DEF n, ok, r
<1>1. n \in Nat /\ p \in 1 .. n /\ p \in Nat /\ p >= 1 /\ p <= n
  BY DEF n
<1>2. /\ h[0] = p /\ h = [k \in 0 .. n |-> h[k]]
      /\ \A k \in 0 .. n : (k < p => h[k] = p - k) /\ (~(k < p) => h[k] = 0)
  BY <1>1
<1> HIDE DEF h
<1>3. ASSUME NEW k \in 1 .. n
      PROVE  h[k] = IF h[k-1] = 0 \/ (k > 1 /\ h[k-1] = p) THEN 0 ELSE prv(m, h[k-1], FALSE)
  <2>1. k \in 0 .. n /\ k - 1 \in 0 .. n
    BY <1>1
  <2>2. CASE ~(k - 1 < p)
    <3>1. h[k-1] = 0
      BY <1>2, <2>1, <2>2
    <3>2. h[k] = 0
      BY <1>1, <1>2, <2>1, <2>2
    <3> QED BY <3>1, <3>2
  <2>3. CASE k - 1 < p
    <3>1. h[k-1] = p - (k - 1)
      BY <1>2, <2>1, <2>3
    <3>2. p - (k - 1) \in Nat /\ p - (k - 1) # 0 /\ (k > 1 => p - (k - 1) # p) /\ p - (k - 1) - 1 = p - k
      BY <1>1, <2>3
    <3>3. ~(h[k-1] = 0 \/ (k > 1 /\ h[k-1] = p))
      BY <3>1, <3>2
    <3>4. prv(m, h[k-1], FALSE) = IF p - (k - 1) > 1 THEN p - k ELSE 0
      BY <3>1, <3>2 DEF prv
    <3>5. h[k] = IF p - (k - 1) > 1 THEN p - k ELSE 0
      <4>1. p - (k - 1) > 1 <=> k < p
        BY <1>1
      <4> QED BY <1>2, <2>1, <4>1
    <3> QED BY <3>3, <3>4, <3>5
  <2> QED BY <2>2, <2>3
<1>4. Walks(m, p, FALSE, FALSE, h)
  BY <1>2, <1>3 DEF Walks, n
<1>5. Found(ok, m, p, FALSE, h, r)
  BY <1>1, <1>4, WalkFacts DEF n, ok, r
<1>6. \A k \in 1 .. n : Hit(ok, m, p, h[k]) <=> k < p /\ m[p - k] \in ok
  <2>1. ASSUME NEW k \in 1 .. n PROVE Hit(ok, m, p, h[k]) <=> k < p /\ m[p - k] \in ok
    <3>1. k \in 0 .. n /\ (k < p => p - k # 0) /\ p - k # p
      BY <1>1
    <3> QED BY <1>2, <3>1 DEF Hit
  <2> QED BY <2>1
<1>7. \A j \in 1 .. p - 1 : p - j \in 1 .. n /\ p - (p - j) = j /\ p - j < p
  BY <1>1
<1>8. CASE \E k \in 1 .. n : /\ Hit(ok, m, p, h[k]) /\ r = m[h[k]]
                             /\ \A j \in 1 .. k - 1 : ~Hit(ok, m, p, h[j])
  <2>1. PICK k \in 1 .. n : /\ Hit(ok, m, p, h[k]) /\ r = m[h[k]]
                            /\ \A j \in 1 .. k - 1 : ~Hit(ok, m, p, h[j])
    BY <1>8
  <2> DEFINE q == p - k
  <2>2. q \in 1 .. p - 1 /\ m[q] \in ok /\ r = m[q]
    <3>1. k < p /\ m[p - k] \in ok /\ k \in 0 .. n
      BY <1>1, <1>6, <2>1
    <3>2. h[k] = p - k
      BY <1>2, <3>1
    <3>3. p - k \in 1 .. p - 1
      BY <1>1, <3>1
    <3> QED BY <2>1, <3>1, <3>2, <3>3
  <2>3. ASSUME NEW j \in q + 1 .. p - 1 PROVE m[j] \notin ok
    <3>1. j \in 1 .. p - 1 /\ p - j \in 1 .. k - 1
      BY <1>1, <2>2
    <3>2. ~Hit(ok, m, p, h[p - j])
      BY <2>1, <3>1
    <3> QED BY <1>6, <1>7, <3>1, <3>2
  <2> HIDE DEF q
  <2> QED BY <2>2, <2>3 DEF DownFrom, n, ok, r
<1>9. CASE /\ \A j \in 1 .. n : ~Hit(ok, m, p, h[j])
           /\ r = NoItem
  <2>1. \A j \in 1 .. p - 1 : m[j] \notin ok
    BY <1>6, <1>7, <1>9
  <2> QED BY <1>9, <2>1 DEF DownFrom, n, ok, r
<1>10. \/ \E k \in 1 .. n : /\ Hit(ok, m, p, h[k]) /\ r = m[h[k]]
                          /\ \A j \in 1 .. k - 1 : ~Hit(ok, m, p, h[j])
       \/ /\ \A j \in 1 .. n : ~Hit(ok, m, p, h[j])
          /\ r = NoItem
  BY <1>5 DEF Found, n
<1> QED BY <1>8, <1>9, <1>10

\* The places in m of the items of f, which are those that are fit, in their order
Placed(ok, m, f, e) ==
  /\ e \in [DOMAIN f -> DOMAIN m] /\ DOMAIN f = 1 .. Len(f) /\ Len(f) \in Nat
  /\ DOMAIN m = 1 .. Len(m) /\ Len(m) \in Nat
  /\ \A i \in DOMAIN f : m[e[i]] = f[i] /\ m[e[i]] \in ok
  /\ \A i, j \in DOMAIN f : i < j <=> e[i] < e[j]
  /\ \A q \in DOMAIN m : m[q] \in ok => \E i \in DOMAIN f : e[i] = q

LEMMA OnlyPlaces ==
  ASSUME NEW m \in Seq(Items), IsInjective(m), NEW ok
  PROVE  LET f == Only(m, ok)
         IN Placed(ok, m, f, [i \in DOMAIN f |-> Place(m, f[i])])
<1> DEFINE f == Only(m, ok)
           e == [i \in DOMAIN f |-> Place(m, f[i])]
<1>1. /\ f \in Seq(Items) /\ Range(f) = Range(m) \cap ok /\ IsInjective(f)
      /\ \A a, b : Prec(f, a, b) <=> a \in ok /\ b \in ok /\ Prec(m, a, b)
  BY OnlyFacts
<1> HIDE DEF f
<1>2. DOMAIN f = 1 .. Len(f) /\ Len(f) \in Nat /\ DOMAIN m = 1 .. Len(m) /\ Len(m) \in Nat
  BY <1>1
<1>3. ASSUME NEW i \in DOMAIN f PROVE e[i] \in DOMAIN m /\ m[e[i]] = f[i] /\ f[i] \in ok
  <2>1. f[i] \in Range(m) /\ f[i] \in ok
    BY <1>1 DEF Range
  <2> QED BY <2>1, PlaceFacts
<1>4. e \in [DOMAIN f -> DOMAIN m]
  <2>1. \A i \in DOMAIN f : Place(m, f[i]) \in DOMAIN m
    BY <1>3
  <2> QED BY <2>1
<1> HIDE DEF e
<1>5. \A i, j \in DOMAIN f : Prec(f, f[i], f[j]) <=> i < j
  BY <1>1, PrecFacts
<1>6. \A p, q \in DOMAIN m : Prec(m, m[p], m[q]) <=> p < q
  BY PrecFacts
<1>7. ASSUME NEW i \in DOMAIN f, NEW j \in DOMAIN f PROVE i < j <=> e[i] < e[j]
  <2>1. Prec(f, f[i], f[j]) <=> Prec(m, f[i], f[j])
    BY <1>1, <1>3
  <2>2. Prec(m, f[i], f[j]) <=> e[i] < e[j]
    BY <1>3, <1>6
  <2> QED BY <1>5, <2>1, <2>2
<1>8. ASSUME NEW q \in DOMAIN m, m[q] \in ok PROVE \E i \in DOMAIN f : e[i] = q
  <2>1. m[q] \in Range(f)
    BY <1>1, <1>8 DEF Range
  <2>2. PICK i \in DOMAIN f : f[i] = m[q]
    BY <2>1 DEF Range
  <2>3. e[i] = q
    BY <1>3, <2>2 DEF IsInjective
  <2> QED BY <2>3
<1>9. Placed(ok, m, f, e)
  BY <1>2, <1>3, <1>4, <1>7, <1>8 DEF Placed
<1> QED BY <1>9 DEF f, e

\* What is found from behind the item at c of those that are fit is the next of these.
LEMMA NextFit ==
  ASSUME NEW ok, NEW m, NEW f, NEW e, Placed(ok, m, f, e), NEW r, NEW lo \in Nat, NEW c \in 0 .. Len(f),
         UpFrom(ok, m, lo, r), lo >= 1, c = 0 => lo = 1, c # 0 => lo = e[c] + 1
  PROVE  r = IF c + 1 \in DOMAIN f THEN f[c + 1] ELSE NoItem
<1>1. /\ DOMAIN f = 1 .. Len(f) /\ Len(f) \in Nat /\ Len(m) \in Nat /\ DOMAIN m = 1 .. Len(m)
      /\ \A i \in DOMAIN f : e[i] \in 1 .. Len(m) /\ m[e[i]] = f[i] /\ m[e[i]] \in ok
      /\ \A i, j \in DOMAIN f : i < j <=> e[i] < e[j]
      /\ \A q \in DOMAIN m : m[q] \in ok => \E i \in DOMAIN f : e[i] = q
  BY DEF Placed
<1>2. \A i \in DOMAIN f : e[i] \in Nat /\ i \in Nat
  BY <1>1
<1>3. \A i \in DOMAIN f : e[i] >= lo <=> c < i
  <2>1. CASE c = 0
    <3>1. \A i \in DOMAIN f : e[i] >= 1 /\ 0 < i
      BY <1>1
    <3> QED BY <2>1, <3>1
  <2>2. CASE c # 0
    <3>1. c \in DOMAIN f
      BY <1>1, <2>2
    <3>2. \A i \in DOMAIN f : e[i] >= e[c] + 1 <=> e[c] < e[i]
      BY <1>2, <3>1
    <3>3. \A i \in DOMAIN f : c < i <=> e[c] < e[i]
      BY <1>1, <3>1
    <3> QED BY <2>2, <3>2, <3>3
  <2> QED BY <2>1, <2>2
<1>4. CASE c + 1 \in DOMAIN f
  <2>1. e[c + 1] >= lo /\ e[c + 1] \in lo .. Len(m) /\ m[e[c + 1]] \in ok
    <3>1. e[c + 1] >= lo
      BY <1>3, <1>4
    <3> QED BY <1>1, <1>4, <3>1
  <2>2. PICK q \in lo .. Len(m) : m[q] \in ok /\ r = m[q] /\ \A j \in lo .. q - 1 : m[j] \notin ok
    BY <2>1 DEF UpFrom
  <2>3. q \in DOMAIN m /\ q \in Nat /\ q >= lo
    BY <1>1
  <2>4. PICK i \in DOMAIN f : e[i] = q
    BY <1>1, <2>2, <2>3
  <2>5. c < i
    BY <1>3, <2>3, <2>4
  <2>6. ~(e[c + 1] < q)
    <3>1. ASSUME e[c + 1] < q PROVE FALSE
      <4>1. e[c + 1] \in lo .. q - 1
        BY <2>1, <2>3, <3>1
      <4> QED BY <2>1, <2>2, <4>1
    <3> QED BY <3>1
  <2>7. ~(c + 1 < i)
    BY <1>1, <1>4, <2>4, <2>6
  <2>8. i = c + 1
    BY <1>2, <2>5, <2>7
  <2> QED BY <1>1, <1>4, <2>2, <2>4, <2>8
<1>5. CASE c + 1 \notin DOMAIN f
  <2>1. \A i \in DOMAIN f : ~(c < i)
    BY <1>1, <1>5
  <2>2. \A q \in lo .. Len(m) : q \in DOMAIN m /\ q >= lo
    BY <1>1
  <2>3. \A q \in lo .. Len(m) : m[q] \notin ok
    BY <1>1, <1>3, <2>1, <2>2
  <2> QED BY <1>5, <2>3 DEF UpFrom
<1> QED BY <1>4, <1>5

LEMMA PreviousFit ==
  ASSUME NEW ok, NEW m, NEW f, NEW e, Placed(ok, m, f, e), NEW r, NEW hi \in Nat, hi <= Len(m),
         NEW c \in Nat, 1 <= c, c <= Len(f) + 1, DownFrom(ok, m, hi, r),
         c = Len(f) + 1 => hi = Len(m), c # Len(f) + 1 => hi = e[c] - 1
  PROVE  r = IF c - 1 \in DOMAIN f THEN f[c - 1] ELSE NoItem
<1> DEFINE N == Len(f)
           M == Len(m)
<1>0. hi <= M /\ c <= N + 1 /\ (c = N + 1 => hi = M) /\ (c # N + 1 => hi = e[c] - 1)
  OBVIOUS
<1>1. /\ DOMAIN f = 1 .. N /\ N \in Nat /\ M \in Nat /\ DOMAIN m = 1 .. M
      /\ \A i \in DOMAIN f : e[i] \in 1 .. M /\ m[e[i]] = f[i] /\ m[e[i]] \in ok
      /\ \A i, j \in DOMAIN f : i < j <=> e[i] < e[j]
      /\ \A q \in DOMAIN m : m[q] \in ok => \E i \in DOMAIN f : e[i] = q
  BY DEF Placed
<1> HIDE DEF N, M
<1>2. \A i \in DOMAIN f : e[i] \in Nat /\ i \in Nat
  BY <1>1
<1>3. \A i \in DOMAIN f : e[i] <= hi <=> i < c
  <2>1. CASE c = N + 1
    <3>1. \A i \in DOMAIN f : e[i] <= M /\ i < N + 1
      BY <1>1
    <3> QED BY <1>0, <2>1, <3>1
  <2>2. CASE c # N + 1
    <3>1. c \in DOMAIN f
      BY <1>0, <1>1, <2>2
    <3>2. \A i \in DOMAIN f : e[i] <= e[c] - 1 <=> e[i] < e[c]
      BY <1>2, <3>1
    <3>3. \A i \in DOMAIN f : i < c <=> e[i] < e[c]
      BY <1>1, <3>1
    <3> QED BY <1>0, <2>2, <3>2, <3>3
  <2> QED BY <2>1, <2>2
<1>6. c \in Nat /\ hi \in Nat /\ M \in Nat /\ hi <= M
  BY <1>0, <1>1
<1>4. CASE c - 1 \in DOMAIN f
  <2>0. c - 1 < c
    BY <1>6
  <2>1. e[c - 1] <= hi /\ e[c - 1] \in 1 .. hi /\ m[e[c - 1]] \in ok
    <3>1. e[c - 1] <= hi
      BY <1>3, <1>4, <2>0
    <3> QED BY <1>1, <1>4, <1>6, <3>1
  <2>2. PICK q \in 1 .. hi : m[q] \in ok /\ r = m[q] /\ \A j \in q + 1 .. hi : m[j] \notin ok
    BY <2>1 DEF DownFrom
  <2>3. q \in DOMAIN m /\ q \in Nat /\ q <= hi
    BY <1>1, <1>6
  <2>4. PICK i \in DOMAIN f : e[i] = q
    BY <1>1, <2>2, <2>3
  <2>5. i < c
    BY <1>3, <2>3, <2>4
  <2>6. ~(q < e[c - 1])
    <3>1. ASSUME q < e[c - 1] PROVE FALSE
      <4>1. e[c - 1] \in q + 1 .. hi
        BY <1>6, <2>1, <2>3, <3>1
      <4> QED BY <2>1, <2>2, <4>1
    <3> QED BY <3>1
  <2>7. ~(i < c - 1)
    BY <1>1, <1>4, <2>4, <2>6
  <2>8. i = c - 1
    BY <1>2, <1>6, <2>5, <2>7
  <2> QED BY <1>1, <1>4, <2>2, <2>4, <2>8
<1>5. CASE c - 1 \notin DOMAIN f
  <2>1. \A i \in DOMAIN f : ~(i < c)
    BY <1>1, <1>5
  <2>2. \A q \in 1 .. hi : q \in DOMAIN m /\ q <= hi
    BY <1>1, <1>6
  <2>3. \A q \in 1 .. hi : m[q] \notin ok
    BY <1>1, <1>3, <2>1, <2>2
  <2> QED BY <1>5, <2>3 DEF DownFrom
<1> QED BY <1>4, <1>5

\* From the first or the last region on, navigation goes through all that may be focused.
LEMMA InvNavi ==
  GroupsInv(g) => NaviComplete
<1> SUFFICES ASSUME GroupsInv(g), NEW gr \in Groups, Exists(g, gr)
             PROVE  LET f == Only(g.managed[gr], NaviOK(g, gr))
                        At(i) == IF i \in DOMAIN f THEN f[i] ELSE NoItem
                    IN /\ group_do_navi_first(g, gr, FALSE) = At(1)
                       /\ group_do_navi_first(g, gr, TRUE) = At(Len(f))
                       /\ \A i \in DOMAIN f : /\ group_do_navi_next(g, gr, f[i], TRUE) = At(i + 1)
                                               /\ group_do_navi_next(g, gr, f[i], FALSE) = At(i - 1)
  BY DEF NaviComplete
<1> DEFINE m == g.managed[gr]
           ok == NaviOK(g, gr)
           f == Only(m, ok)
           e == [i \in DOMAIN f |-> Place(m, f[i])]
           At(i) == IF i \in DOMAIN f THEN f[i] ELSE NoItem
<1>1. m \in Seq(Items) /\ IsInjective(m)
  <2>1. Body(g) /\ g \in GroupStates
    BY GoodOf
  <2> QED BY <2>1 DEF Body, ListOK, GroupStates
<1> HIDE DEF m, ok
<1>2. Placed(ok, m, f, e)
  BY <1>1, OnlyPlaces
<1>3. Len(m) \in Nat
  BY <1>1
<1> HIDE DEF f
<1>4. \A i \in DOMAIN f : e[i] = Place(m, f[i])
  OBVIOUS
<1> HIDE DEF e
<1>5. /\ DOMAIN f = 1 .. Len(f) /\ Len(f) \in Nat
      /\ \A i \in DOMAIN f : e[i] \in 1 .. Len(m)
  BY <1>2 DEF Placed
<1>6. group_do_navi_first(g, gr, FALSE) = At(1) /\ group_do_navi_first(g, gr, TRUE) = At(Len(f))
  <2>1. CASE m = <<>>
    <3>1. Len(m) = 0
      BY <2>1
    <3>2. 1 \notin DOMAIN f /\ Len(f) \notin DOMAIN f
      <4>1. \A i \in DOMAIN f : FALSE
        BY <1>5, <3>1
      <4> QED BY <4>1
    <3> QED BY <2>1, <3>2 DEF group_do_navi_first, m
  <2>2. CASE m # <<>>
    <3>1. Len(m) # 0
      BY <1>1, <2>2
    <3> DEFINE first == do_get_next(g, gr, Len(m), TRUE, TRUE, TRUE)
               last == do_get_next(g, gr, 1, FALSE, TRUE, TRUE)
    <3>2. UpFrom(ok, m, 1, first) /\ DownFrom(ok, m, Len(m), last)
      BY <1>3, <3>1, NaviFirst, NaviLast DEF m, ok
    <3> HIDE DEF first, last
    <3>3. first = IF 0 + 1 \in DOMAIN f THEN f[0 + 1] ELSE NoItem
      <4>1. 1 \in Nat /\ 0 \in 0 .. Len(f) /\ 1 >= 1
        BY <1>5
      <4> QED BY <1>2, <3>2, <4>1, NextFit
    <3>4. last = IF Len(f) + 1 - 1 \in DOMAIN f THEN f[Len(f) + 1 - 1] ELSE NoItem
      <4> DEFINE c == Len(f) + 1
      <4>1. c \in Nat /\ 1 <= c /\ c <= Len(f) + 1 /\ c = Len(f) + 1 /\ Len(m) <= Len(m)
        BY <1>3, <1>5
      <4> HIDE DEF c
      <4>2. last = IF c - 1 \in DOMAIN f THEN f[c - 1] ELSE NoItem
        BY <1>2, <1>3, <3>2, <4>1, PreviousFit
      <4> QED BY <4>2 DEF c
    <3>5. first = At(1) /\ last = At(Len(f))
      <4>1. 0 + 1 = 1 /\ Len(f) + 1 - 1 = Len(f)
        BY <1>5
      <4> QED BY <3>3, <3>4, <4>1
    <3> QED BY <2>2, <3>5 DEF group_do_navi_first, m, first, last
  <2> QED BY <2>1, <2>2
<1>7. ASSUME NEW i \in DOMAIN f
      PROVE  /\ group_do_navi_next(g, gr, f[i], TRUE) = At(i + 1)
             /\ group_do_navi_next(g, gr, f[i], FALSE) = At(i - 1)
  <2> DEFINE p == e[i]
             forth == do_get_next(g, gr, p, TRUE, FALSE, FALSE)
             back == do_get_next(g, gr, p, FALSE, FALSE, FALSE)
  <2>1. p \in 1 .. Len(m) /\ p = Place(m, f[i])
    BY <1>4, <1>5
  <2> HIDE DEF p
  <2>2. UpFrom(ok, m, p + 1, forth) /\ DownFrom(ok, m, p - 1, back)
    BY <1>3, <2>1, NaviForth, NaviBack DEF m, ok
  <2> HIDE DEF forth, back
  <2>3. /\ i \in Nat /\ i # 0 /\ 1 <= i /\ i <= Len(f) + 1 /\ i # Len(f) + 1 /\ i \in 0 .. Len(f)
        /\ p + 1 \in Nat /\ p + 1 >= 1 /\ p - 1 \in Nat /\ p - 1 <= Len(m)
    BY <1>3, <1>5, <2>1
  <2>4. forth = At(i + 1)
    <3> DEFINE lo == p + 1
    <3>1. lo \in Nat /\ lo >= 1 /\ lo = e[i] + 1 /\ UpFrom(ok, m, lo, forth)
      BY <2>2, <2>3 DEF p
    <3> HIDE DEF lo
    <3> QED BY <1>2, <2>3, <3>1, NextFit
  <2>5. back = At(i - 1)
    <3> DEFINE hi == p - 1
    <3>1. hi \in Nat /\ hi <= Len(m) /\ hi = e[i] - 1 /\ DownFrom(ok, m, hi, back)
      BY <2>2, <2>3 DEF p
    <3> HIDE DEF hi
    <3> QED BY <1>2, <2>3, <3>1, PreviousFit
  <2>6. /\ group_do_navi_next(g, gr, f[i], TRUE) = forth
        /\ group_do_navi_next(g, gr, f[i], FALSE) = back
    BY <2>1 DEF group_do_navi_next, m, forth, back
  <2> QED BY <2>4, <2>5, <2>6
<1> QED BY <1>6, <1>7 DEF f, m, ok

-----------------------------------------------------------------------------
(* The theorems *)

\* Whatever is attached, detached, returned, reparented, restacked, closed or moved: the
\* stacking of every window is that of the regions of the groups in it, in the order of
\* their levels and of what they are above, and the server has it too; groups and
\* their regions know each other; placeholders are on one list (group.c, stacking.c).
THEOREM StackingSound == GroupsSpec => []GroupsSound
BY InvHolds, InvSound, PTL

\* Wherever the display is, when a workspace is shown it is there (or in the tiling at
\* its bottom), if a tiling that has it does not make place for another bottom
\* (mplex_remanage_stdisp, group_manage_stdisp).
THEOREM STDispFollows ==
  ASSUME "bottom" \notin GroupCalls
  PROVE  GroupsSpec => []STDispShown
<1> DEFINE I == GroupsInv(g) /\ STDispWith(g)
<1>1. GroupsInit => I
  BY InitInv
<1>2. I /\ [GroupsNext]_group => I'
  <2>1. CASE GroupsNext
    <3>1. ASSUME I, GroupsNext PROVE I'
      <4>1. GroupsInv(g') /\ Keeps(g', g)
        BY <3>1, NextKeeps
      <4>2. STDispWith(g')
        BY <3>1, <4>1 DEF Keeps
      <4> QED BY <4>1, <4>2
    <3> QED BY <2>1, <3>1
  <2>2. CASE UNCHANGED group
    BY <2>2 DEF group
  <2> QED BY <2>1, <2>2
<1>3. I => STDispShown
  BY DEF STDispWith, STDispShown
<1> QED BY <1>1, <1>2, <1>3, PTL DEF GroupsSpec

\* A group that gets the focus gives it to its current region or to another one, but never
\* to one that a shown modal region is above; and navigation by keyboard reaches
\* every region that may be focused, in the order of the managed list, from both
\* ends (stacking_find_to_focus, group_do_navi_first, group_do_navi_next).
THEOREM FocusNeverLost == GroupsSpec => []FocusReaches
<1>1. GroupsInv(g) => FocusReaches
  BY InvModal, InvNavi DEF FocusReaches
<1> QED BY <1>1, InvHolds, PTL
=============================================================================
