----------------------------- MODULE Keys_proof -----------------------------
(***************************************************************************)
(* The keys that are grabbed on a window, for any maps, keys, modifiers,   *)
(* regions within the window and order of changes; and the stack of grabs, *)
(* for any windows, size of the array, number and order of events.         *)
(*                                                                         *)
(* Adding rbinds, and removing them, are loops over lists.  Joins and      *)
(* Leaves say what such a loop makes of a window: of its rbinds, their     *)
(* order, and of the grabs that Fit them.                                  *)
(*                                                                         *)
(* A handler of grabs is an operator from states to states, so that most   *)
(* lemmas are about operators: what each leaves of the stack (Fewer), that *)
(* it restores the keyboard if what it was given is sound or the top is to *)
(* be removed (Settled), and that holders live (Sound).                    *)
(***************************************************************************)
EXTENDS Bindings, Grab, WellFoundedInduction, SequenceTheorems, TLAPS

-----------------------------------------------------------------------------
(* Bindings *)

Maps == Range(Bindmaps)
Rbinds == [bm : Maps, owner : Subs \cup {NoOwner}]
Depth(r) == Len(Managers(r))

\* The rbinds of other regions, and those of r and its managers
OwnedIn(rs) == {x \in Range(rs) : x.owner # NoOwner}
OwnedBy(r) == IF r = NoOwner THEN {} ELSE Owned(r)

IsList(rs) == rs \in Seq(Rbinds) /\ \A i, j \in DOMAIN rs : rs[i] = rs[j] => i = j

\* Of the rbinds in X the inner ones come first
Ordered(rs, X) ==
  \A i, j \in DOMAIN rs :
    i < j /\ rs[i] \in X /\ rs[j] \in X => Depth(rs[i].owner) >= Depth(rs[j].owner)

\* The keys of bindings, and of the maps in B
KeysOf(bs) == UNION {Combinations(b) : b \in bs}
Held(maps, B) == KeysOf(UNION {maps[m] : m \in B})
HeldElse(maps, B, bm) == Held(maps, B \ {bm})
MapsIn(rs) == {x.bm : x \in Range(rs)}

\* No binding is for any modifiers
Plain(maps) ==
  /\ maps \in [Maps -> SUBSET [ksb : Keysyms, kcb : Keycodes \cup {0}, state : Mods]]

\* Each map has one owner in U, from which the rbinds are, and the grabs are
\* those of the maps
Fit(w, U) ==
  /\ Plain(bindings) /\ \A x, y \in U : x.bm = y.bm => x = y
  /\ Range(w.rbinds) \subseteq U /\ w.grabs = Held(bindings, MapsIn(w.rbinds))

-----------------------------------------------------------------------------
(* Numbers and sequences *)

\* A set of numbers that is not empty has a least one.
LEMMA NatMin ==
  ASSUME NEW T \in SUBSET Nat, T # {}
  PROVE  \E n \in T : \A m \in T : n <= m
<1> DEFINE R == {p \in Nat \X Nat : p[1] < p[2]}
<1>1. IsWellFoundedOn(R, Nat)
  <2>1. R = OpToRel(<, Nat)
    BY DEF OpToRel
  <2> QED BY <2>1, NatLessThanWellFounded
<1>2. \E n \in T : \A m \in T : ~(<<m, n>> \in R)
  <2> HIDE DEF R
  <2> QED BY <1>1, WFMin
<1>3. PICK n \in T : \A m \in T : ~(<<m, n>> \in R)
  BY <1>2
<1>4. ASSUME NEW m \in T PROVE n <= m
  <2>1. <<m, n>> \in Nat \X Nat
    OBVIOUS
  <2> QED BY <1>3, <2>1
<1> QED BY <1>4

\* Induction up to N, on what holds in a set of numbers.
LEMMA UpTo ==
  ASSUME NEW N \in Nat, NEW P, 0 \in P, \A n \in 1 .. N : n - 1 \in P => n \in P
  PROVE  \A n \in 0 .. N : n \in P
<1> DEFINE T == {n \in 0 .. N : n \notin P}
<1>1. SUFFICES ASSUME T # {} PROVE FALSE
  OBVIOUS
<1>2. PICK n \in T : \A m \in T : n <= m
  <2>1. T \in SUBSET Nat
    OBVIOUS
  <2> HIDE DEF T
  <2> QED BY <1>1, <2>1, NatMin
<1>3. n \in 1 .. N /\ n - 1 \in 0 .. N /\ n - 1 \notin T
  BY <1>2
<1> QED BY <1>3

\* What the elements of a sequence become when x is put first ...
LEMMA FirstFacts ==
  ASSUME NEW S, NEW l \in Seq(S), NEW x \in S
  PROVE  LET t == <<x>> \o l
         IN /\ t \in Seq(S) /\ Len(t) = Len(l) + 1 /\ DOMAIN t = 1 .. Len(l) + 1
            /\ t[1] = x /\ \A i \in DOMAIN t : i # 1 => i - 1 \in DOMAIN l /\ t[i] = l[i - 1]
            /\ Range(t) = Range(l) \cup {x}
<1> DEFINE t == <<x>> \o l
<1>1. t \in Seq(S) /\ Len(t) = Len(l) + 1 /\ DOMAIN t = 1 .. Len(l) + 1 /\ DOMAIN l = 1 .. Len(l)
  OBVIOUS
<1>2. t[1] = x /\ \A i \in 1 .. Len(l) + 1 : i # 1 => t[i] = l[i - 1]
  OBVIOUS
<1> HIDE DEF t
<1>3. \A i \in DOMAIN t : i # 1 => i - 1 \in DOMAIN l /\ t[i] = l[i - 1]
  BY <1>1, <1>2
<1>4. ASSUME NEW i \in DOMAIN l PROVE i + 1 \in DOMAIN t /\ t[i + 1] = l[i]
  <2>1. i \in Nat /\ i + 1 \in 1 .. Len(l) + 1 /\ i + 1 # 1 /\ (i + 1) - 1 = i
    BY <1>1
  <2> QED BY <1>1, <1>2, <2>1
<1>5. Range(t) = Range(l) \cup {x}
  <2>1. 1 \in DOMAIN t
    BY <1>1
  <2> QED BY <1>2, <1>3, <1>4, <2>1 DEF Range
<1> QED BY <1>1, <1>2, <1>3, <1>5 DEF t

\* ... and when the one at a is taken out.
LEMMA WithoutFacts ==
  ASSUME NEW S, NEW l \in Seq(S), \A i, j \in DOMAIN l : l[i] = l[j] => i = j, NEW a \in DOMAIN l
  PROVE  LET t == [k \in 1 .. Len(l) - 1 |-> l[IF k < a THEN k ELSE k + 1]]
             f(k) == IF k < a THEN k ELSE k + 1
         IN /\ t \in Seq(S) /\ DOMAIN t = 1 .. Len(l) - 1
            /\ \A k \in DOMAIN t : f(k) \in DOMAIN l /\ t[k] = l[f(k)]
            /\ \A j, k \in DOMAIN t : j < k => f(j) < f(k)
            /\ Range(t) = Range(l) \ {l[a]}
<1> DEFINE t == [k \in 1 .. Len(l) - 1 |-> l[IF k < a THEN k ELSE k + 1]]
           f(k) == IF k < a THEN k ELSE k + 1
<1>1. DOMAIN l = 1 .. Len(l) /\ Len(l) \in Nat \ {0} /\ a \in 1 .. Len(l)
  OBVIOUS
<1>2. DOMAIN t = 1 .. Len(l) - 1
  OBVIOUS
<1>3. \A k \in 1 .. Len(l) - 1 : f(k) \in 1 .. Len(l) /\ f(k) # a
  BY <1>1
<1>4. \A k \in DOMAIN t : f(k) \in DOMAIN l /\ t[k] = l[f(k)] /\ f(k) # a
  BY <1>1, <1>3
<1>5. \A j, k \in 1 .. Len(l) - 1 : j < k => f(j) < f(k)
  BY <1>1
<1>6. ASSUME NEW i \in DOMAIN l, i # a PROVE \E k \in DOMAIN t : f(k) = i
  <2>1. CASE i < a
    <3>1. i \in 1 .. Len(l) - 1
      BY <1>1, <2>1
    <3> QED BY <1>2, <2>1, <3>1
  <2>2. CASE ~(i < a)
    <3>1. i - 1 \in 1 .. Len(l) - 1 /\ ~(i - 1 < a) /\ (i - 1) + 1 = i
      BY <1>1, <1>6, <2>2
    <3> QED BY <1>2, <3>1
  <2> QED BY <2>1, <2>2
<1>7. t \in Seq(S)
  <2>1. \A k \in 1 .. Len(l) - 1 : t[k] \in S
    BY <1>1, <1>3
  <2>2. Len(l) - 1 \in Nat
    BY <1>1
  <2>3. t = [k \in 1 .. Len(l) - 1 |-> t[k]]
    OBVIOUS
  <2> HIDE DEF t
  <2>4. t \in [1 .. Len(l) - 1 -> S]
    BY <2>1, <2>3
  <2> QED BY <2>2, <2>4
<1>8. Range(t) = Range(l) \ {l[a]}
  <2> HIDE DEF t
  <2>1. ASSUME NEW k \in DOMAIN t PROVE t[k] \in Range(l) \ {l[a]}
    BY <1>4 DEF Range
  <2>2. ASSUME NEW i \in DOMAIN l, l[i] # l[a] PROVE l[i] \in Range(t)
    <3>1. PICK k \in DOMAIN t : f(k) = i
      BY <1>6, <2>2
    <3> QED BY <1>4, <3>1 DEF Range
  <2> QED BY <2>1, <2>2 DEF Range
<1> QED BY <1>2, <1>4, <1>5, <1>7, <1>8

-----------------------------------------------------------------------------
(* KeysOf and modifiers *)

\* The three locks in all combinations (binding.c: evil_grab_key).
LEMMA AllLocks == EvilLocks = SUBSET Locks
<1>1. EvilLocks \subseteq SUBSET Locks
  BY DEF EvilLocks
<1>2. ASSUME NEW S \in SUBSET Locks PROVE S \in EvilLocks
  <2>1. \A l \in Locks : l \in {1, 2, 3}
    BY BindingsAssumption
  <2>2. CASE S = {}
    BY <2>2 DEF EvilLocks
  <2>3. CASE 1 \in S /\ 2 \in S /\ 3 \in S
    <3>1. S = {l \in Locks : 1 <= l /\ l <= 3}
      <4>1. \A l \in {1, 2, 3} : 1 <= l /\ l <= 3
        OBVIOUS
      <4> QED BY <2>1, <2>3, <4>1
    <3> QED BY <2>3, <3>1 DEF EvilLocks
  <2>4. CASE S # {} /\ ~(1 \in S /\ 2 \in S /\ 3 \in S)
    <3>1. \E i, j \in Locks : S = {i, j}
      <4>1. CASE 1 \in S /\ 2 \in S
        <5>1. S = {1, 2}
          BY <2>1, <2>4, <4>1
        <5> QED BY <4>1, <5>1
      <4>2. CASE 1 \in S /\ 3 \in S
        <5>1. S = {1, 3}
          BY <2>1, <2>4, <4>2
        <5> QED BY <4>2, <5>1
      <4>3. CASE 2 \in S /\ 3 \in S
        <5>1. S = {2, 3}
          BY <2>1, <2>4, <4>3
        <5> QED BY <4>3, <5>1
      <4>4. CASE \E i \in S : S = {i}
        <5>1. PICK i \in S : S = {i}
          BY <4>4
        <5>2. S = {i, i}
          BY <5>1
        <5> QED BY <5>2
      <4> QED BY <2>1, <2>4, <4>1, <4>2, <4>3, <4>4
    <3> QED BY <3>1 DEF EvilLocks
  <2> QED BY <2>2, <2>3, <2>4
<1> QED BY <1>1, <1>2

\* Two plain bindings concern the same combinations, or none in common.
LEMMA SameCombinations ==
  ASSUME NEW b, NEW d, NEW c, b.state \in Mods, d.state \in Mods, c \in Combinations(b)
  PROVE  /\ b.kcb # 0
         /\ c \in Combinations(d) <=> (b.kcb = d.kcb /\ b.state = d.state)
<1>1. b.state # AnyModifier /\ d.state # AnyModifier
  BY BindingsAssumption
<1>2. b.kcb # 0 /\ c \in {b.kcb} \X {b.state} \X EvilLocks
  BY <1>1 DEF Combinations
<1>3. PICK L \in EvilLocks : c = <<b.kcb, b.state, L>>
  BY <1>2
<1>4. CASE d.kcb = 0
  BY <1>2, <1>4 DEF Combinations
<1>5. CASE d.kcb # 0
  <2>1. Combinations(d) = {d.kcb} \X {d.state} \X EvilLocks
    BY <1>1, <1>5 DEF Combinations
  <2> QED BY <1>2, <1>3, <2>1
<1> QED BY <1>2, <1>4, <1>5

\* What is looked up in a plain map has the same key.
LEMMA LookupFacts ==
  ASSUME NEW bs, \A b \in bs : b.state \in Mods, NEW state \in Mods, NEW kcb
  PROVE  Lookup(bs, state, kcb) # {} <=> \E b \in bs : b.kcb = kcb /\ b.state = state
<1>1. state # AnyModifier /\ \A b \in bs : b.state # AnyModifier
  BY BindingsAssumption
<1> QED BY <1>1 DEF Lookup

\* The keys of bindings that no other map of the window has
\* (regbind.c: do_binding_grab_on_ungrab_on).
LEMMA ConcernedFacts ==
  ASSUME NEW maps, Plain(maps), NEW rs \in Seq(Rbinds), NEW bm, NEW bs, \A b \in bs : b.state \in Mods
  PROVE  Concerned(maps, rs, bm, bs) = KeysOf(bs) \ HeldElse(maps, MapsIn(rs), bm)
<1> DEFINE B == MapsIn(rs) \ {bm}
<1>1. B \subseteq Maps /\ \A m \in B : \E k \in DOMAIN rs : rs[k].bm = m
  <2>1. \A k \in DOMAIN rs : rs[k].bm \in Maps
    <3>1. \A k \in DOMAIN rs : rs[k] \in Rbinds
      OBVIOUS
    <3> QED BY <3>1 DEF Rbinds
  <2>2. \A m \in B : \E k \in DOMAIN rs : rs[k].bm = m
    BY DEF MapsIn, Range
  <2> QED BY <2>1, <2>2
<1>2. \A m \in Maps : \A b \in maps[m] : b.state \in Mods
  BY DEF Plain
<1>3. \A k \in DOMAIN rs : rs[k].bm \in Maps /\ (rs[k].bm # bm => rs[k].bm \in B)
  <2>1. \A k \in DOMAIN rs : rs[k].bm \in MapsIn(rs)
    BY DEF MapsIn, Range
  <2>2. \A k \in DOMAIN rs : rs[k] \in Rbinds
    OBVIOUS
  <2> QED BY <2>1, <2>2 DEF Rbinds
<1>4. ASSUME NEW b \in bs
      PROVE  Elsewhere(maps, rs, bm, b)
               <=> \E m \in B : \E d \in maps[m] : d.kcb = b.kcb /\ d.state = b.state
  <2>1. \A k \in DOMAIN rs : Lookup(maps[rs[k].bm], b.state, b.kcb) # {}
          <=> \E d \in maps[rs[k].bm] : d.kcb = b.kcb /\ d.state = b.state
    BY <1>2, <1>3, LookupFacts
  <2>2. \A m \in B : m # bm
    OBVIOUS
  <2> HIDE DEF B
  <2>3. ASSUME Elsewhere(maps, rs, bm, b)
        PROVE  \E m \in B : \E d \in maps[m] : d.kcb = b.kcb /\ d.state = b.state
    <3>1. PICK k \in DOMAIN rs : rs[k].bm # bm /\ Lookup(maps[rs[k].bm], b.state, b.kcb) # {}
      BY <2>3 DEF Elsewhere
    <3> QED BY <1>3, <2>1, <3>1
  <2>4. ASSUME NEW m \in B, NEW d \in maps[m], d.kcb = b.kcb /\ d.state = b.state
        PROVE  Elsewhere(maps, rs, bm, b)
    <3>1. PICK k \in DOMAIN rs : rs[k].bm = m
      BY <1>1
    <3>2. Lookup(maps[rs[k].bm], b.state, b.kcb) # {}
      BY <2>1, <2>4, <3>1
    <3> QED BY <2>2, <3>1, <3>2 DEF Elsewhere
  <2> QED BY <2>3, <2>4
<1>5. ASSUME NEW b \in bs, NEW c \in Combinations(b)
      PROVE  Elsewhere(maps, rs, bm, b) <=> c \in Held(maps, B)
  <2>1. ASSUME NEW m \in B, NEW d \in maps[m]
        PROVE  c \in Combinations(d) <=> (d.kcb = b.kcb /\ d.state = b.state)
    BY <1>1, <1>2, SameCombinations
  <2>2. c \in Held(maps, B) <=> \E m \in B : \E d \in maps[m] : c \in Combinations(d)
    BY DEF Held, KeysOf
  <2> HIDE DEF B
  <2> QED BY <1>4, <2>1, <2>2
<1> HIDE DEF B
<1>6. ASSUME NEW c PROVE c \in Concerned(maps, rs, bm, bs) <=> c \in KeysOf(bs) \ Held(maps, B)
  <2>1. c \in Concerned(maps, rs, bm, bs)
          <=> \E b \in bs : ~Elsewhere(maps, rs, bm, b) /\ c \in Combinations(b)
    BY DEF Concerned
  <2>2. c \in KeysOf(bs) <=> \E b \in bs : c \in Combinations(b)
    BY DEF KeysOf
  <2> QED BY <1>5, <2>1, <2>2
<1> QED BY <1>6 DEF B, HeldElse

\* The keys of some maps and one more.
LEMMA HeldWith ==
  ASSUME NEW maps, NEW B, NEW m
  PROVE  Held(maps, B \cup {m}) = HeldElse(maps, B, m) \cup KeysOf(maps[m])
<1>1. ASSUME NEW c PROVE c \in Held(maps, B \cup {m}) <=> c \in HeldElse(maps, B, m) \cup KeysOf(maps[m])
  <2>1. c \in Held(maps, B \cup {m}) <=> \E k \in B \cup {m} : \E d \in maps[k] : c \in Combinations(d)
    BY DEF Held, KeysOf
  <2>2. c \in HeldElse(maps, B, m) <=> \E k \in B \ {m} : \E d \in maps[k] : c \in Combinations(d)
    BY DEF HeldElse, Held, KeysOf
  <2>3. c \in KeysOf(maps[m]) <=> \E d \in maps[m] : c \in Combinations(d)
    BY DEF KeysOf
  <2> QED BY <2>1, <2>2, <2>3
<1> QED BY <1>1

-----------------------------------------------------------------------------
(* Managers *)

\* The managers of r are at their depths.
LEMMA ManagerFacts ==
  ASSUME NEW r \in Subs
  PROVE  /\ Managers(r) \in Seq(Subs) /\ MapsOf(r) \in Seq(Maps) /\ Depth(r) \in Nat
         /\ DOMAIN Managers(r) = 1 .. Depth(r) /\ DOMAIN MapsOf(r) = 1 .. Len(MapsOf(r))
         /\ \A i \in 1 .. Depth(r) :
              /\ Managers(r)[i] \in Subs /\ Depth(Managers(r)[i]) = i
              /\ \A j \in 1 .. i : Managers(Managers(r)[i])[j] = Managers(r)[j]
<1>1. /\ Managers(r) \in Seq(Subs) /\ MapsOf(r) \in Seq(Maps)
      /\ \A i \in DOMAIN Managers(r) : Managers(Managers(r)[i]) = SubSeq(Managers(r), 1, i)
  BY BindingsAssumption DEF Maps
<1>2. /\ Depth(r) \in Nat /\ DOMAIN Managers(r) = 1 .. Depth(r)
      /\ DOMAIN MapsOf(r) = 1 .. Len(MapsOf(r))
  BY <1>1 DEF Depth
<1>3. ASSUME NEW i \in 1 .. Depth(r)
      PROVE  /\ Managers(r)[i] \in Subs /\ Depth(Managers(r)[i]) = i
             /\ \A j \in 1 .. i : Managers(Managers(r)[i])[j] = Managers(r)[j]
  <2>1. i \in DOMAIN Managers(r) /\ i <= Len(Managers(r)) /\ i \in Nat
    BY <1>2 DEF Depth
  <2>2. Managers(r)[i] \in Subs
    BY <1>1, <2>1
  <2>3. Managers(Managers(r)[i]) = SubSeq(Managers(r), 1, i)
    BY <1>1, <2>1
  <2> DEFINE M == Managers(r)
  <2>4. M \in Seq(Subs) /\ i \in Nat /\ i <= Len(M)
    BY <1>1, <2>1
  <2> HIDE DEF M
  <2>5. Len(SubSeq(M, 1, i)) = i /\ \A j \in 1 .. i : SubSeq(M, 1, i)[j] = M[j]
    BY <2>4
  <2> QED BY <2>2, <2>3, <2>5 DEF Depth, M
<1> QED BY <1>1, <1>2, <1>3

\* The rbinds of one region among the managers of r
Own(o) == {Rbind(bm, o) : bm \in Range(MapsOf(o))}

\* The rbinds of r and its managers, each with its owner's place among the managers.
LEMMA OwnedFacts ==
  ASSUME NEW r \in Subs
  PROVE  /\ Owned(r) \subseteq Rbinds
         /\ \A i \in 1 .. Depth(r) : Own(Managers(r)[i]) \subseteq Owned(r)
         /\ \A x \in Owned(r) :
              /\ x.owner \in Subs /\ x.owner # NoOwner /\ Depth(x.owner) \in 1 .. Depth(r)
              /\ x.owner = Managers(r)[Depth(x.owner)] /\ x \in Own(x.owner)
<1>1. /\ DOMAIN Managers(r) = 1 .. Depth(r)
      /\ \A i \in 1 .. Depth(r) : Managers(r)[i] \in Subs /\ Depth(Managers(r)[i]) = i
  BY ManagerFacts
<1>2. Owned(r) = UNION {Own(Managers(r)[i]) : i \in 1 .. Depth(r)}
  <2>1. Owned(r) = UNION {Own(o) : o \in Range(Managers(r))}
    BY DEF Owned, Own
  <2>2. Range(Managers(r)) = {Managers(r)[i] : i \in 1 .. Depth(r)}
    BY <1>1 DEF Range
  <2> QED BY <2>1, <2>2
<1>3. ASSUME NEW i \in 1 .. Depth(r), NEW x \in Own(Managers(r)[i])
      PROVE  x.owner = Managers(r)[i] /\ x \in Rbinds
  <2>1. PICK bm \in Range(MapsOf(Managers(r)[i])) : x = Rbind(bm, Managers(r)[i])
    BY DEF Own
  <2>2. bm \in Maps
    <3>1. MapsOf(Managers(r)[i]) \in Seq(Maps)
      BY <1>1, ManagerFacts
    <3> QED BY <2>1, <3>1 DEF Range
  <2> QED BY <1>1, <2>1, <2>2 DEF Rbind, Rbinds
<1>4. NoOwner \notin Subs
  BY BindingsAssumption
<1> QED BY <1>1, <1>2, <1>3, <1>4

-----------------------------------------------------------------------------
(* Rbinds are added *)

\* v is w with the rbinds in X, which are of a and its managers
Joins(w, v, X, a, U) ==
  /\ IsList(v.rbinds) /\ Range(v.rbinds) = Range(w.rbinds) \cup X
  /\ Ordered(v.rbinds, Owned(a))
  /\ Fit(w, U) => Fit(v, U)

\* region_do_add_bindmap_owned: the grabs are those of the maps and one more.
LEMMA AddOwnedFacts ==
  ASSUME NEW w, IsList(w.rbinds), NEW bm, NEW o, Rbind(bm, o) \in Rbinds,
         Rbind(bm, o) \notin Range(w.rbinds), NEW U
  PROVE  LET v == AddOwned(w, bm, o)
             rb == Rbind(bm, o)
         IN /\ IsList(v.rbinds) /\ Range(v.rbinds) = Range(w.rbinds) \cup {rb}
            /\ v.rbinds[1] = rb
            /\ \A i \in DOMAIN v.rbinds : i # 1 => i - 1 \in DOMAIN w.rbinds /\ v.rbinds[i] = w.rbinds[i - 1]
            /\ Fit(w, U) /\ rb \in U => Fit(v, U)
<1> DEFINE v == AddOwned(w, bm, o)
           rb == Rbind(bm, o)
           t == <<rb>> \o w.rbinds
<1>1. /\ v.rbinds = t
      /\ v.grabs = w.grabs \cup Concerned(bindings, w.rbinds, bm, bindings[bm])
  BY DEF AddOwned
<1>2. w.rbinds \in Seq(Rbinds) /\ rb \in Rbinds
  BY DEF IsList
<1> HIDE DEF v, rb
<1>3. /\ t \in Seq(Rbinds) /\ DOMAIN t = 1 .. Len(w.rbinds) + 1
      /\ t[1] = rb /\ \A i \in DOMAIN t : i # 1 => i - 1 \in DOMAIN w.rbinds /\ t[i] = w.rbinds[i - 1]
      /\ Range(t) = Range(w.rbinds) \cup {rb}
  BY <1>2, FirstFacts
<1> HIDE DEF t
<1>4. IsList(t)
  <2>1. ASSUME NEW i \in DOMAIN t, NEW j \in DOMAIN t, t[i] = t[j] PROVE i = j
    <3>1. \A k \in DOMAIN w.rbinds : w.rbinds[k] # rb
      BY DEF Range, rb
    <3>2. i \in Nat /\ j \in Nat
      BY <1>3
    <3>3. CASE i = 1 \/ j = 1
      BY <1>3, <2>1, <3>1, <3>3
    <3>4. CASE i # 1 /\ j # 1
      <4>1. i - 1 \in DOMAIN w.rbinds /\ j - 1 \in DOMAIN w.rbinds /\ w.rbinds[i - 1] = w.rbinds[j - 1]
        BY <1>3, <2>1, <3>4
      <4>2. i - 1 = j - 1
        BY <4>1 DEF IsList
      <4> QED BY <3>2, <4>2
    <3> QED BY <3>3, <3>4
  <2> QED BY <1>3, <2>1 DEF IsList
<1>5. ASSUME Fit(w, U), rb \in U PROVE Fit(v, U)
  <2> DEFINE B == MapsIn(w.rbinds)
  <2>1. Plain(bindings) /\ w.grabs = Held(bindings, B)
    BY <1>5 DEF Fit
  <2>2. bm \in Maps /\ \A b \in bindings[bm] : b.state \in Mods
    <3>1. bm \in Maps
      BY <1>2 DEF rb, Rbind, Rbinds
    <3> QED BY <2>1, <3>1 DEF Plain
  <2>3. MapsIn(t) = B \cup {bm}
    <3>1. rb.bm = bm
      BY DEF rb, Rbind
    <3> QED BY <1>3, <3>1 DEF MapsIn
  <2>4. Concerned(bindings, w.rbinds, bm, bindings[bm]) = KeysOf(bindings[bm]) \ HeldElse(bindings, B, bm)
    BY <1>2, <2>1, <2>2, ConcernedFacts
  <2> HIDE DEF B
  <2>5. Held(bindings, B \cup {bm}) = HeldElse(bindings, B, bm) \cup KeysOf(bindings[bm])
    BY HeldWith
  <2>6. Held(bindings, B) \cup KeysOf(bindings[bm]) = Held(bindings, B \cup {bm})
    <3>1. CASE bm \in B
      <4>1. B \cup {bm} = B
        BY <3>1
      <4> QED BY <2>5, <4>1
    <3>2. CASE bm \notin B
      <4>1. HeldElse(bindings, B, bm) = Held(bindings, B)
        <5>1. B \ {bm} = B
          BY <3>2
        <5> QED BY <5>1 DEF HeldElse
      <4> QED BY <2>5, <4>1
    <3> QED BY <3>1, <3>2
  <2>7. v.grabs = Held(bindings, MapsIn(t))
    <3>1. HeldElse(bindings, B, bm) \subseteq Held(bindings, B)
      BY DEF HeldElse, Held, KeysOf
    <3> QED BY <1>1, <2>1, <2>3, <2>4, <2>6, <3>1
  <2> QED BY <1>1, <1>3, <1>5, <2>7 DEF Fit
<1> QED BY <1>1, <1>3, <1>4, <1>5 DEF v, rb

\* add_bindings: for one map, which is inside of those of a that are there.
LEMMA AddUnlessThereFacts ==
  ASSUME NEW a \in Subs, NEW w, IsList(w.rbinds), Ordered(w.rbinds, Owned(a)),
         NEW U, Owned(a) \subseteq U, NEW bm, NEW o, Rbind(bm, o) \in Owned(a),
         Rbind(bm, o) \notin Range(w.rbinds)
           => \A x \in Range(w.rbinds) \cap Owned(a) : Depth(x.owner) <= Depth(o)
  PROVE  Joins(w, AddUnlessThere(w, bm, o), {Rbind(bm, o)}, a, U)
<1> DEFINE v == AddUnlessThere(w, bm, o)
           rb == Rbind(bm, o)
<1>1. CASE rb \in Range(w.rbinds)
  <2>1. v = w
    BY <1>1 DEF AddUnlessThere
  <2> QED BY <1>1, <2>1 DEF Joins
<1>2. CASE rb \notin Range(w.rbinds)
  <2>1. v = AddOwned(w, bm, o)
    BY <1>2 DEF AddUnlessThere
  <2>2. rb \in Rbinds /\ rb.owner = o /\ Depth(o) \in Nat
    <3>1. rb.owner = o
      BY DEF Rbind
    <3> HIDE DEF rb
    <3>2. rb \in Owned(a)
      BY DEF rb
    <3> QED BY <3>1, <3>2, OwnedFacts
  <2> HIDE DEF rb
  <2>3. /\ IsList(v.rbinds) /\ Range(v.rbinds) = Range(w.rbinds) \cup {rb}
        /\ v.rbinds[1] = rb
        /\ \A i \in DOMAIN v.rbinds : i # 1 => i - 1 \in DOMAIN w.rbinds /\ v.rbinds[i] = w.rbinds[i - 1]
        /\ Fit(w, U) => Fit(v, U)
    BY <1>2, <2>1, <2>2, AddOwnedFacts DEF rb
  <2> HIDE DEF v
  <2>4. Ordered(v.rbinds, Owned(a))
    <3>1. SUFFICES ASSUME NEW i \in DOMAIN v.rbinds, NEW j \in DOMAIN v.rbinds, i < j,
                          v.rbinds[i] \in Owned(a), v.rbinds[j] \in Owned(a)
                   PROVE  Depth(v.rbinds[i].owner) >= Depth(v.rbinds[j].owner)
      BY DEF Ordered
    <3>2. i \in Nat /\ j \in Nat /\ i >= 1
      BY <2>3 DEF IsList
    <3>3. j # 1 /\ j - 1 \in DOMAIN w.rbinds /\ v.rbinds[j] = w.rbinds[j - 1]
      BY <2>3, <3>1, <3>2
    <3>4. CASE i = 1
      <4>1. v.rbinds[j] \in Range(w.rbinds) \cap Owned(a)
        BY <3>1, <3>3 DEF Range
      <4>2. Depth(v.rbinds[j].owner) <= Depth(o)
        BY <1>2, <4>1 DEF rb
      <4>3. Depth(v.rbinds[j].owner) \in Nat
        BY <3>1, OwnedFacts, ManagerFacts
      <4> QED BY <2>2, <2>3, <3>4, <4>2, <4>3
    <3>5. CASE i # 1
      <4>1. i - 1 \in DOMAIN w.rbinds /\ v.rbinds[i] = w.rbinds[i - 1]
        BY <2>3, <3>5
      <4>2. i - 1 < j - 1
        BY <3>1, <3>2
      <4> QED BY <3>1, <3>3, <4>1, <4>2 DEF Ordered
    <3> QED BY <3>4, <3>5
  <2> QED BY <2>3, <2>4 DEF Joins, v, rb
<1> QED BY <1>1, <1>2

\* The loop over the maps of o
MapLoop(f, w, o, N) ==
  f = [n \in 0 .. N |-> IF n = 0 THEN w ELSE AddUnlessThere(f[n - 1], MapsOf(o)[n], o)]

\* What each turn of that loop does.
LEMMA MapLoopTurns ==
  ASSUME NEW f, NEW w, NEW o, NEW N \in Nat, MapLoop(f, w, o, N)
  PROVE  f[0] = w /\ \A n \in 1 .. N : f[n] = AddUnlessThere(f[n - 1], MapsOf(o)[n], o)
<1>1. \A n \in 0 .. N : f[n] = IF n = 0 THEN w ELSE AddUnlessThere(f[n - 1], MapsOf(o)[n], o)
  BY DEF MapLoop
<1>2. 0 \in 0 .. N /\ \A n \in 1 .. N : n \in 0 .. N /\ n # 0
  OBVIOUS
<1> QED BY <1>1, <1>2

\* The loop of the function exists for any number of turns.
LEMMA MapLoopEnds ==
  ASSUME NEW w, NEW o, NEW N \in Nat
  PROVE  \E f : MapLoop(f, w, o, N)
<1> DEFINE P == {n \in Nat : \E f : MapLoop(f, w, o, n)}
<1>1. 0 \in P
  <2>1. MapLoop([n \in 0 .. 0 |-> w], w, o, 0)
    BY DEF MapLoop
  <2> QED BY <2>1
<1>2. ASSUME NEW n \in 1 .. N, n - 1 \in P PROVE n \in P
  <2>1. PICK f : MapLoop(f, w, o, n - 1)
    BY <1>2
  <2>2. n - 1 \in Nat /\ n \in Nat /\ n # 0
    OBVIOUS
  <2>3. f[0] = w /\ \A k \in 1 .. n - 1 : f[k] = AddUnlessThere(f[k - 1], MapsOf(o)[k], o)
    BY <2>1, <2>2, MapLoopTurns
  <2> DEFINE new == AddUnlessThere(f[n - 1], MapsOf(o)[n], o)
             g == [k \in 0 .. n |-> IF k = n THEN new ELSE f[k]]
  <2> HIDE DEF new
  <2>4. ASSUME NEW k \in 0 .. n
        PROVE  g[k] = IF k = 0 THEN w ELSE AddUnlessThere(g[k - 1], MapsOf(o)[k], o)
    <3>1. CASE k = 0
      BY <2>2, <2>3, <3>1
    <3>2. CASE k = n
      <4>1. g[k] = new /\ g[k - 1] = f[n - 1] /\ k # 0
        BY <2>2, <3>2
      <4> QED BY <3>2, <4>1 DEF new
    <3>3. CASE k # 0 /\ k # n
      <4>1. k \in 1 .. n - 1 /\ g[k] = f[k] /\ g[k - 1] = f[k - 1]
        BY <2>2, <3>3
      <4> QED BY <2>3, <3>3, <4>1
    <3> QED BY <3>1, <3>2, <3>3
  <2>5. g = [k \in 0 .. n |-> g[k]]
    OBVIOUS
  <2> HIDE DEF g
  <2>6. MapLoop(g, w, o, n)
    BY <2>4, <2>5 DEF MapLoop
  <2> QED BY <2>2, <2>6
<1>3. N \in P
  <2> HIDE DEF P
  <2>1. \A n \in 0 .. N : n \in P
    BY <1>1, <1>2, UpTo
  <2> QED BY <2>1
<1> QED BY <1>3

\* AddMaps: the maps of one region that is inside of those of a that are there.
LEMMA AddMapsFacts ==
  ASSUME NEW a \in Subs, NEW w, IsList(w.rbinds), Ordered(w.rbinds, Owned(a)),
         NEW U, Owned(a) \subseteq U, NEW o \in Subs, Own(o) \subseteq Owned(a),
         ~(Own(o) \subseteq Range(w.rbinds))
           => \A x \in Range(w.rbinds) \cap Owned(a) : Depth(x.owner) <= Depth(o)
  PROVE  Joins(w, AddMaps(w, o), Own(o), a, U)
<1> DEFINE N == Len(MapsOf(o))
           f == CHOOSE g : MapLoop(g, w, o, N)
           X(n) == {Rbind(MapsOf(o)[m], o) : m \in 1 .. n}
           P == {n \in 0 .. N : Joins(w, f[n], X(n), a, U)}
<1>1. N \in Nat /\ DOMAIN MapsOf(o) = 1 .. N
  BY ManagerFacts
<1>2. AddMaps(w, o) = f[N]
  BY DEF AddMaps, MapLoop
<1>3. MapLoop(f, w, o, N)
  BY <1>1, MapLoopEnds
<1> HIDE DEF f
<1>4. f[0] = w /\ \A n \in 1 .. N : f[n] = AddUnlessThere(f[n - 1], MapsOf(o)[n], o)
  BY <1>1, <1>3, MapLoopTurns
<1>5. Own(o) = X(N) /\ \A n \in 1 .. N : Rbind(MapsOf(o)[n], o) \in Own(o)
  BY <1>1 DEF Own, Range
<1>6. 0 \in P
  <2>1. X(0) = {}
    OBVIOUS
  <2>2. Joins(w, w, {}, a, U)
    BY DEF Joins
  <2> HIDE DEF X
  <2>3. Joins(w, f[0], X(0), a, U)
    BY <1>4, <2>1, <2>2
  <2>4. 0 \in 0 .. N
    BY <1>1
  <2> QED BY <2>3, <2>4
<1>7. ASSUME NEW n \in 1 .. N, n - 1 \in P PROVE n \in P
  <2> DEFINE u == f[n - 1]
             bm == MapsOf(o)[n]
             rb == Rbind(bm, o)
  <2>1. Joins(w, u, X(n - 1), a, U)
    BY <1>7
  <2>2. rb \in Own(o) /\ rb \in Owned(a) /\ X(n) = X(n - 1) \cup {rb} /\ X(n - 1) \subseteq Own(o)
    <3>1. rb \in Own(o)
      BY <1>5
    <3>2. \A m \in 1 .. n : m = n \/ m \in 1 .. n - 1
      OBVIOUS
    <3>3. \A m \in 1 .. n - 1 : m \in 1 .. n /\ m \in 1 .. N
      BY <1>1
    <3>4. n \in 1 .. n
      OBVIOUS
    <3>5. X(n) = X(n - 1) \cup {rb}
      BY <3>2, <3>3, <3>4
    <3>6. X(n - 1) \subseteq Own(o)
      BY <1>5, <3>3
    <3> QED BY <3>1, <3>5, <3>6
  <2>3. \A x \in Own(o) : x.owner = o
    BY DEF Own, Rbind
  <2>4. Depth(o) \in Nat
    BY ManagerFacts
  <2>5. ASSUME rb \notin Range(u.rbinds), NEW x \in Range(u.rbinds) \cap Owned(a)
        PROVE  Depth(x.owner) <= Depth(o)
    <3>1. Range(u.rbinds) = Range(w.rbinds) \cup X(n - 1)
      BY <2>1 DEF Joins
    <3> HIDE DEF X
    <3>2. CASE x \in X(n - 1)
      BY <2>2, <2>3, <2>4, <3>2
    <3>3. CASE x \in Range(w.rbinds)
      <4>1. rb \in Own(o) /\ rb \notin Range(w.rbinds)
        BY <2>2, <2>5, <3>1
      <4> QED BY <2>5, <3>3, <4>1
    <3> QED BY <2>5, <3>1, <3>2, <3>3
  <2> HIDE DEF X
  <2>6. Joins(u, AddUnlessThere(u, bm, o), {rb}, a, U)
    <3>1. IsList(u.rbinds) /\ Ordered(u.rbinds, Owned(a))
      BY <2>1 DEF Joins
    <3> HIDE DEF u, bm
    <3> QED BY <2>2, <2>5, <3>1, AddUnlessThereFacts
  <2>7. f[n] = AddUnlessThere(u, bm, o)
    BY <1>4
  <2> HIDE DEF u, rb
  <2>8. Joins(w, f[n], X(n), a, U)
    BY <2>1, <2>2, <2>6, <2>7 DEF Joins
  <2>9. n \in 0 .. N
    BY <1>1
  <2> QED BY <2>8, <2>9
<1>8. N \in P
  <2> HIDE DEF P
  <2>1. \A n \in 0 .. N : n \in P
    <3> HIDE DEF N
    <3> QED BY <1>1, <1>6, <1>7, UpTo
  <2> QED BY <1>1, <2>1
<1> QED BY <1>2, <1>5, <1>8

\* The loop over the managers of a
ManagerLoop(f, w, a, N) ==
  f = [n \in 0 .. N |-> IF n = 0 THEN w ELSE AddMaps(f[n - 1], Managers(a)[n])]

\* What each turn of that loop does.
LEMMA ManagerLoopTurns ==
  ASSUME NEW f, NEW w, NEW a, NEW N \in Nat, ManagerLoop(f, w, a, N)
  PROVE  f[0] = w /\ \A n \in 1 .. N : f[n] = AddMaps(f[n - 1], Managers(a)[n])
<1>1. \A n \in 0 .. N : f[n] = IF n = 0 THEN w ELSE AddMaps(f[n - 1], Managers(a)[n])
  BY DEF ManagerLoop
<1>2. 0 \in 0 .. N /\ \A n \in 1 .. N : n \in 0 .. N /\ n # 0
  OBVIOUS
<1> QED BY <1>1, <1>2

\* The loop of the function exists for any number of turns.
LEMMA ManagerLoopEnds ==
  ASSUME NEW w, NEW a, NEW N \in Nat
  PROVE  \E f : ManagerLoop(f, w, a, N)
<1> DEFINE P == {n \in Nat : \E f : ManagerLoop(f, w, a, n)}
<1>1. 0 \in P
  <2>1. ManagerLoop([n \in 0 .. 0 |-> w], w, a, 0)
    BY DEF ManagerLoop
  <2> QED BY <2>1
<1>2. ASSUME NEW n \in 1 .. N, n - 1 \in P PROVE n \in P
  <2>1. PICK f : ManagerLoop(f, w, a, n - 1)
    BY <1>2
  <2>2. n - 1 \in Nat /\ n \in Nat /\ n # 0
    OBVIOUS
  <2>3. f[0] = w /\ \A k \in 1 .. n - 1 : f[k] = AddMaps(f[k - 1], Managers(a)[k])
    BY <2>1, <2>2, ManagerLoopTurns
  <2> DEFINE new == AddMaps(f[n - 1], Managers(a)[n])
             g == [k \in 0 .. n |-> IF k = n THEN new ELSE f[k]]
  <2> HIDE DEF new
  <2>4. ASSUME NEW k \in 0 .. n
        PROVE  g[k] = IF k = 0 THEN w ELSE AddMaps(g[k - 1], Managers(a)[k])
    <3>1. CASE k = 0
      BY <2>2, <2>3, <3>1
    <3>2. CASE k = n
      <4>1. g[k] = new /\ g[k - 1] = f[n - 1] /\ k # 0
        BY <2>2, <3>2
      <4> QED BY <3>2, <4>1 DEF new
    <3>3. CASE k # 0 /\ k # n
      <4>1. k \in 1 .. n - 1 /\ g[k] = f[k] /\ g[k - 1] = f[k - 1]
        BY <2>2, <3>3
      <4> QED BY <2>3, <3>3, <4>1
    <3> QED BY <3>1, <3>2, <3>3
  <2>5. g = [k \in 0 .. n |-> g[k]]
    OBVIOUS
  <2> HIDE DEF g
  <2>6. ManagerLoop(g, w, a, n)
    BY <2>4, <2>5 DEF ManagerLoop
  <2> QED BY <2>2, <2>6
<1>3. N \in P
  <2> HIDE DEF P
  <2>1. \A n \in 0 .. N : n \in P
    BY <1>1, <1>2, UpTo
  <2> QED BY <2>1
<1> QED BY <1>3

\* Of two regions in a window that share a manager, those outside of it are
\* managers of both.
LEMMA SharedManagers ==
  ASSUME NEW r \in Subs, NEW a \in Subs, NEW x \in Owned(r) \cap Owned(a),
         NEW n \in 1 .. Depth(a), n <= Depth(x.owner)
  PROVE  Own(Managers(a)[n]) \subseteq Owned(r)
<1> DEFINE d == Depth(x.owner)
<1>1. /\ d \in 1 .. Depth(r) /\ d \in 1 .. Depth(a)
      /\ x.owner = Managers(r)[d] /\ x.owner = Managers(a)[d]
  BY OwnedFacts
<1>2. n \in 1 .. d /\ n \in 1 .. Depth(r)
  <2>1. Depth(r) \in Nat /\ Depth(a) \in Nat
    BY ManagerFacts
  <2> HIDE DEF d
  <2>2. n <= d
    BY DEF d
  <2> QED BY <1>1, <2>1, <2>2
<1>3. Managers(x.owner)[n] = Managers(r)[n] /\ Managers(x.owner)[n] = Managers(a)[n]
  <2> HIDE DEF d
  <2> QED BY <1>1, <1>2, ManagerFacts
<1> QED BY <1>2, <1>3, OwnedFacts

\* add_bindings: after those of r, whose rbinds are there, the new ones are
\* where they belong.
LEMMA AddBindingsFacts ==
  ASSUME NEW a \in Subs, NEW r \in Subs \cup {NoOwner}, NEW w, IsList(w.rbinds),
         OwnedIn(w.rbinds) = OwnedBy(r), Ordered(w.rbinds, Owned(a)),
         NEW U, Owned(a) \subseteq U
  PROVE  Joins(w, add_bindings(w, a), Owned(a), a, U)
<1> DEFINE N == Len(Managers(a))
           f == CHOOSE g : ManagerLoop(g, w, a, N)
           X(n) == UNION {Own(Managers(a)[m]) : m \in 1 .. n}
           P == {n \in 0 .. N : Joins(w, f[n], X(n), a, U)}
<1>1. N \in Nat /\ N = Depth(a) /\ DOMAIN Managers(a) = 1 .. N
  BY ManagerFacts DEF Depth
<1>2. add_bindings(w, a) = f[N]
  BY DEF add_bindings, ManagerLoop
<1>3. ManagerLoop(f, w, a, N)
  BY <1>1, ManagerLoopEnds
<1> HIDE DEF f
<1>4. f[0] = w /\ \A n \in 1 .. N : f[n] = AddMaps(f[n - 1], Managers(a)[n])
  BY <1>1, <1>3, ManagerLoopTurns
<1>5. X(N) = Owned(a) /\ \A n \in 1 .. N : Own(Managers(a)[n]) \subseteq Owned(a)
  <2>1. \A n \in 1 .. N : Own(Managers(a)[n]) \subseteq Owned(a)
    BY <1>1, OwnedFacts
  <2>2. \A x \in Owned(a) : \E n \in 1 .. N : x \in Own(Managers(a)[n])
    BY <1>1, OwnedFacts
  <2> QED BY <2>1, <2>2
<1>6. 0 \in P
  <2>1. X(0) = {}
    OBVIOUS
  <2>2. Joins(w, w, {}, a, U)
    BY DEF Joins
  <2> HIDE DEF X
  <2>3. Joins(w, f[0], X(0), a, U)
    BY <1>4, <2>1, <2>2
  <2>4. 0 \in 0 .. N
    BY <1>1
  <2> QED BY <2>3, <2>4
<1>7. ASSUME NEW n \in 1 .. N, n - 1 \in P PROVE n \in P
  <2> DEFINE u == f[n - 1]
             o == Managers(a)[n]
  <2>1. Joins(w, u, X(n - 1), a, U)
    BY <1>7
  <2>2. o \in Subs /\ Depth(o) = n
    BY <1>1, ManagerFacts
  <2>3. X(n) = X(n - 1) \cup Own(o)
    <3>1. \A m \in 1 .. n : m = n \/ m \in 1 .. n - 1
      OBVIOUS
    <3>2. \A m \in 1 .. n - 1 : m \in 1 .. n
      BY <1>1
    <3>3. n \in 1 .. n
      OBVIOUS
    <3> QED BY <3>1, <3>2, <3>3
  <2>4. ASSUME ~(Own(o) \subseteq Range(u.rbinds)), NEW x \in Range(u.rbinds) \cap Owned(a)
        PROVE  Depth(x.owner) <= Depth(o)
    <3>1. Range(u.rbinds) = Range(w.rbinds) \cup X(n - 1)
      BY <2>1 DEF Joins
    <3>2. CASE x \in X(n - 1)
      <4>1. PICK m \in 1 .. n - 1 : x \in Own(Managers(a)[m])
        BY <3>2
      <4>2. m \in 1 .. N /\ m <= n
        BY <1>1
      <4>3. x.owner = Managers(a)[m]
        BY <4>1 DEF Own, Rbind
      <4>4. Depth(x.owner) = m
        <5>1. \A i \in 1 .. Depth(a) : Depth(Managers(a)[i]) = i
          BY ManagerFacts
        <5>2. m \in 1 .. Depth(a)
          BY <1>1, <4>2
        <5> HIDE DEF N
        <5> QED BY <4>3, <5>1, <5>2
      <4> QED BY <2>2, <4>2, <4>4
    <3>3. CASE x \in Range(w.rbinds)
      <4>1. Depth(x.owner) \in Nat /\ x.owner # NoOwner
        BY <2>4, OwnedFacts, ManagerFacts
      <4>2. x \in OwnedIn(w.rbinds)
        BY <3>3, <4>1 DEF OwnedIn
      <4>3. r \in Subs /\ x \in Owned(r)
        BY <4>2 DEF OwnedBy
      <4>4. ~(Own(o) \subseteq Owned(r))
        <5>1. Owned(r) \subseteq Range(w.rbinds)
          BY <4>3, BindingsAssumption DEF OwnedBy, OwnedIn
        <5> QED BY <2>4, <3>1, <5>1
      <4>5. ~(n <= Depth(x.owner))
        BY <1>1, <2>4, <4>3, <4>4, SharedManagers
      <4> QED BY <2>2, <4>1, <4>5
    <3> QED BY <2>4, <3>1, <3>2, <3>3
  <2>5. Own(o) \subseteq Owned(a)
    BY <1>5
  <2> HIDE DEF X
  <2>6. Joins(u, AddMaps(u, o), Own(o), a, U)
    <3>1. IsList(u.rbinds) /\ Ordered(u.rbinds, Owned(a))
      BY <2>1 DEF Joins
    <3> HIDE DEF u, o
    <3> QED BY <2>2, <2>4, <2>5, <3>1, AddMapsFacts
  <2>7. f[n] = AddMaps(u, o)
    BY <1>4
  <2> HIDE DEF u, o
  <2>8. Joins(w, f[n], X(n), a, U)
    BY <2>1, <2>3, <2>6, <2>7 DEF Joins
  <2>9. n \in 0 .. N
    BY <1>1
  <2> QED BY <2>8, <2>9
<1>8. N \in P
  <2> HIDE DEF P
  <2>1. \A n \in 0 .. N : n \in P
    <3> HIDE DEF N
    <3> QED BY <1>1, <1>6, <1>7, UpTo
  <2> QED BY <1>1, <2>1
<1> QED BY <1>2, <1>5, <1>8

-----------------------------------------------------------------------------
(* Rbinds are removed *)

\* v is w without the rbinds in X
Leaves(w, v, X, U) ==
  /\ IsList(v.rbinds) /\ Range(v.rbinds) = Range(w.rbinds) \ X
  /\ \A Y : Ordered(w.rbinds, Y) /\ (\A x \in Y : Depth(x.owner) \in Nat) => Ordered(v.rbinds, Y)
  /\ Fit(w, U) => Fit(v, U)

\* remove_rbind: the grabs are those of the maps that are left.
LEMMA RemoveRbindFacts ==
  ASSUME NEW w, IsList(w.rbinds), NEW x \in Range(w.rbinds), NEW U
  PROVE  Leaves(w, remove_rbind(w, x), {x}, U)
<1> DEFINE at == CHOOSE k \in DOMAIN w.rbinds : w.rbinds[k] = x
           g(k) == IF k < at THEN k ELSE k + 1
           t == [k \in 1 .. Len(w.rbinds) - 1 |-> w.rbinds[IF k < at THEN k ELSE k + 1]]
           v == remove_rbind(w, x)
<1>1. /\ v.rbinds = t
      /\ v.grabs = w.grabs \ Concerned(bindings, t, x.bm, bindings[x.bm])
  BY DEF remove_rbind
<1>2. at \in DOMAIN w.rbinds /\ w.rbinds[at] = x
  BY DEF Range
<1>3. w.rbinds \in Seq(Rbinds) /\ \A i, j \in DOMAIN w.rbinds : w.rbinds[i] = w.rbinds[j] => i = j
  BY DEF IsList
<1> HIDE DEF v, at
<1>4. /\ t \in Seq(Rbinds) /\ DOMAIN t = 1 .. Len(w.rbinds) - 1
      /\ \A k \in DOMAIN t : g(k) \in DOMAIN w.rbinds /\ t[k] = w.rbinds[g(k)]
      /\ \A j, k \in DOMAIN t : j < k => g(j) < g(k)
      /\ Range(t) = Range(w.rbinds) \ {x}
  BY <1>2, <1>3, WithoutFacts
<1> HIDE DEF t, g
<1>5. IsList(t)
  <2>1. ASSUME NEW i \in DOMAIN t, NEW j \in DOMAIN t, t[i] = t[j] PROVE i = j
    <3>1. g(i) = g(j)
      BY <1>3, <1>4, <2>1
    <3>2. g(i) \in Nat
      BY <1>3, <1>4
    <3>3. ~(i < j) /\ ~(j < i)
      BY <1>4, <3>1, <3>2
    <3>4. i \in Nat /\ j \in Nat
      BY <1>4
    <3> QED BY <3>3, <3>4
  <2> QED BY <1>4, <2>1 DEF IsList
<1>6. ASSUME NEW Y, Ordered(w.rbinds, Y) PROVE Ordered(t, Y)
  BY <1>4, <1>6 DEF Ordered
<1>7. ASSUME Fit(w, U) PROVE Fit(v, U)
  <2> DEFINE B == MapsIn(t)
             bm == x.bm
  <2>1. Plain(bindings) /\ w.grabs = Held(bindings, MapsIn(w.rbinds))
    BY <1>7 DEF Fit
  <2>2. bm \in Maps /\ \A b \in bindings[bm] : b.state \in Mods
    <3>1. x \in Rbinds
      BY <1>2, <1>3
    <3>2. bm \in Maps
      BY <3>1 DEF Rbinds
    <3> QED BY <2>1, <3>2 DEF Plain
  <2>3. bm \notin B
    BY <1>4, <1>7 DEF Fit, MapsIn
  <2>4. MapsIn(w.rbinds) = B \cup {bm}
    BY <1>4 DEF MapsIn
  <2> HIDE DEF bm
  <2>5. Concerned(bindings, t, bm, bindings[bm]) = KeysOf(bindings[bm]) \ HeldElse(bindings, B, bm)
    BY <1>4, <2>1, <2>2, ConcernedFacts
  <2> HIDE DEF B
  <2>6. Held(bindings, B \cup {bm}) = HeldElse(bindings, B, bm) \cup KeysOf(bindings[bm])
    BY HeldWith
  <2>7. HeldElse(bindings, B, bm) = Held(bindings, B)
    <3>1. B \ {bm} = B
      BY <2>3
    <3> QED BY <3>1 DEF HeldElse
  <2>8. v.grabs = Held(bindings, B)
    BY <1>1, <2>1, <2>4, <2>5, <2>6, <2>7 DEF bm
  <2> QED BY <1>1, <1>4, <1>7, <2>8 DEF Fit, B
<1> QED BY <1>1, <1>4, <1>5, <1>6, <1>7 DEF Leaves, v

\* The loop over the rbinds of v
Removed1(u, x) == IF x.owner # NoOwner /\ x \notin Stay THEN remove_rbind(u, x) ELSE u

RemoveLoop(f, v, N) ==
  f = [n \in 0 .. N |-> IF n = 0 THEN v ELSE Removed1(f[n - 1], v.rbinds[n])]

\* What each turn of that loop does.
LEMMA RemoveLoopTurns ==
  ASSUME NEW f, NEW v, NEW N \in Nat, RemoveLoop(f, v, N)
  PROVE  f[0] = v /\ \A n \in 1 .. N : f[n] = Removed1(f[n - 1], v.rbinds[n])
<1>1. \A n \in 0 .. N : f[n] = IF n = 0 THEN v ELSE Removed1(f[n - 1], v.rbinds[n])
  BY DEF RemoveLoop
<1>2. 0 \in 0 .. N /\ \A n \in 1 .. N : n \in 0 .. N /\ n # 0
  OBVIOUS
<1> QED BY <1>1, <1>2

\* The loop of the function exists for any number of turns.
LEMMA RemoveLoopEnds ==
  ASSUME NEW v, NEW N \in Nat
  PROVE  \E f : RemoveLoop(f, v, N)
<1> DEFINE P == {n \in Nat : \E f : RemoveLoop(f, v, n)}
<1>1. 0 \in P
  <2>1. RemoveLoop([n \in 0 .. 0 |-> v], v, 0)
    BY DEF RemoveLoop
  <2> QED BY <2>1
<1>2. ASSUME NEW n \in 1 .. N, n - 1 \in P PROVE n \in P
  <2>1. PICK f : RemoveLoop(f, v, n - 1)
    BY <1>2
  <2>2. n - 1 \in Nat /\ n \in Nat /\ n # 0
    OBVIOUS
  <2>3. f[0] = v /\ \A k \in 1 .. n - 1 : f[k] = Removed1(f[k - 1], v.rbinds[k])
    BY <2>1, <2>2, RemoveLoopTurns
  <2> DEFINE new == Removed1(f[n - 1], v.rbinds[n])
             g == [k \in 0 .. n |-> IF k = n THEN new ELSE f[k]]
  <2> HIDE DEF new
  <2>4. ASSUME NEW k \in 0 .. n
        PROVE  g[k] = IF k = 0 THEN v ELSE Removed1(g[k - 1], v.rbinds[k])
    <3>1. CASE k = 0
      BY <2>2, <2>3, <3>1
    <3>2. CASE k = n
      <4>1. g[k] = new /\ g[k - 1] = f[n - 1] /\ k # 0
        BY <2>2, <3>2
      <4> QED BY <3>2, <4>1 DEF new
    <3>3. CASE k # 0 /\ k # n
      <4>1. k \in 1 .. n - 1 /\ g[k] = f[k] /\ g[k - 1] = f[k - 1]
        BY <2>2, <3>3
      <4> QED BY <2>3, <3>3, <4>1
    <3> QED BY <3>1, <3>2, <3>3
  <2>5. g = [k \in 0 .. n |-> g[k]]
    OBVIOUS
  <2> HIDE DEF g
  <2>6. RemoveLoop(g, v, n)
    BY <2>4, <2>5 DEF RemoveLoop
  <2> QED BY <2>2, <2>6
<1>3. N \in P
  <2> HIDE DEF P
  <2>1. \A n \in 0 .. N : n \in P
    BY <1>1, <1>2, UpTo
  <2> QED BY <2>1
<1> QED BY <1>3

\* region_do_update_owned_grabs: the rbinds that are not marked go.
LEMMA RemoveStale ==
  ASSUME NEW v, IsList(v.rbinds), NEW f, RemoveLoop(f, v, Len(v.rbinds)), NEW U
  PROVE  Leaves(v, f[Len(v.rbinds)], OwnedIn(v.rbinds) \ Stay, U)
<1> DEFINE N == Len(v.rbinds)
           stale(x) == x.owner # NoOwner /\ x \notin Stay
           X(n) == {x \in {v.rbinds[m] : m \in 1 .. n} : stale(x)}
           P == {n \in 0 .. N : Leaves(v, f[n], X(n), U)}
<1>1. N \in Nat /\ DOMAIN v.rbinds = 1 .. N
  BY DEF IsList
<1>2. f[0] = v /\ \A n \in 1 .. N : f[n] = Removed1(f[n - 1], v.rbinds[n])
  BY <1>1, RemoveLoopTurns
<1>3. X(N) = OwnedIn(v.rbinds) \ Stay
  BY <1>1 DEF OwnedIn, Range
<1>4. 0 \in P
  <2>1. X(0) = {}
    OBVIOUS
  <2> HIDE DEF X
  <2>2. Leaves(v, f[0], X(0), U)
    BY <1>2, <2>1 DEF Leaves
  <2>3. 0 \in 0 .. N
    BY <1>1
  <2> QED BY <2>2, <2>3
<1>5. ASSUME NEW n \in 1 .. N, n - 1 \in P PROVE n \in P
  <2> DEFINE u == f[n - 1]
             x == v.rbinds[n]
  <2>1. Leaves(v, u, X(n - 1), U)
    BY <1>5
  <2>2. \A m \in 1 .. n : m = n \/ m \in 1 .. n - 1
    OBVIOUS
  <2>3. \A m \in 1 .. n - 1 : m \in 1 .. n /\ m \in 1 .. N /\ m # n
    BY <1>1
  <2>4. n \in 1 .. n
    OBVIOUS
  <2>5. x \in Range(v.rbinds) /\ x \notin X(n - 1)
    <3>1. x \in Range(v.rbinds)
      BY <1>1 DEF Range
    <3>2. \A m \in 1 .. n - 1 : v.rbinds[m] # x
      BY <1>1, <2>3 DEF IsList
    <3> QED BY <3>1, <3>2
  <2>6. n \in 0 .. N /\ f[n] = Removed1(u, x)
    BY <1>1, <1>2
  <2>7. CASE stale(x)
    <3>1. X(n) = X(n - 1) \cup {x}
      BY <2>2, <2>3, <2>4, <2>7
    <3> HIDE DEF X
    <3>2. f[n] = remove_rbind(u, x)
      BY <2>6, <2>7 DEF Removed1
    <3> HIDE DEF u, x
    <3>3. IsList(u.rbinds) /\ x \in Range(u.rbinds)
      BY <2>1, <2>5 DEF Leaves
    <3>4. Leaves(u, f[n], {x}, U)
      BY <3>2, <3>3, RemoveRbindFacts
    <3>5. Leaves(v, f[n], X(n), U)
      BY <2>1, <3>1, <3>4 DEF Leaves
    <3> QED BY <2>6, <3>5
  <2>8. CASE ~stale(x)
    <3>1. X(n) = X(n - 1)
      BY <2>2, <2>3, <2>4, <2>8
    <3> HIDE DEF X
    <3>2. f[n] = u
      BY <2>6, <2>8 DEF Removed1
    <3> QED BY <2>1, <2>6, <3>1, <3>2
  <2> QED BY <2>7, <2>8
<1>6. N \in P
  <2> HIDE DEF P
  <2>1. \A n \in 0 .. N : n \in P
    <3> HIDE DEF N
    <3> QED BY <1>1, <1>4, <1>5, UpTo
  <2> QED BY <1>1, <2>1
<1> QED BY <1>3, <1>6

\* The update leaves the rbinds of the active region, and those of no other.
LEMMA UpdateFacts ==
  ASSUME active_sub \in Subs \cup {NoOwner}, NEW w, IsList(w.rbinds),
         NEW r \in Subs \cup {NoOwner}, OwnedIn(w.rbinds) = OwnedBy(r), Ordered(w.rbinds, OwnedIn(w.rbinds)),
         NEW U, OwnedBy(active_sub) \subseteq U
  PROVE  LET v == UpdateOwned(w)
         IN /\ IsList(v.rbinds) /\ Ordered(v.rbinds, OwnedIn(v.rbinds))
            /\ OwnedIn(v.rbinds) = OwnedBy(active_sub)
            /\ \A x \in Range(v.rbinds) : x.owner = NoOwner => x \in Range(w.rbinds)
            /\ Fit(w, U) => Fit(v, U)
<1> DEFINE u == IF active_sub = NoOwner THEN w ELSE add_bindings(w, active_sub)
           N == Len(u.rbinds)
           f == CHOOSE g : RemoveLoop(g, u, N)
           v == UpdateOwned(w)
           A == OwnedBy(active_sub)
<1>1. Stay = A
  BY DEF Stay, OwnedBy
<1>2. v = f[N]
  BY DEF UpdateOwned, RemoveLoop, Removed1
<1> HIDE DEF v
<1>3. /\ \A x \in OwnedBy(r) : x.owner # NoOwner /\ Depth(x.owner) \in Nat
      /\ \A x \in A : x.owner # NoOwner /\ Depth(x.owner) \in Nat
  BY OwnedFacts, ManagerFacts DEF OwnedBy
<1>4. Ordered(w.rbinds, A)
  <2>1. \A x \in Range(w.rbinds) \cap A : x \in OwnedIn(w.rbinds)
    BY <1>3 DEF OwnedIn
  <2>2. \A i \in DOMAIN w.rbinds : w.rbinds[i] \in A => w.rbinds[i] \in OwnedIn(w.rbinds)
    BY <2>1 DEF Range
  <2> HIDE DEF A
  <2> QED BY <2>2 DEF Ordered
<1>5. /\ IsList(u.rbinds) /\ Range(u.rbinds) = Range(w.rbinds) \cup A
      /\ Ordered(u.rbinds, A) /\ (Fit(w, U) => Fit(u, U))
  <2>1. CASE active_sub = NoOwner
    <3>1. u = w /\ A = {}
      BY <2>1 DEF OwnedBy
    <3> QED BY <1>4, <3>1
  <2>2. CASE active_sub # NoOwner
    <3>1. u = add_bindings(w, active_sub) /\ A = Owned(active_sub) /\ active_sub \in Subs
      BY <2>2 DEF OwnedBy
    <3> HIDE DEF u, A
    <3>2. Joins(w, u, Owned(active_sub), active_sub, U)
      BY <1>4, <3>1, AddBindingsFacts DEF A
    <3> QED BY <3>1, <3>2 DEF Joins
  <2> QED BY <2>1, <2>2
<1> HIDE DEF u
<1>6. Leaves(u, v, OwnedIn(u.rbinds) \ A, U)
  <2>1. N \in Nat
    BY <1>5 DEF IsList
  <2>2. RemoveLoop(f, u, N)
    BY <2>1, RemoveLoopEnds
  <2> HIDE DEF f, A
  <2> QED BY <1>1, <1>2, <1>5, <2>2, RemoveStale
<1>7. /\ IsList(v.rbinds) /\ Range(v.rbinds) = Range(u.rbinds) \ (OwnedIn(u.rbinds) \ A)
      /\ Ordered(v.rbinds, A) /\ (Fit(u, U) => Fit(v, U))
  <2> HIDE DEF A
  <2> QED BY <1>3, <1>5, <1>6 DEF Leaves
<1>8. OwnedIn(v.rbinds) = A /\ \A x \in Range(v.rbinds) : x.owner = NoOwner => x \in Range(w.rbinds)
  <2> HIDE DEF A
  <2> QED BY <1>3, <1>5, <1>7 DEF OwnedIn
<1> HIDE DEF A
<1>9. Ordered(v.rbinds, OwnedIn(v.rbinds)) /\ OwnedIn(v.rbinds) = OwnedBy(active_sub)
  BY <1>7, <1>8 DEF A
<1>10. Fit(w, U) => Fit(v, U)
  BY <1>5, <1>7
<1> QED BY <1>7, <1>8, <1>9, <1>10 DEF v

-----------------------------------------------------------------------------
(* The bindings of a map are changed *)

\* rbind_binding_added and _removed, for all of a map's rbinds.
PlainSet(bs) == \A b \in bs : b.state \in Mods

\* rbind_binding_added and _removed: the keys that no other map of the window has.
LEMMA AddedFacts ==
  ASSUME NEW maps, Plain(maps), NEW rs \in Seq(Rbinds), NEW bm, NEW bs, PlainSet(bs),
         NEW g
  PROVE  /\ bm \in MapsIn(rs) =>
              /\ Added(g, maps, rs, bm, bs) = g \cup (KeysOf(bs) \ HeldElse(maps, MapsIn(rs), bm))
              /\ Removed(g, maps, rs, bm, bs) = g \ (KeysOf(bs) \ HeldElse(maps, MapsIn(rs), bm))
         /\ bm \notin MapsIn(rs) => Added(g, maps, rs, bm, bs) = g /\ Removed(g, maps, rs, bm, bs) = g
<1>1. Listed(rs, bm) <=> bm \in MapsIn(rs)
  BY DEF Listed, MapsIn, Range
<1>2. Concerned(maps, rs, bm, bs) = KeysOf(bs) \ HeldElse(maps, MapsIn(rs), bm)
  BY ConcernedFacts DEF PlainSet
<1> QED BY <1>1, <1>2 DEF Added, Removed

\* What is held for maps of which only bm is another.
SameElse(maps, new, bm) == \A m \in Maps : m # bm => new[m] = maps[m]

\* The other maps hold what they held.
LEMMA HeldChanged ==
  ASSUME NEW maps, NEW new, NEW B \in SUBSET Maps, NEW bm, SameElse(maps, new, bm)
  PROVE  HeldElse(new, B, bm) = HeldElse(maps, B, bm)
<1>1. {new[m] : m \in B \ {bm}} = {maps[m] : m \in B \ {bm}}
  BY DEF SameElse
<1> QED BY <1>1 DEF HeldElse, Held

\* What the maps in B hold, with and without bm.
LEMMA HeldSplit ==
  ASSUME NEW maps, NEW B, NEW bm
  PROVE  /\ bm \notin B => Held(maps, B) = HeldElse(maps, B, bm)
         /\ bm \in B => Held(maps, B) = HeldElse(maps, B, bm) \cup KeysOf(maps[bm])
<1>1. ASSUME bm \notin B PROVE Held(maps, B) = HeldElse(maps, B, bm)
  <2>1. B \ {bm} = B
    BY <1>1
  <2> QED BY <2>1 DEF HeldElse
<1>2. ASSUME bm \in B PROVE Held(maps, B) = HeldElse(maps, B, bm) \cup KeysOf(maps[bm])
  <2>1. B \cup {bm} = B
    BY <1>2
  <2>2. Held(maps, B \cup {bm}) = HeldElse(maps, B, bm) \cup KeysOf(maps[bm])
    BY HeldWith
  <2> QED BY <2>1, <2>2
<1> QED BY <1>1, <1>2

\* The maps of a list of rbinds are maps.
LEMMA MapsOfList ==
  ASSUME NEW rs \in Seq(Rbinds)
  PROVE  MapsIn(rs) \in SUBSET Maps
<1>1. \A k \in DOMAIN rs : rs[k] \in Rbinds
  OBVIOUS
<1> QED BY <1>1 DEF MapsIn, Range, Rbinds

\* The keyboard
Codes == [Keysyms -> Keycodes \cup {0}]

\* bindmap_refresh: the grabs are those of the maps again, whatever codes the
\* other maps have.
LEMMA RefreshFacts ==
  ASSUME NEW x, Plain(x.bindings), rbinds \in Seq(Rbinds), NEW bm \in Maps, NEW codes \in Codes,
         x.grabs = Held(x.bindings, MapsIn(rbinds))
  PROVE  LET y == bindmap_refresh(x, bm, codes)
         IN /\ Plain(y.bindings) /\ y.grabs = Held(y.bindings, MapsIn(rbinds))
            /\ \A b \in y.bindings[bm] : b.kcb = codes[b.ksb]
            /\ \A m \in Maps : m # bm => y.bindings[m] = x.bindings[m]
<1> DEFINE from == x.bindings
           rs == rbinds
           old == from[bm]
           fresh == {[b EXCEPT !.kcb = codes[b.ksb]] : b \in from[bm]}
           to == [from EXCEPT ![bm] = fresh]
           y == bindmap_refresh(x, bm, codes)
           L == MapsIn(rs)
           Rest == HeldElse(from, L, bm)
           gone == Removed(x.grabs, from, rs, bm, old)
<1>1. y.bindings = to /\ y.grabs = Added(gone, to, rs, bm, fresh)
  BY DEF bindmap_refresh
<1>2. x.grabs = Held(from, L) /\ Plain(from) /\ rs \in Seq(Rbinds)
  OBVIOUS
<1> HIDE DEF y, from, rs
<1>3. /\ from \in [Maps -> SUBSET [ksb : Keysyms, kcb : Keycodes \cup {0}, state : Mods]]
      /\ \A b \in old : b \in [ksb : Keysyms, kcb : Keycodes \cup {0}, state : Mods]
  BY <1>2 DEF Plain
<1>4. ASSUME NEW d \in fresh
      PROVE  d \in [ksb : Keysyms, kcb : Keycodes \cup {0}, state : Mods] /\ d.kcb = codes[d.ksb]
  <2>1. PICK b \in old : d = [b EXCEPT !.kcb = codes[b.ksb]]
    OBVIOUS
  <2>2. b \in [ksb : Keysyms, kcb : Keycodes \cup {0}, state : Mods] /\ codes[b.ksb] \in Keycodes \cup {0}
    BY <1>3 DEF Codes
  <2> QED BY <2>1, <2>2
<1> HIDE DEF fresh
<1>5. /\ Plain(to) /\ to[bm] = fresh
      /\ \A m \in Maps : m # bm => to[m] = from[m]
  BY <1>3, <1>4 DEF Plain
<1> HIDE DEF to
<1>6. PlainSet(old) /\ PlainSet(fresh)
  BY <1>3, <1>4 DEF PlainSet
<1>7. L \in SUBSET Maps
  BY <1>2, MapsOfList
<1>8. /\ HeldElse(to, L, bm) = Rest
      /\ bm \notin L => Held(to, L) = Held(from, L)
      /\ bm \in L => Held(from, L) = Rest \cup KeysOf(old) /\ Held(to, L) = Rest \cup KeysOf(fresh)
  <2> DEFINE B == L
  <2>1. B \in SUBSET Maps /\ SameElse(from, to, bm)
    BY <1>5, <1>7 DEF SameElse
  <2> HIDE DEF L, B
  <2>2. HeldElse(to, B, bm) = HeldElse(from, B, bm)
    BY <2>1, HeldChanged
  <2>3. /\ bm \notin B => Held(to, B) = HeldElse(to, B, bm)
        /\ bm \in B => Held(to, B) = HeldElse(to, B, bm) \cup KeysOf(to[bm])
    BY HeldSplit
  <2>4. /\ bm \notin B => Held(from, B) = HeldElse(from, B, bm)
        /\ bm \in B => Held(from, B) = HeldElse(from, B, bm) \cup KeysOf(from[bm])
    BY HeldSplit
  <2> QED BY <1>5, <2>2, <2>3, <2>4 DEF B
<1> HIDE DEF old
<1>9. gone = IF bm \in L THEN x.grabs \ (KeysOf(old) \ Rest) ELSE x.grabs
  <2> DEFINE held == x.grabs
  <2> HIDE DEF held
  <2>1. /\ bm \in MapsIn(rs) => Removed(held, from, rs, bm, old)
               = held \ (KeysOf(old) \ HeldElse(from, MapsIn(rs), bm))
        /\ bm \notin MapsIn(rs) => Removed(held, from, rs, bm, old) = held
    BY <1>2, <1>6, AddedFacts
  <2> QED BY <2>1 DEF held
<1> HIDE DEF gone
<1>10. Added(gone, to, rs, bm, fresh) = IF bm \in L THEN gone \cup (KeysOf(fresh) \ HeldElse(to, L, bm)) ELSE gone
  <2>1. /\ bm \in MapsIn(rs) => Added(gone, to, rs, bm, fresh)
               = gone \cup (KeysOf(fresh) \ HeldElse(to, MapsIn(rs), bm))
        /\ bm \notin MapsIn(rs) => Added(gone, to, rs, bm, fresh) = gone
    BY <1>2, <1>5, <1>6, AddedFacts
  <2> QED BY <2>1
<1>11. y.grabs = Held(to, L)
  <2> HIDE DEF L, Rest
  <2>1. CASE bm \in L
    <3>1. gone = (Rest \cup KeysOf(old)) \ (KeysOf(old) \ Rest)
      BY <1>2, <1>8, <1>9, <2>1
    <3>2. gone = Rest
      BY <3>1
    <3>3. y.grabs = Rest \cup (KeysOf(fresh) \ Rest)
      BY <1>1, <1>8, <1>10, <2>1, <3>2
    <3> QED BY <1>8, <2>1, <3>3
  <2>2. CASE bm \notin L
    BY <1>1, <1>2, <1>8, <1>9, <1>10, <2>2
  <2> QED BY <2>1, <2>2
<1> QED BY <1>1, <1>4, <1>5, <1>11 DEF y, from, rs

\* The loop over all maps
RefreshLoop(f, x, codes, N) ==
  f = [n \in 0 .. N |-> IF n = 0 THEN x ELSE bindmap_refresh(f[n - 1], Bindmaps[n], codes)]

\* What each turn of that loop does.
LEMMA RefreshLoopTurns ==
  ASSUME NEW f, NEW x, NEW codes, NEW N \in Nat, RefreshLoop(f, x, codes, N)
  PROVE  f[0] = x /\ \A n \in 1 .. N : f[n] = bindmap_refresh(f[n - 1], Bindmaps[n], codes)
<1>1. \A n \in 0 .. N : f[n] = IF n = 0 THEN x ELSE bindmap_refresh(f[n - 1], Bindmaps[n], codes)
  BY DEF RefreshLoop
<1>2. 0 \in 0 .. N /\ \A n \in 1 .. N : n \in 0 .. N /\ n # 0
  OBVIOUS
<1> QED BY <1>1, <1>2

\* The loop of the function exists for any number of turns.
LEMMA RefreshLoopEnds ==
  ASSUME NEW x, NEW codes, NEW N \in Nat
  PROVE  \E f : RefreshLoop(f, x, codes, N)
<1> DEFINE P == {n \in Nat : \E f : RefreshLoop(f, x, codes, n)}
<1>1. 0 \in P
  <2>1. RefreshLoop([n \in 0 .. 0 |-> x], x, codes, 0)
    BY DEF RefreshLoop
  <2> QED BY <2>1
<1>2. ASSUME NEW n \in 1 .. N, n - 1 \in P PROVE n \in P
  <2>1. PICK f : RefreshLoop(f, x, codes, n - 1)
    BY <1>2
  <2>2. n - 1 \in Nat /\ n \in Nat /\ n # 0
    OBVIOUS
  <2>3. f[0] = x /\ \A k \in 1 .. n - 1 : f[k] = bindmap_refresh(f[k - 1], Bindmaps[k], codes)
    BY <2>1, <2>2, RefreshLoopTurns
  <2> DEFINE new == bindmap_refresh(f[n - 1], Bindmaps[n], codes)
             g == [k \in 0 .. n |-> IF k = n THEN new ELSE f[k]]
  <2> HIDE DEF new
  <2>4. ASSUME NEW k \in 0 .. n
        PROVE  g[k] = IF k = 0 THEN x ELSE bindmap_refresh(g[k - 1], Bindmaps[k], codes)
    <3>1. CASE k = 0
      BY <2>2, <2>3, <3>1
    <3>2. CASE k = n
      <4>1. g[k] = new /\ g[k - 1] = f[n - 1] /\ k # 0
        BY <2>2, <3>2
      <4> QED BY <3>2, <4>1 DEF new
    <3>3. CASE k # 0 /\ k # n
      <4>1. k \in 1 .. n - 1 /\ g[k] = f[k] /\ g[k - 1] = f[k - 1]
        BY <2>2, <3>3
      <4> QED BY <2>3, <3>3, <4>1
    <3> QED BY <3>1, <3>2, <3>3
  <2>5. g = [k \in 0 .. n |-> g[k]]
    OBVIOUS
  <2> HIDE DEF g
  <2>6. RefreshLoop(g, x, codes, n)
    BY <2>4, <2>5 DEF RefreshLoop
  <2> QED BY <2>2, <2>6
<1>3. N \in P
  <2> HIDE DEF P
  <2>1. \A n \in 0 .. N : n \in P
    BY <1>1, <1>2, UpTo
  <2> QED BY <2>1
<1> QED BY <1>3

\* ioncore_refresh_bindmaps: all bindings have the new keycodes, and are grabbed
\* by them.
LEMMA RefreshAllFacts ==
  ASSUME NEW x, Plain(x.bindings), rbinds \in Seq(Rbinds), NEW codes \in Codes,
         x.grabs = Held(x.bindings, MapsIn(rbinds))
  PROVE  LET y == RefreshAll(x, codes)
         IN /\ Plain(y.bindings) /\ y.grabs = Held(y.bindings, MapsIn(rbinds))
            /\ \A m \in Maps : \A b \in y.bindings[m] : b.kcb = codes[b.ksb]
<1> DEFINE N == Len(Bindmaps)
           f == CHOOSE g : RefreshLoop(g, x, codes, N)
           Done(y, n) ==
             /\ Plain(y.bindings) /\ y.grabs = Held(y.bindings, MapsIn(rbinds))
             /\ \A i \in 1 .. n : \A b \in y.bindings[Bindmaps[i]] : b.kcb = codes[b.ksb]
           P == {n \in 0 .. N : Done(f[n], n)}
<1>1. /\ N \in Nat /\ DOMAIN Bindmaps = 1 .. N
      /\ Maps = {Bindmaps[i] : i \in 1 .. N}
  BY BindingsAssumption DEF Maps, Range
<1>2. RefreshAll(x, codes) = f[N]
  BY DEF RefreshAll, RefreshLoop
<1>3. RefreshLoop(f, x, codes, N)
  BY <1>1, RefreshLoopEnds
<1> HIDE DEF f
<1>4. f[0] = x /\ \A n \in 1 .. N : f[n] = bindmap_refresh(f[n - 1], Bindmaps[n], codes)
  BY <1>1, <1>3, RefreshLoopTurns
<1>5. 0 \in P
  <2>1. 0 \in 0 .. N
    BY <1>1
  <2>2. Done(f[0], 0)
    BY <1>4
  <2> QED BY <2>1, <2>2
<1>6. ASSUME NEW n \in 1 .. N, n - 1 \in P PROVE n \in P
  <2> DEFINE u == f[n - 1]
             bm == Bindmaps[n]
             y == bindmap_refresh(u, bm, codes)
  <2>1. Done(u, n - 1)
    BY <1>6
  <2>2. f[n] = y /\ bm \in Maps /\ n \in 0 .. N
    BY <1>1, <1>4
  <2> HIDE DEF u, bm
  <2>3. /\ Plain(y.bindings) /\ y.grabs = Held(y.bindings, MapsIn(rbinds))
        /\ \A b \in y.bindings[bm] : b.kcb = codes[b.ksb]
        /\ \A m \in Maps : m # bm => y.bindings[m] = u.bindings[m]
    BY <2>1, <2>2, RefreshFacts
  <2> HIDE DEF y
  <2>4. ASSUME NEW i \in 1 .. n, NEW b \in y.bindings[Bindmaps[i]] PROVE b.kcb = codes[b.ksb]
    <3>1. CASE Bindmaps[i] = bm
      BY <2>3, <3>1
    <3>2. CASE Bindmaps[i] # bm
      <4>1. i \in 1 .. n - 1 /\ i \in 1 .. N
        BY <1>1, <3>2 DEF bm
      <4>2. Bindmaps[i] \in Maps
        BY <1>1, <4>1
      <4>3. b \in u.bindings[Bindmaps[i]]
        BY <2>3, <3>2, <4>2
      <4> QED BY <2>1, <4>1, <4>3
    <3> QED BY <3>1, <3>2
  <2> QED BY <2>2, <2>3, <2>4
<1>7. N \in P
  <2> HIDE DEF P
  <2>1. \A n \in 0 .. N : n \in P
    <3> HIDE DEF N
    <3> QED BY <1>1, <1>5, <1>6, UpTo
  <2> QED BY <1>1, <2>1
<1>8. Done(f[N], N)
  BY <1>7
<1> QED BY <1>1, <1>2, <1>8

-----------------------------------------------------------------------------
(* The rbinds follow the active region *)

\* They are of the region r that was active at the last update; until the next
\* one, r may have lost the focus, or a region may have it when none had
Last(r) ==
  /\ OwnedIn(rbinds) = OwnedBy(r) /\ (~scheduled => r = active_sub)
  /\ "direct" \notin BindCalls => (r = active_sub \/ r = NoOwner \/ active_sub = NoOwner)

OwnersInv ==
  /\ IsList(rbinds) /\ Ordered(rbinds, OwnedIn(rbinds))
  /\ active_sub \in Subs \cup {NoOwner} /\ scheduled \in BOOLEAN
  /\ \A x \in Range(rbinds) : x.owner = NoOwner => x.bm \in OwnMaps
  /\ \E r \in Subs \cup {NoOwner} : Last(r)

\* A new window has no rbinds.
LEMMA OwnersInit == BindingsInit => OwnersInv
<1> SUFFICES ASSUME BindingsInit PROVE OwnersInv
  OBVIOUS
<1>1. rbinds = <<>> /\ active_sub = NoOwner /\ scheduled = FALSE
  BY DEF BindingsInit
<1>2. DOMAIN rbinds = {} /\ rbinds \in Seq(Rbinds)
  BY <1>1
<1>3. OwnedIn(rbinds) = {} /\ Range(rbinds) = {}
  BY <1>2 DEF OwnedIn, Range
<1>4. Last(NoOwner)
  BY <1>1, <1>3 DEF Last, OwnedBy
<1> QED BY <1>1, <1>2, <1>3, <1>4 DEF OwnersInv, IsList, Ordered

\* A map of the window itself comes or goes.
LEMMA OwnAdded ==
  ASSUME OwnersInv, NEW bm \in OwnMaps, Rbind(bm, NoOwner) \notin Range(rbinds), NEW U
  PROVE  LET v == AddOwned(Window, bm, NoOwner)
         IN /\ IsList(v.rbinds) /\ Ordered(v.rbinds, OwnedIn(v.rbinds))
            /\ OwnedIn(v.rbinds) = OwnedIn(rbinds)
            /\ Range(v.rbinds) = Range(rbinds) \cup {Rbind(bm, NoOwner)}
            /\ Fit(Window, U) /\ Rbind(bm, NoOwner) \in U => Fit(v, U)
<1> DEFINE w == Window
           rb == Rbind(bm, NoOwner)
           v == AddOwned(w, bm, NoOwner)
<1>1. w.rbinds = rbinds
  BY DEF Window
<1>2. rb \in Rbinds /\ rb.owner = NoOwner
  BY BindingsAssumption DEF Rbind, Rbinds, Maps
<1> HIDE DEF w
<1>3. IsList(w.rbinds) /\ rb \notin Range(w.rbinds)
  BY <1>1 DEF OwnersInv
<1>4. /\ IsList(v.rbinds) /\ Range(v.rbinds) = Range(w.rbinds) \cup {rb}
      /\ v.rbinds[1] = rb
      /\ \A i \in DOMAIN v.rbinds : i # 1 => i - 1 \in DOMAIN w.rbinds /\ v.rbinds[i] = w.rbinds[i - 1]
      /\ Fit(w, U) /\ rb \in U => Fit(v, U)
  BY <1>2, <1>3, AddOwnedFacts
<1> HIDE DEF v, rb
<1>5. OwnedIn(v.rbinds) = OwnedIn(rbinds)
  BY <1>1, <1>2, <1>4 DEF OwnedIn
<1>6. Ordered(v.rbinds, OwnedIn(v.rbinds))
  <2>1. SUFFICES ASSUME NEW i \in DOMAIN v.rbinds, NEW j \in DOMAIN v.rbinds, i < j,
                        v.rbinds[i] \in OwnedIn(v.rbinds), v.rbinds[j] \in OwnedIn(v.rbinds)
                 PROVE  Depth(v.rbinds[i].owner) >= Depth(v.rbinds[j].owner)
    BY DEF Ordered
  <2>2. i # 1 /\ j # 1
    BY <1>2, <1>4, <2>1 DEF OwnedIn
  <2>3. i \in Nat /\ j \in Nat
    BY <1>4 DEF IsList
  <2>4. /\ i - 1 \in DOMAIN rbinds /\ v.rbinds[i] = rbinds[i - 1]
        /\ j - 1 \in DOMAIN rbinds /\ v.rbinds[j] = rbinds[j - 1]
    BY <1>1, <1>4, <2>2
  <2>5. i - 1 < j - 1
    BY <2>1, <2>3
  <2>6. Ordered(rbinds, OwnedIn(rbinds))
    BY DEF OwnersInv
  <2> QED BY <1>5, <2>1, <2>4, <2>5, <2>6 DEF Ordered
<1> QED BY <1>1, <1>4, <1>5, <1>6 DEF w, v, rb

\* ... and goes.
LEMMA OwnRemoved ==
  ASSUME OwnersInv, NEW bm \in OwnMaps, Rbind(bm, NoOwner) \in Range(rbinds), NEW U
  PROVE  LET v == remove_rbind(Window, Rbind(bm, NoOwner))
         IN /\ IsList(v.rbinds) /\ Ordered(v.rbinds, OwnedIn(v.rbinds))
            /\ OwnedIn(v.rbinds) = OwnedIn(rbinds)
            /\ Range(v.rbinds) \subseteq Range(rbinds)
            /\ Fit(Window, U) => Fit(v, U)
<1> DEFINE w == Window
           rb == Rbind(bm, NoOwner)
           v == remove_rbind(w, rb)
<1>1. w.rbinds = rbinds
  BY DEF Window
<1>2. rb.owner = NoOwner
  BY DEF Rbind
<1> HIDE DEF w, rb
<1>3. IsList(w.rbinds) /\ rb \in Range(w.rbinds)
  BY <1>1 DEF OwnersInv, rb
<1>4. Leaves(w, v, {rb}, U)
  BY <1>3, RemoveRbindFacts
<1> HIDE DEF v
<1>5. OwnedIn(v.rbinds) = OwnedIn(rbinds)
  BY <1>1, <1>2, <1>4 DEF OwnedIn, Leaves
<1>6. \A x \in OwnedIn(rbinds) : Depth(x.owner) \in Nat
  <2>1. PICK r \in Subs \cup {NoOwner} : OwnedIn(rbinds) = OwnedBy(r)
    BY DEF OwnersInv, Last
  <2> QED BY <2>1, OwnedFacts, ManagerFacts DEF OwnedBy
<1>7. Ordered(v.rbinds, OwnedIn(v.rbinds))
  <2>1. Ordered(w.rbinds, OwnedIn(rbinds))
    BY <1>1 DEF OwnersInv
  <2> QED BY <1>4, <1>5, <1>6, <2>1 DEF Leaves
<1> QED BY <1>1, <1>4, <1>5, <1>7 DEF w, v, rb, Leaves

\* Every step keeps OwnersInv.
LEMMA OwnersStep == OwnersInv /\ [BindingsNext]_binding => OwnersInv'
<1> SUFFICES ASSUME OwnersInv, [BindingsNext]_binding PROVE OwnersInv'
  OBVIOUS
<1> USE DEF OwnersInv
<1>1. PICK r \in Subs \cup {NoOwner} : Last(r)
  OBVIOUS
<1>2. CASE region_add_bindmap
  <2>1. PICK bm \in OwnMaps : Rbind(bm, NoOwner) \notin Range(rbinds)
                              /\ SetWindow(AddOwned(Window, bm, NoOwner))
    BY <1>2 DEF region_add_bindmap
  <2> DEFINE v == AddOwned(Window, bm, NoOwner)
  <2>2. /\ IsList(v.rbinds) /\ Ordered(v.rbinds, OwnedIn(v.rbinds))
        /\ OwnedIn(v.rbinds) = OwnedIn(rbinds)
        /\ Range(v.rbinds) = Range(rbinds) \cup {Rbind(bm, NoOwner)}
    BY <2>1, OwnAdded
  <2> HIDE DEF v
  <2>3. rbinds' = v.rbinds /\ UNCHANGED <<active_sub, scheduled>>
    BY <1>2, <2>1 DEF region_add_bindmap, SetWindow, v
  <2>4. Last(r)'
    BY <1>1, <2>2, <2>3 DEF Last
  <2> QED BY <2>2, <2>3, <2>4 DEF Rbind
<1>3. CASE region_remove_bindmap
  <2>1. PICK bm \in OwnMaps : Rbind(bm, NoOwner) \in Range(rbinds)
                              /\ SetWindow(remove_rbind(Window, Rbind(bm, NoOwner)))
    BY <1>3 DEF region_remove_bindmap
  <2> DEFINE v == remove_rbind(Window, Rbind(bm, NoOwner))
  <2>2. /\ IsList(v.rbinds) /\ Ordered(v.rbinds, OwnedIn(v.rbinds))
        /\ OwnedIn(v.rbinds) = OwnedIn(rbinds)
        /\ Range(v.rbinds) \subseteq Range(rbinds)
    BY <2>1, OwnRemoved
  <2> HIDE DEF v
  <2>3. rbinds' = v.rbinds /\ UNCHANGED <<active_sub, scheduled>>
    BY <1>3, <2>1 DEF region_remove_bindmap, SetWindow, v
  <2>4. Last(r)'
    BY <1>1, <2>2, <2>3 DEF Last
  <2> QED BY <2>2, <2>3, <2>4
<1>4. CASE UNCHANGED <<rbinds, active_sub, scheduled>>
  <2>1. Last(r)'
    BY <1>1, <1>4 DEF Last
  <2> QED BY <1>4, <2>1
<1>5. CASE bindmap_add_binding \/ bindmap_remove_binding \/ ioncore_refresh_bindmaps
           \/ UNCHANGED binding
  BY <1>4, <1>5 DEF bindmap_add_binding, bindmap_remove_binding, ioncore_refresh_bindmaps, binding
<1>6. CASE GetsFocus
  <2>1. /\ (active_sub = NoOwner /\ ~scheduled) \/ "direct" \in BindCalls
        /\ active_sub' \in Subs /\ scheduled' = TRUE /\ rbinds' = rbinds
    BY <1>6 DEF GetsFocus
  <2>2. Last(r)'
    BY <1>1, <2>1 DEF Last
  <2> QED BY <2>1, <2>2
<1>7. CASE LosesFocus
  <2>1. active_sub' = NoOwner /\ scheduled' = TRUE /\ rbinds' = rbinds
    BY <1>7 DEF LosesFocus
  <2>2. Last(r)'
    BY <1>1, <2>1 DEF Last
  <2> QED BY <2>1, <2>2
<1>8. CASE region_do_update_owned_grabs
  <2> DEFINE w == Window
             v == UpdateOwned(w)
  <2>1. /\ rbinds' = v.rbinds /\ active_sub' = active_sub /\ scheduled' = FALSE
        /\ w.rbinds = rbinds
    BY <1>8 DEF region_do_update_owned_grabs, SetWindow, Window
  <2> HIDE DEF w
  <2>2. IsList(w.rbinds) /\ OwnedIn(w.rbinds) = OwnedBy(r) /\ Ordered(w.rbinds, OwnedIn(w.rbinds))
    BY <1>1, <2>1 DEF Last
  <2>3. /\ IsList(v.rbinds) /\ Ordered(v.rbinds, OwnedIn(v.rbinds))
        /\ OwnedIn(v.rbinds) = OwnedBy(active_sub)
        /\ \A x \in Range(v.rbinds) : x.owner = NoOwner => x \in Range(w.rbinds)
    BY <2>2, UpdateFacts
  <2> HIDE DEF v
  <2>4. Last(active_sub)'
    BY <2>1, <2>3 DEF Last
  <2>5. active_sub' \in Subs \cup {NoOwner}
    BY <2>1
  <2>6. \A x \in Range(rbinds') : x.owner = NoOwner => x.bm \in OwnMaps
    BY <2>1, <2>3
  <2> QED BY <2>1, <2>3, <2>4, <2>5, <2>6
<1> QED BY <1>2, <1>3, <1>5, <1>6, <1>7, <1>8 DEF BindingsNext

\* Whatever gets and loses the focus in whatever order, when no update is pending
\* the maps of the active region and its managers are there, the inner ones first
\* (regbind.c: add_bindings, region_do_update_owned_grabs).
THEOREM OwnersAlwaysFollow == BindingsSpec => []OwnersFollow
<1>1. OwnersInv => OwnersFollow
  <2> SUFFICES ASSUME OwnersInv, ~scheduled PROVE OwnersFollow
    BY DEF OwnersFollow
  <2> DEFINE owned == {k \in DOMAIN rbinds : rbinds[k].owner # NoOwner}
             place(k) ==
               CHOOSE i \in DOMAIN Managers(active_sub) : Managers(active_sub)[i] = rbinds[k].owner
  <2>1. OwnedIn(rbinds) = OwnedBy(active_sub)
    BY DEF OwnersInv, Last
  <2>2. {rbinds[k] : k \in owned} = OwnedIn(rbinds)
    BY DEF OwnedIn, Range
  <2>3. CASE active_sub = NoOwner
    <3>1. owned = {}
      BY <2>1, <2>2, <2>3 DEF OwnedBy
    <3> QED BY <2>3, <3>1 DEF OwnersFollow
  <2>4. CASE active_sub # NoOwner
    <3>1. active_sub \in Subs /\ OwnedIn(rbinds) = Owned(active_sub)
      BY <2>1, <2>4 DEF OwnedBy, OwnersInv
    <3>2. ASSUME NEW k \in owned PROVE place(k) = Depth(rbinds[k].owner)
      <4>1. rbinds[k] \in Owned(active_sub)
        BY <2>2, <3>1
      <4> DEFINE M == Managers(active_sub)
                 o == rbinds[k].owner
      <4>2. /\ DOMAIN M = 1 .. Depth(active_sub)
            /\ \A i \in 1 .. Depth(active_sub) : Depth(M[i]) = i
        BY <3>1, ManagerFacts
      <4>3. Depth(o) \in DOMAIN M /\ M[Depth(o)] = o
        BY <3>1, <4>1, <4>2, OwnedFacts
      <4> HIDE DEF M, o
      <4>4. \A i \in DOMAIN M : M[i] = o => i = Depth(o)
        BY <4>2
      <4>5. (CHOOSE i \in DOMAIN M : M[i] = o) = Depth(o)
        BY <4>3, <4>4
      <4> QED BY <4>5 DEF M, o
    <3>3. ASSUME NEW j \in owned, NEW k \in owned, j < k PROVE place(j) >= place(k)
      <4>1. rbinds[j] \in OwnedIn(rbinds) /\ rbinds[k] \in OwnedIn(rbinds)
        BY <2>2
      <4>2. Depth(rbinds[j].owner) >= Depth(rbinds[k].owner)
        BY <3>3, <4>1 DEF OwnersInv, Ordered
      <4> HIDE DEF place
      <4> QED BY <3>2, <4>2
    <3> QED BY <2>2, <2>4, <3>1, <3>3 DEF OwnersFollow
  <2> QED BY <2>3, <2>4
<1> QED BY <1>1, OwnersInit, OwnersStep, PTL DEF BindingsSpec

-----------------------------------------------------------------------------
(* The server grabs what is bound *)

\* No map has two owners, nor is one of the window itself that of a region
OneOwner ==
  \A r \in Subs : /\ \A x, y \in Owned(r) : x.bm = y.bm => x = y
                  /\ \A x \in Owned(r) : x.bm \notin OwnMaps

CalmBinds == /\ "direct" \notin BindCalls /\ "anymod" \notin BindCalls /\ "samecode" \notin BindCalls
             /\ OneOwner

\* Where the rbinds are from
From(r) == {Rbind(bm, NoOwner) : bm \in OwnMaps} \cup OwnedBy(r)

GrabsInv ==
  /\ keymap \in Codes /\ Plain(bindings) /\ \A m \in Maps : NoneTwice(bindings[m])
  /\ \A m \in Maps : \A b \in bindings[m] : b.kcb = keymap[b.ksb]
  /\ grabs = Held(bindings, MapsIn(rbinds))

\* With one owner for each map, no two rbinds in the window have the same map.
LEMMA FromFacts ==
  ASSUME CalmBinds, NEW r \in Subs \cup {NoOwner}
  PROVE  \A x, y \in From(r) : x.bm = y.bm => x = y
<1>1. ASSUME NEW bm PROVE Rbind(bm, NoOwner).bm = bm
  BY DEF Rbind
<1>2. /\ \A x, y \in OwnedBy(r) : x.bm = y.bm => x = y
      /\ \A x \in OwnedBy(r) : x.bm \notin OwnMaps
  BY DEF CalmBinds, OneOwner, OwnedBy
<1> QED BY <1>1, <1>2 DEF From

\* Between updates all rbinds are of one region and its managers.
LEMMA WindowFits ==
  ASSUME CalmBinds, OwnersInv, GrabsInv
  PROVE  \E r \in Subs \cup {NoOwner} : OwnedBy(active_sub) \subseteq From(r) /\ Fit(Window, From(r))
<1>1. PICK q \in Subs \cup {NoOwner} : Last(q)
  BY DEF OwnersInv
<1> DEFINE r == IF q = NoOwner THEN active_sub ELSE q
<1>2. r \in Subs \cup {NoOwner} /\ OwnedIn(rbinds) \subseteq OwnedBy(r) /\ OwnedBy(active_sub) \subseteq OwnedBy(r)
  BY <1>1 DEF OwnersInv, Last, CalmBinds, OwnedBy
<1> HIDE DEF r
<1>3. ASSUME NEW x \in Range(rbinds) PROVE x \in From(r)
  <2>1. CASE x.owner = NoOwner
    <3>1. x \in Rbinds /\ x.bm \in OwnMaps
      BY <2>1 DEF OwnersInv, IsList, Range
    <3>2. x = Rbind(x.bm, NoOwner)
      BY <2>1, <3>1 DEF Rbinds, Rbind
    <3> QED BY <3>1, <3>2 DEF From
  <2>2. CASE x.owner # NoOwner
    <3>1. x \in OwnedIn(rbinds)
      BY <2>2 DEF OwnedIn
    <3> QED BY <1>2, <3>1 DEF From
  <2> QED BY <2>1, <2>2
<1>4. Window.rbinds = rbinds /\ Window.grabs = grabs
  BY DEF Window
<1>5. Fit(Window, From(r))
  BY <1>2, <1>3, <1>4, FromFacts DEF Fit, GrabsInv
<1> QED BY <1>2, <1>5 DEF From

\* A new window has no grabs.
LEMMA GrabsInit == BindingsInit => GrabsInv
<1> SUFFICES ASSUME BindingsInit PROVE GrabsInv
  OBVIOUS
<1>1. /\ keymap \in Codes /\ bindings = [bm \in Maps |-> {}] /\ rbinds = <<>> /\ grabs = {}
  BY DEF BindingsInit, Maps, Codes
<1>4. Plain(bindings) /\ \A m \in Maps : bindings[m] = {}
  BY <1>1 DEF Plain
<1>5. Held(bindings, MapsIn(rbinds)) = {}
  <2>1. MapsIn(rbinds) = {}
    BY <1>1 DEF MapsIn, Range
  <2> QED BY <2>1 DEF Held, KeysOf
<1> QED BY <1>1, <1>4, <1>5 DEF GrabsInv, NoneTwice

\* bindmap_add_binding: the one it replaces was grabbed with it.
LEMMA BindingAdded ==
  ASSUME CalmBinds, OwnersInv, GrabsInv, bindmap_add_binding
  PROVE  GrabsInv'
<1>1. PICK bm \in Maps, ksb \in Keysyms, state \in Mods :
        LET b == Binding(ksb, keymap[ksb], state)
            found == {x \in bindings[bm] : x.kcb = b.kcb /\ x.state = b.state}
        IN \E gone \in IF found = {} THEN {{}} ELSE {{x} : x \in found} :
             /\ b.kcb # 0 /\ b \notin bindings[bm]
             /\ bindings' = [bindings EXCEPT ![bm] = (@ \ gone) \cup {b}]
             /\ grabs' = Added(grabs, bindings', rbinds, bm, {b})
  BY DEF bindmap_add_binding, CalmBinds, Maps
<1> DEFINE b == Binding(ksb, keymap[ksb], state)
           found == {x \in bindings[bm] : x.kcb = b.kcb /\ x.state = b.state}
           kept == {x \in bindings[bm] : x.kcb # b.kcb \/ x.state # b.state}
           to == [bindings EXCEPT ![bm] = kept \cup {b}]
           from == bindings
           rs == rbinds
           held == grabs
           L == MapsIn(rs)
<1>2. b.kcb # 0 /\ bindings' = to /\ grabs' = Added(held, to, rs, bm, {b})
  <2>1. PICK gone \in IF found = {} THEN {{}} ELSE {{x} : x \in found} :
             /\ b.kcb # 0 /\ bindings' = [bindings EXCEPT ![bm] = (@ \ gone) \cup {b}]
             /\ grabs' = Added(grabs, bindings', rbinds, bm, {b})
    BY <1>1
  <2>2. \A x, y \in found : x = y
    <3>1. NoneTwice(bindings[bm])
      BY DEF GrabsInv
    <3> HIDE DEF b
    <3> QED BY <2>1, <3>1 DEF NoneTwice
  <2>3. gone = found
    <3> HIDE DEF found, b
    <3> QED BY <2>1, <2>2
  <2>4. bindings[bm] \ found = kept
    OBVIOUS
  <2> HIDE DEF found, kept, b
  <2> QED BY <2>1, <2>3, <2>4
<1>3. UNCHANGED <<keymap, rbinds>>
  BY DEF bindmap_add_binding
<1>4. /\ from \in [Maps -> SUBSET [ksb : Keysyms, kcb : Keycodes \cup {0}, state : Mods]]
      /\ rs \in Seq(Rbinds) /\ held = Held(from, L) /\ Plain(from)
  BY DEF GrabsInv, Plain, OwnersInv, IsList
<1>5. /\ b \in [ksb : Keysyms, kcb : Keycodes \cup {0}, state : Mods]
      /\ b.kcb = keymap[b.ksb]
  BY DEF GrabsInv, Codes, Binding
<1>6. kept \subseteq from[bm]
  OBVIOUS
<1>7. KeysOf(from[bm]) \cup KeysOf({b}) = KeysOf(kept \cup {b})
  <2>1. ASSUME NEW x \in from[bm], x \notin kept, NEW c \in Combinations(x) PROVE c \in Combinations(b)
    <3>1. x.kcb = b.kcb /\ x.state = b.state /\ x.state \in Mods /\ b.state \in Mods
      BY <1>4, <1>5, <2>1
    <3> HIDE DEF b
    <3> QED BY <3>1, SameCombinations
  <2> HIDE DEF kept, b
  <2>2. \A c : c \in KeysOf(from[bm]) => c \in KeysOf(kept \cup {b})
    BY <2>1 DEF KeysOf
  <2>3. \A c : c \in KeysOf({b}) => c \in KeysOf(kept \cup {b})
    BY DEF KeysOf
  <2>4. \A c : c \in KeysOf(kept \cup {b}) => c \in KeysOf(from[bm]) \/ c \in KeysOf({b})
    BY <1>6 DEF KeysOf
  <2> QED BY <2>2, <2>3, <2>4
<1> HIDE DEF b, kept, from, rs, held
<1>8. /\ Plain(to) /\ to[bm] = kept \cup {b} /\ SameElse(from, to, bm)
  BY <1>4, <1>5, <1>6 DEF Plain, SameElse, from
<1>9. ASSUME NEW m \in Maps, NEW d \in to[m] PROVE d.kcb = keymap[d.ksb]
  <2>1. d \in from[m] \/ d = b
    BY <1>6, <1>8, <1>9 DEF SameElse
  <2> QED BY <1>5, <2>1 DEF GrabsInv, from
<1> HIDE DEF to
<1>10. grabs' = Held(to, L)
  <2>1. L \in SUBSET Maps
    BY <1>4, MapsOfList
  <2>2. HeldElse(to, L, bm) = HeldElse(from, L, bm)
    <3> HIDE DEF L
    <3> QED BY <1>8, <2>1, HeldChanged
  <2>3. /\ bm \notin L => Held(to, L) = HeldElse(to, L, bm)
        /\ bm \in L => Held(to, L) = HeldElse(to, L, bm) \cup KeysOf(to[bm])
    BY HeldSplit
  <2>4. /\ bm \notin L => Held(from, L) = HeldElse(from, L, bm)
        /\ bm \in L => Held(from, L) = HeldElse(from, L, bm) \cup KeysOf(from[bm])
    BY HeldSplit
  <2>5. PlainSet({b})
    BY <1>5 DEF PlainSet
  <2> DEFINE one == {b}
  <2> HIDE DEF one
  <2>6. /\ bm \in MapsIn(rs) => Added(held, to, rs, bm, one) = held \cup (KeysOf(one) \ HeldElse(to, MapsIn(rs), bm))
        /\ bm \notin MapsIn(rs) => Added(held, to, rs, bm, one) = held
    BY <1>4, <1>8, <2>5, AddedFacts DEF one
  <2> HIDE DEF L
  <2>7. CASE bm \in L
    <3>1. grabs' = (HeldElse(from, L, bm) \cup KeysOf(from[bm])) \cup (KeysOf(one) \ HeldElse(from, L, bm))
      BY <1>2, <1>4, <2>2, <2>4, <2>6, <2>7 DEF L, one
    <3>2. grabs' = HeldElse(from, L, bm) \cup (KeysOf(from[bm]) \cup KeysOf(one))
      BY <3>1
    <3>3. KeysOf(from[bm]) \cup KeysOf(one) = KeysOf(to[bm])
      BY <1>7, <1>8 DEF one
    <3> QED BY <2>2, <2>3, <2>7, <3>2, <3>3
  <2>8. CASE bm \notin L
    <3>1. grabs' = held
      BY <1>2, <2>6, <2>8 DEF L, one
    <3> QED BY <1>4, <2>2, <2>3, <2>4, <2>8, <3>1
  <2> QED BY <2>7, <2>8
<1>11. GrabsInv'
  <2>1. keymap' \in Codes
    BY <1>3 DEF GrabsInv
  <2>4. ASSUME NEW m \in Maps PROVE NoneTwice(bindings'[m])
    <3>1. NoneTwice(from[m])
      BY DEF GrabsInv, from
    <3>2. CASE m = bm
      <4>1. bindings'[m] = kept \cup {b} /\ kept \subseteq from[m]
        BY <1>2, <1>6, <1>8, <3>2
      <4>2. \A x \in kept : x.kcb # b.kcb \/ x.state # b.state
        BY DEF kept
      <4> QED BY <3>1, <4>1, <4>2 DEF NoneTwice
    <3>3. CASE m # bm
      BY <1>2, <1>8, <3>1, <3>3 DEF SameElse
    <3> QED BY <3>2, <3>3
  <2>2. \A m \in Maps : \A d \in bindings'[m] : d.kcb = keymap'[d.ksb]
    BY <1>2, <1>3, <1>9
  <2>3. grabs' = Held(bindings', MapsIn(rbinds'))
    BY <1>2, <1>3, <1>10 DEF rs
  <2> QED BY <1>2, <1>8, <2>1, <2>2, <2>3, <2>4 DEF GrabsInv
<1> QED BY <1>11

\* bindmap_remove_binding: a key goes unless another map has it.
LEMMA BindingRemoved ==
  ASSUME OwnersInv, GrabsInv, bindmap_remove_binding
  PROVE  GrabsInv'
<1>1. PICK bm \in Maps : \E b \in bindings[bm] :
        /\ b.kcb # 0 /\ bindings' = [bindings EXCEPT ![bm] = @ \ {b}]
        /\ grabs' = Removed(grabs, bindings, rbinds, bm, {b})
  BY DEF bindmap_remove_binding, Maps
<1>2. PICK b \in bindings[bm] :
        /\ b.kcb # 0 /\ bindings' = [bindings EXCEPT ![bm] = @ \ {b}]
        /\ grabs' = Removed(grabs, bindings, rbinds, bm, {b})
  BY <1>1
<1> DEFINE to == [bindings EXCEPT ![bm] = @ \ {b}]
           from == bindings
           rs == rbinds
           held == grabs
           L == MapsIn(rs)
           one == {b}
<1>3. UNCHANGED <<keymap, rbinds>> /\ bindings' = to /\ grabs' = Removed(held, from, rs, bm, one)
  BY <1>2 DEF bindmap_remove_binding
<1>4. /\ from \in [Maps -> SUBSET [ksb : Keysyms, kcb : Keycodes \cup {0}, state : Mods]]
      /\ rs \in Seq(Rbinds) /\ held = Held(from, L) /\ Plain(from)
  BY DEF GrabsInv, Plain, OwnersInv, IsList
<1>5. PlainSet(one) /\ \A x \in from[bm] : x.state \in Mods
  BY <1>4 DEF PlainSet
<1>6. KeysOf(from[bm]) \ KeysOf(one) = KeysOf(from[bm] \ {b}) /\ KeysOf(one) \subseteq KeysOf(from[bm])
  <2>1. ASSUME NEW x \in from[bm], x # b, NEW c \in Combinations(x) PROVE c \notin Combinations(b)
    <3>1. ASSUME c \in Combinations(b) PROVE FALSE
      <4>1. x.state \in Mods /\ b.state \in Mods
        BY <1>5
      <4>2. x.kcb = b.kcb /\ x.state = b.state
        BY <3>1, <4>1, SameCombinations
      <4>3. NoneTwice(bindings[bm])
        BY DEF GrabsInv
      <4> QED BY <1>2, <2>1, <4>2, <4>3 DEF NoneTwice
    <3> QED BY <3>1
  <2>2. b \in from[bm]
    OBVIOUS
  <2> HIDE DEF from
  <2>3. \A c : c \in KeysOf(from[bm] \ {b}) => c \in KeysOf(from[bm]) /\ c \notin KeysOf(one)
    BY <2>1 DEF KeysOf
  <2>4. \A c : c \in KeysOf(from[bm]) /\ c \notin KeysOf(one) => c \in KeysOf(from[bm] \ {b})
    BY DEF KeysOf
  <2>5. KeysOf(one) \subseteq KeysOf(from[bm])
    BY <2>2 DEF KeysOf
  <2> QED BY <2>3, <2>4, <2>5
<1> HIDE DEF from, rs, held, one
<1>7. Plain(to) /\ to[bm] = from[bm] \ {b} /\ SameElse(from, to, bm)
  BY <1>4 DEF Plain, SameElse, from
<1>8. ASSUME NEW m \in Maps, NEW d \in to[m] PROVE d.kcb = keymap[d.ksb]
  <2>1. d \in from[m]
    BY <1>7, <1>8 DEF SameElse
  <2> QED BY <2>1 DEF GrabsInv, from
<1> HIDE DEF to
<1>9. grabs' = Held(to, L)
  <2>1. L \in SUBSET Maps
    BY <1>4, MapsOfList
  <2>2. HeldElse(to, L, bm) = HeldElse(from, L, bm)
    <3> HIDE DEF L
    <3> QED BY <1>7, <2>1, HeldChanged
  <2>3. /\ bm \notin L => Held(to, L) = HeldElse(to, L, bm)
        /\ bm \in L => Held(to, L) = HeldElse(to, L, bm) \cup KeysOf(to[bm])
    BY HeldSplit
  <2>4. /\ bm \notin L => Held(from, L) = HeldElse(from, L, bm)
        /\ bm \in L => Held(from, L) = HeldElse(from, L, bm) \cup KeysOf(from[bm])
    BY HeldSplit
  <2>5. /\ bm \in MapsIn(rs) => Removed(held, from, rs, bm, one) = held \ (KeysOf(one) \ HeldElse(from, MapsIn(rs), bm))
        /\ bm \notin MapsIn(rs) => Removed(held, from, rs, bm, one) = held
    BY <1>4, <1>5, AddedFacts
  <2> HIDE DEF L
  <2>6. CASE bm \in L
    <3>1. grabs' = (HeldElse(from, L, bm) \cup KeysOf(from[bm])) \ (KeysOf(one) \ HeldElse(from, L, bm))
      BY <1>3, <1>4, <2>4, <2>5, <2>6 DEF L
    <3>2. grabs' = HeldElse(from, L, bm) \cup (KeysOf(from[bm]) \ KeysOf(one))
      BY <3>1
    <3>3. KeysOf(from[bm]) \ KeysOf(one) = KeysOf(to[bm])
      BY <1>6, <1>7
    <3> QED BY <2>2, <2>3, <2>6, <3>2, <3>3
  <2>7. CASE bm \notin L
    <3>1. grabs' = held
      BY <1>3, <2>5, <2>7 DEF L
    <3> QED BY <1>4, <2>2, <2>3, <2>4, <2>7, <3>1
  <2> QED BY <2>6, <2>7
<1>10. GrabsInv'
  <2>1. keymap' \in Codes
    BY <1>3 DEF GrabsInv
  <2>4. ASSUME NEW m \in Maps PROVE NoneTwice(bindings'[m])
    <3>1. NoneTwice(from[m])
      BY DEF GrabsInv, from
    <3>2. bindings'[m] \subseteq from[m]
      BY <1>3, <1>7 DEF SameElse
    <3> QED BY <3>1, <3>2 DEF NoneTwice
  <2>2. \A m \in Maps : \A d \in bindings'[m] : d.kcb = keymap'[d.ksb]
    BY <1>3, <1>8
  <2>3. grabs' = Held(bindings', MapsIn(rbinds'))
    BY <1>3, <1>9 DEF rs
  <2> QED BY <1>3, <1>7, <2>1, <2>2, <2>3, <2>4 DEF GrabsInv
<1> QED BY <1>10

\* Every step keeps GrabsInv.
LEMMA GrabsStep == CalmBinds /\ OwnersInv /\ GrabsInv /\ [BindingsNext]_binding => GrabsInv'
<1> SUFFICES ASSUME CalmBinds, OwnersInv, GrabsInv, [BindingsNext]_binding PROVE GrabsInv'
  OBVIOUS
<1>1. PICK r \in Subs \cup {NoOwner} : OwnedBy(active_sub) \subseteq From(r) /\ Fit(Window, From(r))
  BY WindowFits
<1>2. ASSUME NEW v, Fit(v, From(r)), SetWindow(v), UNCHANGED <<keymap, bindings>> PROVE GrabsInv'
  BY <1>2 DEF GrabsInv, Fit, SetWindow
<1>3. CASE region_add_bindmap
  <2>1. PICK bm \in OwnMaps : Rbind(bm, NoOwner) \notin Range(rbinds)
                              /\ SetWindow(AddOwned(Window, bm, NoOwner))
    BY <1>3 DEF region_add_bindmap
  <2>2. Rbind(bm, NoOwner) \in From(r)
    BY DEF From
  <2>3. Fit(AddOwned(Window, bm, NoOwner), From(r))
    BY <1>1, <2>1, <2>2, OwnAdded
  <2>4. UNCHANGED <<keymap, bindings>>
    BY <1>3 DEF region_add_bindmap
  <2> QED BY <1>2, <2>1, <2>3, <2>4
<1>4. CASE region_remove_bindmap
  <2>1. PICK bm \in OwnMaps : Rbind(bm, NoOwner) \in Range(rbinds)
                              /\ SetWindow(remove_rbind(Window, Rbind(bm, NoOwner)))
    BY <1>4 DEF region_remove_bindmap
  <2>2. Fit(remove_rbind(Window, Rbind(bm, NoOwner)), From(r))
    BY <1>1, <2>1, OwnRemoved
  <2>3. UNCHANGED <<keymap, bindings>>
    BY <1>4 DEF region_remove_bindmap
  <2> QED BY <1>2, <2>1, <2>2, <2>3
<1>5. CASE bindmap_add_binding
  BY <1>5, BindingAdded
<1>6. CASE bindmap_remove_binding
  BY <1>6, BindingRemoved
<1>7. CASE ioncore_refresh_bindmaps
  <2> DEFINE x == [bindings |-> bindings, grabs |-> grabs]
  <2>1. PICK codes \in Codes :
          /\ keymap' = codes
          /\ bindings' = RefreshAll(x, codes).bindings /\ grabs' = RefreshAll(x, codes).grabs
    BY <1>7 DEF ioncore_refresh_bindmaps, Codes
  <2>6. \A m \in Maps : NoneTwice(bindings'[m])
    BY <1>7 DEF ioncore_refresh_bindmaps, CalmBinds, Maps
  <2>2. UNCHANGED rbinds
    BY <1>7 DEF ioncore_refresh_bindmaps
  <2>3. Plain(x.bindings) /\ x.grabs = Held(x.bindings, MapsIn(rbinds)) /\ rbinds \in Seq(Rbinds)
    BY DEF GrabsInv, OwnersInv, IsList
  <2> HIDE DEF x
  <2> DEFINE y == RefreshAll(x, codes)
  <2>4. /\ Plain(y.bindings) /\ y.grabs = Held(y.bindings, MapsIn(rbinds))
        /\ \A m \in Maps : \A b \in y.bindings[m] : b.kcb = codes[b.ksb]
    BY <2>3, RefreshAllFacts
  <2> HIDE DEF y
  <2>5. bindings' = y.bindings /\ grabs' = y.grabs
    BY <2>1 DEF y
  <2> QED BY <2>1, <2>2, <2>4, <2>5, <2>6 DEF GrabsInv
<1>8. CASE GetsFocus \/ LosesFocus \/ UNCHANGED binding
  BY <1>8 DEF GetsFocus, LosesFocus, binding, GrabsInv
<1>9. CASE region_do_update_owned_grabs
  <2> DEFINE w == Window
             v == UpdateOwned(w)
  <2>1. SetWindow(v) /\ UNCHANGED <<keymap, bindings>> /\ w.rbinds = rbinds
    BY <1>9 DEF region_do_update_owned_grabs, Window
  <2> HIDE DEF w
  <2>2. PICK q \in Subs \cup {NoOwner} : Last(q)
    BY DEF OwnersInv
  <2>3. /\ IsList(w.rbinds) /\ OwnedIn(w.rbinds) = OwnedBy(q) /\ Ordered(w.rbinds, OwnedIn(w.rbinds))
        /\ active_sub \in Subs \cup {NoOwner}
    BY <2>1, <2>2 DEF Last, OwnersInv
  <2>4. Fit(w, From(r)) => Fit(v, From(r))
    BY <1>1, <2>3, UpdateFacts
  <2>5. Fit(w, From(r))
    BY <1>1 DEF w
  <2> HIDE DEF v
  <2> QED BY <1>2, <2>1, <2>4, <2>5
<1> QED BY <1>3, <1>4, <1>5, <1>6, <1>7, <1>8, <1>9 DEF BindingsNext

\* If no map has two owners in the window, no binding is for any modifiers, the focus does
\* not go from one region in the window to another without a deferred update, and no
\* change of the keyboard puts two keysyms that are bound in one map on one key, then the
\* server grabs what is bound, with each combination of the locks
\* (regbind.c: do_binding_grab_on_ungrab_on).
THEOREM KeysAlwaysGrabbed == ASSUME CalmBinds PROVE BindingsSpec => []GrabbedIffBound
<1>1. OwnersInv /\ GrabsInv => GrabbedIffBound
  <2> SUFFICES ASSUME OwnersInv, GrabsInv PROVE GrabbedIffBound
    OBVIOUS
  <2>1. BindingsTypeOK
    BY DEF OwnersInv, GrabsInv, Plain, BindingsTypeOK, Maps
  <2> DEFINE B == UNION {bindings[rbinds[k].bm] : k \in DOMAIN rbinds}
             C(b) == {b.kcb} \X (IF b.state = AnyModifier THEN Mods ELSE {b.state}) \X SUBSET Locks
  <2>2. {bindings[m] : m \in MapsIn(rbinds)} = {bindings[rbinds[k].bm] : k \in DOMAIN rbinds}
    BY DEF MapsIn, Range
  <2>3. grabs = KeysOf(B)
    BY <2>2 DEF GrabsInv, Held
  <2>4. ASSUME NEW b \in B PROVE Combinations(b) = IF b.kcb = 0 THEN {} ELSE C(b)
    <3>1. PICK k \in DOMAIN rbinds : b \in bindings[rbinds[k].bm]
      OBVIOUS
    <3>2. rbinds[k].bm \in Maps
      <4>1. rbinds[k] \in Rbinds
        BY DEF OwnersInv, IsList
      <4> QED BY <4>1 DEF Rbinds
    <3>3. b.state \in Mods
      BY <3>1, <3>2 DEF GrabsInv, Plain
    <3>4. b.state # AnyModifier
      BY <3>3, BindingsAssumption
    <3> QED BY <3>4, AllLocks DEF Combinations
  <2> HIDE DEF B, C
  <2>5. KeysOf(B) = UNION {C(b) : b \in {x \in B : x.kcb # 0}}
    BY <2>4 DEF KeysOf
  <2> QED BY <2>1, <2>3, <2>5 DEF GrabbedIffBound, B, C
<1> QED BY <1>1, OwnersInit, OwnersStep, GrabsInit, GrabsStep, PTL DEF BindingsSpec
-----------------------------------------------------------------------------
(* Grabs *)

\* Which regions take a grab of each kind
HolderOf ==
  [resize |-> Frames, pointer |-> Frames, submap |-> Frames \cup {Root},
   quote |-> Clients, waitrelease |-> {Root}, grabmenu |-> Menus]

Entry == {g \in Grab : g.holder \in HolderOf[g.handler]}

Pointer == [state : {"no", "held"}, reg : Frames \cup {NULL}, motion : BOOLEAN,
            drag : {"none", "resize", "tab"}]

\* A state of the program; s is one
State ==
  [alive : SUBSET Regions, dying : SUBSET (Regions \ {Root}), aborted : BOOLEAN,
   grabs : Seq(Entry), last_sqid : Nat, dropped : BOOLEAN,
   xkb : Nat \cup {NULL}, input_mode : {"normal", "grab"},
   mode : Frames \cup {NULL}, timer : {"none", "mode", "idle"},
   sub : [Regions -> 0 .. MaxSub], p : Pointer, loop : {"main", "drag"}]

\* The grabs that are not to be removed, and those of a kind
Live(t) == {i \in Slots(t) : ~t.grabs[i].remove}
Of(t, handler) == {i \in Live(t) : t.grabs[i].handler = handler}

\* Holders live, the root window always, and a menu has one grab: killing it
\* destroys the menu
Sound(t) ==
  /\ t \in State /\ Len(t.grabs) <= MAX_GRABS /\ Root \in t.alive
  /\ \A i \in Live(t) : t.grabs[i].holder \in t.alive
  /\ \A i, j \in Of(t, "grabmenu") : t.grabs[i].holder = t.grabs[j].holder => i = j

\* The keyboard is grabbed for the top, and the top is there to stay
Matches(t) ==
  IF grab_held(t)
  THEN t.xkb = Top(t).sqid /\ ~Top(t).remove /\ t.input_mode = "grab"
  ELSE t.xkb = NULL /\ t.input_mode = "normal"

\* ... or will be, when the top is removed
Settled(t) == Matches(t) \/ (grab_held(t) /\ Top(t).remove)

\* A resize mode and its grab; the topmost is the one that lives
ResizeSound(t) ==
  /\ \A i, j \in Slots(t) :
       i < j /\ t.grabs[i].handler = "resize" /\ t.grabs[j].handler = "resize" => t.grabs[i].remove
  /\ t.timer = "mode" => t.mode # NULL
  /\ \A r \in Frames :
       (\E i \in Of(t, "resize") : t.grabs[i].holder = r) <=> (t.mode = r /\ t.timer = "mode")

SubmapSound(t) ==
  \A r \in Frames \cup {Root} : t.sub[r] > 0 => \E i \in Of(t, "submap") : t.grabs[i].holder = r

ModesSound(t) == t.dropped \/ (ResizeSound(t) /\ SubmapSound(t))

\* The pointer is grabbed in the inner loop, below everything else, and only
\* quoting may begin meanwhile
Phases(t) ==
  IF t.loop = "main" THEN Of(t, "pointer") = {}
  ELSE /\ grab_held(t) /\ 1 \in Of(t, "pointer")
       /\ \A i \in Slots(t) \ {1} : t.grabs[i].handler = "quote"

\* What is left of g when the slots in m are marked: a slot that has gone was
\* to be removed
Fewer(g, h, m) ==
  /\ h \in Seq(Entry) /\ Len(h) <= Len(g)
  /\ \A i \in 1 .. Len(h) :
       /\ h[i].holder = g[i].holder /\ h[i].handler = g[i].handler /\ h[i].sqid = g[i].sqid
       /\ h[i].remove <=> (g[i].remove \/ i \in m)
  /\ \A i \in 1 .. Len(g) : i > Len(h) => g[i].remove \/ i \in m

\* The removal of grabs changes the stack and the keyboard
SameBut(t, v) ==
  /\ v.alive = t.alive /\ v.dying = t.dying /\ v.aborted = t.aborted
  /\ v.last_sqid = t.last_sqid /\ v.dropped = t.dropped /\ v.sub = t.sub
  /\ v.loop = t.loop

SameMode(t, v) == v.mode = t.mode /\ v.timer = t.timer /\ v.p = t.p

-----------------------------------------------------------------------------
(* Numbers and sequences *)

\* A set of places of a sequence has a last one.
LEMMA LastPlace ==
  ASSUME NEW n \in Nat, NEW T \in SUBSET (1 .. n), T # {}
  PROVE  \E i \in T : \A j \in T : j <= i
<1> DEFINE D == {n - i : i \in T}
<1>1. D \in SUBSET Nat /\ D # {}
  <2>1. PICK i \in T : TRUE
    OBVIOUS
  <2>2. n - i \in D
    BY <2>1
  <2>3. \A j \in T : n - j \in Nat
    OBVIOUS
  <2> QED BY <2>2, <2>3
<1>2. PICK d \in D : \A e \in D : d <= e
  <2> HIDE DEF D
  <2> QED BY <1>1, NatMin
<1>3. PICK i \in T : d = n - i
  BY <1>2
<1>4. ASSUME NEW j \in T PROVE j <= i
  <2>1. n - j \in D
    OBVIOUS
  <2> QED BY <2>1, <1>2, <1>3
<1> QED BY <1>4

\* Taking the marked entries off leaves a prefix whose top is not marked.
LEMMA UnmarkedFacts ==
  ASSUME NEW g \in Seq(Entry)
  PROVE  /\ Unmarked(g) \in Seq(Entry) /\ Len(Unmarked(g)) <= Len(g)
         /\ \A i \in 1 .. Len(Unmarked(g)) : Unmarked(g)[i] = g[i]
         /\ \A i \in 1 .. Len(g) : i > Len(Unmarked(g)) => g[i].remove
         /\ Unmarked(g) # <<>> => ~Unmarked(g)[Len(Unmarked(g))].remove
<1> DEFINE keep == {i \in DOMAIN g : ~g[i].remove}
           k == CHOOSE i \in keep : \A j \in keep : j <= i
<1>1. DOMAIN g = 1 .. Len(g) /\ Len(g) \in Nat
  OBVIOUS
<1>2. CASE keep = {}
  <2>1. Unmarked(g) = <<>>
    BY <1>2 DEF Unmarked
  <2> QED BY <1>1, <1>2, <2>1
<1>3. CASE keep # {}
  <2>1. k \in keep /\ \A j \in keep : j <= k
    <3>1. keep \in SUBSET (1 .. Len(g))
      BY <1>1
    <3>2. \E i \in keep : \A j \in keep : j <= i
      <4> HIDE DEF keep
      <4> QED BY <1>1, <1>3, <3>1, LastPlace
    <3> QED BY <3>2
  <2>2. Unmarked(g) = SubSeq(g, 1, k)
    BY <1>3 DEF Unmarked
  <2>3. k \in 1 .. Len(g) /\ ~g[k].remove
    BY <1>1, <2>1
  <2>4. \A j \in 1 .. Len(g) : j > k => g[j].remove
    BY <1>1, <2>1, <2>3
  <2> HIDE DEF k, keep
  <2>5. SubSeq(g, 1, k) \in Seq(Entry) /\ Len(SubSeq(g, 1, k)) = k
        /\ \A i \in 1 .. k : SubSeq(g, 1, k)[i] = g[i]
    BY <2>3
  <2> QED BY <1>1, <2>2, <2>3, <2>4, <2>5
<1> QED BY <1>2, <1>3

\* Grabs that become fewer twice.
LEMMA FewerTwice ==
  ASSUME NEW g \in Seq(Entry), NEW h, NEW k, NEW m, NEW n, Fewer(g, h, m), Fewer(h, k, n)
  PROVE  Fewer(g, k, m \cup n)
<1>1. h \in Seq(Entry) /\ k \in Seq(Entry) /\ Len(h) <= Len(g) /\ Len(k) <= Len(h)
  BY DEF Fewer
<1>2. Len(g) \in Nat /\ Len(h) \in Nat /\ Len(k) \in Nat
  BY <1>1
<1>3. ASSUME NEW i \in 1 .. Len(k)
      PROVE  /\ k[i].holder = g[i].holder /\ k[i].handler = g[i].handler /\ k[i].sqid = g[i].sqid
             /\ k[i].remove <=> (g[i].remove \/ i \in m \cup n)
  <2>1. i \in 1 .. Len(h)
    BY <1>1, <1>2
  <2> QED BY <2>1 DEF Fewer
<1>4. ASSUME NEW i \in 1 .. Len(g), i > Len(k)
      PROVE  g[i].remove \/ i \in m \cup n
  <2>1. CASE i > Len(h)
    BY <2>1 DEF Fewer
  <2>2. CASE i \in 1 .. Len(h)
    <3>1. h[i].remove \/ i \in n
      BY <1>4, <2>2 DEF Fewer
    <3> QED BY <3>1, <2>2 DEF Fewer
  <2> QED BY <1>2, <2>1, <2>2
<1> QED BY <1>1, <1>2, <1>3, <1>4 DEF Fewer

\* Grabs that stay as they are.
LEMMA FewerSame ==
  ASSUME NEW g \in Seq(Entry) PROVE Fewer(g, g, {})
BY DEF Fewer

-----------------------------------------------------------------------------
(* grab.c *)

\* ungrab_kb_ptr changes the X keyboard grab and the input mode only.
LEMMA UngrabFacts ==
  ASSUME NEW t \in State
  PROVE  /\ ungrab_kb_ptr(t) \in State /\ ungrab_kb_ptr(t).grabs = t.grabs
         /\ ungrab_kb_ptr(t).xkb = NULL /\ ungrab_kb_ptr(t).input_mode = "normal"
         /\ SameBut(t, ungrab_kb_ptr(t)) /\ SameMode(t, ungrab_kb_ptr(t))
BY DEF ungrab_kb_ptr, State, SameBut, SameMode

\* grab_kb_ptr changes the X keyboard grab and the input mode only.
LEMMA GrabFacts ==
  ASSUME NEW t \in State, NEW sqid \in Nat
  PROVE  /\ grab_kb_ptr(t, sqid) \in State /\ grab_kb_ptr(t, sqid).grabs = t.grabs
         /\ grab_kb_ptr(t, sqid).xkb = sqid /\ grab_kb_ptr(t, sqid).input_mode = "grab"
         /\ SameBut(t, grab_kb_ptr(t, sqid)) /\ SameMode(t, grab_kb_ptr(t, sqid))
BY DEF grab_kb_ptr, State, SameBut, SameMode

\* Another stack, with nothing else changed.
LEMMA SetGrabs ==
  ASSUME NEW t \in State, NEW g \in Seq(Entry)
  PROVE  /\ [t EXCEPT !.grabs = g] \in State /\ [t EXCEPT !.grabs = g].grabs = g
         /\ [t EXCEPT !.grabs = g].xkb = t.xkb /\ [t EXCEPT !.grabs = g].input_mode = t.input_mode
         /\ SameBut(t, [t EXCEPT !.grabs = g]) /\ SameMode(t, [t EXCEPT !.grabs = g])
BY DEF State, SameBut, SameMode

\* do_grab_remove: the marked grabs at the top go, and the keyboard is grabbed for what is left.
LEMMA RemoveFacts ==
  ASSUME NEW t \in State
  PROVE  /\ do_grab_remove(t) \in State /\ Matches(do_grab_remove(t))
         /\ Fewer(t.grabs, do_grab_remove(t).grabs, {})
         /\ SameBut(t, do_grab_remove(t)) /\ SameMode(t, do_grab_remove(t))
<1> DEFINE gs == Unmarked(t.grabs)
           w == [t EXCEPT !.grabs = gs]
           u == ungrab_kb_ptr(w)
           v == do_grab_remove(t)
<1>1. t.grabs \in Seq(Entry)
  BY DEF State
<1>2. gs \in Seq(Entry) /\ Fewer(t.grabs, gs, {}) /\ (gs # <<>> => ~gs[Len(gs)].remove)
  <2>1. gs \in Seq(Entry)
    BY <1>1, UnmarkedFacts
  <2>2. Fewer(t.grabs, gs, {})
    BY <1>1, UnmarkedFacts DEF Fewer
  <2> QED BY <1>1, <2>1, <2>2, UnmarkedFacts
<1>3. v = IF gs = <<>> THEN u ELSE grab_kb_ptr(u, gs[Len(gs)].sqid)
  BY DEF do_grab_remove
<1> HIDE DEF gs
<1>4. w \in State /\ w.grabs = gs /\ SameBut(t, w) /\ SameMode(t, w)
  BY <1>2, SetGrabs
<1> HIDE DEF w
<1>5. /\ u \in State /\ u.grabs = gs /\ SameBut(t, u) /\ SameMode(t, u)
      /\ u.xkb = NULL /\ u.input_mode = "normal"
  BY <1>4, UngrabFacts DEF SameBut, SameMode
<1> HIDE DEF u, v
<1>6. CASE gs = <<>>
  <2>1. v = u /\ u.grabs = <<>>
    BY <1>3, <1>5, <1>6
  <2>2. Matches(v)
    BY <1>5, <2>1 DEF Matches, grab_held
  <2> QED BY <1>2, <1>5, <2>1, <2>2 DEF v
<1>7. CASE gs # <<>>
  <2>1. gs[Len(gs)].sqid \in Nat
    <3>1. Len(gs) \in 1 .. Len(gs)
      BY <1>2, <1>7
    <3> QED BY <1>2, <3>1 DEF Entry, Grab
  <2>2. /\ v \in State /\ v.grabs = gs /\ SameBut(u, v) /\ SameMode(u, v)
        /\ v.xkb = gs[Len(gs)].sqid /\ v.input_mode = "grab"
    BY <1>3, <1>5, <1>7, <2>1, GrabFacts
  <2>3. v.grabs = gs
    BY <1>5, <2>2
  <2>4. Matches(v)
    BY <1>2, <1>7, <2>2, <2>3 DEF Matches, grab_held, Top
  <2>5. SameBut(t, v)
    BY <1>5, <2>2 DEF SameBut
  <2>6. SameMode(t, v)
    BY <1>5, <2>2 DEF SameMode
  <2> QED BY <1>2, <2>2, <2>3, <2>4, <2>5, <2>6 DEF v
<1> QED BY <1>6, <1>7

\* Settle restores the keyboard, whatever it was, when the top is to be removed.
LEMMA SettleFacts ==
  ASSUME NEW t \in State
  PROVE  /\ Settle(t) \in State /\ (Settled(t) => Matches(Settle(t)))
         /\ Fewer(t.grabs, Settle(t).grabs, {})
         /\ SameBut(t, Settle(t)) /\ SameMode(t, Settle(t))
<1>1. CASE grab_held(t) /\ Top(t).remove
  <2>1. Settle(t) = do_grab_remove(t)
    BY <1>1 DEF Settle
  <2> QED BY <2>1, RemoveFacts
<1>2. CASE ~(grab_held(t) /\ Top(t).remove)
  <2>1. Settle(t) = t
    BY <1>2 DEF Settle
  <2>2. t.grabs \in Seq(Entry)
    BY DEF State
  <2> QED BY <1>2, <2>1, <2>2, FewerSame DEF Settled, SameBut, SameMode
<1> QED BY <1>1, <1>2

\* The slot i of t marked
Marked(t, i) == IF i \in Slots(t) THEN [t EXCEPT !.grabs[i].remove = TRUE] ELSE t

\* A mark changes nothing else and keeps a settled state settled.
LEMMA MarkedFacts ==
  ASSUME NEW t \in State, NEW i \in Nat
  PROVE  /\ Marked(t, i) \in State /\ (Settled(t) => Settled(Marked(t, i)))
         /\ Len(Marked(t, i).grabs) = Len(t.grabs)
         /\ Fewer(t.grabs, Marked(t, i).grabs, {i})
         /\ SameBut(t, Marked(t, i)) /\ SameMode(t, Marked(t, i))
         /\ i \in Slots(t) => Marked(t, i).grabs[i].remove
         /\ Marked(t, i).xkb = t.xkb /\ Marked(t, i).input_mode = t.input_mode
<1> DEFINE g == t.grabs
           h == [g EXCEPT ![i].remove = TRUE]
           v == Marked(t, i)
<1>1. g \in Seq(Entry) /\ Len(g) \in Nat /\ Slots(t) = 1 .. Len(g)
  BY DEF State, Slots
<1>2. CASE i \in Slots(t)
  <2>1. [g[i] EXCEPT !.remove = TRUE] \in Entry
    <3>1. g[i] \in Entry
      BY <1>1, <1>2
    <3> QED BY <3>1 DEF Entry, Grab
  <2>2. h = [g EXCEPT ![i] = [g[i] EXCEPT !.remove = TRUE]]
    BY <1>1, <1>2
  <2>3. /\ h \in Seq(Entry) /\ Len(h) = Len(g) /\ h[i] = [g[i] EXCEPT !.remove = TRUE]
        /\ \A j \in 1 .. Len(g) : j # i => h[j] = g[j]
    BY <1>1, <1>2, <2>1, <2>2
  <2>4. /\ h[i].holder = g[i].holder /\ h[i].handler = g[i].handler /\ h[i].sqid = g[i].sqid
        /\ h[i].remove = TRUE
    <3>1. g[i] \in Entry
      BY <1>1, <1>2
    <3> QED BY <2>3, <3>1 DEF Entry, Grab
  <2> HIDE DEF h
  <2>5. Fewer(g, h, {i})
    <3>1. ASSUME NEW j \in 1 .. Len(g)
          PROVE  /\ h[j].holder = g[j].holder /\ h[j].handler = g[j].handler /\ h[j].sqid = g[j].sqid
                 /\ h[j].remove <=> (g[j].remove \/ j \in {i})
      BY <2>3, <2>4
    <3> QED BY <1>1, <2>3, <3>1 DEF Fewer
  <2>6. v = [t EXCEPT !.grabs = h]
    BY <1>2, <2>2 DEF Marked, State, h
  <2>7. /\ v \in State /\ v.grabs = h /\ v.xkb = t.xkb /\ v.input_mode = t.input_mode
        /\ SameBut(t, v) /\ SameMode(t, v)
    BY <2>3, <2>6, SetGrabs
  <2> HIDE DEF v
  <2>8. Settled(t) => Settled(v)
    <3> SUFFICES ASSUME Settled(t) PROVE Settled(v)
      OBVIOUS
    <3>1. grab_held(t) /\ grab_held(v) /\ Len(v.grabs) = Len(t.grabs)
      BY <1>1, <1>2, <2>3, <2>7 DEF grab_held
    <3>2. CASE i = Len(g)
      BY <2>3, <2>4, <2>7, <3>1, <3>2 DEF Settled, Top
    <3>3. CASE i # Len(g)
      <4>1. Top(v) = Top(t)
        <5>1. Len(g) \in 1 .. Len(g)
          BY <1>1, <1>2
        <5> QED BY <2>3, <2>7, <3>3, <5>1 DEF Top
      <4> QED BY <2>7, <3>1, <4>1 DEF Settled, Matches
    <3> QED BY <3>2, <3>3
  <2> QED BY <2>3, <2>4, <2>5, <2>7, <2>8 DEF v
<1>3. CASE i \notin Slots(t)
  <2>1. v = t
    BY <1>3 DEF Marked
  <2>2. Fewer(g, g, {i})
    BY <1>1, <1>3 DEF Fewer
  <2> QED BY <1>3, <2>1, <2>2 DEF SameBut, SameMode
<1> QED BY <1>2, <1>3

\* mark_for_removal: the top of v is one to stay if t was sound, or the mark is
\* at the top.
LEMMA MarkFacts ==
  ASSUME NEW t \in State, NEW i \in Nat
  PROVE  /\ Mark(t, i) \in State /\ (Settled(t) => Matches(Mark(t, i)))
         /\ Fewer(t.grabs, Mark(t, i).grabs, {i})
         /\ SameBut(t, Mark(t, i)) /\ SameMode(t, Mark(t, i))
         /\ grab_held(t) /\ i = Len(t.grabs) => Matches(Mark(t, i))
<1> DEFINE u == Marked(t, i)
           v == Settle(u)
<1>1. v = Mark(t, i)
  BY DEF Mark, Marked
<1>2. /\ u \in State /\ (Settled(t) => Settled(u)) /\ Fewer(t.grabs, u.grabs, {i})
      /\ SameBut(t, u) /\ SameMode(t, u) /\ Len(u.grabs) = Len(t.grabs)
      /\ i \in Slots(t) => u.grabs[i].remove
  BY MarkedFacts
<1> HIDE DEF u
<1>3. /\ v \in State /\ (Settled(u) => Matches(v)) /\ Fewer(u.grabs, v.grabs, {})
      /\ SameBut(u, v) /\ SameMode(u, v)
  BY <1>2, SettleFacts
<1> HIDE DEF v
<1>4. Fewer(t.grabs, v.grabs, {i})
  <2>1. t.grabs \in Seq(Entry) /\ {i} \cup {} = {i}
    BY DEF State
  <2> QED BY <1>2, <1>3, <2>1, FewerTwice
<1>5. SameBut(t, v)
  BY <1>2, <1>3 DEF SameBut
<1>6. SameMode(t, v)
  BY <1>2, <1>3 DEF SameMode
<1>7. ASSUME grab_held(t), i = Len(t.grabs) PROVE Settled(u)
  <2>1. t.grabs \in Seq(Entry) /\ u.grabs \in Seq(Entry)
    BY <1>2 DEF State
  <2>2. i \in Slots(t)
    BY <1>7, <2>1 DEF Slots, grab_held
  <2> QED BY <1>2, <1>7, <2>1, <2>2 DEF Settled, grab_held, Top, Slots
<1> QED BY <1>1, <1>2, <1>3, <1>4, <1>5, <1>6, <1>7

\* ioncore_grab_remove marks the topmost of its kind, and no other.
LEMMA GrabRemoveFacts ==
  ASSUME NEW t \in State, NEW handler
  PROVE  LET v == GrabRemove(t, handler)
         IN /\ v \in State /\ (Settled(t) => Settled(v)) /\ (Matches(t) => Matches(v))
            /\ SameBut(t, v) /\ SameMode(t, v)
            /\ \E m \in SUBSET Slots(t) :
                 /\ Fewer(t.grabs, v.grabs, m)
                 /\ \A i \in m : t.grabs[i].handler = handler
                 /\ \A j \in Slots(t) : t.grabs[j].handler = handler => \E i \in m : j <= i
<1> DEFINE is == {i \in Slots(t) : t.grabs[i].handler = handler}
           k == CHOOSE i \in is : \A j \in is : j <= i
           v == GrabRemove(t, handler)
<1>1. t.grabs \in Seq(Entry) /\ Slots(t) = 1 .. Len(t.grabs) /\ Len(t.grabs) \in Nat
  BY DEF State, Slots
<1>2. CASE is = {}
  <2>1. v = t
    BY <1>2 DEF GrabRemove
  <2>2. Fewer(t.grabs, t.grabs, {})
    BY <1>1, FewerSame
  <2> QED BY <1>2, <2>1, <2>2 DEF SameBut, SameMode
<1>3. CASE is # {}
  <2>1. k \in is /\ \A j \in is : j <= k
    <3>1. is \in SUBSET (1 .. Len(t.grabs))
      BY <1>1
    <3>2. \E i \in is : \A j \in is : j <= i
      <4> HIDE DEF is
      <4> QED BY <1>1, <1>3, <3>1, LastPlace
    <3> QED BY <3>2
  <2>2. v = Mark(t, k)
    BY <1>3 DEF GrabRemove
  <2>3. k \in Nat /\ k \in Slots(t) /\ t.grabs[k].handler = handler
    BY <1>1, <2>1
  <2>4. \A j \in Slots(t) : t.grabs[j].handler = handler => j <= k
    BY <2>1
  <2> HIDE DEF k, v
  <2>5. /\ v \in State /\ (Settled(t) => Matches(v)) /\ Fewer(t.grabs, v.grabs, {k})
        /\ SameBut(t, v) /\ SameMode(t, v)
    BY <2>2, <2>3, MarkFacts
  <2>6. (Matches(t) => Matches(v)) /\ (Settled(t) => Settled(v))
    BY <2>5 DEF Settled
  <2> QED BY <2>3, <2>4, <2>5, <2>6 DEF v
<1> QED BY <1>2, <1>3

-----------------------------------------------------------------------------
(* The killed handlers *)

\* m holds only slots of that kind, the topmost included
TopOf(t, handler, m) ==
  /\ m \in SUBSET Slots(t)
  /\ \A i \in m : t.grabs[i].handler = handler
  /\ \A j \in Slots(t) : t.grabs[j].handler = handler => \E i \in m : j <= i

\* The fields that say who has the keyboard are those of t
SameGrabs(t, v) == v.grabs = t.grabs /\ v.xkb = t.xkb /\ v.input_mode = t.input_mode

\* What follows from the same stack and the same X grab.
LEMMA SameGrabsFacts ==
  ASSUME NEW t \in State, NEW v \in State, SameGrabs(t, v)
  PROVE  /\ Settled(t) <=> Settled(v)
         /\ Matches(t) <=> Matches(v)
         /\ Fewer(t.grabs, v.grabs, {})
<1>1. t.grabs \in Seq(Entry)
  BY DEF State
<1>2. Fewer(t.grabs, v.grabs, {})
  BY <1>1, FewerSame DEF SameGrabs
<1>3. Matches(t) <=> Matches(v)
  BY DEF SameGrabs, Matches, grab_held, Top
<1> QED BY <1>2, <1>3 DEF SameGrabs, Settled, grab_held, Top

WithMode(t, mode, timer) == [t EXCEPT !.mode = mode, !.timer = timer]
WithPointer(t, p) == [t EXCEPT !.p = p]

\* A resize mode or its timer changes nothing else.
LEMMA SetMode ==
  ASSUME NEW t \in State, NEW mode \in Frames \cup {NULL}, NEW timer \in {"none", "mode", "idle"}
  PROVE  /\ WithMode(t, mode, timer) \in State
         /\ SameGrabs(t, WithMode(t, mode, timer)) /\ SameBut(t, WithMode(t, mode, timer))
         /\ WithMode(t, mode, timer).p = t.p
         /\ WithMode(t, mode, timer).mode = mode /\ WithMode(t, mode, timer).timer = timer
BY DEF State, SameBut, SameGrabs, WithMode

\* The pointer's state changes nothing else.
LEMMA SetPointer ==
  ASSUME NEW t \in State, NEW p \in Pointer
  PROVE  /\ WithPointer(t, p) \in State
         /\ SameGrabs(t, WithPointer(t, p)) /\ SameBut(t, WithPointer(t, p))
         /\ WithPointer(t, p).p = p
         /\ WithPointer(t, p).mode = t.mode /\ WithPointer(t, p).timer = t.timer
BY DEF State, SameBut, SameGrabs, WithPointer

\* The end of a resize mode takes at most the topmost grab for resizing.
LEMMA EndModeFacts ==
  ASSUME NEW t \in State
  PROVE  LET v == EndMode(t)
         IN /\ v \in State /\ (Settled(t) => Settled(v)) /\ (Matches(t) => Matches(v))
            /\ SameBut(t, v)
            /\ t.mode = NULL => v = t
            /\ t.mode # NULL =>
                 /\ v.mode = NULL /\ v.timer = "none"
                 /\ \E m : Fewer(t.grabs, v.grabs, m) /\ TopOf(t, "resize", m)
<1> DEFINE u == [t EXCEPT !.mode = NULL, !.timer = "none"]
           v == GrabRemove(u, "resize")
<1>1. CASE t.mode = NULL
  BY <1>1 DEF EndMode, SameBut
<1>2. CASE t.mode # NULL
  <2>1. EndMode(t) = v
    BY <1>2 DEF EndMode
  <2>2. u \in State /\ SameGrabs(t, u) /\ SameBut(t, u) /\ u.mode = NULL /\ u.timer = "none"
    <3>1. NULL \in Frames \cup {NULL} /\ "none" \in {"none", "mode", "idle"}
      OBVIOUS
    <3>2. u = WithMode(t, NULL, "none")
      BY DEF WithMode
    <3> HIDE DEF u
    <3> QED BY <3>1, <3>2, SetMode
  <2> HIDE DEF u
  <2>3. /\ v \in State /\ (Settled(u) => Settled(v)) /\ (Matches(u) => Matches(v))
        /\ SameBut(u, v) /\ SameMode(u, v)
        /\ \E m \in SUBSET Slots(u) :
             /\ Fewer(u.grabs, v.grabs, m)
             /\ \A i \in m : u.grabs[i].handler = "resize"
             /\ \A j \in Slots(u) : u.grabs[j].handler = "resize" => \E i \in m : j <= i
    BY <2>2, GrabRemoveFacts
  <2> HIDE DEF v
  <2>4. (Settled(t) <=> Settled(u)) /\ (Matches(t) <=> Matches(u))
    BY <2>2, SameGrabsFacts
  <2>5. \E m : Fewer(t.grabs, v.grabs, m) /\ TopOf(t, "resize", m)
    BY <2>2, <2>3 DEF SameGrabs, TopOf, Slots
  <2>6. SameBut(t, v)
    BY <2>2, <2>3 DEF SameBut
  <2>7. v.mode = NULL /\ v.timer = "none"
    BY <2>2, <2>3 DEF SameMode
  <2> QED BY <1>2, <2>1, <2>3, <2>4, <2>5, <2>6, <2>7
<1> QED BY <1>1, <1>2

\* A region that is freed takes its submap with it and no grab.
LEMMA FreeFacts ==
  ASSUME NEW t \in State, NEW r \in Regions \ {Root}
  PROVE  LET v == Free(t, r)
         IN /\ v \in State /\ SameGrabs(t, v) /\ v.alive = t.alive \ {r}
            /\ v.dropped = t.dropped /\ v.loop = t.loop /\ v.mode = t.mode /\ v.timer = t.timer
            /\ \A q \in Regions : q # r => v.sub[q] = t.sub[q]
            /\ v.sub[r] = 0
<1> DEFINE v == Free(t, r)
           p == [t.p EXCEPT !.reg = IF @ = r THEN NULL ELSE @]
           sub == [t.sub EXCEPT ![r] = 0]
<1>1. p \in Pointer
  BY DEF State, Pointer
<1>2. /\ sub \in [Regions -> 0 .. MaxSub] /\ (\A q \in Regions : q # r => sub[q] = t.sub[q])
      /\ sub[r] = 0
  BY DEF State, MaxSub
<1>3. v = [t EXCEPT !.alive = t.alive \ {r}, !.dying = t.dying \ {r}, !.p = p,
                    !.aborted = t.aborted \/ t.sub[r] > 0, !.sub = sub]
  BY DEF Free, State
<1> HIDE DEF p, sub, v
<1>4. (t.aborted \/ t.sub[r] > 0) \in BOOLEAN
  OBVIOUS
<1>5. v \in State
  BY <1>1, <1>2, <1>3, <1>4 DEF State
<1>6. v.sub = sub /\ v.alive = t.alive \ {r}
  BY <1>3 DEF State
<1>7. SameGrabs(t, v) /\ v.dropped = t.dropped /\ v.loop = t.loop /\ v.mode = t.mode /\ v.timer = t.timer
  BY <1>3 DEF State, SameGrabs
<1> QED BY <1>2, <1>5, <1>6, <1>7 DEF v

\* What the killed handler of g does to the windows, the submaps and the mode,
\* with the slots in b marked
Killed(t, v, g, b, m) ==
  /\ Fewer(t.grabs, v.grabs, m)
  /\ v.alive = IF g.handler = "grabmenu" THEN t.alive \ {g.holder} ELSE t.alive
  /\ v.dropped = t.dropped /\ v.loop = t.loop
  /\ \A r \in Frames \cup {Root} :
       v.sub[r] = IF g.handler = "submap" /\ g.holder = r THEN 0 ELSE t.sub[r]
  /\ \/ /\ m = b /\ v.mode = t.mode /\ v.timer = t.timer
        /\ ~(g.handler = "resize" /\ t.mode = g.holder)
     \/ /\ g.handler = "resize" /\ t.mode = g.holder /\ TopOf(t, "resize", m)
        /\ v.mode = NULL /\ v.timer = "none"
     \/ /\ g.handler = "pointer" /\ m = b /\ v.mode = NULL /\ v.timer # "mode"

\* The handler of a grab for resizing that is killed ends the mode.
LEMMA ResizeKilled ==
  ASSUME NEW t \in State, NEW g \in Entry, g.handler = "resize"
  PROVE  LET v == KilledHandler(t, g)
         IN v \in State /\ (Settled(t) => Settled(v)) /\ \E m : Killed(t, v, g, {}, m)
<1> DEFINE v == KilledHandler(t, g)
<1>1. v = IF t.mode = g.holder THEN EndMode(t) ELSE t
  BY DEF KilledHandler, cancel_moveres
<1>2. g.holder \in Frames /\ g.holder # NULL
  BY GrabAssumption DEF Entry, HolderOf, Regions
<1> HIDE DEF v
<1>3. CASE t.mode = g.holder
  <2>1. /\ v \in State /\ (Settled(t) => Settled(v)) /\ SameBut(t, v)
        /\ v.mode = NULL /\ v.timer = "none"
        /\ \E m : Fewer(t.grabs, v.grabs, m) /\ TopOf(t, "resize", m)
    BY <1>1, <1>2, <1>3, EndModeFacts
  <2>2. PICK m : Fewer(t.grabs, v.grabs, m) /\ TopOf(t, "resize", m)
    BY <2>1
  <2>3. Killed(t, v, g, {}, m)
    BY <1>3, <2>1, <2>2 DEF Killed, SameBut
  <2> QED BY <2>1, <2>3 DEF v
<1>4. CASE t.mode # g.holder
  <2>1. v = t /\ t.grabs \in Seq(Entry)
    BY <1>1, <1>4 DEF State
  <2>2. Fewer(t.grabs, v.grabs, {})
    BY <2>1, FewerSame
  <2>3. Killed(t, v, g, {}, {})
    BY <1>4, <2>1, <2>2 DEF Killed
  <2> QED BY <2>1, <2>3 DEF v
<1> QED BY <1>3, <1>4

\* The handler of the pointer's grab that is killed forgets what the pointer holds.
LEMMA PointerKilled ==
  ASSUME NEW t \in State, NEW g \in Entry, g.handler = "pointer"
  PROVE  LET v == KilledHandler(t, g)
         IN v \in State /\ SameGrabs(t, v) /\ Killed(t, v, g, {}, {})
<1> DEFINE v == KilledHandler(t, g)
           u == IF t.p.drag = "resize" THEN p_moveres_end(t) ELSE t
           p == [[u.p EXCEPT !.reg = NULL] EXCEPT !.state = "no"]
<1>1. /\ u \in State /\ SameGrabs(t, u) /\ SameBut(t, u)
      /\ \/ u.mode = t.mode /\ u.timer = t.timer
         \/ u.mode = NULL /\ u.timer # "mode"
  <2>1. CASE t.p.drag = "resize" /\ t.p.reg # NULL /\ t.mode = t.p.reg
    <3> DEFINE timer == IF t.timer = "mode" THEN "idle" ELSE t.timer
    <3>1. timer \in {"none", "mode", "idle"} /\ timer # "mode"
      BY DEF State
    <3>2. u = WithMode(t, NULL, timer)
      BY <2>1 DEF p_moveres_end, WithMode
    <3>3. NULL \in Frames \cup {NULL}
      OBVIOUS
    <3> HIDE DEF timer, u
    <3>4. /\ u \in State /\ SameGrabs(t, u) /\ SameBut(t, u)
          /\ u.mode = NULL /\ u.timer = timer
      BY <3>1, <3>2, <3>3, SetMode
    <3> QED BY <3>1, <3>4
  <2>2. CASE ~(t.p.drag = "resize" /\ t.p.reg # NULL /\ t.mode = t.p.reg)
    <3>1. u = t
      BY <2>2 DEF p_moveres_end
    <3> HIDE DEF u
    <3> QED BY <3>1 DEF SameGrabs, SameBut
  <2> QED BY <2>1, <2>2
<1>2. v = finish_pointer([u EXCEPT !.p.reg = NULL])
  BY DEF KilledHandler, pointer_grab_killed
<1> HIDE DEF u
<1>3. p \in Pointer
  BY <1>1 DEF State, Pointer
<1>4. v = WithPointer(u, p)
  <2>1. [u EXCEPT !.p.reg = NULL] = [u EXCEPT !.p = [u.p EXCEPT !.reg = NULL]]
    OBVIOUS
  <2> DEFINE q == [u.p EXCEPT !.reg = NULL]
             w == [u EXCEPT !.p = q]
  <2>2. w.p = q
    BY <1>1 DEF State
  <2>3. [w EXCEPT !.p.state = "no"] = [w EXCEPT !.p = p]
    BY <2>2
  <2>4. [w EXCEPT !.p = p] = [u EXCEPT !.p = p]
    BY <1>1 DEF State
  <2> QED BY <1>2, <2>1, <2>3, <2>4 DEF finish_pointer, WithPointer
<1> HIDE DEF p, v
<1>5. v \in State /\ SameGrabs(u, v) /\ SameBut(u, v) /\ v.mode = u.mode /\ v.timer = u.timer
  BY <1>1, <1>3, <1>4, SetPointer
<1>6. SameGrabs(t, v)
  BY <1>1, <1>5 DEF SameGrabs
<1>7. Fewer(t.grabs, v.grabs, {})
  BY <1>5, <1>6, SameGrabsFacts
<1>8. Killed(t, v, g, {}, {})
  BY <1>1, <1>5, <1>7 DEF Killed, SameBut
<1> QED BY <1>1, <1>5, <1>6, <1>8 DEF SameBut, v

\* The handlers of other grabs that are killed; a menu goes with its grab.
LEMMA OtherKilled ==
  ASSUME NEW t \in State, NEW g \in Entry, g.handler \notin {"resize", "pointer"}
  PROVE  LET v == KilledHandler(t, g)
         IN v \in State /\ (Settled(t) => Settled(v)) /\ Killed(t, v, g, {}, {})
<1> DEFINE v == KilledHandler(t, g)
<1>1. t.grabs \in Seq(Entry) /\ t.sub \in [Regions -> 0 .. MaxSub] /\ Frames \cup {Root} \subseteq Regions
  BY DEF State, Regions
<1>2. CASE g.handler = "submap"
  <2>1. g.holder \in Frames \cup {Root}
    BY <1>2 DEF Entry, HolderOf
  <2> DEFINE sub == [t.sub EXCEPT ![g.holder] = 0]
  <2>2. v = [t EXCEPT !.sub = sub]
    BY <1>2 DEF KilledHandler, clear_subs
  <2>3. /\ sub \in [Regions -> 0 .. MaxSub] /\ sub[g.holder] = 0
        /\ \A r \in Regions : r # g.holder => sub[r] = t.sub[r]
    BY <1>1, <2>1 DEF MaxSub
  <2> HIDE DEF sub, v
  <2>4. v \in State
    BY <2>2, <2>3 DEF State
  <2>5. /\ SameGrabs(t, v) /\ v.sub = sub /\ v.alive = t.alive /\ v.dropped = t.dropped
        /\ v.loop = t.loop /\ v.mode = t.mode /\ v.timer = t.timer
    BY <2>2 DEF State, SameGrabs
  <2>6. (Settled(t) => Settled(v)) /\ Fewer(t.grabs, v.grabs, {})
    BY <2>4, <2>5, SameGrabsFacts
  <2>7. Killed(t, v, g, {}, {})
    BY <1>1, <1>2, <2>3, <2>5, <2>6 DEF Killed
  <2> QED BY <2>4, <2>6, <2>7 DEF v
<1>3. CASE g.handler = "grabmenu"
  <2>1. g.holder \in Menus /\ g.holder \in Regions \ {Root} /\ g.holder \notin Frames \cup {Root}
    BY <1>3, GrabAssumption DEF Entry, HolderOf, Regions
  <2> DEFINE u == Free(t, g.holder)
  <2>2. /\ u \in State /\ SameGrabs(t, u) /\ u.alive = t.alive \ {g.holder}
        /\ u.dropped = t.dropped /\ u.loop = t.loop /\ u.mode = t.mode /\ u.timer = t.timer
        /\ \A q \in Regions : q # g.holder => u.sub[q] = t.sub[q]
    BY <2>1, FreeFacts
  <2>3. v = Settle(u)
    BY <1>3 DEF KilledHandler
  <2> HIDE DEF u, v
  <2>4. /\ v \in State /\ (Settled(u) => Matches(v)) /\ Fewer(u.grabs, v.grabs, {})
        /\ SameBut(u, v) /\ SameMode(u, v)
    BY <2>2, <2>3, SettleFacts
  <2>5. Settled(t) => Settled(u)
    BY <2>2, SameGrabsFacts
  <2>6. Killed(t, v, g, {}, {})
    BY <1>1, <1>3, <2>1, <2>2, <2>4 DEF Killed, SameGrabs, SameBut, SameMode
  <2> QED BY <2>4, <2>5, <2>6 DEF v, Settled
<1>4. CASE g.handler \notin {"submap", "grabmenu"}
  <2>1. v = t
    BY <1>4 DEF KilledHandler
  <2>2. Fewer(t.grabs, t.grabs, {})
    BY <1>1, FewerSame
  <2> HIDE DEF v
  <2>3. Killed(t, v, g, {}, {})
    BY <1>4, <2>1, <2>2 DEF Killed
  <2> QED BY <2>1, <2>3 DEF v
<1> QED BY <1>2, <1>3, <1>4

\* Whatever grab is killed.
LEMMA KilledFacts ==
  ASSUME NEW t \in State, NEW g \in Entry
  PROVE  LET v == KilledHandler(t, g)
         IN v \in State /\ (Settled(t) => Settled(v)) /\ \E m : Killed(t, v, g, {}, m)
<1> DEFINE v == KilledHandler(t, g)
<1> HIDE DEF v
<1>1. CASE g.handler = "resize"
  BY <1>1, ResizeKilled DEF v
<1>2. CASE g.handler = "pointer"
  <2>1. v \in State /\ SameGrabs(t, v) /\ Killed(t, v, g, {}, {})
    BY <1>2, PointerKilled DEF v
  <2>2. Settled(t) => Settled(v)
    BY <2>1, SameGrabsFacts
  <2> QED BY <2>1, <2>2 DEF v
<1>3. CASE g.handler \notin {"resize", "pointer"}
  BY <1>3, OtherKilled DEF v
<1> QED BY <1>1, <1>2, <1>3

\* mark_for_removal(grab, TRUE) of a grab that is not marked: the handler, and
\* its slot with what it marks.
LEMMA KillFacts ==
  ASSUME NEW t \in State, Matches(t), NEW i \in Live(t)
  PROVE  LET v == Kill(t, i)
         IN v \in State /\ Matches(v) /\ \E m : i \in m /\ Killed(t, v, t.grabs[i], {i}, m)
<1> DEFINE u == Marked(t, i)
           g == t.grabs[i]
           w == KilledHandler(u, g)
           v == Settle(w)
<1>1. /\ t.grabs \in Seq(Entry) /\ i \in Slots(t) /\ ~t.grabs[i].remove /\ i \in Nat
      /\ Slots(t) = 1 .. Len(t.grabs) /\ Len(t.grabs) \in Nat
  BY DEF State, Live, Slots
<1>2. Kill(t, i) = v
  BY <1>1 DEF Kill, Marked
<1>3. /\ u \in State /\ Settled(u) /\ Fewer(t.grabs, u.grabs, {i})
      /\ SameBut(t, u) /\ SameMode(t, u) /\ Len(u.grabs) = Len(t.grabs)
  BY <1>1, MarkedFacts DEF Settled
<1>4. g \in Entry
  BY <1>1
<1> HIDE DEF u, g
<1>5. w \in State /\ Settled(w) /\ \E m : Killed(u, w, g, {}, m)
  BY <1>3, <1>4, KilledFacts
<1>6. PICK m : Killed(u, w, g, {}, m)
  BY <1>5
<1> HIDE DEF w
<1>7. /\ v \in State /\ Matches(v) /\ Fewer(w.grabs, v.grabs, {})
      /\ SameBut(w, v) /\ SameMode(w, v)
  BY <1>5, SettleFacts
<1> HIDE DEF v
<1> DEFINE n == {i} \cup m
<1>8. Fewer(t.grabs, v.grabs, n)
  <2>1. Fewer(t.grabs, w.grabs, n)
    BY <1>1, <1>3, <1>6, FewerTwice DEF Killed
  <2>2. Fewer(t.grabs, v.grabs, n \cup {})
    BY <1>1, <1>7, <2>1, FewerTwice
  <2> QED BY <2>2
<1>9. ASSUME g.handler = "resize", TopOf(u, "resize", m) PROVE TopOf(t, "resize", n)
  <2>1. u.grabs \in Seq(Entry) /\ Slots(u) = Slots(t)
    BY <1>1, <1>3 DEF State, Slots
  <2>2. \A j \in Slots(t) : u.grabs[j].handler = t.grabs[j].handler
    BY <1>1, <1>3 DEF Fewer
  <2> QED BY <1>1, <1>9, <2>1, <2>2 DEF TopOf, g
<1>10. Killed(t, v, g, {i}, n)
  <2>1. /\ v.alive = IF g.handler = "grabmenu" THEN t.alive \ {g.holder} ELSE t.alive
        /\ v.dropped = t.dropped /\ v.loop = t.loop
    BY <1>3, <1>6, <1>7 DEF Killed, SameBut
  <2>2. \A r \in Frames \cup {Root} :
          v.sub[r] = IF g.handler = "submap" /\ g.holder = r THEN 0 ELSE t.sub[r]
    BY <1>3, <1>6, <1>7 DEF Killed, SameBut
  <2>3. v.mode = w.mode /\ v.timer = w.timer /\ u.mode = t.mode /\ u.timer = t.timer
    BY <1>3, <1>7 DEF SameMode
  <2>4. \/ /\ n = {i} /\ v.mode = t.mode /\ v.timer = t.timer
           /\ ~(g.handler = "resize" /\ t.mode = g.holder)
        \/ /\ g.handler = "resize" /\ t.mode = g.holder /\ TopOf(t, "resize", n)
           /\ v.mode = NULL /\ v.timer = "none"
        \/ g.handler = "pointer" /\ n = {i} /\ v.mode = NULL /\ v.timer # "mode"
    BY <1>6, <1>9, <2>3 DEF Killed
  <2> HIDE DEF n
  <2> QED BY <1>8, <2>1, <2>2, <2>4 DEF Killed
<1> QED BY <1>2, <1>7, <1>10 DEF g

\* The grabs that stay are those that were there and not marked.
LEMMA LiveFewer ==
  ASSUME NEW t \in State, NEW v \in State, NEW m, Fewer(t.grabs, v.grabs, m)
  PROVE  /\ Live(v) = Live(t) \ m
         /\ \A i \in Live(v) : v.grabs[i].holder = t.grabs[i].holder /\ v.grabs[i].handler = t.grabs[i].handler
         /\ Len(v.grabs) <= Len(t.grabs)
<1>1. /\ t.grabs \in Seq(Entry) /\ Slots(t) = 1 .. Len(t.grabs) /\ Len(t.grabs) \in Nat
      /\ v.grabs \in Seq(Entry) /\ Slots(v) = 1 .. Len(v.grabs) /\ Len(v.grabs) \in Nat
      /\ Len(v.grabs) <= Len(t.grabs)
  BY DEF State, Slots, Fewer
<1>2. ASSUME NEW i \in Live(v)
      PROVE  /\ i \in Live(t) /\ i \notin m
             /\ v.grabs[i].holder = t.grabs[i].holder /\ v.grabs[i].handler = t.grabs[i].handler
  <2>1. i \in 1 .. Len(v.grabs) /\ i \in 1 .. Len(t.grabs) /\ ~v.grabs[i].remove
    BY <1>1 DEF Live
  <2> QED BY <1>1, <2>1 DEF Fewer, Live
<1>3. ASSUME NEW i \in Live(t), i \notin m PROVE i \in Live(v)
  <2>1. i \in 1 .. Len(t.grabs) /\ ~t.grabs[i].remove
    BY <1>1 DEF Live
  <2>2. i \in 1 .. Len(v.grabs)
    BY <1>1, <1>3, <2>1 DEF Fewer
  <2> QED BY <1>1, <1>3, <2>1, <2>2 DEF Fewer, Live
<1>4. Live(v) = Live(t) \ m
  BY <1>2, <1>3
<1> QED BY <1>1, <1>2, <1>4

\* The live grabs of a handler when there are fewer.
LEMMA OfFewer ==
  ASSUME NEW t \in State, NEW v \in State, NEW m, Fewer(t.grabs, v.grabs, m), NEW h
  PROVE  Of(v, h) = Of(t, h) \ m
<1>1. /\ Live(v) = Live(t) \ m
      /\ \A i \in Live(v) : v.grabs[i].handler = t.grabs[i].handler
  BY LiveFewer
<1> QED BY <1>1 DEF Of

\* With fewer grabs the state stays sound if the holders live.
LEMMA FewerSound ==
  ASSUME NEW t, Sound(t), NEW v \in State, NEW m, Fewer(t.grabs, v.grabs, m),
         Root \in v.alive, \A i \in Live(v) : t.grabs[i].holder \in v.alive
  PROVE  Sound(v)
<1>1. /\ Live(v) = Live(t) \ m
      /\ \A i \in Live(v) : v.grabs[i].holder = t.grabs[i].holder
      /\ Of(v, "grabmenu") = Of(t, "grabmenu") \ m
      /\ Len(v.grabs) <= Len(t.grabs)
  <2>1. t \in State
    BY DEF Sound
  <2> QED BY <2>1, LiveFewer, OfFewer
<1>2. Len(v.grabs) <= MAX_GRABS
  <2>1. t.grabs \in Seq(Entry) /\ v.grabs \in Seq(Entry)
    BY DEF Sound, State
  <2>2. Len(t.grabs) \in Nat /\ Len(v.grabs) \in Nat
    BY <2>1
  <2> QED BY <1>1, <2>2, GrabAssumption DEF Sound
<1>3. \A i \in Live(v) : v.grabs[i].holder \in v.alive
  BY <1>1
<1>4. \A i, j \in Of(v, "grabmenu") : v.grabs[i].holder = v.grabs[j].holder => i = j
  <2>1. \A i \in Of(v, "grabmenu") : i \in Of(t, "grabmenu") /\ v.grabs[i].holder = t.grabs[i].holder
    BY <1>1 DEF Of
  <2> QED BY <2>1 DEF Sound
<1> QED BY <1>2, <1>3, <1>4 DEF Sound

\* A grab that is marked already is settled only.
LEMMA KillMarked ==
  ASSUME NEW t, t \in State, Matches(t), NEW i \in Slots(t), t.grabs[i].remove
  PROVE  Kill(t, i) = t
BY DEF Kill, Settle, Matches

\* A grab that is killed leaves a sound state and the right X grab.
LEMMA KillSound ==
  ASSUME NEW t, Sound(t), Matches(t), NEW i \in Slots(t)
  PROVE  LET v == Kill(t, i)
         IN /\ Sound(v) /\ Matches(v) /\ v.loop = t.loop /\ v.alive \subseteq t.alive
            /\ \E m : i \in m /\ Fewer(t.grabs, v.grabs, m)
<1> DEFINE v == Kill(t, i)
           g == t.grabs[i]
<1>1. /\ t \in State /\ t.grabs \in Seq(Entry) /\ Slots(t) = 1 .. Len(t.grabs)
      /\ Len(t.grabs) \in Nat /\ g \in Entry
  BY DEF Sound, State, Slots
<1>2. CASE g.remove
  <2>1. v = t
    BY <1>1, <1>2, KillMarked
  <2>2. Fewer(t.grabs, v.grabs, {i})
    BY <1>1, <1>2, <2>1 DEF Fewer
  <2> QED BY <2>1, <2>2
<1>3. CASE ~g.remove
  <2>1. i \in Live(t)
    BY <1>3 DEF Live
  <2>2. v \in State /\ Matches(v) /\ \E m : i \in m /\ Killed(t, v, g, {i}, m)
    BY <1>1, <2>1, KillFacts
  <2>3. PICK m : i \in m /\ Killed(t, v, g, {i}, m)
    BY <2>2
  <2> HIDE DEF v, g
  <2>4. /\ Fewer(t.grabs, v.grabs, m) /\ v.loop = t.loop /\ v.alive \subseteq t.alive
        /\ v.alive = IF g.handler = "grabmenu" THEN t.alive \ {g.holder} ELSE t.alive
    BY <2>3 DEF Killed
  <2>5. Root \in v.alive
    <3>1. g.handler = "grabmenu" => g.holder # Root
      BY <1>1, GrabAssumption DEF Entry, HolderOf
    <3> QED BY <2>4, <3>1 DEF Sound
  <2>6. Live(v) = Live(t) \ m
    BY <1>1, <2>2, <2>4, LiveFewer
  <2>7. ASSUME NEW j \in Live(v) PROVE t.grabs[j].holder \in v.alive
    <3>1. j \in Live(t) /\ j # i /\ t.grabs[j].holder \in t.alive /\ t.grabs[j] \in Entry
      BY <1>1, <2>3, <2>6 DEF Sound, Live
    <3>2. ASSUME g.handler = "grabmenu", t.grabs[j].holder = g.holder PROVE FALSE
      <4>1. g.holder \in Menus
        BY <1>1, <3>2 DEF Entry, HolderOf
      <4>2. t.grabs[j].handler = "grabmenu"
        BY <3>1, <3>2, <4>1, GrabAssumption DEF Entry, HolderOf, Grab
      <4>3. j \in Of(t, "grabmenu") /\ i \in Of(t, "grabmenu")
        BY <2>1, <3>1, <3>2, <4>2 DEF Of, g
      <4> QED BY <3>1, <3>2, <4>3 DEF Sound, g
    <3> QED BY <2>4, <3>1, <3>2
  <2>8. Sound(v)
    BY <2>2, <2>4, <2>5, <2>7, FewerSound
  <2> QED BY <2>2, <2>3, <2>4, <2>8 DEF v
<1> QED BY <1>2, <1>3

\* A grab that is killed leaves resize modes with their grabs.
LEMMA KillResize ==
  ASSUME NEW t, Sound(t), ResizeSound(t), Phases(t), NEW i \in Live(t),
         NEW v \in State, NEW m, i \in m, Killed(t, v, t.grabs[i], {i}, m)
  PROVE  ResizeSound(v)
<1> DEFINE g == t.grabs[i]
<1>1. /\ t \in State /\ t.grabs \in Seq(Entry) /\ Slots(t) = 1 .. Len(t.grabs)
      /\ Len(t.grabs) \in Nat /\ g \in Entry /\ i \in Slots(t)
  BY DEF Sound, State, Slots, Live
<1>2. v.grabs \in Seq(Entry) /\ Slots(v) = 1 .. Len(v.grabs) /\ Len(v.grabs) \in Nat
  BY DEF State, Slots
<1>3. Fewer(t.grabs, v.grabs, m)
  BY DEF Killed
<1>4. /\ Of(v, "resize") = Of(t, "resize") \ m
      /\ \A j \in Of(v, "resize") : v.grabs[j].holder = t.grabs[j].holder
  <2>1. Of(v, "resize") = Of(t, "resize") \ m
    BY <1>1, <1>3, OfFewer
  <2>2. \A j \in Live(v) : v.grabs[j].holder = t.grabs[j].holder
    BY <1>1, <1>3, LiveFewer
  <2> QED BY <2>1, <2>2 DEF Of
<1>5. ASSUME NEW j \in Slots(v), NEW k \in Slots(v), j < k,
             v.grabs[j].handler = "resize", v.grabs[k].handler = "resize"
      PROVE  v.grabs[j].remove
  <2>1. j \in Slots(t) /\ k \in Slots(t)
    BY <1>1, <1>2, <1>3 DEF Fewer
  <2>2. t.grabs[j].remove
    BY <1>2, <1>3, <1>5, <2>1 DEF Fewer, ResizeSound
  <2> QED BY <1>2, <1>3, <2>2 DEF Fewer
<1>6. \A j, k \in Slots(t) :
        j < k /\ t.grabs[j].handler = "resize" /\ t.grabs[k].handler = "resize" => t.grabs[j].remove
  BY DEF ResizeSound
<1>7. \A r \in Frames :
        (\E j \in Of(t, "resize") : t.grabs[j].holder = r) <=> (t.mode = r /\ t.timer = "mode")
  BY DEF ResizeSound
<1>8. t.timer = "mode" => t.mode # NULL
  BY DEF ResizeSound
<1>9. CASE m = {i} /\ v.mode = t.mode /\ v.timer = t.timer /\ ~(g.handler = "resize" /\ t.mode = g.holder)
  <2>1. i \notin Of(t, "resize")
    <3>1. SUFFICES ASSUME g.handler = "resize" PROVE FALSE
      BY DEF Of
    <3>2. g.holder \in Frames /\ i \in Of(t, "resize")
      BY <1>1, <3>1 DEF Entry, HolderOf, Of
    <3> QED BY <1>7, <1>9, <3>1, <3>2
  <2>2. Of(v, "resize") = Of(t, "resize")
    BY <1>4, <1>9, <2>1
  <2>3. \A r \in Frames :
          (\E j \in Of(v, "resize") : v.grabs[j].holder = r) <=> (v.mode = r /\ v.timer = "mode")
    BY <1>4, <1>7, <1>9, <2>2
  <2> QED BY <1>5, <1>8, <1>9, <2>3 DEF ResizeSound
<1>10. ASSUME Of(v, "resize") = {}, v.mode = NULL, v.timer # "mode" PROVE ResizeSound(v)
  BY <1>5, <1>10 DEF ResizeSound
<1>11. CASE g.handler = "resize" /\ TopOf(t, "resize", m) /\ v.mode = NULL /\ v.timer = "none"
  <2>1. ASSUME NEW j \in Of(t, "resize") PROVE j \in m
    <3>1. j \in Slots(t) /\ t.grabs[j].handler = "resize" /\ ~t.grabs[j].remove
      BY DEF Of, Live
    <3>2. PICK k \in m : k \in Slots(t) /\ t.grabs[k].handler = "resize" /\ j <= k
      BY <1>11, <3>1 DEF TopOf
    <3>3. ~(j < k)
      BY <1>6, <3>1, <3>2
    <3> QED BY <1>1, <3>1, <3>2, <3>3
  <2> QED BY <1>4, <1>10, <1>11, <2>1
<1>12. CASE g.handler = "pointer" /\ m = {i} /\ v.mode = NULL /\ v.timer # "mode"
  <2>1. t.loop # "main"
    BY <1>12 DEF Phases, Of
  <2>2. 1 \in Of(t, "pointer") /\ \A j \in Slots(t) \ {1} : t.grabs[j].handler = "quote"
    BY <2>1 DEF Phases
  <2>3. Of(t, "resize") = {}
    BY <2>2 DEF Of, Live
  <2> QED BY <1>4, <1>10, <1>12, <2>3
<1> QED BY <1>9, <1>11, <1>12 DEF Killed

\* A grab that is killed leaves submaps with their grabs.
LEMMA KillSubmap ==
  ASSUME NEW t, Sound(t), SubmapSound(t), NEW i \in Live(t),
         NEW v \in State, NEW m, i \in m, Killed(t, v, t.grabs[i], {i}, m)
  PROVE  SubmapSound(v)
<1> DEFINE g == t.grabs[i]
<1>1. t \in State /\ Fewer(t.grabs, v.grabs, m)
  BY DEF Sound, Killed
<1>2. /\ Of(v, "submap") = Of(t, "submap") \ m
      /\ \A j \in Of(v, "submap") : v.grabs[j].holder = t.grabs[j].holder
  BY <1>1, LiveFewer, OfFewer DEF Of
<1>3. ASSUME NEW r \in Frames \cup {Root}, v.sub[r] > 0
      PROVE  \E j \in Of(v, "submap") : v.grabs[j].holder = r
  <2>1. t.sub[r] > 0 /\ ~(g.handler = "submap" /\ g.holder = r)
    BY <1>3 DEF Killed
  <2>2. PICK j \in Of(t, "submap") : t.grabs[j].holder = r
    BY <2>1 DEF SubmapSound
  <2>3. t.grabs[j].handler = "submap" /\ j # i
    BY <2>1, <2>2 DEF Of
  <2>4. j \notin m
    BY <2>3 DEF Killed, TopOf
  <2> QED BY <1>2, <2>2, <2>4
<1> QED BY <1>3 DEF SubmapSound

\* A grab that is killed keeps the modes and the phases of the pointer.
LEMMA KillModes ==
  ASSUME NEW t, Sound(t), Matches(t), ModesSound(t), Phases(t), NEW i \in Slots(t)
  PROVE  LET v == Kill(t, i)
         IN ModesSound(v) /\ (t.loop = "main" => Phases(v))
<1> DEFINE v == Kill(t, i)
<1>1. t \in State
  BY DEF Sound
<1>2. CASE t.grabs[i].remove
  <2>1. v = t
    BY <1>1, <1>2, KillMarked
  <2> QED BY <2>1
<1>3. CASE ~t.grabs[i].remove
  <2>1. i \in Live(t)
    BY <1>3 DEF Live
  <2>2. v \in State /\ \E m : i \in m /\ Killed(t, v, t.grabs[i], {i}, m)
    BY <1>1, <2>1, KillFacts
  <2>3. PICK m : i \in m /\ Killed(t, v, t.grabs[i], {i}, m)
    BY <2>2
  <2> HIDE DEF v
  <2>4. Fewer(t.grabs, v.grabs, m) /\ v.loop = t.loop /\ v.dropped = t.dropped
    BY <2>3 DEF Killed
  <2>5. t.loop = "main" => Phases(v)
    BY <1>1, <2>2, <2>4, OfFewer DEF Phases
  <2>6. CASE t.dropped
    BY <2>4, <2>5, <2>6 DEF ModesSound, v
  <2>7. CASE ~t.dropped
    <3>1. ResizeSound(t) /\ SubmapSound(t)
      BY <2>7 DEF ModesSound
    <3>2. ResizeSound(v) /\ SubmapSound(v)
      BY <2>1, <2>2, <2>3, <3>1, KillResize, KillSubmap
    <3> QED BY <2>5, <3>2 DEF ModesSound, v
  <2> QED BY <2>6, <2>7
<1> QED BY <1>2, <1>3

-----------------------------------------------------------------------------
(* The holder of grabs goes *)

\* The loop over the slots, up to the n topmost
Slotwise(t, reg, f, n) ==
  f = [k \in 0 .. n |->
         IF k = 0 THEN t
         ELSE LET i == Len(t.grabs) + 1 - k
              IN IF i \in Slots(f[k - 1]) /\ f[k - 1].grabs[i].holder = reg
                 THEN Kill(f[k - 1], i) ELSE f[k - 1]]

\* One turn of the loop
Turn(t, reg, u, k) ==
  LET i == Len(t.grabs) + 1 - k
  IN IF i \in Slots(u) /\ u.grabs[i].holder = reg THEN Kill(u, i) ELSE u

\* What each turn of that loop does.
LEMMA LoopTurns ==
  ASSUME NEW t, NEW reg, NEW f, NEW n \in Nat, Slotwise(t, reg, f, n)
  PROVE  f[0] = t /\ \A k \in 1 .. n : f[k] = Turn(t, reg, f[k - 1], k)
<1>1. ASSUME NEW k \in 0 .. n
      PROVE  f[k] = IF k = 0 THEN t ELSE Turn(t, reg, f[k - 1], k)
  BY DEF Slotwise, Turn
<1>2. 0 \in 0 .. n /\ \A k \in 1 .. n : k \in 0 .. n /\ k # 0
  OBVIOUS
<1> QED BY <1>1, <1>2

\* The loop of the function exists for any number of turns.
LEMMA LoopEnds ==
  ASSUME NEW t, NEW reg, NEW n \in Nat
  PROVE  \E f : Slotwise(t, reg, f, n)
<1> DEFINE T == {m \in Nat : ~\E f : Slotwise(t, reg, f, m)}
<1>1. SUFFICES ASSUME T # {} PROVE FALSE
  OBVIOUS
<1>2. PICK m \in T : \A k \in T : m <= k
  <2>1. T \in SUBSET Nat
    OBVIOUS
  <2> HIDE DEF T
  <2> QED BY <1>1, <2>1, NatMin
<1>3. m # 0
  <2>1. Slotwise(t, reg, [k \in 0 .. 0 |-> t], 0)
    BY DEF Slotwise
  <2> QED BY <2>1
<1>4. m - 1 \in Nat /\ m - 1 \notin T
  BY <1>2, <1>3
<1>5. PICK f : Slotwise(t, reg, f, m - 1)
  BY <1>4
<1> DEFINE g == [k \in 0 .. m |-> IF k = m THEN Turn(t, reg, f[m - 1], m) ELSE f[k]]
<1>6. Slotwise(t, reg, g, m)
  <2>1. f[0] = t /\ \A k \in 1 .. m - 1 : f[k] = Turn(t, reg, f[k - 1], k)
    BY <1>4, <1>5, LoopTurns
  <2>2. ASSUME NEW k \in 0 .. m
        PROVE  g[k] = IF k = 0 THEN t ELSE Turn(t, reg, g[k - 1], k)
    <3>1. CASE k = 0
      BY <1>3, <2>1, <3>1
    <3>2. CASE k = m
      BY <1>3, <3>2
    <3>3. CASE k # 0 /\ k # m
      <4>1. k \in 1 .. m - 1 /\ g[k] = f[k] /\ g[k - 1] = f[k - 1]
        BY <1>4, <3>3
      <4> QED BY <2>1, <3>3, <4>1
    <3> QED BY <3>1, <3>2, <3>3
  <2>3. g = [k \in 0 .. m |-> IF k = 0 THEN t ELSE Turn(t, reg, g[k - 1], k)]
    <3>1. g = [k \in 0 .. m |-> g[k]]
      OBVIOUS
    <3> HIDE DEF g
    <3> QED BY <2>2, <3>1
  <2> HIDE DEF g
  <2> QED BY <2>3 DEF Slotwise, Turn
<1> QED BY <1>6

\* The slots of reg among the k topmost are not alive
HolderGone(t, u, reg, k) ==
  \A i \in Live(u) : i > Len(t.grabs) - k => u.grabs[i].holder # reg

\* What holds of each turn
Turned(t, u) ==
  /\ Sound(u) /\ Matches(u) /\ u.loop = t.loop /\ Root \in u.alive
  /\ Len(u.grabs) <= Len(t.grabs) /\ u.alive \subseteq t.alive
  /\ (t.loop = "main" /\ ModesSound(t) /\ Phases(t)) => (ModesSound(u) /\ Phases(u))

\* A turn at place k keeps the state sound and leaves no grab of reg up to k.
LEMMA TurnSound ==
  ASSUME NEW t, Sound(t), NEW reg, NEW u, Turned(t, u), NEW k \in 1 .. Len(t.grabs),
         HolderGone(t, u, reg, k - 1)
  PROVE  Turned(t, Turn(t, reg, u, k)) /\ HolderGone(t, Turn(t, reg, u, k), reg, k)
<1> DEFINE i == Len(t.grabs) + 1 - k
           v == Turn(t, reg, u, k)
<1>1. /\ t.grabs \in Seq(Entry) /\ Len(t.grabs) \in Nat
      /\ u \in State /\ u.grabs \in Seq(Entry) /\ Len(u.grabs) \in Nat /\ Slots(u) = 1 .. Len(u.grabs)
  BY DEF Sound, Turned, State, Slots
<1>2. i \in Nat /\ \A j \in Nat : j > Len(t.grabs) - k => j = i \/ j > Len(t.grabs) - (k - 1)
  BY <1>1
<1>3. CASE i \in Slots(u) /\ u.grabs[i].holder = reg
  <2>1. v = Kill(u, i)
    BY <1>3 DEF Turn
  <2> HIDE DEF v
  <2>2. /\ Sound(v) /\ Matches(v) /\ v.loop = u.loop /\ v.alive \subseteq u.alive
        /\ \E m : i \in m /\ Fewer(u.grabs, v.grabs, m)
    BY <1>3, <2>1, KillSound DEF Turned
  <2>3. PICK m : i \in m /\ Fewer(u.grabs, v.grabs, m)
    BY <2>2
  <2>4. /\ Live(v) = Live(u) \ m /\ Len(v.grabs) <= Len(u.grabs)
        /\ \A j \in Live(v) : v.grabs[j].holder = u.grabs[j].holder
    <3>1. u \in State /\ v \in State
      BY <1>1, <2>2 DEF Sound
    <3> HIDE DEF i
    <3> QED BY <2>3, <3>1, LiveFewer
  <2>5. ASSUME NEW j \in Live(v), j > Len(t.grabs) - k PROVE v.grabs[j].holder # reg
    <3>1. j \in Live(u) /\ j \in Nat /\ j # i
      BY <1>1, <2>3, <2>4 DEF Live
    <3> QED BY <1>2, <2>4, <2>5, <3>1 DEF HolderGone
  <2>6. (t.loop = "main" /\ ModesSound(t) /\ Phases(t)) => (ModesSound(v) /\ Phases(v))
    BY <1>3, <2>1, KillModes DEF Turned
  <2>7. Len(v.grabs) <= Len(t.grabs)
    <3>1. v.grabs \in Seq(Entry) /\ Len(v.grabs) \in Nat
      BY <2>2 DEF Sound, State
    <3> QED BY <1>1, <2>4, <3>1 DEF Turned
  <2>8. Turned(t, v)
    BY <2>2, <2>6, <2>7 DEF Turned, Sound
  <2> QED BY <2>5, <2>8 DEF HolderGone, v
<1>4. CASE ~(i \in Slots(u) /\ u.grabs[i].holder = reg)
  <2>1. v = u
    BY <1>4 DEF Turn
  <2>2. ASSUME NEW j \in Live(u), j > Len(t.grabs) - k PROVE u.grabs[j].holder # reg
    <3>1. j \in Nat /\ j \in Slots(u)
      BY <1>1 DEF Live
    <3> QED BY <1>2, <1>4, <2>2, <3>1 DEF HolderGone
  <2> HIDE DEF v
  <2> QED BY <2>1, <2>2 DEF HolderGone, v
<1> QED BY <1>3, <1>4

\* do_holder_remove: no grab of reg is left, and all else is sound.
LEMMA HolderRemoveSound ==
  ASSUME NEW t, Sound(t), Matches(t), NEW reg
  PROVE  LET v == HolderRemove(t, reg)
         IN Turned(t, v) /\ \A i \in Live(v) : v.grabs[i].holder # reg
<1> DEFINE L == Len(t.grabs)
           f == CHOOSE g : Slotwise(t, reg, g, L)
<1>1. L \in Nat /\ Slots(t) = 1 .. L /\ t.grabs \in Seq(Entry)
  BY DEF Sound, State, Slots
<1>2. Slotwise(t, reg, f, L)
  BY <1>1, LoopEnds
<1>3. HolderRemove(t, reg) = f[L]
  BY DEF HolderRemove, Slotwise
<1> HIDE DEF f
<1>4. f[0] = t /\ \A k \in 1 .. L : f[k] = Turn(t, reg, f[k - 1], k)
  BY <1>1, <1>2, LoopTurns
<1> DEFINE T == {k \in 0 .. L : ~(Turned(t, f[k]) /\ HolderGone(t, f[k], reg, k))}
<1>5. T = {}
  <2>1. SUFFICES ASSUME T # {} PROVE FALSE
    OBVIOUS
  <2>2. PICK k \in T : \A j \in T : k <= j
    <3>1. T \in SUBSET Nat
      BY <1>1
    <3> HIDE DEF T
    <3> QED BY <2>1, <3>1, NatMin
  <2>3. k # 0
    <3>1. Turned(t, t)
      BY DEF Turned, Sound
    <3>2. HolderGone(t, t, reg, 0)
      BY <1>1 DEF HolderGone, Live
    <3> QED BY <1>4, <3>1, <3>2
  <2>4. k - 1 \in 0 .. L /\ k \in 1 .. L /\ k - 1 \notin T
    BY <1>1, <2>2, <2>3
  <2>5. Turned(t, f[k - 1]) /\ HolderGone(t, f[k - 1], reg, k - 1)
    BY <2>4
  <2>6. Turned(t, f[k]) /\ HolderGone(t, f[k], reg, k)
    BY <1>4, <2>4, <2>5, TurnSound
  <2> QED BY <2>6
<1>6. Turned(t, f[L]) /\ HolderGone(t, f[L], reg, L)
  BY <1>1, <1>5
<1>7. ASSUME NEW i \in Live(f[L]) PROVE f[L].grabs[i].holder # reg
  <2>1. f[L].grabs \in Seq(Entry)
    BY <1>6 DEF Turned, Sound, State
  <2>2. i \in Nat /\ i > L - L
    BY <1>1, <2>1 DEF Live, Slots
  <2> QED BY <1>6, <2>2 DEF HolderGone
<1> QED BY <1>3, <1>6, <1>7

\* What a region leaves behind: its grabs go with it, in the main loop with
\* what they stand for.
LEMMA DestroySound ==
  ASSUME NEW t, Sound(t), Matches(t), NEW r \in Regions \ {Root}
  PROVE  LET v == Destroy(t, r)
         IN /\ Sound(v) /\ Matches(v) /\ v.loop = t.loop
            /\ (t.loop = "main" /\ ModesSound(t) /\ Phases(t)) => (ModesSound(v) /\ Phases(v))
<1> DEFINE p == [t.p EXCEPT !.reg = IF @ = r THEN NULL ELSE @]
           u == WithPointer(t, p)
           w == HolderRemove(u, r)
           v == IF r \in w.alive THEN Free(w, r) ELSE w
<1>1. CASE r \notin t.alive
  BY <1>1 DEF Destroy
<1>2. CASE r \in t.alive
  <2>1. Destroy(t, r) = v
    <3>1. [t EXCEPT !.p.reg = IF @ = r THEN NULL ELSE @] = u
      BY DEF WithPointer
    <3> QED BY <1>2, <3>1 DEF Destroy
  <2>2. t \in State /\ p \in Pointer
    BY DEF Sound, State, Pointer
  <2> HIDE DEF p
  <2>3. /\ u \in State /\ SameGrabs(t, u) /\ SameBut(t, u)
        /\ u.mode = t.mode /\ u.timer = t.timer
    BY <2>2, SetPointer
  <2> HIDE DEF u
  <2>4. Sound(u) /\ Matches(u)
    <3>1. Matches(u) /\ Live(u) = Live(t)
      BY <2>2, <2>3, SameGrabsFacts DEF Live, Slots, SameGrabs
    <3> QED BY <2>3, <3>1 DEF Sound, SameGrabs, SameBut, Of
  <2>5. (ModesSound(t) <=> ModesSound(u)) /\ (Phases(t) <=> Phases(u))
    <3>1. Live(u) = Live(t) /\ Slots(u) = Slots(t) /\ u.grabs = t.grabs
      BY <2>3 DEF Live, Slots, SameGrabs
    <3>2. \A h : Of(u, h) = Of(t, h)
      BY <3>1 DEF Of
    <3>3. Phases(t) <=> Phases(u)
      BY <2>3, <3>1, <3>2 DEF Phases, SameBut, grab_held
    <3>4. ResizeSound(t) <=> ResizeSound(u)
      BY <2>3, <3>1, <3>2 DEF ResizeSound
    <3>5. SubmapSound(t) <=> SubmapSound(u)
      BY <2>3, <3>1, <3>2 DEF SubmapSound, SameBut
    <3> QED BY <2>3, <3>3, <3>4, <3>5 DEF ModesSound, SameBut
  <2>6. Turned(u, w) /\ \A i \in Live(w) : w.grabs[i].holder # r
    BY <2>4, HolderRemoveSound
  <2> HIDE DEF w
  <2>7. /\ Sound(w) /\ Matches(w) /\ w.loop = t.loop
        /\ (t.loop = "main" /\ ModesSound(t) /\ Phases(t)) => (ModesSound(w) /\ Phases(w))
    BY <2>3, <2>5, <2>6 DEF Turned, SameBut
  <2>8. CASE r \notin w.alive
    BY <2>1, <2>7, <2>8
  <2>9. CASE r \in w.alive
    <3> DEFINE x == Free(w, r)
    <3>1. /\ x \in State /\ SameGrabs(w, x) /\ x.alive = w.alive \ {r}
          /\ x.dropped = w.dropped /\ x.loop = w.loop /\ x.mode = w.mode /\ x.timer = w.timer
          /\ \A q \in Regions : q # r => x.sub[q] = w.sub[q]
          /\ x.sub[r] = 0
      BY <2>7, FreeFacts DEF Sound
    <3>2. v = x
      BY <2>9
    <3> HIDE DEF x, v
    <3>3. Live(x) = Live(w) /\ Slots(x) = Slots(w) /\ x.grabs = w.grabs
      BY <3>1 DEF Live, Slots, SameGrabs
    <3>4. \A h : Of(x, h) = Of(w, h)
      BY <3>3 DEF Of
    <3>5. Sound(x)
      BY <2>6, <2>7, <3>1, <3>3, <3>4 DEF Sound
    <3>6. Matches(x)
      BY <2>7, <3>1, SameGrabsFacts DEF Sound
    <3>7. Phases(w) => Phases(x)
      BY <3>1, <3>3, <3>4 DEF Phases, grab_held
    <3>8. ResizeSound(w) => ResizeSound(x)
      BY <3>1, <3>3, <3>4 DEF ResizeSound
    <3>9. SubmapSound(w) => SubmapSound(x)
      <4>1. Frames \cup {Root} \subseteq Regions
        BY DEF Regions
      <4>2. \A q \in Frames \cup {Root} : x.sub[q] > 0 => x.sub[q] = w.sub[q]
        BY <3>1, <4>1
      <4> QED BY <3>3, <3>4, <4>2 DEF SubmapSound
    <3>10. ModesSound(w) => ModesSound(x)
      BY <3>1, <3>8, <3>9 DEF ModesSound
    <3> QED BY <2>1, <2>7, <3>1, <3>2, <3>5, <3>6, <3>7, <3>10 DEF v
  <2> QED BY <2>8, <2>9
<1> QED BY <1>1, <1>2

-----------------------------------------------------------------------------
(* What handlers do: the state t on the way to v *)

\* Marks that neither end a mode nor leave a path without its grab
Harmless(t, m) ==
  \A i \in m \cap Live(t) :
    /\ t.grabs[i].handler # "resize"
    /\ t.grabs[i].handler = "submap" => t.sub[t.grabs[i].holder] = 0

\* Fewer grabs keep the modes if those that go are harmless.
LEMMA FewerModes ==
  ASSUME NEW t \in State, NEW v \in State, NEW m, Fewer(t.grabs, v.grabs, m), Harmless(t, m),
         ModesSound(t), v.mode = t.mode, v.timer = t.timer, v.sub = t.sub, v.dropped = t.dropped
  PROVE  ModesSound(v)
<1>1. /\ t.grabs \in Seq(Entry) /\ Slots(t) = 1 .. Len(t.grabs) /\ Len(t.grabs) \in Nat
      /\ v.grabs \in Seq(Entry) /\ Slots(v) = 1 .. Len(v.grabs) /\ Len(v.grabs) \in Nat
      /\ Len(v.grabs) <= Len(t.grabs)
  BY DEF State, Slots, Fewer
<1>2. \A j \in Live(v) : v.grabs[j].holder = t.grabs[j].holder
  BY LiveFewer
<1>3. Of(v, "resize") = Of(t, "resize")
  <2>1. Of(v, "resize") = Of(t, "resize") \ m
    BY OfFewer
  <2>2. Of(t, "resize") \cap m = {}
    BY DEF Harmless, Of
  <2> QED BY <2>1, <2>2
<1>4. Of(v, "submap") = Of(t, "submap") \ m
  BY OfFewer
<1>5. ASSUME ResizeSound(t) PROVE ResizeSound(v)
  <2>1. ASSUME NEW j \in Slots(v), NEW k \in Slots(v), j < k,
               v.grabs[j].handler = "resize", v.grabs[k].handler = "resize"
        PROVE  v.grabs[j].remove
    <3>1. j \in Slots(t) /\ k \in Slots(t)
      BY <1>1
    <3>2. t.grabs[j].remove
      BY <1>1, <1>5, <2>1, <3>1 DEF Fewer, ResizeSound
    <3> QED BY <1>1, <3>2 DEF Fewer
  <2>2. \A r \in Frames :
          (\E j \in Of(v, "resize") : v.grabs[j].holder = r) <=> (v.mode = r /\ v.timer = "mode")
    <3>1. \A j \in Of(v, "resize") : v.grabs[j].holder = t.grabs[j].holder
      BY <1>2 DEF Of
    <3> QED BY <1>3, <1>5, <3>1 DEF ResizeSound
  <2>3. v.timer = "mode" => v.mode # NULL
    BY <1>5 DEF ResizeSound
  <2> QED BY <2>1, <2>2, <2>3 DEF ResizeSound
<1>6. ASSUME SubmapSound(t) PROVE SubmapSound(v)
  <2>1. ASSUME NEW r \in Frames \cup {Root}, v.sub[r] > 0
        PROVE  \E j \in Of(v, "submap") : v.grabs[j].holder = r
    <3>1. t.sub[r] > 0
      BY <2>1
    <3>2. PICK j \in Of(t, "submap") : t.grabs[j].holder = r
      BY <1>6, <3>1 DEF SubmapSound
    <3>3. j \in Live(t) /\ t.grabs[j].handler = "submap"
      BY DEF Of
    <3>4. j \notin m
      <4>1. j \in m => t.sub[r] = 0
        BY <3>2, <3>3 DEF Harmless
      <4> QED BY <3>1, <4>1
    <3>5. j \in Of(v, "submap")
      BY <1>4, <3>4
    <3> QED BY <1>2, <3>2, <3>5 DEF Of
  <2> QED BY <2>1 DEF SubmapSound
<1> QED BY <1>5, <1>6 DEF ModesSound

\* Fewer grabs keep the phases unless the pointer's goes in its loop.
LEMMA FewerPhases ==
  ASSUME NEW t \in State, NEW v \in State, NEW m, Fewer(t.grabs, v.grabs, m),
         v.loop = t.loop, Phases(t), t.loop = "main" \/ 1 \notin m
  PROVE  Phases(v)
<1>1. /\ t.grabs \in Seq(Entry) /\ Slots(t) = 1 .. Len(t.grabs) /\ Len(t.grabs) \in Nat
      /\ v.grabs \in Seq(Entry) /\ Slots(v) = 1 .. Len(v.grabs) /\ Len(v.grabs) \in Nat
      /\ Len(v.grabs) <= Len(t.grabs)
  BY DEF State, Slots, Fewer
<1>2. Of(v, "pointer") = Of(t, "pointer") \ m
  BY OfFewer
<1>3. CASE t.loop = "main"
  BY <1>2, <1>3 DEF Phases
<1>4. CASE t.loop # "main"
  <2>1. 1 \in Of(v, "pointer")
    BY <1>2, <1>4 DEF Phases
  <2>2. grab_held(v)
    BY <1>1, <2>1 DEF Of, Live, grab_held
  <2>3. \A i \in Slots(v) \ {1} : v.grabs[i].handler = "quote"
    <3>1. \A i \in Slots(v) : i \in Slots(t) /\ v.grabs[i].handler = t.grabs[i].handler
      BY <1>1 DEF Fewer
    <3> QED BY <1>4, <3>1 DEF Phases
  <2> QED BY <1>4, <2>1, <2>2, <2>3 DEF Phases
<1> QED BY <1>3, <1>4

\* What a state owes to fields that differ
LEMMA SameSound ==
  ASSUME NEW t, Sound(t), NEW v \in State, v.grabs = t.grabs, t.alive \subseteq v.alive
  PROVE  Sound(v) /\ (v.xkb = t.xkb /\ v.input_mode = t.input_mode /\ Matches(t) => Matches(v))
<1>1. Live(v) = Live(t)
  BY DEF Live, Slots
<1>2. Sound(v)
  BY <1>1 DEF Sound, Of
<1> QED BY <1>2 DEF Matches, grab_held, Top

\* The same grabs in the same loop keep the phases.
LEMMA SamePhases ==
  ASSUME NEW t, NEW v, v.grabs = t.grabs, v.loop = t.loop, Phases(t)
  PROVE  Phases(v)
<1>1. Live(v) = Live(t) /\ Slots(v) = Slots(t)
  BY DEF Live, Slots
<1>2. Of(v, "pointer") = Of(t, "pointer")
  BY <1>1 DEF Of
<1> QED BY <1>1, <1>2 DEF Phases, grab_held

\* The same grabs and modes keep the modes.
LEMMA SameModes ==
  ASSUME NEW t, NEW v, v.grabs = t.grabs, t.dropped => v.dropped, ModesSound(t),
         v.mode = t.mode, v.timer = t.timer,
         \A r \in Frames \cup {Root} : v.sub[r] > 0 => t.sub[r] > 0
  PROVE  ModesSound(v)
<1>1. Live(v) = Live(t) /\ Slots(v) = Slots(t)
  BY DEF Live, Slots
<1>2. Of(v, "resize") = Of(t, "resize") /\ Of(v, "submap") = Of(t, "submap")
  BY <1>1 DEF Of
<1>3. ResizeSound(t) => ResizeSound(v)
  BY <1>1, <1>2 DEF ResizeSound
<1>4. SubmapSound(t) => SubmapSound(v)
  BY <1>1, <1>2 DEF SubmapSound
<1> QED BY <1>3, <1>4 DEF ModesSound

\* The mark of a grab whose handler has answered.
LEMMA MarkSound ==
  ASSUME NEW t, Sound(t), NEW i \in Nat
  PROVE  LET v == Mark(t, i)
         IN /\ Sound(v) /\ (Matches(t) => Matches(v)) /\ v.loop = t.loop
            /\ grab_held(t) /\ i = Len(t.grabs) => Matches(v)
            /\ ModesSound(t) /\ Harmless(t, {i}) => ModesSound(v)
            /\ Phases(t) /\ (t.loop = "main" \/ i # 1) => Phases(v)
<1> DEFINE v == Mark(t, i)
<1>1. t \in State
  BY DEF Sound
<1>2. /\ v \in State /\ (Settled(t) => Matches(v)) /\ Fewer(t.grabs, v.grabs, {i})
      /\ SameBut(t, v) /\ SameMode(t, v)
      /\ grab_held(t) /\ i = Len(t.grabs) => Matches(v)
  BY <1>1, MarkFacts
<1> HIDE DEF v
<1>3. Live(v) = Live(t) \ {i}
  BY <1>1, <1>2, LiveFewer
<1>4. Sound(v)
  BY <1>2, <1>3, FewerSound DEF SameBut, Sound
<1>5. ModesSound(t) /\ Harmless(t, {i}) => ModesSound(v)
  BY <1>1, <1>2, FewerModes DEF SameBut, SameMode
<1>6. Phases(t) /\ (t.loop = "main" \/ i # 1) => Phases(v)
  BY <1>1, <1>2, FewerPhases DEF SameBut
<1> QED BY <1>2, <1>4, <1>5, <1>6 DEF Settled, SameBut, v

\* The end of a resize mode keeps all parts of the invariant.
LEMMA EndModeSound ==
  ASSUME NEW t, Sound(t)
  PROVE  LET v == EndMode(t)
         IN /\ Sound(v) /\ (Matches(t) => Matches(v)) /\ v.loop = t.loop
            /\ Phases(t) => Phases(v)
            /\ ModesSound(t) => ModesSound(v)
<1> DEFINE v == EndMode(t)
<1>1. t \in State /\ t.grabs \in Seq(Entry) /\ Len(t.grabs) \in Nat /\ Slots(t) = 1 .. Len(t.grabs)
  BY DEF Sound, State, Slots
<1>2. /\ v \in State /\ (Matches(t) => Matches(v)) /\ SameBut(t, v)
      /\ t.mode = NULL => v = t
      /\ t.mode # NULL =>
           /\ v.mode = NULL /\ v.timer = "none"
           /\ \E m : Fewer(t.grabs, v.grabs, m) /\ TopOf(t, "resize", m)
  BY <1>1, EndModeFacts
<1> HIDE DEF v
<1>3. CASE t.mode = NULL
  BY <1>2, <1>3 DEF v
<1>4. CASE t.mode # NULL
  <2>1. PICK m : Fewer(t.grabs, v.grabs, m) /\ TopOf(t, "resize", m)
    BY <1>2, <1>4
  <2>2. Live(v) = Live(t) \ m /\ Len(v.grabs) <= Len(t.grabs)
    BY <1>1, <1>2, <2>1, LiveFewer
  <2>3. Sound(v)
    BY <1>2, <2>1, <2>2, FewerSound DEF SameBut, Sound
  <2>4. Phases(t) => Phases(v)
    <3>1. Phases(t) /\ t.loop # "main" => 1 \notin m
      BY <2>1 DEF Phases, TopOf, Of
    <3> QED BY <1>1, <1>2, <2>1, <3>1, FewerPhases DEF SameBut
  <2>5. ResizeSound(t) => ResizeSound(v)
    <3> SUFFICES ASSUME ResizeSound(t) PROVE ResizeSound(v)
      OBVIOUS
    <3>1. Of(v, "resize") = Of(t, "resize") \ m
      BY <1>1, <1>2, <2>1, OfFewer
    <3>2. Of(v, "resize") = {}
      <4>1. ASSUME NEW j \in Of(t, "resize") PROVE j \in m
        <5>1. j \in Slots(t) /\ t.grabs[j].handler = "resize" /\ ~t.grabs[j].remove
          BY DEF Of, Live
        <5>2. PICK k \in m : k \in Slots(t) /\ t.grabs[k].handler = "resize" /\ j <= k
          BY <2>1, <5>1 DEF TopOf
        <5>3. ~(j < k)
          BY <5>1, <5>2 DEF ResizeSound
        <5> QED BY <1>1, <5>1, <5>2, <5>3
      <4> QED BY <3>1, <4>1
    <3>3. ASSUME NEW j \in Slots(v), NEW k \in Slots(v), j < k,
                 v.grabs[j].handler = "resize", v.grabs[k].handler = "resize"
          PROVE  v.grabs[j].remove
      <4>1. v.grabs \in Seq(Entry) /\ v.grabs[j] \in Entry
        BY <1>2 DEF State, Slots
      <4>2. j \notin Of(v, "resize")
        BY <3>2
      <4> QED BY <3>3, <4>1, <4>2 DEF Of, Live
    <3> QED BY <1>2, <1>4, <3>2, <3>3, GrabAssumption DEF ResizeSound, Regions
  <2>6. SubmapSound(t) => SubmapSound(v)
    <3>1. Of(v, "submap") = Of(t, "submap") \ m
      BY <1>1, <1>2, <2>1, OfFewer
    <3>2. Of(t, "submap") \cap m = {}
      BY <2>1 DEF TopOf, Of
    <3>3. \A j \in Of(v, "submap") : v.grabs[j].holder = t.grabs[j].holder
      BY <1>1, <1>2, <2>1, LiveFewer DEF Of
    <3> QED BY <1>2, <3>1, <3>2, <3>3 DEF SubmapSound, SameBut
  <2>7. ModesSound(t) => ModesSound(v)
    BY <1>2, <2>5, <2>6 DEF ModesSound, SameBut
  <2> QED BY <1>2, <2>3, <2>4, <2>7 DEF SameBut, v
<1> QED BY <1>3, <1>4

-----------------------------------------------------------------------------
(* New grabs *)

\* v is t with a grab more, or with the one that found no place
Established(t, v, reg, handler) ==
  /\ v \in State /\ v.alive = t.alive /\ v.loop = t.loop
  /\ v.mode = t.mode /\ v.timer = t.timer /\ v.sub = t.sub
  /\ \/ /\ Len(t.grabs) < MAX_GRABS /\ v.dropped = t.dropped /\ Matches(v)
        /\ Len(v.grabs) = Len(t.grabs) + 1
        /\ \A i \in Slots(t) : v.grabs[i] = t.grabs[i]
        /\ v.grabs[Len(v.grabs)].holder = reg /\ v.grabs[Len(v.grabs)].handler = handler
        /\ ~v.grabs[Len(v.grabs)].remove
     \/ Len(t.grabs) = MAX_GRABS /\ v.dropped /\ SameGrabs(t, v)

\* ioncore_grab_establish: a grab on the top, or nothing when the array is full.
LEMMA EstablishFacts ==
  ASSUME NEW t, Sound(t), NEW handler \in DOMAIN HolderOf, NEW reg \in HolderOf[handler]
  PROVE  Established(t, Establish(t, reg, handler), reg, handler)
<1> DEFINE e == [holder |-> reg, handler |-> handler, remove |-> FALSE, sqid |-> t.last_sqid]
           gs == Append(t.grabs, e)
           w == [t EXCEPT !.grabs = gs, !.last_sqid = t.last_sqid + 1]
           v == Establish(t, reg, handler)
<1>1. /\ t \in State /\ t.grabs \in Seq(Entry) /\ Len(t.grabs) \in Nat /\ t.last_sqid \in Nat
      /\ Slots(t) = 1 .. Len(t.grabs) /\ Len(t.grabs) <= MAX_GRABS
  BY DEF Sound, State, Slots
<1>2. CASE Len(t.grabs) < MAX_GRABS
  <2>1. e \in Entry
    <3>1. handler \in {"resize", "pointer", "submap", "quote", "waitrelease", "grabmenu"}
      BY DEF HolderOf
    <3>2. reg \in Regions
      BY <3>1 DEF HolderOf, Regions
    <3> QED BY <1>1, <3>1, <3>2 DEF Entry, Grab
  <2>2. /\ gs \in Seq(Entry) /\ Len(gs) = Len(t.grabs) + 1
        /\ \A i \in Slots(t) : gs[i] = t.grabs[i]
        /\ gs[Len(gs)] = e
    BY <1>1, <2>1
  <2>3. v = grab_kb_ptr(w, t.last_sqid)
    BY <1>2 DEF Establish
  <2>4. e.holder = reg /\ e.handler = handler /\ ~e.remove /\ e.sqid = t.last_sqid
    OBVIOUS
  <2> HIDE DEF e, gs
  <2>5. /\ w \in State /\ w.grabs = gs /\ w.alive = t.alive /\ w.loop = t.loop
        /\ w.mode = t.mode /\ w.timer = t.timer /\ w.sub = t.sub /\ w.dropped = t.dropped
    <3> DEFINE n == t.last_sqid + 1
    <3>1. n \in Nat /\ gs \in Seq(Entry)
      BY <1>1, <2>2
    <3>2. w = [t EXCEPT !.grabs = gs, !.last_sqid = n]
      OBVIOUS
    <3> HIDE DEF n, w
    <3>3. w \in State
      BY <1>1, <3>1, <3>2 DEF State
    <3>4. /\ w.grabs = gs /\ w.alive = t.alive /\ w.loop = t.loop
          /\ w.mode = t.mode /\ w.timer = t.timer /\ w.sub = t.sub /\ w.dropped = t.dropped
      BY <1>1, <3>2 DEF State
    <3> QED BY <3>3, <3>4
  <2> HIDE DEF w, v
  <2>6. /\ v \in State /\ v.grabs = gs /\ v.xkb = t.last_sqid /\ v.input_mode = "grab"
        /\ SameBut(w, v) /\ SameMode(w, v)
    BY <1>1, <2>3, <2>5, GrabFacts
  <2>7. Matches(v)
    BY <1>1, <2>2, <2>4, <2>6 DEF Matches, grab_held, Top
  <2>8. /\ v.alive = t.alive /\ v.loop = t.loop
        /\ v.mode = t.mode /\ v.timer = t.timer /\ v.sub = t.sub /\ v.dropped = t.dropped
    BY <2>5, <2>6 DEF SameBut, SameMode
  <2> QED BY <1>2, <2>2, <2>4, <2>6, <2>7, <2>8 DEF Established, v
<1>3. CASE ~(Len(t.grabs) < MAX_GRABS)
  <2>1. Len(t.grabs) = MAX_GRABS
    BY <1>1, <1>3, GrabAssumption
  <2>2. v = [t EXCEPT !.dropped = TRUE]
    BY <1>3 DEF Establish
  <2> HIDE DEF v
  <2>3. /\ v \in State /\ SameGrabs(t, v) /\ v.alive = t.alive /\ v.loop = t.loop
        /\ v.mode = t.mode /\ v.timer = t.timer /\ v.sub = t.sub /\ v.dropped
    BY <1>1, <2>2 DEF State, SameGrabs
  <2> QED BY <2>1, <2>3 DEF Established, v
<1> QED BY <1>2, <1>3

\* The grabs that stay, with a new one
LEMMA LiveEstablished ==
  ASSUME NEW t, Sound(t), NEW v, NEW reg, NEW handler, Established(t, v, reg, handler),
         ~SameGrabs(t, v)
  PROVE  /\ Live(v) = Live(t) \cup {Len(v.grabs)} /\ Len(v.grabs) \notin Slots(t)
         /\ Slots(v) = Slots(t) \cup {Len(v.grabs)} /\ Matches(v) /\ v.dropped = t.dropped
         /\ \A i \in Slots(t) : v.grabs[i] = t.grabs[i] /\ i < Len(v.grabs)
         /\ v.grabs[Len(v.grabs)].holder = reg /\ v.grabs[Len(v.grabs)].handler = handler
         /\ Len(t.grabs) < MAX_GRABS /\ Len(v.grabs) = Len(t.grabs) + 1
<1>1. t.grabs \in Seq(Entry) /\ v.grabs \in Seq(Entry) /\ Len(t.grabs) \in Nat
  BY DEF Sound, State, Established
<1>2. /\ Len(t.grabs) < MAX_GRABS /\ v.dropped = t.dropped /\ Matches(v)
      /\ Len(v.grabs) = Len(t.grabs) + 1
      /\ \A i \in Slots(t) : v.grabs[i] = t.grabs[i]
      /\ v.grabs[Len(v.grabs)].holder = reg /\ v.grabs[Len(v.grabs)].handler = handler
      /\ ~v.grabs[Len(v.grabs)].remove
  BY DEF Established
<1>3. Slots(t) = 1 .. Len(t.grabs) /\ Slots(v) = 1 .. Len(t.grabs) + 1
  BY <1>1, <1>2 DEF Slots
<1>4. Slots(v) = Slots(t) \cup {Len(v.grabs)} /\ Len(v.grabs) \notin Slots(t)
  BY <1>1, <1>2, <1>3
<1>5. Live(v) = Live(t) \cup {Len(v.grabs)}
  BY <1>2, <1>4 DEF Live
<1>6. \A i \in Slots(t) : i < Len(v.grabs)
  BY <1>1, <1>2, <1>3
<1> QED BY <1>2, <1>4, <1>5, <1>6

\* A grab for a holder that lives keeps the state sound.
LEMMA EstablishSound ==
  ASSUME NEW t, Sound(t), NEW handler \in DOMAIN HolderOf, NEW reg \in HolderOf[handler],
         NEW v, Established(t, v, reg, handler),
         reg \in t.alive,
         handler = "grabmenu" => \A i \in Of(t, "grabmenu") : t.grabs[i].holder # reg
  PROVE  Sound(v) /\ (Matches(t) => Matches(v)) /\ (Matches(v) \/ SameGrabs(t, v))
<1>1. t \in State /\ v \in State /\ v.alive = t.alive
  BY DEF Sound, Established
<1>2. CASE SameGrabs(t, v)
  BY <1>1, <1>2, SameSound DEF SameGrabs
<1>3. CASE ~SameGrabs(t, v)
  <2>1. /\ Live(v) = Live(t) \cup {Len(v.grabs)} /\ Len(v.grabs) \notin Slots(t)
        /\ Matches(v) /\ \A i \in Slots(t) : v.grabs[i] = t.grabs[i]
        /\ v.grabs[Len(v.grabs)].holder = reg /\ v.grabs[Len(v.grabs)].handler = handler
        /\ Len(t.grabs) < MAX_GRABS /\ Len(v.grabs) = Len(t.grabs) + 1
    BY <1>3, LiveEstablished
  <2>2. Len(v.grabs) <= MAX_GRABS
    <3>1. t.grabs \in Seq(Entry) /\ Len(t.grabs) \in Nat
      BY <1>1 DEF State
    <3> QED BY <2>1, <3>1, GrabAssumption
  <2>3. \A i \in Live(v) : v.grabs[i].holder \in v.alive
    BY <1>1, <2>1 DEF Sound, Live
  <2>4. ASSUME NEW i \in Of(v, "grabmenu"), NEW j \in Of(v, "grabmenu"),
               v.grabs[i].holder = v.grabs[j].holder
        PROVE  i = j
    <3>1. \A k \in Of(v, "grabmenu") :
            \/ k \in Of(t, "grabmenu") /\ v.grabs[k] = t.grabs[k]
            \/ k = Len(v.grabs) /\ handler = "grabmenu"
      BY <2>1 DEF Of, Live
    <3> QED BY <2>1, <2>4, <3>1 DEF Sound
  <2> QED BY <1>1, <2>1, <2>2, <2>3, <2>4 DEF Sound
<1> QED BY <1>2, <1>3

\* A grab that is not for resizing keeps the modes with theirs.
LEMMA EstablishResize ==
  ASSUME NEW t, Sound(t), NEW v, NEW reg, NEW handler, Established(t, v, reg, handler),
         ~SameGrabs(t, v), handler # "resize", ResizeSound(t)
  PROVE  ResizeSound(v)
<1>1. /\ Live(v) = Live(t) \cup {Len(v.grabs)} /\ Slots(v) = Slots(t) \cup {Len(v.grabs)}
      /\ \A i \in Slots(t) : v.grabs[i] = t.grabs[i]
      /\ v.grabs[Len(v.grabs)].handler = handler /\ Len(v.grabs) \notin Slots(t)
  BY LiveEstablished
<1>2. Of(v, "resize") = Of(t, "resize")
  BY <1>1 DEF Of, Live
<1>3. \A j \in Of(v, "resize") : v.grabs[j] = t.grabs[j]
  BY <1>1, <1>2 DEF Of, Live
<1>4. v.mode = t.mode /\ v.timer = t.timer
  BY DEF Established
<1> QED BY <1>1, <1>2, <1>3, <1>4 DEF ResizeSound

\* The first grab for resizing is that of the mode that begins.
LEMMA EstablishFirst ==
  ASSUME NEW t, Sound(t), NEW v, NEW reg \in Frames, Established(t, v, reg, "resize"),
         ~SameGrabs(t, v), Of(t, "resize") = {}, t.mode = reg, t.timer = "mode"
  PROVE  ResizeSound(v)
<1>1. /\ Live(v) = Live(t) \cup {Len(v.grabs)} /\ Slots(v) = Slots(t) \cup {Len(v.grabs)}
      /\ \A i \in Slots(t) : v.grabs[i] = t.grabs[i] /\ i < Len(v.grabs)
      /\ v.grabs[Len(v.grabs)].handler = "resize" /\ Len(v.grabs) \notin Slots(t)
      /\ v.grabs[Len(v.grabs)].holder = reg
  BY LiveEstablished
<1>2. Of(v, "resize") = {Len(v.grabs)}
  BY <1>1 DEF Of, Live
<1>3. v.mode = reg /\ v.timer = "mode" /\ reg # NULL
  BY GrabAssumption DEF Established, Regions
<1>4. t.grabs \in Seq(Entry) /\ Slots(t) = 1 .. Len(t.grabs) /\ Len(t.grabs) \in Nat
      /\ v.grabs \in Seq(Entry) /\ Len(v.grabs) \in Nat
  BY DEF Sound, State, Slots, Established
<1>5. ASSUME NEW i \in Slots(v), NEW j \in Slots(v), i < j, v.grabs[i].handler = "resize"
      PROVE  v.grabs[i].remove
  <2>1. i \in Slots(t)
    BY <1>1, <1>4, <1>5
  <2>2. t.grabs[i].remove
    <3>1. i \notin Of(t, "resize") /\ t.grabs[i] \in Entry
      BY <1>4, <2>1
    <3> QED BY <1>1, <1>5, <2>1, <3>1 DEF Of, Live
  <2> QED BY <1>1, <2>1, <2>2
<1> QED BY <1>2, <1>1, <1>3, <1>5 DEF ResizeSound

\* The path of reg may be waiting for the grab.
LEMMA EstablishSubmap ==
  ASSUME NEW t, Sound(t), NEW v, NEW reg, NEW handler, Established(t, v, reg, handler),
         ~SameGrabs(t, v),
         \A r \in Frames \cup {Root} :
           t.sub[r] > 0 => \/ handler = "submap" /\ r = reg
                           \/ \E i \in Of(t, "submap") : t.grabs[i].holder = r
  PROVE  SubmapSound(v)
<1>1. /\ Live(v) = Live(t) \cup {Len(v.grabs)}
      /\ \A i \in Slots(t) : v.grabs[i] = t.grabs[i]
      /\ v.grabs[Len(v.grabs)].handler = handler /\ v.grabs[Len(v.grabs)].holder = reg
  BY LiveEstablished
<1>2. \A i \in Of(t, "submap") : i \in Of(v, "submap") /\ v.grabs[i] = t.grabs[i]
  BY <1>1 DEF Of, Live
<1>3. handler = "submap" => Len(v.grabs) \in Of(v, "submap")
  BY <1>1 DEF Of
<1>4. v.sub = t.sub
  BY DEF Established
<1> QED BY <1>1, <1>2, <1>3, <1>4 DEF SubmapSound

\* In the inner loop only quoting may begin; no other grab is the pointer's.
LEMMA EstablishPhases ==
  ASSUME NEW t, Sound(t), NEW v, NEW reg, NEW handler, Established(t, v, reg, handler),
         Phases(t), handler # "pointer", t.loop = "main" \/ handler = "quote"
  PROVE  Phases(v)
<1>1. v.loop = t.loop
  BY DEF Established
<1>2. CASE SameGrabs(t, v)
  BY <1>1, <1>2, SamePhases DEF SameGrabs
<1>3. CASE ~SameGrabs(t, v)
  <2>1. /\ Live(v) = Live(t) \cup {Len(v.grabs)} /\ Slots(v) = Slots(t) \cup {Len(v.grabs)}
        /\ \A i \in Slots(t) : v.grabs[i] = t.grabs[i]
        /\ v.grabs[Len(v.grabs)].handler = handler /\ Len(v.grabs) = Len(t.grabs) + 1
    BY <1>3, LiveEstablished
  <2>2. Of(v, "pointer") = Of(t, "pointer")
    BY <2>1 DEF Of, Live
  <2>3. grab_held(v)
    <3>1. t.grabs \in Seq(Entry) /\ Len(t.grabs) \in Nat
      BY DEF Sound, State
    <3> QED BY <2>1, <3>1 DEF grab_held
  <2> QED BY <1>1, <2>1, <2>2, <2>3 DEF Phases
<1> QED BY <1>2, <1>3

\* What a call leaves: the grabs there were, and at most one more; calm tells
\* that it may be made in the inner loop
Called(t, v, calm) ==
  /\ Sound(v) /\ (Matches(t) => Matches(v)) /\ (Matches(v) \/ SameGrabs(t, v))
  /\ v.loop = t.loop /\ v.sub = t.sub
  /\ \A i \in Slots(t) : i \in Slots(v) /\ v.grabs[i] = t.grabs[i]
  /\ \A i \in Slots(v) : i \notin Slots(t) => v.grabs[i].handler # "pointer"
  /\ ModesSound(t) => ModesSound(v)
  /\ Phases(t) /\ (t.loop = "main" \/ calm) => Phases(v)

\* What a call of Lua code does that establishes a grab.
LEMMA EstablishCalled ==
  ASSUME NEW t, Sound(t), NEW handler \in DOMAIN HolderOf, NEW reg \in HolderOf[handler],
         handler \notin {"resize", "pointer"}, reg \in t.alive,
         handler = "grabmenu" => \A i \in Of(t, "grabmenu") : t.grabs[i].holder # reg
  PROVE  Called(t, Establish(t, reg, handler), handler = "quote")
<1> DEFINE v == Establish(t, reg, handler)
<1>1. Established(t, v, reg, handler)
  BY EstablishFacts
<1> HIDE DEF v
<1>2. Sound(v) /\ (Matches(t) => Matches(v)) /\ (Matches(v) \/ SameGrabs(t, v))
  BY <1>1, EstablishSound
<1>3. Phases(t) /\ (t.loop = "main" \/ handler = "quote") => Phases(v)
  BY <1>1, EstablishPhases
<1>4. v.loop = t.loop /\ v.sub = t.sub
  BY <1>1 DEF Established
<1>5. CASE SameGrabs(t, v)
  <2>1. ModesSound(t) => ModesSound(v)
    <3>1. /\ v.grabs = t.grabs /\ v.mode = t.mode /\ v.timer = t.timer /\ v.sub = t.sub
          /\ t.dropped => v.dropped
      BY <1>1, <1>5 DEF Established, SameGrabs
    <3> QED BY <3>1, SameModes
  <2> QED BY <1>2, <1>3, <1>4, <1>5, <2>1 DEF Called, SameGrabs, Slots, v
<1>6. CASE ~SameGrabs(t, v)
  <2>1. /\ \A i \in Slots(t) : v.grabs[i] = t.grabs[i]
        /\ Slots(v) = Slots(t) \cup {Len(v.grabs)}
        /\ v.grabs[Len(v.grabs)].handler = handler /\ v.dropped = t.dropped
    BY <1>1, <1>6, LiveEstablished
  <2>2. ResizeSound(t) => ResizeSound(v)
    BY <1>1, <1>6, EstablishResize
  <2>3. SubmapSound(t) => SubmapSound(v)
    BY <1>1, <1>6, EstablishSubmap DEF SubmapSound
  <2>4. ModesSound(t) => ModesSound(v)
    BY <2>1, <2>2, <2>3 DEF ModesSound
  <2> QED BY <1>2, <1>3, <1>4, <2>1, <2>4 DEF Called, v
<1> QED BY <1>5, <1>6

\* What region_begin_kbresize does when called.
LEMMA KbresizeCalled ==
  ASSUME NEW t, Sound(t), NEW r \in Frames, r \in t.alive
  PROVE  Called(t, region_begin_kbresize(t, r), FALSE)
<1> DEFINE u == WithMode(t, r, "mode")
           v == Establish(u, r, "resize")
<1>1. CASE t.mode # NULL
  <2>1. region_begin_kbresize(t, r) = t
    BY <1>1 DEF region_begin_kbresize
  <2> QED BY <2>1 DEF Called, SameGrabs
<1>2. CASE t.mode = NULL
  <2>1. region_begin_kbresize(t, r) = v
    BY <1>2 DEF region_begin_kbresize, WithMode
  <2>2. /\ u \in State /\ SameGrabs(t, u) /\ SameBut(t, u) /\ u.mode = r /\ u.timer = "mode"
    <3>1. t \in State /\ r \in Frames \cup {NULL} /\ "mode" \in {"none", "mode", "idle"}
      BY DEF Sound
    <3> HIDE DEF u
    <3> QED BY <3>1, SetMode DEF u
  <2> HIDE DEF u
  <2>3. Sound(u) /\ (Matches(t) => Matches(u))
    BY <2>2, SameSound DEF SameGrabs, SameBut
  <2>4. r \in HolderOf["resize"] /\ "resize" \in DOMAIN HolderOf /\ r \in u.alive
    BY <2>2 DEF HolderOf, SameBut
  <2>5. Established(u, v, r, "resize")
    BY <2>3, <2>4, EstablishFacts
  <2> HIDE DEF v
  <2>6. Sound(v) /\ (Matches(u) => Matches(v)) /\ (Matches(v) \/ SameGrabs(u, v))
    BY <2>3, <2>4, <2>5, EstablishSound
  <2>7. v.loop = t.loop /\ v.sub = t.sub
    BY <2>2, <2>5 DEF Established, SameBut
  <2>8. Phases(t) /\ t.loop = "main" => Phases(v)
    <3>1. Phases(t) => Phases(u)
      BY <2>2, SamePhases DEF SameGrabs, SameBut
    <3> QED BY <2>2, <2>3, <2>5, <3>1, EstablishPhases DEF SameBut
  <2>9. CASE SameGrabs(u, v)
    <3>1. v.dropped
      BY <2>5, <2>9 DEF Established, SameGrabs
    <3>2. ModesSound(v) /\ SameGrabs(t, v)
      BY <2>2, <2>9, <3>1 DEF ModesSound, SameGrabs
    <3> QED BY <2>1, <2>2, <2>3, <2>6, <2>7, <2>8, <3>2 DEF Called, SameGrabs, Slots
  <2>10. CASE ~SameGrabs(u, v)
    <3>1. /\ \A i \in Slots(u) : v.grabs[i] = u.grabs[i]
          /\ Slots(v) = Slots(u) \cup {Len(v.grabs)}
          /\ v.grabs[Len(v.grabs)].handler = "resize" /\ v.dropped = u.dropped
      BY <2>3, <2>5, <2>10, LiveEstablished
    <3>2. u.grabs = t.grabs /\ Slots(u) = Slots(t) /\ Live(u) = Live(t)
      BY <2>2 DEF SameGrabs, Slots, Live
    <3>3. ResizeSound(t) => ResizeSound(v)
      <4>1. ASSUME ResizeSound(t) PROVE Of(t, "resize") = {}
        <5>1. ASSUME NEW j \in Of(t, "resize") PROVE FALSE
          <6>1. t.grabs[j] \in Entry /\ t.grabs[j].handler = "resize"
            BY DEF Sound, State, Of, Live, Slots
          <6>2. t.grabs[j].holder \in Frames
            BY <6>1 DEF Entry, HolderOf
          <6>3. t.mode = t.grabs[j].holder
            BY <4>1, <6>2 DEF ResizeSound
          <6> QED BY <1>2, <6>2, <6>3, GrabAssumption DEF Regions
        <5> QED BY <5>1
      <4>2. Of(u, "resize") = Of(t, "resize")
        BY <3>2 DEF Of
      <4> QED BY <2>2, <2>3, <2>5, <2>10, <4>1, <4>2, EstablishFirst
    <3>4. SubmapSound(t) => SubmapSound(v)
      <4>1. SubmapSound(t) => SubmapSound(u)
        BY <2>2, <3>2 DEF SubmapSound, Of, SameBut
      <4> QED BY <2>3, <2>5, <2>10, <4>1, EstablishSubmap DEF SubmapSound
    <3>5. ModesSound(t) => ModesSound(v)
      BY <2>2, <3>1, <3>3, <3>4 DEF ModesSound, SameBut
    <3> QED BY <2>1, <2>3, <2>6, <2>7, <2>8, <2>10, <3>1, <3>2, <3>5 DEF Called, SameGrabs
  <2> QED BY <2>9, <2>10
<1> QED BY <1>1, <1>2

\* Fields that grabs and modes do not depend on
LEMMA SameCalled ==
  ASSUME NEW t, Sound(t), NEW v \in State, SameGrabs(t, v), t.alive \subseteq v.alive,
         v.loop = t.loop, v.sub = t.sub, v.mode = t.mode, v.timer = t.timer, v.dropped = t.dropped,
         NEW calm
  PROVE  Called(t, v, calm)
<1>1. Sound(v) /\ (Matches(t) => Matches(v))
  BY SameSound DEF SameGrabs
<1>2. (ModesSound(t) => ModesSound(v)) /\ (Phases(t) => Phases(v))
  BY SameModes, SamePhases DEF SameGrabs
<1> QED BY <1>1, <1>2 DEF Called, SameGrabs, Slots

\* What region_defer_rqdispose does when called.
LEMMA RqcloseCalled ==
  ASSUME NEW t, Sound(t), NEW r \in Regions \ {Root}, NEW calm
  PROVE  Called(t, rqclose(t, r), calm)
<1> DEFINE v == rqclose(t, r)
<1>1. v \in State
  <2>1. t \in State /\ t.dying \cup {r} \in SUBSET (Regions \ {Root})
    BY DEF Sound, State
  <2> QED BY <2>1 DEF rqclose, State
<1>2. /\ SameGrabs(t, v) /\ v.alive = t.alive /\ v.loop = t.loop /\ v.sub = t.sub
      /\ v.mode = t.mode /\ v.timer = t.timer /\ v.dropped = t.dropped
  BY DEF Sound, State, rqclose, SameGrabs
<1> QED BY <1>1, <1>2, SameCalled

\* What mod_menu_grabmenu does when called.
LEMMA GrabmenuCalled ==
  ASSUME NEW t, Sound(t), NEW r \in Menus, r \notin t.alive
  PROVE  Called(t, mod_menu_grabmenu(t, r), FALSE)
<1> DEFINE u == [t EXCEPT !.alive = t.alive \cup {r}]
           v == Establish(u, r, "grabmenu")
<1>1. u \in State
  <2>1. t \in State /\ t.alive \cup {r} \in SUBSET Regions
    BY DEF Sound, State, Regions
  <2> QED BY <2>1 DEF State
<1>2. /\ SameGrabs(t, u) /\ u.alive = t.alive \cup {r} /\ u.loop = t.loop /\ u.sub = t.sub
      /\ u.mode = t.mode /\ u.timer = t.timer /\ u.dropped = t.dropped
  BY DEF Sound, State, SameGrabs
<1>3. mod_menu_grabmenu(t, r) = v
  BY DEF mod_menu_grabmenu
<1> HIDE DEF u
<1>4. Called(t, u, FALSE)
  BY <1>1, <1>2, SameCalled
<1>5. "grabmenu" \in DOMAIN HolderOf /\ r \in HolderOf["grabmenu"] /\ r \in u.alive
  BY <1>2 DEF HolderOf
<1>6. \A i \in Of(u, "grabmenu") : u.grabs[i].holder # r
  <2>1. Live(u) = Live(t) /\ u.grabs = t.grabs
    BY <1>2 DEF Live, Slots, SameGrabs
  <2> QED BY <2>1 DEF Of, Sound
<1>7. Called(u, v, FALSE)
  <2>1. Called(u, v, "grabmenu" = "quote")
    BY <1>4, <1>5, <1>6, EstablishCalled DEF Called
  <2> HIDE DEF v
  <2> QED BY <2>1 DEF Called
<1> HIDE DEF v
<1> QED BY <1>2, <1>3, <1>4, <1>7 DEF Called, SameGrabs

\* Whatever Lua code calls.
LEMMA CallCalled ==
  ASSUME NEW t, Sound(t), NEW c \in Calls
  PROVE  Called(t, Call(t, c), c.op \in {"none", "quote", "rqclose"})
<1> DEFINE v == Call(t, c)
<1>1. /\ c.op \in {"none", "kbresize", "quote", "grabmenu", "rqclose"}
      /\ c.op = "kbresize" => c.reg \in Frames
      /\ c.op = "quote" => c.reg \in Clients
      /\ c.op = "grabmenu" => c.reg \in Menus
      /\ c.op = "rqclose" => c.reg \in Regions \ {Root}
  BY DEF Calls
<1>2. CASE c.op = "kbresize" /\ c.reg \in t.alive
  <2>1. v = region_begin_kbresize(t, c.reg)
    BY <1>2 DEF Call
  <2>2. Called(t, v, FALSE)
    BY <1>1, <1>2, <2>1, KbresizeCalled
  <2> HIDE DEF v
  <2> QED BY <1>2, <2>2 DEF Called, v
<1>3. CASE c.op = "quote" /\ c.reg \in t.alive
  <2>1. v = Establish(t, c.reg, "quote")
    BY <1>3 DEF Call, clientwin_quote_next
  <2>2. "quote" \in DOMAIN HolderOf /\ c.reg \in HolderOf["quote"]
    BY <1>1, <1>3 DEF HolderOf
  <2>3. Called(t, v, "quote" = "quote")
    BY <1>3, <2>1, <2>2, EstablishCalled
  <2> HIDE DEF v
  <2> QED BY <1>3, <2>3 DEF Called, v
<1>4. CASE c.op = "grabmenu" /\ c.reg \notin t.alive
  <2>1. v = mod_menu_grabmenu(t, c.reg)
    BY <1>4 DEF Call
  <2>2. Called(t, v, FALSE)
    BY <1>1, <1>4, <2>1, GrabmenuCalled
  <2> HIDE DEF v
  <2> QED BY <1>4, <2>2 DEF Called, v
<1>5. CASE c.op = "rqclose" /\ c.reg \in t.alive
  <2>1. v = rqclose(t, c.reg)
    BY <1>5 DEF Call
  <2> QED BY <1>1, <1>5, <2>1, RqcloseCalled
<1>6. CASE /\ ~(c.op = "kbresize" /\ c.reg \in t.alive) /\ ~(c.op = "quote" /\ c.reg \in t.alive)
           /\ ~(c.op = "grabmenu" /\ c.reg \notin t.alive) /\ ~(c.op = "rqclose" /\ c.reg \in t.alive)
  <2>1. v = t
    BY <1>6 DEF Call
  <2> HIDE DEF v
  <2> QED BY <2>1 DEF Called, SameGrabs, v
<1> QED BY <1>2, <1>3, <1>4, <1>5, <1>6

-----------------------------------------------------------------------------
(* The actions *)

\* In the inner loop, Lua code does not begin a resize of the keyboard, which
\* would take the mode of the drag for its own
Calm == "kbresize" \notin DragCalls

\* What a step from t to v keeps
Keeps(t, v) ==
  /\ Sound(v) /\ Matches(v)
  /\ Calm /\ ModesSound(t) /\ Phases(t) => ModesSound(v) /\ Phases(v)

\* The inner loop is left when no grab is held.
LEMMA EventKeeps ==
  ASSUME NEW t, Event(t), Sound(t), Matches(t),
         Calm /\ ModesSound(s) /\ Phases(s) => ModesSound(t) /\ (Phases(t) \/ ~grab_held(t))
  PROVE  Keeps(s, s')
<1> DEFINE v == Loop(t)
<1>1. s' = v
  BY DEF Event
<1>2. t \in State /\ t.grabs \in Seq(Entry)
  BY DEF Sound, State
<1>3. /\ v \in State /\ SameGrabs(t, v) /\ v.alive = t.alive /\ v.sub = t.sub
      /\ v.mode = t.mode /\ v.timer = t.timer /\ v.dropped = t.dropped
      /\ v.loop = IF grab_held(t) THEN t.loop ELSE "main"
  BY <1>2 DEF Loop, State, SameGrabs
<1> HIDE DEF v
<1>4. Sound(v) /\ Matches(v)
  BY <1>3, SameSound DEF SameGrabs
<1>5. ModesSound(t) => ModesSound(v)
  BY <1>3, SameModes DEF SameGrabs
<1>6. grab_held(t) /\ Phases(t) => Phases(v)
  BY <1>3, SamePhases DEF SameGrabs
<1>7. ~grab_held(t) => Phases(v)
  <2>1. ~grab_held(t) => v.loop = "main" /\ v.grabs = <<>>
    BY <1>3 DEF grab_held, SameGrabs
  <2> QED BY <2>1 DEF Phases, Of, Live, Slots
<1> QED BY <1>1, <1>4, <1>5, <1>6, <1>7 DEF Keeps

\* The top of a sound stack
LEMMA TopFacts ==
  ASSUME Sound(s), Matches(s), grab_held(s)
  PROVE  LET n == Len(s.grabs)
         IN /\ n \in Nat /\ n \in Slots(s) /\ n \in Live(s) /\ Top(s) = s.grabs[n]
            /\ Top(s) \in Entry /\ Slots(s) = 1 .. n
            /\ Phases(s) /\ s.loop # "main" => n = 1 \/ Top(s).handler = "quote"
            /\ Phases(s) /\ s.loop # "main" => s.grabs[1].handler = "pointer"
<1>1. s.grabs \in Seq(Entry) /\ Slots(s) = 1 .. Len(s.grabs) /\ Len(s.grabs) \in Nat
  BY DEF Sound, State, Slots
<1>2. Len(s.grabs) \in Slots(s)
  BY <1>1 DEF grab_held
<1>3. Top(s) = s.grabs[Len(s.grabs)] /\ Top(s) \in Entry
  BY <1>1, <1>2 DEF Top
<1>4. Len(s.grabs) \in Live(s)
  BY <1>2, <1>3 DEF Matches, Live
<1>5. Phases(s) /\ s.loop # "main" => s.grabs[1].handler = "pointer"
  BY DEF Phases, Of
<1>6. Phases(s) /\ s.loop # "main" => Len(s.grabs) = 1 \/ Top(s).handler = "quote"
  BY <1>2, <1>3 DEF Phases
<1> QED BY <1>1, <1>2, <1>3, <1>4, <1>5, <1>6

\* Escape, which kills the topmost grab.
LEMMA EscapeKeeps == ASSUME Sound(s), Matches(s), Escape PROVE Keeps(s, s')
<1> DEFINE n == Len(s.grabs)
           v == Kill(s, n)
<1>1. grab_held(s) /\ Event(v)
  BY DEF Escape
<1>2. /\ n \in Nat /\ n \in Slots(s) /\ n \in Live(s) /\ Top(s) = s.grabs[n] /\ Slots(s) = 1 .. n
      /\ Phases(s) /\ s.loop # "main" => n = 1 \/ Top(s).handler = "quote"
  BY <1>1, TopFacts
<1>3. s \in State /\ n = Len(s.grabs)
  BY DEF Sound
<1> HIDE DEF n
<1>4. /\ Sound(v) /\ Matches(v) /\ v.loop = s.loop
      /\ \E m : n \in m /\ Fewer(s.grabs, v.grabs, m)
  BY <1>2, KillSound
<1>5. ModesSound(s) /\ Phases(s) => ModesSound(v) /\ (s.loop = "main" => Phases(v))
  BY <1>2, KillModes
<1>6. v \in State /\ \E m : n \in m /\ Killed(s, v, s.grabs[n], {n}, m)
  BY <1>2, <1>3, KillFacts
<1> HIDE DEF v
<1>7. ASSUME Phases(s), s.loop # "main" PROVE Phases(v) \/ ~grab_held(v)
  <2>1. PICK m : n \in m /\ Killed(s, v, s.grabs[n], {n}, m)
    BY <1>6
  <2>2. Fewer(s.grabs, v.grabs, m)
    BY <2>1 DEF Killed
  <2>3. CASE n = 1
    <3>1. v.grabs \in Seq(Entry) /\ Len(v.grabs) \in Nat /\ Slots(v) = 1 .. Len(v.grabs)
      BY <1>6 DEF State, Slots
    <3>2. Len(v.grabs) <= 1 /\ 1 \notin Live(v)
      <4>1. Live(v) = Live(s) \ m /\ Len(v.grabs) <= Len(s.grabs)
        BY <1>3, <1>6, <2>2, LiveFewer
      <4> QED BY <1>3, <2>1, <2>3, <4>1
    <3>3. ASSUME grab_held(v) PROVE FALSE
      <4>1. Len(v.grabs) = 1
        <5>1. Len(v.grabs) # 0
          BY <3>1, <3>3, EmptySeq DEF grab_held
        <5>2. Len(v.grabs) <= 1 /\ Len(v.grabs) \in Nat
          BY <3>1, <3>2
        <5>3. \A k \in Nat : k <= 1 /\ k # 0 => k = 1
          OBVIOUS
        <5> QED BY <5>1, <5>2, <5>3
      <4>2. 1 \in Live(v)
        BY <1>4, <3>1, <3>3, <4>1 DEF Matches, Live, Top
      <4> QED BY <3>2, <4>2
    <3> QED BY <3>3
  <2>4. CASE n # 1
    <3>1. s.grabs[n].handler = "quote"
      BY <1>2, <1>7, <2>4
    <3>2. m = {n}
      BY <2>1, <3>1 DEF Killed
    <3>3. Phases(v)
      BY <1>3, <1>4, <1>6, <1>7, <2>2, <2>4, <3>2, FewerPhases
    <3> QED BY <3>3
  <2> QED BY <2>3, <2>4
<1> QED BY <1>1, <1>4, <1>5, <1>7, EventKeeps

\* A handler that is done: w is what it has left, with the grab it was called
\* for still at n.
LEMMA AnswerKeeps ==
  ASSUME Sound(s), Matches(s), grab_held(s), NEW w, Sound(w),
         NEW n, n = Len(s.grabs),
         n \in Slots(w), w.grabs[n] = s.grabs[n],
         Event(Answer(n, Top(s).sqid, [s |-> w, done |-> TRUE])),
         Matches(w) \/ w.grabs = s.grabs,
         w.loop = s.loop,
         Top(s).handler \notin {"resize", "pointer"},
         Top(s).handler = "submap" => w.sub[Top(s).holder] = 0,
         ModesSound(s) /\ Phases(s) => ModesSound(w) /\ Phases(w)
  PROVE  Keeps(s, s')
<1> DEFINE v == Mark(w, n)
<1>1. /\ n \in Nat /\ n \in Slots(s) /\ Top(s) = s.grabs[n]
      /\ Phases(s) /\ s.loop # "main" => s.grabs[1].handler = "pointer"
  BY TopFacts
<1>2. Event(v)
  BY <1>1 DEF Answer
<1>3. /\ Sound(v) /\ (Matches(w) => Matches(v)) /\ v.loop = w.loop
      /\ grab_held(w) /\ n = Len(w.grabs) => Matches(v)
      /\ ModesSound(w) /\ Harmless(w, {n}) => ModesSound(v)
      /\ Phases(w) /\ (w.loop = "main" \/ n # 1) => Phases(v)
  BY <1>1, MarkSound
<1> HIDE DEF v
<1>4. Matches(v)
  BY <1>3 DEF grab_held
<1>5. Harmless(w, {n})
  BY <1>1 DEF Harmless
<1>6. Phases(s) => s.loop = "main" \/ n # 1
  BY <1>1
<1> QED BY <1>2, <1>3, <1>4, <1>5, <1>6, EventKeeps

\* The key that ends quoting or waiting for a release.
LEMMA LastKeyKeeps ==
  ASSUME Sound(s), Matches(s), NEW handler \in {"quote", "waitrelease"}, LastKey(handler)
  PROVE  Keeps(s, s')
<1>1. /\ grab_held(s) /\ Top(s).handler = handler
      /\ Event(Answer(Len(s.grabs), Top(s).sqid, [s |-> s, done |-> TRUE]))
  BY DEF LastKey, ToHandler
<1>2. Len(s.grabs) \in Slots(s)
  BY <1>1, TopFacts
<1> QED BY <1>1, <1>2, AnswerKeeps

\* The release that ends a menu's grab.
LEMMA GrabmenuReleaseKeeps ==
  ASSUME Sound(s), Matches(s), GrabmenuRelease
  PROVE  Keeps(s, s')
<1> DEFINE w == rqclose(s, Top(s).holder)
<1>1. /\ grab_held(s) /\ Top(s).handler = "grabmenu"
      /\ Event(Answer(Len(s.grabs), Top(s).sqid, [s |-> w, done |-> TRUE]))
  BY DEF GrabmenuRelease, ToHandler
<1>2. Len(s.grabs) \in Slots(s) /\ Top(s) \in Entry
  BY <1>1, TopFacts
<1>3. Top(s).holder \in Regions \ {Root}
  BY <1>1, <1>2, GrabAssumption DEF Entry, HolderOf, Regions
<1>4. Called(s, w, TRUE)
  BY <1>3, RqcloseCalled
<1>5. w.grabs = s.grabs
  BY DEF rqclose, Sound, State
<1> HIDE DEF w
<1>6. /\ Sound(w) /\ Matches(w) /\ w.loop = s.loop /\ Slots(w) = Slots(s)
      /\ ModesSound(s) /\ Phases(s) => ModesSound(w) /\ Phases(w)
  BY <1>4, <1>5 DEF Called, Slots
<1> QED BY <1>1, <1>2, <1>5, <1>6, AnswerKeeps

\* A key in a resize mode.
LEMMA ResizeKeyKeeps ==
  ASSUME Sound(s), Matches(s), NEW op, ResizeKey(op)
  PROVE  Keeps(s, s')
<1> DEFINE n == Len(s.grabs)
           r == resize_handler(s, Top(s).holder, op)
           u == r.s
           v == Answer(n, Top(s).sqid, r)
<1>1. grab_held(s) /\ Top(s).handler = "resize" /\ Event(v)
  BY DEF ResizeKey, ToHandler
<1>2. /\ n \in Nat /\ n \in Slots(s) /\ n \in Live(s) /\ Top(s) = s.grabs[n]
      /\ Top(s) \in Entry /\ Slots(s) = 1 .. n
      /\ Phases(s) /\ s.loop # "main" => s.grabs[1].handler = "pointer"
      /\ Phases(s) /\ s.loop # "main" => n = 1 \/ Top(s).handler = "quote"
  BY <1>1, TopFacts
<1>3. Top(s).holder \in Frames
  BY <1>1, <1>2 DEF Entry, HolderOf
<1>4. s \in State /\ Top(s).holder # NULL
  BY <1>3, GrabAssumption DEF Sound, Regions
<1>5. CASE s.mode = Top(s).holder /\ op = "resize"
  <2>1. u = WithMode(s, s.mode, "mode")
    <3>1. u = [s EXCEPT !.timer = "mode"]
      BY <1>5 DEF resize_handler
    <3>2. [s EXCEPT !.timer = "mode"] = [s EXCEPT !.mode = s.mode, !.timer = "mode"]
      BY <1>4 DEF State
    <3> QED BY <3>1, <3>2 DEF WithMode
  <2>2. s.mode \in Frames \cup {NULL} /\ "mode" \in {"none", "mode", "idle"}
    BY <1>3, <1>5
  <2>3. ~r.done
    <3>1. u.mode = s.mode
      BY <1>4, <2>1, <2>2, SetMode
    <3> HIDE DEF u
    <3> QED BY <1>4, <1>5, <3>1 DEF resize_handler, u
  <2>4. v = u
    BY <2>3 DEF Answer
  <2> HIDE DEF u, v, r
  <2>5. /\ u \in State /\ SameGrabs(s, u) /\ SameBut(s, u) /\ u.mode = s.mode /\ u.timer = "mode"
    BY <1>4, <2>1, <2>2, SetMode
  <2>6. Sound(u) /\ Matches(u)
    BY <2>5, SameSound DEF SameGrabs, SameBut
  <2>7. ModesSound(s) => ModesSound(u)
    <3>1. ResizeSound(s) => s.timer = "mode"
      BY <1>1, <1>2, <1>3 DEF ResizeSound, Of
    <3>2. ResizeSound(s) /\ SubmapSound(s) => ModesSound(s)
      BY DEF ModesSound
    <3>3. s.dropped => ModesSound(u)
      BY <2>5 DEF ModesSound, SameBut
    <3>4. ASSUME ResizeSound(s), SubmapSound(s) PROVE ModesSound(u)
      BY <2>5, <3>1, <3>2, <3>4, SameModes DEF SameGrabs, SameBut
    <3> QED BY <3>3, <3>4 DEF ModesSound
  <2>8. Phases(s) => Phases(u)
    BY <2>5, SamePhases DEF SameGrabs, SameBut
  <2> QED BY <1>1, <2>4, <2>6, <2>7, <2>8, EventKeeps
<1>6. CASE s.mode = Top(s).holder /\ op \in {"finish", "cancel"}
  <2>1. u = EndMode(s)
    BY <1>6 DEF resize_handler
  <2> HIDE DEF u
  <2>2. /\ Sound(u) /\ Matches(u) /\ u.loop = s.loop
        /\ Phases(s) => Phases(u)
        /\ ModesSound(s) => ModesSound(u)
    BY <2>1, EndModeSound
  <2>3. CASE v = u
    BY <1>1, <2>2, <2>3, EventKeeps
  <2>4. CASE v # u
    <3>1. v = Mark(u, n)
      BY <2>4 DEF Answer, u
    <3> HIDE DEF v, r
    <3>2. /\ Sound(v) /\ (Matches(u) => Matches(v)) /\ v.loop = u.loop
          /\ ModesSound(u) /\ Harmless(u, {n}) => ModesSound(v)
          /\ Phases(u) /\ (u.loop = "main" \/ n # 1) => Phases(v)
      BY <1>2, <2>2, <3>1, MarkSound
    <3>3. Phases(s) => s.loop = "main" \/ n # 1
      BY <1>1, <1>2
    <3>4. Harmless(u, {n}) \/ u.dropped \/ ~ModesSound(s)
      <4>1. SUFFICES ASSUME n \in Live(u), ~u.dropped, ModesSound(s)
                     PROVE  u.grabs[n].handler = "submap" => u.sub[u.grabs[n].holder] = 0
        <5>1. CASE ~u.dropped /\ ModesSound(s)
          <6>1. ResizeSound(u)
            BY <2>2, <5>1 DEF ModesSound
          <6>2. u.mode = NULL
            BY <1>4, <1>6, <2>1, EndModeFacts
          <6>3. Of(u, "resize") = {}
            <7>1. ASSUME NEW j \in Of(u, "resize") PROVE FALSE
              <8>1. u.grabs[j] \in Entry /\ u.grabs[j].handler = "resize"
                BY <2>2 DEF Sound, State, Of, Live, Slots
              <8>2. u.grabs[j].holder \in Frames
                BY <8>1 DEF Entry, HolderOf
              <8>3. u.mode = u.grabs[j].holder
                BY <6>1, <8>2 DEF ResizeSound
              <8> QED BY <6>2, <8>2, <8>3, GrabAssumption DEF Regions
            <7> QED BY <7>1
          <6> QED BY <6>3 DEF Harmless, Of
        <5> QED BY <5>1
      <4>2. \E m : Fewer(s.grabs, u.grabs, m)
        BY <1>4, <1>6, <2>1, EndModeFacts
      <4>3. u.grabs[n].handler = s.grabs[n].handler
        <5>1. u \in State
          BY <2>2 DEF Sound
        <5>2. PICK m : Fewer(s.grabs, u.grabs, m)
          BY <4>2
        <5>3. \A i \in Live(u) : u.grabs[i].handler = s.grabs[i].handler
          BY <1>4, <5>1, <5>2, LiveFewer
        <5> QED BY <4>1, <5>3
      <4> QED BY <1>1, <1>2, <4>3
    <3>5. u.dropped => v.dropped
      <4>1. u \in State
        BY <2>2 DEF Sound
      <4> QED BY <1>2, <3>1, <4>1, MarkFacts DEF SameBut
    <3>6. ModesSound(s) => ModesSound(v)
      BY <2>2, <3>2, <3>4, <3>5 DEF ModesSound
    <3> QED BY <1>1, <2>2, <3>2, <3>3, <3>6, EventKeeps
  <2> QED BY <2>3, <2>4
<1>7. CASE s.mode # Top(s).holder \/ op \notin {"resize", "finish", "cancel"}
  <2>1. u = s /\ ~r.done
    BY <1>4, <1>7 DEF resize_handler
  <2>2. v = s
    BY <2>1 DEF Answer
  <2> HIDE DEF v
  <2> QED BY <1>1, <2>2, EventKeeps
<1> QED BY <1>5, <1>6, <1>7

\* A path grows by one.
LEMMA Deeper ==
  ASSUME NEW t, Sound(t), NEW r \in Regions, t.sub[r] < MaxSub
  PROVE  LET v == [t EXCEPT !.sub[r] = @ + 1]
         IN /\ v \in State /\ SameGrabs(t, v) /\ v.alive = t.alive /\ v.loop = t.loop
            /\ v.mode = t.mode /\ v.timer = t.timer /\ v.dropped = t.dropped
            /\ \A q \in Regions : q # r => v.sub[q] = t.sub[q]
<1> DEFINE sub == [t.sub EXCEPT ![r] = t.sub[r] + 1]
           v == [t EXCEPT !.sub[r] = @ + 1]
<1>1. t \in State /\ t.sub \in [Regions -> 0 .. MaxSub]
  BY DEF Sound, State
<1>2. sub \in [Regions -> 0 .. MaxSub] /\ \A q \in Regions : q # r => sub[q] = t.sub[q]
  BY <1>1 DEF MaxSub
<1>3. v = [t EXCEPT !.sub = sub]
  OBVIOUS
<1> HIDE DEF sub, v
<1>4. v \in State
  BY <1>1, <1>2, <1>3 DEF State
<1>5. /\ SameGrabs(t, v) /\ v.alive = t.alive /\ v.loop = t.loop /\ v.sub = sub
      /\ v.mode = t.mode /\ v.timer = t.timer /\ v.dropped = t.dropped
  BY <1>1, <1>3 DEF State, SameGrabs
<1> QED BY <1>2, <1>4, <1>5 DEF v

\* The path of r is left.
LEMMA Cleared ==
  ASSUME NEW t, Sound(t), NEW r \in Regions
  PROVE  LET v == clear_subs(t, r)
         IN /\ Sound(v) /\ SameGrabs(t, v) /\ v.loop = t.loop /\ v.sub[r] = 0
            /\ (ModesSound(t) => ModesSound(v)) /\ (Phases(t) => Phases(v))
            /\ (Matches(t) => Matches(v))
<1> DEFINE sub == [t.sub EXCEPT ![r] = 0]
           v == clear_subs(t, r)
<1>1. t \in State /\ t.sub \in [Regions -> 0 .. MaxSub]
  BY DEF Sound, State
<1>2. /\ sub \in [Regions -> 0 .. MaxSub] /\ sub[r] = 0
      /\ \A q \in Regions : sub[q] > 0 => t.sub[q] > 0
  BY <1>1 DEF MaxSub
<1>3. v = [t EXCEPT !.sub = sub]
  BY DEF clear_subs
<1> HIDE DEF sub, v
<1>4. v \in State
  BY <1>1, <1>2, <1>3 DEF State
<1>5. /\ SameGrabs(t, v) /\ v.alive = t.alive /\ v.loop = t.loop /\ v.sub = sub
      /\ v.mode = t.mode /\ v.timer = t.timer /\ v.dropped = t.dropped
  BY <1>1, <1>3 DEF State, SameGrabs
<1>6. Sound(v) /\ (Matches(t) => Matches(v))
  BY <1>4, <1>5, SameSound DEF SameGrabs
<1>7. ModesSound(t) => ModesSound(v)
  <2>1. \A q \in Frames \cup {Root} : v.sub[q] > 0 => t.sub[q] > 0
    BY <1>2, <1>5 DEF Regions
  <2> QED BY <1>5, <2>1, SameModes DEF SameGrabs
<1>8. Phases(t) => Phases(v)
  BY <1>5, SamePhases DEF SameGrabs
<1> QED BY <1>2, <1>5, <1>6, <1>7, <1>8 DEF v

\* The keyboard as do_key leaves it before the call of a binding
Ungrabbed(t) == [t EXCEPT !.xkb = NULL]

\* do_key ungrabs the keyboard while the grab is still there.
LEMMA UngrabbedFacts ==
  ASSUME NEW t, Sound(t)
  PROVE  /\ Sound(Ungrabbed(t)) /\ Ungrabbed(t).grabs = t.grabs
         /\ Ungrabbed(t).loop = t.loop /\ Ungrabbed(t).sub = t.sub
         /\ (ModesSound(t) => ModesSound(Ungrabbed(t))) /\ (Phases(t) => Phases(Ungrabbed(t)))
         /\ t.xkb = NULL => Ungrabbed(t) = t
<1> DEFINE v == Ungrabbed(t)
<1>1. t \in State
  BY DEF Sound
<1>2. /\ v \in State /\ v.grabs = t.grabs /\ v.alive = t.alive /\ v.loop = t.loop /\ v.sub = t.sub
      /\ v.mode = t.mode /\ v.timer = t.timer /\ v.dropped = t.dropped
  BY <1>1 DEF Ungrabbed, State
<1>3. t.xkb = NULL => v = t
  BY <1>1 DEF Ungrabbed, State
<1> HIDE DEF v
<1>4. Sound(v)
  BY <1>2, SameSound
<1>5. (ModesSound(t) => ModesSound(v)) /\ (Phases(t) => Phases(v))
  BY <1>2, SameModes, SamePhases
<1> QED BY <1>2, <1>3, <1>4, <1>5 DEF v

\* A key in a submap.
LEMMA SubmapKeyKeeps ==
  ASSUME Sound(s), Matches(s), NEW k \in Keys, SubmapKey(k)
  PROVE  Keeps(s, s')
<1> DEFINE n == Len(s.grabs)
           reg == Top(s).holder
           d == do_key(s, reg, k)
           r == submapgrab_handler(s, reg, k)
<1>1. grab_held(s) /\ Top(s).handler = "submap" /\ Event(Answer(n, Top(s).sqid, r))
  BY DEF SubmapKey, ToHandler
<1>2. /\ n \in Nat /\ n \in Slots(s) /\ n \in Live(s) /\ Top(s) = s.grabs[n] /\ Top(s) \in Entry
      /\ Phases(s) /\ s.loop # "main" => s.grabs[1].handler = "pointer"
      /\ Phases(s) /\ s.loop # "main" => n = 1 \/ Top(s).handler = "quote"
  BY <1>1, TopFacts
<1>3. reg \in Frames \cup {Root} /\ reg \in Regions
  BY <1>1, <1>2 DEF Entry, HolderOf, Regions
<1>4. s \in State /\ k.call \in Calls /\ k.bound \in {"none", "submap", "call", "call_wait"}
  BY DEF Sound, Keys, Bindings
<1>5. Phases(s) => s.loop = "main"
  BY <1>1, <1>2
<1> HIDE DEF n
<1>6. CASE k.bound = "submap" /\ s.sub[reg] < MaxSub
  <2> DEFINE v == [s EXCEPT !.sub[reg] = @ + 1]
  <2>1. d.s = v /\ d.ret = "submap"
    BY <1>3, <1>6 DEF do_key
  <2>2. r.s = v /\ ~r.done
    BY <2>1 DEF submapgrab_handler
  <2>3. Event(v)
    BY <1>1, <2>2 DEF Answer
  <2> HIDE DEF reg
  <2>4. /\ v \in State /\ SameGrabs(s, v) /\ v.alive = s.alive /\ v.loop = s.loop
        /\ v.mode = s.mode /\ v.timer = s.timer /\ v.dropped = s.dropped
        /\ \A q \in Regions : q # reg => v.sub[q] = s.sub[q]
    BY <1>3, <1>6, Deeper
  <2> HIDE DEF v
  <2>5. Sound(v) /\ Matches(v)
    BY <2>4, SameSound DEF SameGrabs
  <2>6. Phases(s) => Phases(v)
    BY <2>4, SamePhases DEF SameGrabs
  <2>7. ModesSound(s) => ModesSound(v)
    <3>1. Live(v) = Live(s) /\ Slots(v) = Slots(s) /\ v.grabs = s.grabs
      BY <2>4 DEF Live, Slots, SameGrabs
    <3>2. \A h : Of(v, h) = Of(s, h)
      BY <3>1 DEF Of
    <3>3. ResizeSound(s) => ResizeSound(v)
      BY <2>4, <3>1, <3>2 DEF ResizeSound
    <3>4. n \in Of(v, "submap") /\ v.grabs[n].holder = reg
      BY <1>1, <1>2, <3>1 DEF Of, reg
    <3>5. SubmapSound(s) => SubmapSound(v)
      <4>1. Frames \cup {Root} \subseteq Regions
        BY DEF Regions
      <4> QED BY <2>4, <3>1, <3>2, <3>4, <4>1 DEF SubmapSound
    <3> QED BY <2>4, <3>3, <3>5 DEF ModesSound
  <2> QED BY <2>3, <2>5, <2>6, <2>7, EventKeeps
<1>7. CASE ~(k.bound = "submap" /\ s.sub[reg] < MaxSub)
  <2> DEFINE u == d.s
             w == clear_subs(u, reg)
  <2>1. d.ret # "submap"
    BY <1>7 DEF do_key
  <2>2. r = [s |-> w, done |-> TRUE]
    BY <2>1 DEF submapgrab_handler
  <2>3. u = s \/ u = Call(Ungrabbed(s), k.call)
    BY <1>3, <1>7 DEF do_key, Ungrabbed
  <2> HIDE DEF d, u, r, reg
  <2>4. /\ Sound(u) /\ (Matches(u) \/ u.grabs = s.grabs) /\ u.loop = s.loop
        /\ n \in Slots(u) /\ u.grabs[n] = s.grabs[n]
        /\ ModesSound(s) /\ Phases(s) => ModesSound(u) /\ Phases(u)
    <3>1. CASE u = s
      BY <1>2, <3>1
    <3>2. CASE u = Call(Ungrabbed(s), k.call)
      <4> DEFINE t == Ungrabbed(s)
      <4>1. /\ Sound(t) /\ t.grabs = s.grabs /\ t.loop = s.loop
            /\ (ModesSound(s) => ModesSound(t)) /\ (Phases(s) => Phases(t))
        BY UngrabbedFacts
      <4> HIDE DEF t
      <4>2. Called(t, u, k.call.op \in {"none", "quote", "rqclose"})
        BY <1>4, <3>2, <4>1, CallCalled DEF t
      <4>3. n \in Slots(t)
        BY <1>2, <4>1 DEF Slots
      <4> QED BY <1>5, <4>1, <4>2, <4>3 DEF Called, SameGrabs
    <3> QED BY <2>3, <3>1, <3>2
  <2>5. /\ Sound(w) /\ SameGrabs(u, w) /\ w.loop = u.loop /\ w.sub[reg] = 0
        /\ (ModesSound(u) => ModesSound(w)) /\ (Phases(u) => Phases(w))
        /\ (Matches(u) => Matches(w))
    BY <1>3, <2>4, Cleared
  <2> HIDE DEF w
  <2>6. n \in Slots(w) /\ w.grabs[n] = s.grabs[n] /\ (Matches(w) \/ w.grabs = s.grabs)
    BY <2>4, <2>5 DEF SameGrabs, Slots
  <2>7. Event(Answer(n, Top(s).sqid, [s |-> w, done |-> TRUE])) /\ w.sub[Top(s).holder] = 0
    BY <1>1, <2>2, <2>5 DEF reg
  <2>8. n = Len(s.grabs) /\ w.loop = s.loop /\ (ModesSound(s) /\ Phases(s) => ModesSound(w) /\ Phases(w))
    BY <2>4, <2>5 DEF n
  <2> QED BY <1>1, <2>5, <2>6, <2>7, <2>8, AnswerKeeps
<1> QED BY <1>6, <1>7

\* A key with no grab: u is what the binding leaves.
LEMMA KeypressKeeps ==
  ASSUME Sound(s), Matches(s),
         NEW reg \in Regions \ Clients, NEW k \in Keys, NEW mods \in BOOLEAN, Keypress(reg, k, mods)
  PROVE  Keeps(s, s')
<1> DEFINE d == do_key(s, reg, k)
           u == d.s
           v == HandleKeypress(s, reg, k, mods)
           grabbed == reg \in Frames \cup {Root}
<1>1. s.loop = "main" /\ ~grab_held(s) /\ reg \in s.alive /\ Event(v)
  BY DEF Keypress, Main
<1>2. s \in State /\ k.call \in Calls /\ k.bound \in {"none", "submap", "call", "call_wait"}
  BY DEF Sound, Keys, Bindings
<1>3. s.xkb = NULL /\ Live(s) = {} /\ Len(s.grabs) = 0
  BY <1>1, <1>2 DEF Matches, Live, Slots, grab_held, State
<1>4. CASE k.bound = "submap" /\ s.sub[reg] < MaxSub
  <2> DEFINE w == [s EXCEPT !.sub[reg] = @ + 1]
  <2>1. u = w /\ d.ret = IF grabbed THEN "submap" ELSE "none_submap"
    BY <1>4 DEF do_key
  <2>2. /\ w \in State /\ SameGrabs(s, w) /\ w.alive = s.alive /\ w.loop = s.loop
        /\ w.mode = s.mode /\ w.timer = s.timer /\ w.dropped = s.dropped
        /\ \A q \in Regions : q # reg => w.sub[q] = s.sub[q]
    BY <1>4, Deeper
  <2>3. v = IF grabbed THEN Establish(w, reg, "submap") ELSE w
    BY <1>1, <2>1, <2>2 DEF HandleKeypress
  <2> HIDE DEF w
  <2>4. Sound(w) /\ Matches(w) /\ (Phases(s) => Phases(w))
    BY <2>2, SameSound, SamePhases DEF SameGrabs
  <2>5. CASE grabbed
    <3>1. "submap" \in DOMAIN HolderOf /\ reg \in HolderOf["submap"] /\ reg \in w.alive
      BY <1>1, <2>2, <2>5 DEF HolderOf
    <3>2. v = Establish(w, reg, "submap")
      BY <2>3, <2>5
    <3> HIDE DEF v
    <3>3. Established(w, v, reg, "submap")
      BY <2>4, <3>1, <3>2, EstablishFacts
    <3>4. Sound(v) /\ Matches(v)
      BY <2>4, <3>1, <3>3, EstablishSound
    <3>5. Phases(w) => Phases(v)
      BY <1>1, <2>2, <2>4, <3>3, EstablishPhases
    <3>6. ~SameGrabs(w, v)
      BY <1>3, <2>2, <3>3, GrabAssumption DEF Established, SameGrabs
    <3>7. w.grabs = s.grabs /\ Live(w) = Live(s) /\ Slots(w) = Slots(s)
      BY <2>2 DEF Live, Slots, SameGrabs
    <3>8. ResizeSound(s) => ResizeSound(v)
      <4>1. ResizeSound(s) => ResizeSound(w)
        BY <2>2, <3>7 DEF ResizeSound, Of
      <4> QED BY <2>4, <3>3, <3>6, <4>1, EstablishResize
    <3>9. SubmapSound(s) => SubmapSound(v)
      <4>1. Frames \cup {Root} \subseteq Regions
        BY DEF Regions
      <4>2. SubmapSound(s) => \A q \in Frames \cup {Root} :
              w.sub[q] > 0 => q = reg \/ \E i \in Of(w, "submap") : w.grabs[i].holder = q
        BY <2>2, <3>7, <4>1 DEF SubmapSound, Of
      <4> QED BY <2>4, <3>3, <3>6, <4>2, EstablishSubmap
    <3>10. ModesSound(s) => ModesSound(v)
      <4>1. v.dropped = w.dropped
        BY <2>4, <3>3, <3>6, LiveEstablished
      <4> QED BY <2>2, <3>8, <3>9, <4>1 DEF ModesSound
    <3> QED BY <1>1, <2>4, <3>4, <3>5, <3>10, EventKeeps DEF v
  <2>6. CASE ~grabbed
    <3>1. ModesSound(s) => ModesSound(w)
      <4>1. \A q \in Frames \cup {Root} : w.sub[q] = s.sub[q]
        BY <2>2, <2>6 DEF Regions
      <4> QED BY <2>2, <4>1, SameModes DEF SameGrabs
    <3> QED BY <1>1, <2>3, <2>4, <2>6, <3>1, EventKeeps
  <2> QED BY <2>5, <2>6
<1>5. CASE ~(k.bound = "submap" /\ s.sub[reg] < MaxSub)
  <2>1. d.ret \in {"none", "waitrelease"}
    BY <1>5 DEF do_key
  <2>2. u = s \/ u = Call(s, k.call)
    <3>1. Ungrabbed(s) = s
      BY <1>3, UngrabbedFacts
    <3> QED BY <1>5, <3>1 DEF do_key, Ungrabbed
  <2>3. \/ v = u
        \/ v = clear_subs(u, reg)
        \/ v = Establish(u, Root, "waitrelease")
    BY <2>1 DEF HandleKeypress
  <2> HIDE DEF d, u, v
  <2>4. /\ Sound(u) /\ Matches(u) /\ u.loop = s.loop
        /\ ModesSound(s) => ModesSound(u)
        /\ Phases(s) => Phases(u)
    <3>1. CASE u = s
      BY <3>1
    <3>2. CASE u = Call(s, k.call)
      BY <1>1, <1>2, <3>2, CallCalled DEF Called
    <3> QED BY <2>2, <3>1, <3>2
  <2>5. CASE v = u
    BY <1>1, <2>4, <2>5, EventKeeps DEF v
  <2>6. CASE v = clear_subs(u, reg)
    <3>1. /\ Sound(v) /\ (ModesSound(u) => ModesSound(v)) /\ (Phases(u) => Phases(v))
          /\ (Matches(u) => Matches(v))
      BY <2>4, <2>6, Cleared
    <3> QED BY <1>1, <2>4, <3>1, EventKeeps DEF v
  <2>7. CASE v = Establish(u, Root, "waitrelease")
    <3>1. "waitrelease" \in DOMAIN HolderOf /\ Root \in HolderOf["waitrelease"] /\ Root \in u.alive
      BY <2>4 DEF HolderOf, Sound
    <3>2. Called(u, v, "waitrelease" = "quote")
      BY <2>4, <2>7, <3>1, EstablishCalled
    <3>3. /\ Sound(v) /\ Matches(v) /\ (ModesSound(u) => ModesSound(v))
          /\ (Phases(u) => Phases(v))
      BY <1>1, <2>4, <3>2 DEF Called
    <3> QED BY <1>1, <2>4, <3>3, EventKeeps DEF v
  <2> QED BY <2>3, <2>5, <2>6, <2>7
<1> QED BY <1>4, <1>5

\* The drag handlers that a button's binding sets.
LEMMA SetDrag ==
  ASSUME NEW t, Sound(t), NEW drag \in {"none", "resize", "tab"}
  PROVE  LET v == set_drag_handlers(t, drag)
         IN /\ Sound(v) /\ (Matches(t) => Matches(v))
            /\ (ModesSound(t) => ModesSound(v)) /\ (Phases(t) => Phases(v))
<1> DEFINE p == [t.p EXCEPT !.drag = drag, !.motion = TRUE]
           v == set_drag_handlers(t, drag)
<1>1. CASE t.p.motion
  BY <1>1 DEF set_drag_handlers
<1>2. CASE ~t.p.motion
  <2>1. t \in State /\ p \in Pointer
    BY DEF Sound, State, Pointer
  <2>2. v = WithPointer(t, p)
    <3>1. v = [t EXCEPT !.p.drag = drag, !.p.motion = TRUE]
      BY <1>2 DEF set_drag_handlers
    <3>2. [t EXCEPT !.p.drag = drag, !.p.motion = TRUE] = [t EXCEPT !.p = p]
      BY <2>1 DEF State
    <3> QED BY <3>1, <3>2 DEF WithPointer
  <2> HIDE DEF p, v
  <2>3. /\ v \in State /\ SameGrabs(t, v) /\ SameBut(t, v)
        /\ v.mode = t.mode /\ v.timer = t.timer
    BY <2>1, <2>2, SetPointer
  <2>4. Sound(v) /\ (Matches(t) => Matches(v))
    BY <2>3, SameSound DEF SameGrabs, SameBut
  <2>5. (ModesSound(t) => ModesSound(v)) /\ (Phases(t) => Phases(v))
    BY <2>3, SameModes, SamePhases DEF SameGrabs, SameBut
  <2> QED BY <2>4, <2>5 DEF v
<1> QED BY <1>1, <1>2

\* A button is pressed: a call, and then the loop or not.
LEMMA ButtonPressKeeps ==
  ASSUME Sound(s), Matches(s), NEW reg \in Frames, NEW drag \in {"none", "resize", "tab"},
         NEW c \in PointerCalls, ButtonPress(reg, drag, c)
  PROVE  Keeps(s, s')
<1> DEFINE p == [state |-> "held", reg |-> reg, motion |-> FALSE, drag |-> "none"]
           u == [s EXCEPT !.loop = "drag", !.p = p]
           t == Establish(u, reg, "pointer")
           v == IF drag = "none" THEN Call(t, c) ELSE set_drag_handlers(t, drag)
<1>1. /\ ~grab_held(s) /\ reg \in s.alive /\ Event(v) /\ c.op \in DragCalls \cup {"none", "rqclose"}
      /\ c \in Calls
  BY DEF ButtonPress, PointerCalls
<1>2. s \in State /\ p \in Pointer
  BY DEF Sound, Pointer
<1> HIDE DEF p
<1>3. u \in State
  BY <1>2 DEF State
<1>4. /\ SameGrabs(s, u) /\ u.alive = s.alive /\ u.sub = s.sub /\ u.loop = "drag"
      /\ u.mode = s.mode /\ u.timer = s.timer /\ u.dropped = s.dropped
  BY <1>2 DEF State, SameGrabs
<1> HIDE DEF u
<1>5. Sound(u) /\ Matches(u)
  BY <1>3, <1>4, SameSound DEF SameGrabs
<1>6. ModesSound(s) => ModesSound(u)
  BY <1>4, SameModes DEF SameGrabs
<1>7. "pointer" \in DOMAIN HolderOf /\ reg \in HolderOf["pointer"] /\ reg \in u.alive
  BY <1>1, <1>4 DEF HolderOf
<1>8. Established(u, t, reg, "pointer")
  BY <1>5, <1>7, EstablishFacts
<1> HIDE DEF t
<1>9. Len(u.grabs) = 0 /\ Slots(u) = {}
  BY <1>1, <1>4 DEF SameGrabs, grab_held, Slots
<1>10. ~SameGrabs(u, t)
  <2>1. Len(u.grabs) # MAX_GRABS
    BY <1>9, GrabAssumption
  <2>2. Len(t.grabs) = 0 + 1
    BY <1>8, <1>9, <2>1 DEF Established
  <2>3. Len(t.grabs) # Len(u.grabs)
    <3>1. 0 + 1 # 0
      OBVIOUS
    <3> QED BY <1>9, <2>2, <3>1
  <2>4. SameGrabs(u, t) => Len(t.grabs) = Len(u.grabs)
    <3>1. SameGrabs(u, t) => t.grabs = u.grabs
      BY DEF SameGrabs
    <3> QED BY <3>1
  <2> QED BY <2>3, <2>4
<1>11. Sound(t) /\ Matches(t)
  BY <1>5, <1>7, <1>8, EstablishSound
<1>12. Phases(t)
  <2>1. /\ Live(t) = Live(u) \cup {1} /\ Slots(t) = {1}
        /\ t.grabs[1].handler = "pointer" /\ Len(t.grabs) = 1
    <3>1. /\ Live(t) = Live(u) \cup {Len(t.grabs)} /\ Slots(t) = Slots(u) \cup {Len(t.grabs)}
          /\ t.grabs[Len(t.grabs)].handler = "pointer" /\ Len(t.grabs) = Len(u.grabs) + 1
      BY <1>5, <1>8, <1>10, LiveEstablished
    <3>2. Len(t.grabs) = 1
      BY <1>9, <3>1
    <3> QED BY <1>9, <3>1, <3>2
  <2>2. t.loop = "drag"
    BY <1>4, <1>8 DEF Established
  <2>3. grab_held(t)
    BY <2>1 DEF grab_held
  <2> QED BY <2>1, <2>2, <2>3 DEF Phases, Of
<1>13. ModesSound(u) => ModesSound(t)
  <2>1. ResizeSound(u) => ResizeSound(t)
    BY <1>5, <1>8, <1>10, EstablishResize
  <2>2. SubmapSound(u) => SubmapSound(t)
    BY <1>5, <1>8, <1>10, EstablishSubmap DEF SubmapSound
  <2>3. t.dropped = u.dropped
    BY <1>5, <1>8, <1>10, LiveEstablished
  <2> QED BY <2>1, <2>2, <2>3 DEF ModesSound
<1>14. CASE drag = "none"
  <2>1. v = Call(t, c)
    BY <1>14
  <2>2. Calm => c.op \in {"none", "quote", "rqclose"}
    BY <1>1, GrabAssumption DEF Calm
  <2> HIDE DEF v
  <2>3. Called(t, v, c.op \in {"none", "quote", "rqclose"})
    BY <1>1, <1>11, <2>1, CallCalled
  <2>4. /\ Sound(v) /\ Matches(v)
        /\ Calm /\ ModesSound(s) => ModesSound(v) /\ Phases(v)
    BY <1>6, <1>11, <1>12, <1>13, <2>2, <2>3 DEF Called
  <2> QED BY <1>1, <2>4, EventKeeps DEF v
<1>15. CASE drag # "none"
  <2>1. v = set_drag_handlers(t, drag)
    BY <1>15
  <2> HIDE DEF v
  <2>2. /\ Sound(v) /\ (Matches(t) => Matches(v))
        /\ (ModesSound(t) => ModesSound(v)) /\ (Phases(t) => Phases(v))
    BY <1>11, <2>1, SetDrag
  <2> QED BY <1>1, <1>6, <1>11, <1>12, <1>13, <2>2, EventKeeps DEF v
<1> QED BY <1>14, <1>15

\* The motion that begins a drag.
LEMMA MotionBeginKeeps ==
  ASSUME Sound(s), Matches(s), NEW drag \in {"none", "resize", "tab"}, MotionBegin(drag)
  PROVE  Keeps(s, s')
<1> DEFINE p == [s.p EXCEPT !.motion = TRUE, !.drag = drag]
           mode == IF drag = "resize" /\ s.mode = NULL THEN s.p.reg ELSE s.mode
           v == [s EXCEPT !.p.motion = TRUE, !.p.drag = drag,
                          !.mode = IF drag = "resize" /\ @ = NULL THEN s.p.reg ELSE @]
<1>1. Event(v) /\ s.p.reg # NULL
  BY DEF MotionBegin
<1>2. s \in State /\ p \in Pointer /\ mode \in Frames \cup {NULL}
  BY DEF Sound, State, Pointer
<1>3. v = [s EXCEPT !.p = p, !.mode = mode]
  BY <1>2 DEF State
<1> HIDE DEF v, p
<1>4. mode # s.mode => s.mode = NULL /\ mode # NULL
  BY <1>1
<1> HIDE DEF mode
<1>5. v \in State
  BY <1>2, <1>3 DEF State
<1>6. /\ SameGrabs(s, v) /\ v.alive = s.alive /\ v.sub = s.sub /\ v.loop = s.loop
      /\ v.mode = mode /\ v.timer = s.timer /\ v.dropped = s.dropped
  BY <1>2, <1>3 DEF State, SameGrabs
<1>7. Sound(v) /\ Matches(v)
  BY <1>5, <1>6, SameSound DEF SameGrabs
<1>8. Phases(s) => Phases(v)
  BY <1>6, SamePhases DEF SameGrabs
<1>9. ModesSound(s) => ModesSound(v)
  <2>1. v.grabs = s.grabs /\ Live(v) = Live(s) /\ Slots(v) = Slots(s)
    BY <1>6 DEF Live, Slots, SameGrabs
  <2>2. ResizeSound(s) => (v.timer = "mode" => v.mode = s.mode)
    BY <1>4, <1>6 DEF ResizeSound
  <2>3. ResizeSound(s) => ResizeSound(v)
    BY <1>6, <2>1, <2>2 DEF ResizeSound, Of
  <2>4. SubmapSound(s) => SubmapSound(v)
    BY <1>6, <2>1 DEF SubmapSound, Of
  <2> QED BY <1>6, <2>3, <2>4 DEF ModesSound
<1> QED BY <1>1, <1>7, <1>8, <1>9, EventKeeps DEF v

\* p_moveres_end ends the mode of a drag, which has no grab of its own.
LEMMA MoveresEnd ==
  ASSUME NEW t, Sound(t)
  PROVE  LET v == p_moveres_end(t)
         IN /\ Sound(v) /\ SameGrabs(t, v) /\ SameBut(t, v)
            /\ (Phases(t) /\ t.loop # "main" /\ ModesSound(t) => ModesSound(v))
<1> DEFINE timer == IF t.timer = "mode" THEN "idle" ELSE t.timer
           v == p_moveres_end(t)
<1>1. CASE t.p.reg # NULL /\ t.mode = t.p.reg
  <2>1. v = WithMode(t, NULL, timer)
    BY <1>1 DEF p_moveres_end, WithMode
  <2>2. t \in State /\ timer \in {"none", "mode", "idle"} /\ timer # "mode" /\ NULL \in Frames \cup {NULL}
    BY DEF Sound, State
  <2> HIDE DEF timer, v
  <2>3. /\ v \in State /\ SameGrabs(t, v) /\ SameBut(t, v) /\ v.mode = NULL /\ v.timer = timer
    BY <2>1, <2>2, SetMode
  <2>4. Sound(v)
    BY <2>3, SameSound DEF SameGrabs, SameBut
  <2>5. ASSUME Phases(t), t.loop # "main", ModesSound(t) PROVE ModesSound(v)
    <3>1. v.grabs = t.grabs /\ Live(v) = Live(t) /\ Slots(v) = Slots(t)
      BY <2>3 DEF Live, Slots, SameGrabs
    <3>2. \A i \in Slots(t) : t.grabs[i].handler # "resize"
      BY <2>5 DEF Phases, Of
    <3>3. Of(v, "resize") = {}
      BY <3>1, <3>2 DEF Of, Live
    <3>4. ResizeSound(v)
      BY <2>2, <2>3, <3>1, <3>2, <3>3 DEF ResizeSound
    <3>5. SubmapSound(t) => SubmapSound(v)
      BY <2>3, <3>1 DEF SubmapSound, Of, SameBut
    <3> QED BY <2>3, <2>5, <3>4, <3>5 DEF ModesSound, SameBut
  <2> QED BY <2>3, <2>4, <2>5 DEF v
<1>2. CASE ~(t.p.reg # NULL /\ t.mode = t.p.reg)
  <2>1. v = t
    BY <1>2 DEF p_moveres_end
  <2> HIDE DEF v
  <2> QED BY <2>1 DEF SameGrabs, SameBut, v
<1> QED BY <1>1, <1>2

\* With the button, the grab of the pointer goes; what the call of a binding
\* has begun stays.
LEMMA ButtonReleaseKeeps ==
  ASSUME Sound(s), Matches(s), NEW c \in PointerCalls, ButtonRelease(c)
  PROVE  Keeps(s, s')
<1> DEFINE t == IF s.p.reg = NULL THEN s
                ELSE IF ~s.p.motion THEN Call(s, c)
                ELSE IF s.p.drag = "resize" THEN p_moveres_end(s) ELSE s
           w == GrabRemove(t, "pointer")
           p == [w.p EXCEPT !.state = "no"]
           v == [finish_pointer(w) EXCEPT !.loop = "main"]
<1>1. s.loop = "drag" /\ Event(v) /\ c \in Calls
  BY DEF ButtonRelease, PointerCalls
<1>2. t = s \/ t = Call(s, c) \/ t = p_moveres_end(s)
  OBVIOUS
<1> HIDE DEF t
<1>3. /\ Sound(t) /\ Matches(t) /\ t.loop = "drag"
      /\ \A i \in Slots(s) : i \in Slots(t) /\ t.grabs[i] = s.grabs[i]
      /\ \A i \in Slots(t) : i \notin Slots(s) => t.grabs[i].handler # "pointer"
      /\ ModesSound(s) /\ Phases(s) => ModesSound(t)
  <2>1. CASE t = s
    BY <1>1, <2>1
  <2>2. CASE t = Call(s, c)
    <3>1. Called(s, t, c.op \in {"none", "quote", "rqclose"})
      BY <1>1, <2>2, CallCalled
    <3> QED BY <1>1, <3>1 DEF Called
  <2>3. CASE t = p_moveres_end(s)
    <3>1. /\ Sound(t) /\ SameGrabs(s, t) /\ SameBut(s, t)
          /\ (Phases(s) /\ s.loop # "main" /\ ModesSound(s) => ModesSound(t))
      BY <2>3, MoveresEnd
    <3>2. Matches(t)
      BY <3>1, SameGrabsFacts DEF Sound
    <3> QED BY <1>1, <3>1, <3>2 DEF SameGrabs, SameBut, Slots
  <2> QED BY <1>2, <2>1, <2>2, <2>3
<1>4. /\ w \in State /\ Matches(w) /\ SameBut(t, w) /\ SameMode(t, w)
      /\ \E m \in SUBSET Slots(t) :
           /\ Fewer(t.grabs, w.grabs, m)
           /\ \A i \in m : t.grabs[i].handler = "pointer"
           /\ \A j \in Slots(t) : t.grabs[j].handler = "pointer" => \E i \in m : j <= i
  BY <1>3, GrabRemoveFacts DEF Sound
<1>5. PICK m \in SUBSET Slots(t) :
           /\ Fewer(t.grabs, w.grabs, m)
           /\ \A i \in m : t.grabs[i].handler = "pointer"
           /\ \A j \in Slots(t) : t.grabs[j].handler = "pointer" => \E i \in m : j <= i
  BY <1>4
<1> HIDE DEF w
<1>6. /\ v \in State /\ SameGrabs(w, v) /\ v.alive = w.alive /\ v.sub = w.sub
      /\ v.mode = w.mode /\ v.timer = w.timer /\ v.dropped = w.dropped /\ v.loop = "main"
  <2>1. p \in Pointer
    BY <1>4 DEF State, Pointer
  <2>2. finish_pointer(w) = WithPointer(w, p)
    BY DEF finish_pointer, WithPointer
  <2> HIDE DEF p
  <2> DEFINE x == WithPointer(w, p)
  <2>3. /\ x \in State /\ SameGrabs(w, x) /\ SameBut(w, x)
        /\ x.mode = w.mode /\ x.timer = w.timer
    BY <1>4, <2>1, SetPointer
  <2>4. v = [x EXCEPT !.loop = "main"]
    BY <2>2
  <2> HIDE DEF x, v
  <2>5. /\ v \in State /\ SameGrabs(x, v) /\ v.alive = x.alive /\ v.sub = x.sub
        /\ v.mode = x.mode /\ v.timer = x.timer /\ v.dropped = x.dropped /\ v.loop = "main"
    BY <2>3, <2>4 DEF State, SameGrabs
  <2> QED BY <2>3, <2>5 DEF SameGrabs, SameBut
<1> HIDE DEF v
<1>7. Live(w) = Live(t) \ m
  BY <1>3, <1>4, <1>5, LiveFewer DEF Sound
<1>8. Sound(w)
  <2>1. \A i \in Live(w) : t.grabs[i].holder \in w.alive
    BY <1>3, <1>4, <1>7 DEF Sound, SameBut
  <2> QED BY <1>3, <1>4, <1>5, <2>1, FewerSound DEF Sound, SameBut
<1>9. Sound(v) /\ Matches(v)
  BY <1>4, <1>6, <1>8, SameSound DEF SameGrabs
<1>10. ModesSound(t) => ModesSound(v)
  <2>1. Harmless(t, m)
    BY <1>5 DEF Harmless
  <2>2. ModesSound(t) => ModesSound(w)
    BY <1>3, <1>4, <1>5, <2>1, FewerModes DEF Sound, SameBut, SameMode
  <2>3. ModesSound(w) => ModesSound(v)
    BY <1>6, SameModes DEF SameGrabs
  <2> QED BY <2>2, <2>3
<1>11. Phases(s) => Phases(v)
  <2> SUFFICES ASSUME Phases(s) PROVE Phases(v)
    OBVIOUS
  <2>1. s.grabs \in Seq(Entry) /\ Slots(s) = 1 .. Len(s.grabs) /\ t.grabs \in Seq(Entry) /\ Slots(t) = 1 .. Len(t.grabs)
    BY <1>3 DEF Sound, State, Slots
  <2>2. 1 \in Slots(s) /\ s.grabs[1].handler = "pointer"
    BY <1>1 DEF Phases, Of, Live
  <2>3. ASSUME NEW i \in Slots(t), t.grabs[i].handler = "pointer" PROVE i = 1
    BY <1>1, <1>3, <2>3 DEF Phases
  <2>4. 1 \in Slots(t) /\ t.grabs[1].handler = "pointer"
    BY <1>3, <2>2
  <2>5. 1 \in m
    <3>1. \E i \in m : 1 <= i
      BY <1>5, <2>4
    <3>2. \A i \in m : i = 1
      BY <1>5, <2>3
    <3> QED BY <3>1, <3>2
  <2>6. Of(w, "pointer") = {}
    <3>1. Of(w, "pointer") = Of(t, "pointer") \ m
      BY <1>3, <1>4, <1>5, OfFewer DEF Sound
    <3>2. Of(t, "pointer") \subseteq {1}
      BY <2>3 DEF Of, Live
    <3> QED BY <2>5, <3>1, <3>2
  <2>7. Of(v, "pointer") = Of(w, "pointer")
    BY <1>6 DEF Of, Live, Slots, SameGrabs
  <2> QED BY <1>6, <2>6, <2>7 DEF Phases
<1> QED BY <1>1, <1>3, <1>9, <1>10, <1>11, EventKeeps DEF v

\* A call by a timer or mod_notionflux.
LEMMA LuaCallKeeps ==
  ASSUME Sound(s), Matches(s), NEW c \in PointerCalls, LuaCall(c)
  PROVE  Keeps(s, s')
<1>1. /\ c \in Calls /\ s' = Call(s, c)
      /\ c.op \in IF s.loop = "main" THEN {"kbresize", "quote"} ELSE DragCalls
  BY DEF LuaCall, PointerCalls
<1>2. Called(s, s', c.op \in {"none", "quote", "rqclose"})
  BY <1>1, CallCalled
<1>3. Calm => s.loop = "main" \/ c.op \in {"none", "quote", "rqclose"}
  BY <1>1, GrabAssumption DEF Calm
<1> QED BY <1>2, <1>3 DEF Called, Keeps

\* A region goes.
LEMMA CloseKeeps ==
  ASSUME Sound(s), Matches(s), NEW r \in Regions, Close(r)
  PROVE  Keeps(s, s')
<1> DEFINE v == rqclose(s, r)
<1>1. Event(v) /\ r \in Regions \ {Root}
  BY DEF Close
<1>2. Called(s, v, TRUE)
  BY <1>1, RqcloseCalled
<1> HIDE DEF v
<1> QED BY <1>1, <1>2, EventKeeps DEF Called, v

\* A client window is destroyed.
LEMMA ClientGoneKeeps ==
  ASSUME Sound(s), Matches(s), NEW c \in Clients, ClientGone(c)
  PROVE  Keeps(s, s')
<1> DEFINE v == Destroy(s, c)
<1>1. Event(v) /\ s.loop = "main" /\ c \in Regions \ {Root}
  BY GrabAssumption DEF ClientGone, Main, Regions
<1>2. /\ Sound(v) /\ Matches(v)
      /\ (s.loop = "main" /\ ModesSound(s) /\ Phases(s)) => (ModesSound(v) /\ Phases(v))
  BY <1>1, DestroySound
<1> HIDE DEF v
<1> QED BY <1>1, <1>2, EventKeeps DEF v

\* The deferred destructions are executed.
LEMMA ExecuteDeferredKeeps ==
  ASSUME Sound(s), Matches(s), ExecuteDeferred
  PROVE  Keeps(s, s')
<1>1. PICK r \in s.dying : s' = Loop(Destroy([s EXCEPT !.dying = @ \ {r}], r))
  BY DEF ExecuteDeferred
<1> DEFINE u == [s EXCEPT !.dying = @ \ {r}]
           v == Destroy(u, r)
<1>2. s \in State /\ s.loop = "main" /\ r \in Regions \ {Root}
  BY DEF Sound, State, ExecuteDeferred
<1>3. u \in State
  BY <1>2 DEF State
<1>4. /\ SameGrabs(s, u) /\ u.alive = s.alive /\ u.sub = s.sub /\ u.loop = s.loop
      /\ u.mode = s.mode /\ u.timer = s.timer /\ u.dropped = s.dropped
  BY <1>2 DEF State, SameGrabs
<1> HIDE DEF u
<1>5. Sound(u) /\ Matches(u) /\ (ModesSound(s) => ModesSound(u)) /\ (Phases(s) => Phases(u))
  BY <1>3, <1>4, SameSound, SameModes, SamePhases DEF SameGrabs
<1>6. /\ Sound(v) /\ Matches(v) /\ v.loop = u.loop
      /\ (u.loop = "main" /\ ModesSound(u) /\ Phases(u)) => (ModesSound(v) /\ Phases(v))
  BY <1>2, <1>5, DestroySound
<1>7. s' = Loop(v)
  BY <1>1 DEF u
<1> HIDE DEF v
<1>8. Loop(v) = v
  <2>1. v.loop = "main" /\ v \in State
    BY <1>2, <1>4, <1>6 DEF Sound
  <2> QED BY <2>1 DEF Loop, State
<1> QED BY <1>2, <1>4, <1>5, <1>6, <1>7, <1>8 DEF Keeps

\* The timer of keyboard resizing.
LEMMA ResizeTimeoutKeeps ==
  ASSUME Sound(s), Matches(s), ResizeTimeout
  PROVE  Keeps(s, s')
<1>1. s' = EndMode(s)
  BY DEF ResizeTimeout
<1> QED BY <1>1, EndModeSound DEF Keeps

-----------------------------------------------------------------------------
(* Theorems *)

\* What holds of every state, whatever Lua code does
IInv == Sound(s) /\ Matches(s) /\ left \in 0 .. MaxOps

\* ... and of modes and paths when it is calm
MInv == ModesSound(s) /\ Phases(s)

\* At first nothing is grabbed.
LEMMA Initially == Init => IInv /\ MInv
<1> SUFFICES ASSUME Init PROVE IInv /\ MInv
  OBVIOUS
<1>1. s.grabs = <<>> /\ Slots(s) = {} /\ Live(s) = {}
  BY DEF Init, Slots, Live
<1>2. s \in State
  <2> DEFINE sub == [r \in Regions |-> 0]
             p == [state |-> "no", reg |-> NULL, motion |-> FALSE, drag |-> "none"]
             gs == <<>>
  <2>1. sub \in [Regions -> 0 .. MaxSub] /\ p \in Pointer
    BY DEF MaxSub, Pointer
  <2>2. gs \in Seq(Entry)
    OBVIOUS
  <2>3. s = [alive |-> Regions \ Menus, dying |-> {}, aborted |-> FALSE,
             grabs |-> gs, last_sqid |-> 0, dropped |-> FALSE,
             xkb |-> NULL, input_mode |-> "normal",
             mode |-> NULL, timer |-> "none", sub |-> sub, p |-> p, loop |-> "main"]
    BY DEF Init
  <2> HIDE DEF sub, p, gs
  <2> QED BY <2>1, <2>2, <2>3 DEF State
<1>3. /\ Root \in s.alive /\ Len(s.grabs) = 0 /\ s.xkb = NULL /\ s.input_mode = "normal"
      /\ s.mode = NULL /\ s.timer = "none" /\ s.loop = "main"
      /\ \A r \in Regions : s.sub[r] = 0
  BY <1>1, GrabAssumption DEF Init, Regions
<1>4. Sound(s)
  BY <1>1, <1>2, <1>3, GrabAssumption DEF Sound, Of
<1>5. Matches(s)
  BY <1>1, <1>3 DEF Matches, grab_held
<1>6. ResizeSound(s)
  BY <1>1, <1>3 DEF ResizeSound, Of
<1>7. SubmapSound(s)
  BY <1>3 DEF SubmapSound, Regions
<1>8. Phases(s)
  BY <1>1, <1>3 DEF Phases, Of
<1>9. left \in 0 .. MaxOps
  BY GrabAssumption DEF Init
<1> QED BY <1>4, <1>5, <1>6, <1>7, <1>8, <1>9 DEF IInv, MInv, ModesSound

\* Every step keeps the state sound, and the modes where it may.
LEMMA NextKeeps == ASSUME Sound(s), Matches(s), Next PROVE Keeps(s, s')
<1>1. CASE Escape
  BY <1>1, EscapeKeeps
<1>2. CASE GrabmenuRelease
  BY <1>2, GrabmenuReleaseKeeps
<1>3. CASE \E k \in Keys : SubmapKey(k)
  BY <1>3, SubmapKeyKeeps
<1>4. CASE \E op \in {"none", "resize", "finish"} : ResizeKey(op)
  BY <1>4, ResizeKeyKeeps
<1>5. CASE LastKey("quote") \/ LastKey("waitrelease")
  BY <1>5, LastKeyKeeps
<1>6. CASE \E reg \in Regions \ Clients, k \in Keys, mods \in BOOLEAN : Keypress(reg, k, mods)
  BY <1>6, KeypressKeeps
<1>7. CASE \E reg \in Frames, drag \in {"none", "resize", "tab"}, c \in PointerCalls :
             ButtonPress(reg, drag, c)
  BY <1>7, ButtonPressKeeps
<1>8. CASE \E drag \in {"none", "resize", "tab"} : MotionBegin(drag)
  BY <1>8, MotionBeginKeeps
<1>9. CASE \E c \in PointerCalls : ButtonRelease(c) \/ LuaCall(c)
  BY <1>9, ButtonReleaseKeeps, LuaCallKeeps
<1>10. CASE \E r \in Regions : Close(r)
  BY <1>10, CloseKeeps
<1>11. CASE \E c \in Clients : ClientGone(c)
  BY <1>11, ClientGoneKeeps
<1>12. CASE ExecuteDeferred
  BY <1>12, ExecuteDeferredKeeps
<1>13. CASE ResizeTimeout
  BY <1>13, ResizeTimeoutKeeps
<1> QED BY <1>1, <1>2, <1>3, <1>4, <1>5, <1>6, <1>7, <1>8, <1>9, <1>10, <1>11, <1>12, <1>13 DEF Next

\* The number of operations left stays in its range.
LEMMA Left == ASSUME left \in 0 .. MaxOps, Next PROVE left' \in 0 .. MaxOps
<1>1. left' = left \/ (left > 0 /\ left' = left - 1)
  BY DEF Next, Escape, GrabmenuRelease, SubmapKey, ResizeKey, LastKey, ToHandler, Keypress,
         ButtonPress, MotionBegin, ButtonRelease, LuaCall, Close, ClientGone, ExecuteDeferred,
         ResizeTimeout, Event
<1> QED BY <1>1, GrabAssumption

\* Every step keeps IInv.
LEMMA Step == IInv /\ [Next]_vars => IInv'
<1> SUFFICES ASSUME IInv, [Next]_vars PROVE IInv'
  OBVIOUS
<1>1. CASE Next
  <2>1. Keeps(s, s') /\ left' \in 0 .. MaxOps
    BY <1>1, NextKeeps, Left DEF IInv
  <2> QED BY <2>1 DEF IInv, Keeps
<1>2. CASE UNCHANGED vars
  BY <1>2 DEF IInv, vars
<1> QED BY <1>1, <1>2

\* Without keyboard resizing in a drag every step keeps the modes.
LEMMA CalmStep == Calm /\ IInv /\ MInv /\ [Next]_vars => MInv'
<1> SUFFICES ASSUME Calm, IInv, MInv, [Next]_vars PROVE MInv'
  OBVIOUS
<1>1. CASE Next
  <2>1. Keeps(s, s')
    BY <1>1, NextKeeps DEF IInv
  <2> QED BY <2>1 DEF MInv, Keeps
<1>2. CASE UNCHANGED vars
  BY <1>2 DEF MInv, vars
<1> QED BY <1>1, <1>2

\* The stack of grabs, the keyboard of the server and the holders fit, between
\* any two events (grab.c: do_grab_remove, mark_for_removal, do_holder_remove).
THEOREM GrabsAlwaysSound == Spec => []GrabsSound
<1>1. IInv => GrabsSound
  <2> SUFFICES ASSUME IInv PROVE GrabsSound
    OBVIOUS
  <2>1. s \in State
    BY DEF IInv, Sound
  <2>2. TypeOK
    <3>1. s.grabs \in Seq(Grab)
      BY <2>1 DEF State, Entry
    <3>2. s.mode \in Regions \cup {NULL}
      BY <2>1 DEF State, Regions
    <3>3. Len(s.grabs) <= MAX_GRABS /\ left \in 0 .. MaxOps
      BY DEF IInv, Sound
    <3> QED BY <2>1, <3>1, <3>2, <3>3 DEF TypeOK, State
  <2>3. XGrabMatches
    BY DEF IInv, Matches, XGrabMatches
  <2>4. HoldersLive
    BY DEF IInv, Sound, Live, HoldersLive
  <2> QED BY <2>2, <2>3, <2>4 DEF GrabsSound
<1> QED BY <1>1, Initially, Step, PTL DEF Spec

\* If Lua code begins no keyboard resize while a button is held, a resize mode
\* and the path into a submap last exactly as long as their grabs
\* (kbresize.c: moveresmode_cancel, cancel_moveres; key.c: clear_subs).
THEOREM ModesAlwaysGrabbed ==
  ASSUME "kbresize" \notin DragCalls
  PROVE  Spec => []ModesHaveGrab
<1>1. Calm
  BY DEF Calm
<1>2. MInv => ModesHaveGrab
  <2> SUFFICES ASSUME MInv, ~s.dropped PROVE ModesHaveGrab
    BY DEF ModesHaveGrab, ResizeGrabIffMode, SubmapHasGrab
  <2>1. ResizeSound(s) /\ SubmapSound(s)
    BY DEF MInv, ModesSound
  <2>2. ResizeGrabIffMode
    BY <2>1 DEF ResizeSound, ResizeGrabIffMode, Of, Live
  <2>3. SubmapHasGrab
    BY <2>1 DEF SubmapSound, SubmapHasGrab, Of, Live
  <2> QED BY <2>2, <2>3 DEF ModesHaveGrab
<1>3. Init => MInv
  BY Initially
<1>4. IInv /\ MInv /\ [Next]_vars => MInv'
  BY <1>1, CalmStep
<1> QED BY <1>2, <1>3, <1>4, Initially, Step, PTL DEF Spec
=============================================================================
