-------------------------- MODULE ClientWin_proof ---------------------------
(***************************************************************************)
(* Client windows, for any number of them, whatever they do and whenever.  *)
(*                                                                         *)
(* What ioncore believes of a window is true of it only once its requests  *)
(* are carried out.  So the invariants speak of the window as it will then *)
(* be, Final, and of every state on the way there (Trace), at each of      *)
(* which the connection may break.                                         *)
(***************************************************************************)
EXTENDS ClientWin, WellFoundedInduction, SequenceTheorems, TLAPS

Requests == ({"map", "unmap", "notify", "forward"} \X Windows)
            \cup ({"select", "saveset", "border", "move"} \X Windows \X BOOLEAN)
            \cup ({"reparent"} \X Windows \X {"root", "frame"})
            \cup ({"state"} \X Windows \X {"Normal", "Iconic", "Withdrawn"})
            \cup ({"resize"} \X Windows \X Geoms)
Events == {"MapRequest", "Unmap", "Destroy", "ConfigureRequest"} \X Windows
XWindows == [exists : BOOLEAN, mapped : BOOLEAN, sel : BOOLEAN, parent : {"root", "frame"},
             saved : BOOLEAN, state : {"Normal", "Iconic", "Withdrawn"}, border : BOOLEAN,
             geom : Geoms, away : BOOLEAN]
CWins == [managed : BOOLEAN, state : {"Normal", "Iconic", "Withdrawn"}, mapped : BOOLEAN,
          parent : {"root", "frame"}, geom : Geoms, orig_bw : BOOLEAN, need_cfgntfy : BOOLEAN]
Pcs == {Idle} \cup ({"deinit", "maprq", "scan", "create", "check", "loaded"} \X Windows)

\* The states
States ==
  [x : [Windows -> XWindows], out : Seq(Requests), ev : Seq(Events), pc : Pcs,
   wm : {"gone", "init", "running", "exiting"}, cwin : [Windows -> CWins],
   place : [Windows -> Geoms], prop : [Windows -> {"none", "lazy", "acrobatic"}],
   icon : [Windows -> Windows \cup {NoWindow}], tmpwins : SUBSET Windows,
   kept : SUBSET Windows, refused : SUBSET Windows, twice : BOOLEAN, crashed : BOOLEAN,
   wants : [Windows -> BOOLEAN], asked : [Windows -> BOOLEAN], moves : Nat, ends : Nat]

\* What the server knows of a window, with whether its client waits for an answer
Seen == [x : XWindows, asked : BOOLEAN]
Now(t, w) == [x |-> t.x[w], asked |-> t.asked[w]]

\* A request, as far as it is about w
Step(y, w, r) ==
  LET Set(x) == [x |-> x, asked |-> y.asked]
      Answer(x) == [x |-> x, asked |-> FALSE]
  IN IF r[2] # w \/ ~y.x.exists THEN y
     ELSE CASE r[1] = "select" -> Set([y.x EXCEPT !.sel = r[3]])
            [] r[1] = "map" -> Set([y.x EXCEPT !.mapped = TRUE])
            [] r[1] = "unmap" -> Set([y.x EXCEPT !.mapped = FALSE])
            [] r[1] = "reparent" -> Set([y.x EXCEPT !.parent = r[3]])
            [] r[1] = "saveset" -> Set([y.x EXCEPT !.saved = r[3]])
            [] r[1] = "state" -> Set([y.x EXCEPT !.state = r[3]])
            [] r[1] = "border" -> Set([y.x EXCEPT !.border = r[3]])
            [] r[1] = "resize" -> IF y.x.geom = r[3] THEN y ELSE Answer([y.x EXCEPT !.geom = r[3]])
            [] r[1] = "move" -> Set([y.x EXCEPT !.away = r[3]])
            [] OTHER -> Answer(y.x)

\* What becomes of y with the requests rs, one after another
Course(f, y, w, rs, N) ==
  f = [n \in 0 .. N |-> IF n = 0 THEN y ELSE Step(f[n - 1], w, rs[n])]
Run(y, w, rs) ==
  LET f[n \in 0 .. Len(rs)] == IF n = 0 THEN y ELSE Step(f[n - 1], w, rs[n]) IN f
Trace(t, w) == Run(Now(t, w), w, t.out)
Final(t, w) == Trace(t, w)[Len(t.out)]

-----------------------------------------------------------------------------
(* The invariants, for a state and a window *)

Has(t, e, w) == <<e, w>> \in Range(t.ev)
At(t, k, w) == t.pc = <<k, w>>
Only(t, w, K) == \A i \in DOMAIN t.out : t.out[i][2] = w => t.out[i][1] \in K
\* Neither a dockapp nor an icon
Single(t, w) == \A v \in Windows : t.icon[v] # w /\ (v = w => t.icon[v] = NoWindow)
\* Known when ioncore began, and to be looked at
Scanned(t, w) == w \in t.tmpwins \/ At(t, "scan", w)
Unscanned(t, w) == Scanned(t, w) /\ ~t.cwin[w].managed
\* Just managed, or about to be left
Passing(t, w) == At(t, "check", w) \/ At(t, "loaded", w) \/ At(t, "deinit", w)

\* What is under way when
Phase(t) ==
  /\ t.wm = "gone" => t.out = <<>> /\ t.ev = <<>> /\ t.pc = Idle /\ \A w \in Windows : ~t.asked[w]
  /\ t.wm # "init" => t.tmpwins = {}
  /\ t.wm = "exiting" => t.pc[1] \in {"idle", "deinit"}
  /\ t.pc[1] = "deinit" => t.wm \in {"running", "exiting"}
  /\ t.pc[1] \in {"scan", "loaded"} => t.wm = "init"
  /\ t.pc[1] = "maprq" => t.wm = "running"
  /\ \A w \in Windows : At(t, "scan", w) \/ At(t, "create", w) => w \notin t.tmpwins

\* Nothing holds of a window that is no more
Lifeless(t, w) ==
  /\ ~t.x[w].exists => /\ t.x[w].parent = "root" /\ ~t.x[w].mapped
                       /\ ~t.wants[w] /\ ~t.asked[w]
  /\ Has(t, "Destroy", w) => ~t.x[w].exists

\* In the save set whenever it is in a frame
Fine(t, w) ==
  \A n \in 0 .. Len(t.out) :
    LET x == Trace(t, w)[n].x IN x.exists /\ x.parent = "frame" => x.saved

\* Only what the client does is seen as done by it
Unseen(t, w) ==
  Single(t, w) =>
    \A n \in 1 .. Len(t.out) : t.out[n][2] = w /\ t.out[n][1] \in {"unmap", "reparent"} =>
                                 ~Trace(t, w)[n - 1].x.sel \/ ~t.x[w].exists

\* A managed window is in its frame, and one that is not is on the root
Managed(t, w) ==
  LET z == Final(t, w).x
      c == t.cwin[w]
  IN /\ c.managed => t.wm # "gone"
     /\ Passing(t, w) => c.managed
     /\ At(t, "maprq", w) \/ At(t, "scan", w) \/ At(t, "create", w) => ~c.managed
     /\ At(t, "create", w) => Only(t, w, {"select"})
     /\ c.managed /\ z.exists => /\ z.saved /\ z.parent = "frame" /\ z.geom = c.geom
                                 /\ z.sel = ~At(t, "deinit", w)
     /\ ~c.managed /\ z.exists =>
          /\ ~z.saved /\ z.parent = "root"
          /\ z.sel => At(t, "maprq", w) \/ At(t, "scan", w) \/ At(t, "create", w)
     /\ c.managed /\ z.exists /\ c.state # "Withdrawn" => z.state = c.state
     /\ Fine(t, w) /\ ~t.twice

\* Who waits for an answer will get one
Answered(t, w) == Final(t, w).asked => Has(t, "ConfigureRequest", w)

\* Borders are given back, and who is left at the exit is shown
Restored(t, w) ==
  LET z == Final(t, w).x
      c == t.cwin[w]
  IN /\ ~t.crashed /\ w \notin t.refused /\ z.exists =>
          IF c.managed THEN c.orig_bw /\ (At(t, "deinit", w) => z.border) ELSE z.border
     /\ t.wm = "exiting" /\ w \in t.kept /\ ~c.managed /\ z.exists /\ t.wants[w] =>
          z.mapped \/ Has(t, "MapRequest", w)
     /\ t.wm = "gone" /\ t.x[w].exists => (t.wants[w] <=> t.x[w].mapped)

\* The icon v of w is not asked for twice
Asks(t, w) == Has(t, "MapRequest", w)
Once(t, w) ==
  \A i, j \in DOMAIN t.ev : t.ev[i] = <<"MapRequest", w>> /\ t.ev[j] = <<"MapRequest", w>> => i = j
Order(t, w, v) ==
  \A i \in DOMAIN t.ev : t.ev[i] = <<"MapRequest", w>> =>
    \E j \in DOMAIN t.ev : j < i /\ t.ev[j] = <<"Unmap", v>>
Docked(t, w, v) ==
  /\ Scanned(t, v) => ~t.x[w].exists /\ ~Asks(t, w) /\ w \notin t.tmpwins /\ t.pc[2] # w
  /\ Once(t, w)
  /\ At(t, "maprq", w) => ~Asks(t, w) /\ ~t.cwin[v].managed
  /\ Asks(t, w) \/ At(t, "maprq", w) => t.wants[w] \/ ~t.x[w].exists
  /\ Asks(t, w) =>
        (~t.cwin[v].managed /\ ~At(t, "create", v)) \/ At(t, "deinit", v) \/ Order(t, w, v)
  /\ Scanned(t, w) =>
        /\ ~t.cwin[v].managed /\ t.pc[2] # v /\ Only(t, v, {"select", "saveset"})
        /\ IF t.cwin[w].managed THEN ~Asks(t, w) /\ (t.wants[w] \/ ~t.x[w].exists)
           ELSE /\ t.x[w].mapped => t.wants[w]
                /\ Asks(t, w) => ~t.x[w].mapped /\ ~t.x[v].mapped
  /\ At(t, "create", v) =>
        t.wants[w] \/ ~t.x[w].exists \/ t.x[v].mapped \/ Has(t, "Unmap", v)
Dock(t, w) ==
  LET v == t.icon[w]
  IN v # NoWindow =>
       /\ v # w /\ t.icon[v] = NoWindow /\ \A u \in Windows : t.icon[u] = v => u = w
       /\ ~Asks(t, v) /\ ~At(t, "maprq", v)
       /\ t.x[v].exists => Docked(t, w, v)

\* Nothing is asked of a window before it is looked at
Untouched(t, w) == Unscanned(t, w) => Only(t, w, {"select", "saveset"})

\* A managed window is shown as ioncore has it
Shown(t, w) ==
  LET z == Final(t, w).x
      c == t.cwin[w]
  IN /\ At(t, "loaded", w) => c.state = "Withdrawn" /\ ~c.mapped /\ c.geom = t.place[w]
     /\ c.managed /\ ~At(t, "loaded", w) /\ ~At(t, "deinit", w) =>
          /\ c.mapped => c.geom = t.place[w]
          /\ IF t.prop[w] = "acrobatic" THEN z.exists => z.away = ~c.mapped
             ELSE /\ c.state = (IF c.mapped THEN "Normal" ELSE "Iconic")
                  /\ z.exists => z.mapped = c.mapped \/ Has(t, "Unmap", w)

\* The end of a managed window is noticed
Noticed(t, w) ==
  t.cwin[w].managed /\ ~Passing(t, w) =>
    IF t.x[w].exists THEN t.x[w].sel ELSE Has(t, "Destroy", w)

\* What the client asked last, or what ioncore made of all it asked
LastWord(t, w, e) ==
  \E i \in DOMAIN t.ev :
    /\ t.ev[i] = <<e, w>>
    /\ \A j \in DOMAIN t.ev : j > i => t.ev[j] \notin {<<"MapRequest", w>>, <<"Unmap", w>>}
Silent(t, w) == ~Has(t, "MapRequest", w) /\ ~Has(t, "Unmap", w)
Taken(t, w) ==
  \/ At(t, "maprq", w) \/ At(t, "create", w)
  \/ t.cwin[w].managed /\ ~At(t, "deinit", w)
  \/ Unscanned(t, w) /\ t.x[w].mapped
Heard(t, w) ==
  Single(t, w) /\ w \notin t.refused /\ t.wm \in {"init", "running"} /\ t.x[w].exists =>
    IF t.wants[w] THEN LastWord(t, w, "MapRequest") \/ (Silent(t, w) /\ Taken(t, w))
    ELSE LastWord(t, w, "Unmap") \/ (Silent(t, w) /\ ~Taken(t, w))

Own(t, w) ==
  /\ Lifeless(t, w) /\ Unseen(t, w) /\ Managed(t, w) /\ Answered(t, w)
  /\ Restored(t, w) /\ Untouched(t, w)
CalmOf(t, w) == Shown(t, w) /\ Noticed(t, w) /\ Heard(t, w)

Base(t) == t \in States /\ Phase(t) /\ \A w \in Windows : Own(t, w) /\ Dock(t, w)
Calm(t) == \A w \in Windows : CalmOf(t, w)

-----------------------------------------------------------------------------
(* Numbers, and what becomes of a window *)

\* A set of numbers that is not empty has a least one.
LEMMA NatMin ==
  ASSUME NEW T \in SUBSET Nat, T # {}
  PROVE  \E n \in T : \A m \in T : n <= m
<1> DEFINE R == {p \in Nat \X Nat : p[1] < p[2]}
<1>1. IsWellFoundedOn(R, Nat)
  <2>1. R = OpToRel(<, Nat)
    BY DEF OpToRel
  <2> QED BY <2>1, NatLessThanWellFounded
<1>2. \E n \in T : \A m \in T : ~(<<m, n>> \in R)
  <2> HIDE DEF R
  <2> QED BY <1>1, WFMin
<1>3. PICK n \in T : \A m \in T : ~(<<m, n>> \in R)
  BY <1>2
<1>4. ASSUME NEW m \in T PROVE n <= m
  <2>1. <<m, n>> \in Nat \X Nat
    OBVIOUS
  <2> QED BY <1>3, <2>1
<1> QED BY <1>4

\* Induction up to N, on what holds in a set of numbers.
LEMMA UpTo ==
  ASSUME NEW N \in Nat, NEW P, 0 \in P, \A n \in 1 .. N : n - 1 \in P => n \in P
  PROVE  \A n \in 0 .. N : n \in P
<1> DEFINE T == {n \in 0 .. N : n \notin P}
<1>1. SUFFICES ASSUME T # {} PROVE FALSE
  OBVIOUS
<1>2. PICK n \in T : \A m \in T : n <= m
  <2>1. T \in SUBSET Nat
    OBVIOUS
  <2> HIDE DEF T
  <2> QED BY <1>1, <2>1, NatMin
<1>3. n \in 1 .. N /\ n - 1 \in 0 .. N /\ n - 1 \notin T
  BY <1>2
<1> QED BY <1>3

\* A course over N requests: what each of them does.
LEMMA CourseTurns ==
  ASSUME NEW f, NEW y, NEW w, NEW rs, NEW N \in Nat, Course(f, y, w, rs, N)
  PROVE  f[0] = y /\ \A n \in 1 .. N : f[n] = Step(f[n - 1], w, rs[n])
<1>1. \A n \in 0 .. N : f[n] = IF n = 0 THEN y ELSE Step(f[n - 1], w, rs[n])
  BY DEF Course
<1>2. 0 \in 0 .. N /\ \A n \in 1 .. N : n \in 0 .. N /\ n # 0
  OBVIOUS
<1> QED BY <1>1, <1>2

\* There is a course over any number of requests.
LEMMA CourseExists ==
  ASSUME NEW y, NEW w, NEW rs, NEW N \in Nat
  PROVE  \E f : Course(f, y, w, rs, N)
<1> DEFINE P == {n \in Nat : \E f : Course(f, y, w, rs, n)}
<1>1. 0 \in P
  <2>1. Course([n \in 0 .. 0 |-> y], y, w, rs, 0)
    BY DEF Course
  <2> QED BY <2>1
<1>2. ASSUME NEW n \in 1 .. N, n - 1 \in P PROVE n \in P
  <2>1. PICK f : Course(f, y, w, rs, n - 1)
    BY <1>2
  <2>2. n - 1 \in Nat /\ n \in Nat /\ n # 0
    OBVIOUS
  <2>3. f[0] = y /\ \A k \in 1 .. n - 1 : f[k] = Step(f[k - 1], w, rs[k])
    BY <2>1, <2>2, CourseTurns
  <2> DEFINE new == Step(f[n - 1], w, rs[n])
             g == [k \in 0 .. n |-> IF k = n THEN new ELSE f[k]]
  <2> HIDE DEF new
  <2>4. ASSUME NEW k \in 0 .. n
        PROVE  g[k] = IF k = 0 THEN y ELSE Step(g[k - 1], w, rs[k])
    <3>1. CASE k = 0
      BY <2>2, <2>3, <3>1
    <3>2. CASE k = n
      <4>1. g[k] = new /\ g[k - 1] = f[n - 1] /\ k # 0
        BY <2>2, <3>2
      <4> QED BY <3>2, <4>1 DEF new
    <3>3. CASE k # 0 /\ k # n
      <4>1. k \in 1 .. n - 1 /\ g[k] = f[k] /\ g[k - 1] = f[k - 1]
        BY <2>2, <3>3
      <4> QED BY <2>3, <3>3, <4>1
    <3> QED BY <3>1, <3>2, <3>3
  <2>5. g = [k \in 0 .. n |-> g[k]]
    OBVIOUS
  <2> HIDE DEF g
  <2>6. Course(g, y, w, rs, n)
    BY <2>4, <2>5 DEF Course
  <2> QED BY <2>2, <2>6
<1>3. N \in P
  <2> HIDE DEF P
  <2>1. \A n \in 0 .. N : n \in P
    BY <1>1, <1>2, UpTo
  <2> QED BY <2>1
<1> QED BY <1>3

\* Run is the course of y: each request is one step of it.
LEMMA RunTurns ==
  ASSUME NEW y, NEW w, NEW rs \in Seq(Requests)
  PROVE  /\ Run(y, w, rs)[0] = y
         /\ \A n \in 1 .. Len(rs) : Run(y, w, rs)[n] = Step(Run(y, w, rs)[n - 1], w, rs[n])
<1>1. Len(rs) \in Nat
  OBVIOUS
<1>2. \E f : Course(f, y, w, rs, Len(rs))
  BY <1>1, CourseExists
<1>3. Run(y, w, rs) = CHOOSE f : Course(f, y, w, rs, Len(rs))
  BY DEF Run, Course
<1>4. Course(Run(y, w, rs), y, w, rs, Len(rs))
  BY <1>2, <1>3
<1> QED BY <1>1, <1>4, CourseTurns

\* Mapping and unmapping leaves the rest of a window alone.
LEMMA MappedType ==
  ASSUME NEW x \in XWindows, NEW b \in BOOLEAN
  PROVE  LET v == [x EXCEPT !.mapped = b]
         IN /\ v \in XWindows /\ v.exists = x.exists /\ v.mapped = b /\ v.sel = x.sel
            /\ v.parent = x.parent /\ v.saved = x.saved /\ v.state = x.state
            /\ v.border = x.border /\ v.geom = x.geom /\ v.away = x.away
BY DEF XWindows

\* A request makes a window of a window, which exists if it did.
LEMMA StepType ==
  ASSUME NEW y \in Seen, NEW w \in Windows, NEW r \in Requests
  PROVE  /\ Step(y, w, r) \in Seen /\ Step(y, w, r).x.exists = y.x.exists
         /\ Step(y, w, r).asked => y.asked
         /\ ~y.x.exists => Step(y, w, r) = y
<1>1. CASE r \in {"map", "unmap", "notify", "forward"} \X Windows
  <2>1. r[1] \in {"map", "unmap", "notify", "forward"}
    BY <1>1
  <2>2. CASE r[1] = "map"
    <3>1. y.x \in XWindows /\ y.asked \in BOOLEAN /\ TRUE \in BOOLEAN
      BY DEF Seen
    <3>2. LET x == [y.x EXCEPT !.mapped = TRUE] IN x \in XWindows /\ x.exists = y.x.exists
      BY <3>1, MappedType
    <3> QED BY <2>2, <3>1, <3>2 DEF Step, Seen
  <2>3. CASE r[1] = "unmap"
    <3>1. y.x \in XWindows /\ y.asked \in BOOLEAN /\ FALSE \in BOOLEAN
      BY DEF Seen
    <3>2. LET x == [y.x EXCEPT !.mapped = FALSE] IN x \in XWindows /\ x.exists = y.x.exists
      BY <3>1, MappedType
    <3> QED BY <2>3, <3>1, <3>2 DEF Step, Seen
  <2>4. CASE r[1] = "notify"
    BY <2>1, <2>4 DEF Step, Seen, XWindows
  <2>5. CASE r[1] = "forward"
    BY <2>1, <2>5 DEF Step, Seen, XWindows
  <2> QED BY <2>1, <2>2, <2>3, <2>4, <2>5
<1>2. CASE r \in {"select", "saveset", "border", "move"} \X Windows \X BOOLEAN
  <2>1. r[1] \in {"select", "saveset", "border", "move"} /\ r[3] \in BOOLEAN
    BY <1>2
  <2>2. CASE r[1] = "select"
    BY <2>1, <2>2 DEF Step, Seen, XWindows
  <2>3. CASE r[1] = "saveset"
    BY <2>1, <2>3 DEF Step, Seen, XWindows
  <2>4. CASE r[1] = "border"
    BY <2>1, <2>4 DEF Step, Seen, XWindows
  <2>5. CASE r[1] = "move"
    BY <2>1, <2>5 DEF Step, Seen, XWindows
  <2> QED BY <2>1, <2>2, <2>3, <2>4, <2>5
<1>3. CASE r \in {"reparent"} \X Windows \X {"root", "frame"}
  <2>1. r[1] = "reparent" /\ r[3] \in {"root", "frame"}
    BY <1>3
  <2> QED BY <2>1 DEF Step, Seen, XWindows
<1>4. CASE r \in {"state"} \X Windows \X {"Normal", "Iconic", "Withdrawn"}
  <2>1. r[1] = "state" /\ r[3] \in {"Normal", "Iconic", "Withdrawn"}
    BY <1>4
  <2> QED BY <2>1 DEF Step, Seen, XWindows
<1>5. CASE r \in {"resize"} \X Windows \X Geoms
  <2>1. r[1] = "resize" /\ r[3] \in Geoms
    BY <1>5
  <2> QED BY <2>1 DEF Step, Seen, XWindows
<1> QED BY <1>1, <1>2, <1>3, <1>4, <1>5 DEF Requests

\* So does a run of requests; nothing happens to a window that is no more.
LEMMA RunType ==
  ASSUME NEW y \in Seen, NEW w \in Windows, NEW rs \in Seq(Requests), NEW n \in 0 .. Len(rs)
  PROVE  /\ Run(y, w, rs)[n] \in Seen /\ Run(y, w, rs)[n].x.exists = y.x.exists
         /\ Run(y, w, rs)[n].asked => y.asked
         /\ ~y.x.exists => Run(y, w, rs)[n] = y
<1> DEFINE h == Run(y, w, rs)
           P == {k \in 0 .. Len(rs) : /\ h[k] \in Seen /\ h[k].x.exists = y.x.exists
                                      /\ h[k].asked => y.asked
                                      /\ ~y.x.exists => h[k] = y}
<1>1. h[0] = y /\ \A k \in 1 .. Len(rs) : h[k] = Step(h[k - 1], w, rs[k])
  BY RunTurns
<1>2. 0 \in P
  BY <1>1
<1>3. ASSUME NEW k \in 1 .. Len(rs), k - 1 \in P PROVE k \in P
  <2>1. rs[k] \in Requests /\ h[k] = Step(h[k - 1], w, rs[k])
    BY <1>1
  <2> HIDE DEF h
  <2> QED BY <1>3, <2>1, StepType
<1>4. n \in P
  <2> HIDE DEF P
  <2>1. Len(rs) \in Nat
    OBVIOUS
  <2> QED BY <1>2, <1>3, <2>1, UpTo
<1> QED BY <1>4

\* One more request is one more step, at the end.
LEMMA RunAppend ==
  ASSUME NEW y \in Seen, NEW w \in Windows, NEW rs \in Seq(Requests), NEW r \in Requests
  PROVE  LET u == Append(rs, r)
         IN /\ u \in Seq(Requests) /\ Len(u) = Len(rs) + 1 /\ u[Len(u)] = r
            /\ \A n \in 1 .. Len(rs) : u[n] = rs[n]
            /\ \A n \in 0 .. Len(rs) : Run(y, w, u)[n] = Run(y, w, rs)[n]
            /\ Run(y, w, u)[Len(u)] = Step(Run(y, w, rs)[Len(rs)], w, r)
<1> DEFINE u == Append(rs, r)
           g == Run(y, w, u)
           h == Run(y, w, rs)
           P == {k \in 0 .. Len(rs) : g[k] = h[k]}
<1>1. /\ u \in Seq(Requests) /\ Len(u) = Len(rs) + 1 /\ u[Len(u)] = r /\ Len(rs) \in Nat
      /\ \A n \in 1 .. Len(rs) : u[n] = rs[n] /\ n \in 1 .. Len(u)
  OBVIOUS
<1> HIDE DEF u
<1>2. g[0] = y /\ \A k \in 1 .. Len(u) : g[k] = Step(g[k - 1], w, u[k])
  BY <1>1, RunTurns
<1>3. h[0] = y /\ \A k \in 1 .. Len(rs) : h[k] = Step(h[k - 1], w, rs[k])
  BY RunTurns
<1> HIDE DEF g, h
<1>4. 0 \in P
  BY <1>1, <1>2, <1>3
<1>5. ASSUME NEW k \in 1 .. Len(rs), k - 1 \in P PROVE k \in P
  BY <1>1, <1>2, <1>3, <1>5
<1>6. \A k \in 0 .. Len(rs) : g[k] = h[k]
  <2> HIDE DEF P
  <2>1. \A k \in 0 .. Len(rs) : k \in P
    BY <1>1, <1>4, <1>5, UpTo
  <2> QED BY <2>1 DEF P
<1>7. g[Len(u)] = Step(h[Len(rs)], w, r)
  <2>1. Len(u) \in 1 .. Len(u) /\ Len(u) - 1 = Len(rs) /\ Len(rs) \in 0 .. Len(rs)
    BY <1>1
  <2> QED BY <1>1, <1>2, <1>6, <2>1
<1> QED BY <1>1, <1>6, <1>7 DEF u, g, h

\* The rest of a run is a run, from what the first k requests made.
LEMMA RunTail ==
  ASSUME NEW y \in Seen, NEW w \in Windows, NEW rs \in Seq(Requests), NEW k \in 0 .. Len(rs)
  PROVE  LET ts == SubSeq(rs, k + 1, Len(rs))
         IN /\ ts \in Seq(Requests) /\ Len(ts) = Len(rs) - k
            /\ \A n \in 1 .. Len(ts) : ts[n] = rs[k + n]
            /\ \A n \in 0 .. Len(ts) : Run(Run(y, w, rs)[k], w, ts)[n] = Run(y, w, rs)[k + n]
<1> DEFINE ts == SubSeq(rs, k + 1, Len(rs))
           h == Run(y, w, rs)
           g == Run(h[k], w, ts)
           P == {n \in 0 .. Len(ts) : g[n] = h[k + n]}
<1>1. /\ ts \in Seq(Requests) /\ Len(ts) = Len(rs) - k /\ Len(ts) \in Nat
      /\ \A n \in 1 .. Len(ts) : ts[n] = rs[k + n]
  <2>1. k \in Nat /\ Len(rs) \in Nat /\ k <= Len(rs)
    OBVIOUS
  <2>2. Len(ts) = Len(rs) - k /\ \A n \in 1 .. Len(ts) : ts[n] = rs[k + n]
    BY <2>1
  <2>3. \A n \in (k + 1) .. Len(rs) : rs[n] \in Requests
    BY <2>1
  <2>4. ts \in Seq(Requests)
    <3>1. ts = [n \in 1 .. Len(rs) - k |-> rs[k + n]]
      BY <2>1
    <3>2. \A n \in 1 .. Len(rs) - k : rs[k + n] \in Requests
      BY <2>1
    <3>3. Len(rs) - k \in Nat
      BY <2>1
    <3> HIDE DEF ts
    <3> QED BY <3>1, <3>2, <3>3
  <2> QED BY <2>1, <2>2, <2>4
<1> HIDE DEF ts
<1>2. h[0] = y /\ \A n \in 1 .. Len(rs) : h[n] = Step(h[n - 1], w, rs[n])
  BY RunTurns
<1>3. g[0] = h[k] /\ \A n \in 1 .. Len(ts) : g[n] = Step(g[n - 1], w, ts[n])
  BY <1>1, RunTurns
<1> HIDE DEF g, h
<1>4. 0 \in P
  BY <1>1, <1>3
<1>5. ASSUME NEW n \in 1 .. Len(ts), n - 1 \in P PROVE n \in P
  <2>1. k + n \in 1 .. Len(rs) /\ (k + n) - 1 = k + (n - 1)
    BY <1>1
  <2> QED BY <1>1, <1>2, <1>3, <1>5, <2>1
<1>6. \A n \in 0 .. Len(ts) : g[n] = h[k + n]
  <2> HIDE DEF P
  <2>1. \A n \in 0 .. Len(ts) : n \in P
    BY <1>1, <1>4, <1>5, UpTo
  <2> QED BY <2>1 DEF P
<1> QED BY <1>1, <1>6 DEF ts, g, h

\* A window that is unmapped first, or whose client waits
Unmapped(y) == [x |-> [y.x EXCEPT !.mapped = FALSE], asked |-> y.asked]
Waiting(y) == [x |-> y.x, asked |-> TRUE]

\* Unmapping a window changes at most whether it is mapped after a request.
LEMMA StepUnmapped ==
  ASSUME NEW y \in Seen, NEW w \in Windows, NEW r \in Requests
  PROVE  Step(Unmapped(y), w, r) \in {Step(y, w, r), Unmapped(Step(y, w, r))}
<1>1. y.x \in XWindows /\ Unmapped(y).x = [y.x EXCEPT !.mapped = FALSE] /\ Unmapped(y).asked = y.asked
      /\ Unmapped(y).x.exists = y.x.exists /\ Unmapped(y).x.geom = y.x.geom
  BY DEF Seen, Unmapped, XWindows
<1>2. CASE r[2] # w \/ ~y.x.exists
  BY <1>1, <1>2 DEF Step
<1>3. CASE ~(r[2] # w \/ ~y.x.exists) /\ r[1] = "select"
  <2>1. [[y.x EXCEPT !.mapped = FALSE] EXCEPT !.sel = r[3]] = [[y.x EXCEPT !.sel = r[3]] EXCEPT !.mapped = FALSE]
    BY <1>1 DEF XWindows
  <2> QED BY <1>1, <1>3, <2>1 DEF Step, Unmapped
<1>4. CASE ~(r[2] # w \/ ~y.x.exists) /\ r[1] = "map"
  <2>1. [[y.x EXCEPT !.mapped = FALSE] EXCEPT !.mapped = TRUE] = [y.x EXCEPT !.mapped = TRUE]
    BY <1>1 DEF XWindows
  <2> QED BY <1>1, <1>4, <2>1 DEF Step, Unmapped
<1>5. CASE ~(r[2] # w \/ ~y.x.exists) /\ r[1] = "unmap"
  <2>1. [[y.x EXCEPT !.mapped = FALSE] EXCEPT !.mapped = FALSE] = [y.x EXCEPT !.mapped = FALSE]
    BY <1>1 DEF XWindows
  <2> QED BY <1>1, <1>5, <2>1 DEF Step, Unmapped
<1>6. CASE ~(r[2] # w \/ ~y.x.exists) /\ r[1] = "reparent"
  <2>1. [[y.x EXCEPT !.mapped = FALSE] EXCEPT !.parent = r[3]] = [[y.x EXCEPT !.parent = r[3]] EXCEPT !.mapped = FALSE]
    BY <1>1 DEF XWindows
  <2> QED BY <1>1, <1>6, <2>1 DEF Step, Unmapped
<1>7. CASE ~(r[2] # w \/ ~y.x.exists) /\ r[1] = "saveset"
  <2>1. [[y.x EXCEPT !.mapped = FALSE] EXCEPT !.saved = r[3]] = [[y.x EXCEPT !.saved = r[3]] EXCEPT !.mapped = FALSE]
    BY <1>1 DEF XWindows
  <2> QED BY <1>1, <1>7, <2>1 DEF Step, Unmapped
<1>8. CASE ~(r[2] # w \/ ~y.x.exists) /\ r[1] = "state"
  <2>1. [[y.x EXCEPT !.mapped = FALSE] EXCEPT !.state = r[3]] = [[y.x EXCEPT !.state = r[3]] EXCEPT !.mapped = FALSE]
    BY <1>1 DEF XWindows
  <2> QED BY <1>1, <1>8, <2>1 DEF Step, Unmapped
<1>9. CASE ~(r[2] # w \/ ~y.x.exists) /\ r[1] = "border"
  <2>1. [[y.x EXCEPT !.mapped = FALSE] EXCEPT !.border = r[3]] = [[y.x EXCEPT !.border = r[3]] EXCEPT !.mapped = FALSE]
    BY <1>1 DEF XWindows
  <2> QED BY <1>1, <1>9, <2>1 DEF Step, Unmapped
<1>10. CASE ~(r[2] # w \/ ~y.x.exists) /\ r[1] = "resize"
  <2>1. [[y.x EXCEPT !.mapped = FALSE] EXCEPT !.geom = r[3]] = [[y.x EXCEPT !.geom = r[3]] EXCEPT !.mapped = FALSE]
    BY <1>1 DEF XWindows
  <2> QED BY <1>1, <1>10, <2>1 DEF Step, Unmapped
<1>11. CASE ~(r[2] # w \/ ~y.x.exists) /\ r[1] = "move"
  <2>1. [[y.x EXCEPT !.mapped = FALSE] EXCEPT !.away = r[3]] = [[y.x EXCEPT !.away = r[3]] EXCEPT !.mapped = FALSE]
    BY <1>1 DEF XWindows
  <2> QED BY <1>1, <1>11, <2>1 DEF Step, Unmapped
<1>12. CASE ~(r[2] # w \/ ~y.x.exists) /\ r[1] \in {"notify", "forward"}
  BY <1>1, <1>12 DEF Step, Unmapped
<1>13. r[1] \in {"notify", "forward", "select", "map", "unmap", "reparent", "saveset", "state", "border", "resize", "move"}
  BY DEF Requests
<1> QED BY <1>2, <1>3, <1>4, <1>5, <1>6, <1>7, <1>8, <1>9, <1>10, <1>11, <1>12, <1>13

\* That its client waits changes nothing else of it.
LEMMA StepWaiting ==
  ASSUME NEW y \in Seen, NEW w \in Windows, NEW r \in Requests
  PROVE  Step(Waiting(y), w, r) \in {Step(y, w, r), Waiting(Step(y, w, r))}
BY DEF Step, Waiting, Seen

\* So of a whole run: unmapped first, or waited for.
LEMMA RunChanged ==
  ASSUME NEW y \in Seen, NEW w \in Windows, NEW rs \in Seq(Requests), NEW n \in 0 .. Len(rs)
  PROVE  /\ Run(Unmapped(y), w, rs)[n] \in {Run(y, w, rs)[n], Unmapped(Run(y, w, rs)[n])}
         /\ Run(Waiting(y), w, rs)[n] \in {Run(y, w, rs)[n], Waiting(Run(y, w, rs)[n])}
<1> DEFINE h == Run(y, w, rs)
           f == Run(Unmapped(y), w, rs)
           g == Run(Waiting(y), w, rs)
           P == {k \in 0 .. Len(rs) : f[k] \in {h[k], Unmapped(h[k])} /\ g[k] \in {h[k], Waiting(h[k])}}
<1>1. /\ h[0] = y /\ f[0] = Unmapped(y) /\ g[0] = Waiting(y)
      /\ \A k \in 1 .. Len(rs) : /\ h[k] = Step(h[k - 1], w, rs[k])
                                  /\ f[k] = Step(f[k - 1], w, rs[k])
                                  /\ g[k] = Step(g[k - 1], w, rs[k])
  BY RunTurns
<1>2. \A k \in 0 .. Len(rs) : h[k] \in Seen
  BY RunType
<1>3. Len(rs) \in Nat /\ \A k \in 1 .. Len(rs) : rs[k] \in Requests
  OBVIOUS
<1> HIDE DEF f, g, h
<1>4. 0 \in P
  BY <1>1, <1>3
<1>5. ASSUME NEW k \in 1 .. Len(rs), k - 1 \in P PROVE k \in P
  <2>1. h[k - 1] \in Seen /\ rs[k] \in Requests /\ k \in 0 .. Len(rs)
    BY <1>2, <1>3
  <2>2. f[k] \in {h[k], Unmapped(h[k])}
    BY <1>1, <1>5, <2>1, StepUnmapped
  <2>3. g[k] \in {h[k], Waiting(h[k])}
    BY <1>1, <1>5, <2>1, StepWaiting
  <2> QED BY <2>1, <2>2, <2>3
<1>6. n \in P
  <2> HIDE DEF P
  <2> QED BY <1>3, <1>4, <1>5, UpTo
<1> QED BY <1>6 DEF f, g, h

-----------------------------------------------------------------------------
(* States and requests *)

\* The parts of a state.
LEMMA Fields ==
  ASSUME NEW t \in States
  PROVE  /\ t.x \in [Windows -> XWindows] /\ t.out \in Seq(Requests) /\ t.ev \in Seq(Events)
         /\ t.pc \in Pcs /\ t.wm \in {"gone", "init", "running", "exiting"}
         /\ t.cwin \in [Windows -> CWins] /\ t.place \in [Windows -> Geoms]
         /\ t.prop \in [Windows -> {"none", "lazy", "acrobatic"}]
         /\ t.icon \in [Windows -> Windows \cup {NoWindow}]
         /\ t.tmpwins \in SUBSET Windows /\ t.kept \in SUBSET Windows /\ t.refused \in SUBSET Windows
         /\ t.twice \in BOOLEAN /\ t.crashed \in BOOLEAN
         /\ t.wants \in [Windows -> BOOLEAN] /\ t.asked \in [Windows -> BOOLEAN]
         /\ t.moves \in Nat /\ t.ends \in Nat
BY DEF States

\* What becomes of a window with the requests that wait.
LEMMA TraceFacts ==
  ASSUME NEW t \in States, NEW w \in Windows, NEW n \in 0 .. Len(t.out)
  PROVE  /\ Now(t, w) \in Seen /\ Trace(t, w)[0] = Now(t, w)
         /\ Trace(t, w)[n] \in Seen /\ Trace(t, w)[n].x.exists = t.x[w].exists
         /\ Trace(t, w)[n].asked => t.asked[w]
         /\ ~t.x[w].exists => Trace(t, w)[n] = Now(t, w)
         /\ \A k \in 1 .. Len(t.out) : Trace(t, w)[k] = Step(Trace(t, w)[k - 1], w, t.out[k])
<1>1. Now(t, w) \in Seen /\ Now(t, w).x = t.x[w] /\ Now(t, w).asked = t.asked[w]
  BY Fields DEF Now, Seen
<1>2. t.out \in Seq(Requests)
  BY Fields
<1> QED BY <1>1, <1>2, RunTurns, RunType DEF Trace

\* And of one with all of them.
LEMMA FinalFacts ==
  ASSUME NEW t \in States, NEW w \in Windows
  PROVE  /\ Final(t, w) \in Seen /\ Final(t, w).x \in XWindows /\ Final(t, w).asked \in BOOLEAN
         /\ Final(t, w).x.exists = t.x[w].exists
         /\ Final(t, w).asked => t.asked[w]
         /\ ~t.x[w].exists => Final(t, w).x = t.x[w] /\ Final(t, w).asked = t.asked[w]
         /\ t.out = <<>> => Final(t, w).x = t.x[w] /\ Final(t, w).asked = t.asked[w]
<1>1. Len(t.out) \in 0 .. Len(t.out) /\ (t.out = <<>> => Len(t.out) = 0)
  <2>1. Len(t.out) \in Nat
    BY Fields
  <2> QED BY <2>1
<1>2. Final(t, w) \in Seen => Final(t, w).x \in XWindows /\ Final(t, w).asked \in BOOLEAN
  BY DEF Seen
<1>3. Now(t, w).x = t.x[w] /\ Now(t, w).asked = t.asked[w]
  BY DEF Now
<1> QED BY <1>1, <1>2, <1>3, TraceFacts DEF Final

\* What is fine about a window, to itself and to who watches it
Good(t, w) == Fine(t, w) /\ Unseen(t, w)
\* All but the requests and what ioncore keeps of windows is the same
Aside(t, u) ==
  /\ u.x = t.x /\ u.ev = t.ev /\ u.pc = t.pc /\ u.wm = t.wm /\ u.prop = t.prop /\ u.icon = t.icon
  /\ u.tmpwins = t.tmpwins /\ u.kept = t.kept /\ u.refused = t.refused /\ u.twice = t.twice
  /\ u.crashed = t.crashed /\ u.wants = t.wants /\ u.asked = t.asked
  /\ u.moves = t.moves /\ u.ends = t.ends
\* Nothing more is asked of v
Leaves(t, u, v) ==
  /\ Final(u, v) = Final(t, v)
  /\ Fine(t, v) => Fine(u, v)
  /\ Unseen(t, v) => Unseen(u, v)
  /\ \A K \in {{"select"}, {"select", "saveset"}} : Only(t, v, K) => Only(u, v, K)
\* Only w is dealt with
Serves(t, u, w) ==
  /\ u \in States /\ Aside(t, u)
  /\ \A v \in Windows : v # w => u.cwin[v] = t.cwin[v] /\ u.place[v] = t.place[v] /\ Leaves(t, u, v)
  /\ Final(u, w).asked => Final(t, w).asked

Ask(t, r) == [t EXCEPT !.out = Append(@, r)]

\* What becomes of a window depends on it, on what its client waits for and on
\* the requests.
LEMMA DependsOn ==
  ASSUME NEW t, NEW u, NEW v, u.x[v] = t.x[v], u.asked[v] = t.asked[v], u.out = t.out,
         u.icon = t.icon
  PROVE  /\ Trace(u, v) = Trace(t, v) /\ Final(u, v) = Final(t, v) /\ Fine(u, v) = Fine(t, v)
         /\ Unseen(u, v) = Unseen(t, v) /\ Single(u, v) = Single(t, v)
         /\ \A K : Only(u, v, K) = Only(t, v, K)
         /\ Leaves(t, u, v)
<1>1. Trace(u, v) = Trace(t, v) /\ Final(u, v) = Final(t, v)
  BY DEF Trace, Final, Now
<1>2. Single(u, v) = Single(t, v)
  BY DEF Single
<1>3. Fine(u, v) = Fine(t, v)
  BY <1>1 DEF Fine
<1>4. Unseen(u, v) = Unseen(t, v)
  BY <1>1, <1>2 DEF Unseen
<1>5. \A K : Only(u, v, K) = Only(t, v, K)
  BY DEF Only
<1> QED BY <1>1, <1>2, <1>3, <1>4, <1>5 DEF Leaves

\* So when no window, no client that waits and no request is another.
LEMMA Depends ==
  ASSUME NEW t, NEW u, u.x = t.x, u.asked = t.asked, u.out = t.out, u.icon = t.icon, NEW v
  PROVE  /\ Trace(u, v) = Trace(t, v) /\ Final(u, v) = Final(t, v) /\ Fine(u, v) = Fine(t, v)
         /\ Unseen(u, v) = Unseen(t, v) /\ Single(u, v) = Single(t, v)
         /\ \A K : Only(u, v, K) = Only(t, v, K)
         /\ Leaves(t, u, v)
<1>1. u.x[v] = t.x[v] /\ u.asked[v] = t.asked[v]
  OBVIOUS
<1> QED BY <1>1, DependsOn

\* Serving a window twice serves it.
LEMMA ServesTwice ==
  ASSUME NEW t, NEW u, NEW s, NEW w, Serves(t, u, w), Serves(u, s, w)
  PROVE  Serves(t, s, w)
<1>1. Aside(t, s)
  BY DEF Serves, Aside
<1>2. ASSUME NEW v \in Windows, v # w
      PROVE  s.cwin[v] = t.cwin[v] /\ s.place[v] = t.place[v] /\ Leaves(t, s, v)
  <2>1. Leaves(t, u, v) /\ Leaves(u, s, v)
    BY <1>2 DEF Serves
  <2>2. Leaves(t, s, v)
    BY <2>1 DEF Leaves
  <2> QED BY <1>2, <2>2 DEF Serves
<1> QED BY <1>1, <1>2 DEF Serves

\* Nothing is no service.
LEMMA ServesNot ==
  ASSUME NEW t \in States, NEW w PROVE Serves(t, t, w)
BY DEF Serves, Aside, Leaves

\* One request: the last step of its window, and what must hold before it for
\* the window to stay fine.
LEMMA AskFacts ==
  ASSUME NEW t \in States, NEW w \in Windows, NEW r \in Requests, r[2] = w
  PROVE  LET u == Ask(t, r)
             z == Final(t, w).x
             y == Final(u, w).x
         IN /\ Serves(t, u, w) /\ u.cwin = t.cwin /\ u.place = t.place
            /\ u.out = Append(t.out, r)
            /\ Final(u, w) = Step(Final(t, w), w, r)
            /\ /\ Good(t, w) /\ (y.exists /\ y.parent = "frame" => y.saved)
               /\ r[1] \in {"unmap", "reparent"} => ~Single(t, w) \/ ~z.sel \/ ~z.exists
               => Good(u, w)
            /\ \A K : Only(t, w, K) /\ r[1] \in K => Only(u, w, K)
<1> DEFINE u == Ask(t, r)
<1>1. t.out \in Seq(Requests) /\ u.out = Append(t.out, r) /\ Len(t.out) \in Nat
  BY Fields DEF Ask, States
<1>2. u \in States /\ Aside(t, u) /\ u.cwin = t.cwin /\ u.place = t.place
  <2>1. u.out \in Seq(Requests)
    BY <1>1
  <2> QED BY <2>1 DEF Ask, States, Aside
<1> HIDE DEF u
<1>3. /\ u.out \in Seq(Requests) /\ Len(u.out) = Len(t.out) + 1 /\ u.out[Len(u.out)] = r
      /\ \A n \in 1 .. Len(t.out) : u.out[n] = t.out[n]
  BY <1>1
<1>4. ASSUME NEW v \in Windows
      PROVE  /\ \A n \in 0 .. Len(t.out) : Trace(u, v)[n] = Trace(t, v)[n]
             /\ Final(u, v) = Step(Final(t, v), v, r)
  <2>1. Now(u, v) = Now(t, v) /\ Now(t, v) \in Seen
    <3>1. Now(t, v) \in Seen
      BY <1>1, TraceFacts
    <3> QED BY <1>2, <3>1 DEF Now, Aside
  <2> QED BY <1>1, <2>1, RunAppend DEF Trace, Final
<1>5. \A n \in 0 .. Len(u.out) : n \in 0 .. Len(t.out) \/ n = Len(u.out)
  BY <1>1, <1>3
<1>6. \A v \in Windows : Single(u, v) = Single(t, v)
  BY <1>2 DEF Aside, Single
<1>7. ASSUME NEW v \in Windows, Fine(t, v),
             LET y == Final(u, v).x IN y.exists /\ y.parent = "frame" => y.saved
      PROVE  Fine(u, v)
  BY <1>4, <1>5, <1>7 DEF Fine, Final
<1>8. ASSUME NEW v \in Windows, Unseen(t, v),
             r[2] = v /\ r[1] \in {"unmap", "reparent"} =>
               ~Single(t, v) \/ ~Final(t, v).x.sel \/ ~t.x[v].exists
      PROVE  Unseen(u, v)
  <2> SUFFICES ASSUME Single(t, v), NEW n \in 1 .. Len(u.out),
                      u.out[n][2] = v, u.out[n][1] \in {"unmap", "reparent"}
               PROVE  ~Trace(u, v)[n - 1].x.sel \/ ~u.x[v].exists
    BY <1>6 DEF Unseen
  <2>1. CASE n \in 1 .. Len(t.out)
    <3>1. n - 1 \in 0 .. Len(t.out) /\ u.out[n] = t.out[n]
      BY <1>1, <1>3, <2>1
    <3> QED BY <1>2, <1>4, <1>8, <2>1, <3>1 DEF Unseen, Aside
  <2>2. CASE n = Len(u.out)
    <3>1. n - 1 = Len(t.out) /\ n - 1 \in 0 .. Len(t.out) /\ u.out[n] = r
      BY <1>1, <1>3, <2>2
    <3>2. Trace(u, v)[n - 1] = Final(t, v)
      BY <1>4, <3>1 DEF Final
    <3> QED BY <1>2, <1>8, <3>1, <3>2 DEF Aside
  <2>3. n \in 1 .. Len(t.out) \/ n = Len(u.out)
    BY <1>1, <1>3
  <2> QED BY <2>1, <2>2, <2>3
<1>9. ASSUME NEW v \in Windows, NEW K, Only(t, v, K), r[2] = v => r[1] \in K
      PROVE  Only(u, v, K)
  <2>1. \A i \in DOMAIN u.out : i \in DOMAIN t.out \/ i = Len(u.out)
    BY <1>1, <1>3
  <2>2. \A i \in DOMAIN t.out : u.out[i] = t.out[i]
    BY <1>1, <1>3
  <2> QED BY <1>3, <1>9, <2>1, <2>2 DEF Only
<1>10. ASSUME NEW v \in Windows, v # w PROVE Leaves(t, u, v)
  <2>1. Final(u, v) = Final(t, v)
    BY <1>4, <1>10 DEF Step
  <2>2. Fine(t, v) => Fine(u, v)
    <3>1. ASSUME Fine(t, v) PROVE LET y == Final(t, v).x IN y.exists /\ y.parent = "frame" => y.saved
      <4>1. Len(t.out) \in 0 .. Len(t.out)
        BY <1>1
      <4> QED BY <3>1, <4>1 DEF Fine, Final
    <3> QED BY <1>7, <2>1, <3>1
  <2> QED BY <1>8, <1>9, <1>10, <2>1, <2>2 DEF Leaves
<1>11. Final(u, w).asked => Final(t, w).asked
  <2>1. Final(t, w) \in Seen
    BY FinalFacts
  <2> QED BY <1>4, <2>1, StepType
<1>12. Final(t, w).x.exists = t.x[w].exists
  BY FinalFacts
<1>13. Serves(t, u, w)
  BY <1>2, <1>10, <1>11 DEF Serves
<1> QED BY <1>1, <1>2, <1>4, <1>7, <1>8, <1>9, <1>12, <1>13 DEF u, Good

\* What is fine at every moment is at the last.
LEMMA FinalFine ==
  ASSUME NEW t \in States, NEW w, Fine(t, w)
  PROVE  LET z == Final(t, w).x IN z.exists /\ z.parent = "frame" => z.saved
<1>1. Len(t.out) \in 0 .. Len(t.out)
  BY Fields
<1> QED BY <1>1 DEF Fine, Final

\* What a request makes of each part of a window that is there: of f, g
Parts(f, g, r) ==
  /\ g.x.sel = (IF r[1] = "select" THEN r[3] ELSE f.x.sel)
  /\ g.x.mapped = (IF r[1] = "map" THEN TRUE ELSE IF r[1] = "unmap" THEN FALSE ELSE f.x.mapped)
  /\ g.x.parent = (IF r[1] = "reparent" THEN r[3] ELSE f.x.parent)
  /\ g.x.saved = (IF r[1] = "saveset" THEN r[3] ELSE f.x.saved)
  /\ g.x.state = (IF r[1] = "state" THEN r[3] ELSE f.x.state)
  /\ g.x.border = (IF r[1] = "border" THEN r[3] ELSE f.x.border)
  /\ g.x.geom = (IF r[1] = "resize" THEN r[3] ELSE f.x.geom)
  /\ g.x.away = (IF r[1] = "move" THEN r[3] ELSE f.x.away)
Answers(f, g, r) ==
  g.asked = (IF r[1] \in {"notify", "forward"} \/ (r[1] = "resize" /\ r[3] # f.x.geom)
             THEN FALSE ELSE f.asked)

\* A request about a window that is there does this to it.
LEMMA StepFields ==
  ASSUME NEW y \in Seen, NEW w \in Windows, NEW r \in Requests, r[2] = w, y.x.exists
  PROVE  Parts(y, Step(y, w, r), r)
<1> DEFINE z == y.x
           x == Step(y, w, r).x
<1>1. z \in XWindows
  BY DEF Seen
<1>2. CASE r[1] = "select"
  <2>1. Step(y, w, r) = [x |-> [z EXCEPT !.sel = r[3]], asked |-> y.asked]
    BY <1>2 DEF Step
  <2> QED BY <1>1, <1>2, <2>1 DEF XWindows, Parts
<1>3. CASE r[1] = "map"
  <2> DEFINE v == [z EXCEPT !.mapped = TRUE]
  <2>1. x = v
    BY <1>3 DEF Step
  <2>2. /\ v.mapped = TRUE /\ v.sel = z.sel /\ v.parent = z.parent /\ v.saved = z.saved
        /\ v.state = z.state /\ v.border = z.border /\ v.geom = z.geom /\ v.away = z.away
    <3>1. TRUE \in BOOLEAN
      OBVIOUS
    <3> QED BY <1>1, <3>1, MappedType
  <2> HIDE DEF v
  <2> QED BY <1>3, <2>1, <2>2 DEF Parts
<1>4. CASE r[1] = "unmap"
  <2> DEFINE v == [z EXCEPT !.mapped = FALSE]
  <2>1. x = v
    BY <1>4 DEF Step
  <2>2. /\ v.mapped = FALSE /\ v.sel = z.sel /\ v.parent = z.parent /\ v.saved = z.saved
        /\ v.state = z.state /\ v.border = z.border /\ v.geom = z.geom /\ v.away = z.away
    <3>1. FALSE \in BOOLEAN
      OBVIOUS
    <3> QED BY <1>1, <3>1, MappedType
  <2> HIDE DEF v
  <2> QED BY <1>4, <2>1, <2>2 DEF Parts
<1>5. CASE r[1] = "reparent"
  <2>1. Step(y, w, r) = [x |-> [z EXCEPT !.parent = r[3]], asked |-> y.asked]
    BY <1>5 DEF Step
  <2> QED BY <1>1, <1>5, <2>1 DEF XWindows, Parts
<1>6. CASE r[1] = "saveset"
  <2>1. Step(y, w, r) = [x |-> [z EXCEPT !.saved = r[3]], asked |-> y.asked]
    BY <1>6 DEF Step
  <2> QED BY <1>1, <1>6, <2>1 DEF XWindows, Parts
<1>7. CASE r[1] = "state"
  <2>1. Step(y, w, r) = [x |-> [z EXCEPT !.state = r[3]], asked |-> y.asked]
    BY <1>7 DEF Step
  <2> QED BY <1>1, <1>7, <2>1 DEF XWindows, Parts
<1>8. CASE r[1] = "border"
  <2>1. Step(y, w, r) = [x |-> [z EXCEPT !.border = r[3]], asked |-> y.asked]
    BY <1>8 DEF Step
  <2> QED BY <1>1, <1>8, <2>1 DEF XWindows, Parts
<1>9. CASE r[1] = "resize"
  <2>1. CASE z.geom = r[3]
    BY <1>9, <2>1 DEF Step, Parts
  <2>2. CASE z.geom # r[3]
    <3>1. x = [z EXCEPT !.geom = r[3]]
      BY <1>9, <2>2 DEF Step
    <3> QED BY <1>1, <1>9, <2>2, <3>1 DEF XWindows, Parts
  <2> QED BY <2>1, <2>2
<1>10. CASE r[1] = "move"
  <2>1. Step(y, w, r) = [x |-> [z EXCEPT !.away = r[3]], asked |-> y.asked]
    BY <1>10 DEF Step
  <2> QED BY <1>1, <1>10, <2>1 DEF XWindows, Parts
<1>11. CASE r[1] \in {"notify", "forward"}
  BY <1>11 DEF Step, Parts
<1>12. r[1] \in {"notify", "forward", "select", "map", "unmap", "reparent", "saveset", "state", "border", "resize", "move"}
  BY DEF Requests
<1> QED BY <1>2, <1>3, <1>4, <1>5, <1>6, <1>7, <1>8, <1>9, <1>10, <1>11, <1>12

\* And who waits for an answer gets one when told of the window, or when it
\* is resized.
LEMMA StepAsked ==
  ASSUME NEW y \in Seen, NEW w \in Windows, NEW r \in Requests, r[2] = w, y.x.exists
  PROVE  Answers(y, Step(y, w, r), r)
<1>1. CASE r[1] \in {"notify", "forward"}
  BY <1>1 DEF Step, Answers
<1>2. CASE r[1] = "resize"
  BY <1>2 DEF Step, Answers
<1>3. CASE r[1] \in {"select", "map", "unmap", "reparent", "saveset", "state", "border", "move"}
  BY <1>3 DEF Step, Answers
<1>4. \/ r[1] \in {"notify", "forward", "resize"}
      \/ r[1] \in {"select", "map", "unmap", "reparent", "saveset", "state", "border", "move"}
  BY DEF Requests
<1> QED BY <1>1, <1>2, <1>3, <1>4

\* The requests that ioncore makes.
LEMMA RequestTypes ==
  ASSUME NEW w \in Windows
  PROVE  /\ \A k \in {"map", "unmap", "notify", "forward"} : <<k, w>> \in Requests
         /\ \A k \in {"select", "saveset", "border", "move"}, b \in BOOLEAN : <<k, w, b>> \in Requests
         /\ \A p \in {"root", "frame"} : <<"reparent", w, p>> \in Requests
         /\ \A s \in {"Normal", "Iconic", "Withdrawn"} : <<"state", w, s>> \in Requests
         /\ \A g \in Geoms : <<"resize", w, g>> \in Requests
BY DEF Requests

\* Requests that are put together are a list of them.
LEMMA Together ==
  ASSUME NEW a \in Requests, NEW b \in Requests, NEW c \in Requests
  PROVE  /\ <<a, b>> \o <<c>> = <<a, b, c>>
         /\ <<a>> \o <<b>> \o <<c>> = <<a, b, c>>
<1>1. \A x \in Requests : <<x>> \in Seq(Requests)
  OBVIOUS
<1>2. <<a, b>> \in Seq(Requests) /\ <<a, b, c>> \in Seq(Requests)
  OBVIOUS
<1>3. <<a>> \o <<b>> = <<a, b>>
  <2> DEFINE s == <<a>> \o <<b>>
  <2>1. s \in Seq(Requests) /\ Len(s) = 2 /\ s[1] = a /\ s[2] = b
    BY <1>1
  <2>2. Len(<<a, b>>) = 2 /\ <<a, b>>[1] = a /\ <<a, b>>[2] = b /\ 1 .. 2 = {1, 2}
    OBVIOUS
  <2> HIDE DEF s
  <2> QED BY <1>2, <2>1, <2>2, SeqEqual DEF s
<1>4. <<a, b>> \o <<c>> = <<a, b, c>>
  <2> DEFINE s == <<a, b>> \o <<c>>
  <2>1. s \in Seq(Requests) /\ Len(s) = 3 /\ s[1] = a /\ s[2] = b /\ s[3] = c
    BY <1>1, <1>2
  <2>2. Len(<<a, b, c>>) = 3 /\ <<a, b, c>>[1] = a /\ <<a, b, c>>[2] = b /\ <<a, b, c>>[3] = c
    OBVIOUS
  <2>3. 1 .. 3 = {1, 2, 3}
    OBVIOUS
  <2> HIDE DEF s
  <2> QED BY <1>2, <2>1, <2>2, <2>3, SeqEqual DEF s
<1> QED BY <1>3, <1>4

\* To send one request is to make it ...
LEMMA SendOne ==
  ASSUME NEW t \in States, NEW w, NEW a \in Requests
  PROVE  Send(t, w, <<a>>) = Ask(t, a) /\ Ask(t, a) \in States /\ Ask(t, a).out = Append(t.out, a)
<1>1. t.out \in Seq(Requests)
  BY Fields
<1>2. t.out \o <<a>> = Append(t.out, a) /\ Append(t.out, a) \in Seq(Requests)
  BY <1>1
<1>3. Ask(t, a) \in States /\ Ask(t, a).out = Append(t.out, a)
  BY <1>2 DEF Ask, States
<1> QED BY <1>2, <1>3 DEF Send, Ask

\* ... to send two, one after the other ...
LEMMA SendTwo ==
  ASSUME NEW t \in States, NEW w, NEW a \in Requests, NEW b \in Requests
  PROVE  Send(t, w, <<a, b>>) = Ask(Ask(t, a), b)
<1>1. t.out \in Seq(Requests)
  BY Fields
<1>2. t.out \o <<a, b>> = Append(Append(t.out, a), b)
  BY <1>1
<1>3. Ask(Ask(t, a), b) = [t EXCEPT !.out = Append(Append(t.out, a), b)]
  BY SendOne DEF Ask, States
<1> QED BY <1>2, <1>3 DEF Send

\* ... and three, all three.
LEMMA SendThree ==
  ASSUME NEW t \in States, NEW w, NEW a \in Requests, NEW b \in Requests, NEW c \in Requests
  PROVE  Send(t, w, <<a, b, c>>) = Ask(Ask(Ask(t, a), b), c)
<1>1. t.out \in Seq(Requests)
  BY Fields
<1>2. t.out \o <<a, b, c>> = Append(Append(Append(t.out, a), b), c)
  BY <1>1
<1>3. Ask(Ask(t, a), b) = [t EXCEPT !.out = Append(Append(t.out, a), b)]
  BY SendOne DEF Ask, States
<1>4. Ask(Ask(Ask(t, a), b), c) = [t EXCEPT !.out = Append(Append(Append(t.out, a), b), c)]
  BY <1>3 DEF Ask, States
<1> QED BY <1>2, <1>4 DEF Send

\* What a masked request makes of a window that is there: it is watched again
Behind(t, u, w, r) ==
  LET z == Final(t, w).x
      y == Final(u, w).x
  IN z.exists => /\ y.exists /\ y.sel /\ y.saved = z.saved /\ y.state = z.state
                 /\ y.border = z.border /\ y.geom = z.geom /\ y.away = z.away
                 /\ y.mapped = (IF r[1] = "map" THEN TRUE
                                ELSE IF r[1] = "unmap" THEN FALSE ELSE z.mapped)
                 /\ y.parent = (IF r[1] = "reparent" THEN r[3] ELSE z.parent)
                 /\ r[1] = "notify" => ~Final(u, w).asked

\* A request that is masked: the window is selected again after it, and fine
\* if it was, if it is in the save set before it comes into a frame.
LEMMA MaskedFacts ==
  ASSUME NEW t \in States, NEW w \in Windows, NEW r \in Requests, r[2] = w,
         r[1] \in {"map", "unmap", "notify", "reparent"}
  PROVE  LET u == Masked(t, w, <<r>>)
             z == Final(t, w).x
             y == Final(u, w).x
         IN /\ Serves(t, u, w) /\ u.cwin = t.cwin /\ u.place = t.place
            /\ Good(t, w) /\ (r[1] = "reparent" => z.saved \/ ~z.exists) => Good(u, w)
            /\ Behind(t, u, w, r)
<1> DEFINE off == <<"select", w, FALSE>>
           on == <<"select", w, TRUE>>
           t1 == Ask(t, off)
           t2 == Ask(t1, r)
           u == Ask(t2, on)
           f == Final(t, w)
           f1 == Final(t1, w)
           f2 == Final(t2, w)
           g == Final(u, w)
           z == f.x
           z1 == f1.x
           z2 == f2.x
           y == g.x
<1>1. off \in Requests /\ on \in Requests /\ off[2] = w /\ on[2] = w
  BY RequestTypes
<1>2. Masked(t, w, <<r>>) = u
  <2>1. Masked(t, w, <<r>>) = Send(t, w, (<<off>> \o <<r>>) \o <<on>>)
    BY DEF Masked
  <2> HIDE DEF off, on
  <2>2. (<<off>> \o <<r>>) \o <<on>> = <<off, r, on>>
    BY <1>1, Together
  <2>3. Send(t, w, <<off, r, on>>) = Ask(Ask(Ask(t, off), r), on)
    BY <1>1, SendThree
  <2> QED BY <2>1, <2>2, <2>3
<1>3. /\ Serves(t, t1, w) /\ t1.cwin = t.cwin /\ t1.place = t.place
      /\ Final(t1, w) = Step(Final(t, w), w, off)
      /\ Good(t, w) /\ (z1.exists /\ z1.parent = "frame" => z1.saved) => Good(t1, w)
  BY <1>1, AskFacts
<1>4. t1 \in States
  BY <1>3 DEF Serves
<1>5. /\ Serves(t1, t2, w) /\ t2.cwin = t1.cwin /\ t2.place = t1.place
      /\ Final(t2, w) = Step(Final(t1, w), w, r)
      /\ Good(t1, w) /\ (z2.exists /\ z2.parent = "frame" => z2.saved) /\ (~z1.sel \/ ~z1.exists)
           => Good(t2, w)
  BY <1>4, AskFacts
<1>6. t2 \in States
  BY <1>5 DEF Serves
<1>7. /\ Serves(t2, u, w) /\ u.cwin = t2.cwin /\ u.place = t2.place
      /\ Final(u, w) = Step(Final(t2, w), w, on)
      /\ Good(t2, w) /\ (y.exists /\ y.parent = "frame" => y.saved) => Good(u, w)
  BY <1>1, <1>6, AskFacts
<1>8. Serves(t, u, w)
  BY <1>3, <1>5, <1>7, ServesTwice
<1>9. u \in States
  BY <1>8 DEF Serves
<1>10. f \in Seen /\ f1 \in Seen /\ f2 \in Seen
  BY <1>4, <1>6, FinalFacts
<1>11. z1.exists = z.exists /\ z2.exists = z.exists /\ y.exists = z.exists
  BY <1>3, <1>4, <1>5, <1>6, <1>7, <1>9, FinalFacts DEF Serves, Aside
<1>12. /\ off[1] = "select" /\ off[3] = FALSE /\ on[1] = "select" /\ on[3] = TRUE
  OBVIOUS
<1> HIDE DEF t1, t2, u, off, on, f, f1, f2, g
<1>13. f1 = Step(f, w, off) /\ f2 = Step(f1, w, r) /\ g = Step(f2, w, on)
  BY <1>3, <1>5, <1>7 DEF f, f1, f2, g
<1>14. ASSUME z.exists
       PROVE  /\ z1.saved = z.saved /\ z1.state = z.state /\ z1.border = z.border /\ z1.sel = FALSE
              /\ z1.geom = z.geom /\ z1.away = z.away /\ z1.mapped = z.mapped /\ z1.parent = z.parent
  <2>1. Parts(f, f1, off)
    BY <1>1, <1>10, <1>14, <1>13, StepFields
  <2> QED BY <1>12, <2>1 DEF Parts
<1>15. ASSUME z.exists
       PROVE  /\ z2.saved = z1.saved /\ z2.state = z1.state /\ z2.border = z1.border
              /\ z2.geom = z1.geom /\ z2.away = z1.away
              /\ z2.mapped = (IF r[1] = "map" THEN TRUE
                              ELSE IF r[1] = "unmap" THEN FALSE ELSE z1.mapped)
              /\ z2.parent = (IF r[1] = "reparent" THEN r[3] ELSE z1.parent)
              /\ r[1] = "notify" => f2.asked = FALSE
  <2>1. z1.exists
    BY <1>15, <1>11
  <2>2. Parts(f1, f2, r) /\ Answers(f1, f2, r)
    BY <1>10, <1>13, <2>1, StepFields, StepAsked
  <2> QED BY <2>2 DEF Parts, Answers
<1>16. ASSUME z.exists
       PROVE  /\ y.saved = z2.saved /\ y.state = z2.state /\ y.border = z2.border /\ y.sel = TRUE
              /\ y.geom = z2.geom /\ y.away = z2.away /\ y.mapped = z2.mapped /\ y.parent = z2.parent
              /\ g.asked = f2.asked
  <2>1. z2.exists
    BY <1>16, <1>11
  <2>2. Parts(f2, g, on) /\ Answers(f2, g, on)
    BY <1>1, <1>10, <1>13, <2>1, StepFields, StepAsked
  <2> QED BY <1>12, <2>2 DEF Parts, Answers
<1>17. ASSUME Good(t, w), r[1] = "reparent" => z.saved \/ ~z.exists PROVE Good(u, w)
  <2>1. z.exists /\ z.parent = "frame" => z.saved
    BY <1>17, FinalFine DEF Good, f
  <2>2. Good(t1, w)
    BY <1>3, <1>14, <1>17, <1>11, <2>1 DEF f1
  <2>3. Good(t2, w)
    BY <1>5, <1>14, <1>15, <1>17, <1>11, <2>1, <2>2 DEF f1, f2
  <2> QED BY <1>7, <1>14, <1>15, <1>16, <1>17, <1>11, <2>1, <2>3 DEF g
<1>18. Behind(t, u, w, r)
  BY <1>14, <1>15, <1>16, <1>11 DEF Behind, f, g
<1> QED BY <1>2, <1>3, <1>5, <1>7, <1>8, <1>17, <1>18 DEF f

-----------------------------------------------------------------------------
(* What ioncore keeps of its windows, and what it does to one of them *)

Kept(t, w, c) == [t EXCEPT !.cwin[w] = c]

\* To change what is kept of a window asks for nothing.
LEMMA KeptFacts ==
  ASSUME NEW t \in States, NEW w \in Windows, NEW c \in CWins
  PROVE  LET u == Kept(t, w, c)
         IN /\ Serves(t, u, w) /\ u \in States /\ u.cwin[w] = c /\ u.place = t.place /\ u.out = t.out
            /\ Final(u, w) = Final(t, w) /\ (Good(t, w) => Good(u, w))
<1> DEFINE u == Kept(t, w, c)
<1>1. /\ u \in States /\ u.cwin[w] = c /\ u.place = t.place /\ u.out = t.out /\ Aside(t, u)
      /\ \A v \in Windows : v # w => u.cwin[v] = t.cwin[v]
  BY DEF Kept, States, Aside
<1> HIDE DEF u
<1>2. \A v : /\ Leaves(t, u, v) /\ Final(u, v) = Final(t, v) /\ Fine(u, v) = Fine(t, v)
             /\ Unseen(u, v) = Unseen(t, v)
  BY <1>1, Depends DEF Aside
<1> QED BY <1>1, <1>2 DEF Serves, Good, u

\* What ioncore holds: in the save set, watched, and as it has it
Held(t, w) ==
  LET z == Final(t, w).x
      c == t.cwin[w]
  IN /\ c.managed /\ Good(t, w)
     /\ z.exists => /\ z.saved /\ z.sel /\ z.geom = c.geom
                    /\ c.state # "Withdrawn" => z.state = c.state
\* Dealt with, and still held if it was
Tends(t, u, w) ==
  LET z == Final(t, w).x
      y == Final(u, w).x
  IN /\ Serves(t, u, w)
     /\ u.cwin[w].managed = t.cwin[w].managed /\ u.cwin[w].orig_bw = t.cwin[w].orig_bw
     /\ Held(t, w) => Held(u, w)
     /\ z.exists => y.border = z.border /\ (z.parent = "frame" => y.parent = "frame")
     /\ Held(t, w) /\ z.exists /\ t.cwin[w].need_cfgntfy /\ ~u.cwin[w].need_cfgntfy =>
          ~Final(u, w).asked
\* Shown as ioncore has it
Visible(t, w) ==
  LET z == Final(t, w).x
      c == t.cwin[w]
  IN IF t.prop[w] = "acrobatic" THEN z.exists => z.away = ~c.mapped
     ELSE /\ c.state = (IF c.mapped THEN "Normal" ELSE "Iconic")
          /\ z.exists => z.mapped = c.mapped \/ Has(t, "Unmap", w)

\* A window that is served is there if it was.
LEMMA ServesThere ==
  ASSUME NEW t \in States, NEW u, NEW w \in Windows, Serves(t, u, w)
  PROVE  u \in States /\ Final(u, w).x.exists = Final(t, w).x.exists /\ Final(u, w).x.exists = t.x[w].exists
BY FinalFacts DEF Serves, Aside

\* Tending a window twice tends it.
LEMMA TendsTwice ==
  ASSUME NEW t \in States, NEW u, NEW s, NEW w \in Windows, Tends(t, u, w), Tends(u, s, w)
  PROVE  Tends(t, s, w)
<1> DEFINE z == Final(t, w).x
           y == Final(u, w).x
           x == Final(s, w).x
<1>1. Serves(t, u, w) /\ Serves(u, s, w)
  BY DEF Tends
<1>2. Serves(t, s, w) /\ u \in States
  BY <1>1, ServesTwice DEF Serves
<1>3. y.exists = z.exists /\ x.exists = z.exists
  BY <1>1, <1>2, ServesThere
<1>4. Final(s, w).asked => Final(u, w).asked
  BY <1>1 DEF Serves
<1> HIDE DEF x, y, z
<1>5. /\ s.cwin[w].managed = t.cwin[w].managed /\ s.cwin[w].orig_bw = t.cwin[w].orig_bw
      /\ Held(t, w) => Held(s, w)
  BY DEF Tends
<1>6. z.exists => x.border = z.border /\ (z.parent = "frame" => x.parent = "frame")
  BY <1>3 DEF Tends, x, y, z
<1>7. Held(t, w) /\ z.exists /\ t.cwin[w].need_cfgntfy /\ ~s.cwin[w].need_cfgntfy =>
        ~Final(s, w).asked
  BY <1>3, <1>4 DEF Tends, x, y, z
<1> QED BY <1>2, <1>5, <1>6, <1>7 DEF Tends, x, z

\* A request to a window that is there, and what it leaves fine.
LEMMA AskParts ==
  ASSUME NEW t \in States, NEW w \in Windows, NEW r \in Requests, r[2] = w
  PROVE  LET u == Ask(t, r)
         IN /\ Serves(t, u, w) /\ u \in States /\ u.cwin = t.cwin /\ u.place = t.place
            /\ Final(u, w).x.exists = Final(t, w).x.exists
            /\ Final(t, w).x.exists => /\ Parts(Final(t, w), Final(u, w), r)
                                       /\ Answers(Final(t, w), Final(u, w), r)
            /\ Good(t, w) /\ r[1] \notin {"unmap", "reparent", "saveset"} => Good(u, w)
<1> DEFINE u == Ask(t, r)
           f == Final(t, w)
           g == Final(u, w)
<1>1. /\ Serves(t, u, w) /\ u.cwin = t.cwin /\ u.place = t.place /\ g = Step(f, w, r)
      /\ /\ Good(t, w) /\ (g.x.exists /\ g.x.parent = "frame" => g.x.saved)
         /\ r[1] \in {"unmap", "reparent"} => ~Single(t, w) \/ ~f.x.sel \/ ~f.x.exists
         => Good(u, w)
  BY AskFacts
<1>2. f \in Seen /\ u \in States /\ g.x.exists = f.x.exists
  BY <1>1, FinalFacts, ServesThere
<1> HIDE DEF u, f, g
<1>3. f.x.exists => Parts(f, g, r) /\ Answers(f, g, r)
  BY <1>1, <1>2, StepFields, StepAsked
<1>4. Good(t, w) /\ r[1] \notin {"unmap", "reparent", "saveset"} => Good(u, w)
  <2>1. Good(t, w) => (f.x.exists /\ f.x.parent = "frame" => f.x.saved)
    BY FinalFine DEF Good, f
  <2>2. f.x.exists /\ r[1] \notin {"unmap", "reparent", "saveset"} =>
          g.x.parent = f.x.parent /\ g.x.saved = f.x.saved
    BY <1>3 DEF Parts
  <2> QED BY <1>1, <1>2, <2>1, <2>2
<1> QED BY <1>1, <1>2, <1>3, <1>4 DEF u, f, g

\* Only its state may be another
Restated(z, y) ==
  /\ y.exists /\ y.sel = z.sel /\ y.saved = z.saved /\ y.parent = z.parent
  /\ y.border = z.border /\ y.geom = z.geom /\ y.mapped = z.mapped /\ y.away = z.away

\* The state that the client reads is set to what is kept of it.
LEMMA StateFacts ==
  ASSUME NEW t \in States, NEW w \in Windows, NEW s \in {"Normal", "Iconic", "Withdrawn"}
  PROVE  LET u == set_clientwin_state(t, w, s)
             c == t.cwin[w]
             d == u.cwin[w]
             z == Final(t, w).x
             y == Final(u, w).x
         IN /\ Tends(t, u, w) /\ u \in States /\ u.place = t.place /\ (Good(t, w) => Good(u, w))
            /\ d.state = s /\ d.mapped = c.mapped /\ d.geom = c.geom
            /\ d.need_cfgntfy = c.need_cfgntfy
            /\ z.exists => Restated(z, y)
<1> DEFINE u == set_clientwin_state(t, w, s)
           c == t.cwin[w]
           r == <<"state", w, s>>
           k == [c EXCEPT !.state = s]
           v == Kept(t, w, k)
<1>1. c \in CWins /\ r \in Requests /\ r[2] = w /\ r[1] = "state" /\ r[3] = s
  BY Fields, RequestTypes
<1>2. CASE c.state = s
  <2>1. u = t
    BY <1>2 DEF set_clientwin_state
  <2>2. Tends(t, t, w)
    BY ServesNot DEF Tends
  <2> QED BY <1>2, <2>1, <2>2 DEF Restated
<1>3. CASE c.state # s
  <2>1. /\ k \in CWins /\ k.managed = c.managed /\ k.state = s /\ k.mapped = c.mapped
        /\ k.geom = c.geom /\ k.orig_bw = c.orig_bw /\ k.need_cfgntfy = c.need_cfgntfy
    BY <1>1 DEF CWins
  <2>2. [t EXCEPT !.cwin[w].state = s] = v
    BY DEF Kept
  <2> HIDE DEF k
  <2>3. /\ Serves(t, v, w) /\ v \in States /\ v.cwin[w] = k /\ v.place = t.place
        /\ Final(v, w) = Final(t, w) /\ (Good(t, w) => Good(v, w))
    BY <2>1, KeptFacts
  <2> HIDE DEF v, r
  <2>4. u = Ask(v, r)
    <3>1. u = Send(v, w, <<r>>)
      BY <1>3, <2>2 DEF set_clientwin_state, r
    <3> QED BY <1>1, <2>3, <3>1, SendOne
  <2>5. /\ Serves(v, u, w) /\ u \in States /\ u.cwin = v.cwin /\ u.place = v.place
        /\ Final(u, w).x.exists = Final(v, w).x.exists
        /\ Final(v, w).x.exists => Parts(Final(v, w), Final(u, w), r)
        /\ Good(v, w) => Good(u, w)
    BY <1>1, <2>3, <2>4, AskParts
  <2> HIDE DEF u
  <2>6. Serves(t, u, w)
    BY <2>3, <2>5, ServesTwice
  <2> DEFINE z == Final(t, w).x
             y == Final(u, w).x
  <2>7. z.exists => /\ y.exists /\ y.sel = z.sel /\ y.saved = z.saved /\ y.parent = z.parent
                    /\ y.border = z.border /\ y.geom = z.geom /\ y.mapped = z.mapped
                    /\ y.away = z.away /\ y.state = s
    BY <1>1, <2>3, <2>5 DEF Parts
  <2>8. y.exists = z.exists /\ u.cwin[w] = k
    BY <2>3, <2>5
  <2> HIDE DEF y, z
  <2>9. Held(t, w) => Held(u, w)
    BY <2>1, <2>3, <2>5, <2>7, <2>8 DEF Held, y, z
  <2>10. Tends(t, u, w)
    BY <2>1, <2>6, <2>7, <2>8, <2>9 DEF Tends, y, z
  <2>11. z.exists => Restated(z, y)
    BY <2>7 DEF Restated
  <2> QED BY <2>1, <2>3, <2>5, <2>8, <2>10, <2>11 DEF u, y, z
<1> QED BY <1>2, <1>3

\* What is sent to a window out of sight, and back.
LEMMA MoveFacts ==
  ASSUME NEW t \in States, NEW w \in Windows, NEW b \in BOOLEAN
  PROVE  LET u == Send(t, w, <<<<"move", w, b>>>>)
             z == Final(t, w).x
             y == Final(u, w).x
         IN /\ Tends(t, u, w) /\ u \in States /\ u.cwin = t.cwin /\ u.place = t.place
            /\ y.exists = z.exists
            /\ z.exists => y.away = b /\ y.mapped = z.mapped
<1> DEFINE r == <<"move", w, b>>
           u == Ask(t, r)
           z == Final(t, w).x
           y == Final(u, w).x
<1>1. r \in Requests /\ r[2] = w /\ r[1] = "move" /\ r[3] = b
  BY RequestTypes
<1> HIDE DEF r
<1>2. Send(t, w, <<r>>) = u
  BY <1>1, SendOne
<1>3. /\ Serves(t, u, w) /\ u \in States /\ u.cwin = t.cwin /\ u.place = t.place
      /\ y.exists = z.exists /\ (Good(t, w) => Good(u, w))
      /\ z.exists => Parts(Final(t, w), Final(u, w), r)
  BY <1>1, AskParts
<1>4. z.exists => /\ y.sel = z.sel /\ y.saved = z.saved /\ y.parent = z.parent
                  /\ y.border = z.border /\ y.geom = z.geom /\ y.mapped = z.mapped
                  /\ y.state = z.state /\ y.away = b
  BY <1>1, <1>3 DEF Parts
<1> HIDE DEF u, y, z
<1>5. Held(t, w) => Held(u, w)
  BY <1>3, <1>4 DEF Held, y, z
<1>6. Tends(t, u, w)
  BY <1>3, <1>4, <1>5 DEF Tends, y, z
<1> QED BY <1>2, <1>3, <1>4, <1>6 DEF r, u, y, z

\* Masked requests, but to leave the frame, are for a window that is held.
LEMMA MaskedTends ==
  ASSUME NEW t \in States, NEW w \in Windows, NEW r \in Requests, r[2] = w,
         r[1] \in {"map", "unmap", "notify"} \/ (r[1] = "reparent" /\ r[3] = "frame")
  PROVE  LET u == Masked(t, w, <<r>>)
             z == Final(t, w).x
             y == Final(u, w).x
         IN /\ Tends(t, u, w) /\ u \in States /\ u.cwin = t.cwin /\ u.place = t.place
            /\ y.exists = z.exists
            /\ Behind(t, u, w, r)
<1> DEFINE u == Masked(t, w, <<r>>)
           z == Final(t, w).x
           y == Final(u, w).x
<1>1. /\ Serves(t, u, w) /\ u.cwin = t.cwin /\ u.place = t.place
      /\ Good(t, w) /\ (r[1] = "reparent" => z.saved \/ ~z.exists) => Good(u, w)
      /\ Behind(t, u, w, r)
  <2>1. r[1] \in {"map", "unmap", "notify", "reparent"}
    OBVIOUS
  <2> QED BY <2>1, MaskedFacts
<1>2. y.exists = z.exists /\ u \in States
  BY <1>1, ServesThere
<1> HIDE DEF u, y, z
<1>3. Held(t, w) => Held(u, w)
  BY <1>1, <1>2 DEF Held, Behind, y, z
<1>4. Tends(t, u, w)
  BY <1>1, <1>2, <1>3 DEF Tends, Behind, y, z
<1> QED BY <1>1, <1>2, <1>4 DEF u, y, z

\* To keep of a window what it is not seen by holds it.
LEMMA KeptTends ==
  ASSUME NEW t \in States, NEW w \in Windows, NEW k \in CWins,
         LET c == t.cwin[w]
         IN /\ k.managed = c.managed /\ k.orig_bw = c.orig_bw /\ k.state = c.state
            /\ k.geom = c.geom /\ (c.need_cfgntfy => k.need_cfgntfy)
  PROVE  LET u == Kept(t, w, k)
         IN /\ Tends(t, u, w) /\ u \in States /\ u.cwin[w] = k /\ u.place = t.place
            /\ Final(u, w) = Final(t, w)
<1> DEFINE u == Kept(t, w, k)
<1>1. /\ Serves(t, u, w) /\ u \in States /\ u.cwin[w] = k /\ u.place = t.place
      /\ Final(u, w) = Final(t, w) /\ (Good(t, w) => Good(u, w))
  BY KeptFacts
<1> HIDE DEF u
<1>2. Held(t, w) => Held(u, w)
  BY <1>1 DEF Held
<1>3. Tends(t, u, w)
  BY <1>1, <1>2 DEF Tends
<1> QED BY <1>1, <1>3 DEF u

\* So does whether it is shown ...
LEMMA MarkFacts ==
  ASSUME NEW t \in States, NEW w \in Windows, NEW b \in BOOLEAN
  PROVE  LET u == [t EXCEPT !.cwin[w].mapped = b]
             c == t.cwin[w]
             d == u.cwin[w]
         IN /\ Tends(t, u, w) /\ u \in States /\ d.mapped = b /\ d.state = c.state /\ d.geom = c.geom
            /\ d.need_cfgntfy = c.need_cfgntfy /\ u.place = t.place /\ Final(u, w) = Final(t, w)
<1> DEFINE c == t.cwin[w]
           k == [c EXCEPT !.mapped = b]
<1>1. c \in CWins
  BY Fields
<1>2. /\ k \in CWins /\ k.managed = c.managed /\ k.state = c.state /\ k.mapped = b
      /\ k.geom = c.geom /\ k.orig_bw = c.orig_bw /\ k.need_cfgntfy = c.need_cfgntfy
  BY <1>1 DEF CWins
<1>3. [t EXCEPT !.cwin[w].mapped = b] = Kept(t, w, k)
  BY DEF Kept
<1> HIDE DEF k
<1>4. LET u == Kept(t, w, k)
      IN /\ Tends(t, u, w) /\ u \in States /\ u.cwin[w] = k /\ u.place = t.place
         /\ Final(u, w) = Final(t, w)
  BY <1>2, KeptTends
<1> QED BY <1>2, <1>3, <1>4

\* ... that its client waits ...
LEMMA NeedFacts ==
  ASSUME NEW t \in States, NEW w \in Windows
  PROVE  LET u == [t EXCEPT !.cwin[w].need_cfgntfy = TRUE]
             c == t.cwin[w]
             d == u.cwin[w]
         IN /\ Tends(t, u, w) /\ u \in States /\ d.mapped = c.mapped /\ d.state = c.state
            /\ d.geom = c.geom /\ d.need_cfgntfy /\ u.place = t.place /\ Final(u, w) = Final(t, w)
<1> DEFINE c == t.cwin[w]
           P(b) == LET k == [c EXCEPT !.need_cfgntfy = b]
                   IN /\ k \in CWins /\ k.managed = c.managed /\ k.state = c.state
                      /\ k.mapped = c.mapped /\ k.geom = c.geom /\ k.orig_bw = c.orig_bw
                      /\ k.need_cfgntfy = b
           k == [c EXCEPT !.need_cfgntfy = TRUE]
<1>1. P(TRUE)
  <2>1. c \in CWins
    BY Fields
  <2>2. \A b \in BOOLEAN : P(b)
    BY <2>1 DEF CWins
  <2> HIDE DEF P
  <2> QED BY <2>2
<1>2. [t EXCEPT !.cwin[w].need_cfgntfy = TRUE] = Kept(t, w, k)
  BY DEF Kept
<1> HIDE DEF k
<1>3. /\ k \in CWins /\ k.managed = c.managed /\ k.state = c.state /\ k.mapped = c.mapped
      /\ k.geom = c.geom /\ k.orig_bw = c.orig_bw /\ k.need_cfgntfy = TRUE
  BY <1>1 DEF k
<1>4. LET u == Kept(t, w, k)
      IN /\ Tends(t, u, w) /\ u \in States /\ u.cwin[w] = k /\ u.place = t.place
         /\ Final(u, w) = Final(t, w)
  BY <1>3, KeptTends
<1> QED BY <1>2, <1>3, <1>4

\* ... and what it is in.
LEMMA ParentFacts ==
  ASSUME NEW t \in States, NEW w \in Windows
  PROVE  LET u == [t EXCEPT !.cwin[w].parent = "frame"]
             c == t.cwin[w]
             d == u.cwin[w]
         IN /\ Tends(t, u, w) /\ u \in States /\ d.mapped = c.mapped /\ d.state = c.state
            /\ d.geom = c.geom /\ d.need_cfgntfy = c.need_cfgntfy /\ u.place = t.place
            /\ Final(u, w) = Final(t, w)
<1> DEFINE c == t.cwin[w]
           k == [c EXCEPT !.parent = "frame"]
<1>1. c \in CWins
  BY Fields
<1>2. /\ k \in CWins /\ k.managed = c.managed /\ k.state = c.state /\ k.mapped = c.mapped
      /\ k.geom = c.geom /\ k.orig_bw = c.orig_bw /\ k.need_cfgntfy = c.need_cfgntfy
  BY <1>1 DEF CWins
<1>3. [t EXCEPT !.cwin[w].parent = "frame"] = Kept(t, w, k)
  BY DEF Kept
<1> HIDE DEF k
<1>4. LET u == Kept(t, w, k)
      IN /\ Tends(t, u, w) /\ u \in States /\ u.cwin[w] = k /\ u.place = t.place
         /\ Final(u, w) = Final(t, w)
  BY <1>2, KeptTends
<1> QED BY <1>2, <1>3, <1>4

\* A window that is hidden is out of sight, with ioncore's knowledge.
LEMMA UnmapFacts ==
  ASSUME NEW t \in States, NEW w \in Windows
  PROVE  LET u == clientwin_unmap(t, w)
             c == t.cwin[w]
             d == u.cwin[w]
         IN /\ Tends(t, u, w) /\ u \in States /\ u.place = t.place /\ Visible(u, w)
            /\ ~d.mapped /\ d.geom = c.geom /\ d.need_cfgntfy = c.need_cfgntfy
<1> DEFINE h == hide_clientwin(t, w)
           u == clientwin_unmap(t, w)
           c == t.cwin[w]
           d == u.cwin[w]
           z == Final(t, w).x
           y == Final(h, w).x
           acrobatic == t.prop[w] = "acrobatic"
<1>1. /\ Tends(t, h, w) /\ h \in States /\ h.place = t.place
      /\ h.cwin[w].geom = c.geom /\ h.cwin[w].need_cfgntfy = c.need_cfgntfy
      /\ IF acrobatic THEN y.exists => y.away = TRUE
         ELSE h.cwin[w].state = "Iconic" /\ (y.exists => y.mapped = FALSE)
  <2>1. CASE acrobatic
    <3>1. h = Send(t, w, <<<<"move", w, TRUE>>>>)
      BY <2>1 DEF hide_clientwin
    <3>2. TRUE \in BOOLEAN
      OBVIOUS
    <3> HIDE DEF h
    <3> QED BY <2>1, <3>1, <3>2, MoveFacts
  <2>2. CASE ~acrobatic
    <3> DEFINE s == set_clientwin_state(t, w, "Iconic")
    <3>1. /\ Tends(t, s, w) /\ s \in States /\ s.place = t.place /\ s.cwin[w].state = "Iconic"
          /\ s.cwin[w].geom = c.geom /\ s.cwin[w].need_cfgntfy = c.need_cfgntfy
      BY StateFacts
    <3> DEFINE r == <<"unmap", w>>
    <3>2. h = Masked(s, w, <<r>>)
      BY <2>2 DEF hide_clientwin
    <3>3. r \in Requests /\ r[2] = w /\ r[1] = "unmap"
      BY RequestTypes
    <3> HIDE DEF s, h, r
    <3>4. /\ Tends(s, h, w) /\ h \in States /\ h.cwin = s.cwin /\ h.place = s.place
          /\ Final(h, w).x.exists = Final(s, w).x.exists
          /\ Behind(s, h, w, r)
      BY <3>1, <3>2, <3>3, MaskedTends
    <3>5. y.exists => y.mapped = FALSE
      BY <3>3, <3>4 DEF Behind
    <3>6. Tends(t, h, w)
      BY <3>1, <3>4, TendsTwice
    <3> QED BY <2>2, <3>1, <3>4, <3>6, <3>5
  <2> QED BY <2>1, <2>2
<1>2. u = [h EXCEPT !.cwin[w].mapped = FALSE] /\ FALSE \in BOOLEAN
  BY DEF clientwin_unmap
<1> HIDE DEF h, u, y, z
<1>3. /\ Tends(h, u, w) /\ u \in States /\ d.mapped = FALSE /\ d.state = h.cwin[w].state
      /\ d.geom = h.cwin[w].geom /\ d.need_cfgntfy = h.cwin[w].need_cfgntfy
      /\ u.place = h.place /\ Final(u, w) = Final(h, w)
  BY <1>1, <1>2, MarkFacts
<1>4. Tends(t, u, w)
  BY <1>1, <1>3, TendsTwice
<1>5. Visible(u, w)
  <2>1. u.prop = t.prop
    BY <1>4 DEF Tends, Serves, Aside
  <2>2. CASE acrobatic
    BY <1>1, <1>3, <2>1, <2>2 DEF Visible, y
  <2>3. CASE ~acrobatic
    BY <1>1, <1>3, <2>1, <2>3 DEF Visible, y
  <2> QED BY <2>2, <2>3
<1> QED BY <1>1, <1>3, <1>4, <1>5 DEF u

\* A window that is shown is on the screen, and kept as shown.
LEMMA MapFacts ==
  ASSUME NEW t \in States, NEW w \in Windows
  PROVE  LET u == clientwin_map(t, w)
             c == t.cwin[w]
             d == u.cwin[w]
         IN /\ Tends(t, u, w) /\ u \in States /\ u.place = t.place /\ Visible(u, w)
            /\ d.mapped = TRUE /\ d.geom = c.geom /\ d.need_cfgntfy = c.need_cfgntfy
<1> DEFINE h == show_clientwin(t, w)
           u == clientwin_map(t, w)
           c == t.cwin[w]
           d == u.cwin[w]
           y == Final(h, w).x
           acrobatic == t.prop[w] = "acrobatic"
           m == IF acrobatic THEN Send(t, w, <<<<"move", w, FALSE>>>>) ELSE t
           r == <<"map", w>>
           s == Masked(m, w, <<r>>)
<1>1. /\ Tends(t, m, w) /\ m \in States /\ m.place = t.place /\ m.cwin = t.cwin
      /\ acrobatic => (Final(m, w).x.exists => Final(m, w).x.away = FALSE)
  <2>1. CASE acrobatic
    <3>1. m = Send(t, w, <<<<"move", w, FALSE>>>>) /\ FALSE \in BOOLEAN
      BY <2>1
    <3> HIDE DEF m
    <3> QED BY <2>1, <3>1, MoveFacts
  <2>2. CASE ~acrobatic
    <3>1. Tends(t, t, w)
      BY ServesNot DEF Tends
    <3> QED BY <2>2, <3>1
  <2> QED BY <2>1, <2>2
<1>2. h = IF acrobatic /\ c.state = "Normal" THEN m ELSE set_clientwin_state(s, w, "Normal")
  BY DEF show_clientwin
<1>3. r \in Requests /\ r[2] = w /\ r[1] = "map"
  BY RequestTypes
<1> HIDE DEF h, m, r, s
<1>4. /\ Tends(m, s, w) /\ s \in States /\ s.cwin = m.cwin /\ s.place = m.place
      /\ Final(s, w).x.exists = Final(m, w).x.exists /\ Behind(m, s, w, r)
  BY <1>1, <1>3, MaskedTends DEF s
<1>5. Final(s, w).x.exists => Final(s, w).x.mapped = TRUE /\ Final(s, w).x.away = Final(m, w).x.away
  BY <1>3, <1>4 DEF Behind
<1>6. /\ Tends(t, h, w) /\ h \in States /\ h.place = t.place
      /\ h.cwin[w].geom = c.geom /\ h.cwin[w].need_cfgntfy = c.need_cfgntfy
      /\ IF acrobatic THEN y.exists => y.away = FALSE
         ELSE h.cwin[w].state = "Normal" /\ (y.exists => y.mapped = TRUE)
  <2>1. CASE acrobatic /\ c.state = "Normal"
    BY <1>1, <1>2, <2>1
  <2>2. CASE ~(acrobatic /\ c.state = "Normal")
    <3>1. h = set_clientwin_state(s, w, "Normal")
      BY <1>2, <2>2
    <3> DEFINE z == Final(s, w).x
    <3>2. /\ Tends(s, h, w) /\ h \in States /\ h.place = s.place /\ h.cwin[w].state = "Normal"
          /\ h.cwin[w].geom = s.cwin[w].geom /\ h.cwin[w].need_cfgntfy = s.cwin[w].need_cfgntfy
          /\ z.exists => Restated(z, y)
      <4> DEFINE v == set_clientwin_state(s, w, "Normal")
      <4>1. /\ Tends(s, v, w) /\ v \in States /\ v.place = s.place /\ v.cwin[w].state = "Normal"
            /\ v.cwin[w].geom = s.cwin[w].geom /\ v.cwin[w].need_cfgntfy = s.cwin[w].need_cfgntfy
        <5>1. s \in States /\ "Normal" \in {"Normal", "Iconic", "Withdrawn"}
          BY <1>4
        <5>2. Tends(s, v, w) /\ v \in States /\ v.place = s.place
          BY <5>1, StateFacts
        <5>3. /\ v.cwin[w].state = "Normal" /\ v.cwin[w].geom = s.cwin[w].geom
              /\ v.cwin[w].need_cfgntfy = s.cwin[w].need_cfgntfy
          BY <5>1, StateFacts
        <5> HIDE DEF v
        <5> QED BY <5>2, <5>3
      <4>2. Final(s, w).x.exists => Restated(Final(s, w).x, Final(v, w).x)
        BY <1>4, StateFacts
      <4> HIDE DEF v
      <4> QED BY <3>1, <4>1, <4>2 DEF v
    <3>3. Tends(t, s, w)
      BY <1>1, <1>4, TendsTwice
    <3>4. Tends(t, h, w)
      BY <1>4, <3>2, <3>3, TendsTwice
    <3>5. y.exists = z.exists
      BY <1>4, <3>2, ServesThere DEF Tends
    <3> HIDE DEF z, y
    <3>6. y.exists => y.mapped = TRUE /\ (acrobatic => y.away = FALSE)
      BY <1>1, <1>4, <1>5, <3>2, <3>5 DEF z, Restated
    <3> QED BY <1>1, <1>4, <3>2, <3>4, <3>6
  <2> QED BY <2>1, <2>2
<1>7. u = [h EXCEPT !.cwin[w].mapped = TRUE] /\ TRUE \in BOOLEAN
  BY DEF clientwin_map, h
<1> HIDE DEF u, y
<1>8. /\ Tends(h, u, w) /\ u \in States /\ d.mapped = TRUE /\ d.state = h.cwin[w].state
      /\ d.geom = h.cwin[w].geom /\ d.need_cfgntfy = h.cwin[w].need_cfgntfy
      /\ u.place = h.place /\ Final(u, w) = Final(h, w)
  BY <1>6, <1>7, MarkFacts
<1>9. Tends(t, u, w)
  BY <1>6, <1>8, TendsTwice
<1>10. Visible(u, w)
  <2>1. u.prop = t.prop
    BY <1>9 DEF Tends, Serves, Aside
  <2>2. CASE acrobatic
    BY <1>6, <1>8, <2>1, <2>2 DEF Visible, y
  <2>3. CASE ~acrobatic
    BY <1>6, <1>8, <2>1, <2>3 DEF Visible, y
  <2> QED BY <2>2, <2>3
<1> QED BY <1>6, <1>8, <1>9, <1>10 DEF u

\* A window that comes into another one, and is told so.
LEMMA EnterFacts ==
  ASSUME NEW t \in States, NEW w \in Windows
  PROVE  LET v == sendconfig_clientwin(do_reparent_clientwin(t, w, "frame"), w)
             u == [v EXCEPT !.cwin[w].parent = "frame"]
             c == t.cwin[w]
             d == u.cwin[w]
             z == Final(t, w).x
             y == Final(u, w).x
         IN /\ Tends(t, u, w) /\ u \in States /\ u.place = t.place /\ d.mapped = c.mapped
            /\ d.state = c.state /\ d.geom = c.geom /\ d.need_cfgntfy = c.need_cfgntfy
            /\ z.exists => /\ y.parent = "frame" /\ y.away = z.away /\ y.mapped = z.mapped
                           /\ ~Final(u, w).asked
<1> DEFINE r == <<"reparent", w, "frame">>
           a == Masked(t, w, <<r>>)
           n == <<"notify", w>>
           v == Masked(a, w, <<n>>)
           u == [v EXCEPT !.cwin[w].parent = "frame"]
<1>1. sendconfig_clientwin(do_reparent_clientwin(t, w, "frame"), w) = v
  BY DEF sendconfig_clientwin, do_reparent_clientwin
<1>2. /\ r \in Requests /\ r[2] = w /\ r[1] = "reparent" /\ r[3] = "frame"
      /\ n \in Requests /\ n[2] = w /\ n[1] = "notify"
  BY RequestTypes
<1> HIDE DEF r, n
<1>3. /\ Tends(t, a, w) /\ a \in States /\ a.cwin = t.cwin /\ a.place = t.place
      /\ Final(a, w).x.exists = Final(t, w).x.exists /\ Behind(t, a, w, r)
  BY <1>2, MaskedTends
<1> HIDE DEF a
<1>4. /\ Tends(a, v, w) /\ v \in States /\ v.cwin = a.cwin /\ v.place = a.place
      /\ Final(v, w).x.exists = Final(a, w).x.exists /\ Behind(a, v, w, n)
  BY <1>2, <1>3, MaskedTends
<1> HIDE DEF v
<1>5. LET d == u.cwin[w]
          c == v.cwin[w]
      IN /\ Tends(v, u, w) /\ u \in States /\ d.mapped = c.mapped /\ d.state = c.state
         /\ d.geom = c.geom /\ d.need_cfgntfy = c.need_cfgntfy /\ u.place = v.place
         /\ Final(u, w) = Final(v, w)
  BY <1>4, ParentFacts
<1> HIDE DEF u
<1>6. Tends(t, u, w)
  <2>1. Tends(t, v, w)
    BY <1>3, <1>4, TendsTwice
  <2> QED BY <1>5, <2>1, TendsTwice
<1> DEFINE z == Final(t, w).x
           y == Final(u, w).x
<1>7. z.exists => /\ y.parent = "frame" /\ y.away = z.away /\ y.mapped = z.mapped
                  /\ ~Final(u, w).asked
  BY <1>2, <1>3, <1>4, <1>5 DEF Behind
<1> HIDE DEF z, y
<1>8. LET c == t.cwin[w]
          d == u.cwin[w]
      IN /\ u.place = t.place /\ d.mapped = c.mapped /\ d.state = c.state /\ d.geom = c.geom
         /\ d.need_cfgntfy = c.need_cfgntfy
  BY <1>3, <1>4, <1>5
<1> QED BY <1>1, <1>5, <1>6, <1>7, <1>8 DEF u, y, z

\* What a resize makes of a window
Resized(t, u, w, g, b) ==
  LET c == t.cwin[w]
      d == u.cwin[w]
      z == Final(t, w).x
      y == Final(u, w).x
  IN /\ u.place = t.place /\ d.mapped = c.mapped /\ d.state = c.state /\ d.geom = g
     /\ z.exists => y.parent = z.parent /\ y.away = b /\ y.mapped = z.mapped

\* A window that is resized: what is kept of it, then the window, which
\* answers its client if the size was another.
LEMMA ResizeFacts ==
  ASSUME NEW t \in States, NEW w \in Windows, NEW g \in Geoms, NEW b \in BOOLEAN,
         (Final(t, w).x.exists => ~Final(t, w).asked) \/ t.cwin[w].geom # g
  PROVE  LET v == [t EXCEPT !.cwin[w].geom = g, !.cwin[w].need_cfgntfy = FALSE]
             u == Send(v, w, <<<<"resize", w, g>>, <<"move", w, b>>>>)
         IN Tends(t, u, w) /\ u \in States /\ Resized(t, u, w, g, b)
<1> DEFINE c == t.cwin[w]
           k == [c EXCEPT !.geom = g, !.need_cfgntfy = FALSE]
           v == Kept(t, w, k)
           r == <<"resize", w, g>>
           m == <<"move", w, b>>
           a == Ask(v, r)
           u == Ask(a, m)
           f == Final(t, w)
           f1 == Final(a, w)
           f2 == Final(u, w)
<1>1. /\ k \in CWins /\ k.managed = c.managed /\ k.state = c.state /\ k.mapped = c.mapped
      /\ k.geom = g /\ k.orig_bw = c.orig_bw
  <2> DEFINE P(bb) == LET h == [c EXCEPT !.geom = g, !.need_cfgntfy = bb]
                      IN /\ h \in CWins /\ h.managed = c.managed /\ h.state = c.state
                         /\ h.mapped = c.mapped /\ h.geom = g /\ h.orig_bw = c.orig_bw
  <2>1. c \in CWins
    BY Fields
  <2>2. \A bb \in BOOLEAN : P(bb)
    BY <2>1 DEF CWins
  <2>3. P(FALSE)
    <3> HIDE DEF P
    <3> QED BY <2>2
  <2> QED BY <2>3
<1>2. [t EXCEPT !.cwin[w].geom = g, !.cwin[w].need_cfgntfy = FALSE] = v
  BY DEF Kept
<1>3. /\ r \in Requests /\ r[2] = w /\ r[1] = "resize" /\ r[3] = g
      /\ m \in Requests /\ m[2] = w /\ m[1] = "move" /\ m[3] = b
  BY RequestTypes
<1> HIDE DEF k, r, m
<1>4. /\ Serves(t, v, w) /\ v \in States /\ v.cwin[w] = k /\ v.place = t.place
      /\ Final(v, w) = f /\ (Good(t, w) => Good(v, w))
  BY <1>1, KeptFacts
<1> HIDE DEF v
<1>5. /\ Serves(v, a, w) /\ a \in States /\ a.cwin = v.cwin /\ a.place = v.place
      /\ f1.x.exists = Final(v, w).x.exists
      /\ Final(v, w).x.exists => Parts(Final(v, w), f1, r) /\ Answers(Final(v, w), f1, r)
      /\ Good(v, w) => Good(a, w)
  BY <1>3, <1>4, AskParts
<1> HIDE DEF a
<1>6. /\ Serves(a, u, w) /\ u \in States /\ u.cwin = a.cwin /\ u.place = a.place
      /\ f2.x.exists = f1.x.exists
      /\ f1.x.exists => Parts(f1, f2, m) /\ Answers(f1, f2, m)
      /\ Good(a, w) => Good(u, w)
  BY <1>3, <1>5, AskParts
<1>7. Serves(t, u, w)
  BY <1>4, <1>5, <1>6, ServesTwice
<1>8. Send(v, w, <<r, m>>) = u
  BY <1>3, <1>4, SendTwo DEF a
<1> DEFINE z == f.x
           y == f2.x
<1> HIDE DEF u, f, f1, f2
<1>9. z.exists =>
        /\ y.exists /\ y.sel = z.sel /\ y.saved = z.saved /\ y.parent = z.parent
        /\ y.border = z.border /\ y.geom = g /\ y.mapped = z.mapped
        /\ y.away = b /\ y.state = z.state
  BY <1>3, <1>4, <1>5, <1>6 DEF Parts
<1>10. z.exists /\ g # z.geom => f2.asked = FALSE
  BY <1>3, <1>4, <1>5, <1>6 DEF Answers
<1>11. u.cwin[w] = k /\ y.exists = z.exists /\ (f2.asked => f.asked)
  BY <1>4, <1>5, <1>6, <1>7 DEF Serves, f, f2
<1>12. Held(t, w) => Held(u, w)
  BY <1>1, <1>4, <1>5, <1>6, <1>9, <1>11 DEF Held, f, f2
<1>13. Held(t, w) /\ z.exists => ~f2.asked
  BY <1>10, <1>11 DEF Held, f
<1>14. Tends(t, u, w)
  BY <1>1, <1>7, <1>9, <1>11, <1>12, <1>13 DEF Tends, f, f2
<1>15. Resized(t, u, w, g, b)
  BY <1>1, <1>4, <1>5, <1>6, <1>9 DEF Resized, f, f2
<1> QED BY <1>2, <1>6, <1>8, <1>14, <1>15 DEF r, m

\* What a fitted window is
Fitted(t, u, w, np, g) ==
  LET c == t.cwin[w]
      d == u.cwin[w]
      z == Final(t, w).x
      y == Final(u, w).x
  IN /\ u.place = t.place /\ d.mapped = c.mapped /\ d.state = c.state
     /\ ~(c.state = "Iconic" /\ t.prop[w] = "lazy") => d.geom = g
     /\ np = TRUE /\ z.exists => y.parent = "frame" /\ ~Final(u, w).asked
     /\ Visible(t, w) => Visible(u, w)
\* A window that is fitted: in the frame, if it comes to another, and of the
\* size asked for, if that is not put off.
LEMMA FitrepFacts ==
  ASSUME NEW t \in States, NEW w \in Windows, NEW np \in BOOLEAN, NEW g \in Geoms
  PROVE  LET u == clientwin_fitrep(t, w, np, g)
         IN Tends(t, u, w) /\ u \in States /\ Fitted(t, u, w, np, g)
<1> DEFINE f == clientwin_fitrep(t, w, np, g)
           e == LET v == sendconfig_clientwin(do_reparent_clientwin(t, w, "frame"), w)
                IN [v EXCEPT !.cwin[w].parent = "frame"]
           u == IF ~np THEN t ELSE e
           away == u.prop[w] = "acrobatic" /\ ~u.cwin[w].mapped
           c == t.cwin[w]
           z == Final(t, w).x
<1>1. f = IF (~np /\ c.geom = g) \/ postpone_resize(u, w) THEN u
          ELSE Send([u EXCEPT !.cwin[w].geom = g, !.cwin[w].need_cfgntfy = FALSE],
                    w, <<<<"resize", w, g>>, <<"move", w, away>>>>)
  BY DEF clientwin_fitrep
<1>2. LET d == u.cwin[w]
          y == Final(u, w).x
      IN /\ Tends(t, u, w) /\ u \in States /\ u.place = t.place /\ d.mapped = c.mapped
         /\ d.state = c.state /\ d.geom = c.geom
         /\ z.exists => y.away = z.away /\ y.mapped = z.mapped
         /\ np /\ z.exists => y.parent = "frame" /\ ~Final(u, w).asked
  <2>1. CASE np
    <3>1. u = e
      BY <2>1
    <3> QED BY <2>1, <3>1, EnterFacts
  <2>2. CASE ~np
    <3>1. u = t
      BY <2>2
    <3>2. Tends(t, t, w)
      BY ServesNot DEF Tends
    <3> HIDE DEF u
    <3> QED BY <2>2, <3>1, <3>2
  <2> QED BY <2>1, <2>2
<1> HIDE DEF u
<1>3. u.prop = t.prop /\ Final(u, w).x.exists = z.exists /\ (\A k : Has(u, k, w) = Has(t, k, w))
  BY <1>2, ServesThere DEF Tends, Serves, Aside, Has
<1> DEFINE d == f.cwin[w]
           y == Final(f, w).x
<1>4. CASE (~np /\ c.geom = g) \/ postpone_resize(u, w)
  <2>1. f = u
    BY <1>1, <1>4
  <2>2. ~(c.state = "Iconic" /\ t.prop[w] = "lazy") => d.geom = g
    BY <1>2, <1>3, <1>4, <2>1 DEF postpone_resize
  <2>3. Visible(t, w) => Visible(f, w)
    <3> HIDE DEF f, z, c
    <3> QED BY <1>2, <1>3, <2>1 DEF Visible, z, c
  <2> HIDE DEF f
  <2> QED BY <1>2, <2>1, <2>2, <2>3 DEF f, Fitted
<1>5. CASE ~((~np /\ c.geom = g) \/ postpone_resize(u, w))
  <2>1. f = Send([u EXCEPT !.cwin[w].geom = g, !.cwin[w].need_cfgntfy = FALSE],
                 w, <<<<"resize", w, g>>, <<"move", w, away>>>>)
    BY <1>1, <1>5
  <2>2. (Final(u, w).x.exists => ~Final(u, w).asked) \/ u.cwin[w].geom # g
    BY <1>2, <1>3, <1>5
  <2>3. away \in BOOLEAN
    OBVIOUS
  <2> DEFINE zz == Final(u, w).x
  <2> HIDE DEF f, away
  <2>4. /\ Tends(u, f, w) /\ f \in States /\ f.place = u.place /\ d.mapped = u.cwin[w].mapped
        /\ d.state = u.cwin[w].state /\ d.geom = g
        /\ zz.exists => y.parent = zz.parent /\ y.away = away /\ y.mapped = zz.mapped
    <3>1. Tends(u, f, w) /\ f \in States /\ Resized(u, f, w, g, away)
      BY <1>2, <2>1, <2>2, <2>3, ResizeFacts
    <3> QED BY <3>1 DEF Resized
  <2>5. Tends(t, f, w)
    BY <1>2, <2>4, TendsTwice
  <2>6. Visible(t, w) => Visible(f, w)
    <3>1. f.prop = t.prop /\ y.exists = z.exists /\ (\A k : Has(f, k, w) = Has(t, k, w))
      BY <2>4, <2>5, ServesThere DEF Tends, Serves, Aside, Has
    <3>2. away = (t.prop[w] = "acrobatic" /\ ~c.mapped)
      BY <1>2, <1>3 DEF away
    <3> HIDE DEF y, z, c, d, zz
    <3> QED BY <1>2, <1>3, <2>4, <3>1, <3>2 DEF Visible, y, z, c, d, zz
  <2>7. np = TRUE /\ z.exists => y.parent = "frame" /\ ~Final(f, w).asked
    <3>1. Final(f, w).asked => Final(u, w).asked
      BY <2>4 DEF Tends, Serves
    <3> QED BY <1>2, <1>3, <2>4, <3>1
  <2> QED BY <1>2, <2>4, <2>5, <2>6, <2>7 DEF f, Fitted
<1> QED BY <1>4, <1>5

\* As ioncore has it, and if it is shown of the size of its place
Shows(t, w) == Visible(t, w) /\ (t.cwin[w].mapped => t.cwin[w].geom = t.place[w])

\* A place is given to a window before the window is fitted into it.
LEMMA PlaceFacts ==
  ASSUME NEW t \in States, NEW w \in Windows, NEW g \in Geoms
  PROVE  LET u == [t EXCEPT !.place[w] = g]
         IN /\ Tends(t, u, w) /\ u \in States /\ u.cwin = t.cwin /\ u.place[w] = g
            /\ Final(u, w) = Final(t, w) /\ (Visible(t, w) => Visible(u, w))
<1> DEFINE u == [t EXCEPT !.place[w] = g]
<1>1. /\ u \in States /\ u.cwin = t.cwin /\ u.place[w] = g /\ u.out = t.out /\ Aside(t, u)
      /\ \A v \in Windows : v # w => u.place[v] = t.place[v]
  BY DEF States, Aside
<1> HIDE DEF u
<1>2. \A v : Leaves(t, u, v) /\ Final(u, v) = Final(t, v) /\ Fine(u, v) = Fine(t, v) /\ Unseen(u, v) = Unseen(t, v)
  BY <1>1, Depends DEF Aside
<1>3. Serves(t, u, w)
  BY <1>1, <1>2 DEF Serves
<1>4. Held(t, w) => Held(u, w)
  BY <1>1, <1>2 DEF Held, Good
<1>5. Tends(t, u, w)
  BY <1>1, <1>2, <1>3, <1>4 DEF Tends
<1>6. (Visible(t, w) => Visible(u, w))
  BY <1>1, <1>2 DEF Visible, Aside, Has
<1> QED BY <1>1, <1>2, <1>5, <1>6 DEF u

\* A window that is shown and fitted shows as ioncore has it.
LEMMA DisplayFacts ==
  ASSUME NEW t \in States, NEW w \in Windows
  PROVE  LET u == Display(t, w)
         IN Tends(t, u, w) /\ u \in States /\ u.place = t.place /\ Shows(u, w)
<1> DEFINE m == clientwin_map(t, w)
           g == t.place[w]
           u == clientwin_fitrep(m, w, FALSE, g)
<1>1. /\ Tends(t, m, w) /\ m \in States /\ m.place = t.place /\ Visible(m, w)
      /\ m.cwin[w].mapped = TRUE
  BY MapFacts
<1>2. Display(t, w) = u
  BY DEF Display
<1>3. g \in Geoms /\ FALSE \in BOOLEAN
  BY Fields
<1> HIDE DEF m
<1>4. Tends(m, u, w) /\ u \in States /\ Fitted(m, u, w, FALSE, g)
  BY <1>1, <1>3, FitrepFacts
<1> HIDE DEF u
<1>5. Tends(t, u, w)
  BY <1>1, <1>4, TendsTwice
<1>6. ~(m.cwin[w].state = "Iconic" /\ m.prop[w] = "lazy")
  BY <1>1 DEF Visible
<1>7. u.cwin[w].geom = g /\ Visible(u, w) /\ u.place = t.place
  BY <1>1, <1>4, <1>6 DEF Fitted
<1> QED BY <1>2, <1>4, <1>5, <1>7 DEF Shows, u

\* So does one that is given another place, if it did.
LEMMA RefitFacts ==
  ASSUME NEW t \in States, NEW w \in Windows, NEW g \in Geoms
  PROVE  LET u == clientwin_fitrep([t EXCEPT !.place[w] = g], w, FALSE, g)
         IN Tends(t, u, w) /\ u \in States /\ (Visible(t, w) => Shows(u, w))
<1> DEFINE p == [t EXCEPT !.place[w] = g]
           u == clientwin_fitrep(p, w, FALSE, g)
<1>1. /\ Tends(t, p, w) /\ p \in States /\ p.cwin = t.cwin /\ p.place[w] = g
      /\ (Visible(t, w) => Visible(p, w))
  BY PlaceFacts
<1>2. FALSE \in BOOLEAN
  OBVIOUS
<1> HIDE DEF p
<1>3. Tends(p, u, w) /\ u \in States /\ Fitted(p, u, w, FALSE, g)
  BY <1>1, <1>2, FitrepFacts
<1> HIDE DEF u
<1>4. Tends(t, u, w)
  BY <1>1, <1>3, TendsTwice
<1>5. ASSUME Visible(p, w) PROVE Shows(u, w)
  <2>1. p.cwin[w].mapped => ~(p.cwin[w].state = "Iconic" /\ p.prop[w] = "lazy")
    BY <1>5 DEF Visible
  <2> QED BY <1>1, <1>3, <1>5, <2>1 DEF Fitted, Shows
<1> QED BY <1>1, <1>3, <1>4, <1>5 DEF u, p

\* And so does one that is attached, which comes into the frame.
LEMMA AttachFacts ==
  ASSUME NEW t \in States, NEW w \in Windows, NEW g \in Geoms, NEW shown \in BOOLEAN
  PROVE  LET u == AttachTo(t, w, g, shown)
         IN /\ Tends(t, u, w) /\ u \in States /\ Shows(u, w)
            /\ Final(t, w).x.exists => Final(u, w).x.parent = "frame" /\ ~Final(u, w).asked
<1> DEFINE f == clientwin_fitrep(t, w, TRUE, g)
           p == [f EXCEPT !.place[w] = g]
           u == IF shown THEN Display(p, w) ELSE clientwin_unmap(p, w)
<1>1. AttachTo(t, w, g, shown) = u
  BY DEF AttachTo
<1>2. TRUE \in BOOLEAN
  OBVIOUS
<1>3. Tends(t, f, w) /\ f \in States /\ Fitted(t, f, w, TRUE, g)
  BY <1>2, FitrepFacts
<1> HIDE DEF f
<1>4. Tends(f, p, w) /\ p \in States /\ Final(p, w) = Final(f, w)
  BY <1>3, PlaceFacts
<1> HIDE DEF p
<1>5. Tends(p, u, w) /\ u \in States /\ Shows(u, w)
  <2>1. CASE shown
    <3>1. u = Display(p, w)
      BY <2>1
    <3> QED BY <1>4, <3>1, DisplayFacts
  <2>2. CASE ~shown
    <3>1. u = clientwin_unmap(p, w)
      BY <2>2
    <3> QED BY <1>4, <3>1, UnmapFacts DEF Shows
  <2> QED BY <2>1, <2>2
<1> HIDE DEF u
<1>6. Tends(f, u, w) /\ Tends(t, u, w)
  BY <1>3, <1>4, <1>5, TendsTwice
<1>7. ASSUME Final(t, w).x.exists PROVE Final(u, w).x.parent = "frame" /\ ~Final(u, w).asked
  <2>1. Final(f, w).x.parent = "frame" /\ ~Final(f, w).asked
    BY <1>3, <1>7 DEF Fitted
  <2>2. Final(f, w).x.exists
    BY <1>3, <1>7, ServesThere DEF Tends
  <2> QED BY <1>6, <2>1, <2>2 DEF Tends, Serves
<1> QED BY <1>1, <1>5, <1>6, <1>7

-----------------------------------------------------------------------------
(* How a window comes to be managed, and how it is left *)

\* Only a is dealt with, and what the handler waits for may be something else
Deals(t, u, a) ==
  /\ u \in States
  /\ u.x = t.x /\ u.ev = t.ev /\ u.wm = t.wm /\ u.prop = t.prop /\ u.icon = t.icon
  /\ u.tmpwins = t.tmpwins /\ u.kept = t.kept /\ u.crashed = t.crashed
  /\ u.wants = t.wants /\ u.asked = t.asked
  /\ \A v \in Windows : v # a => /\ u.cwin[v] = t.cwin[v] /\ u.place[v] = t.place[v]
                                 /\ (v \in u.refused <=> v \in t.refused) /\ Leaves(t, u, v)
  /\ Final(u, a).asked => Final(t, a).asked

\* To serve a window is to deal with it ...
LEMMA ServesDeals ==
  ASSUME NEW t, NEW u, NEW a, Serves(t, u, a)
  PROVE  Deals(t, u, a) /\ u.pc = t.pc /\ u.twice = t.twice /\ u.refused = t.refused
BY DEF Serves, Aside, Deals

\* ... and to deal with it twice.
LEMMA DealsTwice ==
  ASSUME NEW t, NEW u, NEW s, NEW a, Deals(t, u, a), Deals(u, s, a)
  PROVE  Deals(t, s, a)
<1>1. ASSUME NEW v \in Windows, v # a
      PROVE  /\ s.cwin[v] = t.cwin[v] /\ s.place[v] = t.place[v]
             /\ (v \in s.refused <=> v \in t.refused) /\ Leaves(t, s, v)
  <2>1. Leaves(t, u, v) /\ Leaves(u, s, v)
    BY <1>1 DEF Deals
  <2>2. Leaves(t, s, v)
    BY <2>1 DEF Leaves
  <2> QED BY <1>1, <2>2 DEF Deals
<1>2. Final(s, a).asked => Final(t, a).asked
  BY DEF Deals
<1> QED BY <1>1, <1>2 DEF Deals

\* The handler goes on, or is done.
LEMMA PcFacts ==
  ASSUME NEW t \in States, NEW a \in Windows, NEW p \in Pcs
  PROVE  LET u == [t EXCEPT !.pc = p]
         IN /\ Deals(t, u, a) /\ u \in States /\ u.pc = p /\ u.twice = t.twice /\ u.refused = t.refused
            /\ u.cwin = t.cwin /\ u.place = t.place /\ u.out = t.out
            /\ Final(u, a) = Final(t, a) /\ (Good(t, a) => Good(u, a))
            /\ \A K : Only(t, a, K) => Only(u, a, K)
<1> DEFINE u == [t EXCEPT !.pc = p]
<1>1. /\ u \in States /\ u.pc = p /\ u.cwin = t.cwin /\ u.place = t.place /\ u.out = t.out
      /\ u.x = t.x /\ u.ev = t.ev /\ u.wm = t.wm /\ u.prop = t.prop /\ u.icon = t.icon
      /\ u.tmpwins = t.tmpwins /\ u.kept = t.kept /\ u.refused = t.refused /\ u.twice = t.twice
      /\ u.crashed = t.crashed /\ u.wants = t.wants /\ u.asked = t.asked
  BY DEF States
<1> HIDE DEF u
<1>2. \A v : /\ Leaves(t, u, v) /\ Final(u, v) = Final(t, v) /\ Fine(u, v) = Fine(t, v)
             /\ Unseen(u, v) = Unseen(t, v)
  BY <1>1, Depends
<1>3. \A K : Only(t, a, K) => Only(u, a, K)
  BY <1>1 DEF Only
<1> QED BY <1>1, <1>2, <1>3 DEF u, Deals, Good

\* A request, done, with all that comes of it
Asked(t, u, w, r) ==
  LET z == Final(t, w).x
      y == Final(u, w).x
  IN /\ Serves(t, u, w) /\ u \in States /\ u.cwin = t.cwin /\ u.place = t.place
     /\ y.exists = z.exists
     /\ z.exists => Parts(Final(t, w), Final(u, w), r) /\ Answers(Final(t, w), Final(u, w), r)
     /\ /\ Good(t, w) /\ (y.exists /\ y.parent = "frame" => y.saved)
        /\ r[1] \in {"unmap", "reparent"} => ~z.sel \/ ~z.exists
        => Good(u, w)
     /\ \A K : Only(t, w, K) /\ r[1] \in K => Only(u, w, K)

\* To ask for something does that.
LEMMA AskDone ==
  ASSUME NEW t \in States, NEW w \in Windows, NEW r \in Requests, r[2] = w
  PROVE  Asked(t, Ask(t, r), w, r)
<1> DEFINE u == Ask(t, r)
<1>1. /\ Serves(t, u, w) /\ u \in States /\ u.cwin = t.cwin /\ u.place = t.place
      /\ Final(u, w).x.exists = Final(t, w).x.exists
      /\ Final(t, w).x.exists => /\ Parts(Final(t, w), Final(u, w), r)
                                 /\ Answers(Final(t, w), Final(u, w), r)
  BY AskParts
<1>2. LET z == Final(t, w).x
          y == Final(u, w).x
      IN /\ /\ Good(t, w) /\ (y.exists /\ y.parent = "frame" => y.saved)
            /\ r[1] \in {"unmap", "reparent"} => ~Single(t, w) \/ ~z.sel \/ ~z.exists
            => Good(u, w)
         /\ \A K : Only(t, w, K) /\ r[1] \in K => Only(u, w, K)
  BY AskFacts
<1> HIDE DEF u
<1> QED BY <1>1, <1>2 DEF Asked, u

\* What is not asked for does not change.
LEMMA OnlyKeeps ==
  ASSUME NEW t \in States, NEW w \in Windows, Only(t, w, {"select", "saveset"}),
         NEW n \in 0 .. Len(t.out)
  PROVE  LET z == Trace(t, w)[n].x
             x == t.x[w]
         IN /\ z.exists = x.exists /\ z.mapped = x.mapped /\ z.parent = x.parent /\ z.state = x.state
            /\ z.border = x.border /\ z.geom = x.geom /\ z.away = x.away
<1> DEFINE f == Trace(t, w)
           x == t.x[w]
           Like(z) == /\ z.exists = x.exists /\ z.mapped = x.mapped /\ z.parent = x.parent
                      /\ z.state = x.state /\ z.border = x.border /\ z.geom = x.geom
                      /\ z.away = x.away
           P == {k \in 0 .. Len(t.out) : Like(f[k].x)}
<1>1. t.out \in Seq(Requests) /\ Len(t.out) \in Nat
  BY Fields
<1>2. f[0].x = x
  <2>1. f[0] = Now(t, w)
    BY TraceFacts
  <2> QED BY <2>1 DEF Now
<1>3. \A k \in 0 .. Len(t.out) : f[k] \in Seen
  BY TraceFacts
<1>4. \A k \in 1 .. Len(t.out) : f[k] = Step(f[k - 1], w, t.out[k])
  <2>1. 0 \in 0 .. Len(t.out)
    BY <1>1
  <2> QED BY <2>1, TraceFacts
<1> HIDE DEF f, x
<1>5. 0 \in P
  BY <1>1, <1>2
<1>6. ASSUME NEW k \in 1 .. Len(t.out), k - 1 \in P PROVE k \in P
  <2> DEFINE r == t.out[k]
             y == f[k - 1]
  <2>1. r \in Requests /\ y \in Seen /\ f[k] = Step(y, w, r) /\ k \in 0 .. Len(t.out)
    BY <1>1, <1>3, <1>4
  <2>2. Like(y.x)
    BY <1>6
  <2>3. r[2] = w => r[1] \in {"select", "saveset"}
    <3>1. k \in DOMAIN t.out
      BY <1>1
    <3> QED BY <3>1 DEF Only
  <2>4. CASE r[2] # w \/ ~y.x.exists
    <3>1. f[k] = y
      BY <2>1, <2>4 DEF Step
    <3> QED BY <2>1, <2>2, <3>1
  <2>5. CASE ~(r[2] # w \/ ~y.x.exists)
    <3> HIDE DEF r, y, P, Like
    <3>1. Parts(y, f[k], r)
      BY <2>1, <2>5, StepFields
    <3>2. f[k].x.exists = y.x.exists
      BY <2>1, StepType
    <3>3. Like(f[k].x)
      BY <2>2, <2>3, <2>5, <3>1, <3>2 DEF Parts, Like
    <3> QED BY <2>1, <3>3 DEF P
  <2> QED BY <2>4, <2>5
<1>7. n \in P
  <2> HIDE DEF P
  <2> QED BY <1>1, <1>5, <1>6, UpTo
<1> QED BY <1>7 DEF f, x

\* What is kept of a new window
NewKept(k, b, g, o) ==
  /\ k \in CWins /\ k.managed = b /\ k.orig_bw = o /\ k.state = "Withdrawn"
  /\ k.mapped = FALSE /\ k.geom = g /\ k.parent = "root"

\* A window that is not managed, as it is kept, and one that is created.
LEMMA NewTypes ==
  ASSUME NEW b \in BOOLEAN, NEW g \in Geoms, NEW o \in BOOLEAN
  PROVE  /\ NotManaged \in CWins /\ NotManaged.managed = FALSE /\ NotManaged.need_cfgntfy = FALSE
         /\ NewKept([NotManaged EXCEPT !.managed = b, !.geom = g, !.orig_bw = o], b, g, o)
<1>1. /\ NotManaged \in CWins /\ NotManaged.state = "Withdrawn" /\ NotManaged.mapped = FALSE
      /\ NotManaged.parent = "root" /\ NotManaged.managed = FALSE /\ NotManaged.need_cfgntfy = FALSE
  <2>1. NoGeom \in Geoms
    BY ClientAssumption DEF NoGeom
  <2> QED BY <2>1 DEF NotManaged, CWins
<1>2. \A n \in CWins : LET k == [n EXCEPT !.managed = b, !.geom = g, !.orig_bw = o]
                       IN /\ k \in CWins /\ k.managed = b /\ k.orig_bw = o /\ k.state = n.state
                          /\ k.mapped = n.mapped /\ k.geom = g /\ k.parent = n.parent
  BY DEF CWins
<1> DEFINE k == [NotManaged EXCEPT !.managed = b, !.geom = g, !.orig_bw = o]
<1>3. /\ k \in CWins /\ k.managed = b /\ k.orig_bw = o /\ k.state = NotManaged.state
      /\ k.mapped = NotManaged.mapped /\ k.geom = g /\ k.parent = NotManaged.parent
  BY <1>1, <1>2
<1> HIDE DEF k
<1> QED BY <1>1, <1>3 DEF k, NewKept

\* A window that is created: kept as it is, and held
Created(t, u, w) ==
  LET c == u.cwin[w]
      z == Final(t, w).x
      y == Final(u, w).x
  IN /\ c.managed = TRUE /\ c.orig_bw = t.x[w].border /\ c.state = "Withdrawn" /\ c.mapped = FALSE
     /\ c.geom = t.x[w].geom /\ Held(u, w) /\ u.place = t.place
     /\ z.exists => y.exists /\ y.parent = z.parent

\* create_clientwin does this of one that was only selected.
LEMMA CreateFacts ==
  ASSUME NEW t \in States, NEW w \in Windows, ~t.cwin[w].managed, Good(t, w),
         Only(t, w, {"select"})
  PROVE  LET u == create_clientwin(t, w)
         IN /\ Deals(t, u, w) /\ u \in States /\ u.pc = t.pc /\ u.twice = t.twice
            /\ u.refused = t.refused /\ Created(t, u, w)
<1> DEFINE x == t.x[w]
           k == [NotManaged EXCEPT !.managed = TRUE, !.geom = x.geom, !.orig_bw = x.border]
           v == Kept(t, w, k)
           r1 == <<"border", w, FALSE>>
           r2 == <<"select", w, TRUE>>
           r3 == <<"saveset", w, TRUE>>
           a == Ask(v, r1)
           b == Ask(a, r2)
           u == Ask(b, r3)
<1>1. x \in XWindows /\ t.cwin[w] \in CWins /\ t.twice \in BOOLEAN
  BY Fields
<1>2. /\ k \in CWins /\ k.managed = TRUE /\ k.orig_bw = x.border /\ k.state = "Withdrawn"
      /\ k.mapped = FALSE /\ k.geom = x.geom
  <2>1. x.geom \in Geoms /\ x.border \in BOOLEAN /\ TRUE \in BOOLEAN
    BY <1>1 DEF XWindows
  <2>2. NewKept(k, TRUE, x.geom, x.border)
    BY <2>1, NewTypes
  <2> HIDE DEF k
  <2> QED BY <2>2 DEF NewKept
<1> HIDE DEF k
<1>3. [t EXCEPT !.cwin[w] = k, !.twice = @ \/ t.cwin[w].managed] = v
  <2>1. (t.twice \/ t.cwin[w].managed) = t.twice
    BY <1>1
  <2> QED BY <2>1 DEF Kept, States
<1>4. /\ Serves(t, v, w) /\ v \in States /\ v.cwin[w] = k /\ v.place = t.place
      /\ v.out = t.out /\ Final(v, w) = Final(t, w) /\ (Good(t, w) => Good(v, w))
  BY <1>2, KeptFacts
<1>5. /\ r1 \in Requests /\ r1[2] = w /\ r1[1] = "border" /\ r1[3] = FALSE
      /\ r2 \in Requests /\ r2[2] = w /\ r2[1] = "select" /\ r2[3] = TRUE
      /\ r3 \in Requests /\ r3[2] = w /\ r3[1] = "saveset" /\ r3[3] = TRUE
  BY RequestTypes
<1> HIDE DEF v, r1, r2, r3
<1>6. create_clientwin(t, w) = u
  <2>1. create_clientwin(t, w) = Send(v, w, <<r1, r2, r3>>)
    BY <1>3 DEF create_clientwin, k, r1, r2, r3
  <2> QED BY <1>4, <1>5, <2>1, SendThree
<1>7. Asked(v, a, w, r1)
  BY <1>4, <1>5, AskDone
<1>8. a \in States
  BY <1>7 DEF Asked
<1> HIDE DEF a
<1>9. Asked(a, b, w, r2)
  BY <1>5, <1>8, AskDone
<1>10. b \in States
  BY <1>9 DEF Asked
<1> HIDE DEF b
<1>11. Asked(b, u, w, r3)
  BY <1>5, <1>10, AskDone
<1> HIDE DEF u
<1>12. Serves(t, u, w)
  <2>1. Serves(v, a, w) /\ Serves(a, b, w) /\ Serves(b, u, w)
    BY <1>7, <1>9, <1>11 DEF Asked
  <2>2. Serves(t, a, w)
    BY <1>4, <2>1, ServesTwice
  <2>3. Serves(t, b, w)
    BY <2>1, <2>2, ServesTwice
  <2> QED BY <2>1, <2>3, ServesTwice
<1> DEFINE z == Final(t, w).x
           za == Final(a, w).x
           zb == Final(b, w).x
           y == Final(u, w).x
<1>13. z.geom = x.geom
  <2>1. Len(t.out) \in 0 .. Len(t.out) /\ Only(t, w, {"select", "saveset"})
    BY Fields DEF Only
  <2> QED BY <2>1, OnlyKeeps DEF Final
<1>14. za.exists = z.exists /\ zb.exists = z.exists /\ y.exists = z.exists /\ u.cwin[w] = k
       /\ u.place = t.place
  BY <1>4, <1>7, <1>9, <1>11 DEF Asked
<1>15. z.exists => /\ y.saved /\ y.sel /\ y.geom = x.geom /\ y.parent = z.parent
                   /\ za.saved = z.saved /\ za.parent = z.parent /\ zb.saved = z.saved
                   /\ zb.parent = z.parent
  <2> SUFFICES ASSUME z.exists PROVE /\ y.saved /\ y.sel /\ y.geom = x.geom /\ y.parent = z.parent
                                     /\ za.saved = z.saved /\ za.parent = z.parent
                                     /\ zb.saved = z.saved /\ zb.parent = z.parent
    OBVIOUS
  <2>1. Parts(Final(t, w), Final(a, w), r1)
    BY <1>4, <1>7 DEF Asked
  <2>2. Parts(Final(a, w), Final(b, w), r2)
    BY <1>9, <1>14 DEF Asked
  <2>3. Parts(Final(b, w), Final(u, w), r3)
    BY <1>11, <1>14 DEF Asked
  <2> QED BY <1>5, <1>13, <2>1, <2>2, <2>3 DEF Parts
<1>16. z.exists /\ z.parent = "frame" => z.saved
  BY FinalFine DEF Good
<1> HIDE DEF x, y, z, za, zb
<1>17. Good(u, w)
  <2>1. Good(a, w)
    BY <1>4, <1>5, <1>7, <1>14, <1>15, <1>16 DEF Asked, z, za
  <2>2. Good(b, w)
    BY <1>5, <1>9, <1>14, <1>15, <1>16, <2>1 DEF Asked, z, zb
  <2> QED BY <1>5, <1>11, <1>14, <1>15, <2>2 DEF Asked, y
<1>18. Held(u, w)
  BY <1>2, <1>14, <1>15, <1>17 DEF Held, y
<1>19. Created(t, u, w)
  BY <1>2, <1>14, <1>15, <1>18 DEF Created, x, y, z
<1>20. u \in States
  BY <1>12 DEF Serves
<1> QED BY <1>6, <1>12, <1>19, <1>20, ServesDeals DEF u

\* A window that is forgotten: neither watched nor in the save set
Forgotten(t, u, w) ==
  LET z == Final(t, w).x
      y == Final(u, w).x
  IN /\ u.cwin[w] = NotManaged /\ Good(u, w) /\ u.place = t.place
     /\ z.exists => /\ y.exists /\ y.saved = FALSE /\ y.sel = FALSE /\ y.parent = z.parent
                    /\ y.border = z.border

\* clientwin_destroyed does this of one that is not in a frame.
LEMMA DestroyedFacts ==
  ASSUME NEW t \in States, NEW w \in Windows, Good(t, w),
         LET z == Final(t, w).x IN z.exists => z.parent # "frame"
  PROVE  LET u == clientwin_destroyed(t, w)
         IN /\ Deals(t, u, w) /\ u \in States /\ u.pc = t.pc /\ u.twice = t.twice
            /\ u.refused = t.refused /\ Forgotten(t, u, w)
            /\ Only(t, w, {"select", "saveset"}) => Only(u, w, {"select", "saveset"})
<1> DEFINE r1 == <<"saveset", w, FALSE>>
           r2 == <<"select", w, FALSE>>
           a == Ask(t, r1)
           b == Ask(a, r2)
           u == Kept(b, w, NotManaged)
<1>1. /\ r1 \in Requests /\ r1[2] = w /\ r1[1] = "saveset" /\ r1[3] = FALSE
      /\ r2 \in Requests /\ r2[2] = w /\ r2[1] = "select" /\ r2[3] = FALSE
  BY RequestTypes
<1>2. NotManaged \in CWins
  <2>1. NoGeom \in Geoms /\ TRUE \in BOOLEAN
    BY ClientAssumption DEF NoGeom
  <2> QED BY <2>1, NewTypes
<1> HIDE DEF r1, r2
<1>3. Send(t, w, <<r1, r2>>) = b
  BY <1>1, SendTwo
<1>4. clientwin_destroyed(t, w) = u
  BY <1>3 DEF clientwin_destroyed, Kept, r1, r2
<1>5. Asked(t, a, w, r1)
  BY <1>1, AskDone
<1>6. a \in States
  BY <1>5 DEF Asked
<1> HIDE DEF a
<1>7. Asked(a, b, w, r2)
  BY <1>1, <1>6, AskDone
<1>8. b \in States
  BY <1>7 DEF Asked
<1> HIDE DEF b
<1>9. /\ Serves(b, u, w) /\ u \in States /\ u.cwin[w] = NotManaged /\ u.place = b.place
      /\ u.out = b.out /\ Final(u, w) = Final(b, w) /\ (Good(b, w) => Good(u, w))
  BY <1>2, <1>8, KeptFacts
<1> HIDE DEF u
<1>10. Serves(t, u, w)
  <2>1. Serves(t, a, w) /\ Serves(a, b, w)
    BY <1>5, <1>7 DEF Asked
  <2>2. Serves(t, b, w)
    BY <2>1, ServesTwice
  <2> QED BY <1>9, <2>2, ServesTwice
<1> DEFINE z == Final(t, w).x
           za == Final(a, w).x
           y == Final(b, w).x
<1>11. za.exists = z.exists /\ y.exists = z.exists /\ u.place = t.place
  BY <1>5, <1>7, <1>9 DEF Asked
<1>12. z.exists => /\ y.saved = FALSE /\ y.sel = FALSE /\ y.parent = z.parent
                   /\ y.border = z.border /\ za.parent = z.parent
  <2> SUFFICES ASSUME z.exists PROVE /\ y.saved = FALSE /\ y.sel = FALSE /\ y.parent = z.parent
                                     /\ y.border = z.border /\ za.parent = z.parent
    OBVIOUS
  <2>1. Parts(Final(t, w), Final(a, w), r1)
    BY <1>5 DEF Asked
  <2>2. Parts(Final(a, w), Final(b, w), r2)
    BY <1>7, <1>11 DEF Asked
  <2> QED BY <1>1, <2>1, <2>2 DEF Parts
<1>13. z.exists => z.parent # "frame"
  OBVIOUS
<1> HIDE DEF y, z, za
<1>14. Good(b, w)
  <2>1. Good(a, w)
    BY <1>1, <1>5, <1>11, <1>12, <1>13 DEF Asked, za
  <2> QED BY <1>1, <1>7, <1>11, <1>12, <1>13, <2>1 DEF Asked, y
<1>15. Forgotten(t, u, w)
  BY <1>9, <1>11, <1>12, <1>14 DEF Forgotten, y, z
<1>16. Only(t, w, {"select", "saveset"}) => Only(u, w, {"select", "saveset"})
  BY <1>1, <1>5, <1>7, <1>9 DEF Asked, Only
<1> QED BY <1>4, <1>9, <1>10, <1>15, <1>16, ServesDeals DEF u

\* A window that is to be left: hidden, its border its own again
Left(t, u, w) ==
  LET z == Final(t, w).x
      y == Final(u, w).x
  IN /\ u.cwin = t.cwin /\ Good(u, w) /\ u.place = t.place
     /\ z.exists => /\ y.exists /\ y.saved = z.saved /\ y.sel = FALSE /\ y.parent = z.parent
                    /\ y.geom = z.geom /\ y.state = z.state
                    /\ y.border = (IF t.cwin[w].orig_bw THEN TRUE ELSE z.border)

\* clientwin_deinit does this of one that is held.
LEMMA DeinitFacts ==
  ASSUME NEW t \in States, NEW w \in Windows, Held(t, w)
  PROVE  LET u == clientwin_deinit(t, w)
         IN /\ Deals(t, u, w) /\ u \in States /\ u.pc = <<"deinit", w>> /\ u.twice = t.twice
            /\ u.refused = t.refused /\ Left(t, u, w)
<1> DEFINE r1 == <<"select", w, FALSE>>
           r2 == <<"unmap", w>>
           r3 == <<"border", w, TRUE>>
           a == Ask(t, r1)
           b == Ask(a, r2)
           e == IF t.cwin[w].orig_bw THEN Ask(b, r3) ELSE b
           u == [e EXCEPT !.pc = <<"deinit", w>>]
<1>1. /\ r1 \in Requests /\ r1[2] = w /\ r1[1] = "select" /\ r1[3] = FALSE
      /\ r2 \in Requests /\ r2[2] = w /\ r2[1] = "unmap"
      /\ r3 \in Requests /\ r3[2] = w /\ r3[1] = "border" /\ r3[3] = TRUE
  BY RequestTypes
<1> HIDE DEF r1, r2, r3
<1>2. Send(t, w, <<r1, r2>> \o (IF t.cwin[w].orig_bw THEN <<r3>> ELSE <<>>)) = e
  <2>1. CASE t.cwin[w].orig_bw
    <3>1. <<r1, r2>> \o <<r3>> = <<r1, r2, r3>>
      BY <1>1, Together
    <3>2. Send(t, w, <<r1, r2, r3>>) = Ask(b, r3)
      BY <1>1, SendThree
    <3> QED BY <2>1, <3>1, <3>2
  <2>2. CASE ~t.cwin[w].orig_bw
    <3>1. <<r1, r2>> \o <<>> = <<r1, r2>>
      <4>1. <<r1, r2>> \in Seq(Requests)
        BY <1>1
      <4> QED BY <4>1
    <3>2. Send(t, w, <<r1, r2>>) = b
      BY <1>1, SendTwo
    <3> QED BY <2>2, <3>1, <3>2
  <2> QED BY <2>1, <2>2
<1>3. clientwin_deinit(t, w) = u
  BY <1>2 DEF clientwin_deinit, r1, r2, r3
<1>4. Asked(t, a, w, r1)
  BY <1>1, AskDone
<1>5. a \in States
  BY <1>4 DEF Asked
<1> HIDE DEF a
<1>6. Asked(a, b, w, r2)
  BY <1>1, <1>5, AskDone
<1>7. b \in States
  BY <1>6 DEF Asked
<1> HIDE DEF b
<1> DEFINE z == Final(t, w).x
           za == Final(a, w).x
           zb == Final(b, w).x
           y == Final(e, w).x
           Gives(x) == x = (IF t.cwin[w].orig_bw THEN TRUE ELSE z.border)
<1>8. za.exists = z.exists /\ zb.exists = z.exists /\ b.cwin = t.cwin /\ b.place = t.place
  BY <1>4, <1>6 DEF Asked
<1>9. z.exists => /\ za.sel = FALSE /\ za.parent = z.parent /\ za.saved = z.saved
                  /\ zb.saved = z.saved /\ zb.sel = FALSE /\ zb.parent = z.parent
                  /\ zb.geom = z.geom /\ zb.state = z.state /\ zb.border = z.border
  <2> SUFFICES ASSUME z.exists
               PROVE /\ za.sel = FALSE /\ za.parent = z.parent /\ za.saved = z.saved
                     /\ zb.saved = z.saved /\ zb.sel = FALSE /\ zb.parent = z.parent
                     /\ zb.geom = z.geom /\ zb.state = z.state /\ zb.border = z.border
    OBVIOUS
  <2>1. Parts(Final(t, w), Final(a, w), r1)
    BY <1>4 DEF Asked
  <2>2. Parts(Final(a, w), Final(b, w), r2)
    BY <1>6, <1>8 DEF Asked
  <2> QED BY <1>1, <2>1, <2>2 DEF Parts
<1>10. Good(t, w) /\ (z.exists => z.saved)
  BY DEF Held
<1> HIDE DEF z, za, zb
<1>11. Good(b, w)
  <2>1. Good(a, w)
    BY <1>1, <1>4, <1>8, <1>9, <1>10 DEF Asked, za
  <2> QED BY <1>1, <1>6, <1>8, <1>9, <1>10, <2>1 DEF Asked, za, zb
<1>12. Serves(t, b, w)
  BY <1>4, <1>6, ServesTwice DEF Asked
<1>13. /\ Serves(t, e, w) /\ e \in States /\ e.cwin = t.cwin /\ e.place = t.place /\ Good(e, w)
       /\ z.exists => /\ y.exists /\ y.saved = z.saved /\ y.sel = FALSE /\ y.parent = z.parent
                      /\ y.geom = z.geom /\ y.state = z.state /\ Gives(y.border)
  <2>1. CASE t.cwin[w].orig_bw
    <3> DEFINE s == Ask(b, r3)
    <3>1. e = s
      BY <2>1
    <3>2. Asked(b, s, w, r3)
      BY <1>1, <1>7, AskDone
    <3> HIDE DEF s, e
    <3>3. Serves(t, s, w) /\ s \in States /\ s.cwin = t.cwin /\ s.place = t.place
      BY <1>8, <1>12, <3>2, ServesTwice DEF Asked
    <3> DEFINE ys == Final(s, w).x
    <3>4. z.exists => /\ ys.exists /\ ys.saved = z.saved /\ ys.sel = FALSE /\ ys.parent = z.parent
                      /\ ys.geom = z.geom /\ ys.state = z.state /\ ys.border = TRUE
      <4> SUFFICES ASSUME z.exists
                   PROVE /\ ys.exists /\ ys.saved = z.saved /\ ys.sel = FALSE /\ ys.parent = z.parent
                         /\ ys.geom = z.geom /\ ys.state = z.state /\ ys.border = TRUE
        OBVIOUS
      <4>1. Parts(Final(b, w), Final(s, w), r3) /\ ys.exists
        BY <1>8, <3>2 DEF Asked, zb
      <4> QED BY <1>1, <1>9, <4>1 DEF Parts, zb
    <3>5. Good(s, w)
      <4>1. ys.exists = z.exists
        BY <1>8, <3>2 DEF Asked, zb
      <4> HIDE DEF ys
      <4>2. ys.exists /\ ys.parent = "frame" => ys.saved
        BY <1>10, <3>4, <4>1
      <4> QED BY <1>1, <1>11, <3>2, <4>2 DEF Asked, ys
    <3>6. z.exists => Gives(ys.border)
      BY <2>1, <3>4
    <3> HIDE DEF Gives
    <3> QED BY <3>1, <3>3, <3>4, <3>5, <3>6
  <2>2. CASE ~t.cwin[w].orig_bw
    <3>1. e = b
      BY <2>2
    <3>2. z.exists => Gives(zb.border)
      BY <1>9, <2>2
    <3> HIDE DEF e, Gives
    <3> QED BY <1>7, <1>8, <1>9, <1>11, <1>12, <3>1, <3>2 DEF zb
  <2> QED BY <2>1, <2>2
<1> HIDE DEF e
<1>14. <<"deinit", w>> \in Pcs
  BY DEF Pcs
<1>15. /\ Deals(e, u, w) /\ u \in States /\ u.pc = <<"deinit", w>> /\ u.twice = e.twice
       /\ u.refused = e.refused /\ u.cwin = e.cwin /\ u.place = e.place
       /\ Final(u, w) = Final(e, w) /\ (Good(e, w) => Good(u, w))
  BY <1>13, <1>14, PcFacts
<1> HIDE DEF u
<1>16. Deals(t, e, w) /\ e.twice = t.twice /\ e.refused = t.refused
  BY <1>13, ServesDeals
<1>17. Left(t, u, w)
  BY <1>13, <1>15 DEF Left, z
<1>18. Deals(t, u, w)
  BY <1>15, <1>16, DealsTwice
<1> QED BY <1>3, <1>15, <1>16, <1>17, <1>18

\* A window that is left: on the root again, and visible at the exit
Free(t, u, w) ==
  LET z == Final(t, w).x
      y == Final(u, w).x
  IN /\ u.cwin[w] = NotManaged /\ Good(u, w) /\ u.place = t.place
     /\ z.exists => /\ y.exists /\ y.saved = FALSE /\ y.sel = z.sel /\ y.parent = "root"
                    /\ y.border = z.border /\ (t.wm = "exiting" => y.mapped = TRUE)

\* Released does this of one that is not watched any more.
LEMMA ReleasedFacts ==
  ASSUME NEW t \in States, NEW w \in Windows, Good(t, w),
         LET z == Final(t, w).x IN z.exists => z.sel = FALSE
  PROVE  LET u == Released(t, w)
         IN /\ Deals(t, u, w) /\ u \in States /\ u.pc = Idle /\ u.twice = t.twice
            /\ u.refused = t.refused /\ Free(t, u, w)
<1> DEFINE alive == t.x[w].exists
           r1 == <<"reparent", w, "root">>
           r2 == <<"map", w>>
           r3 == <<"saveset", w, FALSE>>
           b == Ask(t, r1)
           l == IF ~alive THEN t
                ELSE IF t.wm = "exiting" THEN Ask(b, r2) ELSE set_clientwin_state(b, w, "Withdrawn")
           s == Ask(l, r3)
           k == Kept(s, w, NotManaged)
           u == [k EXCEPT !.pc = Idle]
           z == Final(t, w).x
           zb == Final(b, w).x
           zl == Final(l, w).x
           y == Final(s, w).x
<1>1. /\ r1 \in Requests /\ r1[2] = w /\ r1[1] = "reparent" /\ r1[3] = "root"
      /\ r2 \in Requests /\ r2[2] = w /\ r2[1] = "map"
      /\ r3 \in Requests /\ r3[2] = w /\ r3[1] = "saveset" /\ r3[3] = FALSE
  BY RequestTypes
<1>2. z.exists = alive
  BY FinalFacts
<1> HIDE DEF r1, r2, r3
<1>3. Asked(t, b, w, r1)
  BY <1>1, AskDone
<1>4. b \in States
  BY <1>3 DEF Asked
<1>5. Send(t, w, <<r1>>) = b /\ Send(b, w, <<r2>>) = Ask(b, r2)
  <2>1. Send(t, w, <<r1>>) = b
    BY <1>1, SendOne
  <2> HIDE DEF b
  <2> QED BY <1>1, <1>4, <2>1, SendOne
<1> HIDE DEF b
<1>6. z.exists => zb.exists /\ zb.parent = "root" /\ zb.sel = z.sel /\ zb.border = z.border
  <2> SUFFICES ASSUME z.exists
               PROVE zb.exists /\ zb.parent = "root" /\ zb.sel = z.sel /\ zb.border = z.border
    OBVIOUS
  <2>1. Parts(Final(t, w), Final(b, w), r1) /\ zb.exists
    BY <1>3 DEF Asked
  <2> QED BY <1>1, <2>1 DEF Parts
<1>7. z.exists => z.sel = FALSE
  OBVIOUS
<1>8. Good(b, w)
  <2>1. zb.exists = z.exists
    BY <1>3 DEF Asked
  <2> HIDE DEF z, zb
  <2> QED BY <1>1, <1>3, <1>6, <1>7, <2>1 DEF Asked, z, zb
<1>9. l = IF ~alive THEN t
          ELSE IF t.wm = "exiting" THEN Ask(b, r2) ELSE set_clientwin_state(b, w, "Withdrawn")
  OBVIOUS
<1>10. Released(t, w) = [Send(l, w, <<r3>>) EXCEPT !.cwin[w] = NotManaged, !.pc = Idle]
  BY <1>5 DEF Released, r1, r2, r3
<1> HIDE DEF l, z, zb, zl
<1>11. /\ Serves(t, l, w) /\ l \in States /\ l.place = t.place /\ Good(l, w) /\ zl.exists = z.exists
       /\ z.exists => /\ zl.parent = "root" /\ zl.sel = z.sel /\ zl.border = z.border
                      /\ t.wm = "exiting" => zl.mapped = TRUE
  <2>1. CASE ~alive
    BY <1>2, <1>9, <2>1, ServesNot DEF z, zl
  <2>2. CASE alive /\ t.wm = "exiting"
    <3>1. l = Ask(b, r2)
      BY <1>9, <2>2
    <3>2. Asked(b, l, w, r2)
      BY <1>1, <1>4, <3>1, AskDone
    <3>3. Serves(t, l, w) /\ l \in States /\ l.place = t.place /\ zl.exists = z.exists
      <4>1. Serves(t, b, w) /\ b.place = t.place /\ zb.exists = z.exists
        BY <1>3 DEF Asked, z, zb
      <4> QED BY <3>2, <4>1, ServesTwice DEF Asked, zb, zl
    <3>4. Parts(Final(b, w), Final(l, w), r2)
      BY <1>2, <1>6, <2>2, <3>2 DEF Asked, zb
    <3>5. zl.parent = "root" /\ zl.sel = z.sel /\ zl.border = z.border /\ zl.mapped = TRUE
      BY <1>1, <1>2, <1>6, <2>2, <3>4 DEF Parts, zb, zl
    <3>6. Good(l, w)
      BY <1>1, <1>8, <3>2, <3>5 DEF Asked, zl
    <3> QED BY <3>3, <3>5, <3>6
  <2>3. CASE alive /\ t.wm # "exiting"
    <3>1. l = set_clientwin_state(b, w, "Withdrawn")
      BY <1>9, <2>3
    <3> DEFINE v == set_clientwin_state(b, w, "Withdrawn")
    <3>2. /\ Tends(b, v, w) /\ v \in States /\ v.place = b.place /\ (Good(b, w) => Good(v, w))
      BY <1>4, StateFacts
    <3>3. zb.exists => Restated(zb, Final(v, w).x)
      BY <1>4, StateFacts DEF zb
    <3> HIDE DEF v
    <3>4. l = v
      BY <3>1 DEF v
    <3>5. Serves(t, b, w) /\ b.place = t.place /\ zb.exists = z.exists
      BY <1>3 DEF Asked, z, zb
    <3>6. Serves(t, v, w)
      BY <3>2, <3>5, ServesTwice DEF Tends
    <3>7. Restated(zb, zl) /\ z.exists
      BY <1>2, <2>3, <3>3, <3>4, <3>5 DEF zl
    <3> QED BY <1>6, <1>8, <2>3, <3>2, <3>4, <3>5, <3>6, <3>7 DEF Restated
  <2> QED BY <2>1, <2>2, <2>3
<1>12. Send(l, w, <<r3>>) = s
  BY <1>1, <1>11, SendOne
<1>13. Asked(l, s, w, r3)
  BY <1>1, <1>11, AskDone
<1>14. s \in States
  BY <1>13 DEF Asked
<1>15. Released(t, w) = u
  <2> HIDE DEF s
  <2> QED BY <1>10, <1>12, <1>14 DEF Kept, States
<1> HIDE DEF s, y
<1>16. y.exists = z.exists /\ s.place = t.place
  BY <1>11, <1>13 DEF Asked, zl, y
<1>17. z.exists => /\ y.saved = FALSE /\ y.sel = z.sel /\ y.parent = "root"
                   /\ y.border = z.border /\ (t.wm = "exiting" => y.mapped = TRUE)
  <2> SUFFICES ASSUME z.exists
               PROVE /\ y.saved = FALSE /\ y.sel = z.sel /\ y.parent = "root"
                     /\ y.border = z.border /\ (t.wm = "exiting" => y.mapped = TRUE)
    OBVIOUS
  <2>1. Parts(Final(l, w), Final(s, w), r3)
    BY <1>11, <1>13 DEF Asked, zl
  <2> QED BY <1>1, <1>11, <2>1 DEF Parts, y, zl
<1>18. Good(s, w)
  BY <1>1, <1>11, <1>13, <1>16, <1>17 DEF Asked, y
<1>19. NotManaged \in CWins
  <2>1. NoGeom \in Geoms /\ TRUE \in BOOLEAN
    BY ClientAssumption DEF NoGeom
  <2> QED BY <2>1, NewTypes
<1>20. /\ Serves(s, k, w) /\ k \in States /\ k.cwin[w] = NotManaged /\ k.place = s.place
       /\ k.out = s.out /\ Final(k, w) = Final(s, w) /\ (Good(s, w) => Good(k, w))
  BY <1>14, <1>19, KeptFacts
<1> HIDE DEF k
<1>21. Idle \in Pcs
  BY DEF Pcs
<1>22. /\ Deals(k, u, w) /\ u \in States /\ u.pc = Idle /\ u.twice = k.twice
       /\ u.refused = k.refused /\ u.cwin = k.cwin /\ u.place = k.place
       /\ Final(u, w) = Final(k, w) /\ (Good(k, w) => Good(u, w))
  BY <1>20, <1>21, PcFacts
<1> HIDE DEF u
<1>23. Serves(t, k, w)
  <2>1. Serves(l, s, w)
    BY <1>13 DEF Asked
  <2>2. Serves(t, s, w)
    BY <1>11, <2>1, ServesTwice
  <2> QED BY <1>20, <2>2, ServesTwice
<1>24. Deals(t, k, w) /\ k.twice = t.twice /\ k.refused = t.refused
  BY <1>23, ServesDeals
<1>25. Free(t, u, w)
  BY <1>16, <1>17, <1>18, <1>20, <1>22 DEF Free, y, z
<1>26. Deals(t, u, w)
  BY <1>22, <1>24, DealsTwice
<1> QED BY <1>15, <1>22, <1>24, <1>25, <1>26

-----------------------------------------------------------------------------
(* The other windows *)

\* For v nothing is different
Same(t, u, v) ==
  /\ u.x[v] = t.x[v] /\ u.cwin[v] = t.cwin[v] /\ u.place[v] = t.place[v] /\ u.prop = t.prop
  /\ u.icon = t.icon /\ u.wm = t.wm /\ u.crashed = t.crashed /\ u.twice = t.twice
  /\ (u.wants[v] <=> t.wants[v]) /\ (u.asked[v] <=> t.asked[v])
  /\ (v \in u.tmpwins <=> v \in t.tmpwins) /\ (v \in u.kept <=> v \in t.kept)
  /\ (v \in u.refused <=> v \in t.refused) /\ Leaves(t, u, v)
  /\ (u.pc[2] = v <=> t.pc[2] = v) /\ \A k : At(u, k, v) <=> At(t, k, v)
  /\ \A e : Has(u, e, v) <=> Has(t, e, v)
\* And what was heard of v is the same
SameEvents(t, u, v) == \A e : LastWord(t, v, e) => LastWord(u, v, e)

\* What is true of a window stays true when nothing is different for it.
LEMMA SameOwn ==
  ASSUME NEW t, NEW u, NEW v, Same(t, u, v), Own(t, v)
  PROVE  Own(u, v)
<1>1. /\ Final(u, v) = Final(t, v) /\ (Fine(t, v) => Fine(u, v)) /\ (Unseen(t, v) => Unseen(u, v))
      /\ \A K \in {{"select"}, {"select", "saveset"}} : Only(t, v, K) => Only(u, v, K)
  BY DEF Same, Leaves
<1>2. Unscanned(u, v) <=> Unscanned(t, v)
  BY DEF Same, Unscanned, Scanned
<1>3. Lifeless(u, v)
  BY DEF Own, Same, Lifeless
<1>4. Unseen(u, v)
  BY <1>1 DEF Own
<1>5. Passing(u, v) <=> Passing(t, v)
  BY DEF Same, Passing
<1>6. Managed(u, v)
  <2>1. /\ Managed(t, v) /\ u.wm = t.wm /\ u.cwin[v] = t.cwin[v] /\ u.twice = t.twice
        /\ \A k : At(u, k, v) <=> At(t, k, v)
    BY DEF Own, Same
  <2>2. {"select"} \in {{"select"}, {"select", "saveset"}}
    OBVIOUS
  <2> QED BY <1>1, <1>5, <2>1, <2>2 DEF Managed
<1>7. Answered(u, v)
  BY <1>1 DEF Own, Same, Answered
<1>8. Restored(u, v)
  <2>1. /\ Restored(t, v) /\ u.wm = t.wm /\ u.cwin[v] = t.cwin[v] /\ u.crashed = t.crashed
        /\ u.x[v] = t.x[v] /\ (u.wants[v] <=> t.wants[v])
        /\ (v \in u.kept <=> v \in t.kept) /\ (v \in u.refused <=> v \in t.refused)
        /\ (At(u, "deinit", v) <=> At(t, "deinit", v))
        /\ (Has(u, "MapRequest", v) <=> Has(t, "MapRequest", v))
    BY DEF Own, Same
  <2> QED BY <1>1, <2>1 DEF Restored
<1>9. Untouched(u, v)
  <2>1. {"select", "saveset"} \in {{"select"}, {"select", "saveset"}}
    OBVIOUS
  <2> QED BY <1>1, <1>2, <2>1 DEF Own, Untouched
<1> QED BY <1>3, <1>4, <1>6, <1>7, <1>8, <1>9 DEF Own

\* So of a dockapp, when nothing is for it and its icon.
LEMMA SameDock ==
  ASSUME NEW t \in States, NEW u, NEW w \in Windows, Dock(t, w), Same(t, u, w),
         t.icon[w] # NoWindow => /\ Same(t, u, t.icon[w])
                                 /\ Once(t, w) => Once(u, w)
                                 /\ Order(t, w, t.icon[w]) => Order(u, w, t.icon[w])
  PROVE  Dock(u, w)
<1> DEFINE v == t.icon[w]
<1>1. u.icon = t.icon
  BY DEF Same
<1> SUFFICES ASSUME v # NoWindow PROVE Dock(u, w)
  BY <1>1 DEF Dock
<1>2. /\ v # w /\ t.icon[v] = NoWindow /\ \A x \in Windows : t.icon[x] = v => x = w
      /\ ~Asks(t, v) /\ ~At(t, "maprq", v) /\ (t.x[v].exists => Docked(t, w, v))
  BY DEF Dock
<1>3. /\ Same(t, u, v) /\ (Once(t, w) => Once(u, w)) /\ (Order(t, w, v) => Order(u, w, v))
  OBVIOUS
<1> HIDE DEF v
<1>4. /\ Asks(u, v) <=> Asks(t, v)
      /\ Asks(u, w) <=> Asks(t, w)
      /\ Scanned(u, v) <=> Scanned(t, v)
      /\ Scanned(u, w) <=> Scanned(t, w)
  BY <1>3 DEF Same, Asks, Scanned
<1>5. Only(t, v, {"select", "saveset"}) => Only(u, v, {"select", "saveset"})
  BY <1>3 DEF Same, Leaves
<1>6. ASSUME Docked(t, w, v) PROVE Docked(u, w, v)
  <2>1. /\ u.x[w] = t.x[w] /\ u.x[v] = t.x[v] /\ u.cwin[v] = t.cwin[v] /\ u.cwin[w] = t.cwin[w]
        /\ (w \in u.tmpwins <=> w \in t.tmpwins) /\ (u.pc[2] = w <=> t.pc[2] = w)
        /\ (u.pc[2] = v <=> t.pc[2] = v) /\ (u.wants[w] <=> t.wants[w])
        /\ (At(u, "maprq", w) <=> At(t, "maprq", w)) /\ (At(u, "create", v) <=> At(t, "create", v))
        /\ (At(u, "deinit", v) <=> At(t, "deinit", v))
        /\ (Has(u, "Unmap", v) <=> Has(t, "Unmap", v))
    BY <1>3 DEF Same
  <2>2. Scanned(u, v) => ~u.x[w].exists /\ ~Asks(u, w) /\ w \notin u.tmpwins /\ u.pc[2] # w
    BY <1>4, <1>6, <2>1 DEF Docked
  <2>3. Once(u, w)
    BY <1>3, <1>6 DEF Docked
  <2>4. At(u, "maprq", w) => ~Asks(u, w) /\ ~u.cwin[v].managed
    BY <1>4, <1>6, <2>1 DEF Docked
  <2>5. Asks(u, w) \/ At(u, "maprq", w) => u.wants[w] \/ ~u.x[w].exists
    BY <1>4, <1>6, <2>1 DEF Docked
  <2>6. Asks(u, w) => (~u.cwin[v].managed /\ ~At(u, "create", v)) \/ At(u, "deinit", v) \/ Order(u, w, v)
    BY <1>3, <1>4, <1>6, <2>1 DEF Docked
  <2>7. Scanned(u, w) =>
          /\ ~u.cwin[v].managed /\ u.pc[2] # v /\ Only(u, v, {"select", "saveset"})
          /\ IF u.cwin[w].managed THEN ~Asks(u, w) /\ (u.wants[w] \/ ~u.x[w].exists)
             ELSE /\ u.x[w].mapped => u.wants[w]
                  /\ Asks(u, w) => ~u.x[w].mapped /\ ~u.x[v].mapped
    BY <1>4, <1>5, <1>6, <2>1 DEF Docked
  <2>8. At(u, "create", v) => u.wants[w] \/ ~u.x[w].exists \/ u.x[v].mapped \/ Has(u, "Unmap", v)
    BY <1>6, <2>1 DEF Docked
  <2> QED BY <2>2, <2>3, <2>4, <2>5, <2>6, <2>7, <2>8 DEF Docked
<1>7. ~Asks(u, v) /\ ~At(u, "maprq", v)
  BY <1>2, <1>3, <1>4 DEF Same
<1>8. u.x[v].exists => Docked(u, w, v)
  <2>1. u.x[v] = t.x[v]
    BY <1>3 DEF Same
  <2> QED BY <1>2, <1>6, <2>1
<1> QED BY <1>1, <1>2, <1>7, <1>8 DEF Dock, v

\* So of what a window shows.
LEMMA SameCalm ==
  ASSUME NEW t, NEW u, NEW v, Same(t, u, v), SameEvents(t, u, v), CalmOf(t, v)
  PROVE  CalmOf(u, v)
<1>1. /\ Final(u, v) = Final(t, v) /\ u.x[v] = t.x[v] /\ u.cwin[v] = t.cwin[v]
      /\ u.place[v] = t.place[v] /\ u.prop = t.prop /\ u.icon = t.icon /\ u.wm = t.wm
      /\ (u.wants[v] <=> t.wants[v]) /\ (v \in u.refused <=> v \in t.refused)
      /\ (v \in u.tmpwins <=> v \in t.tmpwins)
  BY DEF Same, Leaves
<1>2. (\A k : At(u, k, v) <=> At(t, k, v)) /\ (\A e : Has(u, e, v) <=> Has(t, e, v))
  BY DEF Same
<1>3. Shown(u, v)
  <2>1. /\ Shown(t, v) /\ (At(u, "loaded", v) <=> At(t, "loaded", v))
        /\ (At(u, "deinit", v) <=> At(t, "deinit", v)) /\ (Has(u, "Unmap", v) <=> Has(t, "Unmap", v))
    BY <1>2 DEF CalmOf
  <2> QED BY <1>1, <2>1 DEF Shown
<1>4. Noticed(u, v)
  <2>1. Noticed(t, v) /\ (Passing(u, v) <=> Passing(t, v)) /\ (Has(u, "Destroy", v) <=> Has(t, "Destroy", v))
    BY <1>2 DEF CalmOf, Passing
  <2> QED BY <1>1, <2>1 DEF Noticed
<1>5. Heard(u, v)
  <2>1. Single(u, v) <=> Single(t, v)
    BY <1>1 DEF Single
  <2>2. (Silent(u, v) <=> Silent(t, v)) /\ (Taken(u, v) <=> Taken(t, v))
    BY <1>1, <1>2 DEF Silent, Taken, Unscanned, Scanned
  <2>3. \A e : LastWord(t, v, e) => LastWord(u, v, e)
    BY DEF SameEvents
  <2> QED BY <1>1, <2>1, <2>2, <2>3 DEF CalmOf, Heard
<1> QED BY <1>3, <1>4, <1>5 DEF CalmOf

\* Of the windows that are not dealt with nothing is different.
LEMMA DealsSame ==
  ASSUME NEW t \in States, NEW u, NEW a, Deals(t, u, a), u.twice = t.twice,
         NEW v \in Windows, v # a, t.pc[2] # v, u.pc[2] # v
  PROVE  Same(t, u, v) /\ SameEvents(t, u, v) /\ (Once(t, v) => Once(u, v))
         /\ \A i : Order(t, v, i) => Order(u, v, i)
<1>1. \A k : ~At(t, k, v) /\ ~At(u, k, v)
  BY DEF At
<1>2. Same(t, u, v)
  BY <1>1 DEF Deals, Same, Has
<1>3. SameEvents(t, u, v)
  BY DEF SameEvents, LastWord, Deals
<1>4. (Once(t, v) => Once(u, v)) /\ \A i : Order(t, v, i) => Order(u, v, i)
  BY DEF Once, Order, Deals
<1> QED BY <1>2, <1>3, <1>4

\* Nothing but a is waited for
About(t, a) == t.pc[2] \in {a, NoWindow}

\* What is true of the others stays true when only a is dealt with.
LEMMA DealsOthers ==
  ASSUME NEW t \in States, NEW u, NEW a \in Windows, Deals(t, u, a), u.twice = t.twice,
         About(t, a), About(u, a), NEW v \in Windows, v # a
  PROVE  /\ Own(t, v) => Own(u, v)
         /\ CalmOf(t, v) => CalmOf(u, v)
         /\ Dock(t, v) /\ t.icon[v] # a => Dock(u, v)
<1>1. \A i \in Windows : i # a => t.pc[2] # i /\ u.pc[2] # i
  BY ClientAssumption DEF About
<1>2. Same(t, u, v) /\ SameEvents(t, u, v) /\ (Once(t, v) => Once(u, v))
      /\ \A i : Order(t, v, i) => Order(u, v, i)
  BY <1>1, DealsSame
<1>3. ASSUME Dock(t, v), t.icon[v] # a PROVE Dock(u, v)
  <2>1. t.icon[v] \in Windows \cup {NoWindow}
    BY Fields
  <2>2. t.icon[v] # NoWindow => Same(t, u, t.icon[v])
    BY <1>1, <1>3, <2>1, DealsSame
  <2> QED BY <1>2, <1>3, <2>2, SameDock
<1> QED BY <1>2, <1>3, SameOwn, SameCalm

\* All that must be so before a is dealt with: a itself may be as it likes
BaseBut(t, a) ==
  /\ t \in States /\ Phase(t) /\ Lifeless(t, a)
  /\ \A w \in Windows : (w # a => Own(t, w)) /\ Dock(t, w)
\* a may be looked at: it is no icon, and its icon is not managed
MayAsk(t, a) ==
  /\ \A w \in Windows : t.icon[w] # a
  /\ t.icon[a] # NoWindow /\ t.x[t.icon[a]].exists =>
       ~Asks(t, a) /\ ~t.cwin[t.icon[a]].managed /\ (t.wants[a] \/ ~t.x[a].exists)
\* What keeps dockapps and icons apart while a is dealt with
Docile(t, u, a) ==
  /\ t.pc[2] = a \/ t.cwin[a].managed \/ Scanned(t, a) \/ t.wm # "init"
  /\ At(u, "maprq", a) => At(t, "maprq", a) \/ MayAsk(t, a)
  /\ At(u, "create", a) => At(t, "create", a) \/ At(t, "maprq", a) \/ Scanned(t, a)
  /\ At(t, "deinit", a) => At(u, "deinit", a) \/ (~u.cwin[a].managed /\ ~At(u, "create", a))
  /\ u.cwin[a].managed => t.cwin[a].managed \/ At(t, "create", a) \/ Scanned(t, a)
  /\ u.pc[2] = a /\ t.pc[2] # a => t.tmpwins = {} \/ t.x[a].exists \/ a \in t.tmpwins
  /\ Scanned(u, a) => /\ Scanned(t, a)
                      /\ IF u.cwin[a].managed THEN t.cwin[a].managed \/ t.x[a].mapped
                         ELSE t.cwin[a].managed => ~t.x[a].exists

\* They are kept apart, if it is a dockapp ...
LEMMA DockOfMain ==
  ASSUME NEW t \in States, NEW u, NEW a \in Windows, Deals(t, u, a), About(t, a), About(u, a),
         Docile(t, u, a), Phase(t), Lifeless(t, a), Dock(t, a)
  PROVE  Dock(u, a)
<1> DEFINE v == t.icon[a]
<1>1. u.icon = t.icon
  BY DEF Deals
<1> SUFFICES ASSUME v # NoWindow PROVE Dock(u, a)
  BY <1>1 DEF Dock
<1>2. /\ v # a /\ t.icon[v] = NoWindow /\ \A x \in Windows : t.icon[x] = v => x = a
      /\ ~Asks(t, v) /\ ~At(t, "maprq", v) /\ (t.x[v].exists => Docked(t, a, v))
  BY DEF Dock
<1>3. v \in Windows
  BY Fields
<1>4. t.pc[2] # v /\ u.pc[2] # v /\ \A k : ~At(u, k, v) /\ ~At(t, k, v)
  BY <1>2, <1>3, ClientAssumption DEF About, At
<1>5. /\ u.x = t.x /\ u.ev = t.ev /\ u.tmpwins = t.tmpwins /\ u.wants = t.wants
      /\ u.cwin[v] = t.cwin[v] /\ Leaves(t, u, v) /\ u.wm = t.wm
  BY <1>2, <1>3 DEF Deals
<1> HIDE DEF v
<1>6. /\ Asks(u, v) <=> Asks(t, v)
      /\ Asks(u, a) <=> Asks(t, a)
      /\ Once(u, a) <=> Once(t, a)
      /\ Order(u, a, v) <=> Order(t, a, v)
  BY <1>5 DEF Asks, Has, Once, Order
<1>7. ASSUME Docked(t, a, v), t.x[v].exists PROVE Docked(u, a, v)
  <2>1. Scanned(u, v) => ~u.x[a].exists /\ ~Asks(u, a) /\ a \notin u.tmpwins /\ u.pc[2] # a
    <3> SUFFICES ASSUME Scanned(u, v)
                 PROVE  ~u.x[a].exists /\ ~Asks(u, a) /\ a \notin u.tmpwins /\ u.pc[2] # a
      OBVIOUS
    <3>1. v \in t.tmpwins
      BY <1>4, <1>5 DEF Scanned
    <3>2. ~t.x[a].exists /\ ~Asks(t, a) /\ a \notin t.tmpwins /\ t.pc[2] # a
      BY <1>7, <3>1 DEF Docked, Scanned
    <3>3. u.pc[2] # a
      BY <3>1, <3>2 DEF Docile
    <3> QED BY <1>5, <1>6, <3>2, <3>3
  <2>2. Once(u, a)
    BY <1>6, <1>7 DEF Docked
  <2>3. At(u, "maprq", a) => ~Asks(u, a) /\ ~u.cwin[v].managed
    <3>1. At(u, "maprq", a) => At(t, "maprq", a) \/ (~Asks(t, a) /\ ~t.cwin[v].managed)
      BY <1>7 DEF Docile, MayAsk, v
    <3> QED BY <1>5, <1>6, <1>7, <3>1 DEF Docked
  <2>4. Asks(u, a) \/ At(u, "maprq", a) => u.wants[a] \/ ~u.x[a].exists
    <3>1. At(u, "maprq", a) => At(t, "maprq", a) \/ t.wants[a] \/ ~t.x[a].exists
      BY <1>7 DEF Docile, MayAsk, v
    <3> QED BY <1>5, <1>6, <1>7, <3>1 DEF Docked
  <2>5. Asks(u, a) => (~u.cwin[v].managed /\ ~At(u, "create", v)) \/ At(u, "deinit", v) \/ Order(u, a, v)
    BY <1>4, <1>5, <1>6, <1>7 DEF Docked
  <2>6. Scanned(u, a) =>
          /\ ~u.cwin[v].managed /\ u.pc[2] # v /\ Only(u, v, {"select", "saveset"})
          /\ IF u.cwin[a].managed THEN ~Asks(u, a) /\ (u.wants[a] \/ ~u.x[a].exists)
             ELSE /\ u.x[a].mapped => u.wants[a]
                  /\ Asks(u, a) => ~u.x[a].mapped /\ ~u.x[v].mapped
    <3> SUFFICES ASSUME Scanned(u, a)
                 PROVE  /\ ~u.cwin[v].managed /\ u.pc[2] # v /\ Only(u, v, {"select", "saveset"})
                        /\ IF u.cwin[a].managed THEN ~Asks(u, a) /\ (u.wants[a] \/ ~u.x[a].exists)
                           ELSE /\ u.x[a].mapped => u.wants[a]
                                /\ Asks(u, a) => ~u.x[a].mapped /\ ~u.x[v].mapped
      OBVIOUS
    <3>1. /\ Scanned(t, a)
          /\ IF u.cwin[a].managed THEN t.cwin[a].managed \/ t.x[a].mapped
             ELSE t.cwin[a].managed => ~t.x[a].exists
      BY DEF Docile
    <3>2. /\ ~t.cwin[v].managed /\ Only(t, v, {"select", "saveset"})
          /\ IF t.cwin[a].managed THEN ~Asks(t, a) /\ (t.wants[a] \/ ~t.x[a].exists)
             ELSE /\ t.x[a].mapped => t.wants[a]
                  /\ Asks(t, a) => ~t.x[a].mapped /\ ~t.x[v].mapped
      BY <1>7, <3>1 DEF Docked
    <3>3. Only(u, v, {"select", "saveset"})
      <4>1. {"select", "saveset"} \in {{"select"}, {"select", "saveset"}}
        OBVIOUS
      <4> QED BY <1>5, <3>2, <4>1 DEF Leaves
    <3>4. ~t.x[a].exists => ~t.x[a].mapped
      BY DEF Lifeless
    <3>5. CASE u.cwin[a].managed
      BY <1>4, <1>5, <1>6, <3>1, <3>2, <3>3, <3>5
    <3>6. CASE ~u.cwin[a].managed
      BY <1>4, <1>5, <1>6, <3>1, <3>2, <3>3, <3>4, <3>6
    <3> QED BY <3>5, <3>6
  <2>7. At(u, "create", v) => u.wants[a] \/ ~u.x[a].exists \/ u.x[v].mapped \/ Has(u, "Unmap", v)
    BY <1>4
  <2> QED BY <2>1, <2>2, <2>3, <2>4, <2>5, <2>6, <2>7 DEF Docked
<1> QED BY <1>1, <1>2, <1>4, <1>5, <1>6, <1>7 DEF Dock, v

\* ... and if it is the icon of w.
LEMMA DockOfIcon ==
  ASSUME NEW t \in States, NEW u, NEW a \in Windows, Deals(t, u, a), About(t, a), About(u, a),
         Docile(t, u, a), Phase(t), NEW w \in Windows, w # a, t.icon[w] = a, Dock(t, w)
  PROVE  Dock(u, w)
<1>1. u.icon = t.icon
  BY DEF Deals
<1>2. a # NoWindow
  BY ClientAssumption
<1>3. /\ t.icon[a] = NoWindow /\ \A x \in Windows : t.icon[x] = a => x = w
      /\ ~Asks(t, a) /\ ~At(t, "maprq", a) /\ (t.x[a].exists => Docked(t, w, a))
  BY <1>2 DEF Dock
<1>4. t.pc[2] # w /\ u.pc[2] # w /\ \A k : ~At(u, k, w) /\ ~At(t, k, w)
  BY ClientAssumption DEF About, At
<1>5. /\ u.x = t.x /\ u.ev = t.ev /\ u.tmpwins = t.tmpwins /\ u.wants = t.wants
      /\ u.cwin[w] = t.cwin[w] /\ u.wm = t.wm
  BY DEF Deals
<1>6. /\ Asks(u, a) <=> Asks(t, a)
      /\ Asks(u, w) <=> Asks(t, w)
      /\ Once(u, w) <=> Once(t, w)
      /\ Order(u, w, a) <=> Order(t, w, a)
      /\ Has(u, "Unmap", a) <=> Has(t, "Unmap", a)
  BY <1>5 DEF Asks, Has, Once, Order
<1>7. ASSUME Docked(t, w, a) PROVE Docked(u, w, a)
  <2>1. Scanned(u, a) => ~u.x[w].exists /\ ~Asks(u, w) /\ w \notin u.tmpwins /\ u.pc[2] # w
    BY <1>4, <1>5, <1>6, <1>7 DEF Docked, Docile
  <2>2. Once(u, w)
    BY <1>6, <1>7 DEF Docked
  <2>3. At(u, "maprq", w) => ~Asks(u, w) /\ ~u.cwin[a].managed
    BY <1>4
  <2>4. Asks(u, w) \/ At(u, "maprq", w) => u.wants[w] \/ ~u.x[w].exists
    BY <1>4, <1>5, <1>6, <1>7 DEF Docked
  <2>5. Asks(u, w) => (~u.cwin[a].managed /\ ~At(u, "create", a)) \/ At(u, "deinit", a) \/ Order(u, w, a)
    <3> SUFFICES ASSUME Asks(t, w), ~Order(t, w, a)
                 PROVE  (~u.cwin[a].managed /\ ~At(u, "create", a)) \/ At(u, "deinit", a)
      BY <1>6
    <3>1. (~t.cwin[a].managed /\ ~At(t, "create", a)) \/ At(t, "deinit", a)
      BY <1>7 DEF Docked
    <3>2. ~Scanned(t, a)
      BY <1>7 DEF Docked
    <3> QED BY <1>3, <3>1, <3>2 DEF Docile
  <2>6. ~Scanned(u, w)
    <3>1. Scanned(t, w) => ~t.cwin[a].managed /\ t.pc[2] # a
      BY <1>7 DEF Docked
    <3>2. Scanned(t, w) <=> w \in t.tmpwins
      BY <1>4 DEF Scanned
    <3>3. Scanned(t, a) => w \notin t.tmpwins
      BY <1>7 DEF Docked
    <3>4. t.wm # "init" => w \notin t.tmpwins
      BY DEF Phase
    <3>5. w \notin t.tmpwins
      BY <3>1, <3>2, <3>3, <3>4 DEF Docile
    <3> QED BY <1>4, <1>5, <3>5 DEF Scanned
  <2>7. At(u, "create", a) => u.wants[w] \/ ~u.x[w].exists \/ u.x[a].mapped \/ Has(u, "Unmap", a)
    <3>1. At(t, "create", a) => t.wants[w] \/ ~t.x[w].exists \/ t.x[a].mapped \/ Has(t, "Unmap", a)
      BY <1>7 DEF Docked
    <3>2. Scanned(t, a) => ~t.x[w].exists
      BY <1>7 DEF Docked
    <3> QED BY <1>3, <1>5, <1>6, <3>1, <3>2 DEF Docile
  <2> QED BY <2>1, <2>2, <2>3, <2>4, <2>5, <2>6, <2>7 DEF Docked
<1>8. ~Asks(u, a) /\ ~At(u, "maprq", a)
  <2>1. ~MayAsk(t, a)
    BY DEF MayAsk
  <2> QED BY <1>3, <1>6, <2>1 DEF Docile
<1> QED BY <1>1, <1>3, <1>5, <1>7, <1>8 DEF Dock

\* So every dockapp and icon.
LEMMA DealsDock ==
  ASSUME NEW t \in States, NEW u, NEW a \in Windows, Deals(t, u, a), u.twice = t.twice,
         About(t, a), About(u, a), Docile(t, u, a), BaseBut(t, a), NEW w \in Windows
  PROVE  Dock(u, w)
<1>1. Phase(t) /\ Lifeless(t, a) /\ Dock(t, w)
  BY DEF BaseBut
<1>2. CASE w = a
  BY <1>1, <1>2, DockOfMain
<1>3. CASE w # a /\ t.icon[w] = a
  BY <1>1, <1>3, DockOfIcon
<1>4. CASE w # a /\ t.icon[w] # a
  BY <1>1, <1>4, DealsOthers
<1> QED BY <1>2, <1>3, <1>4

\* All but what is under way, from what happens to a.
LEMMA DealsAll ==
  ASSUME NEW t \in States, NEW u, NEW a \in Windows, Deals(t, u, a), u.twice = t.twice,
         About(t, a), About(u, a), Docile(t, u, a), BaseBut(t, a), Own(u, a)
  PROVE  u \in States /\ \A w \in Windows : Own(u, w) /\ Dock(u, w)
<1>1. \A w \in Windows : Dock(u, w)
  BY DealsDock
<1>2. ASSUME NEW w \in Windows PROVE Own(u, w)
  <2>1. w # a => Own(t, w)
    BY DEF BaseBut
  <2>2. CASE w # a
    BY <2>1, <2>2, DealsOthers
  <2> QED BY <2>2
<1>3. u \in States
  BY DEF Deals
<1> QED BY <1>1, <1>2, <1>3

\* The invariant, from what happens to a.
LEMMA DealsBase ==
  ASSUME NEW t \in States, NEW u, NEW a \in Windows, Deals(t, u, a), u.twice = t.twice,
         About(t, a), About(u, a), Docile(t, u, a), Base(t), Phase(u), Own(u, a)
  PROVE  Base(u)
<1>1. BaseBut(t, a)
  BY DEF Base, BaseBut, Own
<1>2. u \in States /\ \A w \in Windows : Own(u, w) /\ Dock(u, w)
  BY <1>1, DealsAll
<1> QED BY <1>2 DEF Base
-----------------------------------------------------------------------------
(* What a window shows, and what is heard of its client *)

\* What is heard of the window that is dealt with, if that is taken into
\* account as before.
LEMMA DealsHeard ==
  ASSUME NEW t \in States, NEW u, NEW a, Deals(t, u, a), Heard(t, a),
         a \in t.refused => a \in u.refused, Taken(u, a) <=> Taken(t, a)
  PROVE  Heard(u, a)
<1>1. /\ u.icon = t.icon /\ u.wm = t.wm /\ u.x = t.x /\ u.wants = t.wants /\ u.ev = t.ev
  BY DEF Deals
<1>2. /\ Single(u, a) = Single(t, a) /\ Silent(u, a) = Silent(t, a)
      /\ \A e : LastWord(u, a, e) = LastWord(t, a, e)
  BY <1>1 DEF Single, Silent, Has, LastWord
<1> QED BY <1>1, <1>2 DEF Heard

\* So all windows show what they should, if the one that is dealt with does.
LEMMA DealsCalm ==
  ASSUME NEW t \in States, NEW u, NEW a \in Windows, Deals(t, u, a), u.twice = t.twice,
         About(t, a), About(u, a), Calm(t), CalmOf(u, a)
  PROVE  Calm(u)
<1>1. ASSUME NEW v \in Windows, v # a PROVE CalmOf(u, v)
  BY <1>1, DealsOthers DEF Calm
<1> QED BY <1>1 DEF Calm

\* A window that is not managed shows nothing ...
LEMMA FreeCalm ==
  ASSUME NEW u, NEW a, ~u.cwin[a].managed, ~Passing(u, a), Heard(u, a)
  PROVE  CalmOf(u, a)
BY DEF CalmOf, Shown, Noticed, Passing

\* ... nor does one that is about to be left ...
LEMMA LeavingCalm ==
  ASSUME NEW u, NEW a, At(u, "deinit", a), Heard(u, a)
  PROVE  CalmOf(u, a)
<1>1. ~At(u, "loaded", a)
  BY DEF At
<1> QED BY <1>1 DEF CalmOf, Shown, Noticed, Passing

\* ... and one that is managed shows as ioncore has it.
LEMMA ShowsCalm ==
  ASSUME NEW u, NEW a, Shows(u, a), ~At(u, "loaded", a), Noticed(u, a), Heard(u, a)
  PROVE  CalmOf(u, a)
BY DEF CalmOf, Shown, Shows, Visible

\* A managed window that is tended shows as it should again.
LEMMA TendedCalm ==
  ASSUME NEW t \in States, NEW a \in Windows, CalmOf(t, a), t.cwin[a].managed,
         t.pc \in {Idle, <<"check", a>>, <<"loaded", a>>},
         t.pc # Idle /\ t.x[a].exists => t.x[a].sel, t.x[a].exists \/ t.pc = Idle,
         NEW u \in States, Deals(t, u, a), u.pc = Idle, u.refused = t.refused,
         u.cwin[a].managed, Shows(u, a)
  PROVE  CalmOf(u, a)
<1>1. \A k : k # "idle" => ~At(u, k, a)
  BY DEF At, Idle
<1>2. ~At(t, "deinit", a)
  BY DEF At, Idle
<1>3. Heard(u, a)
  <2>1. Taken(t, a) /\ Taken(u, a)
    BY <1>1, <1>2 DEF Taken
  <2>2. Heard(t, a)
    BY DEF CalmOf
  <2> QED BY <2>1, <2>2, DealsHeard
<1>4. Noticed(u, a)
  <2>1. u.x = t.x /\ u.ev = t.ev
    BY DEF Deals
  <2>2. CASE t.pc = Idle
    <3>1. ~Passing(t, a)
      BY <2>2 DEF Passing, At, Idle
    <3> QED BY <2>1, <3>1 DEF CalmOf, Noticed, Has
  <2>3. CASE t.pc # Idle
    BY <2>1, <2>3 DEF Noticed
  <2> QED BY <2>2, <2>3
<1> QED BY <1>1, <1>3, <1>4, ShowsCalm

\* What a step keeps: that windows show what they should only if clients do
\* nothing that the code does not stand
Keeps(t, u) == Base(u) /\ (ClientCalls = {} /\ Calm(t) => Calm(u))


-----------------------------------------------------------------------------
(* The window that is dealt with *)

\* A managed window that is not about to be left is held, in its frame.
LEMMA OwnHeld ==
  ASSUME NEW t, NEW a, Own(t, a), t.cwin[a].managed, ~At(t, "deinit", a)
  PROVE  Held(t, a) /\ (Final(t, a).x.exists => Final(t, a).x.parent = "frame")
BY DEF Own, Managed, Held, Good

\* What is known of a window that is no more, and of its answers, stays true.
LEMMA DealsLifeless ==
  ASSUME NEW t, NEW u, NEW a, Deals(t, u, a)
  PROVE  (Lifeless(t, a) => Lifeless(u, a)) /\ (Answered(t, a) => Answered(u, a))
BY DEF Deals, Lifeless, Answered, Has

\* A window that is held in its frame is as it should be ...
LEMMA HeldOwn ==
  ASSUME NEW u \in States, NEW a \in Windows, Held(u, a), Lifeless(u, a), Answered(u, a),
         Final(u, a).x.exists => Final(u, a).x.parent = "frame",
         u.wm # "gone", ~u.twice, u.pc \in {Idle, <<"check", a>>, <<"loaded", a>>},
         ~u.crashed /\ a \notin u.refused /\ u.x[a].exists => u.cwin[a].orig_bw
  PROVE  Own(u, a)
<1>1. ~At(u, "deinit", a) /\ ~At(u, "maprq", a) /\ ~At(u, "scan", a) /\ ~At(u, "create", a)
  BY DEF At, Idle
<1>2. Final(u, a).x.exists = u.x[a].exists
  BY FinalFacts
<1>3. Unseen(u, a) /\ Fine(u, a) /\ u.cwin[a].managed
  BY DEF Held, Good
<1>4. Managed(u, a)
  BY <1>1, <1>3 DEF Managed, Held
<1>5. Restored(u, a)
  BY <1>1, <1>2, <1>3 DEF Restored
<1>6. Untouched(u, a)
  BY <1>3 DEF Untouched, Unscanned
<1> QED BY <1>3, <1>4, <1>5, <1>6 DEF Own

\* ... and so is one that is not managed.
LEMMA FreeOwn ==
  ASSUME NEW u \in States, NEW a \in Windows, Good(u, a), Lifeless(u, a), Answered(u, a),
         ~u.cwin[a].managed, ~u.twice, ~Passing(u, a), u.wm # "gone",
         At(u, "create", a) => Only(u, a, {"select"}),
         Unscanned(u, a) => Only(u, a, {"select", "saveset"}),
         LET z == Final(u, a).x
         IN z.exists =>
              /\ ~z.saved /\ z.parent = "root"
              /\ z.sel => At(u, "maprq", a) \/ At(u, "scan", a) \/ At(u, "create", a)
              /\ ~u.crashed /\ a \notin u.refused => z.border
              /\ u.wm = "exiting" /\ a \in u.kept /\ u.wants[a] => z.mapped \/ Has(u, "MapRequest", a)
  PROVE  Own(u, a)
<1>1. Managed(u, a)
  BY DEF Managed, Good
<1>2. Restored(u, a)
  BY DEF Restored
<1>3. Untouched(u, a) /\ Unseen(u, a)
  BY DEF Untouched, Good
<1> QED BY <1>1, <1>2, <1>3 DEF Own

\* What clients and the user did is counted.
LEMMA MovesFacts ==
  ASSUME NEW t \in States, NEW a
  PROVE  LET u == [t EXCEPT !.moves = @ + 1]
         IN /\ Deals(t, u, a) /\ u \in States /\ u.pc = t.pc /\ u.twice = t.twice /\ u.refused = t.refused
            /\ u.cwin = t.cwin /\ u.place = t.place
            /\ Final(u, a) = Final(t, a) /\ (Good(t, a) => Good(u, a))
<1> DEFINE u == [t EXCEPT !.moves = @ + 1]
<1>1. /\ u \in States /\ u.pc = t.pc /\ u.cwin = t.cwin /\ u.place = t.place /\ u.out = t.out
      /\ u.x = t.x /\ u.ev = t.ev /\ u.wm = t.wm /\ u.prop = t.prop /\ u.icon = t.icon
      /\ u.tmpwins = t.tmpwins /\ u.kept = t.kept /\ u.refused = t.refused /\ u.twice = t.twice
      /\ u.crashed = t.crashed /\ u.wants = t.wants /\ u.asked = t.asked
  <2>1. t.moves + 1 \in Nat
    BY Fields
  <2> QED BY <2>1 DEF States
<1> HIDE DEF u
<1>2. \A v : /\ Leaves(t, u, v) /\ Final(u, v) = Final(t, v) /\ Fine(u, v) = Fine(t, v)
             /\ Unseen(u, v) = Unseen(t, v)
  BY <1>1, Depends
<1> QED BY <1>1, <1>2 DEF u, Deals, Good

\* To tend a managed window keeps the invariant.
LEMMA TendedBase ==
  ASSUME NEW t \in States, NEW a \in Windows, Base(t), t.wm # "gone", t.cwin[a].managed,
         t.pc \in {Idle, <<"check", a>>, <<"loaded", a>>},
         NEW s \in States, Deals(t, s, a), s.cwin = t.cwin, s.twice = t.twice, s.pc = Idle,
         s.refused = t.refused, Final(s, a) = Final(t, a), Good(t, a) => Good(s, a),
         NEW u, Tends(s, u, a)
  PROVE  Base(u)
<1>1. Own(t, a) /\ Phase(t) /\ ~At(t, "deinit", a)
  BY DEF Base, At, Idle
<1>2. Held(t, a) /\ (Final(t, a).x.exists => Final(t, a).x.parent = "frame")
  BY <1>1, OwnHeld
<1>3. Held(s, a)
  BY <1>2 DEF Held
<1>4. /\ Held(u, a) /\ Serves(s, u, a) /\ u \in States
      /\ u.cwin[a].managed = s.cwin[a].managed /\ u.cwin[a].orig_bw = s.cwin[a].orig_bw
      /\ Final(s, a).x.exists => (Final(s, a).x.parent = "frame" => Final(u, a).x.parent = "frame")
  BY <1>3 DEF Tends, Serves
<1>5. Deals(s, u, a) /\ u.pc = s.pc /\ u.twice = s.twice /\ u.refused = s.refused
  BY <1>4, ServesDeals
<1>6. Deals(t, u, a)
  BY <1>5, DealsTwice
<1>7. Final(u, a).x.exists = t.x[a].exists /\ Final(s, a).x.exists = t.x[a].exists /\ u.x = t.x
  BY <1>4, <1>6, FinalFacts DEF Deals
<1>8. Lifeless(u, a) /\ Answered(u, a)
  BY <1>1, <1>6, DealsLifeless DEF Own
<1>9. ~u.crashed /\ a \notin u.refused /\ u.x[a].exists => u.cwin[a].orig_bw
  <2>1. u.crashed = t.crashed
    BY <1>6 DEF Deals
  <2> QED BY <1>1, <1>4, <1>5, <1>7, <2>1 DEF Own, Restored
<1>10. ~u.twice /\ u.wm # "gone"
  BY <1>1, <1>5, <1>6 DEF Own, Managed, Deals
<1>11. Own(u, a)
  BY <1>2, <1>4, <1>5, <1>7, <1>8, <1>9, <1>10, HeldOwn
<1>12. About(t, a) /\ About(u, a) /\ u.pc = Idle
  BY <1>5 DEF About, Idle
<1>13. Docile(t, u, a)
  <2>1. \A k \in {"maprq", "create", "scan"} : ~At(u, k, a)
    BY <1>12 DEF At, Idle
  <2>2. u.pc[2] # a
    BY <1>12, ClientAssumption DEF Idle
  <2>3. Scanned(u, a) => Scanned(t, a)
    BY <1>6, <2>1 DEF Scanned, Deals
  <2>4. u.cwin[a].managed
    BY <1>4
  <2> QED BY <1>1, <2>1, <2>2, <2>3, <2>4 DEF Docile
<1>14. Phase(u)
  <2>1. u.wm = t.wm /\ u.tmpwins = t.tmpwins
    BY <1>6 DEF Deals
  <2>2. u.pc[1] = "idle" /\ \A w : ~At(u, "scan", w) /\ ~At(u, "create", w)
    BY <1>12 DEF At, Idle
  <2> QED BY <1>1, <2>1, <2>2 DEF Phase
<1>15. u.twice = t.twice
  BY <1>5
<1> QED BY <1>6, <1>11, <1>12, <1>13, <1>14, <1>15, DealsBase

\* To leave a window, or to let it be, keeps the invariant.
LEMMA FreedBase ==
  ASSUME NEW t \in States, NEW a \in Windows, Base(t), t.wm # "gone",
         t.cwin[a].managed \/ At(t, "create", a), About(t, a),
         NEW u \in States, Deals(t, u, a), u.pc = Idle, u.twice = t.twice, ~u.cwin[a].managed,
         Good(u, a),
         Scanned(t, a) => (t.cwin[a].managed => ~t.x[a].exists) /\ Only(u, a, {"select", "saveset"}),
         LET z == Final(u, a).x
         IN z.exists =>
              /\ ~z.saved /\ z.parent = "root" /\ ~z.sel
              /\ ~u.crashed /\ a \notin u.refused => z.border
              /\ u.wm = "exiting" /\ a \in u.kept /\ u.wants[a] => z.mapped \/ Has(u, "MapRequest", a)
  PROVE  Base(u)
<1>1. Own(t, a) /\ Phase(t)
  BY DEF Base
<1>2. Lifeless(u, a) /\ Answered(u, a)
  BY <1>1, DealsLifeless DEF Own
<1>3. About(u, a) /\ \A w \in Windows : u.pc[2] # w
  BY ClientAssumption DEF About, Idle
<1>4. \A k, w : k # "idle" => ~At(u, k, w)
  BY DEF At, Idle
<1>5. ~Passing(u, a) /\ ~At(u, "create", a)
  BY <1>4 DEF Passing
<1>6. Scanned(u, a) => Scanned(t, a)
  BY <1>4 DEF Scanned, Deals
<1>7. ~u.twice /\ u.wm # "gone"
  BY <1>1 DEF Own, Managed, Deals
<1>8. Unscanned(u, a) => Only(u, a, {"select", "saveset"})
  BY <1>6 DEF Unscanned
<1>9. Own(u, a)
  BY <1>2, <1>5, <1>7, <1>8, FreeOwn
<1>10. Docile(t, u, a)
  <2>1. At(t, "create", a) => t.pc[2] = a
    BY DEF At
  <2> QED BY <1>3, <1>4, <1>6, <2>1 DEF Docile
<1>11. Phase(u)
  <2>1. u.wm = t.wm /\ u.tmpwins = t.tmpwins
    BY DEF Deals
  <2>2. u.pc[1] = "idle"
    BY DEF Idle
  <2> QED BY <1>1, <1>4, <1>7, <2>1, <2>2 DEF Phase
<1> QED BY <1>3, <1>9, <1>10, <1>11, DealsBase

\* What is waited for is something of a window.
LEMMA PcIs ==
  ASSUME NEW t \in States, NEW k \in {"deinit", "maprq", "scan", "create", "check", "loaded"},
         t.pc[1] = k
  PROVE  t.pc[2] \in Windows /\ t.pc = <<k, t.pc[2]>> /\ At(t, k, t.pc[2]) /\ About(t, t.pc[2])
BY Fields DEF Pcs, Idle, At, About

\* The user's doings keep the invariant.
LEMMA UserBase == ASSUME Base(cw), User PROVE Keeps(cw, cw')
<1>1. PICK w \in Windows :
        /\ cw.cwin[w].managed
        /\ LET t == [cw EXCEPT !.moves = @ + 1]
           IN \/ cw' = clientwin_unmap(t, w)
              \/ cw' = Display(t, w)
              \/ /\ cw' = clientwin_map(t, w)
                 /\ cw.place[w] = cw.cwin[w].geom \/ "lazymap" \in ClientCalls
              \/ \E g \in Geoms : cw' = clientwin_fitrep([t EXCEPT !.place[w] = g], w, FALSE, g)
              \/ \E g \in Geoms, shown \in BOOLEAN : cw' = AttachTo(t, w, g, shown)
  BY DEF User
<1> DEFINE s == [cw EXCEPT !.moves = @ + 1]
<1>2. cw \in States /\ cw.wm = "running" /\ cw.pc = Idle
  BY DEF User, Base
<1>3. /\ Deals(cw, s, w) /\ s \in States /\ s.pc = cw.pc /\ s.twice = cw.twice
      /\ s.refused = cw.refused /\ s.cwin = cw.cwin /\ s.place = cw.place
      /\ Final(s, w) = Final(cw, w) /\ (Good(cw, w) => Good(s, w))
  BY <1>2, MovesFacts
<1>4. \/ cw' = clientwin_unmap(s, w)
      \/ cw' = Display(s, w)
      \/ /\ cw' = clientwin_map(s, w)
         /\ cw.place[w] = cw.cwin[w].geom \/ "lazymap" \in ClientCalls
      \/ \E g \in Geoms : cw' = clientwin_fitrep([s EXCEPT !.place[w] = g], w, FALSE, g)
      \/ \E g \in Geoms, shown \in BOOLEAN : cw' = AttachTo(s, w, g, shown)
  BY <1>1
<1> HIDE DEF s
<1> DEFINE u == cw'
<1> HIDE DEF u
<1>5. Tends(s, u, w) /\ (Visible(s, w) /\ ClientCalls = {} => Shows(u, w))
  <2>1. CASE cw' = clientwin_unmap(s, w)
    BY <1>3, <2>1, UnmapFacts DEF u, Shows
  <2>2. CASE cw' = Display(s, w)
    BY <1>3, <2>2, DisplayFacts DEF u
  <2>3. CASE /\ cw' = clientwin_map(s, w)
             /\ cw.place[w] = cw.cwin[w].geom \/ "lazymap" \in ClientCalls
    <3>1. u = clientwin_map(s, w)
      BY <2>3 DEF u
    <3>2. Tends(s, u, w) /\ Visible(u, w) /\ u.place = s.place /\ u.cwin[w].geom = s.cwin[w].geom
      BY <1>3, <3>1, MapFacts
    <3> QED BY <1>3, <2>3, <3>2 DEF Shows
  <2>4. CASE \E g \in Geoms : cw' = clientwin_fitrep([s EXCEPT !.place[w] = g], w, FALSE, g)
    BY <1>3, <2>4, RefitFacts DEF u
  <2>5. CASE \E g \in Geoms, shown \in BOOLEAN : cw' = AttachTo(s, w, g, shown)
    BY <1>3, <2>5, AttachFacts DEF u
  <2> QED BY <1>4, <2>1, <2>2, <2>3, <2>4, <2>5
<1>6. cw.cwin[w].managed /\ cw.wm # "gone" /\ s.pc = Idle
      /\ cw.pc \in {Idle, <<"check", w>>, <<"loaded", w>>}
  BY <1>1, <1>2, <1>3
<1>7. Base(u)
  BY <1>2, <1>3, <1>5, <1>6, TendedBase
<1>8. ASSUME ClientCalls = {}, Calm(cw) PROVE Calm(u)
  <2>1. /\ Deals(s, u, w) /\ u.pc = s.pc /\ u.twice = s.twice /\ u.refused = s.refused
        /\ u.cwin[w].managed /\ u \in States
    BY <1>1, <1>3, <1>5, ServesDeals DEF Tends, Serves
  <2>2. Deals(cw, u, w)
    BY <1>3, <2>1, DealsTwice
  <2>3. CalmOf(cw, w)
    BY <1>8 DEF Calm
  <2>4. ~At(cw, "loaded", w) /\ ~At(cw, "deinit", w)
    BY <1>2 DEF At, Idle
  <2>5. Visible(cw, w)
    BY <1>1, <2>3, <2>4 DEF CalmOf, Shown, Visible
  <2>6. s.prop = cw.prop /\ s.ev = cw.ev
    BY <1>3 DEF Deals
  <2>7. Visible(s, w)
    BY <1>3, <2>5, <2>6 DEF Visible, Has
  <2>8. CalmOf(u, w)
    BY <1>1, <1>2, <1>3, <1>5, <1>8, <2>1, <2>2, <2>3, <2>7, TendedCalm
  <2>9. About(cw, w) /\ About(u, w) /\ u.twice = cw.twice
    BY <1>2, <1>3, <2>1 DEF About, Idle
  <2> QED BY <1>2, <1>8, <2>2, <2>8, <2>9, DealsCalm
<1> QED BY <1>7, <1>8 DEF u, Keeps

\* Nor does what follows the creation of a window end it.
LEMMA CheckBase == ASSUME Base(cw), postmanage_check PROVE Keeps(cw, cw')
<1> DEFINE w == cw.pc[2]
           t == [cw EXCEPT !.pc = Idle]
<1>1. PICK loaded \in BOOLEAN :
        /\ cw.wm # "gone" /\ cw.pc[1] = (IF loaded THEN "loaded" ELSE "check") /\ cw.out = <<>>
        /\ IF ~cw.x[w].exists THEN cw' = clientwin_destroyed(t, w)
           ELSE IF loaded THEN \E shown \in BOOLEAN :
                                 cw' = IF shown THEN clientwin_map(t, w) ELSE clientwin_unmap(t, w)
           ELSE cw' = t
  BY DEF postmanage_check, Ready
<1>2. cw \in States /\ Phase(cw)
  BY DEF Base
<1>3. w \in Windows /\ cw.pc \in {<<"check", w>>, <<"loaded", w>>} /\ About(cw, w) /\ Passing(cw, w)
  <2>1. CASE loaded
    <3>1. cw.pc[1] = "loaded"
      BY <1>1, <2>1
    <3> QED BY <1>2, <3>1, PcIs DEF Passing
  <2>2. CASE ~loaded
    <3>1. cw.pc[1] = "check"
      BY <1>1, <2>2
    <3> QED BY <1>2, <3>1, PcIs DEF Passing
  <2> QED BY <2>1, <2>2
<1>4. Own(cw, w) /\ cw.cwin[w].managed
  <2>1. Own(cw, w)
    BY <1>3 DEF Base
  <2> QED BY <1>3, <2>1 DEF Own, Managed
<1>5. Idle \in Pcs
  BY DEF Pcs
<1> DEFINE v == w
<1> HIDE DEF v
<1>6. v = w
  BY DEF v
<1> HIDE DEF w, t
<1>7. /\ Deals(cw, t, w) /\ t \in States /\ t.pc = Idle /\ t.twice = cw.twice /\ t.refused = cw.refused
      /\ t.cwin = cw.cwin /\ Final(t, w) = Final(cw, w) /\ (Good(cw, w) => Good(t, w))
      /\ t.out = cw.out /\ t.place = cw.place
  BY <1>2, <1>3, <1>5, PcFacts DEF t
<1> DEFINE u == cw'
<1> HIDE DEF u
<1>8. CASE cw.x[w].exists
  <2>1. Tends(t, u, w)
    <3>1. Tends(t, t, w)
      BY <1>7, ServesNot DEF Tends
    <3>2. u = t \/ u = clientwin_map(t, w) \/ u = clientwin_unmap(t, w)
      BY <1>1, <1>8 DEF w, t, u
    <3>3. Tends(t, clientwin_map(t, w), w) /\ Tends(t, clientwin_unmap(t, w), w)
      BY <1>3, <1>7, MapFacts, UnmapFacts
    <3> QED BY <3>1, <3>2, <3>3
  <2>2. cw.pc \in {Idle, <<"check", w>>, <<"loaded", w>>}
    BY <1>3
  <2>3. Base(u)
    BY <1>1, <1>2, <1>3, <1>4, <1>7, <2>1, <2>2, TendedBase
  <2>4. ASSUME Calm(cw) PROVE Calm(u)
    <3>1. /\ Deals(t, u, w) /\ u.pc = t.pc /\ u.twice = t.twice /\ u.refused = t.refused
          /\ u.cwin[w].managed /\ u \in States
      BY <1>4, <1>7, <2>1, ServesDeals DEF Tends, Serves
    <3>2. Deals(cw, u, w)
      BY <1>7, <3>1, DealsTwice
    <3>3. CalmOf(cw, w)
      BY <1>3, <2>4 DEF Calm
    <3>4. ~At(cw, "deinit", w) /\ (loaded => At(cw, "loaded", w)) /\ (~loaded => ~At(cw, "loaded", w))
      BY <1>1, <1>3 DEF At
    <3>5. Shows(u, w)
      <4>1. CASE loaded
        <5>1. \E shown \in BOOLEAN : u = IF shown THEN clientwin_map(t, w) ELSE clientwin_unmap(t, w)
          BY <1>1, <1>8, <4>1 DEF w, t, u
        <5>2. cw.cwin[w].geom = cw.place[w]
          BY <3>3, <3>4, <4>1 DEF CalmOf, Shown
        <5>3. CASE u = clientwin_map(t, w)
          <6>1. Visible(u, w) /\ u.place = t.place /\ u.cwin[w].geom = t.cwin[w].geom
            BY <1>3, <1>7, <5>3, MapFacts
          <6> QED BY <1>7, <5>2, <6>1 DEF Shows
        <5>4. CASE u = clientwin_unmap(t, w)
          <6>1. Visible(u, w) /\ u.place = t.place /\ u.cwin[w].geom = t.cwin[w].geom
            BY <1>3, <1>7, <5>4, UnmapFacts
          <6> QED BY <1>7, <5>2, <6>1 DEF Shows
        <5> QED BY <5>1, <5>3, <5>4
      <4>2. CASE ~loaded
        <5>1. u = t
          BY <1>1, <1>8, <4>2 DEF w, t, u
        <5>2. Shows(cw, w)
          BY <1>4, <3>3, <3>4, <4>2 DEF CalmOf, Shown, Shows, Visible
        <5>3. t.prop = cw.prop /\ t.ev = cw.ev
          BY <1>7 DEF Deals
        <5> QED BY <1>7, <5>1, <5>2, <5>3 DEF Shows, Visible, Has
      <4> QED BY <4>1, <4>2
    <3>6. cw.x[w].sel
      <4>1. Final(cw, w).x = cw.x[w]
        BY <1>1, <1>2, <1>3, FinalFacts
      <4> QED BY <1>4, <1>8, <3>4, <4>1 DEF Own, Managed
    <3>7. CalmOf(u, w)
      <4>1. u.pc = Idle /\ u.refused = cw.refused
        BY <1>7, <3>1
      <4> QED BY <1>2, <1>3, <1>4, <1>8, <2>2, <3>1, <3>2, <3>3, <3>5, <3>6, <4>1, TendedCalm
    <3>8. About(u, w) /\ u.twice = cw.twice
      BY <1>7, <3>1 DEF About, Idle
    <3> QED BY <1>2, <1>3, <2>4, <3>2, <3>7, <3>8, DealsCalm
  <2> QED BY <2>3, <2>4 DEF u, Keeps
<1>9. CASE ~cw.x[w].exists
  <2>1. u = clientwin_destroyed(t, w)
    BY <1>1, <1>9 DEF w, t, u
  <2>2. Final(t, w).x.exists = cw.x[w].exists
    <3>1. t.x = cw.x
      BY <1>7 DEF Deals
    <3> QED BY <1>3, <1>7, <3>1, FinalFacts
  <2>3. Good(t, w) /\ (Final(t, w).x.exists => Final(t, w).x.parent # "frame")
    BY <1>4, <1>7, <1>9, <2>2 DEF Own, Managed, Good
  <2>4. /\ Deals(t, u, w) /\ u \in States /\ u.pc = t.pc /\ u.twice = t.twice
        /\ u.refused = t.refused /\ Forgotten(t, u, w)
        /\ Only(t, w, {"select", "saveset"}) => Only(u, w, {"select", "saveset"})
    BY <1>3, <1>7, <2>1, <2>3, DestroyedFacts
  <2>5. Deals(cw, u, w)
    BY <1>7, <2>4, DealsTwice
  <2>6. Only(t, w, {"select", "saveset"})
    BY <1>1, <1>7 DEF Only
  <2>7. Good(u, w) /\ u.cwin[w] = NotManaged
    BY <2>4 DEF Forgotten
  <2>8. ~u.cwin[w].managed
    BY <2>7 DEF NotManaged
  <2>9. ~Final(u, w).x.exists
    <3>1. u.x = cw.x
      BY <2>5 DEF Deals
    <3> QED BY <1>3, <1>9, <2>4, <3>1, FinalFacts
  <2>10. Base(u)
    BY <1>1, <1>2, <1>3, <1>4, <1>7, <1>9, <2>4, <2>5, <2>6, <2>7, <2>8, <2>9, FreedBase
  <2>11. ASSUME Calm(cw) PROVE Calm(u)
    <3>1. u.pc = Idle /\ u.twice = cw.twice /\ u.x = cw.x
      BY <1>7, <2>4, <2>5 DEF Deals
    <3>2. Heard(u, w) /\ ~Passing(u, w)
      BY <1>9, <3>1 DEF Heard, Passing, At, Idle
    <3>3. CalmOf(u, w)
      BY <2>8, <3>2, FreeCalm
    <3>4. About(u, w)
      BY <3>1 DEF About, Idle
    <3> QED BY <1>2, <1>3, <2>5, <2>11, <3>1, <3>3, <3>4, DealsCalm
  <2> QED BY <2>10, <2>11 DEF u, Keeps
<1> QED BY <1>8, <1>9

\* Nor does the leaving of a window end it: it is on the root again.
LEMMA ReparentBase == ASSUME Base(cw), reparent_root PROVE Keeps(cw, cw')
<1> DEFINE w == cw.pc[2]
           u == Released(cw, w)
<1>1. cw.wm # "gone" /\ cw.pc[1] = "deinit" /\ cw' = u
  BY DEF reparent_root, Ready
<1>2. cw \in States /\ Phase(cw)
  BY DEF Base
<1>3. w \in Windows /\ cw.pc = <<"deinit", w>> /\ At(cw, "deinit", w) /\ About(cw, w)
  BY <1>1, <1>2, PcIs
<1> HIDE DEF w, u
<1>4. Own(cw, w) /\ cw.cwin[w].managed
  BY <1>3 DEF Base, Own, Managed, Passing
<1> DEFINE z == Final(cw, w).x
           y == Final(u, w).x
<1>5. Good(cw, w) /\ (z.exists => z.sel = FALSE)
  BY <1>3, <1>4 DEF Own, Managed, Good
<1>6. /\ Deals(cw, u, w) /\ u \in States /\ u.pc = Idle /\ u.twice = cw.twice
      /\ u.refused = cw.refused /\ Free(cw, u, w)
  BY <1>2, <1>3, <1>5, ReleasedFacts DEF u
<1>7. u.x = cw.x /\ u.wm = cw.wm /\ u.crashed = cw.crashed
  BY <1>6 DEF Deals
<1>8. y.exists = z.exists
  BY <1>2, <1>3, <1>6, <1>7, FinalFacts
<1>9. ~u.cwin[w].managed /\ Good(u, w)
  BY <1>6 DEF Free, NotManaged
<1>10. ~Scanned(cw, w)
  BY <1>1, <1>2, <1>3 DEF Phase, Scanned, At
<1>11. z.exists /\ ~cw.crashed /\ w \notin cw.refused => z.border
  BY <1>3, <1>4 DEF Own, Restored
<1> HIDE DEF y, z
<1>12. y.exists =>
         /\ ~y.saved /\ y.parent = "root" /\ ~y.sel
         /\ ~u.crashed /\ w \notin u.refused => y.border
         /\ u.wm = "exiting" /\ w \in u.kept /\ u.wants[w] => y.mapped \/ Has(u, "MapRequest", w)
  BY <1>5, <1>6, <1>7, <1>8, <1>11 DEF Free, y, z
<1>13. Base(u)
  BY <1>1, <1>2, <1>3, <1>4, <1>6, <1>9, <1>10, <1>12, FreedBase DEF y
<1>14. ASSUME Calm(cw) PROVE Calm(u)
  <2>1. \A k : (k # "deinit" => ~At(cw, k, w)) /\ (k # "idle" => ~At(u, k, w))
    BY <1>3, <1>6 DEF At, Idle
  <2>2. cw.tmpwins = {} /\ u.tmpwins = {}
    BY <1>1, <1>2, <1>6 DEF Phase, Deals
  <2>3. ~Taken(cw, w) /\ ~Taken(u, w) /\ ~Passing(u, w)
    BY <1>3, <1>4, <1>9, <2>1, <2>2 DEF Taken, Unscanned, Scanned, Passing
  <2>4. Heard(u, w)
    BY <1>2, <1>3, <1>6, <1>14, <2>3, DealsHeard DEF Calm, CalmOf
  <2>5. CalmOf(u, w)
    BY <1>9, <2>3, <2>4, FreeCalm
  <2>6. About(u, w)
    BY <1>6 DEF About, Idle
  <2> QED BY <1>2, <1>3, <1>6, <1>14, <2>5, <2>6, DealsCalm
<1> QED BY <1>1, <1>13, <1>14 DEF Keeps

\* A window that nobody wants.
LEMMA RefusedFacts ==
  ASSUME NEW t \in States, NEW a \in Windows
  PROVE  LET u == [t EXCEPT !.pc = Idle, !.refused = @ \cup {a}]
         IN /\ Deals(t, u, a) /\ u \in States /\ u.pc = Idle /\ u.twice = t.twice /\ a \in u.refused
            /\ u.cwin = t.cwin /\ Final(u, a) = Final(t, a) /\ (Good(t, a) => Good(u, a))
<1> DEFINE u == [t EXCEPT !.pc = Idle, !.refused = @ \cup {a}]
<1>1. /\ u \in States /\ u.pc = Idle /\ u.cwin = t.cwin /\ u.place = t.place /\ u.out = t.out
      /\ u.x = t.x /\ u.ev = t.ev /\ u.wm = t.wm /\ u.prop = t.prop /\ u.icon = t.icon
      /\ u.tmpwins = t.tmpwins /\ u.kept = t.kept /\ u.refused = t.refused \cup {a}
      /\ u.twice = t.twice /\ u.crashed = t.crashed /\ u.wants = t.wants /\ u.asked = t.asked
  <2>1. Idle \in Pcs /\ t.refused \cup {a} \in SUBSET Windows
    BY Fields DEF Pcs
  <2> QED BY <2>1 DEF States
<1> HIDE DEF u
<1>2. \A v : /\ Leaves(t, u, v) /\ Final(u, v) = Final(t, v) /\ Fine(u, v) = Fine(t, v)
             /\ Unseen(u, v) = Unseen(t, v)
  BY <1>1, Depends
<1> QED BY <1>1, <1>2 DEF u, Deals, Good

\* What happens to w alone, while it is created, is in order.
LEMMA CreateDocile ==
  ASSUME NEW t \in States, NEW u, NEW w \in Windows, Deals(t, u, w), Phase(t), At(t, "create", w),
         t.wm # "gone", u.pc \in {Idle, <<"check", w>>}
  PROVE  Docile(t, u, w) /\ Phase(u) /\ About(t, w) /\ About(u, w) /\ t.wm # "exiting"
         /\ ~Scanned(t, w)
<1>1. t.pc[1] = "create" /\ t.pc[2] = w
  BY DEF At
<1>2. w \notin t.tmpwins /\ t.wm # "exiting"
  BY <1>1 DEF Phase
<1>3. \A k : k \notin {"idle", "check"} => \A v : ~At(u, k, v)
  BY DEF At, Idle
<1>4. u.tmpwins = t.tmpwins /\ u.wm = t.wm
  BY DEF Deals
<1>5. ~Scanned(u, w) /\ ~Scanned(t, w)
  BY <1>1, <1>2, <1>3, <1>4 DEF Scanned, At
<1>6. Docile(t, u, w)
  BY <1>1, <1>3, <1>5 DEF Docile, At
<1>7. u.pc[1] \in {"idle", "check"} /\ u.pc[2] \in {w, NoWindow}
  BY DEF Idle
<1>8. Phase(u)
  BY <1>2, <1>3, <1>4, <1>7 DEF Phase
<1> QED BY <1>1, <1>2, <1>5, <1>6, <1>7, <1>8 DEF About

\* Nor the creation of a window.
LEMMA CreateBase == ASSUME Base(cw), Create PROVE Keeps(cw, cw')
<1> DEFINE w == cw.pc[2]
           u == create_clientwin(cw, w)
<1>1. /\ cw.wm # "gone" /\ cw.pc[1] = "create"
      /\ \/ \E g \in Geoms, shown \in BOOLEAN :
              cw' = [AttachTo(u, w, g, shown) EXCEPT !.pc = <<"check", w>>]
         \/ cw' = [clientwin_destroyed(u, w) EXCEPT !.pc = Idle, !.refused = @ \cup {w}]
  BY DEF Create
<1>2. cw \in States /\ Phase(cw)
  BY DEF Base
<1>3. w \in Windows /\ cw.pc = <<"create", w>> /\ At(cw, "create", w) /\ About(cw, w)
  BY <1>1, <1>2, PcIs
<1> DEFINE z == Final(cw, w).x
           x == cw.x[w]
<1> HIDE DEF w, u
<1>4. Own(cw, w)
  BY <1>3 DEF Base
<1>5. ~cw.cwin[w].managed /\ Good(cw, w) /\ Only(cw, w, {"select"}) /\ ~cw.twice
      /\ (z.exists => z.parent = "root")
  BY <1>3, <1>4 DEF Own, Managed, Good
<1>6. /\ Deals(cw, u, w) /\ u \in States /\ u.pc = cw.pc /\ u.twice = cw.twice
      /\ u.refused = cw.refused /\ Created(cw, u, w)
  BY <1>2, <1>3, <1>5, CreateFacts DEF u
<1>7. ~cw.crashed /\ w \notin cw.refused /\ x.exists => x.border
  <2>1. Len(cw.out) \in 0 .. Len(cw.out) /\ Only(cw, w, {"select", "saveset"})
    BY <1>2, <1>5, Fields DEF Only
  <2>2. z.border = x.border /\ z.exists = x.exists
    BY <1>2, <1>3, <2>1, OnlyKeeps DEF Final
  <2>3. ~cw.crashed /\ w \notin cw.refused /\ z.exists => z.border
    BY <1>4, <1>5 DEF Own, Restored
  <2> QED BY <2>2, <2>3
<1> HIDE DEF x, z
<1>8. z.exists = x.exists
  BY <1>2, <1>3, FinalFacts DEF x, z
<1>9. CASE cw' = [clientwin_destroyed(u, w) EXCEPT !.pc = Idle, !.refused = @ \cup {w}]
  <2> DEFINE d == clientwin_destroyed(u, w)
             s == [d EXCEPT !.pc = Idle, !.refused = @ \cup {w}]
  <2>1. Good(u, w) /\ (Final(u, w).x.exists => Final(u, w).x.parent # "frame")
    <3>1. Final(u, w).x.exists = z.exists
      <4>1. u.x = cw.x
        BY <1>6 DEF Deals
      <4> QED BY <1>3, <1>6, <1>8, <4>1, FinalFacts DEF x
    <3> QED BY <1>5, <1>6, <3>1 DEF Created, Held, z
  <2>2. /\ Deals(u, d, w) /\ d \in States /\ d.pc = u.pc /\ d.twice = u.twice
        /\ d.refused = u.refused /\ Forgotten(u, d, w)
    BY <1>3, <1>6, <2>1, DestroyedFacts
  <2> HIDE DEF d
  <2>3. /\ Deals(d, s, w) /\ s \in States /\ s.pc = Idle /\ s.twice = d.twice /\ w \in s.refused
        /\ s.cwin = d.cwin /\ Final(s, w) = Final(d, w) /\ (Good(d, w) => Good(s, w))
    BY <1>3, <2>2, RefusedFacts
  <2> HIDE DEF s
  <2>4. Deals(cw, s, w)
    <3>1. Deals(cw, d, w)
      BY <1>6, <2>2, DealsTwice
    <3> QED BY <2>3, <3>1, DealsTwice
  <2>5. ~Scanned(cw, w) /\ s.wm # "exiting"
    <3>1. s.wm = cw.wm
      BY <2>4 DEF Deals
    <3> QED BY <1>1, <1>2, <1>3, <2>3, <2>4, <3>1, CreateDocile
  <2> DEFINE y == Final(s, w).x
  <2>6. ~s.cwin[w].managed /\ Good(s, w)
    BY <2>2, <2>3 DEF Forgotten, NotManaged
  <2>7. y.exists => ~y.saved /\ ~y.sel /\ y.parent = "root"
    <3>1. y.exists = z.exists
      <4>1. s.x = cw.x
        BY <2>4 DEF Deals
      <4> QED BY <1>3, <1>8, <2>3, <4>1, FinalFacts DEF x
    <3> HIDE DEF y
    <3> QED BY <1>5, <1>6, <2>2, <2>3, <3>1 DEF Forgotten, Created, y, z
  <2>8. Base(s)
    BY <1>1, <1>2, <1>3, <1>6, <2>2, <2>3, <2>4, <2>5, <2>6, <2>7, FreedBase
  <2>9. ASSUME Calm(cw) PROVE Calm(s)
    <3>1. Heard(s, w) /\ ~Passing(s, w) /\ About(s, w)
      BY <2>3 DEF Heard, Passing, At, Idle, About
    <3>2. CalmOf(s, w)
      BY <2>6, <3>1, FreeCalm
    <3>3. s.twice = cw.twice
      BY <1>6, <2>2, <2>3
    <3> QED BY <1>2, <1>3, <2>4, <2>9, <3>1, <3>2, <3>3, DealsCalm
  <2>10. Keeps(cw, s)
    BY <2>8, <2>9 DEF Keeps
  <2> QED BY <1>9, <2>10 DEF s, d
<1>10. CASE \E g \in Geoms, shown \in BOOLEAN :
              cw' = [AttachTo(u, w, g, shown) EXCEPT !.pc = <<"check", w>>]
  <2>1. PICK g \in Geoms, shown \in BOOLEAN :
          cw' = [AttachTo(u, w, g, shown) EXCEPT !.pc = <<"check", w>>]
    BY <1>10
  <2> DEFINE v == AttachTo(u, w, g, shown)
             s == [v EXCEPT !.pc = <<"check", w>>]
  <2>2. /\ Tends(u, v, w) /\ v \in States /\ Shows(v, w)
        /\ Final(u, w).x.exists => Final(v, w).x.parent = "frame"
    BY <1>3, <1>6, AttachFacts
  <2> HIDE DEF v
  <2>3. <<"check", w>> \in Pcs
    BY <1>3 DEF Pcs
  <2>4. /\ Deals(v, s, w) /\ s \in States /\ s.pc = <<"check", w>> /\ s.twice = v.twice
        /\ s.refused = v.refused /\ s.cwin = v.cwin /\ s.place = v.place
        /\ Final(s, w) = Final(v, w) /\ (Good(v, w) => Good(s, w))
    BY <1>3, <2>2, <2>3, PcFacts
  <2> HIDE DEF s
  <2>5. Serves(u, v, w) /\ Held(v, w) /\ v.cwin[w].orig_bw = x.border
    BY <1>6, <2>2 DEF Tends, Created, x
  <2>6. Deals(u, v, w) /\ v.pc = u.pc /\ v.twice = u.twice /\ v.refused = u.refused
    BY <2>5, ServesDeals
  <2>7. Deals(cw, s, w)
    <3>1. Deals(cw, v, w)
      BY <1>6, <2>6, DealsTwice
    <3> QED BY <2>4, <3>1, DealsTwice
  <2>8. s.x = cw.x /\ s.wm = cw.wm /\ s.crashed = cw.crashed
    BY <2>7 DEF Deals
  <2>9. Final(s, w).x.exists => Final(s, w).x.parent = "frame"
    <3>1. Final(s, w).x.exists = Final(u, w).x.exists
      <4>1. u.x = cw.x
        BY <1>6 DEF Deals
      <4> QED BY <1>3, <1>6, <2>4, <2>8, <4>1, FinalFacts
    <3> QED BY <2>2, <2>4, <3>1
  <2>10. Held(s, w)
    BY <2>4, <2>5 DEF Held
  <2>11. Lifeless(s, w) /\ Answered(s, w)
    BY <1>4, <2>7, DealsLifeless DEF Own
  <2>12. s.twice = cw.twice /\ s.refused = cw.refused /\ s.cwin[w].orig_bw = x.border
    BY <1>6, <2>4, <2>5, <2>6
  <2>13. ~s.crashed /\ w \notin s.refused /\ s.x[w].exists => s.cwin[w].orig_bw
    BY <1>7, <2>8, <2>12 DEF x
  <2>14. Own(s, w)
    BY <1>1, <1>3, <1>5, <2>4, <2>8, <2>9, <2>10, <2>11, <2>12, <2>13, HeldOwn
  <2>15. s.pc \in {Idle, <<"check", w>>}
    BY <2>4
  <2>16. Docile(cw, s, w) /\ Phase(s) /\ About(cw, w) /\ About(s, w)
    BY <1>1, <1>2, <1>3, <2>7, <2>15, CreateDocile
  <2>17. Base(s)
    BY <1>2, <1>3, <2>7, <2>12, <2>14, <2>16, DealsBase
  <2>18. ASSUME Calm(cw) PROVE Calm(s)
    <3>1. s.prop = v.prop /\ s.ev = v.ev
      BY <2>4 DEF Deals
    <3>2. Shows(s, w)
      BY <2>2, <2>4, <3>1 DEF Shows, Visible, Has
    <3>3. At(s, "check", w) /\ ~At(s, "loaded", w) /\ ~At(s, "deinit", w) /\ s.cwin[w].managed
      BY <2>4, <2>10 DEF At, Held
    <3>4. Taken(s, w) /\ Taken(cw, w) /\ Noticed(s, w)
      BY <1>3, <3>3 DEF Taken, Noticed, Passing
    <3>5. Heard(s, w)
      BY <1>2, <1>3, <2>7, <2>12, <2>18, <3>4, DealsHeard DEF Calm, CalmOf
    <3>6. CalmOf(s, w)
      BY <3>2, <3>3, <3>4, <3>5, ShowsCalm
    <3> QED BY <1>2, <1>3, <2>7, <2>12, <2>16, <2>18, <3>6, DealsCalm
  <2>19. Keeps(cw, s)
    BY <2>17, <2>18 DEF Keeps
  <2> QED BY <2>1, <2>19 DEF s, v
<1> QED BY <1>1, <1>9, <1>10 DEF u, w

\* What is kept of a loaded window, with its place, which it is resized to.
LEMMA LoadFacts ==
  ASSUME NEW t \in States, NEW w \in Windows, NEW g \in Geoms, Held(t, w)
  PROVE  LET v == [t EXCEPT !.cwin[w].geom = g, !.cwin[w].parent = "frame", !.place[w] = g]
             u == Send(v, w, <<<<"resize", w, g>>>>)
             c == t.cwin[w]
             d == u.cwin[w]
         IN /\ Serves(t, u, w) /\ Held(u, w) /\ u.place[w] = g
            /\ d.orig_bw = c.orig_bw /\ d.state = c.state /\ d.mapped = c.mapped /\ d.geom = g
            /\ Final(t, w).x.exists => Final(u, w).x.parent = Final(t, w).x.parent
<1> DEFINE c == t.cwin[w]
           k == [c EXCEPT !.geom = g, !.parent = "frame"]
           v == Kept(t, w, k)
           p == [v EXCEPT !.place[w] = g]
           r == <<"resize", w, g>>
           u == Ask(p, r)
<1>1. c \in CWins
  BY Fields
<1>2. /\ k \in CWins /\ k.managed = c.managed /\ k.state = c.state /\ k.mapped = c.mapped
      /\ k.geom = g /\ k.orig_bw = c.orig_bw
  BY <1>1 DEF CWins
<1>3. [t EXCEPT !.cwin[w].geom = g, !.cwin[w].parent = "frame", !.place[w] = g] = p
  BY DEF Kept
<1> HIDE DEF k
<1>4. /\ Serves(t, v, w) /\ v \in States /\ v.cwin[w] = k /\ v.place = t.place /\ v.out = t.out
      /\ Final(v, w) = Final(t, w) /\ (Good(t, w) => Good(v, w))
  BY <1>2, KeptFacts
<1> HIDE DEF v
<1>5. /\ Tends(v, p, w) /\ p \in States /\ p.cwin = v.cwin /\ p.place[w] = g
      /\ Final(p, w) = Final(v, w)
  BY <1>4, PlaceFacts
<1>6. Good(v, w) => Good(p, w)
  <2>1. p.x = v.x /\ p.asked = v.asked /\ p.out = v.out /\ p.icon = v.icon
    BY <1>4 DEF States
  <2> HIDE DEF p
  <2>2. Fine(p, w) = Fine(v, w) /\ Unseen(p, w) = Unseen(v, w)
    BY <2>1, Depends
  <2> QED BY <2>2 DEF Good
<1>7. r \in Requests /\ r[2] = w /\ r[1] = "resize" /\ r[3] = g
  BY RequestTypes
<1> HIDE DEF p, r
<1>8. Asked(p, u, w, r)
  BY <1>5, <1>7, AskDone
<1>9. Send(p, w, <<r>>) = u
  BY <1>5, <1>7, SendOne
<1> HIDE DEF u
<1>10. Serves(t, u, w)
  <2>1. Serves(v, p, w) /\ Serves(p, u, w)
    BY <1>5, <1>8 DEF Tends, Asked
  <2>2. Serves(t, p, w)
    BY <1>4, <2>1, ServesTwice
  <2> QED BY <2>1, <2>2, ServesTwice
<1> DEFINE z == Final(t, w).x
           y == Final(u, w).x
<1>11. y.exists = z.exists
  BY <1>4, <1>5, <1>8 DEF Asked
<1>12. z.exists => /\ y.sel = z.sel /\ y.saved = z.saved /\ y.parent = z.parent /\ y.state = z.state
                   /\ y.geom = g
  <2> SUFFICES ASSUME z.exists
               PROVE /\ y.sel = z.sel /\ y.saved = z.saved /\ y.parent = z.parent /\ y.state = z.state
                     /\ y.geom = g
    OBVIOUS
  <2>1. Parts(Final(t, w), Final(u, w), r)
    BY <1>4, <1>5, <1>8 DEF Asked
  <2> QED BY <1>7, <2>1 DEF Parts
<1>13. Good(u, w)
  <2>1. Good(p, w) /\ (z.exists => z.saved)
    BY <1>4, <1>6 DEF Held
  <2> HIDE DEF y, z
  <2>2. y.exists /\ y.parent = "frame" => y.saved
    BY <1>11, <1>12, <2>1
  <2> QED BY <1>7, <1>8, <2>1, <2>2 DEF Asked, y
<1>14. u.cwin[w] = k /\ u.place[w] = g
  BY <1>4, <1>5, <1>8 DEF Asked
<1> HIDE DEF y, z
<1>15. Held(u, w)
  BY <1>2, <1>11, <1>12, <1>13, <1>14 DEF Held, y, z
<1> QED BY <1>2, <1>3, <1>9, <1>10, <1>12, <1>14, <1>15 DEF u, r, y, z

\* Nor that a window is loaded from the layout.
LEMMA LoadBase == ASSUME Base(cw), clientwin_load PROVE Keeps(cw, cw')
<1>1. PICK w \in cw.tmpwins, g \in Geoms :
        /\ cw.wm = "init" /\ cw.pc[1] = "idle" /\ cw.out = <<>>
        /\ ~cw.cwin[w].managed /\ cw.x[w].exists /\ cw.x[w].mapped
        /\ LET u == do_reparent_clientwin(create_clientwin(cw, w), w, "frame")
               v == [u EXCEPT !.cwin[w].geom = g, !.cwin[w].parent = "frame", !.place[w] = g]
           IN cw' = [Send(v, w, <<<<"resize", w, g>>>>) EXCEPT !.pc = <<"loaded", w>>]
  BY DEF clientwin_load, Ready
<1> DEFINE u == create_clientwin(cw, w)
           r == <<"reparent", w, "frame">>
           a == Masked(u, w, <<r>>)
           v == [a EXCEPT !.cwin[w].geom = g, !.cwin[w].parent = "frame", !.place[w] = g]
           b == Send(v, w, <<<<"resize", w, g>>>>)
           s == [b EXCEPT !.pc = <<"loaded", w>>]
<1>2. cw' = s
  BY <1>1 DEF do_reparent_clientwin
<1>3. cw \in States /\ Phase(cw) /\ w \in Windows
  BY Fields DEF Base
<1>4. cw.pc = Idle /\ About(cw, w)
  BY <1>1, <1>3, Fields DEF Pcs, About, Idle
<1>5. Own(cw, w) /\ Good(cw, w) /\ ~cw.twice /\ Only(cw, w, {"select"})
  BY <1>1, <1>3 DEF Base, Own, Managed, Good, Only
<1> HIDE DEF u
<1>6. /\ Deals(cw, u, w) /\ u \in States /\ u.pc = cw.pc /\ u.twice = cw.twice
      /\ u.refused = cw.refused /\ Created(cw, u, w)
  BY <1>1, <1>3, <1>5, CreateFacts DEF u
<1>7. r \in Requests /\ r[2] = w /\ r[1] = "reparent" /\ r[3] = "frame"
  BY <1>3, RequestTypes
<1> HIDE DEF r
<1>8. Tends(u, a, w) /\ a \in States /\ Behind(u, a, w, r) /\ a.cwin = u.cwin
  BY <1>3, <1>6, <1>7, MaskedTends
<1> HIDE DEF a
<1>9. Held(a, w) /\ Serves(u, a, w) /\ (Final(u, w).x.exists => Final(a, w).x.parent = "frame")
  BY <1>6, <1>7, <1>8 DEF Created, Tends, Behind
<1>10. LET d == b.cwin[w]
           c == a.cwin[w]
       IN /\ Serves(a, b, w) /\ Held(b, w) /\ b.place[w] = g
          /\ d.orig_bw = c.orig_bw /\ d.state = c.state /\ d.mapped = c.mapped /\ d.geom = g
          /\ Final(a, w).x.exists => Final(b, w).x.parent = Final(a, w).x.parent
  BY <1>3, <1>8, <1>9, LoadFacts
<1> HIDE DEF v, b
<1>11. <<"loaded", w>> \in Pcs /\ b \in States
  BY <1>3, <1>10 DEF Pcs, Serves
<1>12. /\ Deals(b, s, w) /\ s \in States /\ s.pc = <<"loaded", w>> /\ s.twice = b.twice
       /\ s.refused = b.refused /\ s.cwin = b.cwin /\ s.place = b.place
       /\ Final(s, w) = Final(b, w) /\ (Good(b, w) => Good(s, w))
  BY <1>3, <1>11, PcFacts
<1> HIDE DEF s
<1>13. /\ Deals(u, a, w) /\ a.twice = u.twice /\ a.refused = u.refused
       /\ Deals(a, b, w) /\ b.twice = a.twice /\ b.refused = a.refused
  BY <1>9, <1>10, ServesDeals
<1>14. Deals(cw, s, w)
  <2>1. Deals(cw, a, w)
    BY <1>6, <1>13, DealsTwice
  <2>2. Deals(cw, b, w)
    BY <1>13, <2>1, DealsTwice
  <2> QED BY <1>12, <2>2, DealsTwice
<1>15. s.x = cw.x /\ s.wm = cw.wm /\ s.crashed = cw.crashed /\ s.tmpwins = cw.tmpwins
  BY <1>14 DEF Deals
<1>16. Held(s, w)
  BY <1>10, <1>12 DEF Held
<1>17. Final(s, w).x.exists => Final(s, w).x.parent = "frame"
  <2>1. Final(u, w).x.exists = Final(s, w).x.exists /\ Final(a, w).x.exists = Final(s, w).x.exists
    <3>1. u.x = s.x /\ a.x = s.x
      BY <1>6, <1>9, <1>15 DEF Deals, Serves, Aside
    <3> QED BY <1>3, <1>6, <1>8, <1>12, <3>1, FinalFacts
  <2> QED BY <1>9, <1>10, <1>12, <2>1
<1>18. s.twice = cw.twice /\ s.refused = cw.refused /\ s.cwin[w].orig_bw = cw.x[w].border
  BY <1>6, <1>8, <1>10, <1>12, <1>13 DEF Created
<1>19. ~s.crashed /\ w \notin s.refused /\ s.x[w].exists => s.cwin[w].orig_bw
  <2>1. Final(cw, w).x = cw.x[w]
    BY <1>1, <1>3, FinalFacts
  <2> QED BY <1>1, <1>5, <1>15, <1>18, <2>1 DEF Own, Restored
<1>20. Lifeless(s, w) /\ Answered(s, w)
  BY <1>5, <1>14, DealsLifeless DEF Own
<1>21. Own(s, w)
  BY <1>1, <1>3, <1>5, <1>12, <1>15, <1>16, <1>17, <1>18, <1>19, <1>20, HeldOwn
<1>22. About(s, w) /\ s.pc[1] = "loaded" /\ \A k : k # "loaded" => \A i : ~At(s, k, i)
  BY <1>12 DEF About, At
<1>23. Docile(cw, s, w)
  <2>1. \A k : k # "idle" => ~At(cw, k, w)
    BY <1>4 DEF At, Idle
  <2>2. Scanned(cw, w) /\ s.cwin[w].managed
    BY <1>16 DEF Scanned, Held
  <2> QED BY <1>1, <1>22, <2>1, <2>2 DEF Docile
<1>24. Phase(s)
  BY <1>1, <1>3, <1>15, <1>22 DEF Phase
<1>25. Base(s)
  BY <1>3, <1>4, <1>14, <1>18, <1>21, <1>22, <1>23, <1>24, DealsBase
<1>26. ASSUME Calm(cw) PROVE Calm(s)
  <2>1. LET c == s.cwin[w] IN c.state = "Withdrawn" /\ ~c.mapped /\ c.geom = s.place[w]
    BY <1>6, <1>8, <1>10, <1>12 DEF Created
  <2>2. At(s, "loaded", w) /\ ~At(s, "deinit", w) /\ s.cwin[w].managed
    BY <1>12, <1>16 DEF At, Held
  <2>3. Shown(s, w) /\ Noticed(s, w)
    BY <2>1, <2>2 DEF Shown, Noticed, Passing
  <2>4. Taken(cw, w) /\ Taken(s, w)
    BY <1>1, <2>2 DEF Taken, Unscanned, Scanned
  <2>5. Heard(s, w)
    BY <1>3, <1>14, <1>18, <1>26, <2>4, DealsHeard DEF Calm, CalmOf
  <2> QED BY <1>3, <1>4, <1>14, <1>18, <1>22, <1>26, <2>3, <2>5, DealsCalm DEF CalmOf
<1>27. Keeps(cw, s)
  BY <1>25, <1>26 DEF Keeps
<1> QED BY <1>2, <1>27

\* A window that is scanned, or passed over, does not wait for it any more.
LEMMA LessScanned ==
  ASSUME NEW t \in States, NEW w \in Windows
  PROVE  LET u == [t EXCEPT !.tmpwins = @ \ {w}]
         IN /\ u \in States /\ u.pc = t.pc /\ u.wm = t.wm /\ u.tmpwins = t.tmpwins \ {w}
            /\ u.out = t.out /\ u.ev = t.ev /\ u.asked = t.asked
            /\ \A v \in Windows : (Own(t, v) => Own(u, v)) /\ (Dock(t, v) => Dock(u, v))
            /\ \A v \in Windows : t.cwin[w].managed \/ At(t, "scan", w) =>
                                    (CalmOf(t, v) => CalmOf(u, v))
<1> DEFINE u == [t EXCEPT !.tmpwins = @ \ {w}]
<1>1. /\ u \in States /\ u.pc = t.pc /\ u.cwin = t.cwin /\ u.place = t.place /\ u.out = t.out
      /\ u.x = t.x /\ u.ev = t.ev /\ u.wm = t.wm /\ u.prop = t.prop /\ u.icon = t.icon
      /\ u.tmpwins = t.tmpwins \ {w} /\ u.kept = t.kept /\ u.refused = t.refused
      /\ u.twice = t.twice /\ u.crashed = t.crashed /\ u.wants = t.wants /\ u.asked = t.asked
  <2>1. t.tmpwins \ {w} \in SUBSET Windows
    BY Fields
  <2> QED BY <2>1 DEF States
<1> HIDE DEF u
<1>2. ASSUME NEW v \in Windows
      PROVE  /\ Final(u, v) = Final(t, v) /\ Fine(u, v) = Fine(t, v) /\ Unseen(u, v) = Unseen(t, v)
             /\ \A K : Only(u, v, K) = Only(t, v, K)
             /\ Single(u, v) = Single(t, v)
             /\ \A k : At(u, k, v) = At(t, k, v) /\ Has(u, k, v) = Has(t, k, v)
             /\ Scanned(u, v) => Scanned(t, v)
  BY <1>1, Depends DEF At, Has, Scanned
<1>3. ASSUME NEW v \in Windows, Own(t, v) PROVE Own(u, v)
  <2>1. Lifeless(u, v)
    BY <1>1, <1>2, <1>3 DEF Own, Lifeless
  <2>2. Managed(u, v)
    BY <1>1, <1>2, <1>3 DEF Own, Managed, Passing
  <2>3. Answered(u, v) /\ Unseen(u, v)
    BY <1>2, <1>3 DEF Own, Answered
  <2>4. Restored(u, v)
    BY <1>1, <1>2, <1>3 DEF Own, Restored
  <2>5. Untouched(u, v)
    BY <1>1, <1>2, <1>3 DEF Own, Untouched, Unscanned
  <2> QED BY <2>1, <2>2, <2>3, <2>4, <2>5 DEF Own
<1>4. ASSUME NEW v \in Windows, Dock(t, v) PROVE Dock(u, v)
  <2> DEFINE i == t.icon[v]
  <2> SUFFICES ASSUME i # NoWindow PROVE Dock(u, v)
    BY <1>1 DEF Dock
  <2>1. i \in Windows
    BY Fields
  <2> HIDE DEF i
  <2>2. /\ (Asks(u, v) <=> Asks(t, v)) /\ (Asks(u, i) <=> Asks(t, i))
        /\ (Once(u, v) <=> Once(t, v)) /\ (Order(u, v, i) <=> Order(t, v, i))
    BY <1>1, <1>2, <2>1 DEF Asks, Once, Order
  <2>3. Docked(t, v, i) => Docked(u, v, i)
    BY <1>1, <1>2, <2>1, <2>2 DEF Docked
  <2> QED BY <1>1, <1>2, <1>4, <2>1, <2>2, <2>3 DEF Dock, i
<1>5. ASSUME NEW v \in Windows, t.cwin[w].managed \/ At(t, "scan", w), CalmOf(t, v)
      PROVE  CalmOf(u, v)
  <2>1. Shown(u, v)
    BY <1>1, <1>2, <1>5 DEF CalmOf, Shown
  <2>2. Noticed(u, v)
    BY <1>1, <1>2, <1>5 DEF CalmOf, Noticed, Passing
  <2>3. Unscanned(u, v) <=> Unscanned(t, v)
    BY <1>1, <1>2, <1>5 DEF Unscanned, Scanned
  <2>4. Heard(u, v)
    <3>1. /\ (Silent(u, v) <=> Silent(t, v)) /\ (Taken(u, v) <=> Taken(t, v))
          /\ \A e : LastWord(u, v, e) <=> LastWord(t, v, e)
      BY <1>1, <1>2, <2>3 DEF Silent, Taken, LastWord
    <3> QED BY <1>1, <1>2, <1>5, <3>1 DEF CalmOf, Heard
  <2> QED BY <2>1, <2>2, <2>4 DEF CalmOf
<1> QED BY <1>1, <1>3, <1>4, <1>5 DEF u

\* A window that is looked at is watched from then on.
LEMMA WatchedOwn ==
  ASSUME NEW t \in States, NEW w \in Windows, Own(t, w), ~t.cwin[w].managed, t.pc = Idle,
         t.wm \in {"init", "running"}, NEW maprq \in BOOLEAN, maprq \/ w \in t.tmpwins
  PROVE  LET u == ioncore_manage_clientwin(t, w, maprq)
         IN /\ Deals(t, u, w) /\ u.pc = <<IF maprq THEN "maprq" ELSE "scan", w>>
            /\ u.twice = t.twice /\ u.refused = t.refused /\ u.cwin = t.cwin /\ Own(u, w)
<1> DEFINE r == <<"select", w, TRUE>>
           m == Ask(t, r)
           p == <<IF maprq THEN "maprq" ELSE "scan", w>>
           u == [m EXCEPT !.pc = p]
           z == Final(t, w).x
           y == Final(u, w).x
<1>1. r \in Requests /\ r[2] = w /\ r[1] = "select" /\ r[3] = TRUE
  BY RequestTypes
<1>2. ioncore_manage_clientwin(t, w, maprq) = u
  <2>1. Send(t, w, <<r>>) = m
    BY <1>1, SendOne
  <2> QED BY <2>1 DEF ioncore_manage_clientwin
<1> HIDE DEF r
<1>3. Asked(t, m, w, r)
  BY <1>1, AskDone
<1>4. m \in States /\ p \in Pcs
  BY <1>3 DEF Asked, Pcs
<1> HIDE DEF m
<1>5. p \in {<<"maprq", w>>, <<"scan", w>>}
  OBVIOUS
<1> HIDE DEF p
<1>6. /\ Deals(m, u, w) /\ u \in States /\ u.pc = p /\ u.twice = m.twice /\ u.refused = m.refused
      /\ u.cwin = m.cwin /\ Final(u, w) = Final(m, w) /\ (Good(m, w) => Good(u, w))
      /\ \A K : Only(m, w, K) => Only(u, w, K)
  BY <1>4, PcFacts
<1> HIDE DEF u
<1>7. /\ Deals(t, m, w) /\ m.pc = t.pc /\ m.twice = t.twice /\ m.refused = t.refused
      /\ m.cwin = t.cwin
  BY <1>3, ServesDeals DEF Asked
<1>8. Deals(t, u, w)
  BY <1>6, <1>7, DealsTwice
<1>9. u.wm = t.wm /\ u.crashed = t.crashed /\ u.tmpwins = t.tmpwins /\ y.exists = z.exists
  BY <1>3, <1>6, <1>8 DEF Deals, Asked
<1>10. z.exists => y.saved = z.saved /\ y.parent = z.parent /\ y.border = z.border
  <2> SUFFICES ASSUME z.exists PROVE y.saved = z.saved /\ y.parent = z.parent /\ y.border = z.border
    OBVIOUS
  <2>1. Parts(Final(t, w), Final(m, w), r)
    BY <1>3 DEF Asked
  <2> QED BY <1>1, <1>6, <2>1 DEF Parts
<1>11. /\ Good(t, w) /\ ~t.twice
       /\ z.exists => /\ ~z.saved /\ z.parent = "root"
                      /\ ~t.crashed /\ w \notin t.refused => z.border
  BY DEF Own, Managed, Restored, Good
<1> HIDE DEF y, z
<1>12. Good(u, w)
  BY <1>1, <1>3, <1>6, <1>9, <1>10, <1>11 DEF Asked, y, z
<1>13. \A k : k \notin {"maprq", "scan"} => ~At(u, k, w)
  BY <1>5, <1>6 DEF At
<1>14. At(u, "maprq", w) \/ At(u, "scan", w)
  BY <1>5, <1>6 DEF At
<1>15. Unscanned(u, w) => Only(u, w, {"select", "saveset"})
  <2> SUFFICES ASSUME Unscanned(u, w) PROVE Only(u, w, {"select", "saveset"})
    OBVIOUS
  <2>1. w \in t.tmpwins
    BY <1>6, <1>9 DEF Unscanned, Scanned, At, p
  <2>2. Unscanned(t, w)
    BY <2>1 DEF Unscanned, Scanned
  <2>3. Only(t, w, {"select", "saveset"})
    BY <2>2 DEF Own, Untouched
  <2> QED BY <1>1, <1>3, <1>6, <2>3 DEF Asked
<1>16. Lifeless(u, w) /\ Answered(u, w)
  BY <1>8, DealsLifeless DEF Own
<1>17. Own(u, w)
  <2>1. ~Passing(u, w)
    BY <1>13 DEF Passing
  <2> QED BY <1>6, <1>7, <1>9, <1>10, <1>11, <1>12, <1>13, <1>14, <1>15, <1>16, <2>1, FreeOwn DEF y
<1> QED BY <1>2, <1>6, <1>7, <1>8, <1>17 DEF p, u

\* Nor the scan of the windows that were there before.
LEMMA ScanBase == ASSUME Base(cw), rootwin_manage_initial_windows PROVE Keeps(cw, cw')
<1>1. PICK w \in cw.tmpwins :
        /\ cw.wm = "init" /\ cw.pc = Idle
        /\ cw' = [ioncore_manage_clientwin(cw, w, FALSE) EXCEPT !.tmpwins = @ \ {w}]
  BY DEF rootwin_manage_initial_windows
<1> DEFINE m == ioncore_manage_clientwin(cw, w, FALSE)
           u == [m EXCEPT !.tmpwins = @ \ {w}]
<1>2. cw \in States /\ Phase(cw) /\ w \in Windows /\ Own(cw, w)
  BY Fields DEF Base
<1>3. CASE cw.cwin[w].managed
  <2>1. m = cw
    BY <1>3 DEF ioncore_manage_clientwin
  <2> DEFINE s == [cw EXCEPT !.tmpwins = @ \ {w}]
  <2>2. cw' = s
    BY <1>1, <2>1
  <2>3. /\ s \in States /\ s.pc = cw.pc /\ s.wm = cw.wm /\ s.tmpwins = cw.tmpwins \ {w}
        /\ s.out = cw.out /\ s.ev = cw.ev /\ s.asked = cw.asked
        /\ \A v \in Windows : (Own(cw, v) => Own(s, v)) /\ (Dock(cw, v) => Dock(s, v))
        /\ \A v \in Windows : CalmOf(cw, v) => CalmOf(s, v)
    BY <1>2, <1>3, LessScanned
  <2> HIDE DEF s
  <2>4. Phase(s)
    BY <1>1, <1>2, <2>3 DEF Phase, At
  <2>5. Keeps(cw, s)
    BY <2>3, <2>4 DEF Base, Calm, Keeps
  <2> QED BY <2>2, <2>5
<1>4. CASE ~cw.cwin[w].managed
  <2>1. FALSE \in BOOLEAN
    OBVIOUS
  <2>2. /\ Deals(cw, m, w) /\ m.pc = <<"scan", w>> /\ m.twice = cw.twice /\ m.refused = cw.refused
        /\ m.cwin = cw.cwin /\ Own(m, w)
    BY <1>1, <1>2, <1>4, <2>1, WatchedOwn
  <2> HIDE DEF m
  <2>3. \A k : k # "scan" => ~At(m, k, w)
    BY <2>2 DEF At
  <2>4. About(cw, w) /\ About(m, w) /\ ~At(cw, "deinit", w)
    BY <1>1, <2>2 DEF About, Idle, At
  <2>5. Docile(cw, m, w)
    <3>1. Scanned(cw, w)
      BY DEF Scanned
    <3> QED BY <1>4, <2>2, <2>3, <2>4, <3>1 DEF Docile
  <2>6. BaseBut(cw, w)
    BY <1>2 DEF Base, BaseBut, Own
  <2>7. m \in States /\ \A v \in Windows : Own(m, v) /\ Dock(m, v)
    BY <1>2, <2>2, <2>4, <2>5, <2>6, DealsAll
  <2>8. /\ u \in States /\ u.pc = m.pc /\ u.wm = m.wm /\ u.tmpwins = m.tmpwins \ {w}
        /\ \A v \in Windows : (Own(m, v) => Own(u, v)) /\ (Dock(m, v) => Dock(u, v))
        /\ \A v \in Windows : CalmOf(m, v) => CalmOf(u, v)
    <3>1. At(m, "scan", w)
      BY <2>2 DEF At
    <3> QED BY <1>2, <2>7, <3>1, LessScanned
  <2> HIDE DEF u
  <2>9. Phase(u)
    <3>1. u.wm = "init" /\ u.pc = <<"scan", w>> /\ w \notin u.tmpwins
      BY <1>1, <2>2, <2>8 DEF Deals
    <3> QED BY <3>1 DEF Phase, At
  <2>10. Base(u)
    BY <2>7, <2>8, <2>9 DEF Base
  <2>11. ASSUME Calm(cw) PROVE Calm(u)
    <3>1. m.tmpwins = cw.tmpwins /\ m.x = cw.x
      BY <2>2 DEF Deals
    <3>2. Taken(cw, w) <=> Taken(m, w)
      <4>1. Scanned(cw, w) /\ Scanned(m, w) /\ \A k : k # "idle" => ~At(cw, k, w)
        BY <1>1, <3>1 DEF Scanned, At, Idle
      <4> QED BY <1>4, <2>2, <2>3, <3>1, <4>1 DEF Taken, Unscanned
    <3>3. Heard(m, w) /\ ~Passing(m, w)
      BY <1>2, <2>2, <2>3, <2>11, <3>2, DealsHeard DEF Calm, CalmOf, Passing
    <3>4. CalmOf(m, w)
      BY <1>4, <2>2, <3>3, FreeCalm
    <3>5. Calm(m)
      BY <1>2, <2>2, <2>4, <2>11, <3>4, DealsCalm
    <3> QED BY <2>8, <3>5 DEF Calm
  <2>12. Keeps(cw, u)
    BY <2>10, <2>11 DEF Keeps
  <2> QED BY <1>1, <2>12 DEF u, m
<1> QED BY <1>3, <1>4

\* A window that is let go again, or is only selected, is as it should be.
LEMMA LookedOwn ==
  ASSUME NEW t \in States, NEW w \in Windows, Base(t), NEW k \in {"maprq", "scan"}, At(t, k, w),
         t.wm # "gone", NEW u \in States, Deals(t, u, w), u.twice = t.twice, u.refused = t.refused,
         u.cwin = t.cwin, Good(u, w), ~At(u, "check", w), ~At(u, "loaded", w), ~At(u, "deinit", w),
         ~At(u, "scan", w), At(u, "create", w) => Only(u, w, {"select"}),
         LET z == Final(t, w).x
             y == Final(u, w).x
         IN z.exists => /\ y.saved = z.saved /\ y.parent = z.parent /\ y.border = z.border
                        /\ y.sel => At(u, "maprq", w) \/ At(u, "create", w)
  PROVE  Own(u, w) /\ ~Scanned(u, w)
<1> DEFINE z == Final(t, w).x
           y == Final(u, w).x
<1>1. Own(t, w) /\ Phase(t) /\ t.pc[1] = k /\ t.pc[2] = w
  BY DEF Base, At
<1>2. /\ ~t.cwin[w].managed /\ ~t.twice
      /\ z.exists => /\ ~z.saved /\ z.parent = "root"
                     /\ ~t.crashed /\ w \notin t.refused => z.border
  <2>1. Managed(t, w) /\ Restored(t, w) /\ (At(t, "maprq", w) \/ At(t, "scan", w))
    BY <1>1 DEF Own
  <2> QED BY <2>1 DEF Managed, Restored
<1>3. u.x = t.x /\ u.wm = t.wm /\ u.crashed = t.crashed /\ u.tmpwins = t.tmpwins
  BY DEF Deals
<1>4. y.exists = z.exists
  BY <1>3, FinalFacts
<1>5. ~Scanned(u, w) /\ t.wm # "exiting"
  <2>1. w \notin t.tmpwins /\ t.wm # "exiting"
    BY <1>1 DEF Phase
  <2> QED BY <1>3, <2>1 DEF Scanned
<1>6. Lifeless(u, w) /\ Answered(u, w)
  BY <1>1, DealsLifeless DEF Own
<1>7. ~Passing(u, w) /\ ~Unscanned(u, w)
  BY <1>5 DEF Passing, Unscanned
<1>8. z.exists => /\ y.saved = z.saved /\ y.parent = z.parent /\ y.border = z.border
                  /\ y.sel => At(u, "maprq", w) \/ At(u, "create", w)
  OBVIOUS
<1> HIDE DEF y, z
<1>9. y.exists =>
        /\ ~y.saved /\ y.parent = "root"
        /\ y.sel => At(u, "maprq", w) \/ At(u, "scan", w) \/ At(u, "create", w)
        /\ ~u.crashed /\ w \notin u.refused => y.border
        /\ u.wm = "exiting" /\ w \in u.kept /\ u.wants[w] => y.mapped \/ Has(u, "MapRequest", w)
  BY <1>2, <1>3, <1>4, <1>5, <1>8
<1>10. ~u.cwin[w].managed /\ ~u.twice /\ u.wm # "gone" /\ u \in States
  BY <1>2, <1>3
<1> QED BY <1>5, <1>6, <1>7, <1>9, <1>10, FreeOwn DEF y

\* So the rest of the invariant, when w alone was looked at.
LEMMA LookedBase ==
  ASSUME NEW t \in States, NEW w \in Windows, Base(t), NEW k \in {"maprq", "scan"}, At(t, k, w),
         t.wm # "gone", NEW u \in States, Deals(t, u, w), u.twice = t.twice, u.refused = t.refused,
         u.cwin = t.cwin, Good(u, w), u.pc \in {Idle, <<"create", w>>},
         At(u, "create", w) => Only(u, w, {"select"}),
         LET z == Final(t, w).x
             y == Final(u, w).x
         IN z.exists => /\ y.saved = z.saved /\ y.parent = z.parent /\ y.border = z.border
                        /\ y.sel => At(u, "create", w)
  PROVE  Base(u)
<1>1. \A i, v : i \notin {"idle", "create"} => ~At(u, i, v)
  BY DEF At, Idle
<1>2. Own(u, w) /\ ~Scanned(u, w)
  BY <1>1, LookedOwn
<1>3. t.pc[2] = w /\ t.pc[1] = k /\ Phase(t) /\ Own(t, w)
  BY DEF At, Base
<1>4. ~t.cwin[w].managed
  BY <1>3 DEF Own, Managed
<1>5. About(t, w) /\ About(u, w)
  BY <1>3 DEF About, Idle
<1>6. Docile(t, u, w)
  <2>1. ~At(t, "deinit", w) /\ (At(t, "maprq", w) \/ Scanned(t, w))
    BY <1>3 DEF At, Scanned
  <2> QED BY <1>1, <1>2, <1>3, <1>4, <2>1 DEF Docile
<1>7. Phase(u)
  <2>1. u.wm = t.wm /\ u.tmpwins = t.tmpwins
    BY DEF Deals
  <2>2. t.wm \in {"init", "running"} /\ w \notin u.tmpwins
    BY <1>2, <1>3, <2>1, Fields DEF Phase, Scanned
  <2>3. u.pc[1] \in {"idle", "create"} /\ \A v : At(u, "create", v) => v = w
    BY DEF At, Idle
  <2> QED BY <1>1, <1>3, <2>1, <2>2, <2>3 DEF Phase
<1> QED BY <1>2, <1>5, <1>6, <1>7, DealsBase

\* Nor that a window is let go: it is only not watched any more.
LEMMA Fail2Base ==
  ASSUME NEW t \in States, NEW w \in Windows, Base(t), NEW k \in {"maprq", "scan"}, At(t, k, w),
         t.wm # "gone"
  PROVE  /\ Base(fail2(t, w))
         /\ Calm(t) /\ (~t.x[w].exists \/ ~Single(t, w) \/ (k = "scan" /\ ~t.x[w].mapped)) =>
              Calm(fail2(t, w))
<1> DEFINE r == <<"select", w, FALSE>>
           m == Ask(t, r)
           u == [m EXCEPT !.pc = Idle]
           z == Final(t, w).x
           y == Final(u, w).x
<1>1. r \in Requests /\ r[2] = w /\ r[1] = "select" /\ r[3] = FALSE
  BY RequestTypes
<1>2. fail2(t, w) = u
  <2>1. Send(t, w, <<r>>) = m
    BY <1>1, SendOne
  <2> QED BY <2>1 DEF fail2
<1> HIDE DEF r
<1>3. Asked(t, m, w, r)
  BY <1>1, AskDone
<1>4. m \in States /\ Idle \in Pcs
  BY <1>3 DEF Asked, Pcs
<1> HIDE DEF m
<1>5. /\ Deals(m, u, w) /\ u \in States /\ u.pc = Idle /\ u.twice = m.twice /\ u.refused = m.refused
      /\ u.cwin = m.cwin /\ Final(u, w) = Final(m, w) /\ (Good(m, w) => Good(u, w))
  BY <1>4, PcFacts
<1> HIDE DEF u
<1>6. Deals(t, m, w) /\ m.twice = t.twice /\ m.refused = t.refused /\ m.cwin = t.cwin
  BY <1>3, ServesDeals DEF Asked
<1>7. Deals(t, u, w)
  BY <1>5, <1>6, DealsTwice
<1>8. y.exists = z.exists
  BY <1>3, <1>5 DEF Asked
<1>9. z.exists => /\ y.saved = z.saved /\ y.parent = z.parent /\ y.border = z.border
                  /\ ~y.sel
  <2> SUFFICES ASSUME z.exists
               PROVE y.saved = z.saved /\ y.parent = z.parent /\ y.border = z.border /\ ~y.sel
    OBVIOUS
  <2>1. Parts(Final(t, w), Final(m, w), r)
    BY <1>3 DEF Asked
  <2> QED BY <1>1, <1>5, <2>1 DEF Parts
<1>10. Good(t, w) /\ (z.exists /\ z.parent = "frame" => z.saved)
  BY FinalFine DEF Base, Own, Managed, Good
<1> HIDE DEF y, z
<1>11. Good(u, w)
  BY <1>1, <1>3, <1>5, <1>8, <1>9, <1>10 DEF Asked, y, z
<1>12. ~At(u, "create", w)
  BY <1>5 DEF At, Idle
<1>13. Base(u)
  BY <1>5, <1>6, <1>7, <1>9, <1>11, <1>12, LookedBase DEF y, z
<1>14. ASSUME Calm(t), ~t.x[w].exists \/ ~Single(t, w) \/ (k = "scan" /\ ~t.x[w].mapped)
       PROVE  Calm(u)
  <2>1. /\ u.x = t.x /\ u.icon = t.icon /\ u.tmpwins = t.tmpwins /\ u.cwin = t.cwin /\ u.pc = Idle
        /\ u.twice = t.twice /\ u.refused = t.refused
    BY <1>5, <1>6, <1>7 DEF Deals
  <2>2. \A i : (i # k => ~At(t, i, w)) /\ (i # "idle" => ~At(u, i, w))
    BY <2>1 DEF At, Idle
  <2>3. ~t.cwin[w].managed /\ ~Passing(u, w)
    BY <2>2 DEF Base, Own, Managed, Passing
  <2>4. Heard(u, w)
    <3>1. CASE ~t.x[w].exists \/ ~Single(t, w)
      BY <2>1, <3>1 DEF Heard, Single
    <3>2. CASE k = "scan" /\ ~t.x[w].mapped
      <4>1. ~Taken(t, w) /\ ~Taken(u, w)
        BY <2>1, <2>2, <2>3, <3>2 DEF Taken, Unscanned
      <4> QED BY <1>7, <1>14, <2>1, <4>1, DealsHeard DEF Calm, CalmOf
    <3> QED BY <1>14, <3>1, <3>2
  <2>5. CalmOf(u, w)
    BY <2>1, <2>3, <2>4, FreeCalm
  <2>6. About(t, w) /\ About(u, w)
    BY <2>1 DEF About, At, Idle
  <2> QED BY <1>7, <1>14, <2>1, <2>5, <2>6, DealsCalm
<1> QED BY <1>2, <1>13, <1>14

\* A dockapp is not shown itself: out of sight if it was there before, and not
\* watched any more.
LEMMA AsideFacts ==
  ASSUME NEW t \in States, NEW w \in Windows, NEW hide \in BOOLEAN, Good(t, w),
         ~Single(t, w)
  PROVE  LET m == IF hide THEN Ask(t, <<"unmap", w>>) ELSE t
             u == Ask(m, <<"select", w, FALSE>>)
             z == Final(t, w).x
             y == Final(u, w).x
         IN /\ Serves(t, u, w) /\ u \in States /\ m \in States /\ u.cwin = t.cwin /\ Good(u, w)
            /\ y.exists = z.exists
            /\ z.exists => /\ y.saved = z.saved /\ y.parent = z.parent /\ y.border = z.border
                           /\ ~y.sel
<1> DEFINE r1 == <<"unmap", w>>
           r2 == <<"select", w, FALSE>>
           a == Ask(t, r1)
           m == IF hide THEN a ELSE t
           u == Ask(m, r2)
           z == Final(t, w).x
           zm == Final(m, w).x
           y == Final(u, w).x
<1>1. /\ r1 \in Requests /\ r1[2] = w /\ r1[1] = "unmap"
      /\ r2 \in Requests /\ r2[2] = w /\ r2[1] = "select" /\ r2[3] = FALSE
  BY RequestTypes
<1> HIDE DEF r1, r2
<1>2. z.exists /\ z.parent = "frame" => z.saved
  BY FinalFine DEF Good
<1>3. /\ Serves(t, m, w) /\ m \in States /\ m.cwin = t.cwin /\ Good(m, w) /\ zm.exists = z.exists
      /\ z.exists => zm.saved = z.saved /\ zm.parent = z.parent /\ zm.border = z.border
  <2>1. CASE hide
    <3>1. m = a
      BY <2>1
    <3> DEFINE ya == Final(a, w).x
    <3>2. /\ Serves(t, a, w) /\ a \in States /\ a.cwin = t.cwin /\ ya.exists = z.exists
          /\ z.exists => Parts(Final(t, w), Final(a, w), r1)
      BY <1>1, AskParts
    <3>3. /\ Good(t, w) /\ (ya.exists /\ ya.parent = "frame" => ya.saved)
          /\ (r1[1] \in {"unmap", "reparent"} => ~Single(t, w) \/ ~z.sel \/ ~z.exists)
          => Good(a, w)
      BY <1>1, AskFacts
    <3> HIDE DEF a, m
    <3>4. z.exists => ya.saved = z.saved /\ ya.parent = z.parent /\ ya.border = z.border
      BY <1>1, <3>2 DEF Parts
    <3> HIDE DEF ya, z
    <3>5. Good(a, w)
      BY <1>2, <3>2, <3>3, <3>4
    <3> QED BY <3>1, <3>2, <3>4, <3>5 DEF ya, z
  <2>2. CASE ~hide
    <3>1. m = t
      BY <2>2
    <3> HIDE DEF m
    <3> QED BY <3>1, ServesNot
  <2> QED BY <2>1, <2>2
<1> HIDE DEF m
<1>4. Asked(m, u, w, r2)
  BY <1>1, <1>3, AskDone
<1> HIDE DEF u
<1>5. /\ y.exists = z.exists
      /\ z.exists => /\ y.saved = z.saved /\ y.parent = z.parent /\ y.border = z.border /\ ~y.sel
  <2>1. y.exists = z.exists
    BY <1>3, <1>4 DEF Asked
  <2> SUFFICES ASSUME z.exists
               PROVE  y.saved = z.saved /\ y.parent = z.parent /\ y.border = z.border /\ ~y.sel
    BY <2>1
  <2>2. Parts(Final(m, w), Final(u, w), r2)
    BY <1>3, <1>4 DEF Asked
  <2> QED BY <1>1, <1>3, <2>2 DEF Parts
<1> HIDE DEF y, z, zm
<1>6. Good(u, w)
  BY <1>1, <1>2, <1>3, <1>4, <1>5 DEF Asked, y
<1>7. Serves(t, u, w)
  BY <1>3, <1>4, ServesTwice DEF Asked
<1> QED BY <1>3, <1>4, <1>5, <1>6, <1>7 DEF Asked, u, m, y, z, r1, r2

\* Its icon is, in its place.
LEMMA DockappBase ==
  ASSUME NEW t \in States, NEW w \in Windows, Base(t), NEW maprq \in BOOLEAN,
         At(t, IF maprq THEN "maprq" ELSE "scan", w), t.wm # "gone", t.out = <<>>,
         t.icon[w] # NoWindow, t.x[w].exists, t.x[t.icon[w]].exists,
         maprq \/ t.x[w].mapped \/ t.x[t.icon[w]].mapped
  PROVE  LET v == t.icon[w]
             m == IF ~maprq /\ t.x[w].mapped THEN Send(t, w, <<<<"unmap", w>>>>) ELSE t
         IN Keeps(t, [Send(m, w, <<<<"select", w, FALSE>>, <<"select", v, TRUE>>>>)
                        EXCEPT !.pc = <<"create", v>>])
<1> DEFINE v == t.icon[w]
           hide == ~maprq /\ t.x[w].mapped
           m == IF hide THEN Ask(t, <<"unmap", w>>) ELSE t
           rw == <<"select", w, FALSE>>
           rv == <<"select", v, TRUE>>
           a == Ask(m, rw)
           b == Ask(a, rv)
           p == <<"create", v>>
           s == [b EXCEPT !.pc = p]
<1>1. Own(t, w) /\ Dock(t, w) /\ Phase(t) /\ v \in Windows
  BY Fields DEF Base
<1>2. /\ v # w /\ t.icon[v] = NoWindow /\ \A u \in Windows : t.icon[u] = v => u = w
      /\ ~Asks(t, v) /\ ~At(t, "maprq", v) /\ Docked(t, w, v)
  BY <1>1 DEF Dock
<1> HIDE DEF v
<1>3. Own(t, v) /\ t.pc[2] = w /\ About(t, w)
  BY <1>1 DEF Base, At, About
<1>4. At(t, "maprq", w) \/ At(t, "scan", w)
  OBVIOUS
<1>5. /\ ~t.cwin[w].managed /\ ~t.cwin[v].managed /\ ~Asks(t, w) /\ ~Scanned(t, v)
      /\ t.wants[w] \/ t.x[v].mapped
  <2>1. ~t.cwin[w].managed
    BY <1>1, <1>4 DEF Own, Managed
  <2>2. CASE At(t, "maprq", w)
    BY <1>2, <2>1, <2>2 DEF Docked, v
  <2>3. CASE ~maprq
    <3>1. At(t, "scan", w) /\ Scanned(t, w)
      BY <2>3 DEF Scanned
    <3>2. t.x[w].mapped \/ t.x[v].mapped
      BY <2>3 DEF v
    <3> QED BY <1>2, <2>1, <3>1, <3>2 DEF Docked, v
  <2> QED BY <2>2, <2>3
<1>6. Good(t, w) /\ Good(t, v) /\ ~t.twice /\ ~Single(t, w) /\ hide \in BOOLEAN
  <2>1. Good(t, w) /\ Good(t, v) /\ ~t.twice
    BY <1>1, <1>3 DEF Own, Managed, Good
  <2>2. ~Single(t, w)
    BY DEF Single
  <2> QED BY <2>1, <2>2
<1> HIDE DEF hide
<1> DEFINE z == Final(t, w).x
           y == Final(s, w).x
           zv == Final(t, v).x
           yv == Final(s, v).x
<1>7. LET ya == Final(a, w).x
      IN /\ Serves(t, a, w) /\ a \in States /\ m \in States /\ a.cwin = t.cwin /\ Good(a, w)
         /\ ya.exists = z.exists
         /\ z.exists => ya.saved = z.saved /\ ya.parent = z.parent /\ ya.border = z.border /\ ~ya.sel
  BY <1>6, AsideFacts
<1>8. /\ rv \in Requests /\ rv[2] = v /\ rv[1] = "select" /\ rv[3] = TRUE /\ rw \in Requests
  BY <1>1, RequestTypes
<1>9. /\ Send(m, w, <<rw, rv>>) = b
      /\ m = IF hide THEN Send(t, w, <<<<"unmap", w>>>>) ELSE t
  <2>1. <<"unmap", w>> \in Requests
    BY RequestTypes
  <2>2. Send(t, w, <<<<"unmap", w>>>>) = Ask(t, <<"unmap", w>>)
    BY <2>1, SendOne
  <2> HIDE DEF rw, rv
  <2>3. m = IF hide THEN Send(t, w, <<<<"unmap", w>>>>) ELSE t
    BY <2>2
  <2> HIDE DEF m
  <2>4. Send(m, w, <<rw, rv>>) = b
    BY <1>7, <1>8, SendTwo
  <2> QED BY <2>3, <2>4
<1> HIDE DEF a, rv, rw, m
<1>10. Asked(a, b, v, rv)
  BY <1>1, <1>7, <1>8, AskDone
<1> HIDE DEF b
<1>11. b \in States /\ p \in Pcs /\ p[1] = "create" /\ p[2] = v
  BY <1>1, <1>10 DEF Asked, Pcs
<1> HIDE DEF p
<1>12. /\ Deals(b, s, v) /\ s \in States /\ s.pc = p /\ s.twice = b.twice /\ s.refused = b.refused
       /\ s.cwin = b.cwin /\ Final(s, v) = Final(b, v) /\ (Good(b, v) => Good(s, v))
       /\ \A K : Only(b, v, K) => Only(s, v, K)
  BY <1>1, <1>11, PcFacts
<1> HIDE DEF s
<1>13. /\ Deals(t, a, w) /\ a.pc = t.pc /\ a.twice = t.twice /\ a.refused = t.refused
       /\ Deals(a, b, v) /\ b.twice = a.twice /\ b.refused = a.refused /\ b.cwin = a.cwin
  BY <1>7, <1>10, ServesDeals DEF Asked
<1>14. Deals(a, s, v)
  BY <1>12, <1>13, DealsTwice
<1>15. /\ s.x = t.x /\ s.ev = t.ev /\ s.wm = t.wm /\ s.prop = t.prop /\ s.icon = t.icon
       /\ s.tmpwins = t.tmpwins /\ s.kept = t.kept /\ s.crashed = t.crashed
       /\ s.wants = t.wants /\ s.asked = t.asked /\ s.twice = t.twice /\ s.refused = t.refused
       /\ s.cwin = t.cwin
  <2>1. s.twice = t.twice /\ s.refused = t.refused /\ s.cwin = t.cwin
    BY <1>7, <1>12, <1>13
  <2>2. /\ a.x = t.x /\ a.ev = t.ev /\ a.wm = t.wm /\ a.prop = t.prop /\ a.icon = t.icon
        /\ a.tmpwins = t.tmpwins /\ a.kept = t.kept /\ a.crashed = t.crashed
        /\ a.wants = t.wants /\ a.asked = t.asked
    BY <1>13 DEF Deals
  <2>3. /\ s.x = a.x /\ s.ev = a.ev /\ s.wm = a.wm /\ s.prop = a.prop /\ s.icon = a.icon
        /\ s.tmpwins = a.tmpwins /\ s.kept = a.kept /\ s.crashed = a.crashed
        /\ s.wants = a.wants /\ s.asked = a.asked
    BY <1>14 DEF Deals
  <2> QED BY <2>1, <2>2, <2>3
<1>16. Leaves(t, a, v) /\ Leaves(a, s, w)
  BY <1>1, <1>2, <1>13, <1>14 DEF Deals
<1>17. /\ \A e, u : Has(s, e, u) <=> Has(t, e, u)
       /\ \A k, u : At(s, k, u) <=> k = "create" /\ u = v
  BY <1>11, <1>12, <1>15 DEF Has, At, p
<1>18. t.wm \in {"init", "running"} /\ w \notin t.tmpwins /\ v \notin t.tmpwins
  <2>1. t.pc[1] \in {"maprq", "scan"}
    BY <1>4 DEF At
  <2>2. w \notin t.tmpwins
    <3>1. CASE At(t, "scan", w)
      BY <1>1, <3>1 DEF Phase
    <3>2. CASE At(t, "maprq", w)
      <4>1. t.pc[1] = "maprq"
        BY <3>2 DEF At
      <4> QED BY <1>1, <4>1 DEF Phase
    <3> QED BY <1>4, <3>1, <3>2
  <2> QED BY <1>1, <1>5, <2>1, <2>2, Fields DEF Phase, Scanned
<1>19. ~Scanned(s, w) /\ ~Scanned(s, v)
  BY <1>15, <1>17, <1>18 DEF Scanned
<1>20. \A u : ~Passing(s, u)
  BY <1>17 DEF Passing
<1>21. Own(s, w)
  <2>1. Final(s, w) = Final(a, w) /\ Good(s, w)
    BY <1>7, <1>16 DEF Leaves, Good
  <2>2. Lifeless(s, w)
    BY <1>1, <1>15, <1>17 DEF Own, Lifeless
  <2>3. Answered(s, w)
    <3>1. Final(s, w).asked => Final(t, w).asked
      BY <1>7, <2>1 DEF Serves
    <3> QED BY <1>1, <1>17, <3>1 DEF Own, Answered
  <2>4. z.exists => ~z.saved /\ z.parent = "root" /\ (~t.crashed /\ w \notin t.refused => z.border)
    BY <1>1, <1>5 DEF Own, Managed, Restored
  <2> HIDE DEF y, z
  <2>5. y.exists => /\ ~y.saved /\ y.parent = "root" /\ ~y.sel
                    /\ ~s.crashed /\ w \notin s.refused => y.border
    BY <1>7, <1>15, <2>1, <2>4 DEF y, z
  <2>6. s.wm # "gone" /\ s.wm # "exiting" /\ ~s.twice /\ ~s.cwin[w].managed
    BY <1>5, <1>6, <1>15, <1>18
  <2>7. ~At(s, "create", w) /\ ~Unscanned(s, w)
    BY <1>2, <1>17, <1>19 DEF Unscanned
  <2> QED BY <1>12, <1>20, <2>1, <2>2, <2>3, <2>5, <2>6, <2>7, FreeOwn DEF y
<1>22. Own(s, v)
  <2>1. Final(a, v) = Final(t, v) /\ Good(a, v) /\ Only(a, v, {"select"})
    <3>1. Only(t, v, {"select"}) /\ {"select"} \in {{"select"}, {"select", "saveset"}}
      BY DEF Only
    <3> QED BY <1>6, <1>16, <3>1 DEF Leaves, Good
  <2>2. yv.exists = zv.exists
    BY <1>10, <1>12, <2>1 DEF Asked
  <2>3. zv.exists => yv.saved = zv.saved /\ yv.parent = zv.parent /\ yv.border = zv.border
    <3> SUFFICES ASSUME zv.exists
                 PROVE  yv.saved = zv.saved /\ yv.parent = zv.parent /\ yv.border = zv.border
      OBVIOUS
    <3>1. Parts(Final(a, v), Final(b, v), rv)
      BY <1>10, <2>1 DEF Asked
    <3> QED BY <1>8, <1>12, <2>1, <3>1 DEF Parts
  <2>4. /\ Good(t, v)
        /\ zv.exists => ~zv.saved /\ zv.parent = "root" /\ (~t.crashed /\ v \notin t.refused => zv.border)
    BY <1>3, <1>5, <1>6 DEF Own, Managed, Restored
  <2>5. Lifeless(s, v)
    BY <1>3, <1>15, <1>17 DEF Own, Lifeless
  <2>6. Answered(s, v)
    <3>1. Final(s, v).asked => Final(t, v).asked
      BY <1>14, <2>1 DEF Deals
    <3> QED BY <1>3, <1>17, <3>1 DEF Own, Answered
  <2> HIDE DEF yv, zv
  <2>7. Good(s, v) /\ Only(s, v, {"select"})
    <3>1. Final(b, v).x.exists => Final(b, v).x.parent # "frame"
      BY <1>12, <2>2, <2>3, <2>4 DEF yv, zv
    <3> QED BY <1>8, <1>10, <1>12, <2>1, <3>1 DEF Asked
  <2>8. yv.exists => /\ ~yv.saved /\ yv.parent = "root"
                     /\ ~s.crashed /\ v \notin s.refused => yv.border
    BY <1>15, <2>2, <2>3, <2>4
  <2>9. s.wm # "gone" /\ s.wm # "exiting" /\ ~s.twice /\ ~s.cwin[v].managed
    BY <1>5, <1>6, <1>15, <1>18
  <2>10. At(s, "create", v) /\ ~Unscanned(s, v)
    BY <1>17, <1>19 DEF Unscanned
  <2> QED BY <1>1, <1>12, <1>20, <2>5, <2>6, <2>7, <2>8, <2>9, <2>10, FreeOwn DEF yv
<1>23. Dock(s, w)
  <2>1. Docked(s, w, v)
    <3>1. ~Asks(s, w) /\ (Once(s, w) <=> Once(t, w))
      BY <1>5, <1>15, <1>17 DEF Asks, Once
    <3>2. t.wants[w] \/ t.x[v].mapped
      BY <1>5
    <3> QED BY <1>2, <1>15, <1>17, <1>19, <3>1, <3>2 DEF Docked
  <2>2. ~Asks(s, v) /\ ~At(s, "maprq", v) /\ s.icon[w] = v
    BY <1>2, <1>15, <1>17 DEF Asks, v
  <2> QED BY <1>2, <1>15, <2>1, <2>2 DEF Dock
<1>24. ASSUME NEW u \in Windows, u # w PROVE (u # v => Own(s, u)) /\ Dock(s, u)
  <2>1. ASSUME NEW i \in Windows, i # w, i # v
        PROVE  /\ Same(t, a, i) /\ (Once(t, i) => Once(a, i)) /\ (\A j : Order(t, i, j) => Order(a, i, j))
               /\ Same(a, s, i) /\ (Once(a, i) => Once(s, i)) /\ (\A j : Order(a, i, j) => Order(s, i, j))
    <3>1. t.pc[2] # i /\ a.pc[2] # i /\ s.pc[2] # i
      BY <1>3, <1>11, <1>12, <1>13, <2>1
    <3>2. Same(t, a, i) /\ (Once(t, i) => Once(a, i)) /\ (\A j : Order(t, i, j) => Order(a, i, j))
      BY <1>13, <2>1, <3>1, DealsSame
    <3>3. s.twice = a.twice
      BY <1>12, <1>13
    <3>4. Same(a, s, i) /\ (Once(a, i) => Once(s, i)) /\ (\A j : Order(a, i, j) => Order(s, i, j))
      BY <1>1, <1>7, <1>14, <2>1, <3>1, <3>3, DealsSame
    <3> QED BY <3>2, <3>4
  <2>2. ASSUME u # v PROVE Own(s, u)
    <3>1. Own(t, u)
      BY DEF Base
    <3>2. Own(a, u)
      BY <1>24, <2>1, <2>2, <3>1, SameOwn
    <3> QED BY <1>24, <2>1, <2>2, <3>2, SameOwn
  <2>3. Dock(s, u)
    <3>1. Dock(t, u) /\ t.icon[u] \in Windows \cup {NoWindow}
      BY Fields DEF Base
    <3>2. CASE t.icon[u] = NoWindow
      BY <1>15, <3>2 DEF Dock
    <3>3. CASE t.icon[u] # NoWindow
      <4> DEFINE i == t.icon[u]
      <4>1. i # v /\ i # w /\ u # v /\ i \in Windows
        BY <1>2, <1>24, <3>1, <3>3 DEF Dock
      <4>2. a.icon = t.icon
        BY <1>13 DEF Deals
      <4> HIDE DEF i
      <4>3. /\ Same(t, a, u) /\ (Once(t, u) => Once(a, u)) /\ (Order(t, u, i) => Order(a, u, i))
            /\ Same(a, s, u) /\ (Once(a, u) => Once(s, u)) /\ (Order(a, u, i) => Order(s, u, i))
            /\ Same(t, a, i) /\ Same(a, s, i)
        BY <1>24, <2>1, <4>1
      <4>4. Dock(a, u)
        BY <3>1, <4>3, SameDock DEF i
      <4> QED BY <1>7, <4>2, <4>3, <4>4, SameDock DEF i
    <3> QED BY <3>2, <3>3
  <2> QED BY <2>2, <2>3
<1>25. Phase(s)
  <2>1. s.pc[1] = "create" /\ \A u : At(s, "create", u) => u = v
    BY <1>11, <1>12, <1>17
  <2> QED BY <1>1, <1>15, <1>17, <1>18, <2>1 DEF Phase
<1>26. Base(s)
  BY <1>12, <1>21, <1>22, <1>23, <1>24, <1>25 DEF Base
<1>27. ASSUME Calm(t) PROVE Calm(s)
  <2>1. ASSUME NEW i \in {w, v} PROVE CalmOf(s, i)
    <3>1. ~Single(t, i) /\ ~s.cwin[i].managed
      BY <1>2, <1>5, <1>6, <1>15, <2>1 DEF Single, v
    <3>2. Heard(s, i)
      BY <1>15, <3>1 DEF Heard, Single
    <3> QED BY <1>20, <3>1, <3>2, FreeCalm
  <2>2. ASSUME NEW i \in Windows, i # w, i # v PROVE CalmOf(s, i)
    <3>1. t.pc[2] # i /\ a.pc[2] # i /\ s.pc[2] # i
      BY <1>3, <1>11, <1>12, <1>13, <2>2
    <3>2. Same(t, a, i) /\ SameEvents(t, a, i)
      BY <1>13, <2>2, <3>1, DealsSame
    <3>3. s.twice = a.twice
      BY <1>12, <1>13
    <3>4. Same(a, s, i) /\ SameEvents(a, s, i)
      BY <1>1, <1>7, <1>14, <2>2, <3>1, <3>3, DealsSame
    <3>5. CalmOf(a, i)
      BY <1>27, <2>2, <3>2, SameCalm DEF Calm
    <3> QED BY <3>4, <3>5, SameCalm
  <2> QED BY <2>1, <2>2 DEF Calm
<1>28. Keeps(t, s)
  BY <1>26, <1>27 DEF Keeps
<1> QED BY <1>9, <1>28 DEF s, p, rw, rv, hide, v

\* What is found out about a window, before it is created or let go.
LEMMA AttributesBase == ASSUME Base(cw), Attributes PROVE Keeps(cw, cw')
<1> DEFINE w == cw.pc[2]
           v == cw.icon[w]
           x == cw.x[w]
<1>1. PICK maprq \in BOOLEAN :
        LET m == IF ~maprq /\ x.mapped THEN Send(cw, w, <<<<"unmap", w>>>>) ELSE cw
            s == [Send(m, w, <<<<"select", w, FALSE>>, <<"select", v, TRUE>>>>) EXCEPT !.pc = <<"create", v>>]
        IN /\ cw.wm # "gone" /\ cw.pc[1] = (IF maprq THEN "maprq" ELSE "scan") /\ cw.out = <<>>
           /\ cw' = IF ~x.exists \/ (v # NoWindow /\ ~cw.x[v].exists) THEN fail2(cw, w)
                    ELSE IF v # NoWindow /\ (maprq \/ x.mapped \/ cw.x[v].mapped) THEN s
                    ELSE IF ~maprq /\ ~x.mapped THEN fail2(cw, w)
                    ELSE [cw EXCEPT !.pc = <<"create", w>>]
  BY DEF Attributes, Ready
<1>2. cw \in States
  BY DEF Base
<1> DEFINE k == IF maprq THEN "maprq" ELSE "scan"
           c == [cw EXCEPT !.pc = <<"create", w>>]
           m == IF ~maprq /\ x.mapped THEN Send(cw, w, <<<<"unmap", w>>>>) ELSE cw
           s == [Send(m, w, <<<<"select", w, FALSE>>, <<"select", v, TRUE>>>>) EXCEPT !.pc = <<"create", v>>]
<1>3. k \in {"maprq", "scan"} /\ cw.pc[1] = k
  BY <1>1
<1> HIDE DEF k
<1>4. w \in Windows /\ At(cw, k, w)
  BY <1>2, <1>3, PcIs
<1> HIDE DEF w
<1>5. ASSUME cw' = fail2(cw, w), ~x.exists \/ v # NoWindow \/ (~maprq /\ ~x.mapped)
      PROVE  Keeps(cw, cw')
  <2>1. ~cw.x[w].exists \/ ~Single(cw, w) \/ (k = "scan" /\ ~cw.x[w].mapped)
    BY <1>4, <1>5 DEF Single, k
  <2> HIDE DEF v, x
  <2> QED BY <1>1, <1>2, <1>3, <1>4, <1>5, <2>1, Fail2Base DEF Keeps
<1>6. CASE cw' = s /\ v # NoWindow /\ x.exists /\ cw.x[v].exists /\ (maprq \/ x.mapped \/ cw.x[v].mapped)
  <2>1. At(cw, IF maprq THEN "maprq" ELSE "scan", w)
    BY <1>4 DEF k
  <2>2. Keeps(cw, s)
    BY <1>1, <1>2, <1>4, <1>6, <2>1, DockappBase
  <2> QED BY <1>6, <2>2
<1> HIDE DEF s, v, x
<1>7. CASE cw' = c /\ (maprq \/ cw.x[w].mapped)
  <2>1. <<"create", w>> \in Pcs
    BY <1>4 DEF Pcs
  <2>2. /\ Deals(cw, c, w) /\ c \in States /\ c.pc = <<"create", w>> /\ c.twice = cw.twice
        /\ c.refused = cw.refused /\ c.cwin = cw.cwin /\ c.out = cw.out
        /\ Final(c, w) = Final(cw, w) /\ (Good(cw, w) => Good(c, w))
    BY <1>2, <1>4, <2>1, PcFacts
  <2> HIDE DEF c
  <2>3. Good(c, w) /\ At(c, "create", w)
    BY <1>4, <2>2 DEF Base, Own, Managed, Good, At
  <2>4. Only(c, w, {"select"})
    BY <1>1, <2>2 DEF Only
  <2>5. Base(c)
    BY <1>1, <1>2, <1>3, <1>4, <2>2, <2>3, <2>4, LookedBase
  <2>6. ASSUME Calm(cw) PROVE Calm(c)
    <3>1. \A i : (i # k => ~At(cw, i, w)) /\ (i # "create" => ~At(c, i, w))
      BY <1>4, <2>2 DEF At
    <3>2. ~cw.cwin[w].managed /\ ~Passing(c, w)
      BY <1>3, <1>4, <3>1 DEF Base, Own, Managed, Passing
    <3>3. Taken(cw, w) /\ Taken(c, w)
      BY <1>3, <1>4, <1>7, <2>3, <3>2 DEF Taken, Unscanned, Scanned, k
    <3>4. Heard(c, w)
      BY <1>2, <1>4, <2>2, <2>6, <3>3, DealsHeard DEF Calm, CalmOf
    <3>5. CalmOf(c, w)
      BY <2>2, <3>2, <3>4, FreeCalm
    <3>6. About(cw, w) /\ About(c, w)
      BY <1>4, <2>2 DEF About, At
    <3> QED BY <1>2, <1>4, <2>2, <2>6, <3>5, <3>6, DealsCalm
  <2> QED BY <1>7, <2>5, <2>6 DEF Keeps
<1> QED BY <1>1, <1>5, <1>6, <1>7 DEF s, v, x, m, w

\* A managed window that is about to be left.
LEMMA LeftBase ==
  ASSUME NEW t \in States, NEW a \in Windows, Base(t), t.pc = Idle, t.cwin[a].managed,
         t.wm \in {"running", "exiting"}
  PROVE  Base(clientwin_deinit(t, a))
<1> DEFINE u == clientwin_deinit(t, a)
           z == Final(t, a).x
           y == Final(u, a).x
<1>1. Own(t, a) /\ Phase(t) /\ ~At(t, "deinit", a)
  BY DEF Base, At, Idle
<1>2. Held(t, a) /\ (z.exists => z.parent = "frame")
  BY <1>1, OwnHeld
<1>3. /\ Deals(t, u, a) /\ u \in States /\ u.pc = <<"deinit", a>> /\ u.twice = t.twice
      /\ u.refused = t.refused /\ Left(t, u, a)
  BY <1>2, DeinitFacts
<1> HIDE DEF u
<1>4. Lifeless(u, a) /\ Answered(u, a)
  BY <1>1, <1>3, DealsLifeless DEF Own
<1>5. u.wm = t.wm /\ u.crashed = t.crashed /\ u.tmpwins = {} /\ u.x = t.x /\ t.tmpwins = {}
  BY <1>1, <1>3 DEF Deals, Phase
<1>6. At(u, "deinit", a) /\ \A k, v : k # "deinit" \/ v # a => ~At(u, k, v)
  BY <1>3 DEF At
<1>7. y.exists = z.exists /\ z.exists = t.x[a].exists
  BY <1>3, <1>5, FinalFacts
<1>8. Good(u, a) /\ u.cwin = t.cwin
  BY <1>3 DEF Left
<1>9. Managed(u, a)
  <2>1. ~u.twice /\ u.wm # "gone"
    BY <1>1, <1>3, <1>5 DEF Own, Managed
  <2>2. y.exists => /\ y.saved /\ y.parent = "frame" /\ y.geom = u.cwin[a].geom /\ y.sel = FALSE
                    /\ u.cwin[a].state # "Withdrawn" => y.state = u.cwin[a].state
    BY <1>2, <1>3, <1>7 DEF Left, Held
  <2> HIDE DEF y, z
  <2> QED BY <1>6, <1>8, <2>1, <2>2 DEF Managed, Good, y
<1>10. Restored(u, a)
  <2>1. ~u.crashed /\ a \notin u.refused /\ y.exists => u.cwin[a].orig_bw /\ y.border
    BY <1>1, <1>3, <1>5, <1>7, <1>8 DEF Left, Own, Restored
  <2> HIDE DEF y, z
  <2> QED BY <1>5, <1>8, <2>1 DEF Restored, y
<1>11. Own(u, a)
  BY <1>4, <1>8, <1>9, <1>10 DEF Own, Good, Untouched, Unscanned
<1>12. About(t, a) /\ About(u, a)
  BY <1>3 DEF About, Idle
<1>13. ~Scanned(u, a)
  BY <1>5, <1>6 DEF Scanned
<1>14. Docile(t, u, a)
  BY <1>1, <1>5, <1>6, <1>8, <1>13 DEF Docile
<1>15. Phase(u)
  <2>1. u.pc[1] = "deinit"
    BY <1>3
  <2> QED BY <1>5, <1>6, <2>1 DEF Phase
<1> QED BY <1>3, <1>11, <1>12, <1>14, <1>15, DealsBase DEF u

\* The first event is taken from the queue
Popped(t) == [t EXCEPT !.ev = Tail(@)]

\* What is taken from the queue.
LEMMA PoppedFacts ==
  ASSUME NEW t \in States, t.ev # <<>>
  PROVE  LET u == Popped(t)
             e == Head(t.ev)
         IN /\ u \in States /\ u.ev = Tail(t.ev) /\ e \in Events /\ e = <<e[1], e[2]>> /\ e[2] \in Windows
            /\ e[1] \in {"MapRequest", "Unmap", "Destroy", "ConfigureRequest"}
            /\ u.x = t.x /\ u.out = t.out /\ u.pc = t.pc /\ u.wm = t.wm /\ u.cwin = t.cwin
            /\ u.place = t.place /\ u.prop = t.prop /\ u.icon = t.icon /\ u.tmpwins = t.tmpwins
            /\ u.kept = t.kept /\ u.refused = t.refused /\ u.twice = t.twice
            /\ u.crashed = t.crashed /\ u.wants = t.wants /\ u.asked = t.asked
            /\ Len(t.ev) \in Nat \ {0} /\ DOMAIN t.ev = 1 .. Len(t.ev)
            /\ DOMAIN u.ev = 1 .. Len(t.ev) - 1 /\ e = t.ev[1]
            /\ \A i \in DOMAIN u.ev : u.ev[i] = t.ev[i + 1]
<1> DEFINE u == Popped(t)
<1>1. t.ev \in Seq(Events)
  BY Fields
<1>2. Tail(t.ev) \in Seq(Events) /\ Head(t.ev) \in Events /\ Head(t.ev) = t.ev[1]
      /\ Len(Tail(t.ev)) = Len(t.ev) - 1 /\ Len(t.ev) \in Nat \ {0}
      /\ \A i \in 1 .. Len(t.ev) - 1 : Tail(t.ev)[i] = t.ev[i + 1]
  BY <1>1
<1>3. /\ u \in States /\ u.ev = Tail(t.ev)
      /\ u.x = t.x /\ u.out = t.out /\ u.pc = t.pc /\ u.wm = t.wm /\ u.cwin = t.cwin
      /\ u.place = t.place /\ u.prop = t.prop /\ u.icon = t.icon /\ u.tmpwins = t.tmpwins
      /\ u.kept = t.kept /\ u.refused = t.refused /\ u.twice = t.twice
      /\ u.crashed = t.crashed /\ u.wants = t.wants /\ u.asked = t.asked
  BY <1>2 DEF Popped, States
<1> HIDE DEF u
<1>4. /\ Head(t.ev)[1] \in {"MapRequest", "Unmap", "Destroy", "ConfigureRequest"} /\ Head(t.ev)[2] \in Windows
      /\ Head(t.ev) = <<Head(t.ev)[1], Head(t.ev)[2]>>
  BY <1>2 DEF Events
<1>5. DOMAIN t.ev = 1 .. Len(t.ev) /\ DOMAIN u.ev = 1 .. Len(t.ev) - 1
  BY <1>1, <1>2, <1>3
<1> QED BY <1>2, <1>3, <1>4, <1>5 DEF u
\* Where what waits stands in the queue without its first event.
LEMMA PoppedIndex ==
  ASSUME NEW t \in States, t.ev # <<>>
  PROVE  LET u == Popped(t)
         IN /\ \A i \in DOMAIN t.ev : i \in Nat /\ 1 <= i
            /\ 1 \in DOMAIN t.ev /\ Head(t.ev) = t.ev[1]
            /\ \A i \in DOMAIN u.ev : i \in Nat /\ i + 1 \in DOMAIN t.ev /\ u.ev[i] = t.ev[i + 1]
            /\ \A i \in DOMAIN t.ev : i # 1 => i - 1 \in DOMAIN u.ev /\ u.ev[i - 1] = t.ev[i]
<1> DEFINE u == Popped(t)
           N == Len(t.ev)
<1>1. /\ N \in Nat \ {0} /\ DOMAIN t.ev = 1 .. N /\ DOMAIN u.ev = 1 .. N - 1 /\ Head(t.ev) = t.ev[1]
      /\ \A i \in DOMAIN u.ev : u.ev[i] = t.ev[i + 1]
  BY PoppedFacts
<1> HIDE DEF u, N
<1>2. ASSUME NEW i \in DOMAIN u.ev PROVE i \in Nat /\ i + 1 \in DOMAIN t.ev /\ u.ev[i] = t.ev[i + 1]
  BY <1>1
<1>3. ASSUME NEW i \in DOMAIN t.ev, i # 1 PROVE i - 1 \in DOMAIN u.ev /\ u.ev[i - 1] = t.ev[i]
  <2>1. i \in 1 .. N
    BY <1>1
  <2>2. i - 1 \in 1 .. N - 1 /\ (i - 1) + 1 = i
    BY <1>1, <1>3, <2>1
  <2> QED BY <1>1, <2>2
<1>4. 1 \in DOMAIN t.ev /\ \A i \in DOMAIN t.ev : i \in Nat /\ 1 <= i
  BY <1>1
<1> QED BY <1>1, <1>2, <1>3, <1>4 DEF u

\* What waits in the queue without its first event.
LEMMA PoppedEvents ==
  ASSUME NEW t \in States, t.ev # <<>>
  PROVE  LET u == Popped(t)
         IN /\ \A e, v : Has(u, e, v) => Has(t, e, v)
            /\ \A e, v : Has(t, e, v) => Has(u, e, v) \/ Head(t.ev) = <<e, v>>
            /\ \A w : Once(t, w) => Once(u, w)
            /\ \A w, v : Order(t, w, v) => Order(u, w, v) \/ Head(t.ev) = <<"Unmap", v>>
<1> DEFINE u == Popped(t)
<1>1. /\ \A i \in DOMAIN t.ev : i \in Nat /\ 1 <= i
      /\ Head(t.ev) = t.ev[1] /\ \A i \in DOMAIN u.ev : i \in Nat
  BY PoppedIndex
<1>2. /\ \A i \in DOMAIN u.ev : i + 1 \in DOMAIN t.ev /\ u.ev[i] = t.ev[i + 1]
      /\ \A i \in DOMAIN t.ev : i # 1 => i - 1 \in DOMAIN u.ev /\ u.ev[i - 1] = t.ev[i]
  BY PoppedIndex
<1> HIDE DEF u
<1>3. ASSUME NEW e, NEW v PROVE Has(u, e, v) => Has(t, e, v)
  <2> SUFFICES ASSUME Has(u, e, v) PROVE Has(t, e, v)
    OBVIOUS
  <2>1. PICK i \in DOMAIN u.ev : u.ev[i] = <<e, v>>
    BY DEF Has, Range
  <2>2. i + 1 \in DOMAIN t.ev /\ t.ev[i + 1] = <<e, v>>
    BY <1>2, <2>1
  <2> QED BY <2>2 DEF Has, Range
<1>4. ASSUME NEW e, NEW v, Has(t, e, v) PROVE Has(u, e, v) \/ Head(t.ev) = <<e, v>>
  <2>1. PICK i \in DOMAIN t.ev : t.ev[i] = <<e, v>>
    BY <1>4 DEF Has, Range
  <2>2. CASE i = 1
    BY <1>1, <2>1, <2>2
  <2>3. CASE i # 1
    <3>1. i - 1 \in DOMAIN u.ev /\ u.ev[i - 1] = <<e, v>>
      BY <1>2, <2>1, <2>3
    <3> QED BY <3>1 DEF Has, Range
  <2> QED BY <2>2, <2>3
<1>5. ASSUME NEW w, Once(t, w) PROVE Once(u, w)
  <2> SUFFICES ASSUME NEW i \in DOMAIN u.ev, NEW j \in DOMAIN u.ev,
                      u.ev[i] = <<"MapRequest", w>>, u.ev[j] = <<"MapRequest", w>>
               PROVE  i = j
    BY DEF Once
  <2>1. /\ i + 1 \in DOMAIN t.ev /\ t.ev[i + 1] = <<"MapRequest", w>>
        /\ j + 1 \in DOMAIN t.ev /\ t.ev[j + 1] = <<"MapRequest", w>>
    BY <1>2
  <2>2. i + 1 = j + 1
    BY <1>5, <2>1 DEF Once
  <2> QED BY <1>1, <2>2
<1>6. ASSUME NEW w, NEW v, Order(t, w, v), Head(t.ev) # <<"Unmap", v>> PROVE Order(u, w, v)
  <2> SUFFICES ASSUME NEW i \in DOMAIN u.ev, u.ev[i] = <<"MapRequest", w>>
               PROVE  \E j \in DOMAIN u.ev : j < i /\ u.ev[j] = <<"Unmap", v>>
    BY DEF Order
  <2>1. i + 1 \in DOMAIN t.ev /\ t.ev[i + 1] = <<"MapRequest", w>>
    BY <1>2
  <2>2. PICK j \in DOMAIN t.ev : j < i + 1 /\ t.ev[j] = <<"Unmap", v>>
    BY <1>6, <2>1 DEF Order
  <2>3. j # 1
    BY <1>1, <1>6, <2>2
  <2>4. j - 1 \in DOMAIN u.ev /\ u.ev[j - 1] = <<"Unmap", v>>
    BY <1>2, <2>2, <2>3
  <2>5. j - 1 < i
    BY <1>1, <2>2
  <2> QED BY <2>4, <2>5
<1> QED BY <1>3, <1>4, <1>5, <1>6 DEF u

\* The invariant without the first event, which is about w.
LEMMA PoppedBase ==
  ASSUME NEW t \in States, Base(t), t.wm = "running", t.ev # <<>>,
         t.pc \in {Idle, <<"deinit", Head(t.ev)[2]>>},
         Head(t.ev)[1] = "Unmap" => ~t.cwin[Head(t.ev)[2]].managed \/ At(t, "deinit", Head(t.ev)[2])
  PROVE  LET u == Popped(t)
             e == Head(t.ev)
         IN /\ u \in States /\ Phase(u) /\ BaseBut(u, e[2])
            /\ Final(u, e[2]) = Final(t, e[2]) /\ (Good(t, e[2]) => Good(u, e[2]))
            /\ e[1] # "ConfigureRequest" => Base(u)
<1> DEFINE u == Popped(t)
           e == Head(t.ev)
<1>1. /\ u \in States /\ e = <<e[1], e[2]>> /\ e[2] \in Windows
      /\ u.x = t.x /\ u.out = t.out /\ u.pc = t.pc /\ u.wm = t.wm /\ u.cwin = t.cwin
      /\ u.place = t.place /\ u.prop = t.prop /\ u.icon = t.icon /\ u.tmpwins = t.tmpwins
      /\ u.kept = t.kept /\ u.refused = t.refused /\ u.twice = t.twice
      /\ u.crashed = t.crashed /\ u.wants = t.wants /\ u.asked = t.asked
  BY PoppedFacts
<1>2. /\ \A k, v : Has(u, k, v) => Has(t, k, v)
      /\ \A k, v : Has(t, k, v) => Has(u, k, v) \/ e = <<k, v>>
      /\ \A w : Once(t, w) => Once(u, w)
      /\ \A w, v : Order(t, w, v) => Order(u, w, v) \/ e = <<"Unmap", v>>
  BY PoppedEvents
<1> HIDE DEF u
<1>3. \A v : /\ Leaves(t, u, v) /\ Final(u, v) = Final(t, v) /\ Fine(u, v) = Fine(t, v)
             /\ Unseen(u, v) = Unseen(t, v)
  BY <1>1, Depends
<1>4. Phase(t) /\ u.tmpwins = {} /\ \A v \in Windows : Own(t, v) /\ Dock(t, v)
  BY <1>1 DEF Base, Phase
<1>5. Phase(u)
  BY <1>1, <1>4 DEF Phase, At, Idle
<1>6. \A k, v : At(u, k, v) <=> At(t, k, v)
  BY <1>1 DEF At
<1>7. \A k, v : k \notin {"idle", "deinit"} => ~At(u, k, v)
  BY <1>1 DEF At, Idle
<1>8. \A v : ~Scanned(u, v) /\ (Passing(u, v) <=> Passing(t, v))
  BY <1>4, <1>6, <1>7 DEF Scanned, Passing
<1>9. ASSUME NEW v \in Windows
      PROVE  /\ Lifeless(u, v) /\ Unseen(u, v) /\ Managed(u, v) /\ Restored(u, v) /\ Untouched(u, v)
             /\ v # e[2] \/ e[1] # "ConfigureRequest" => Answered(u, v)
  <2>1. Lifeless(u, v)
    BY <1>1, <1>2, <1>4 DEF Own, Lifeless
  <2>2. Unseen(u, v)
    BY <1>3, <1>4 DEF Own
  <2>3. Managed(u, v)
    <3>1. At(t, "create", v) => Only(u, v, {"select"})
      BY <1>1, <1>4 DEF Own, Managed, Only
    <3> QED BY <1>1, <1>3, <1>4, <1>6, <1>8, <3>1 DEF Own, Managed
  <2>4. Restored(u, v)
    BY <1>1, <1>3, <1>4, <1>6 DEF Own, Restored
  <2>5. Untouched(u, v)
    BY <1>8 DEF Untouched, Unscanned
  <2>6. v # e[2] \/ e[1] # "ConfigureRequest" => Answered(u, v)
    BY <1>1, <1>2, <1>3, <1>4 DEF Own, Answered
  <2> QED BY <2>1, <2>2, <2>3, <2>4, <2>5, <2>6
<1>10. ASSUME NEW w \in Windows PROVE Dock(u, w)
  <2> DEFINE v == t.icon[w]
  <2> SUFFICES ASSUME v # NoWindow PROVE Dock(u, w)
    BY <1>1 DEF Dock
  <2>1. /\ v # w /\ t.icon[v] = NoWindow /\ \A i \in Windows : t.icon[i] = v => i = w
        /\ ~Asks(t, v) /\ (t.x[v].exists => Docked(t, w, v))
    BY <1>4 DEF Dock
  <2>2. Asks(u, w) => Asks(t, w)
    BY <1>2 DEF Asks
  <2>3. ASSUME Docked(t, w, v) PROVE Docked(u, w, v)
    <3>1. Once(u, w) /\ (Asks(u, w) => t.wants[w] \/ ~t.x[w].exists)
      BY <1>2, <2>2, <2>3 DEF Docked
    <3>2. Asks(u, w) => ~t.cwin[v].managed \/ At(t, "deinit", v) \/ Order(u, w, v)
      <4>1. e = <<"Unmap", v>> => ~t.cwin[v].managed \/ At(t, "deinit", v)
        OBVIOUS
      <4> QED BY <1>2, <2>2, <2>3, <4>1 DEF Docked
    <3> QED BY <1>1, <1>6, <1>7, <1>8, <3>1, <3>2 DEF Docked
  <2>4. ~Asks(u, v) /\ ~At(u, "maprq", v)
    BY <1>2, <1>7, <2>1 DEF Asks
  <2> QED BY <1>1, <2>1, <2>3, <2>4 DEF Dock
<1>11. \A v \in Windows : v # e[2] \/ e[1] # "ConfigureRequest" => Own(u, v)
  BY <1>9 DEF Own
<1>12. BaseBut(u, e[2])
  BY <1>1, <1>5, <1>9, <1>10, <1>11 DEF BaseBut
<1>13. e[1] # "ConfigureRequest" => Base(u)
  BY <1>1, <1>5, <1>10, <1>11 DEF Base
<1>14. Final(u, e[2]) = Final(t, e[2]) /\ (Good(t, e[2]) => Good(u, e[2]))
  BY <1>3 DEF Good
<1> QED BY <1>1, <1>5, <1>12, <1>13, <1>14 DEF u

\* What was heard last, without the first event.
LEMMA PoppedLast ==
  ASSUME NEW t \in States, t.ev # <<>>, NEW w
  PROVE  LET u == Popped(t)
         IN /\ \A e : LastWord(t, w, e) => LastWord(u, w, e) \/ (Head(t.ev) = <<e, w>> /\ Silent(u, w))
            /\ Silent(t, w) => Silent(u, w) /\ \A e \in {"MapRequest", "Unmap"} : Head(t.ev) # <<e, w>>
<1> DEFINE u == Popped(t)
           W == {<<"MapRequest", w>>, <<"Unmap", w>>}
<1>1. /\ \A i \in DOMAIN t.ev : i \in Nat /\ 1 <= i
      /\ 1 \in DOMAIN t.ev /\ Head(t.ev) = t.ev[1]
      /\ \A i \in DOMAIN u.ev : i \in Nat /\ i + 1 \in DOMAIN t.ev /\ u.ev[i] = t.ev[i + 1]
      /\ \A i \in DOMAIN t.ev : i # 1 => i - 1 \in DOMAIN u.ev /\ u.ev[i - 1] = t.ev[i]
  BY PoppedIndex
<1> HIDE DEF u
<1>2. ASSUME NEW e, LastWord(t, w, e)
      PROVE  LastWord(u, w, e) \/ (Head(t.ev) = <<e, w>> /\ Silent(u, w))
  <2>1. PICK i \in DOMAIN t.ev : t.ev[i] = <<e, w>> /\ \A j \in DOMAIN t.ev : j > i => t.ev[j] \notin W
    BY <1>2 DEF LastWord
  <2>2. ASSUME NEW j \in DOMAIN u.ev, j + 1 > i PROVE u.ev[j] \notin W
    <3>1. j + 1 \in DOMAIN t.ev /\ u.ev[j] = t.ev[j + 1]
      BY <1>1
    <3> QED BY <2>1, <2>2, <3>1
  <2>3. CASE i = 1
    <3>1. \A j \in DOMAIN u.ev : u.ev[j] \notin W
      <4> SUFFICES ASSUME NEW j \in DOMAIN u.ev PROVE u.ev[j] \notin W
        OBVIOUS
      <4>1. j \in Nat /\ j # 0
        <5>1. j \in 1 .. Len(u.ev)
          BY PoppedFacts, Fields DEF u
        <5> QED BY <5>1
      <4>2. j + 1 > i
        BY <2>3, <4>1
      <4> QED BY <2>2, <4>2
    <3>2. Silent(u, w)
      BY <3>1 DEF Silent, Has, Range
    <3> QED BY <1>1, <2>1, <2>3, <3>2
  <2>4. CASE i # 1
    <3>1. i - 1 \in DOMAIN u.ev /\ u.ev[i - 1] = <<e, w>> /\ i \in Nat
      BY <1>1, <2>1, <2>4
    <3>2. ASSUME NEW j \in DOMAIN u.ev, j > i - 1 PROVE u.ev[j] \notin W
      <4>1. j + 1 > i
        BY <1>1, <3>1, <3>2
      <4> QED BY <2>2, <4>1
    <3> QED BY <3>1, <3>2 DEF LastWord
  <2> QED BY <2>3, <2>4
<1>3. ASSUME Silent(t, w)
      PROVE  Silent(u, w) /\ \A e \in {"MapRequest", "Unmap"} : Head(t.ev) # <<e, w>>
  <2>1. \A e, v : Has(u, e, v) => Has(t, e, v)
    BY PoppedEvents DEF u
  <2>2. \A e : Head(t.ev) = <<e, w>> => Has(t, e, w)
    BY <1>1 DEF Has, Range
  <2> QED BY <1>3, <2>1, <2>2 DEF Silent
<1> QED BY <1>2, <1>3 DEF u

\* What is heard of the window that the first event is about, when it is
\* dealt with.
LEMMA PoppedHeard ==
  ASSUME NEW t \in States, t.ev # <<>>, NEW w \in Windows, NEW k, Head(t.ev) = <<k, w>>, Heard(t, w),
         NEW u, Deals(Popped(t), u, w), w \in t.refused => w \in u.refused,
         k = "MapRequest" => Taken(u, w), k = "Unmap" => ~Taken(u, w),
         k \in {"MapRequest", "Unmap"} \/ (Taken(u, w) <=> Taken(t, w))
  PROVE  Heard(u, w)
<1> DEFINE p == Popped(t)
<1>1. p.x = t.x /\ p.wm = t.wm /\ p.icon = t.icon /\ p.wants = t.wants
  BY PoppedFacts
<1>2. /\ \A e : LastWord(t, w, e) => LastWord(p, w, e) \/ (Head(t.ev) = <<e, w>> /\ Silent(p, w))
      /\ Silent(t, w) => Silent(p, w) /\ \A e \in {"MapRequest", "Unmap"} : Head(t.ev) # <<e, w>>
  BY PoppedLast
<1> HIDE DEF p
<1>3. u.x = p.x /\ u.wm = p.wm /\ u.icon = p.icon /\ u.wants = p.wants /\ u.ev = p.ev
  BY DEF Deals, p
<1>4. /\ Single(u, w) = Single(t, w) /\ Silent(u, w) = Silent(p, w)
      /\ \A e : LastWord(u, w, e) = LastWord(p, w, e)
  BY <1>1, <1>3 DEF Single, Silent, Has, LastWord
<1>5. /\ \A e : LastWord(t, w, e) => LastWord(u, w, e) \/ (k = e /\ Silent(u, w))
      /\ Silent(t, w) => Silent(u, w) /\ k \notin {"MapRequest", "Unmap"}
  BY <1>2, <1>4
<1> QED BY <1>1, <1>3, <1>4, <1>5 DEF Heard

\* So all windows show what they should, when one is dealt with that the first
\* event is about, if that does.
LEMMA PoppedCalm ==
  ASSUME NEW t \in States, Calm(t), t.ev # <<>>, t.pc = Idle, NEW w \in Windows, Head(t.ev)[2] = w,
         NEW u, Deals(Popped(t), u, w), u.twice = t.twice, About(u, w), CalmOf(u, w)
  PROVE  Calm(u)
<1> DEFINE p == Popped(t)
<1>1. /\ p \in States /\ p.x = t.x /\ p.out = t.out /\ p.pc = t.pc /\ p.wm = t.wm /\ p.cwin = t.cwin
      /\ p.place = t.place /\ p.prop = t.prop /\ p.icon = t.icon /\ p.tmpwins = t.tmpwins
      /\ p.kept = t.kept /\ p.refused = t.refused /\ p.twice = t.twice
      /\ p.crashed = t.crashed /\ p.wants = t.wants /\ p.asked = t.asked
  BY PoppedFacts
<1>2. /\ \A e, v : Has(p, e, v) => Has(t, e, v)
      /\ \A e, v : Has(t, e, v) => Has(p, e, v) \/ Head(t.ev) = <<e, v>>
  BY PoppedEvents
<1>3. \A v, e : LastWord(t, v, e) => LastWord(p, v, e) \/ Head(t.ev) = <<e, v>>
  BY PoppedLast
<1> HIDE DEF p
<1>4. ASSUME NEW v \in Windows, v # w PROVE CalmOf(u, v)
  <2>1. \A e : Head(t.ev) # <<e, v>>
    BY <1>4
  <2>2. SameEvents(t, p, v) /\ \A e : Has(p, e, v) <=> Has(t, e, v)
    BY <1>2, <1>3, <2>1 DEF SameEvents
  <2>3. Leaves(t, p, v) /\ \A k : At(p, k, v) <=> At(t, k, v)
    BY <1>1, Depends DEF At
  <2>4. Same(t, p, v)
    BY <1>1, <2>2, <2>3 DEF Same
  <2>5. CalmOf(p, v)
    BY <1>4, <2>2, <2>4, SameCalm DEF Calm
  <2>6. About(p, w)
    BY <1>1 DEF About, Idle
  <2> QED BY <1>1, <1>4, <2>5, <2>6, DealsOthers DEF p
<1> QED BY <1>4 DEF Calm

\* A managed window shows what it should without an event that does not end it.
LEMMA PoppedManaged ==
  ASSUME NEW t \in States, Calm(t), t.ev # <<>>, t.pc = Idle, NEW w \in Windows,
         NEW k \in {"MapRequest", "ConfigureRequest"}, Head(t.ev) = <<k, w>>, t.cwin[w].managed
  PROVE  CalmOf(Popped(t), w)
<1> DEFINE p == Popped(t)
<1>1. /\ p \in States /\ p.x = t.x /\ p.out = t.out /\ p.pc = t.pc /\ p.wm = t.wm /\ p.cwin = t.cwin
      /\ p.place = t.place /\ p.prop = t.prop /\ p.icon = t.icon /\ p.tmpwins = t.tmpwins
      /\ p.refused = t.refused /\ p.wants = t.wants /\ p.asked = t.asked
  BY PoppedFacts
<1>2. \A e \in {"Unmap", "Destroy"} : Has(p, e, w) <=> Has(t, e, w)
  BY PoppedEvents
<1>3. Deals(p, p, w)
  BY <1>1, ServesNot, ServesDeals
<1>4. CalmOf(t, w)
  BY DEF Calm
<1>5. \A i : i # "idle" => ~At(t, i, w) /\ ~At(p, i, w)
  BY <1>1 DEF At, Idle
<1>6. Taken(t, w) /\ Taken(p, w)
  BY <1>1, <1>5 DEF Taken
<1>7. Heard(p, w)
  BY <1>1, <1>3, <1>4, <1>6, PoppedHeard DEF CalmOf
<1> HIDE DEF p
<1>8. Final(p, w) = Final(t, w)
  BY <1>1, Depends
<1>9. Shown(p, w)
  BY <1>1, <1>2, <1>4, <1>5, <1>8 DEF CalmOf, Shown
<1>10. Noticed(p, w)
  BY <1>1, <1>2, <1>4, <1>5 DEF CalmOf, Noticed, Passing
<1> QED BY <1>7, <1>9, <1>10 DEF CalmOf, p


\* An event that is asked for once is not in the rest of the queue.
LEMMA HeadAsks ==
  ASSUME NEW t \in States, t.ev # <<>>, NEW w, Head(t.ev) = <<"MapRequest", w>>
  PROVE  /\ Asks(t, w) /\ (Once(t, w) => ~Asks(Popped(t), w)) /\ \A v : ~Order(t, w, v)
<1> DEFINE u == Popped(t)
           N == Len(t.ev)
<1>1. /\ N \in Nat \ {0} /\ DOMAIN t.ev = 1 .. N /\ DOMAIN u.ev = 1 .. N - 1 /\ Head(t.ev) = t.ev[1]
      /\ \A i \in DOMAIN u.ev : u.ev[i] = t.ev[i + 1]
  BY PoppedFacts
<1> HIDE DEF u, N
<1>2. 1 \in DOMAIN t.ev /\ t.ev[1] = <<"MapRequest", w>>
  BY <1>1
<1>3. Asks(t, w)
  BY <1>2 DEF Asks, Has, Range
<1>4. ASSUME Once(t, w), Asks(u, w) PROVE FALSE
  <2>1. PICK i \in DOMAIN u.ev : u.ev[i] = <<"MapRequest", w>>
    BY <1>4 DEF Asks, Has, Range
  <2>2. i + 1 \in DOMAIN t.ev /\ t.ev[i + 1] = <<"MapRequest", w>> /\ i + 1 # 1
    BY <1>1, <2>1
  <2> QED BY <1>2, <1>4, <2>2 DEF Once
<1>5. ASSUME NEW v, Order(t, w, v) PROVE FALSE
  <2>1. PICK j \in DOMAIN t.ev : j < 1
    BY <1>2, <1>5 DEF Order
  <2> QED BY <1>1, <2>1
<1> QED BY <1>3, <1>4, <1>5 DEF u

\* A window that asks to be shown is looked at, unless it is managed.
LEMMA MapRequestBase ==
  ASSUME Base(cw), cw.wm = "running", cw.pc = Idle, cw.ev # <<>>,
         NEW w \in Windows, Head(cw.ev) = <<"MapRequest", w>>
  PROVE  Keeps(cw, ioncore_manage_clientwin(Popped(cw), w, TRUE))
<1> DEFINE t == Popped(cw)
           u == ioncore_manage_clientwin(t, w, TRUE)
<1>1. cw \in States /\ Phase(cw) /\ Head(cw.ev)[1] = "MapRequest" /\ Head(cw.ev)[2] = w
  BY DEF Base
<1>2. Base(t)
  BY <1>1, PoppedBase
<1>3. /\ t \in States /\ t.x = cw.x /\ t.pc = cw.pc /\ t.wm = cw.wm /\ t.cwin = cw.cwin
      /\ t.icon = cw.icon /\ t.tmpwins = cw.tmpwins /\ t.wants = cw.wants
      /\ t.twice = cw.twice /\ t.refused = cw.refused
  BY <1>1, PoppedFacts
<1>4. Asks(cw, w) /\ (Once(cw, w) => ~Asks(t, w)) /\ \A v : ~Order(cw, w, v)
  BY <1>1, HeadAsks
<1> HIDE DEF t
<1>5. ASSUME t.cwin[w].managed PROVE Keeps(cw, u)
  <2>1. u = t
    BY <1>5 DEF ioncore_manage_clientwin
  <2>2. ASSUME Calm(cw) PROVE Calm(t)
    <3>1. CalmOf(t, w)
      BY <1>1, <1>3, <1>5, <2>2, PoppedManaged DEF t
    <3>2. Deals(t, t, w) /\ About(t, w)
      BY <1>3, ServesNot, ServesDeals DEF About, Idle
    <3> QED BY <1>1, <1>3, <2>2, <3>1, <3>2, PoppedCalm DEF t
  <2> HIDE DEF u
  <2> QED BY <1>2, <2>1, <2>2 DEF Keeps
<1>6. ASSUME ~t.cwin[w].managed PROVE Keeps(cw, u)
  <2>1. Own(t, w)
    BY <1>2 DEF Base
  <2>2. t.wm \in {"init", "running"} /\ t.pc = Idle /\ TRUE \in BOOLEAN
    BY <1>3
  <2>3. /\ Deals(t, u, w) /\ u.pc = <<"maprq", w>> /\ u.twice = t.twice /\ u.cwin = t.cwin /\ Own(u, w)
        /\ u.refused = t.refused
    BY <1>3, <1>6, <2>1, <2>2, WatchedOwn
  <2> HIDE DEF u
  <2>4. \A k, v : k # "idle" => ~At(t, k, v)
    BY <2>2 DEF At, Idle
  <2>5. \A k, v : k # "maprq" => ~At(u, k, v)
    BY <2>3 DEF At
  <2>6. MayAsk(t, w)
    <3>1. ASSUME NEW v \in Windows PROVE t.icon[v] # w
      <4>1. Dock(cw, v)
        BY DEF Base
      <4> QED BY <1>3, <1>4, <4>1, ClientAssumption DEF Dock
    <3>2. ASSUME t.icon[w] # NoWindow, t.x[t.icon[w]].exists
          PROVE  ~Asks(t, w) /\ ~t.cwin[t.icon[w]].managed /\ (t.wants[w] \/ ~t.x[w].exists)
      <4>1. Docked(cw, w, t.icon[w])
        BY <1>3, <3>2 DEF Base, Dock
      <4>2. \A v : ~At(cw, "deinit", v)
        BY DEF At, Idle
      <4> QED BY <1>3, <1>4, <4>1, <4>2 DEF Docked
    <3> QED BY <3>1, <3>2 DEF MayAsk
  <2>7. t.tmpwins = {} /\ u.tmpwins = t.tmpwins /\ u.wm = "running"
    BY <1>1, <1>3, <2>3 DEF Phase, Deals
  <2>8. About(t, w) /\ About(u, w)
    BY <2>2, <2>3 DEF About, Idle
  <2>9. Docile(t, u, w)
    <3>1. ~Scanned(u, w)
      BY <2>5, <2>7 DEF Scanned
    <3> QED BY <1>3, <1>6, <2>3, <2>4, <2>5, <2>6, <2>7, <3>1 DEF Docile
  <2>10. Phase(u)
    <3>1. u.pc[1] = "maprq"
      BY <2>3
    <3> QED BY <2>5, <2>7, <3>1 DEF Phase
  <2>11. Base(u)
    BY <1>2, <1>3, <2>3, <2>8, <2>9, <2>10, DealsBase
  <2>12. ASSUME Calm(cw) PROVE Calm(u)
    <3>1. Taken(u, w) /\ ~Passing(u, w)
      BY <2>3, <2>5 DEF Taken, Passing, At
    <3>2. Heard(u, w)
      BY <1>1, <1>3, <2>3, <2>12, <3>1, PoppedHeard DEF Calm, CalmOf, t
    <3>3. CalmOf(u, w)
      BY <1>6, <2>3, <3>1, <3>2, FreeCalm
    <3> QED BY <1>1, <1>3, <2>3, <2>8, <2>12, <3>3, PoppedCalm DEF t
  <2> QED BY <2>11, <2>12 DEF Keeps
<1> QED BY <1>5, <1>6 DEF t

\* A window that is unmapped is left.
LEMMA UnmapBase ==
  ASSUME Base(cw), cw.wm = "running", cw.pc = Idle, cw.ev # <<>>,
         NEW w \in Windows, Head(cw.ev) = <<"Unmap", w>>
  PROVE  LET t == Popped(cw) IN Keeps(cw, IF t.cwin[w].managed THEN clientwin_deinit(t, w) ELSE t)
<1> DEFINE t == Popped(cw)
           d == clientwin_deinit(cw, w)
           e == clientwin_deinit(t, w)
<1>1. cw \in States /\ Phase(cw) /\ Head(cw.ev)[1] = "Unmap" /\ Head(cw.ev)[2] = w
  BY DEF Base
<1>2. /\ t \in States /\ t.cwin = cw.cwin /\ t.pc = cw.pc /\ t.wm = cw.wm /\ t.tmpwins = {}
      /\ t.twice = cw.twice /\ t.refused = cw.refused
      /\ t.x = cw.x /\ t.out = cw.out /\ t.icon = cw.icon /\ t.asked = cw.asked
  BY <1>1, PoppedFacts DEF Phase
<1>3. CASE ~cw.cwin[w].managed
  <2>1. Base(t)
    BY <1>1, <1>3, PoppedBase
  <2> HIDE DEF t
  <2>2. ASSUME Calm(cw) PROVE Calm(t)
    <3>1. Deals(t, t, w) /\ About(t, w)
      BY <1>2, ServesNot, ServesDeals DEF About, Idle
    <3>2. ~Taken(t, w) /\ ~Passing(t, w)
      BY <1>2, <1>3 DEF Taken, Unscanned, Scanned, Passing, At, Idle
    <3>3. Heard(t, w)
      BY <1>1, <1>2, <2>2, <3>1, <3>2, PoppedHeard DEF Calm, CalmOf, t
    <3>4. CalmOf(t, w)
      BY <1>2, <1>3, <3>2, <3>3, FreeCalm
    <3> QED BY <1>1, <1>2, <2>2, <3>1, <3>4, PoppedCalm DEF t
  <2>3. Keeps(cw, t)
    BY <2>1, <2>2 DEF Keeps
  <2> QED BY <1>2, <1>3, <2>3 DEF t
<1>4. CASE cw.cwin[w].managed
  <2>1. Base(d)
    BY <1>1, <1>4, LeftBase
  <2>2. d.ev = cw.ev /\ d.wm = cw.wm /\ d.pc = <<"deinit", w>>
    BY <1>1 DEF clientwin_deinit, Send, States
  <2>3. clientwin_deinit(t, w) = Popped(d)
    BY <1>1 DEF clientwin_deinit, Send, States, Popped
  <2> HIDE DEF d
  <2>4. d \in States /\ At(d, "deinit", w)
    BY <2>1, <2>2 DEF Base, At
  <2>5. Base(Popped(d))
    BY <1>1, <2>1, <2>2, <2>4, PoppedBase
  <2>6. Base(e)
    BY <2>3, <2>5
  <2> HIDE DEF t
  <2>7. Held(t, w)
    <3>1. Own(cw, w) /\ ~At(cw, "deinit", w)
      BY <1>1 DEF Base, At, Idle
    <3>2. Held(cw, w)
      BY <1>4, <3>1, OwnHeld
    <3>3. Final(t, w) = Final(cw, w) /\ Fine(t, w) = Fine(cw, w) /\ Unseen(t, w) = Unseen(cw, w)
      BY <1>2, Depends
    <3> QED BY <1>2, <3>2, <3>3 DEF Held, Good
  <2>8. /\ Deals(t, e, w) /\ e \in States /\ e.pc = <<"deinit", w>> /\ e.twice = t.twice
        /\ e.refused = t.refused /\ e.cwin = t.cwin
    BY <1>2, <2>7, DeinitFacts DEF Left
  <2> HIDE DEF e
  <2>9. ASSUME Calm(cw) PROVE Calm(e)
    <3>1. About(e, w) /\ At(e, "deinit", w) /\ \A k : k # "deinit" => ~At(e, k, w)
      BY <2>8 DEF About, At
    <3>2. ~Taken(e, w)
      BY <1>2, <1>4, <2>8, <3>1 DEF Taken, Unscanned
    <3>3. Heard(e, w)
      BY <1>1, <1>2, <2>8, <2>9, <3>2, PoppedHeard DEF Calm, CalmOf, t
    <3>4. CalmOf(e, w)
      BY <3>1, <3>3, LeavingCalm
    <3> QED BY <1>1, <1>2, <2>8, <2>9, <3>1, <3>4, PoppedCalm DEF t
  <2>10. Keeps(cw, e)
    BY <2>6, <2>9 DEF Keeps
  <2> QED BY <1>2, <1>4, <2>10 DEF t, e
<1> QED BY <1>3, <1>4

\* A window that is no more is forgotten.
LEMMA DestroyBase ==
  ASSUME Base(cw), cw.wm = "running", cw.pc = Idle, cw.ev # <<>>,
         NEW w \in Windows, Head(cw.ev) = <<"Destroy", w>>
  PROVE  LET t == Popped(cw) IN Keeps(cw, IF t.cwin[w].managed THEN clientwin_destroyed(t, w) ELSE t)
<1> DEFINE t == Popped(cw)
           u == clientwin_destroyed(t, w)
<1>1. cw \in States /\ Phase(cw) /\ Head(cw.ev)[1] = "Destroy" /\ Head(cw.ev)[2] = w
  BY DEF Base
<1>2. Base(t)
  BY <1>1, PoppedBase
<1>3. /\ t \in States /\ t.x = cw.x /\ t.pc = cw.pc /\ t.wm = cw.wm /\ t.tmpwins = cw.tmpwins
      /\ t.twice = cw.twice
  BY <1>1, PoppedFacts
<1>4. ~cw.x[w].exists
  <2>1. Has(cw, "Destroy", w)
    <3>1. 1 \in DOMAIN cw.ev /\ cw.ev[1] = <<"Destroy", w>>
      BY <1>1, PoppedFacts
    <3> QED BY <3>1 DEF Has, Range
  <2> QED BY <2>1 DEF Base, Own, Lifeless
<1> HIDE DEF t
<1>5. ASSUME Calm(cw), NEW s, Deals(t, s, w), s.pc = Idle, s.twice = t.twice, ~s.cwin[w].managed
      PROVE  Calm(s)
  <2>1. s.x = cw.x
    BY <1>3, <1>5 DEF Deals
  <2>2. Heard(s, w) /\ ~Passing(s, w) /\ About(s, w)
    BY <1>4, <1>5, <2>1 DEF Heard, Passing, At, About, Idle
  <2>3. CalmOf(s, w)
    BY <1>5, <2>2, FreeCalm
  <2> QED BY <1>1, <1>3, <1>5, <2>2, <2>3, PoppedCalm DEF t
<1>6. ASSUME t.cwin[w].managed PROVE Keeps(cw, u)
  <2>1. Own(t, w) /\ ~Final(t, w).x.exists
    BY <1>2, <1>3, <1>4, FinalFacts DEF Base
  <2>2. Good(t, w)
    BY <2>1 DEF Own, Managed, Good
  <2>3. /\ Deals(t, u, w) /\ u \in States /\ u.pc = t.pc /\ u.twice = t.twice
        /\ u.refused = t.refused /\ Forgotten(t, u, w)
    BY <1>3, <2>1, <2>2, DestroyedFacts
  <2> HIDE DEF u
  <2>4. Good(u, w) /\ ~u.cwin[w].managed
    BY <2>3 DEF Forgotten, NotManaged
  <2>5. ~Final(u, w).x.exists
    <3>1. u.x = t.x
      BY <2>3 DEF Deals
    <3> QED BY <1>3, <1>4, <2>3, <3>1, FinalFacts
  <2>6. About(t, w) /\ ~Scanned(t, w)
    BY <1>1, <1>3 DEF About, Scanned, At, Idle, Phase
  <2>7. Base(u)
    BY <1>2, <1>3, <1>6, <2>3, <2>4, <2>5, <2>6, FreedBase
  <2>8. Calm(cw) => Calm(u)
    BY <1>3, <1>5, <2>3, <2>4
  <2> QED BY <2>7, <2>8 DEF Keeps
<1>7. ASSUME ~t.cwin[w].managed PROVE Keeps(cw, t)
  <2>1. Deals(t, t, w)
    BY <1>3, ServesNot, ServesDeals
  <2>2. Calm(cw) => Calm(t)
    BY <1>3, <1>5, <1>7, <2>1
  <2> QED BY <1>2, <2>2 DEF Keeps
<1> QED BY <1>6, <1>7 DEF t

\* What the user's layout makes of a request to be configured, which is then
\* answered.
LEMMA ConfiguredFacts ==
  ASSUME NEW t \in States, NEW w \in Windows, Held(t, w),
         NEW u \in clientwin_handle_configure_request(t, w)
  PROVE  /\ Serves(t, u, w) /\ u \in States /\ Held(u, w)
         /\ u.cwin[w].orig_bw = t.cwin[w].orig_bw
         /\ Final(t, w).x.exists => /\ ~Final(u, w).asked
                                    /\ Final(t, w).x.parent = "frame" => Final(u, w).x.parent = "frame"
         /\ Visible(t, w) => Visible(u, w)
         /\ Shows(t, w) => Shows(u, w)
<1> DEFINE s == [t EXCEPT !.cwin[w].need_cfgntfy = TRUE]
<1>1. /\ Tends(t, s, w) /\ s \in States /\ s.cwin[w].mapped = t.cwin[w].mapped
      /\ s.cwin[w].state = t.cwin[w].state /\ s.cwin[w].geom = t.cwin[w].geom
      /\ s.cwin[w].need_cfgntfy /\ s.place = t.place /\ Final(s, w) = Final(t, w)
  BY NeedFacts
<1>2. PICK v \in ConfigureOutcomes(s, w) :
        u = IF v.cwin[w].need_cfgntfy
            THEN [sendconfig_clientwin(v, w) EXCEPT !.cwin[w].need_cfgntfy = FALSE] ELSE v
  BY DEF clientwin_handle_configure_request
<1> HIDE DEF s
<1>3. /\ Held(s, w) /\ Serves(t, s, w) /\ s.cwin[w].orig_bw = t.cwin[w].orig_bw
      /\ Shows(t, w) => Shows(s, w)
      /\ Visible(t, w) => Visible(s, w)
  <2>1. Held(s, w) /\ Serves(t, s, w) /\ s.cwin[w].orig_bw = t.cwin[w].orig_bw
    BY <1>1 DEF Tends
  <2>2. s.prop = t.prop /\ s.ev = t.ev
    BY <2>1 DEF Serves, Aside
  <2> QED BY <1>1, <2>1, <2>2 DEF Shows, Visible, Has
<1>4. /\ Tends(s, v, w) /\ v \in States
      /\ Shows(s, w) => Shows(v, w)
      /\ Visible(s, w) => Visible(v, w)
  <2>1. CASE v = s
    <3>1. Tends(s, s, w)
      BY <1>1, ServesNot DEF Tends
    <3> QED BY <1>1, <2>1, <3>1
  <2>2. CASE \E g \in Geoms : v = clientwin_fitrep([s EXCEPT !.place[w] = g], w, FALSE, g)
    <3>1. Tends(s, v, w) /\ v \in States /\ (Visible(s, w) => Shows(v, w))
      BY <1>1, <2>2, RefitFacts
    <3> QED BY <3>1 DEF Shows
  <2>3. CASE \E g \in Geoms : v = AttachTo(s, w, g, TRUE)
    <3>1. TRUE \in BOOLEAN
      OBVIOUS
    <3>2. Tends(s, v, w) /\ v \in States /\ Shows(v, w)
      BY <1>1, <2>3, <3>1, AttachFacts
    <3> QED BY <3>2 DEF Shows
  <2> QED BY <1>2, <2>1, <2>2, <2>3 DEF ConfigureOutcomes
<1>5. /\ Held(v, w) /\ Serves(s, v, w) /\ v.cwin[w].orig_bw = s.cwin[w].orig_bw
      /\ Final(s, w).x.exists /\ ~v.cwin[w].need_cfgntfy => ~Final(v, w).asked
      /\ Final(s, w).x.exists /\ Final(s, w).x.parent = "frame" => Final(v, w).x.parent = "frame"
      /\ Final(v, w).x.exists = Final(s, w).x.exists
  <2>1. Serves(s, v, w)
    BY <1>4 DEF Tends
  <2>2. Final(v, w).x.exists = Final(s, w).x.exists
    BY <1>1, <2>1, ServesThere
  <2> QED BY <1>1, <1>3, <1>4, <2>1, <2>2 DEF Tends
<1>6. Serves(t, v, w)
  BY <1>3, <1>5, ServesTwice
<1>7. CASE ~v.cwin[w].need_cfgntfy
  BY <1>1, <1>2, <1>3, <1>4, <1>5, <1>6, <1>7
<1>8. CASE v.cwin[w].need_cfgntfy
  <2> DEFINE r == <<"notify", w>>
             m == Masked(v, w, <<r>>)
             c == [m.cwin[w] EXCEPT !.need_cfgntfy = FALSE]
             k == Kept(m, w, c)
  <2>1. r \in Requests /\ r[2] = w /\ r[1] = "notify"
    BY RequestTypes
  <2>2. u = k
    BY <1>2, <1>8 DEF sendconfig_clientwin, Kept
  <2> HIDE DEF r
  <2>3. /\ Tends(v, m, w) /\ m \in States /\ m.cwin = v.cwin /\ m.place = v.place
        /\ Final(m, w).x.exists = Final(v, w).x.exists /\ Behind(v, m, w, r)
    BY <1>4, <2>1, MaskedTends
  <2> HIDE DEF m
  <2>4. m.cwin[w] \in CWins
    BY <2>3, Fields
  <2>5. /\ c \in CWins /\ c.managed = m.cwin[w].managed /\ c.orig_bw = m.cwin[w].orig_bw
        /\ c.state = m.cwin[w].state /\ c.geom = m.cwin[w].geom /\ c.mapped = m.cwin[w].mapped
    BY <2>4 DEF CWins
  <2> HIDE DEF c
  <2>6. /\ Serves(m, k, w) /\ k \in States /\ k.cwin[w] = c /\ k.place = m.place /\ k.out = m.out
        /\ Final(k, w) = Final(m, w) /\ (Good(m, w) => Good(k, w))
    BY <2>3, <2>5, KeptFacts
  <2> HIDE DEF k
  <2>7. Held(m, w) /\ Serves(v, m, w)
    BY <1>5, <2>3 DEF Tends
  <2>8. Held(k, w) /\ k.cwin[w].orig_bw = t.cwin[w].orig_bw
    <3>1. Held(k, w)
      BY <2>5, <2>6, <2>7 DEF Held
    <3> QED BY <1>3, <1>5, <2>3, <2>5, <2>6, <3>1
  <2>9. Serves(t, k, w)
    <3>1. Serves(t, m, w)
      BY <1>6, <2>7, ServesTwice
    <3> QED BY <2>6, <3>1, ServesTwice
  <2>10. Final(t, w).x.exists => /\ ~Final(k, w).asked
                                 /\ Final(t, w).x.parent = "frame" => Final(k, w).x.parent = "frame"
    BY <1>1, <1>5, <2>1, <2>3, <2>6 DEF Behind
  <2>11. /\ Visible(v, w) => Visible(k, w)
         /\ Shows(v, w) => Shows(k, w)
    <3>1. k.prop = v.prop /\ k.ev = v.ev
      BY <2>6, <2>7 DEF Serves, Aside
    <3>2. Final(v, w).x.exists => /\ Final(k, w).x.exists
                                  /\ Final(k, w).x.mapped = Final(v, w).x.mapped
                                  /\ Final(k, w).x.away = Final(v, w).x.away
      BY <2>1, <2>3, <2>6 DEF Behind
    <3>3. Final(k, w).x.exists = Final(v, w).x.exists
      BY <2>3, <2>6
    <3>4. Visible(v, w) => Visible(k, w)
      BY <2>3, <2>5, <2>6, <3>1, <3>2, <3>3 DEF Visible, Has
    <3> QED BY <2>3, <2>5, <2>6, <3>4 DEF Shows
  <2> QED BY <1>3, <1>4, <2>2, <2>6, <2>8, <2>9, <2>10, <2>11
<1> QED BY <1>7, <1>8

\* A managed window is configured as the layout has it, and the client told.
LEMMA ConfigureBase ==
  ASSUME Base(cw), cw.wm = "running", cw.pc = Idle, cw.ev # <<>>,
         NEW w \in Windows, Head(cw.ev) = <<"ConfigureRequest", w>>,
         cw.cwin[w].managed,
         NEW u \in clientwin_handle_configure_request(Popped(cw), w)
  PROVE  Keeps(cw, u)
<1> DEFINE t == Popped(cw)
<1>1. cw \in States /\ Phase(cw) /\ Head(cw.ev)[2] = w /\ Head(cw.ev)[1] # "Unmap" /\ Own(cw, w)
  BY DEF Base
<1>2. /\ t \in States /\ Phase(t) /\ BaseBut(t, w) /\ Final(t, w) = Final(cw, w)
      /\ Good(cw, w) => Good(t, w)
  BY <1>1, PoppedBase
<1>3. /\ t.x = cw.x /\ t.pc = cw.pc /\ t.wm = cw.wm /\ t.cwin = cw.cwin /\ t.crashed = cw.crashed
      /\ t.tmpwins = cw.tmpwins /\ t.refused = cw.refused /\ t.twice = cw.twice /\ t.asked = cw.asked
  BY <1>1, PoppedFacts
<1>4. Calm(cw) => CalmOf(t, w)
  BY <1>1, PoppedManaged
<1>5. u \in clientwin_handle_configure_request(t, w)
  OBVIOUS
<1> HIDE DEF t
<1>6. Held(t, w) /\ (Final(t, w).x.exists => Final(t, w).x.parent = "frame")
  <2>1. ~At(cw, "deinit", w)
    BY DEF At, Idle
  <2>2. Held(cw, w) /\ (Final(cw, w).x.exists => Final(cw, w).x.parent = "frame")
    BY <1>1, <2>1, OwnHeld
  <2> QED BY <1>2, <1>3, <2>2 DEF Held
<1>7. /\ Serves(t, u, w) /\ u \in States /\ Held(u, w) /\ u.cwin[w].orig_bw = t.cwin[w].orig_bw
      /\ Final(t, w).x.exists => /\ ~Final(u, w).asked
                                 /\ Final(t, w).x.parent = "frame" => Final(u, w).x.parent = "frame"
      /\ Shows(t, w) => Shows(u, w)
  BY <1>2, <1>5, <1>6, ConfiguredFacts
<1>8. Deals(t, u, w) /\ u.pc = Idle /\ u.twice = t.twice /\ u.refused = t.refused
  BY <1>3, <1>7, ServesDeals
<1>9. /\ Final(t, w).x.exists = t.x[w].exists /\ Final(u, w).x.exists = t.x[w].exists
      /\ u.x = t.x /\ u.wm = "running" /\ u.crashed = t.crashed /\ u.tmpwins = t.tmpwins /\ t.tmpwins = {}
      /\ u.asked = t.asked
  <2>1. /\ u.x = t.x /\ u.wm = "running" /\ u.crashed = t.crashed /\ u.tmpwins = t.tmpwins
        /\ u.asked = t.asked /\ t.tmpwins = {}
    BY <1>1, <1>3, <1>8 DEF Deals, Phase
  <2> QED BY <1>2, <1>7, <2>1, FinalFacts
<1>10. Lifeless(t, w) /\ Lifeless(u, w)
  BY <1>2, <1>8, DealsLifeless DEF BaseBut
<1>11. Answered(u, w)
  <2>1. ~Final(u, w).asked
    <3>1. CASE t.x[w].exists
      BY <1>7, <1>9, <3>1
    <3>2. CASE ~t.x[w].exists
      BY <1>7, <1>9, <1>10, <3>2, FinalFacts DEF Lifeless
    <3> QED BY <3>1, <3>2
  <2> QED BY <2>1 DEF Answered
<1>12. ~u.crashed /\ w \notin u.refused /\ u.x[w].exists => u.cwin[w].orig_bw
  <2>1. ~cw.crashed /\ w \notin cw.refused /\ cw.x[w].exists => cw.cwin[w].orig_bw
    <3>1. Final(cw, w).x.exists = cw.x[w].exists
      BY <1>1, FinalFacts
    <3> QED BY <1>1, <3>1 DEF Own, Restored
  <2> QED BY <1>3, <1>7, <1>8, <1>9, <2>1
<1>13. Own(u, w)
  <2>1. ~u.twice /\ u.wm # "gone" /\ u.pc \in {Idle, <<"check", w>>, <<"loaded", w>>}
    BY <1>1, <1>3, <1>8, <1>9 DEF Own, Managed
  <2> QED BY <1>6, <1>7, <1>9, <1>10, <1>11, <1>12, <2>1, HeldOwn
<1>14. About(t, w) /\ About(u, w) /\ \A k, v : k # "idle" => ~At(u, k, v) /\ ~At(t, k, v)
  BY <1>3, <1>8 DEF About, Idle, At
<1>15. Docile(t, u, w)
  <2>1. ~Scanned(u, w)
    BY <1>9, <1>14 DEF Scanned
  <2> QED BY <1>3, <1>9, <1>14, <2>1 DEF Docile
<1>16. u \in States /\ \A v \in Windows : Own(u, v) /\ Dock(u, v)
  BY <1>2, <1>8, <1>13, <1>14, <1>15, DealsAll
<1>17. Phase(u)
  <2>1. u.pc[1] = "idle"
    BY <1>8 DEF Idle
  <2> QED BY <1>9, <1>14, <2>1 DEF Phase
<1>18. ASSUME Calm(cw) PROVE Calm(u)
  <2>1. Shown(t, w) /\ t.cwin[w].managed /\ u.cwin[w].managed
    BY <1>3, <1>7, <1>18, <1>4 DEF CalmOf, Held
  <2>2. Shows(t, w)
    BY <1>14, <2>1 DEF Shown, Shows, Visible
  <2>3. CalmOf(u, w)
    BY <1>2, <1>3, <1>7, <1>8, <1>18, <1>4, <2>1, <2>2, TendedCalm
  <2> QED BY <1>1, <1>3, <1>8, <1>14, <1>18, <2>3, PoppedCalm DEF t
<1> QED BY <1>16, <1>17, <1>18 DEF Base, Keeps

\* A request of one that is not is passed on.
LEMMA ForwardBase ==
  ASSUME Base(cw), cw.wm = "running", cw.pc = Idle, cw.ev # <<>>,
         NEW w \in Windows, Head(cw.ev) = <<"ConfigureRequest", w>>,
         ~cw.cwin[w].managed
  PROVE  Keeps(cw, Send(Popped(cw), w, <<<<"forward", w>>>>))
<1> DEFINE t == Popped(cw)
           r == <<"forward", w>>
           u == Ask(t, r)
           z == Final(t, w).x
           y == Final(u, w).x
<1>1. cw \in States /\ Phase(cw) /\ Head(cw.ev)[2] = w /\ Head(cw.ev)[1] # "Unmap" /\ Own(cw, w)
  BY DEF Base
<1>2. /\ t \in States /\ Phase(t) /\ BaseBut(t, w) /\ Final(t, w) = Final(cw, w)
      /\ Good(cw, w) => Good(t, w)
  BY <1>1, PoppedBase
<1>3. /\ t.x = cw.x /\ t.pc = cw.pc /\ t.wm = cw.wm /\ t.cwin = cw.cwin /\ t.crashed = cw.crashed
      /\ t.tmpwins = cw.tmpwins /\ t.refused = cw.refused /\ t.twice = cw.twice /\ t.asked = cw.asked
  BY <1>1, PoppedFacts
<1> HIDE DEF t
<1>4. r \in Requests /\ r[2] = w /\ r[1] = "forward"
  BY RequestTypes
<1>5. Send(t, w, <<r>>) = u
  BY <1>2, <1>4, SendOne
<1> HIDE DEF r
<1>6. Asked(t, u, w, r)
  BY <1>2, <1>4, AskDone
<1> HIDE DEF u
<1>7. Deals(t, u, w) /\ u.pc = Idle /\ u.twice = t.twice /\ u.refused = t.refused /\ u.cwin = t.cwin
      /\ u \in States
  BY <1>3, <1>6, ServesDeals DEF Asked
<1>8. /\ z.exists = t.x[w].exists /\ y.exists = t.x[w].exists
      /\ u.x = t.x /\ u.wm = "running" /\ u.crashed = t.crashed /\ u.tmpwins = t.tmpwins /\ t.tmpwins = {}
      /\ u.asked = t.asked
  <2>1. /\ u.x = t.x /\ u.wm = "running" /\ u.crashed = t.crashed /\ u.tmpwins = t.tmpwins
        /\ u.asked = t.asked /\ t.tmpwins = {}
    BY <1>1, <1>3, <1>7 DEF Deals, Phase
  <2> QED BY <1>2, <1>7, <2>1, FinalFacts
<1>9. Lifeless(t, w) /\ Lifeless(u, w)
  BY <1>2, <1>7, DealsLifeless DEF BaseBut
<1>10. z.exists => /\ Parts(Final(t, w), Final(u, w), r) /\ Answers(Final(t, w), Final(u, w), r)
                   /\ y.exists
  BY <1>6 DEF Asked
<1>11. Answered(u, w)
  <2>1. ~Final(u, w).asked
    <3>1. CASE t.x[w].exists
      BY <1>4, <1>8, <1>10, <3>1 DEF Answers
    <3>2. CASE ~t.x[w].exists
      BY <1>7, <1>8, <1>9, <3>2, FinalFacts DEF Lifeless
    <3> QED BY <3>1, <3>2
  <2> QED BY <2>1 DEF Answered
<1>12. \A k, v : k # "idle" => ~At(u, k, v) /\ ~At(t, k, v) /\ ~At(cw, k, v)
  BY <1>3, <1>7 DEF Idle, At
<1>13. /\ Good(t, w) /\ ~t.twice
       /\ z.exists => /\ ~z.saved /\ z.parent = "root" /\ ~z.sel
                      /\ ~t.crashed /\ w \notin t.refused => z.border
  BY <1>1, <1>2, <1>3, <1>12 DEF Own, Managed, Restored, Good
<1>14. z.exists => y.saved = z.saved /\ y.parent = z.parent /\ y.sel = z.sel /\ y.border = z.border
  <2> SUFFICES ASSUME z.exists
               PROVE  y.saved = z.saved /\ y.parent = z.parent /\ y.sel = z.sel /\ y.border = z.border
    OBVIOUS
  <2>1. Parts(Final(t, w), Final(u, w), r)
    BY <1>10
  <2> QED BY <1>4, <2>1 DEF Parts
<1> HIDE DEF y, z
<1>15. Good(u, w)
  BY <1>4, <1>6, <1>8, <1>13, <1>14 DEF Asked, y, z
<1>16. y.exists => /\ ~y.saved /\ y.parent = "root" /\ ~y.sel
                   /\ ~u.crashed /\ w \notin u.refused => y.border
  BY <1>7, <1>8, <1>13, <1>14
<1>17. ~Scanned(u, w) /\ ~Passing(u, w)
  BY <1>8, <1>12 DEF Scanned, Passing
<1>18. Own(u, w)
  <2>1. ~u.cwin[w].managed /\ ~u.twice /\ u.wm # "gone" /\ u.wm # "exiting" /\ ~Unscanned(u, w)
    BY <1>3, <1>7, <1>8, <1>13, <1>17 DEF Unscanned
  <2>2. ~At(u, "create", w)
    BY <1>12
  <2> QED BY <1>7, <1>9, <1>11, <1>15, <1>16, <1>17, <2>1, <2>2, FreeOwn DEF y
<1>19. About(t, w) /\ About(u, w)
  BY <1>3, <1>7 DEF About, Idle
<1>20. Docile(t, u, w)
  BY <1>3, <1>7, <1>8, <1>12, <1>17, ClientAssumption DEF Docile, Idle
<1>21. u \in States /\ \A v \in Windows : Own(u, v) /\ Dock(u, v)
  BY <1>2, <1>7, <1>18, <1>19, <1>20, DealsAll
<1>22. Phase(u)
  <2>1. u.pc[1] = "idle"
    BY <1>7 DEF Idle
  <2> QED BY <1>8, <1>12, <2>1 DEF Phase
<1>23. ASSUME Calm(cw) PROVE Calm(u)
  <2>1. ~Taken(cw, w) /\ ~Taken(u, w)
    BY <1>1, <1>3, <1>7, <1>8, <1>12, <1>17 DEF Taken, Unscanned, Scanned
  <2>2. Heard(u, w)
    BY <1>1, <1>3, <1>7, <1>23, <2>1, PoppedHeard DEF Calm, CalmOf, t
  <2>3. CalmOf(u, w)
    BY <1>3, <1>7, <1>17, <2>2, FreeCalm
  <2> QED BY <1>1, <1>3, <1>7, <1>19, <1>23, <2>3, PoppedCalm DEF t
<1>24. Keeps(cw, u)
  BY <1>21, <1>22, <1>23 DEF Base, Keeps
<1> QED BY <1>5, <1>24 DEF t, r

\* Every event that is handled.
LEMMA EventBase == ASSUME Base(cw), ioncore_handle_event PROVE Keeps(cw, cw')
<1> DEFINE e == Head(cw.ev)
           w == e[2]
           t == Popped(cw)
<1>1. /\ cw.wm = "running" /\ cw.pc = Idle /\ cw.ev # <<>> /\ cw \in States
      /\ CASE e[1] = "MapRequest" -> cw' = ioncore_manage_clientwin(t, w, TRUE)
           [] e[1] = "Unmap" -> cw' = IF t.cwin[w].managed THEN clientwin_deinit(t, w) ELSE t
           [] e[1] = "Destroy" -> cw' = IF t.cwin[w].managed THEN clientwin_destroyed(t, w) ELSE t
           [] OTHER -> IF t.cwin[w].managed THEN cw' \in clientwin_handle_configure_request(t, w)
                       ELSE cw' = Send(t, w, <<<<"forward", w>>>>)
  BY DEF ioncore_handle_event, Popped, Base
<1>2. /\ e = <<e[1], w>> /\ w \in Windows /\ t.cwin = cw.cwin
      /\ e[1] \in {"MapRequest", "Unmap", "Destroy", "ConfigureRequest"}
  BY <1>1, PoppedFacts
<1> HIDE DEF w, t, e
<1>3. CASE e[1] = "MapRequest"
  <2>1. Keeps(cw, ioncore_manage_clientwin(t, w, TRUE))
    BY <1>1, <1>2, <1>3, MapRequestBase DEF e, t
  <2> QED BY <1>1, <1>3, <2>1
<1>4. CASE e[1] = "Unmap"
  <2>1. Keeps(cw, IF t.cwin[w].managed THEN clientwin_deinit(t, w) ELSE t)
    BY <1>1, <1>2, <1>4, UnmapBase DEF e, t
  <2> QED BY <1>1, <1>4, <2>1
<1>5. CASE e[1] = "Destroy"
  <2>1. Keeps(cw, IF t.cwin[w].managed THEN clientwin_destroyed(t, w) ELSE t)
    BY <1>1, <1>2, <1>5, DestroyBase DEF e, t
  <2> QED BY <1>1, <1>5, <2>1
<1>6. CASE e[1] = "ConfigureRequest"
  <2>1. IF cw.cwin[w].managed THEN cw' \in clientwin_handle_configure_request(t, w)
        ELSE cw' = Send(t, w, <<<<"forward", w>>>>)
    BY <1>1, <1>2, <1>6
  <2>2. CASE cw.cwin[w].managed
    BY <1>1, <1>2, <1>6, <2>1, <2>2, ConfigureBase DEF e, t
  <2>3. CASE ~cw.cwin[w].managed
    <3>1. Keeps(cw, Send(t, w, <<<<"forward", w>>>>))
      BY <1>1, <1>2, <1>6, <2>3, ForwardBase DEF e, t
    <3> QED BY <2>1, <2>3, <3>1
  <2> QED BY <2>2, <2>3
<1> QED BY <1>2, <1>3, <1>4, <1>5, <1>6

-----------------------------------------------------------------------------
(* What clients do *)

\* Events of E came to the queue
Grows(t, u, E) ==
  /\ Len(t.ev) <= Len(u.ev)
  /\ \A i \in 1 .. Len(t.ev) : u.ev[i] = t.ev[i]
  /\ \A i \in DOMAIN u.ev : i > Len(t.ev) => u.ev[i] \in E
\* The last that came
Latest(t, e, w) == t.ev # <<>> /\ t.ev[Len(t.ev)] = <<e, w>>

\* What is known of the queue when others come.
LEMMA GrowsEvents ==
  ASSUME NEW t \in States, NEW u \in States, NEW E, Grows(t, u, E)
  PROVE  /\ \A e, v : Has(t, e, v) => Has(u, e, v)
         /\ \A e, v : Has(u, e, v) => Has(t, e, v) \/ <<e, v>> \in E
         /\ \A w : <<"MapRequest", w>> \notin E =>
                     /\ Once(t, w) => Once(u, w)
                     /\ \A v : Order(t, w, v) => Order(u, w, v)
         /\ \A e, v : <<"MapRequest", v>> \notin E /\ <<"Unmap", v>> \notin E =>
                        (LastWord(t, v, e) => LastWord(u, v, e))
<1>1. /\ Len(t.ev) \in Nat /\ Len(u.ev) \in Nat /\ Len(t.ev) <= Len(u.ev)
      /\ DOMAIN t.ev = 1 .. Len(t.ev) /\ DOMAIN u.ev = 1 .. Len(u.ev)
  BY Fields DEF Grows
<1>2. /\ \A i \in DOMAIN t.ev : i \in DOMAIN u.ev /\ u.ev[i] = t.ev[i]
      /\ \A i \in DOMAIN u.ev : i \in DOMAIN t.ev \/ (i > Len(t.ev) /\ u.ev[i] \in E)
      /\ \A i \in DOMAIN t.ev : \A j \in DOMAIN u.ev : j <= i => j \in DOMAIN t.ev
  BY <1>1 DEF Grows
<1>3. ASSUME NEW e, NEW v, Has(t, e, v) PROVE Has(u, e, v)
  <2>1. PICK i \in DOMAIN t.ev : t.ev[i] = <<e, v>>
    BY <1>3 DEF Has, Range
  <2>2. i \in DOMAIN u.ev /\ u.ev[i] = <<e, v>>
    BY <1>2, <2>1
  <2> QED BY <2>2 DEF Has, Range
<1>4. ASSUME NEW e, NEW v, Has(u, e, v) PROVE Has(t, e, v) \/ <<e, v>> \in E
  <2>1. PICK i \in DOMAIN u.ev : u.ev[i] = <<e, v>>
    BY <1>4 DEF Has, Range
  <2>2. CASE i \in DOMAIN t.ev
    <3>1. t.ev[i] = <<e, v>>
      BY <1>2, <2>1, <2>2
    <3> QED BY <2>2, <3>1 DEF Has, Range
  <2> QED BY <1>2, <2>1, <2>2
<1>5. ASSUME NEW w, <<"MapRequest", w>> \notin E
      PROVE  /\ Once(t, w) => Once(u, w)
             /\ \A v : Order(t, w, v) => Order(u, w, v)
  <2>1. \A i \in DOMAIN u.ev : u.ev[i] = <<"MapRequest", w>> => i \in DOMAIN t.ev /\ t.ev[i] = <<"MapRequest", w>>
    BY <1>2, <1>5
  <2>2. Once(t, w) => Once(u, w)
    BY <2>1 DEF Once
  <2>3. ASSUME NEW v, Order(t, w, v) PROVE Order(u, w, v)
    <3> SUFFICES ASSUME NEW i \in DOMAIN u.ev, u.ev[i] = <<"MapRequest", w>>
                 PROVE  \E j \in DOMAIN u.ev : j < i /\ u.ev[j] = <<"Unmap", v>>
      BY DEF Order
    <3>1. PICK j \in DOMAIN t.ev : j < i /\ t.ev[j] = <<"Unmap", v>>
      BY <2>1, <2>3 DEF Order
    <3> QED BY <1>2, <3>1
  <2> QED BY <2>2, <2>3
<1>6. ASSUME NEW e, NEW v, <<"MapRequest", v>> \notin E, <<"Unmap", v>> \notin E, LastWord(t, v, e)
      PROVE  LastWord(u, v, e)
  <2>1. PICK i \in DOMAIN t.ev :
          /\ t.ev[i] = <<e, v>>
          /\ \A j \in DOMAIN t.ev : j > i => t.ev[j] \notin {<<"MapRequest", v>>, <<"Unmap", v>>}
    BY <1>6 DEF LastWord
  <2>2. i \in DOMAIN u.ev /\ u.ev[i] = <<e, v>>
    BY <1>2, <2>1
  <2>3. \A j \in DOMAIN u.ev : j > i => u.ev[j] \notin {<<"MapRequest", v>>, <<"Unmap", v>>}
    BY <1>2, <1>6, <2>1
  <2> QED BY <2>2, <2>3 DEF LastWord
<1> QED BY <1>3, <1>4, <1>5, <1>6

\* What the last event is.
LEMMA LatestFacts ==
  ASSUME NEW t \in States, NEW e, NEW w, Latest(t, e, w)
  PROVE  Has(t, e, w) /\ LastWord(t, w, e)
<1>1. t.ev \in Seq(Events) /\ t.ev # <<>>
  BY Fields DEF Latest
<1>2. Len(t.ev) \in Nat /\ DOMAIN t.ev = 1 .. Len(t.ev) /\ Len(t.ev) # 0
  BY <1>1
<1>3. Len(t.ev) \in DOMAIN t.ev /\ t.ev[Len(t.ev)] = <<e, w>>
  BY <1>2 DEF Latest
<1>4. \A j \in DOMAIN t.ev : ~(j > Len(t.ev))
  BY <1>2
<1> QED BY <1>3, <1>4 DEF Has, Range, LastWord

\* Only w and its events are another
More(t, u, w, k) ==
  /\ u \in States /\ Grows(t, u, {<<k, w>>})
  /\ u.out = t.out /\ u.pc = t.pc /\ u.wm = t.wm /\ u.cwin = t.cwin /\ u.place = t.place
  /\ u.prop = t.prop /\ u.icon = t.icon /\ u.tmpwins = t.tmpwins /\ u.kept = t.kept
  /\ u.refused = t.refused /\ u.twice = t.twice /\ u.crashed = t.crashed
  /\ \A v \in Windows : v # w => u.x[v] = t.x[v] /\ u.wants[v] = t.wants[v] /\ u.asked[v] = t.asked[v]

\* So the others are the same.
LEMMA MoreSame ==
  ASSUME NEW t \in States, NEW u, NEW w, NEW k, More(t, u, w, k), NEW v \in Windows, v # w
  PROVE  Same(t, u, v) /\ SameEvents(t, u, v) /\ (Once(t, v) => Once(u, v))
         /\ \A i : Order(t, v, i) => Order(u, v, i)
<1>1. /\ u \in States /\ Grows(t, u, {<<k, w>>})
      /\ u.x[v] = t.x[v] /\ u.wants[v] = t.wants[v] /\ u.asked[v] = t.asked[v]
      /\ u.out = t.out /\ u.pc = t.pc /\ u.wm = t.wm /\ u.cwin = t.cwin /\ u.place = t.place
      /\ u.prop = t.prop /\ u.icon = t.icon /\ u.tmpwins = t.tmpwins /\ u.kept = t.kept
      /\ u.refused = t.refused /\ u.twice = t.twice /\ u.crashed = t.crashed
  BY DEF More
<1>2. \A e : <<e, v>> \notin {<<k, w>>}
  OBVIOUS
<1>3. /\ \A e : Has(t, e, v) <=> Has(u, e, v)
      /\ Once(t, v) => Once(u, v)
      /\ \A i : Order(t, v, i) => Order(u, v, i)
      /\ \A e : LastWord(t, v, e) => LastWord(u, v, e)
  BY <1>1, <1>2, GrowsEvents
<1>4. Leaves(t, u, v)
  BY <1>1, DependsOn
<1>5. \A e : At(u, e, v) <=> At(t, e, v)
  BY <1>1 DEF At
<1> QED BY <1>1, <1>3, <1>4, <1>5 DEF Same, SameEvents

\* All of a window is the same but whether it is mapped
ButMapped(z, y) ==
  /\ y.exists = z.exists /\ y.sel = z.sel /\ y.parent = z.parent /\ y.saved = z.saved
  /\ y.state = z.state /\ y.border = z.border /\ y.geom = z.geom /\ y.away = z.away
\* So all the time
Alike(t, u, w) ==
  \A n \in 0 .. Len(t.out) : ButMapped(Trace(t, w)[n].x, Trace(u, w)[n].x)

\* That a window is unmapped first changes nothing else of what becomes of it.
LEMMA UnmappedAlike ==
  ASSUME NEW t \in States, NEW u \in States, NEW w \in Windows, u.out = t.out,
         u.x[w] = [t.x[w] EXCEPT !.mapped = FALSE], u.asked[w] = t.asked[w]
  PROVE  Alike(t, u, w) /\ Final(u, w).asked = Final(t, w).asked
<1> DEFINE y == Now(t, w)
<1>1. Now(u, w) = Unmapped(y) /\ t.out \in Seq(Requests) /\ y \in Seen
  <2>1. 0 \in 0 .. Len(t.out) /\ t.out \in Seq(Requests)
    BY Fields
  <2>2. y \in Seen
    BY <2>1, TraceFacts
  <2> QED BY <2>1, <2>2 DEF Now, Unmapped
<1> HIDE DEF y
<1>2. Trace(t, w) = Run(y, w, t.out) /\ Trace(u, w) = Run(Unmapped(y), w, t.out)
  BY <1>1 DEF Trace, y
<1>3. ASSUME NEW n \in 0 .. Len(t.out)
      PROVE  /\ ButMapped(Trace(t, w)[n].x, Trace(u, w)[n].x)
             /\ Trace(u, w)[n].asked = Trace(t, w)[n].asked
  <2> DEFINE z == Trace(t, w)[n]
  <2>1. z \in Seen /\ Trace(u, w)[n] \in {z, Unmapped(z)}
    BY <1>1, <1>2, RunChanged, TraceFacts
  <2> HIDE DEF z
  <2>2. z.x \in XWindows /\ FALSE \in BOOLEAN
    BY <2>1 DEF Seen
  <2> DEFINE m == [z.x EXCEPT !.mapped = FALSE]
  <2>3. /\ m \in XWindows /\ m.exists = z.x.exists /\ m.mapped = FALSE /\ m.sel = z.x.sel
        /\ m.parent = z.x.parent /\ m.saved = z.x.saved /\ m.state = z.x.state
        /\ m.border = z.x.border /\ m.geom = z.x.geom /\ m.away = z.x.away
    BY <2>2, MappedType
  <2>4. Unmapped(z) = [x |-> m, asked |-> z.asked]
    BY DEF Unmapped
  <2> HIDE DEF m
  <2>5. Unmapped(z).x = m /\ Unmapped(z).asked = z.asked
    BY <2>4
  <2>6. ButMapped(z.x, z.x) /\ ButMapped(z.x, m)
    BY <2>3 DEF ButMapped
  <2>7. CASE Trace(u, w)[n] = z
    BY <2>6, <2>7 DEF z
  <2>8. CASE Trace(u, w)[n] = Unmapped(z)
    BY <2>5, <2>6, <2>8 DEF z
  <2> QED BY <2>1, <2>7, <2>8
<1>4. Len(t.out) \in 0 .. Len(t.out)
  BY <1>1
<1> QED BY <1>3, <1>4 DEF Alike, Final

\* Nor that its client waits for an answer.
LEMMA WaitingAlike ==
  ASSUME NEW t \in States, NEW u \in States, NEW w \in Windows, u.out = t.out,
         u.x[w] = t.x[w], u.asked[w] = TRUE
  PROVE  Alike(t, u, w) /\ Final(u, w).x = Final(t, w).x
<1> DEFINE y == Now(t, w)
<1>1. Now(u, w) = Waiting(y) /\ t.out \in Seq(Requests) /\ y \in Seen
  <2>1. 0 \in 0 .. Len(t.out) /\ t.out \in Seq(Requests)
    BY Fields
  <2>2. y \in Seen
    BY <2>1, TraceFacts
  <2> QED BY <2>1, <2>2 DEF Now, Waiting
<1> HIDE DEF y
<1>2. Trace(t, w) = Run(y, w, t.out) /\ Trace(u, w) = Run(Waiting(y), w, t.out)
  BY <1>1 DEF Trace, y
<1>3. ASSUME NEW n \in 0 .. Len(t.out) PROVE Trace(u, w)[n].x = Trace(t, w)[n].x
  <2>1. Trace(u, w)[n] \in {Trace(t, w)[n], Waiting(Trace(t, w)[n])}
    BY <1>1, <1>2, RunChanged
  <2> QED BY <2>1 DEF Waiting
<1>4. Len(t.out) \in 0 .. Len(t.out)
  BY <1>1
<1> QED BY <1>3, <1>4 DEF Alike, Final, ButMapped

\* Nor anything, when nothing is asked for.
LEMMA IdleAlike ==
  ASSUME NEW t \in States, NEW u \in States, NEW w \in Windows, t.out = <<>>, u.out = <<>>,
         ButMapped(t.x[w], u.x[w])
  PROVE  Alike(t, u, w)
<1>1. /\ Trace(t, w)[0] = Now(t, w) /\ Trace(u, w)[0] = Now(u, w)
      /\ \A n \in 0 .. Len(t.out) : n = 0
  BY TraceFacts
<1>2. Now(t, w).x = t.x[w] /\ Now(u, w).x = u.x[w]
  BY DEF Now
<1> QED BY <1>1, <1>2 DEF Alike

\* A window that is like it was is as it should be.
LEMMA AlikeOwn ==
  ASSUME NEW t \in States, NEW u, NEW w \in Windows, NEW k, More(t, u, w, k), k # "Destroy",
         Alike(t, u, w), t.x[w].exists, u.x[w].exists, Own(t, w),
         Final(u, w).asked => Final(t, w).asked \/ Has(u, "ConfigureRequest", w),
         t.wm = "exiting" /\ u.wants[w] =>
            Has(u, "MapRequest", w) \/ (t.wants[w] /\ Final(u, w).x.mapped = Final(t, w).x.mapped),
         t.wm = "gone" => (u.wants[w] <=> u.x[w].mapped)
  PROVE  Own(u, w)
<1> DEFINE z == Final(t, w).x
           y == Final(u, w).x
<1>1. /\ u \in States /\ Grows(t, u, {<<k, w>>})
      /\ u.out = t.out /\ u.pc = t.pc /\ u.wm = t.wm /\ u.cwin = t.cwin
      /\ u.icon = t.icon /\ u.tmpwins = t.tmpwins /\ u.kept = t.kept
      /\ u.refused = t.refused /\ u.twice = t.twice /\ u.crashed = t.crashed
  BY DEF More
<1>2. /\ \A e, v : Has(t, e, v) => Has(u, e, v)
      /\ Has(u, "Destroy", w) => Has(t, "Destroy", w)
  <2>1. <<"Destroy", w>> \notin {<<k, w>>}
    OBVIOUS
  <2> QED BY <1>1, <2>1, GrowsEvents
<1>3. /\ \A e, v : At(u, e, v) <=> At(t, e, v)
      /\ \A v : (Scanned(u, v) <=> Scanned(t, v)) /\ (Passing(u, v) <=> Passing(t, v))
      /\ \A v, K : Only(t, v, K) => Only(u, v, K)
      /\ Single(u, w) <=> Single(t, w)
  BY <1>1 DEF At, Scanned, Passing, Only, Single
<1>4. ButMapped(z, y)
  <2>1. Len(t.out) \in 0 .. Len(t.out)
    BY Fields
  <2> QED BY <1>1, <2>1 DEF Alike, Final
<1>5. Lifeless(u, w)
  BY <1>2 DEF Lifeless, Own
<1>6. Unseen(u, w)
  <2> SUFFICES ASSUME Single(t, w), NEW n \in 1 .. Len(t.out), t.out[n][2] = w, t.out[n][1] \in {"unmap", "reparent"}
               PROVE  ~Trace(u, w)[n - 1].x.sel
    BY <1>1, <1>3 DEF Unseen
  <2>1. ~Trace(t, w)[n - 1].x.sel
    BY DEF Own, Unseen
  <2>2. n - 1 \in 0 .. Len(t.out)
    BY Fields
  <2> QED BY <2>1, <2>2 DEF Alike, ButMapped
<1>7. Fine(u, w)
  <2> SUFFICES ASSUME NEW n \in 0 .. Len(t.out), Trace(u, w)[n].x.exists, Trace(u, w)[n].x.parent = "frame"
               PROVE  Trace(u, w)[n].x.saved
    BY <1>1 DEF Fine
  <2> QED BY DEF Own, Managed, Fine, Alike, ButMapped
<1> HIDE DEF y, z
<1>8. Managed(u, w)
  <2>1. At(u, "create", w) => Only(u, w, {"select"})
    BY <1>3 DEF Own, Managed
  <2>2. /\ u.cwin[w].managed => u.wm # "gone"
        /\ Passing(u, w) => u.cwin[w].managed
        /\ At(u, "maprq", w) \/ At(u, "scan", w) \/ At(u, "create", w) => ~u.cwin[w].managed
        /\ ~u.twice
    BY <1>1, <1>3 DEF Own, Managed
  <2>3. u.cwin[w].managed /\ y.exists => /\ y.saved /\ y.parent = "frame" /\ y.geom = u.cwin[w].geom
                                         /\ y.sel = ~At(u, "deinit", w)
                                         /\ u.cwin[w].state # "Withdrawn" => y.state = u.cwin[w].state
    BY <1>1, <1>3, <1>4 DEF Own, Managed, ButMapped, z
  <2>4. ~u.cwin[w].managed /\ y.exists =>
          /\ ~y.saved /\ y.parent = "root"
          /\ y.sel => At(u, "maprq", w) \/ At(u, "scan", w) \/ At(u, "create", w)
    BY <1>1, <1>3, <1>4 DEF Own, Managed, ButMapped, z
  <2> QED BY <1>7, <2>1, <2>2, <2>3, <2>4 DEF Managed, y
<1>9. Answered(u, w)
  BY <1>2 DEF Own, Answered
<1>10. Restored(u, w)
  <2>1. ~u.crashed /\ w \notin u.refused /\ y.exists =>
          IF u.cwin[w].managed THEN u.cwin[w].orig_bw /\ (At(u, "deinit", w) => y.border) ELSE y.border
    BY <1>1, <1>3, <1>4 DEF Own, Restored, ButMapped, z
  <2>2. u.wm = "exiting" /\ w \in u.kept /\ ~u.cwin[w].managed /\ y.exists /\ u.wants[w] =>
          y.mapped \/ Has(u, "MapRequest", w)
    <3>1. t.wm = "exiting" /\ w \in t.kept /\ ~t.cwin[w].managed /\ z.exists /\ t.wants[w] =>
            z.mapped \/ Has(t, "MapRequest", w)
      BY DEF Own, Restored, z
    <3> QED BY <1>1, <1>2, <1>4, <3>1 DEF ButMapped, y, z
  <2> QED BY <1>1, <2>1, <2>2 DEF Restored, y
<1>11. Untouched(u, w)
  BY <1>1, <1>3 DEF Own, Untouched, Unscanned
<1> QED BY <1>5, <1>6, <1>8, <1>9, <1>10, <1>11 DEF Own

\* And so is one that is no more.
LEMMA DeadOwn ==
  ASSUME NEW t \in States, NEW u, NEW w \in Windows, More(t, u, w, "Destroy"), Own(t, w),
         ~u.x[w].exists, u.x[w].parent = "root", ~u.x[w].mapped, ~u.wants[w], ~u.asked[w]
  PROVE  Own(u, w)
<1>1. /\ u \in States
      /\ u.out = t.out /\ u.pc = t.pc /\ u.wm = t.wm /\ u.cwin = t.cwin
      /\ u.icon = t.icon /\ u.tmpwins = t.tmpwins /\ u.twice = t.twice
  BY DEF More
<1>2. /\ \A e, v : At(u, e, v) <=> At(t, e, v)
      /\ \A v : (Scanned(u, v) <=> Scanned(t, v)) /\ (Passing(u, v) <=> Passing(t, v))
      /\ \A v, K : Only(t, v, K) => Only(u, v, K)
  BY <1>1 DEF At, Scanned, Passing, Only
<1>3. ~Final(u, w).x.exists /\ ~Final(u, w).asked /\ \A n \in 0 .. Len(u.out) : ~Trace(u, w)[n].x.exists
  BY <1>1, FinalFacts, TraceFacts
<1>4. Lifeless(u, w) /\ Unseen(u, w) /\ Fine(u, w) /\ Answered(u, w) /\ Restored(u, w)
  BY <1>3 DEF Lifeless, Unseen, Fine, Answered, Restored
<1>5. Managed(u, w)
  <2>1. At(u, "create", w) => Only(u, w, {"select"})
    BY <1>2 DEF Own, Managed
  <2> QED BY <1>1, <1>2, <1>3, <1>4, <2>1 DEF Own, Managed
<1>6. Untouched(u, w)
  BY <1>1, <1>2 DEF Own, Untouched, Unscanned
<1> QED BY <1>4, <1>5, <1>6 DEF Own

\* One event that comes, or none, or one twice.
LEMMA ComingGrows ==
  ASSUME NEW t \in States, NEW u \in States, NEW e \in Events
  PROVE  /\ u.ev = t.ev => Grows(t, u, {e})
         /\ u.ev \in {Append(t.ev, e), Append(Append(t.ev, e), e)} =>
              Grows(t, u, {e}) /\ u.ev # <<>> /\ u.ev[Len(u.ev)] = e
<1> DEFINE s == t.ev
<1>1. s \in Seq(Events) /\ Len(s) \in Nat /\ DOMAIN s = 1 .. Len(s)
  BY Fields
<1>2. u.ev = s => Grows(t, u, {e})
  BY <1>1 DEF Grows
<1>3. ASSUME u.ev = Append(s, e) PROVE Grows(t, u, {e}) /\ u.ev # <<>> /\ u.ev[Len(u.ev)] = e
  <2>1. /\ Len(u.ev) = Len(s) + 1 /\ DOMAIN u.ev = 1 .. Len(s) + 1 /\ u.ev[Len(s) + 1] = e
        /\ \A i \in 1 .. Len(s) : u.ev[i] = s[i]
    BY <1>1, <1>3
  <2>2. \A i \in DOMAIN u.ev : i > Len(s) => i = Len(s) + 1
    BY <1>1, <2>1
  <2>3. u.ev # <<>>
    BY <1>1, <2>1
  <2> QED BY <1>1, <2>1, <2>2, <2>3 DEF Grows
<1>4. ASSUME u.ev = Append(Append(s, e), e) PROVE Grows(t, u, {e}) /\ u.ev # <<>> /\ u.ev[Len(u.ev)] = e
  BY <1>1, <1>4 DEF Grows
<1> QED BY <1>2, <1>3, <1>4

\* The invariant, from what a client does with its window.
LEMMA MoreBase ==
  ASSUME NEW t \in States, NEW u, NEW w \in Windows, NEW k, More(t, u, w, k), Base(t),
         t.wm = "gone" => u.ev = <<>> /\ ~u.asked[w],
         Own(u, w), Dock(u, w), \A i \in Windows : t.icon[i] = w => Dock(u, i)
  PROVE  Base(u)
<1>1. u \in States /\ u.out = t.out /\ u.pc = t.pc /\ u.wm = t.wm /\ u.icon = t.icon /\ u.tmpwins = t.tmpwins
      /\ \A v \in Windows : v # w => u.asked[v] = t.asked[v]
  BY DEF More
<1>2. Phase(u)
  <2>1. \A e, v : At(u, e, v) <=> At(t, e, v)
    BY <1>1 DEF At
  <2>2. Phase(t)
    BY DEF Base
  <2>3. u.wm = "gone" => \A v \in Windows : ~u.asked[v]
    BY <1>1, <2>2 DEF Phase
  <2> QED BY <1>1, <2>1, <2>2, <2>3 DEF Phase
<1>3. ASSUME NEW v \in Windows, v # w PROVE Own(u, v)
  <2>1. Own(t, v) /\ Same(t, u, v)
    BY <1>3, MoreSame DEF Base
  <2> QED BY <2>1, SameOwn
<1>4. ASSUME NEW v \in Windows, v # w, t.icon[v] # w PROVE Dock(u, v)
  <2>1. /\ Dock(t, v) /\ Same(t, u, v) /\ (Once(t, v) => Once(u, v))
        /\ \A i : Order(t, v, i) => Order(u, v, i)
    BY <1>4, MoreSame DEF Base
  <2>2. t.icon[v] # NoWindow => Same(t, u, t.icon[v])
    <3>1. t.icon[v] \in Windows \cup {NoWindow}
      BY Fields
    <3> QED BY <1>4, <3>1, MoreSame
  <2> QED BY <2>1, <2>2, SameDock
<1> QED BY <1>1, <1>2, <1>3, <1>4 DEF Base

\* A client that maps its window, which ioncore is asked to.
LEMMA AsksBase ==
  ASSUME NEW t \in States, NEW u, NEW w \in Windows, More(t, u, w, "MapRequest"), Base(t),
         t.wm # "gone", t.x[w].exists, ~t.x[w].mapped, \A v \in Windows : t.icon[v] # w,
         t.icon[w] # NoWindow => ~(t.wants[w] \/ t.x[t.icon[w]].mapped \/ t.cwin[t.icon[w]].managed),
         u.x[w] = t.x[w], u.asked[w] = t.asked[w], u.wants[w] = TRUE,
         u.ev = Append(t.ev, <<"MapRequest", w>>)
  PROVE  Base(u)
<1>1. /\ u \in States /\ u.out = t.out /\ u.pc = t.pc /\ u.wm = t.wm /\ u.cwin = t.cwin
      /\ u.icon = t.icon /\ u.tmpwins = t.tmpwins /\ Grows(t, u, {<<"MapRequest", w>>})
      /\ \A v \in Windows : v # w => u.x[v] = t.x[v]
  BY DEF More
<1>2. /\ Latest(u, "MapRequest", w) /\ Has(u, "MapRequest", w)
      /\ t.ev \in Seq(Events) /\ Len(u.ev) = Len(t.ev) + 1 /\ Len(t.ev) \in Nat
      /\ DOMAIN t.ev = 1 .. Len(t.ev) /\ DOMAIN u.ev = 1 .. Len(t.ev) + 1
      /\ \A i \in DOMAIN t.ev : u.ev[i] = t.ev[i]
  <2>1. <<"MapRequest", w>> \in Events /\ t.ev \in Seq(Events)
    BY Fields DEF Events
  <2>2. Latest(u, "MapRequest", w)
    BY <1>1, <2>1, ComingGrows DEF Latest
  <2>3. Has(u, "MapRequest", w)
    BY <1>1, <2>2, LatestFacts
  <2> QED BY <2>1, <2>2, <2>3
<1>3. \A e, v : Has(t, e, v) => Has(u, e, v)
  BY <1>1, GrowsEvents
<1>4. Own(t, w)
  BY DEF Base
<1>5. Own(u, w)
  <2>1. Final(u, w) = Final(t, w) /\ Trace(u, w) = Trace(t, w)
    BY <1>1, DependsOn
  <2>2. Alike(t, u, w)
    BY <2>1 DEF Alike, ButMapped
  <2> QED BY <1>2, <1>4, <2>1, <2>2, AlikeOwn
<1>6. ASSUME t.icon[w] # NoWindow PROVE Dock(u, w)
  <2> DEFINE v == t.icon[w]
  <2>1. /\ v # w /\ v \in Windows /\ t.icon[v] = NoWindow /\ \A i \in Windows : t.icon[i] = v => i = w
        /\ ~Asks(t, v) /\ ~At(t, "maprq", v) /\ (t.x[v].exists => Docked(t, w, v))
    BY <1>6, Fields DEF Base, Dock
  <2>2. ~t.wants[w] /\ ~t.x[v].mapped /\ ~t.cwin[v].managed
    BY <1>6
  <2> HIDE DEF v
  <2>3. ~Asks(u, v)
    <3>1. <<"MapRequest", v>> \notin {<<"MapRequest", w>>}
      BY <2>1
    <3> QED BY <1>1, <2>1, <3>1, GrowsEvents DEF Asks
  <2>4. \A e, i : At(u, e, i) <=> At(t, e, i)
    BY <1>1 DEF At
  <2>5. \A i : Scanned(u, i) <=> Scanned(t, i)
    BY <1>1 DEF At, Scanned
  <2>6. ASSUME t.x[v].exists PROVE Docked(u, w, v)
    <3>1. Docked(t, w, v)
      BY <2>1, <2>6
    <3>2. ~Scanned(t, v) /\ ~At(t, "maprq", w) /\ ~Asks(t, w)
      BY <2>2, <3>1 DEF Docked
    <3>3. \A i \in DOMAIN u.ev : u.ev[i] = <<"MapRequest", w>> => i = Len(t.ev) + 1
      <4> SUFFICES ASSUME NEW i \in DOMAIN u.ev, u.ev[i] = <<"MapRequest", w>>, i # Len(t.ev) + 1
                   PROVE  FALSE
        OBVIOUS
      <4>1. i \in DOMAIN t.ev /\ t.ev[i] = <<"MapRequest", w>>
        BY <1>2
      <4> QED BY <3>2, <4>1 DEF Asks, Has, Range
    <3>4. Once(u, w)
      BY <3>3 DEF Once
    <3>5. At(t, "create", v) => Order(u, w, v)
      <4> SUFFICES ASSUME Has(t, "Unmap", v) PROVE Order(u, w, v)
        BY <2>2, <3>1 DEF Docked
      <4>1. PICK j \in DOMAIN t.ev : t.ev[j] = <<"Unmap", v>>
        BY DEF Has, Range
      <4>2. j < Len(t.ev) + 1 /\ j \in DOMAIN u.ev /\ u.ev[j] = <<"Unmap", v>>
        BY <1>2, <4>1
      <4> QED BY <3>3, <4>2 DEF Order
    <3>6. Scanned(t, w) => /\ ~t.cwin[w].managed /\ t.pc[2] # v /\ Only(u, v, {"select", "saveset"})
      BY <1>1, <2>2, <3>1 DEF Docked, Only
    <3> QED BY <1>1, <2>1, <2>2, <2>4, <2>5, <3>2, <3>4, <3>5, <3>6 DEF Docked
  <2> QED BY <1>1, <2>1, <2>3, <2>4, <2>6 DEF Dock, v
<1>7. Dock(u, w)
  BY <1>1, <1>6 DEF Dock
<1> QED BY <1>5, <1>7, MoreBase

\* A client that asks for another geometry, and waits for the answer.
LEMMA WaitsBase ==
  ASSUME NEW t \in States, NEW u, NEW w \in Windows, More(t, u, w, "ConfigureRequest"), Base(t),
         t.wm # "gone", t.x[w].exists, u.x[w] = t.x[w], u.asked[w] = TRUE, u.wants[w] = t.wants[w],
         Latest(u, "ConfigureRequest", w)
  PROVE  Base(u)
<1>1. /\ u \in States /\ u.out = t.out /\ u.pc = t.pc /\ u.wm = t.wm /\ u.cwin = t.cwin
      /\ u.icon = t.icon /\ u.tmpwins = t.tmpwins /\ Grows(t, u, {<<"ConfigureRequest", w>>})
      /\ \A v \in Windows : v # w => u.x[v] = t.x[v] /\ u.wants[v] = t.wants[v]
  BY DEF More
<1>2. /\ \A e, v : Has(t, e, v) => Has(u, e, v)
      /\ \A v : Asks(u, v) <=> Asks(t, v)
      /\ \A i : (Once(t, i) => Once(u, i)) /\ \A v : Order(t, i, v) => Order(u, i, v)
      /\ Has(u, "ConfigureRequest", w)
  <2>1. \A v : <<"MapRequest", v>> \notin {<<"ConfigureRequest", w>>}
    OBVIOUS
  <2>2. Has(u, "ConfigureRequest", w)
    BY <1>1, LatestFacts
  <2> QED BY <1>1, <2>1, <2>2, GrowsEvents DEF Asks
<1>3. Own(u, w)
  <2>1. Alike(t, u, w) /\ Final(u, w).x = Final(t, w).x
    BY <1>1, WaitingAlike
  <2>2. Own(t, w)
    BY DEF Base
  <2> QED BY <1>2, <2>1, <2>2, AlikeOwn
<1>4. ASSUME NEW i \in Windows PROVE Dock(u, i)
  <2> DEFINE v == t.icon[i]
  <2> SUFFICES ASSUME v # NoWindow PROVE Dock(u, i)
    BY <1>1 DEF Dock
  <2>1. /\ v # i /\ v \in Windows /\ t.icon[v] = NoWindow /\ \A j \in Windows : t.icon[j] = v => j = i
        /\ ~Asks(t, v) /\ ~At(t, "maprq", v) /\ (t.x[v].exists => Docked(t, i, v))
    BY Fields DEF Base, Dock
  <2> HIDE DEF v
  <2>2. \A e, j : At(u, e, j) <=> At(t, e, j)
    BY <1>1 DEF At
  <2>3. \A j : Scanned(u, j) <=> Scanned(t, j)
    BY <1>1 DEF At, Scanned
  <2>4. /\ u.x[i] = t.x[i] /\ u.x[v] = t.x[v] /\ u.wants[i] = t.wants[i]
        /\ \A K : Only(t, v, K) => Only(u, v, K)
    BY <1>1, <2>1 DEF Only
  <2>5. Docked(t, i, v) => Docked(u, i, v)
    BY <1>1, <1>2, <2>2, <2>3, <2>4 DEF Docked
  <2> QED BY <1>1, <1>2, <2>1, <2>2, <2>4, <2>5 DEF Dock, v
<1> QED BY <1>1, <1>3, <1>4, MoreBase

\* A client that withdraws its window.
LEMMA WithdrawsBase ==
  ASSUME NEW t \in States, NEW u, NEW w \in Windows, More(t, u, w, "Unmap"), Base(t),
         t.x[w].exists, t.icon[w] = NoWindow,
         u.x[w] = [t.x[w] EXCEPT !.mapped = FALSE], u.asked[w] = t.asked[w], u.wants[w] = FALSE,
         IF t.wm = "gone" THEN u.ev = t.ev ELSE Latest(u, "Unmap", w)
  PROVE  Base(u)
<1>1. /\ u \in States /\ u.out = t.out /\ u.pc = t.pc /\ u.wm = t.wm /\ u.cwin = t.cwin
      /\ u.icon = t.icon /\ u.tmpwins = t.tmpwins /\ Grows(t, u, {<<"Unmap", w>>})
      /\ \A v \in Windows : v # w => u.x[v] = t.x[v] /\ u.wants[v] = t.wants[v]
  BY DEF More
<1>2. /\ \A e, v : Has(t, e, v) => Has(u, e, v)
      /\ \A v : Asks(u, v) <=> Asks(t, v)
      /\ \A i : (Once(t, i) => Once(u, i)) /\ \A v : Order(t, i, v) => Order(u, i, v)
      /\ t.wm # "gone" => Has(u, "Unmap", w)
  <2>1. \A v : <<"MapRequest", v>> \notin {<<"Unmap", w>>}
    OBVIOUS
  <2>2. t.wm # "gone" => Has(u, "Unmap", w)
    BY <1>1, LatestFacts
  <2> QED BY <1>1, <2>1, <2>2, GrowsEvents DEF Asks
<1>3. u.x[w].exists /\ ~u.x[w].mapped
  BY Fields, MappedType
<1>4. Own(u, w)
  <2>1. Alike(t, u, w) /\ Final(u, w).asked = Final(t, w).asked
    BY <1>1, UnmappedAlike
  <2>2. Own(t, w)
    BY DEF Base
  <2> QED BY <1>3, <2>1, <2>2, AlikeOwn
<1>5. Dock(u, w)
  BY <1>1 DEF Dock
<1>6. ASSUME NEW i \in Windows, t.icon[i] = w PROVE Dock(u, i)
  <2>1. /\ w # i /\ \A j \in Windows : t.icon[j] = w => j = i
        /\ ~Asks(t, w) /\ ~At(t, "maprq", w) /\ Docked(t, i, w) /\ w # NoWindow
    BY <1>6, ClientAssumption DEF Base, Dock
  <2>2. \A e, j : At(u, e, j) <=> At(t, e, j)
    BY <1>1 DEF At
  <2>3. \A j : Scanned(u, j) <=> Scanned(t, j)
    BY <1>1 DEF At, Scanned
  <2>4. /\ u.x[i] = t.x[i] /\ u.wants[i] = t.wants[i]
        /\ \A K : Only(t, w, K) => Only(u, w, K)
    BY <1>1, <2>1 DEF Only
  <2>5. At(t, "create", w) => t.wm # "gone"
    BY DEF Base, Phase, At, Idle
  <2>6. Docked(u, i, w)
    BY <1>1, <1>2, <1>3, <2>1, <2>2, <2>3, <2>4, <2>5 DEF Docked
  <2> QED BY <1>1, <1>2, <1>6, <2>1, <2>2, <2>6 DEF Dock
<1>7. t.wm = "gone" => u.ev = <<>> /\ ~u.asked[w]
  BY DEF Base, Phase
<1> QED BY <1>4, <1>5, <1>6, <1>7, MoreBase

\* A client that destroys its window.
LEMMA DestroysBase ==
  ASSUME NEW t \in States, NEW u, NEW w \in Windows, More(t, u, w, "Destroy"), Base(t),
         ~u.x[w].exists, u.x[w].parent = "root", ~u.x[w].mapped, ~u.wants[w], ~u.asked[w],
         t.wm = "gone" => u.ev = t.ev
  PROVE  Base(u)
<1>1. /\ u \in States /\ u.out = t.out /\ u.pc = t.pc /\ u.wm = t.wm /\ u.cwin = t.cwin
      /\ u.icon = t.icon /\ u.tmpwins = t.tmpwins /\ Grows(t, u, {<<"Destroy", w>>})
      /\ \A v \in Windows : v # w => u.x[v] = t.x[v] /\ u.wants[v] = t.wants[v]
  BY DEF More
<1>2. /\ \A e, v : Has(t, e, v) => Has(u, e, v)
      /\ \A v : Asks(u, v) <=> Asks(t, v)
      /\ \A i : (Once(t, i) => Once(u, i)) /\ \A v : Order(t, i, v) => Order(u, i, v)
  <2>1. \A v : <<"MapRequest", v>> \notin {<<"Destroy", w>>}
    OBVIOUS
  <2> QED BY <1>1, <2>1, GrowsEvents DEF Asks
<1>3. Own(u, w)
  BY DeadOwn DEF Base
<1>4. \A e, j : At(u, e, j) <=> At(t, e, j)
  BY <1>1 DEF At
<1>5. \A j : Scanned(u, j) <=> Scanned(t, j)
  BY <1>1 DEF At, Scanned
<1>6. Dock(u, w)
  <2> DEFINE v == t.icon[w]
  <2> SUFFICES ASSUME v # NoWindow PROVE Dock(u, w)
    BY <1>1 DEF Dock
  <2>1. /\ v # w /\ v \in Windows /\ t.icon[v] = NoWindow /\ \A j \in Windows : t.icon[j] = v => j = w
        /\ ~Asks(t, v) /\ ~At(t, "maprq", v) /\ (t.x[v].exists => Docked(t, w, v))
    BY Fields DEF Base, Dock
  <2> HIDE DEF v
  <2>2. u.x[v] = t.x[v] /\ \A K : Only(t, v, K) => Only(u, v, K)
    BY <1>1, <2>1 DEF Only
  <2>3. Docked(t, w, v) => Docked(u, w, v)
    BY <1>1, <1>2, <1>4, <1>5, <2>2 DEF Docked
  <2> QED BY <1>1, <1>2, <1>4, <2>1, <2>2, <2>3 DEF Dock, v
<1>7. ASSUME NEW i \in Windows, t.icon[i] = w PROVE Dock(u, i)
  <2>1. /\ w # i /\ \A j \in Windows : t.icon[j] = w => j = i
        /\ ~Asks(t, w) /\ ~At(t, "maprq", w) /\ t.icon[w] = NoWindow
    BY <1>7, ClientAssumption DEF Base, Dock
  <2> QED BY <1>1, <1>2, <1>4, <1>7, <2>1 DEF Dock
<1>8. t.wm = "gone" => u.ev = <<>> /\ ~u.asked[w]
  BY DEF Base, Phase
<1> QED BY <1>3, <1>6, <1>7, <1>8, MoreBase

\* A client that maps its window when there is no ioncore.
LEMMA MapsBase ==
  ASSUME NEW t \in States, NEW u, NEW w \in Windows, More(t, u, w, "MapRequest"), Base(t),
         t.wm = "gone", t.x[w].exists, u.x[w] = [t.x[w] EXCEPT !.mapped = TRUE],
         u.asked[w] = t.asked[w], u.wants[w] = TRUE, u.ev = t.ev
  PROVE  Base(u)
<1>1. /\ u \in States /\ u.out = t.out /\ u.pc = t.pc /\ u.wm = t.wm /\ u.cwin = t.cwin
      /\ u.icon = t.icon /\ u.tmpwins = t.tmpwins
  BY DEF More
<1>2. t.out = <<>> /\ t.ev = <<>> /\ t.pc = Idle /\ t.tmpwins = {} /\ ~t.asked[w]
  BY DEF Base, Phase
<1>3. u.x[w].exists /\ u.x[w].mapped /\ ButMapped(t.x[w], u.x[w])
  <2>1. t.x[w] \in XWindows /\ TRUE \in BOOLEAN
    BY Fields
  <2> DEFINE m == [t.x[w] EXCEPT !.mapped = TRUE]
  <2>2. /\ m \in XWindows /\ m.exists = t.x[w].exists /\ m.mapped = TRUE /\ m.sel = t.x[w].sel
        /\ m.parent = t.x[w].parent /\ m.saved = t.x[w].saved /\ m.state = t.x[w].state
        /\ m.border = t.x[w].border /\ m.geom = t.x[w].geom /\ m.away = t.x[w].away
    BY <2>1, MappedType
  <2>3. u.x[w] = m
    OBVIOUS
  <2> HIDE DEF m
  <2> QED BY <2>2, <2>3 DEF ButMapped
<1>4. Own(u, w)
  <2>1. Alike(t, u, w)
    BY <1>1, <1>2, <1>3, IdleAlike
  <2>2. Own(t, w) /\ ~Final(u, w).asked
    BY <1>1, <1>2, FinalFacts DEF Base
  <2> QED BY <1>3, <2>1, <2>2, AlikeOwn
<1>5. ASSUME NEW i \in Windows PROVE Dock(u, i)
  <2> DEFINE v == t.icon[i]
  <2> SUFFICES ASSUME v # NoWindow PROVE Dock(u, i)
    BY <1>1 DEF Dock
  <2>1. /\ v # i /\ v \in Windows /\ t.icon[v] = NoWindow /\ \A j \in Windows : t.icon[j] = v => j = i
    BY Fields DEF Base, Dock
  <2> HIDE DEF v
  <2>2. \A e, j : e # "idle" => ~At(u, e, j)
    BY <1>1, <1>2 DEF At, Idle
  <2>3. \A e, j : ~Has(u, e, j)
    BY <1>2 DEF Has, Range
  <2>4. Docked(u, i, v)
    <3>1. \A j : ~Scanned(u, j) /\ ~Asks(u, j)
      BY <1>1, <1>2, <2>2, <2>3 DEF Scanned, Asks
    <3>2. Once(u, i)
      BY <1>2 DEF Once
    <3> QED BY <2>2, <3>1, <3>2 DEF Docked
  <2> QED BY <1>1, <2>1, <2>2, <2>3, <2>4 DEF Dock, Asks, v
<1> QED BY <1>2, <1>4, <1>5, MoreBase

-----------------------------------------------------------------------------
(* What is shown and heard of a client's window, when the client does that *)

\* When there is no ioncore, nothing is to be shown.
LEMMA GoneCalm ==
  ASSUME NEW u, Base(u), u.wm = "gone"
  PROVE  Calm(u)
<1> SUFFICES ASSUME NEW w \in Windows PROVE CalmOf(u, w)
  BY DEF Calm
<1>1. ~u.cwin[w].managed
  BY DEF Base, Own, Managed
<1>2. ~Passing(u, w)
  BY DEF Base, Phase, Passing, At, Idle
<1>3. Heard(u, w)
  BY DEF Heard
<1> QED BY <1>1, <1>2, <1>3, FreeCalm

\* All windows show what they should, if w does, whose client acts.
LEMMA MoreCalm ==
  ASSUME NEW t \in States, NEW u, NEW w \in Windows, NEW k, More(t, u, w, k), Calm(t), CalmOf(u, w)
  PROVE  Calm(u)
<1>1. ASSUME NEW v \in Windows, v # w PROVE CalmOf(u, v)
  BY <1>1, MoreSame, SameCalm DEF Calm
<1> QED BY <1>1 DEF Calm

\* What ioncore keeps of the window is the same.
LEMMA MoreKept ==
  ASSUME NEW t \in States, NEW u, NEW w \in Windows, NEW k, More(t, u, w, k)
  PROVE  /\ u \in States /\ u.cwin = t.cwin /\ u.place = t.place /\ u.prop = t.prop
         /\ u.refused = t.refused /\ u.wm = t.wm /\ u.icon = t.icon
         /\ \A e : At(u, e, w) = At(t, e, w)
         /\ Passing(u, w) = Passing(t, w) /\ Unscanned(u, w) = Unscanned(t, w)
         /\ \A e, v : Has(t, e, v) => Has(u, e, v)
<1>1. u \in States /\ Grows(t, u, {<<k, w>>}) /\ u.pc = t.pc /\ u.cwin = t.cwin /\ u.tmpwins = t.tmpwins
  BY DEF More
<1>2. \A e : At(u, e, w) = At(t, e, w)
  BY <1>1 DEF At
<1>3. \A e, v : Has(t, e, v) => Has(u, e, v)
  BY <1>1, GrowsEvents
<1> QED BY <1>1, <1>2, <1>3 DEF More, Passing, Unscanned, Scanned

\* Its window is to be shown: that is the last that is heard of it.
LEMMA AsksCalm ==
  ASSUME NEW t \in States, NEW u, NEW w \in Windows, More(t, u, w, "MapRequest"), Calm(t),
         u.x[w] = t.x[w], u.asked[w] = t.asked[w], u.wants[w] = TRUE, Latest(u, "MapRequest", w)
  PROVE  Calm(u)
<1>1. /\ u \in States /\ u.cwin = t.cwin /\ u.place = t.place /\ u.prop = t.prop
      /\ \A e : At(u, e, w) = At(t, e, w)
      /\ Passing(u, w) = Passing(t, w)
      /\ \A e, v : Has(t, e, v) => Has(u, e, v)
  BY MoreKept
<1>2. Final(u, w) = Final(t, w)
  BY DependsOn DEF More
<1>3. CalmOf(t, w)
  BY DEF Calm
<1>4. Shown(u, w)
  BY <1>1, <1>2, <1>3 DEF CalmOf, Shown
<1>5. Noticed(u, w)
  BY <1>1, <1>3 DEF CalmOf, Noticed
<1>6. Heard(u, w)
  BY <1>1, LatestFacts DEF Heard
<1> QED BY <1>4, <1>5, <1>6, MoreCalm DEF CalmOf

\* It waits for an answer, which is no word about its window.
LEMMA WaitsCalm ==
  ASSUME NEW t \in States, NEW u, NEW w \in Windows, More(t, u, w, "ConfigureRequest"), Calm(t),
         u.x[w] = t.x[w], u.asked[w] = TRUE, u.wants[w] = t.wants[w]
  PROVE  Calm(u)
<1>1. /\ u \in States /\ u.cwin = t.cwin /\ u.place = t.place /\ u.prop = t.prop
      /\ u.refused = t.refused /\ u.wm = t.wm /\ u.icon = t.icon
      /\ \A e : At(u, e, w) = At(t, e, w)
      /\ Passing(u, w) = Passing(t, w) /\ Unscanned(u, w) = Unscanned(t, w)
      /\ \A e, v : Has(t, e, v) => Has(u, e, v)
  BY MoreKept
<1>2. Final(u, w).x = Final(t, w).x
  BY <1>1, WaitingAlike DEF More
<1>3. CalmOf(t, w)
  BY DEF Calm
<1>4. Shown(u, w)
  BY <1>1, <1>2, <1>3 DEF CalmOf, Shown
<1>5. Noticed(u, w)
  BY <1>1, <1>3 DEF CalmOf, Noticed
<1>6. Heard(u, w)
  <2>1. Grows(t, u, {<<"ConfigureRequest", w>>})
    BY DEF More
  <2>2. /\ <<"MapRequest", w>> \notin {<<"ConfigureRequest", w>>}
        /\ <<"Unmap", w>> \notin {<<"ConfigureRequest", w>>}
    OBVIOUS
  <2>3. /\ \A e : LastWord(t, w, e) => LastWord(u, w, e)
        /\ Silent(t, w) => Silent(u, w)
    BY <1>1, <2>1, <2>2, GrowsEvents DEF Silent
  <2>4. Taken(u, w) = Taken(t, w) /\ Single(u, w) = Single(t, w)
    BY <1>1 DEF Taken, Single
  <2> QED BY <1>1, <1>3, <2>3, <2>4 DEF CalmOf, Heard
<1> QED BY <1>4, <1>5, <1>6, MoreCalm DEF CalmOf

\* Its window is withdrawn, and ioncore will see that.
LEMMA WithdrawsCalm ==
  ASSUME NEW t \in States, NEW u, NEW w \in Windows, More(t, u, w, "Unmap"), Calm(t),
         u.x[w] = [t.x[w] EXCEPT !.mapped = FALSE], u.asked[w] = t.asked[w], u.wants[w] = FALSE,
         Latest(u, "Unmap", w)
  PROVE  Calm(u)
<1>1. /\ u \in States /\ u.cwin = t.cwin /\ u.place = t.place /\ u.prop = t.prop
      /\ \A e : At(u, e, w) = At(t, e, w)
      /\ Passing(u, w) = Passing(t, w)
      /\ \A e, v : Has(t, e, v) => Has(u, e, v)
  BY MoreKept
<1>2. Has(u, "Unmap", w) /\ LastWord(u, w, "Unmap")
  BY <1>1, LatestFacts
<1>3. ButMapped(Final(t, w).x, Final(u, w).x)
  <2>1. u.out = t.out
    BY DEF More
  <2>2. Alike(t, u, w)
    BY <1>1, <2>1, UnmappedAlike
  <2>3. Len(t.out) \in 0 .. Len(t.out)
    BY Fields
  <2> QED BY <2>1, <2>2, <2>3 DEF Alike, Final
<1>4. CalmOf(t, w)
  BY DEF Calm
<1>5. Shown(u, w)
  BY <1>1, <1>2, <1>3, <1>4 DEF CalmOf, Shown, ButMapped
<1>6. Noticed(u, w)
  <2>1. t.x[w] \in XWindows /\ FALSE \in BOOLEAN
    BY Fields
  <2>2. u.x[w].exists = t.x[w].exists /\ u.x[w].sel = t.x[w].sel
    BY <2>1, MappedType
  <2> QED BY <1>1, <1>4, <2>2 DEF CalmOf, Noticed
<1>7. Heard(u, w)
  BY <1>2 DEF Heard
<1> QED BY <1>5, <1>6, <1>7, MoreCalm DEF CalmOf

\* Its window is no more, and ioncore will see that if it watches.
LEMMA DestroysCalm ==
  ASSUME NEW t \in States, NEW u, NEW w \in Windows, More(t, u, w, "Destroy"), Calm(t),
         t.x[w].exists, ~u.x[w].exists, t.x[w].sel => Latest(u, "Destroy", w)
  PROVE  Calm(u)
<1>1. /\ u \in States /\ u.cwin = t.cwin /\ u.place = t.place /\ u.prop = t.prop
      /\ \A e : At(u, e, w) = At(t, e, w)
      /\ Passing(u, w) = Passing(t, w)
  BY MoreKept
<1>2. CalmOf(t, w)
  BY DEF Calm
<1>3. ~Final(u, w).x.exists
  BY <1>1, FinalFacts
<1>4. Shown(u, w)
  BY <1>1, <1>2, <1>3 DEF CalmOf, Shown
<1>5. Noticed(u, w)
  <2>1. t.x[w].sel => Has(u, "Destroy", w)
    BY <1>1, LatestFacts
  <2> QED BY <1>1, <1>2, <2>1 DEF CalmOf, Noticed
<1>6. Heard(u, w)
  BY DEF Heard
<1> QED BY <1>4, <1>5, <1>6, MoreCalm DEF CalmOf

\* What a client does: its window, what it wants and what it waits for, with an
\* event, or two
Changed(t, ev, xs, ws, as) == [t EXCEPT !.moves = @ + 1, !.ev = ev, !.x = xs, !.wants = ws, !.asked = as]
\* A window that is no more
Dead == [New EXCEPT !.exists = FALSE]

\* More is waiting of w
Longer(t, ev, w, k) ==
  ev \in {t.ev, Append(t.ev, <<k, w>>), Append(Append(t.ev, <<k, w>>), <<k, w>>)}
\* No other window is concerned
Besides(t, w, xs, ws, as) ==
  /\ xs \in [Windows -> XWindows] /\ ws \in [Windows -> BOOLEAN] /\ as \in [Windows -> BOOLEAN]
  /\ \A v \in Windows : v # w => xs[v] = t.x[v] /\ ws[v] = t.wants[v] /\ as[v] = t.asked[v]
ChangeDone(t, u, w, k, ev, xs, ws, as) ==
  /\ More(t, u, w, k) /\ u.x = xs /\ u.wants = ws /\ u.asked = as /\ u.ev = ev
  /\ ev # t.ev => Latest(u, k, w)

\* It is about w only.
LEMMA ChangedMore ==
  ASSUME NEW t \in States, NEW w \in Windows, NEW k, <<k, w>> \in Events, NEW ev, Longer(t, ev, w, k),
         NEW xs, NEW ws, NEW as, Besides(t, w, xs, ws, as), NEW u, u = Changed(t, ev, xs, ws, as)
  PROVE  ChangeDone(t, u, w, k, ev, xs, ws, as)
<1>1. t.moves + 1 \in Nat /\ <<k, w>> \in Events /\ t.ev \in Seq(Events)
  BY Fields
<1>2. ev \in Seq(Events)
  <2> DEFINE e == <<k, w>>
  <2>1. Append(t.ev, e) \in Seq(Events)
    BY <1>1
  <2>2. Append(Append(t.ev, e), e) \in Seq(Events)
    BY <1>1, <2>1
  <2> QED BY <1>1, <2>1, <2>2 DEF Longer
<1>3. /\ u.x = xs /\ u.wants = ws /\ u.asked = as /\ u.ev = ev
      /\ u.out = t.out /\ u.pc = t.pc /\ u.wm = t.wm /\ u.cwin = t.cwin /\ u.place = t.place
      /\ u.prop = t.prop /\ u.icon = t.icon /\ u.tmpwins = t.tmpwins /\ u.kept = t.kept
      /\ u.refused = t.refused /\ u.twice = t.twice /\ u.crashed = t.crashed
  BY DEF States, Changed
<1>4. u \in States
  BY <1>1, <1>2 DEF States, Changed, Besides
<1>5. Grows(t, u, {<<k, w>>}) /\ (ev # t.ev => Latest(u, k, w))
  <2> DEFINE e == <<k, w>>
  <2>1. e \in Events /\ (ev = t.ev \/ ev \in {Append(t.ev, e), Append(Append(t.ev, e), e)})
    BY <1>1 DEF Longer
  <2> HIDE DEF e
  <2>2. u.ev = t.ev => Grows(t, u, {e})
    BY <1>4, <2>1, ComingGrows
  <2>3. u.ev \in {Append(t.ev, e), Append(Append(t.ev, e), e)} =>
          Grows(t, u, {e}) /\ u.ev # <<>> /\ u.ev[Len(u.ev)] = e
    BY <1>4, <2>1, ComingGrows
  <2>4. Grows(t, u, {e}) /\ (ev # t.ev => u.ev # <<>> /\ u.ev[Len(u.ev)] = e)
    BY <1>3, <2>1, <2>2, <2>3
  <2> QED BY <2>4 DEF e, Latest
<1> QED BY <1>3, <1>4, <1>5 DEF More, Besides, ChangeDone

\* And so is all that a client does.
LEMMA ClientBase ==
  ASSUME "again" \notin ClientCalls, Base(cw), Client
  PROVE  Keeps(cw, cw')
<1> DEFINE t == [cw EXCEPT !.moves = @ + 1]
<1>1. PICK w \in Windows :
        /\ cw.x[w].exists
        /\ \/ /\ ~cw.x[w].mapped /\ \A v \in Windows : cw.icon[v] # w
              /\ cw.icon[w] # NoWindow =>
                   ~(cw.wants[w] \/ cw.x[cw.icon[w]].mapped \/ cw.cwin[cw.icon[w]].managed)
              /\ cw' = IF cw.wm = "gone" THEN [t EXCEPT !.x[w].mapped = TRUE, !.wants[w] = TRUE]
                       ELSE [Redirected(t, w, "MapRequest") EXCEPT !.wants[w] = TRUE]
           \/ /\ cw.wm # "gone"
              /\ cw' = [Redirected(t, w, "ConfigureRequest") EXCEPT !.asked[w] = TRUE]
           \/ /\ cw.wants[w] /\ cw.icon[w] = NoWindow
              /\ LET u == IF cw.x[w].mapped THEN Notice(t, w, "Unmap") ELSE t
                 IN cw' = [Redirected(u, w, "Unmap") EXCEPT !.x[w].mapped = FALSE, !.wants[w] = FALSE]
           \/ cw' = [Notice(t, w, "Destroy") EXCEPT !.x[w] = [New EXCEPT !.exists = FALSE],
                                                    !.wants[w] = FALSE, !.asked[w] = FALSE]
  BY DEF Client
<1>2. /\ cw \in States /\ cw.x \in [Windows -> XWindows] /\ cw.wants \in [Windows -> BOOLEAN]
      /\ cw.asked \in [Windows -> BOOLEAN]
  BY Fields DEF Base
<1>3. cw.wm = "gone" => ~cw.x[w].sel
  <2> SUFFICES ASSUME cw.wm = "gone" PROVE ~cw.x[w].sel
    OBVIOUS
  <2>1. Managed(cw, w) /\ cw.out = <<>> /\ \A k, v : k # "idle" => ~At(cw, k, v)
    BY DEF Base, Own, Phase, At, Idle
  <2>2. Final(cw, w).x = cw.x[w]
    BY <1>2, <2>1, FinalFacts
  <2> QED BY <1>1, <2>1, <2>2 DEF Managed
<1>4. /\ [cw.x[w] EXCEPT !.mapped = TRUE] \in XWindows /\ [cw.x[w] EXCEPT !.mapped = FALSE] \in XWindows
      /\ Dead \in XWindows /\ ~Dead.exists /\ Dead.parent = "root" /\ ~Dead.mapped
  <2>1. NoGeom \in Geoms
    BY ClientAssumption DEF NoGeom
  <2>2. Dead \in XWindows /\ ~Dead.exists /\ Dead.parent = "root" /\ ~Dead.mapped
    BY <2>1 DEF Dead, New, XWindows
  <2>3. TRUE \in BOOLEAN /\ FALSE \in BOOLEAN /\ cw.x[w] \in XWindows
    BY <1>2
  <2>4. \A b \in BOOLEAN : [cw.x[w] EXCEPT !.mapped = b] \in XWindows
    BY <2>3, MappedType
  <2> QED BY <2>2, <2>3, <2>4
<1> DEFINE xt == [cw.x EXCEPT ![w].mapped = TRUE]
           xf == [cw.x EXCEPT ![w].mapped = FALSE]
           xd == [cw.x EXCEPT ![w] = Dead]
           wt == [cw.wants EXCEPT ![w] = TRUE]
           wf == [cw.wants EXCEPT ![w] = FALSE]
           at == [cw.asked EXCEPT ![w] = TRUE]
           af == [cw.asked EXCEPT ![w] = FALSE]
<1>5. /\ wt \in [Windows -> BOOLEAN] /\ wf \in [Windows -> BOOLEAN] /\ wt[w] = TRUE /\ wf[w] = FALSE
      /\ at \in [Windows -> BOOLEAN] /\ af \in [Windows -> BOOLEAN] /\ at[w] = TRUE /\ af[w] = FALSE
      /\ \A v \in Windows : v # w => /\ wt[v] = cw.wants[v] /\ wf[v] = cw.wants[v]
                                      /\ at[v] = cw.asked[v] /\ af[v] = cw.asked[v]
  BY <1>2
<1>6. /\ xt \in [Windows -> XWindows] /\ xt[w] = [cw.x[w] EXCEPT !.mapped = TRUE]
      /\ xf \in [Windows -> XWindows] /\ xf[w] = [cw.x[w] EXCEPT !.mapped = FALSE]
      /\ xd \in [Windows -> XWindows] /\ xd[w] = Dead
      /\ \A v \in Windows : v # w => xt[v] = cw.x[v] /\ xf[v] = cw.x[v] /\ xd[v] = cw.x[v]
  BY <1>2, <1>4
<1>7. cw.ev \in Seq(Events) /\ \A k : Append(cw.ev, <<k, w>>) # cw.ev
  <2>1. cw.ev \in Seq(Events)
    BY <1>2, Fields
  <2> SUFFICES ASSUME NEW k PROVE Append(cw.ev, <<k, w>>) # cw.ev
    BY <2>1
  <2>2. Len(Append(cw.ev, <<k, w>>)) = Len(cw.ev) + 1 /\ Len(cw.ev) \in Nat
    BY <2>1
  <2> QED BY <2>2
<1>8. ASSUME cw.wm = "gone", cw' = [t EXCEPT !.x[w].mapped = TRUE, !.wants[w] = TRUE]
      PROVE  Keeps(cw, cw')
  <2> DEFINE ev == cw.ev
             as == cw.asked
  <2>1. cw' = Changed(cw, ev, xt, wt, as)
    BY <1>2, <1>8 DEF States, Changed
  <2>2. Besides(cw, w, xt, wt, as) /\ Longer(cw, ev, w, "MapRequest") /\ <<"MapRequest", w>> \in Events
    BY <1>2, <1>5, <1>6 DEF Besides, Longer, Events
  <2>3. as[w] = cw.asked[w] /\ ev = cw.ev
    OBVIOUS
  <2> HIDE DEF xt, wt, as, ev
  <2>4. ChangeDone(cw, cw', w, "MapRequest", ev, xt, wt, as)
    BY <1>2, <2>1, <2>2, ChangedMore
  <2>5. /\ More(cw, cw', w, "MapRequest") /\ cw'.ev = cw.ev /\ cw'.asked[w] = cw.asked[w]
        /\ cw'.x[w] = [cw.x[w] EXCEPT !.mapped = TRUE] /\ cw'.wants[w] = TRUE
    BY <1>5, <1>6, <2>3, <2>4 DEF ChangeDone
  <2>6. Base(cw')
    BY <1>1, <1>2, <1>8, <2>5, MapsBase
  <2>7. cw'.wm = "gone"
    BY <1>8, <2>5 DEF More
  <2> QED BY <2>6, <2>7, GoneCalm DEF Keeps
<1>9. ASSUME cw.wm # "gone", ~cw.x[w].mapped, \A v \in Windows : cw.icon[v] # w,
             cw.icon[w] # NoWindow =>
               ~(cw.wants[w] \/ cw.x[cw.icon[w]].mapped \/ cw.cwin[cw.icon[w]].managed),
             cw' = [Redirected(t, w, "MapRequest") EXCEPT !.wants[w] = TRUE]
      PROVE  Keeps(cw, cw')
  <2> DEFINE ev == Append(cw.ev, <<"MapRequest", w>>)
             as == cw.asked
             xs == cw.x
  <2>1. cw' = Changed(cw, ev, xs, wt, as)
    BY <1>2, <1>9 DEF States, Changed, Redirected
  <2>2. Besides(cw, w, xs, wt, as) /\ Longer(cw, ev, w, "MapRequest") /\ <<"MapRequest", w>> \in Events
    BY <1>2, <1>5 DEF Besides, Longer, Events
  <2>3. /\ as[w] = cw.asked[w] /\ xs[w] = cw.x[w] /\ ev = Append(cw.ev, <<"MapRequest", w>>)
        /\ ev # cw.ev
    BY <1>7
  <2> HIDE DEF wt, as, ev, xs
  <2>4. ChangeDone(cw, cw', w, "MapRequest", ev, xs, wt, as)
    BY <1>2, <2>1, <2>2, ChangedMore
  <2>5. /\ More(cw, cw', w, "MapRequest") /\ cw'.asked[w] = cw.asked[w]
        /\ cw'.x[w] = cw.x[w] /\ cw'.wants[w] = TRUE /\ Latest(cw', "MapRequest", w)
    BY <1>5, <2>3, <2>4 DEF ChangeDone
  <2>6. cw'.ev = Append(cw.ev, <<"MapRequest", w>>)
    BY <2>3, <2>4 DEF ChangeDone
  <2>7. /\ cw \in States /\ Base(cw) /\ cw.wm # "gone" /\ cw.x[w].exists /\ ~cw.x[w].mapped
        /\ \A v \in Windows : cw.icon[v] # w
    BY <1>1, <1>2, <1>9
  <2>8. cw.icon[w] # NoWindow =>
          ~(cw.wants[w] \/ cw.x[cw.icon[w]].mapped \/ cw.cwin[cw.icon[w]].managed)
    BY <1>9
  <2>9. Base(cw')
    BY <2>5, <2>6, <2>7, <2>8, AsksBase
  <2>10. Calm(cw) => Calm(cw')
    BY <2>5, <2>7, AsksCalm
  <2> QED BY <2>9, <2>10 DEF Keeps
<1>10. ASSUME cw.wm # "gone", cw' = [Redirected(t, w, "ConfigureRequest") EXCEPT !.asked[w] = TRUE]
       PROVE  Keeps(cw, cw')
  <2> DEFINE ev == Append(cw.ev, <<"ConfigureRequest", w>>)
             ws == cw.wants
             xs == cw.x
  <2>1. cw' = Changed(cw, ev, xs, ws, at)
    BY <1>2, <1>10 DEF States, Changed, Redirected
  <2>2. /\ Besides(cw, w, xs, ws, at) /\ Longer(cw, ev, w, "ConfigureRequest")
        /\ <<"ConfigureRequest", w>> \in Events
    BY <1>2, <1>5 DEF Besides, Longer, Events
  <2>3. ws[w] = cw.wants[w] /\ xs[w] = cw.x[w] /\ ev # cw.ev
    BY <1>7
  <2> HIDE DEF at, ws, ev, xs
  <2>4. ChangeDone(cw, cw', w, "ConfigureRequest", ev, xs, ws, at)
    BY <1>2, <2>1, <2>2, ChangedMore
  <2>5. /\ More(cw, cw', w, "ConfigureRequest") /\ cw'.asked[w] = TRUE
        /\ cw'.x[w] = cw.x[w] /\ cw'.wants[w] = cw.wants[w] /\ Latest(cw', "ConfigureRequest", w)
    BY <1>5, <2>3, <2>4 DEF ChangeDone
  <2>6. Base(cw')
    BY <1>1, <1>2, <1>10, <2>5, WaitsBase
  <2>7. Calm(cw) => Calm(cw')
    BY <1>2, <2>5, WaitsCalm
  <2> QED BY <2>6, <2>7 DEF Keeps
<1>11. ASSUME cw.icon[w] = NoWindow,
              LET u == IF cw.x[w].mapped THEN Notice(t, w, "Unmap") ELSE t
              IN cw' = [Redirected(u, w, "Unmap") EXCEPT !.x[w].mapped = FALSE, !.wants[w] = FALSE]
       PROVE  Keeps(cw, cw')
  <2> DEFINE e == <<"Unmap", w>>
             ev == IF cw.wm = "gone" THEN cw.ev
                   ELSE IF cw.x[w].mapped /\ cw.x[w].sel THEN Append(Append(cw.ev, e), e) ELSE Append(cw.ev, e)
             as == cw.asked
  <2>1. cw' = Changed(cw, ev, xf, wf, as)
    <3>1. CASE cw.wm = "gone"
      BY <1>2, <1>3, <1>11, <3>1 DEF States, Changed, Redirected, Notice
    <3>2. CASE cw.wm # "gone" /\ cw.x[w].mapped /\ cw.x[w].sel
      BY <1>2, <1>11, <3>2 DEF States, Changed, Redirected, Notice
    <3>3. CASE cw.wm # "gone" /\ ~(cw.x[w].mapped /\ cw.x[w].sel)
      BY <1>2, <1>11, <3>3 DEF States, Changed, Redirected, Notice
    <3> QED BY <3>1, <3>2, <3>3
  <2>2. cw.wm # "gone" => ev # cw.ev
    <3>1. e \in Events
      BY DEF Events
    <3>2. Append(cw.ev, e) # cw.ev
      BY <1>7
    <3>3. Len(Append(Append(cw.ev, e), e)) # Len(cw.ev)
      BY <1>7, <3>1
    <3> QED BY <3>2, <3>3
  <2>3. /\ Besides(cw, w, xf, wf, as) /\ Longer(cw, ev, w, "Unmap") /\ <<"Unmap", w>> \in Events
        /\ cw.wm = "gone" => ev = cw.ev
        /\ as[w] = cw.asked[w]
    BY <1>2, <1>5, <1>6 DEF Besides, Longer, Events
  <2> HIDE DEF xf, wf, as, ev
  <2>4. ChangeDone(cw, cw', w, "Unmap", ev, xf, wf, as)
    BY <1>2, <2>1, <2>3, ChangedMore
  <2>5. /\ More(cw, cw', w, "Unmap") /\ cw'.asked[w] = cw.asked[w]
        /\ cw'.x[w] = [cw.x[w] EXCEPT !.mapped = FALSE] /\ cw'.wants[w] = FALSE
        /\ IF cw.wm = "gone" THEN cw'.ev = cw.ev ELSE Latest(cw', "Unmap", w)
    BY <1>5, <1>6, <2>2, <2>3, <2>4 DEF ChangeDone
  <2>6. cw \in States /\ Base(cw) /\ cw.x[w].exists /\ cw.icon[w] = NoWindow
    BY <1>1, <1>2, <1>11
  <2>7. Base(cw')
    BY <2>5, <2>6, WithdrawsBase
  <2>8. Calm(cw) => Calm(cw')
    <3>1. CASE cw.wm = "gone"
      <4>1. cw'.wm = "gone"
        BY <2>5, <3>1 DEF More
      <4> QED BY <2>7, <4>1, GoneCalm
    <3>2. CASE cw.wm # "gone"
      BY <2>5, <2>6, <3>2, WithdrawsCalm
    <3> QED BY <3>1, <3>2
  <2> QED BY <2>7, <2>8 DEF Keeps
<1>12. ASSUME cw' = [Notice(t, w, "Destroy") EXCEPT !.x[w] = [New EXCEPT !.exists = FALSE],
                                                    !.wants[w] = FALSE, !.asked[w] = FALSE]
       PROVE  Keeps(cw, cw')
  <2> DEFINE ev == IF cw.x[w].sel THEN Append(cw.ev, <<"Destroy", w>>) ELSE cw.ev
  <2>1. cw' = Changed(cw, ev, xd, wf, af)
    BY <1>2, <1>12 DEF States, Changed, Notice, Dead
  <2>2. /\ Besides(cw, w, xd, wf, af) /\ Longer(cw, ev, w, "Destroy") /\ <<"Destroy", w>> \in Events
        /\ cw.wm = "gone" => ev = cw.ev
        /\ cw.x[w].sel => ev # cw.ev
    BY <1>3, <1>5, <1>6, <1>7 DEF Besides, Longer, Events
  <2> HIDE DEF xd, wf, af, ev
  <2>3. ChangeDone(cw, cw', w, "Destroy", ev, xd, wf, af)
    BY <1>2, <2>1, <2>2, ChangedMore
  <2>4. /\ More(cw, cw', w, "Destroy") /\ ~cw'.asked[w] /\ ~cw'.wants[w]
        /\ ~cw'.x[w].exists /\ cw'.x[w].parent = "root" /\ ~cw'.x[w].mapped
        /\ cw.wm = "gone" => cw'.ev = cw.ev
        /\ cw.x[w].sel => Latest(cw', "Destroy", w)
    BY <1>4, <1>5, <1>6, <2>2, <2>3 DEF ChangeDone
  <2>5. Base(cw')
    BY <1>1, <1>2, <2>4, DestroysBase
  <2>6. Calm(cw) => Calm(cw')
    BY <1>1, <1>2, <2>4, DestroysCalm
  <2> QED BY <2>5, <2>6 DEF Keeps
<1> QED
  BY <1>1, <1>8, <1>9, <1>10, <1>11, <1>12

-----------------------------------------------------------------------------
(* How ioncore begins and ends *)

\* Only when it runs is another
Turned(t, u) ==
  /\ t \in States /\ u \in States
  /\ u.x = t.x /\ u.out = t.out /\ u.ev = t.ev /\ u.pc = t.pc /\ u.cwin = t.cwin /\ u.icon = t.icon
  /\ u.tmpwins = t.tmpwins /\ u.refused = t.refused /\ u.twice = t.twice /\ u.crashed = t.crashed
  /\ u.wants = t.wants /\ u.asked = t.asked /\ u.place = t.place /\ u.prop = t.prop

\* What does not depend on when it runs.
LEMMA TurnedFacts ==
  ASSUME NEW t, NEW u, Turned(t, u), NEW w
  PROVE  /\ Own(t, w) /\ (u.cwin[w].managed => u.wm # "gone") /\ Restored(u, w) => Own(u, w)
         /\ Dock(t, w) => Dock(u, w)
         /\ Final(u, w) = Final(t, w) /\ Leaves(t, u, w)
<1>1. /\ u.x = t.x /\ u.out = t.out /\ u.ev = t.ev /\ u.pc = t.pc /\ u.cwin = t.cwin /\ u.icon = t.icon
      /\ u.tmpwins = t.tmpwins /\ u.refused = t.refused /\ u.twice = t.twice /\ u.crashed = t.crashed
      /\ u.wants = t.wants /\ u.asked = t.asked
  BY DEF Turned
<1>2. /\ Trace(u, w) = Trace(t, w) /\ Final(u, w) = Final(t, w) /\ Fine(u, w) = Fine(t, w)
      /\ Unseen(u, w) = Unseen(t, w) /\ Leaves(t, u, w)
      /\ \A v : Only(u, v, {"select"}) = Only(t, v, {"select"})
      /\ \A v : Only(u, v, {"select", "saveset"}) = Only(t, v, {"select", "saveset"})
  BY <1>1, Depends
<1>3. \A k, v : At(u, k, v) = At(t, k, v)
  BY <1>1 DEF At
<1>4. /\ \A e, v : Has(u, e, v) = Has(t, e, v)
      /\ \A v : Asks(u, v) = Asks(t, v) /\ Once(u, v) = Once(t, v)
      /\ \A i, v : Order(u, v, i) = Order(t, v, i)
  BY <1>1 DEF Has, Asks, Once, Order
<1>5. \A v : Scanned(u, v) = Scanned(t, v) /\ Unscanned(u, v) = Unscanned(t, v) /\ Passing(u, v) = Passing(t, v)
  BY <1>1, <1>3 DEF Scanned, Unscanned, Passing
<1>6. ASSUME Own(t, w), u.cwin[w].managed => u.wm # "gone", Restored(u, w) PROVE Own(u, w)
  <2>1. Lifeless(u, w)
    BY <1>1, <1>4, <1>6 DEF Own, Lifeless
  <2>2. Managed(u, w)
    BY <1>1, <1>2, <1>3, <1>5, <1>6 DEF Own, Managed
  <2>3. Answered(u, w) /\ Untouched(u, w) /\ Unseen(u, w)
    BY <1>2, <1>4, <1>5, <1>6 DEF Own, Answered, Untouched
  <2> QED BY <1>6, <2>1, <2>2, <2>3 DEF Own
<1>7. ASSUME Dock(t, w) PROVE Dock(u, w)
  <2>1. \A v : Docked(t, w, v) => Docked(u, w, v)
    BY <1>1, <1>2, <1>3, <1>4, <1>5 DEF Docked
  <2> QED BY <1>1, <1>3, <1>4, <1>7, <2>1 DEF Dock
<1> QED BY <1>2, <1>6, <1>7

\* So what windows show, if what is heard of them matters no more than it did.
LEMMA TurnedCalm ==
  ASSUME NEW t, NEW u, Turned(t, u), u.wm \in {"init", "running"} => t.wm \in {"init", "running"}, Calm(t)
  PROVE  Calm(u)
<1> SUFFICES ASSUME NEW w \in Windows PROVE CalmOf(u, w)
  BY DEF Calm
<1>1. /\ u.x = t.x /\ u.ev = t.ev /\ u.pc = t.pc /\ u.cwin = t.cwin /\ u.icon = t.icon
      /\ u.tmpwins = t.tmpwins /\ u.refused = t.refused /\ u.wants = t.wants /\ u.place = t.place
      /\ u.prop = t.prop
  BY DEF Turned
<1>2. CalmOf(t, w) /\ Final(u, w) = Final(t, w)
  BY TurnedFacts DEF Calm
<1>3. /\ \A k : At(u, k, w) = At(t, k, w)
      /\ \A e : Has(u, e, w) = Has(t, e, w) /\ LastWord(u, w, e) = LastWord(t, w, e)
  BY <1>1 DEF At, Has, LastWord
<1>4. Passing(u, w) = Passing(t, w) /\ Taken(u, w) = Taken(t, w)
  BY <1>1, <1>3 DEF Passing, Taken, Unscanned, Scanned
<1>5. Single(u, w) = Single(t, w) /\ Silent(u, w) = Silent(t, w)
  BY <1>1, <1>3 DEF Single, Silent
<1>6. Shown(u, w)
  BY <1>1, <1>2, <1>3 DEF CalmOf, Shown
<1>7. Noticed(u, w)
  BY <1>1, <1>2, <1>3, <1>4 DEF CalmOf, Noticed
<1>8. Heard(u, w)
  BY <1>1, <1>2, <1>3, <1>4, <1>5 DEF CalmOf, Heard
<1> QED BY <1>6, <1>7, <1>8 DEF CalmOf

\* Nothing is to dockapps and icons, when nothing is under way ...
LEMMA Dormant ==
  ASSUME NEW u, NEW w \in Windows, u.ev = <<>>, u.pc = Idle, u.tmpwins = {}, NEW v \in Windows
  PROVE  Docked(u, w, v) /\ ~Asks(u, v) /\ ~At(u, "maprq", v)
<1>1. \A k, i : k # "idle" => ~At(u, k, i)
  BY DEF At, Idle
<1>2. DOMAIN u.ev = {}
  OBVIOUS
<1>3. \A i \in Windows : ~Scanned(u, i) /\ ~Asks(u, i)
  BY <1>1, <1>2 DEF Scanned, Asks, Has, Range
<1>4. Once(u, w)
  BY <1>2 DEF Once
<1> QED BY <1>1, <1>3, <1>4 DEF Docked

\* ... whatever it was before.
LEMMA DormantDock ==
  ASSUME NEW t \in States, NEW u, NEW w \in Windows, Dock(t, w), u.icon = t.icon, u.ev = <<>>, u.pc = Idle,
         u.tmpwins = {}
  PROVE  Dock(u, w)
<1>1. t.icon[w] \in Windows \cup {NoWindow}
  BY Fields
<1>2. \A v \in Windows : Docked(u, w, v) /\ ~Asks(u, v) /\ ~At(u, "maprq", v)
  BY Dormant
<1> QED BY <1>1, <1>2 DEF Dock

\* The scan is over.
LEMMA StartedBase == ASSUME Base(cw), Started PROVE Keeps(cw, cw')
<1>1. cw \in States /\ Phase(cw) /\ cw.wm = "init" /\ cw.tmpwins = {} /\ cw.pc = Idle
  BY DEF Base, Started
<1>2. cw' \in States /\ cw'.wm = "running" /\ Turned(cw, cw')
  BY <1>1 DEF Started, States, Turned
<1>3. Phase(cw')
  BY <1>1, <1>2 DEF Phase, Turned, At, Idle
<1>4. ASSUME NEW w \in Windows PROVE Own(cw', w) /\ Dock(cw', w)
  <2>1. Own(cw, w) /\ Dock(cw, w) /\ Restored(cw, w)
    BY DEF Base, Own
  <2>2. Restored(cw', w)
    <3>1. Final(cw', w) = Final(cw, w)
      BY <1>2, TurnedFacts
    <3> QED BY <1>2, <2>1, <3>1 DEF Restored, Turned, At
  <2> QED BY <1>2, <2>1, <2>2, TurnedFacts
<1>5. Calm(cw) => Calm(cw')
  BY <1>1, <1>2, TurnedCalm
<1> QED BY <1>2, <1>3, <1>4, <1>5 DEF Keeps, Base

\* The end begins: all that are managed are to be kept.
LEMMA ExitBase == ASSUME Base(cw), Exit PROVE Keeps(cw, cw')
<1>1. cw \in States /\ Phase(cw) /\ cw.wm = "running" /\ cw.pc = Idle
  BY DEF Base, Exit
<1>2. /\ cw' \in States /\ cw'.wm = "exiting" /\ Turned(cw, cw')
      /\ cw'.kept = {w \in Windows : cw.cwin[w].managed}
  <2>1. cw.ends + 1 \in Nat
    BY <1>1, Fields
  <2> QED BY <1>1, <2>1 DEF Exit, States, Turned
<1>3. Phase(cw')
  BY <1>1, <1>2 DEF Phase, Turned, At, Idle
<1>4. ASSUME NEW w \in Windows PROVE Own(cw', w) /\ Dock(cw', w)
  <2>1. Own(cw, w) /\ Dock(cw, w) /\ Restored(cw, w)
    BY DEF Base, Own
  <2>2. Restored(cw', w)
    <3>1. Final(cw', w) = Final(cw, w)
      BY <1>2, TurnedFacts
    <3> QED BY <1>2, <2>1, <3>1 DEF Restored, Turned, At
  <2> QED BY <1>2, <2>1, <2>2, TurnedFacts
<1>5. Calm(cw) => Calm(cw')
  BY <1>1, <1>2, TurnedCalm
<1> QED BY <1>2, <1>3, <1>4, <1>5 DEF Keeps, Base

\* What is left of a window when nothing is asked of it
Bare(u, w) ==
  LET x == u.x[w]
  IN /\ ~x.exists => ~x.mapped /\ ~u.wants[w]
     /\ x.parent = "root" /\ (x.exists => ~x.saved /\ ~x.sel)
     /\ ~u.asked[w] /\ ~u.cwin[w].managed
     /\ x.exists => (u.wants[w] <=> x.mapped)
     /\ ~u.crashed /\ w \notin u.refused /\ x.exists => x.border

\* A window that is left so is as it should be.
LEMMA BareOwn ==
  ASSUME NEW u \in States, u.wm = "gone", u.out = <<>>, u.ev = <<>>, u.pc = Idle, u.tmpwins = {}, ~u.twice,
         NEW w \in Windows, Bare(u, w)
  PROVE  Own(u, w)
<1>1. /\ Final(u, w).x = u.x[w] /\ Final(u, w).asked = u.asked[w] /\ Len(u.out) = 0
      /\ Trace(u, w)[0] = Now(u, w)
  <2>1. 0 \in 0 .. Len(u.out)
    OBVIOUS
  <2> QED BY <2>1, FinalFacts, TraceFacts
<1>2. /\ \A e : ~Has(u, e, w)
      /\ \A k : k # "idle" => ~At(u, k, w)
      /\ ~Passing(u, w) /\ ~Unscanned(u, w)
  <2>1. \A k : k # "idle" => ~At(u, k, w)
    BY DEF At, Idle
  <2>2. DOMAIN u.ev = {}
    OBVIOUS
  <2> QED BY <2>1, <2>2 DEF Has, Passing, Unscanned, Scanned, Range
<1>3. Lifeless(u, w) /\ Answered(u, w) /\ Untouched(u, w)
  BY <1>1, <1>2 DEF Bare, Lifeless, Answered, Untouched
<1>4. Fine(u, w) /\ Unseen(u, w)
  <2>1. \A n \in 0 .. Len(u.out) : n = 0
    BY <1>1
  <2>2. \A n \in 1 .. Len(u.out) : FALSE
    BY <1>1
  <2>3. Trace(u, w)[0].x.parent = "root"
    BY <1>1 DEF Now, Bare
  <2> QED BY <2>1, <2>2, <2>3 DEF Fine, Unseen
<1>5. Managed(u, w)
  BY <1>1, <1>2, <1>4 DEF Managed, Bare
<1>6. Restored(u, w)
  BY <1>1, <1>2 DEF Restored, Bare
<1> QED BY <1>3, <1>4, <1>5, <1>6 DEF Own

\* ioncore begins, and knows what windows there are: icons come with their
\* dockapps.
LEMMA StartBase == ASSUME Base(cw), Start PROVE Keeps(cw, cw')
<1> DEFINE there == {w \in Windows : /\ cw.x[w].exists
                                    /\ ~\E v \in Windows : cw.icon[v] = w /\ cw.x[v].exists}
<1>1. /\ cw \in States /\ Phase(cw) /\ cw.wm = "gone" /\ cw.out = <<>> /\ cw.ev = <<>> /\ cw.pc = Idle
      /\ cw.tmpwins = {}
  BY DEF Base, Start, Phase
<1>2. /\ cw' \in States /\ cw'.wm = "init" /\ cw'.tmpwins = there
      /\ cw'.x = cw.x /\ cw'.out = cw.out /\ cw'.ev = cw.ev /\ cw'.pc = cw.pc /\ cw'.cwin = cw.cwin
      /\ cw'.icon = cw.icon /\ cw'.refused = cw.refused /\ cw'.twice = cw.twice
      /\ cw'.crashed = cw.crashed /\ cw'.wants = cw.wants /\ cw'.asked = cw.asked
  BY <1>1 DEF Start, States
<1>3. Phase(cw')
  BY <1>1, <1>2 DEF Phase, At, Idle
<1>4. \A v : /\ ~Asks(cw', v) /\ \A e : ~Has(cw', e, v)
             /\ \A k : k # "idle" => ~At(cw', k, v) /\ ~At(cw, k, v)
             /\ \A K : Only(cw', v, K)
  <2>1. DOMAIN cw'.ev = {} /\ DOMAIN cw'.out = {}
    BY <1>1, <1>2
  <2>2. \A k, v : k # "idle" => ~At(cw', k, v) /\ ~At(cw, k, v)
    BY <1>1, <1>2 DEF At, Idle
  <2> QED BY <2>1, <2>2 DEF Asks, Has, Range, Only
<1>5. ASSUME NEW w \in Windows PROVE Own(cw', w)
  <2>1. Own(cw, w)
    BY DEF Base
  <2>2. Final(cw', w) = Final(cw, w) /\ Fine(cw', w) = Fine(cw, w) /\ Unseen(cw', w) = Unseen(cw, w)
    BY <1>2, Depends
  <2>3. ~cw.cwin[w].managed
    BY <1>1, <2>1 DEF Own, Managed
  <2>4. Lifeless(cw', w) /\ Answered(cw', w) /\ Untouched(cw', w)
    <3>1. ~Final(cw', w).asked
      BY <1>1, <2>1, <2>2, FinalFacts DEF Phase
    <3> QED BY <1>2, <1>4, <2>1, <3>1 DEF Own, Lifeless, Answered, Untouched
  <2>5. Managed(cw', w)
    BY <1>2, <1>4, <2>1, <2>2, <2>3 DEF Own, Managed, Passing
  <2>6. Restored(cw', w)
    BY <1>2, <1>4, <2>1, <2>2, <2>3 DEF Own, Restored
  <2> QED BY <2>1, <2>2, <2>4, <2>5, <2>6 DEF Own
<1>6. ASSUME NEW w \in Windows PROVE Dock(cw', w)
  <2>1. Dock(cw, w)
    BY DEF Base
  <2>2. SUFFICES ASSUME cw.icon[w] # NoWindow, cw.x[cw.icon[w]].exists
                 PROVE  Docked(cw', w, cw.icon[w])
    BY <1>2, <1>4, <2>1 DEF Dock
  <2> DEFINE v == cw.icon[w]
  <2>3. v \in Windows /\ ~cw.cwin[v].managed /\ ~cw.cwin[w].managed
    <3>1. v \in Windows
      BY <1>1, <2>2, Fields
    <3> QED BY <1>1, <3>1 DEF Base, Own, Managed
  <2>4. cw.x[w].mapped => cw.wants[w]
    BY <1>1 DEF Base, Own, Restored, Lifeless
  <2>5. Scanned(cw', v) => ~cw.x[w].exists /\ w \notin there
    BY <1>2, <1>4, <2>3 DEF Scanned
  <2>6. cw'.pc[2] = NoWindow /\ NoWindow # w /\ NoWindow # v
    BY <1>1, <1>2, <2>3, ClientAssumption DEF Idle
  <2>7. Once(cw', w)
    BY <1>4 DEF Once, Has, Asks, Range
  <2> HIDE DEF there, v
  <2>8. Docked(cw', w, v)
    BY <1>2, <1>4, <2>3, <2>4, <2>5, <2>6, <2>7 DEF Docked
  <2> QED BY <2>8 DEF v
<1>7. ASSUME NEW w \in Windows PROVE CalmOf(cw', w)
  <2>1. ~cw'.cwin[w].managed /\ ~Passing(cw', w)
    BY <1>1, <1>2, <1>4 DEF Base, Own, Managed, Passing
  <2>2. Heard(cw', w)
    <3> SUFFICES ASSUME Single(cw', w), cw.x[w].exists
                 PROVE  Silent(cw', w) /\ (cw.wants[w] <=> Taken(cw', w))
      BY <1>2 DEF Heard
    <3>1. cw.wants[w] <=> cw.x[w].mapped
      BY <1>1 DEF Base, Own, Restored
    <3>2. w \in there
      BY <1>2 DEF Single
    <3> HIDE DEF there
    <3>3. Silent(cw', w) /\ (Taken(cw', w) <=> cw.x[w].mapped)
      BY <1>2, <1>4, <2>1, <3>2 DEF Silent, Taken, Unscanned, Scanned
    <3> QED BY <3>1, <3>3
  <2> QED BY <2>1, <2>2, FreeCalm
<1> QED BY <1>2, <1>3, <1>5, <1>6, <1>7 DEF Keeps, Base, Calm

\* ioncore leaves its windows one by one, and is gone.
LEMMA DeinitBase == ASSUME Base(cw), ioncore_deinit PROVE Keeps(cw, cw')
<1>1. ASSUME NEW w \in Windows, cw.wm = "exiting", cw.pc = Idle, cw.cwin[w].managed,
             cw' = clientwin_deinit(cw, w)
      PROVE  Keeps(cw, cw')
  <2>1. cw \in States /\ Base(cw')
    BY <1>1, LeftBase DEF Base
  <2>2. /\ Deals(cw, cw', w) /\ cw'.pc = <<"deinit", w>> /\ cw'.twice = cw.twice
    <3>1. Held(cw, w)
      BY <1>1, OwnHeld DEF Base, At, Idle
    <3> QED BY <1>1, <2>1, <3>1, DeinitFacts
  <2>3. CalmOf(cw', w)
    <3>1. At(cw', "deinit", w)
      BY <2>2 DEF At
    <3>2. Heard(cw', w)
      BY <1>1, <2>2 DEF Heard, Deals
    <3> QED BY <3>1, <3>2, LeavingCalm
  <2>4. About(cw, w) /\ About(cw', w)
    BY <1>1, <2>2 DEF About, Idle
  <2> QED BY <2>1, <2>2, <2>3, <2>4, DealsCalm DEF Keeps
<1> DEFINE kept == {w \in cw.kept : <<"MapRequest", w>> \notin Range(cw.ev)}
           xs == [w \in Windows |-> [cw.x[w] EXCEPT !.sel = FALSE]]
           as == [w \in Windows |-> FALSE]
           ws == [w \in Windows |-> cw.x[w].mapped \/ (w \in kept /\ cw.wants[w])]
<1>2. ASSUME cw.wm = "exiting", cw.out = <<>>, cw.pc = Idle, ~\E w \in Windows : cw.cwin[w].managed,
             cw' = [cw EXCEPT !.wm = "gone", !.ev = <<>>, !.kept = kept, !.x = xs, !.asked = as, !.wants = ws]
      PROVE  Keeps(cw, cw')
  <2>1. /\ cw \in States /\ Phase(cw) /\ cw.tmpwins = {} /\ (~cw.twice \/ Windows = {})
        /\ cw.x \in [Windows -> XWindows] /\ cw.wants \in [Windows -> BOOLEAN]
    BY <1>2, Fields DEF Base, Phase, Own, Managed
  <2>2. /\ kept \in SUBSET Windows /\ as \in [Windows -> BOOLEAN] /\ ws \in [Windows -> BOOLEAN]
        /\ xs \in [Windows -> XWindows] /\ <<>> \in Seq(Events)
        /\ \A w \in Windows : /\ xs[w].exists = cw.x[w].exists /\ xs[w].mapped = cw.x[w].mapped
                               /\ xs[w].sel = FALSE /\ xs[w].parent = cw.x[w].parent
                               /\ xs[w].saved = cw.x[w].saved /\ xs[w].border = cw.x[w].border
    <3>1. kept \in SUBSET Windows
      <4>1. cw.kept \in SUBSET Windows
        BY <2>1, Fields
      <4>2. kept \subseteq cw.kept
        OBVIOUS
      <4> HIDE DEF kept
      <4> QED BY <4>1, <4>2
    <3>2. \A w \in Windows : /\ xs[w] \in XWindows
                             /\ xs[w].exists = cw.x[w].exists /\ xs[w].mapped = cw.x[w].mapped
                             /\ xs[w].sel = FALSE /\ xs[w].parent = cw.x[w].parent
                             /\ xs[w].saved = cw.x[w].saved /\ xs[w].border = cw.x[w].border
      <4>1. ASSUME NEW y \in XWindows, NEW b \in BOOLEAN
            PROVE  LET z == [y EXCEPT !.sel = b]
                   IN /\ z \in XWindows /\ z.exists = y.exists /\ z.mapped = y.mapped /\ z.sel = b
                      /\ z.parent = y.parent /\ z.saved = y.saved /\ z.border = y.border
        BY DEF XWindows
      <4>2. FALSE \in BOOLEAN /\ \A w \in Windows : cw.x[w] \in XWindows
        BY <2>1
      <4> QED BY <4>1, <4>2
    <3>3. <<>> \in Seq(Events)
      OBVIOUS
    <3>4. ws \in [Windows -> BOOLEAN]
      <4>1. \A w \in Windows : (cw.x[w].mapped \/ (w \in kept /\ cw.wants[w])) \in BOOLEAN
        OBVIOUS
      <4> HIDE DEF kept
      <4> QED BY <4>1
    <3> QED BY <3>1, <3>2, <3>3, <3>4
  <2>3. ASSUME NEW w \in Windows
        PROVE  /\ ws[w] => cw.x[w].mapped \/ (cw.wants[w] /\ w \in cw.kept /\ ~Has(cw, "MapRequest", w))
               /\ cw.x[w].mapped => ws[w]
               /\ as[w] = FALSE
    BY DEF Has
  <2> HIDE DEF kept, xs, as, ws
  <2>4. /\ cw' \in States /\ cw'.wm = "gone" /\ cw'.ev = <<>> /\ cw'.x = xs /\ cw'.asked = as /\ cw'.wants = ws
        /\ cw'.out = <<>> /\ cw'.pc = Idle /\ cw'.tmpwins = {} /\ cw'.cwin = cw.cwin /\ cw'.icon = cw.icon
        /\ cw'.twice = cw.twice /\ cw'.crashed = cw.crashed /\ cw'.refused = cw.refused
    <3> DEFINE ev == <<>>
               u == [cw EXCEPT !.wm = "gone", !.ev = ev, !.kept = kept, !.x = xs, !.asked = as, !.wants = ws]
    <3>1. ev \in Seq(Events) /\ ev = <<>>
      OBVIOUS
    <3> HIDE DEF ev
    <3>2. u \in States
      BY <2>1, <2>2, <3>1 DEF States
    <3>3. /\ u.wm = "gone" /\ u.ev = ev /\ u.x = xs /\ u.asked = as /\ u.wants = ws
          /\ u.out = cw.out /\ u.pc = cw.pc /\ u.tmpwins = cw.tmpwins /\ u.cwin = cw.cwin /\ u.icon = cw.icon
          /\ u.twice = cw.twice /\ u.crashed = cw.crashed /\ u.refused = cw.refused
      BY <2>1 DEF States
    <3>4. cw' = u
      BY <1>2, <3>1
    <3> HIDE DEF u
    <3> QED BY <1>2, <2>1, <3>1, <3>2, <3>3, <3>4
  <2>5. Phase(cw')
    <3>1. \A w \in Windows : ~cw'.asked[w]
      BY <2>3, <2>4
    <3>2. cw'.pc[1] = "idle" /\ \A k, w : k # "idle" => ~At(cw', k, w)
      BY <2>4 DEF At, Idle
    <3> QED BY <2>4, <3>1, <3>2 DEF Phase
  <2>6. ASSUME NEW w \in Windows PROVE Own(cw', w) /\ Dock(cw', w)
    <3>1. Own(cw, w) /\ Dock(cw, w)
      BY DEF Base
    <3>2. Final(cw, w).x = cw.x[w]
      BY <1>2, <2>1, FinalFacts
    <3>3. \A k : k # "idle" => ~At(cw, k, w)
      BY <1>2 DEF At, Idle
    <3>4. /\ ~cw.x[w].exists => ~cw.x[w].mapped /\ ~cw.wants[w] /\ cw.x[w].parent = "root"
          /\ cw.x[w].exists => ~cw.x[w].saved /\ cw.x[w].parent = "root"
          /\ ~cw.crashed /\ w \notin cw.refused /\ cw.x[w].exists => cw.x[w].border
          /\ w \in cw.kept /\ cw.x[w].exists /\ cw.wants[w] => cw.x[w].mapped \/ Has(cw, "MapRequest", w)
      BY <1>2, <3>1, <3>2, <3>3 DEF Own, Lifeless, Managed, Restored
    <3>5. Bare(cw', w)
      <4>1. ~cw.cwin[w].managed
        BY <1>2
      <4>2. /\ cw'.x[w].exists = cw.x[w].exists /\ cw'.x[w].mapped = cw.x[w].mapped
            /\ cw'.x[w].sel = FALSE /\ cw'.x[w].parent = cw.x[w].parent
            /\ cw'.x[w].saved = cw.x[w].saved /\ cw'.x[w].border = cw.x[w].border
        BY <2>2, <2>4
      <4>3. /\ cw'.wants[w] => cw.x[w].mapped \/ (cw.wants[w] /\ w \in cw.kept /\ ~Has(cw, "MapRequest", w))
            /\ cw.x[w].mapped => cw'.wants[w]
            /\ cw'.asked[w] = FALSE
        BY <2>3, <2>4
      <4> QED BY <2>4, <3>4, <4>1, <4>2, <4>3 DEF Bare
    <3>6. ~cw'.twice
      BY <2>1, <2>4
    <3> QED BY <2>1, <2>4, <3>1, <3>5, <3>6, BareOwn, DormantDock
  <2>7. Base(cw')
    BY <2>4, <2>5, <2>6 DEF Base
  <2> QED BY <2>4, <2>7, GoneCalm DEF Keeps
<1>3. \/ \E w \in Windows :
           /\ cw.wm = "exiting" /\ cw.pc = Idle /\ cw.cwin[w].managed
           /\ cw' = clientwin_deinit(cw, w)
      \/ /\ cw.wm = "exiting" /\ Ready("idle") /\ ~\E w \in Windows : cw.cwin[w].managed
         /\ cw' = [cw EXCEPT !.wm = "gone", !.ev = <<>>, !.kept = kept, !.x = xs, !.asked = as, !.wants = ws]
  BY DEF ioncore_deinit
<1>4. Ready("idle") => cw.pc = Idle /\ cw.out = <<>>
  BY Fields DEF Ready, Base, Pcs, Idle
<1> HIDE DEF kept, xs, as, ws
<1> QED BY <1>1, <1>2, <1>3, <1>4

-----------------------------------------------------------------------------
(* What the server does *)

\* All but windows, who waits, and events is the same
Rest(t, u) ==
  /\ u.out = t.out /\ u.pc = t.pc /\ u.wm = t.wm /\ u.cwin = t.cwin /\ u.place = t.place
  /\ u.prop = t.prop /\ u.icon = t.icon /\ u.tmpwins = t.tmpwins /\ u.kept = t.kept
  /\ u.refused = t.refused /\ u.twice = t.twice /\ u.crashed = t.crashed /\ u.wants = t.wants
  /\ u.moves = t.moves /\ u.ends = t.ends
\* y is made of a window, and events come
Put(t, w, y, ev) == [t EXCEPT !.x[w] = y.x, !.asked[w] = y.asked, !.ev = ev]
\* A request is carried out: that is one step of its window, and an unmapping
\* that is watched is seen
Done(t, u, r) ==
  /\ u \in States /\ Rest(t, u)
  /\ \A v \in Windows : Now(u, v) = Step(Now(t, v), v, r)
  /\ \/ u.ev = t.ev
     \/ /\ u.ev = Append(t.ev, <<"Unmap", r[2]>>)
        /\ t.x[r[2]].exists /\ t.x[r[2]].sel /\ r[1] \in {"unmap", "reparent"}

\* What is put in a state.
LEMMA PutFacts ==
  ASSUME NEW t \in States, NEW w \in Windows, NEW y \in Seen, NEW ev \in Seq(Events)
  PROVE  LET u == Put(t, w, y, ev)
         IN /\ u \in States /\ Rest(t, u) /\ u.ev = ev /\ Now(u, w) = y
            /\ \A v \in Windows : v # w => Now(u, v) = Now(t, v)
<1> DEFINE u == Put(t, w, y, ev)
<1>1. t.x \in [Windows -> XWindows] /\ t.asked \in [Windows -> BOOLEAN] /\ y.x \in XWindows /\ y.asked \in BOOLEAN
  BY Fields DEF Seen
<1> DEFINE xs == [t.x EXCEPT ![w] = y.x]
           as == [t.asked EXCEPT ![w] = y.asked]
<1>2. /\ xs \in [Windows -> XWindows] /\ as \in [Windows -> BOOLEAN] /\ xs[w] = y.x /\ as[w] = y.asked
      /\ \A v \in Windows : v # w => xs[v] = t.x[v] /\ as[v] = t.asked[v]
  BY <1>1
<1>3. u = [t EXCEPT !.x = xs, !.asked = as, !.ev = ev]
  BY DEF Put, States
<1> HIDE DEF xs, as, u
<1>4. u \in States /\ u.x = xs /\ u.asked = as /\ u.ev = ev /\ Rest(t, u)
  BY <1>2, <1>3 DEF States, Rest
<1>5. Now(u, w) = y
  BY <1>2, <1>4 DEF Now, Seen
<1> QED BY <1>2, <1>4, <1>5 DEF Now, u

\* To carry out a request is to put one step of its window in the state.
LEMMA ExecuteIs ==
  ASSUME NEW t \in States, NEW r \in Requests
  PROVE  LET w == r[2]
             y == Step(Now(t, w), w, r)
         IN /\ w \in Windows /\ y \in Seen
            /\ \/ ~t.x[w].exists /\ Execute(t, r) = t
               \/ t.x[w].exists /\ Execute(t, r) = Put(t, w, y, t.ev)
               \/ /\ t.x[w].exists /\ t.x[w].sel /\ r[1] \in {"unmap", "reparent"}
                  /\ Execute(t, r) = Put(t, w, y, Append(t.ev, <<"Unmap", w>>))
<1> DEFINE w == r[2]
           x == t.x[w]
           y == Step(Now(t, w), w, r)
<1>1. w \in Windows
  BY DEF Requests
<1>2. /\ t.x \in [Windows -> XWindows] /\ t.asked \in [Windows -> BOOLEAN] /\ x \in XWindows
      /\ t.asked[w] \in BOOLEAN
      /\ Now(t, w) \in Seen /\ Now(t, w).x = x /\ Now(t, w).asked = t.asked[w]
  BY <1>1, Fields DEF Now, Seen
<1>3. y \in Seen
  BY <1>1, <1>2, StepType
<1>4. CASE ~x.exists
  BY <1>1, <1>3, <1>4 DEF Execute
<1> DEFINE Made(z) == [x |-> z, asked |-> t.asked[w]]
           Placed(z) == [t EXCEPT !.x[w] = z]
           Told1(z) == [t EXCEPT !.asked[w] = FALSE, !.x[w] = z]
<1>5. ASSUME NEW z
      PROVE  /\ Put(t, w, Made(z), t.ev) = Placed(z)
             /\ Put(t, w, [x |-> z, asked |-> FALSE], t.ev) = Told1(z)
             /\ \A ev : Put(t, w, Made(z), ev) = [Placed(z) EXCEPT !.ev = ev]
  <2>1. [t.asked EXCEPT ![w] = t.asked[w]] = t.asked
    BY <1>2
  <2>2. \A ev : Put(t, w, Made(z), ev) = [Placed(z) EXCEPT !.ev = ev]
    BY <2>1 DEF Put, States
  <2>3. Put(t, w, Made(z), t.ev) = Placed(z)
    BY <2>1 DEF Put, States
  <2>4. Put(t, w, [x |-> z, asked |-> FALSE], t.ev) = Told1(z)
    BY DEF Put, States
  <2> QED BY <2>2, <2>3, <2>4
<1>6. CASE x.exists /\ r[1] \in {"select", "map", "saveset", "state", "border", "move"}
  <2>1. ASSUME r[1] = "select" PROVE Execute(t, r) = Put(t, w, y, t.ev)
    <3> DEFINE z == [x EXCEPT !.sel = r[3]]
    <3>1. y = Made(z)
      BY <1>1, <1>2, <1>6, <2>1 DEF Step
    <3>2. Execute(t, r) = [t EXCEPT !.x[w].sel = r[3]]
      BY <1>6, <2>1 DEF Execute
    <3>3. [t EXCEPT !.x[w].sel = r[3]] = Placed(z)
      OBVIOUS
    <3> QED BY <1>5, <3>1, <3>2, <3>3
  <2>2. ASSUME r[1] = "map" PROVE Execute(t, r) = Put(t, w, y, t.ev)
    <3> DEFINE z == [x EXCEPT !.mapped = TRUE]
    <3>1. y = Made(z)
      BY <1>1, <1>2, <1>6, <2>2 DEF Step
    <3>2. Execute(t, r) = [t EXCEPT !.x[w].mapped = TRUE]
      BY <1>6, <2>2 DEF Execute
    <3>3. [t EXCEPT !.x[w].mapped = TRUE] = Placed(z)
      OBVIOUS
    <3> QED BY <1>5, <3>1, <3>2, <3>3
  <2>3. ASSUME r[1] = "saveset" PROVE Execute(t, r) = Put(t, w, y, t.ev)
    <3> DEFINE z == [x EXCEPT !.saved = r[3]]
    <3>1. y = Made(z)
      BY <1>1, <1>2, <1>6, <2>3 DEF Step
    <3>2. Execute(t, r) = [t EXCEPT !.x[w].saved = r[3]]
      BY <1>6, <2>3 DEF Execute
    <3>3. [t EXCEPT !.x[w].saved = r[3]] = Placed(z)
      OBVIOUS
    <3> QED BY <1>5, <3>1, <3>2, <3>3
  <2>4. ASSUME r[1] = "state" PROVE Execute(t, r) = Put(t, w, y, t.ev)
    <3> DEFINE z == [x EXCEPT !.state = r[3]]
    <3>1. y = Made(z)
      BY <1>1, <1>2, <1>6, <2>4 DEF Step
    <3>2. Execute(t, r) = [t EXCEPT !.x[w].state = r[3]]
      BY <1>6, <2>4 DEF Execute
    <3>3. [t EXCEPT !.x[w].state = r[3]] = Placed(z)
      OBVIOUS
    <3> QED BY <1>5, <3>1, <3>2, <3>3
  <2>5. ASSUME r[1] = "border" PROVE Execute(t, r) = Put(t, w, y, t.ev)
    <3> DEFINE z == [x EXCEPT !.border = r[3]]
    <3>1. y = Made(z)
      BY <1>1, <1>2, <1>6, <2>5 DEF Step
    <3>2. Execute(t, r) = [t EXCEPT !.x[w].border = r[3]]
      BY <1>6, <2>5 DEF Execute
    <3>3. [t EXCEPT !.x[w].border = r[3]] = Placed(z)
      OBVIOUS
    <3> QED BY <1>5, <3>1, <3>2, <3>3
  <2>6. ASSUME r[1] = "move" PROVE Execute(t, r) = Put(t, w, y, t.ev)
    <3> DEFINE z == [x EXCEPT !.away = r[3]]
    <3>1. y = Made(z)
      BY <1>1, <1>2, <1>6, <2>6 DEF Step
    <3>2. Execute(t, r) = [t EXCEPT !.x[w].away = r[3]]
      BY <1>6, <2>6 DEF Execute
    <3>3. [t EXCEPT !.x[w].away = r[3]] = Placed(z)
      OBVIOUS
    <3> QED BY <1>5, <3>1, <3>2, <3>3
  <2> QED BY <1>1, <1>3, <1>6, <2>1, <2>2, <2>3, <2>4, <2>5, <2>6
<1>7. CASE x.exists /\ r[1] \notin {"select", "map", "unmap", "reparent", "saveset", "state", "border", "move", "resize"}
  <2>1. y = [x |-> x, asked |-> FALSE]
    BY <1>1, <1>2, <1>7 DEF Step
  <2>2. Execute(t, r) = [t EXCEPT !.asked[w] = FALSE]
    BY <1>7 DEF Execute, Told
  <2>3. [t EXCEPT !.asked[w] = FALSE] = Told1(x)
    <3>1. [t.x EXCEPT ![w] = x] = t.x
      BY <1>2
    <3> QED BY <3>1 DEF States
  <2>4. Execute(t, r) = Put(t, w, y, t.ev)
    BY <1>5, <2>1, <2>2, <2>3
  <2> QED BY <1>1, <1>3, <1>7, <2>4
<1>8. CASE x.exists /\ r[1] = "resize"
  <2>1. CASE x.geom = r[3]
    <3>1. y = Made(x)
      BY <1>1, <1>2, <1>8, <2>1 DEF Step, Seen
    <3>2. Execute(t, r) = t
      BY <1>8, <2>1 DEF Execute
    <3>3. t = Placed(x)
      <4>1. [t.x EXCEPT ![w] = x] = t.x
        BY <1>2
      <4> QED BY <4>1 DEF States
    <3> QED BY <1>1, <1>3, <1>5, <1>8, <3>1, <3>2, <3>3
  <2>2. CASE x.geom # r[3]
    <3> DEFINE z == [x EXCEPT !.geom = r[3]]
    <3>1. y = [x |-> z, asked |-> FALSE]
      BY <1>1, <1>2, <1>8, <2>2 DEF Step
    <3>2. Execute(t, r) = [Told(t, w) EXCEPT !.x[w].geom = r[3]]
      BY <1>8, <2>2 DEF Execute
    <3>3. [Told(t, w) EXCEPT !.x[w].geom = r[3]] = Told1(z)
      BY <1>2 DEF Told, States
    <3> QED BY <1>1, <1>3, <1>5, <1>8, <3>1, <3>2, <3>3
  <2> QED BY <2>1, <2>2
<1>9. CASE x.exists /\ r[1] \in {"unmap", "reparent"}
  <2> DEFINE un == IF x.mapped THEN Notice(t, w, "Unmap") ELSE t
             z == IF r[1] = "unmap" THEN [x EXCEPT !.mapped = FALSE] ELSE [x EXCEPT !.parent = r[3]]
             ev == Append(t.ev, <<"Unmap", w>>)
  <2>1. y = Made(z)
    BY <1>1, <1>2, <1>9 DEF Step
  <2>2. \/ un = t
        \/ x.sel /\ un = [t EXCEPT !.ev = ev]
    BY DEF Notice
  <2>3. Execute(t, r) = IF r[1] = "unmap" THEN [un EXCEPT !.x[w].mapped = FALSE]
                        ELSE [un EXCEPT !.x[w].parent = r[3]]
    BY <1>9 DEF Execute
  <2>4. /\ un = t => Execute(t, r) = Placed(z)
        /\ un = [t EXCEPT !.ev = ev] => Execute(t, r) = [Placed(z) EXCEPT !.ev = ev]
    <3> HIDE DEF ev, un
    <3>1. CASE r[1] = "unmap"
      <4>1. /\ [t EXCEPT !.x[w].mapped = FALSE] = Placed(z)
            /\ [[t EXCEPT !.ev = ev] EXCEPT !.x[w].mapped = FALSE] = [Placed(z) EXCEPT !.ev = ev]
        BY <1>2, <3>1 DEF States
      <4> QED BY <2>3, <3>1, <4>1
    <3>2. CASE r[1] = "reparent"
      <4>1. /\ [t EXCEPT !.x[w].parent = r[3]] = Placed(z)
            /\ [[t EXCEPT !.ev = ev] EXCEPT !.x[w].parent = r[3]] = [Placed(z) EXCEPT !.ev = ev]
        BY <1>2, <3>2 DEF States
      <4> QED BY <2>3, <3>2, <4>1
    <3> QED BY <1>9, <3>1, <3>2
  <2>5. /\ un = t => Execute(t, r) = Put(t, w, y, t.ev)
        /\ un = [t EXCEPT !.ev = ev] => Execute(t, r) = Put(t, w, y, ev)
    <3> HIDE DEF ev, un, z, y
    <3> QED BY <1>5, <2>1, <2>4
  <2> HIDE DEF un, z, y
  <2> QED BY <1>1, <1>3, <1>9, <2>2, <2>5 DEF y
<1> QED BY <1>4, <1>6, <1>7, <1>8, <1>9

\* So a request is done when it is carried out.
LEMMA ExecuteDone ==
  ASSUME NEW t \in States, NEW r \in Requests
  PROVE  Done(t, Execute(t, r), r)
<1> DEFINE w == r[2]
           y == Step(Now(t, w), w, r)
           u == Execute(t, r)
<1>1. /\ w \in Windows /\ y \in Seen
      /\ \/ ~t.x[w].exists /\ u = t
         \/ t.x[w].exists /\ u = Put(t, w, y, t.ev)
         \/ /\ t.x[w].exists /\ t.x[w].sel /\ r[1] \in {"unmap", "reparent"}
            /\ u = Put(t, w, y, Append(t.ev, <<"Unmap", w>>))
  BY ExecuteIs
<1>2. t.ev \in Seq(Events) /\ Append(t.ev, <<"Unmap", w>>) \in Seq(Events)
  BY <1>1, Fields DEF Events
<1>3. \A v \in Windows : v # w => Step(Now(t, v), v, r) = Now(t, v)
  BY DEF Step
<1> HIDE DEF u
<1>4. ASSUME ~t.x[w].exists, u = t PROVE Done(t, u, r)
  <2>1. y = Now(t, w)
    BY <1>1, <1>4 DEF Step, Now
  <2> HIDE DEF y
  <2>2. Rest(t, t)
    BY DEF Rest
  <2>3. \A v \in Windows : Now(u, v) = Step(Now(t, v), v, r)
    BY <1>3, <1>4, <2>1 DEF y
  <2> QED BY <1>4, <2>2, <2>3 DEF Done
<1>5. ASSUME u = Put(t, w, y, t.ev) PROVE Done(t, u, r)
  <2> HIDE DEF y
  <2>1. /\ u \in States /\ Rest(t, u) /\ u.ev = t.ev /\ Now(u, w) = y
        /\ \A v \in Windows : v # w => Now(u, v) = Now(t, v)
    BY <1>1, <1>2, <1>5, PutFacts
  <2>2. \A v \in Windows : Now(u, v) = Step(Now(t, v), v, r)
    BY <1>3, <2>1 DEF y
  <2> QED BY <2>1, <2>2 DEF Done
<1>6. ASSUME t.x[w].exists, t.x[w].sel, r[1] \in {"unmap", "reparent"},
             u = Put(t, w, y, Append(t.ev, <<"Unmap", w>>))
      PROVE  Done(t, u, r)
  <2> HIDE DEF y
  <2> DEFINE ev == Append(t.ev, <<"Unmap", w>>)
  <2>1. ev \in Seq(Events) /\ u = Put(t, w, y, ev)
    BY <1>2, <1>6
  <2> HIDE DEF ev
  <2>2. /\ u \in States /\ Rest(t, u) /\ u.ev = ev /\ Now(u, w) = y
        /\ \A v \in Windows : v # w => Now(u, v) = Now(t, v)
    BY <1>1, <2>1, PutFacts
  <2>3. \A v \in Windows : Now(u, v) = Step(Now(t, v), v, r)
    BY <1>3, <2>2 DEF y
  <2> QED BY <1>6, <2>2, <2>3 DEF Done, ev
<1> QED BY <1>1, <1>4, <1>5, <1>6 DEF u

\* The states that f goes through from t while N requests are carried out
Works(f, t, rs, N) ==
  f = [n \in 0 .. N |-> IF n = 0 THEN t ELSE Execute(f[n - 1], rs[n])]

\* Each of them is the one before with one more request carried out.
LEMMA WorksTurns ==
  ASSUME NEW f, NEW t, NEW rs, NEW N \in Nat, Works(f, t, rs, N)
  PROVE  f[0] = t /\ \A n \in 1 .. N : f[n] = Execute(f[n - 1], rs[n])
<1>1. \A n \in 0 .. N : f[n] = IF n = 0 THEN t ELSE Execute(f[n - 1], rs[n])
  BY DEF Works
<1>2. 0 \in 0 .. N /\ \A n \in 1 .. N : n \in 0 .. N /\ n # 0
  OBVIOUS
<1> QED BY <1>1, <1>2

\* There are such states for any number of requests.
LEMMA WorksExist ==
  ASSUME NEW t, NEW rs, NEW N \in Nat
  PROVE  \E f : Works(f, t, rs, N)
<1> DEFINE P == {n \in Nat : \E f : Works(f, t, rs, n)}
<1>1. 0 \in P
  <2>1. Works([n \in 0 .. 0 |-> t], t, rs, 0)
    BY DEF Works
  <2> QED BY <2>1
<1>2. ASSUME NEW n \in 1 .. N, n - 1 \in P PROVE n \in P
  <2>1. PICK f : Works(f, t, rs, n - 1)
    BY <1>2
  <2>2. n - 1 \in Nat /\ n \in Nat /\ n # 0
    OBVIOUS
  <2>3. f[0] = t /\ \A k \in 1 .. n - 1 : f[k] = Execute(f[k - 1], rs[k])
    BY <2>1, <2>2, WorksTurns
  <2> DEFINE new == Execute(f[n - 1], rs[n])
             g == [k \in 0 .. n |-> IF k = n THEN new ELSE f[k]]
  <2> HIDE DEF new
  <2>4. ASSUME NEW k \in 0 .. n
        PROVE  g[k] = IF k = 0 THEN t ELSE Execute(g[k - 1], rs[k])
    <3>1. CASE k = 0
      BY <2>2, <2>3, <3>1
    <3>2. CASE k = n
      <4>1. g[k] = new /\ g[k - 1] = f[n - 1] /\ k # 0
        BY <2>2, <3>2
      <4> QED BY <3>2, <4>1 DEF new
    <3>3. CASE k # 0 /\ k # n
      <4>1. k \in 1 .. n - 1 /\ g[k] = f[k] /\ g[k - 1] = f[k - 1]
        BY <2>2, <3>3
      <4> QED BY <2>3, <3>3, <4>1
    <3> QED BY <3>1, <3>2, <3>3
  <2>5. g = [k \in 0 .. n |-> g[k]]
    OBVIOUS
  <2> HIDE DEF g
  <2>6. Works(g, t, rs, n)
    BY <2>4, <2>5 DEF Works
  <2> QED BY <2>2, <2>6
<1>3. N \in P
  <2> HIDE DEF P
  <2>1. \A n \in 0 .. N : n \in P
    BY <1>1, <1>2, UpTo
  <2> QED BY <2>1
<1> QED BY <1>3

\* One more event of E.
LEMMA GrowsAppend ==
  ASSUME NEW t \in States, NEW u \in States, NEW s \in States, NEW E, Grows(t, u, E), NEW e \in E,
         s.ev = Append(u.ev, e)
  PROVE  Grows(t, s, E)
<1>1. /\ t.ev \in Seq(Events) /\ u.ev \in Seq(Events) /\ Len(t.ev) \in Nat /\ Len(u.ev) \in Nat
      /\ DOMAIN u.ev = 1 .. Len(u.ev)
  BY Fields
<1>2. /\ Len(s.ev) = Len(u.ev) + 1 /\ DOMAIN s.ev = 1 .. Len(u.ev) + 1
      /\ \A i \in 1 .. Len(u.ev) : s.ev[i] = u.ev[i]
      /\ s.ev[Len(u.ev) + 1] = e
  BY <1>1
<1> QED BY <1>1, <1>2 DEF Grows

\* The unmappings that may be seen
Seeable(t) == {<<"Unmap", v>> : v \in {v \in Windows : ~Single(t, v)}}
\* The first n requests are carried out
Worked(t, u, n) ==
  /\ u \in States /\ Rest(t, u) /\ Grows(t, u, Seeable(t))
  /\ \A v \in Windows : Now(u, v) = Trace(t, v)[n]

\* What the server has done with n of the requests.
LEMMA ExecutedFacts ==
  ASSUME cw \in States, \A v \in Windows : Unseen(cw, v), NEW N \in 0 .. Len(cw.out)
  PROVE  Worked(cw, Executed(N), N)
<1> DEFINE rs == cw.out
<1>1. N \in Nat /\ rs \in Seq(Requests) /\ Len(rs) \in Nat /\ cw.ev \in Seq(Events)
  BY Fields
<1>2. \E f : Works(f, cw, rs, N)
  BY <1>1, WorksExist
<1> DEFINE F == CHOOSE f : Works(f, cw, rs, N)
<1>3. Executed(N) = F[N]
  BY DEF Executed, Works
<1>4. PICK f : f = F
  OBVIOUS
<1>5. Works(f, cw, rs, N) /\ Executed(N) = f[N]
  BY <1>2, <1>3, <1>4
<1> HIDE DEF F
<1>6. f[0] = cw /\ \A n \in 1 .. N : f[n] = Execute(f[n - 1], rs[n])
  BY <1>1, <1>5, WorksTurns
<1> DEFINE P == {n \in 0 .. N : Worked(cw, f[n], n)}
<1>7. 0 \in P
  <2>1. Rest(cw, cw) /\ Grows(cw, cw, Seeable(cw))
    BY <1>1 DEF Rest, Grows
  <2>2. 0 \in 0 .. Len(cw.out)
    BY <1>1
  <2>3. \A v \in Windows : Now(cw, v) = Trace(cw, v)[0]
    BY <2>2, TraceFacts
  <2> QED BY <1>1, <1>6, <2>1, <2>3 DEF Worked
<1>8. ASSUME NEW n \in 1 .. N, n - 1 \in P PROVE n \in P
  <2> DEFINE t == f[n - 1]
             u == f[n]
             r == rs[n]
  <2>1. n \in 1 .. Len(rs) /\ r \in Requests /\ u = Execute(t, r) /\ n \in 0 .. N /\ n - 1 \in 0 .. Len(rs)
    BY <1>1, <1>6
  <2>2. /\ t \in States /\ Rest(cw, t) /\ Grows(cw, t, Seeable(cw))
        /\ \A v \in Windows : Now(t, v) = Trace(cw, v)[n - 1]
    BY <1>8 DEF Worked
  <2>3. r = cw.out[n]
    OBVIOUS
  <2> HIDE DEF t, u, r
  <2>4. Done(t, u, r)
    BY <2>1, <2>2, ExecuteDone
  <2>5. u \in States /\ Rest(cw, u)
    BY <2>2, <2>4 DEF Done, Rest
  <2>6. \A v \in Windows : Now(u, v) = Trace(cw, v)[n]
    <3> SUFFICES ASSUME NEW v \in Windows PROVE Now(u, v) = Trace(cw, v)[n]
      OBVIOUS
    <3>1. Trace(cw, v)[n] = Step(Trace(cw, v)[n - 1], v, cw.out[n])
      <4>1. 0 \in 0 .. Len(cw.out)
        BY <1>1
      <4> QED BY <2>1, <4>1, TraceFacts
    <3>2. Now(u, v) = Step(Now(t, v), v, r)
      BY <2>4 DEF Done
    <3> QED BY <2>2, <2>3, <3>1, <3>2
  <2>7. Grows(cw, u, Seeable(cw))
    <3>1. CASE u.ev = t.ev
      BY <2>2, <3>1 DEF Grows
    <3>2. CASE /\ u.ev = Append(t.ev, <<"Unmap", r[2]>>)
               /\ t.x[r[2]].exists /\ t.x[r[2]].sel /\ r[1] \in {"unmap", "reparent"}
      <4> DEFINE w == r[2]
      <4>1. w \in Windows
        BY <2>1 DEF Requests
      <4>2. Trace(cw, w)[n - 1].x = t.x[w]
        <5>1. Now(t, w) = Trace(cw, w)[n - 1]
          BY <2>2, <4>1
        <5>2. Now(t, w).x = t.x[w]
          BY DEF Now
        <5> QED BY <5>1, <5>2
      <4>3. cw.x[w].exists
        <5>1. n - 1 \in 0 .. Len(cw.out) /\ cw \in States
          BY <1>1, <2>1
        <5>2. Trace(cw, w)[n - 1].x.exists = cw.x[w].exists
          BY <4>1, <5>1, TraceFacts
        <5> QED BY <3>2, <4>2, <5>2
      <4>4. ~Single(cw, w)
        BY <2>1, <2>3, <3>2, <4>1, <4>2, <4>3 DEF Unseen
      <4>5. <<"Unmap", w>> \in Seeable(cw)
        BY <4>1, <4>4 DEF Seeable
      <4> QED BY <2>2, <2>5, <3>2, <4>5, GrowsAppend
    <3> QED BY <2>4, <3>1, <3>2 DEF Done
  <2> QED BY <2>1, <2>5, <2>6, <2>7 DEF Worked, u
<1>9. N \in P
  <2> HIDE DEF P
  <2>1. \A n \in 0 .. N : n \in P
    BY <1>1, <1>7, <1>8, UpTo
  <2> QED BY <1>1, <2>1
<1> QED BY <1>5, <1>9

\* What waits after the first n requests are carried out
Flushed(t, u, n) ==
  /\ u \in States /\ Grows(t, u, Seeable(t)) /\ u.out = SubSeq(t.out, n + 1, Len(t.out))
  /\ u.pc = t.pc /\ u.wm = t.wm /\ u.cwin = t.cwin /\ u.place = t.place
  /\ u.prop = t.prop /\ u.icon = t.icon /\ u.tmpwins = t.tmpwins /\ u.kept = t.kept
  /\ u.refused = t.refused /\ u.twice = t.twice /\ u.crashed = t.crashed /\ u.wants = t.wants
  /\ \A v \in Windows : Now(u, v) = Trace(t, v)[n]

\* What becomes of a window is the same.
LEMMA FlushedTrace ==
  ASSUME NEW t \in States, NEW u, NEW n \in 0 .. Len(t.out), Flushed(t, u, n), NEW w \in Windows
  PROVE  /\ Len(u.out) = Len(t.out) - n
         /\ \A k \in 1 .. Len(u.out) : n + k \in 1 .. Len(t.out) /\ u.out[k] = t.out[n + k]
         /\ \A k \in 0 .. Len(u.out) : n + k \in 0 .. Len(t.out) /\ Trace(u, w)[k] = Trace(t, w)[n + k]
         /\ Final(u, w) = Final(t, w)
         /\ Fine(t, w) => Fine(u, w)
         /\ \A K : Only(t, w, K) => Only(u, w, K)
         /\ u.x[w].exists = t.x[w].exists
         /\ ~t.x[w].exists => u.x[w] = t.x[w] /\ u.asked[w] = t.asked[w]
<1>1. t.out \in Seq(Requests) /\ Len(t.out) \in Nat /\ n \in Nat /\ n <= Len(t.out) /\ Now(t, w) \in Seen
  <2>1. t.out \in Seq(Requests)
    BY Fields
  <2> QED BY <2>1, TraceFacts
<1>2. u.out = SubSeq(t.out, n + 1, Len(t.out)) /\ Now(u, w) = Trace(t, w)[n]
  BY DEF Flushed
<1>3. /\ Len(u.out) = Len(t.out) - n
      /\ \A k \in 1 .. Len(u.out) : u.out[k] = t.out[n + k]
      /\ \A k \in 0 .. Len(u.out) : Run(Trace(t, w)[n], w, u.out)[k] = Trace(t, w)[n + k]
  <2> DEFINE y == Now(t, w)
             rs == t.out
             ts == SubSeq(rs, n + 1, Len(rs))
  <2>1. y \in Seen /\ rs \in Seq(Requests) /\ n \in 0 .. Len(rs)
    BY <1>1
  <2>2. u.out = ts /\ Trace(t, w) = Run(y, w, rs)
    BY <1>2 DEF Trace
  <2> HIDE DEF y, rs
  <2>3. /\ Len(ts) = Len(rs) - n
        /\ \A k \in 1 .. Len(ts) : ts[k] = rs[n + k]
        /\ \A k \in 0 .. Len(ts) : Run(Run(y, w, rs)[n], w, ts)[k] = Run(y, w, rs)[n + k]
    BY <2>1, RunTail
  <2> HIDE DEF ts
  <2> QED BY <2>2, <2>3 DEF rs
<1>4. /\ \A k \in 1 .. Len(u.out) : n + k \in 1 .. Len(t.out)
      /\ \A k \in 0 .. Len(u.out) : n + k \in 0 .. Len(t.out)
      /\ Len(u.out) \in Nat /\ n + Len(u.out) = Len(t.out)
  BY <1>1, <1>3
<1>5. \A k \in 0 .. Len(u.out) : Trace(u, w)[k] = Trace(t, w)[n + k]
  BY <1>2, <1>3 DEF Trace
<1>6. Final(u, w) = Final(t, w)
  BY <1>4, <1>5 DEF Final
<1>7. Fine(t, w) => Fine(u, w)
  BY <1>4, <1>5 DEF Fine
<1>8. \A K : Only(t, w, K) => Only(u, w, K)
  <2>1. DOMAIN t.out = 1 .. Len(t.out) /\ DOMAIN u.out = 1 .. Len(u.out)
    BY <1>1, Fields DEF Flushed
  <2> SUFFICES ASSUME NEW K, Only(t, w, K), NEW i \in DOMAIN u.out, u.out[i][2] = w
               PROVE  u.out[i][1] \in K
    BY DEF Only
  <2>2. n + i \in DOMAIN t.out /\ u.out[i] = t.out[n + i]
    BY <1>3, <1>4, <2>1
  <2> QED BY <2>2 DEF Only
<1>9. /\ u.x[w] = Trace(t, w)[n].x /\ u.asked[w] = Trace(t, w)[n].asked
      /\ Now(t, w).x = t.x[w] /\ Now(t, w).asked = t.asked[w]
  <2>1. Now(u, w).x = u.x[w] /\ Now(u, w).asked = u.asked[w]
    BY DEF Now
  <2> QED BY <1>2, <2>1 DEF Now
<1>10. /\ u.x[w].exists = t.x[w].exists
       /\ ~t.x[w].exists => u.x[w] = t.x[w] /\ u.asked[w] = t.asked[w]
  BY <1>9, TraceFacts
<1> QED BY <1>3, <1>4, <1>5, <1>6, <1>7, <1>8, <1>10

\* So all that is true of a window is true when less waits.
LEMMA FlushedOwn ==
  ASSUME NEW t \in States, NEW u, NEW n \in 0 .. Len(t.out), Flushed(t, u, n), NEW w \in Windows,
         t.wm # "gone", Own(t, w)
  PROVE  Own(u, w)
<1>1. /\ u \in States /\ Grows(t, u, Seeable(t))
      /\ u.pc = t.pc /\ u.wm = t.wm /\ u.cwin = t.cwin /\ u.icon = t.icon /\ u.tmpwins = t.tmpwins
      /\ u.kept = t.kept /\ u.refused = t.refused /\ u.twice = t.twice /\ u.crashed = t.crashed
      /\ u.wants = t.wants
  BY DEF Flushed
<1>2. /\ Final(u, w) = Final(t, w) /\ (Fine(t, w) => Fine(u, w))
      /\ \A K : Only(t, w, K) => Only(u, w, K)
      /\ u.x[w].exists = t.x[w].exists
      /\ ~t.x[w].exists => u.x[w] = t.x[w] /\ u.asked[w] = t.asked[w]
  BY FlushedTrace
<1>3. \A e, v : Has(t, e, v) => Has(u, e, v)
  BY <1>1, GrowsEvents
<1>4. ~Has(t, "Destroy", w) => ~Has(u, "Destroy", w)
  <2>1. <<"Destroy", w>> \notin Seeable(t)
    BY DEF Seeable
  <2> QED BY <1>1, <2>1, GrowsEvents
<1>5. \A k : At(u, k, w) = At(t, k, w)
  BY <1>1 DEF At
<1>6. Scanned(u, w) = Scanned(t, w) /\ Unscanned(u, w) = Unscanned(t, w) /\ Passing(u, w) = Passing(t, w)
      /\ Single(u, w) = Single(t, w)
  BY <1>1, <1>5 DEF Scanned, Unscanned, Passing, Single
<1>7. Lifeless(u, w)
  BY <1>1, <1>2, <1>4 DEF Own, Lifeless
<1>8. Unseen(u, w)
  <2> SUFFICES ASSUME Single(t, w), NEW k \in 1 .. Len(u.out), u.out[k][2] = w,
                      u.out[k][1] \in {"unmap", "reparent"}, u.x[w].exists
               PROVE  ~Trace(u, w)[k - 1].x.sel
    BY <1>6 DEF Unseen
  <2>1. /\ Len(u.out) \in Nat /\ k - 1 \in 0 .. Len(u.out) /\ n \in Nat
    BY <1>1, Fields
  <2>2. /\ n + k \in 1 .. Len(t.out) /\ u.out[k] = t.out[n + k]
        /\ Trace(u, w)[k - 1] = Trace(t, w)[n + (k - 1)]
    BY <2>1, FlushedTrace
  <2>3. n + (k - 1) = (n + k) - 1
    BY <2>1
  <2>4. Unseen(t, w)
    BY DEF Own
  <2> QED BY <1>2, <2>2, <2>3, <2>4 DEF Unseen
<1>9. Managed(u, w)
  BY <1>1, <1>2, <1>5, <1>6 DEF Own, Managed
<1>10. Answered(u, w) /\ Untouched(u, w)
  BY <1>2, <1>3, <1>6 DEF Own, Answered, Untouched
<1>11. Restored(u, w)
  BY <1>1, <1>2, <1>3, <1>5 DEF Own, Restored
<1> QED BY <1>7, <1>8, <1>9, <1>10, <1>11 DEF Own

\* And of dockapps and icons.
LEMMA FlushedDock ==
  ASSUME NEW t \in States, NEW u, NEW n \in 0 .. Len(t.out), Flushed(t, u, n), NEW w \in Windows,
         \A v \in Windows : Own(t, v), Dock(t, w)
  PROVE  Dock(u, w)
<1> DEFINE v == t.icon[w]
<1>1. /\ u \in States /\ Grows(t, u, Seeable(t))
      /\ u.pc = t.pc /\ u.cwin = t.cwin /\ u.icon = t.icon /\ u.tmpwins = t.tmpwins /\ u.wants = t.wants
  BY DEF Flushed
<1>2. /\ \A e, i : Has(t, e, i) => Has(u, e, i)
      /\ \A i : Asks(u, i) = Asks(t, i)
      /\ Once(t, w) => Once(u, w)
      /\ Order(t, w, v) => Order(u, w, v)
  <2>1. \A i : <<"MapRequest", i>> \notin Seeable(t)
    BY DEF Seeable
  <2>2. /\ \A e, i : Has(t, e, i) => Has(u, e, i)
        /\ \A i : Asks(u, i) => Asks(t, i)
        /\ Once(t, w) => Once(u, w)
        /\ Order(t, w, v) => Order(u, w, v)
    BY <1>1, <2>1, GrowsEvents DEF Asks
  <2>3. \A i : Asks(t, i) => Asks(u, i)
    BY <2>2 DEF Asks
  <2>4. \A i : Asks(u, i) \in BOOLEAN /\ Asks(t, i) \in BOOLEAN
    BY DEF Asks, Has
  <2> QED BY <2>2, <2>3, <2>4
<1>3. \A k, i : At(u, k, i) = At(t, k, i)
  BY <1>1 DEF At
<1>4. \A i : Scanned(u, i) = Scanned(t, i)
  BY <1>1, <1>3 DEF Scanned
<1>5. \A i \in Windows : /\ u.x[i].exists = t.x[i].exists
                         /\ \A K : Only(t, i, K) => Only(u, i, K)
  BY FlushedTrace
<1>6. \A i \in Windows : Only(t, i, {"select", "saveset"}) => u.x[i].mapped = t.x[i].mapped
  <2> SUFFICES ASSUME NEW i \in Windows, Only(t, i, {"select", "saveset"})
               PROVE  u.x[i].mapped = t.x[i].mapped
    OBVIOUS
  <2>1. Trace(t, i)[n].x.mapped = t.x[i].mapped
    BY OnlyKeeps
  <2>2. Now(u, i) = Trace(t, i)[n] /\ Now(u, i).x = u.x[i]
    BY DEF Flushed, Now
  <2> QED BY <2>1, <2>2
<1>7. SUFFICES ASSUME v # NoWindow, t.x[v].exists PROVE Docked(u, w, v)
  <2>1. v # NoWindow => v \in Windows
    BY Fields
  <2> QED BY <1>1, <1>2, <1>3, <1>5, <2>1 DEF Dock
<1>8. v \in Windows /\ Docked(t, w, v)
  BY <1>7, Fields DEF Dock
<1>9. At(t, "create", v) => u.x[v].mapped = t.x[v].mapped
  <2>1. Only(t, v, {"select"}) => Only(t, v, {"select", "saveset"})
    BY DEF Only
  <2> QED BY <1>6, <1>8, <2>1 DEF Own, Managed
<1>10. Scanned(t, w) => /\ u.x[v].mapped = t.x[v].mapped
                        /\ ~t.cwin[w].managed => u.x[w].mapped = t.x[w].mapped
  <2>1. Scanned(t, w) => u.x[v].mapped = t.x[v].mapped
    BY <1>6, <1>8 DEF Docked
  <2>2. Scanned(t, w) /\ ~t.cwin[w].managed => u.x[w].mapped = t.x[w].mapped
    BY <1>6 DEF Own, Untouched, Unscanned
  <2> QED BY <2>1, <2>2
<1> HIDE DEF v
<1> QED BY <1>1, <1>2, <1>3, <1>4, <1>5, <1>8, <1>9, <1>10 DEF Docked

\* What is sent is carried out.
LEMMA FlushFlushed ==
  ASSUME Base(cw), XFlush
  PROVE  cw.wm # "gone" /\ \E n \in 1 .. Len(cw.out) :
                             /\ Flushed(cw, cw', n)
                             /\ "masked" \notin ClientCalls => n = Len(cw.out)
<1>1. /\ cw \in States /\ cw.out # <<>> /\ cw.out \in Seq(Requests) /\ Len(cw.out) \in Nat \ {0}
      /\ \A w \in Windows : Own(cw, w) /\ Unseen(cw, w)
  BY Fields DEF Base, Own, XFlush
<1> DEFINE n == IF "masked" \in ClientCalls THEN 1 ELSE Len(cw.out)
<1>2. /\ cw' = [Executed(n) EXCEPT !.out = SubSeq(@, n + 1, Len(@))]
      /\ n \in 1 .. Len(cw.out)
      /\ "masked" \notin ClientCalls => n = Len(cw.out)
  BY <1>1 DEF XFlush
<1> HIDE DEF n
<1> DEFINE u == Executed(n)
<1>3. n \in 0 .. Len(cw.out)
  BY <1>2
<1>4. Worked(cw, u, n)
  BY <1>1, <1>3, ExecutedFacts
<1>5. u \in States /\ u.out = cw.out
  BY <1>4 DEF Worked, Rest
<1> DEFINE rest == SubSeq(cw.out, n + 1, Len(cw.out))
<1>6. rest \in Seq(Requests)
  <2>1. \A k \in (n + 1) .. Len(cw.out) : k \in 1 .. Len(cw.out) /\ cw.out[k] \in Requests
    BY <1>1, <1>3
  <2> QED BY <1>1, <1>3, <2>1
<1>7. cw' = [u EXCEPT !.out = rest]
  BY <1>2, <1>5
<1> HIDE DEF rest, u
<1>8. /\ cw' \in States /\ cw'.out = rest /\ cw'.ev = u.ev /\ cw'.x = u.x /\ cw'.asked = u.asked
      /\ Rest([u EXCEPT !.out = cw.out], [cw' EXCEPT !.out = cw.out])
  BY <1>5, <1>6, <1>7 DEF States, Rest
<1>9. Grows(cw, cw', Seeable(cw)) /\ \A v \in Windows : Now(cw', v) = Trace(cw, v)[n]
  BY <1>4, <1>8 DEF Worked, Grows, Now
<1>10. /\ cw'.pc = u.pc /\ cw'.wm = u.wm /\ cw'.cwin = u.cwin /\ cw'.place = u.place
       /\ cw'.prop = u.prop /\ cw'.icon = u.icon /\ cw'.tmpwins = u.tmpwins /\ cw'.kept = u.kept
       /\ cw'.refused = u.refused /\ cw'.twice = u.twice /\ cw'.crashed = u.crashed /\ cw'.wants = u.wants
  BY <1>5, <1>7 DEF States
<1>11. Flushed(cw, cw', n)
  BY <1>4, <1>8, <1>9, <1>10 DEF Flushed, Worked, Rest, rest
<1>12. cw.wm # "gone"
  BY <1>1 DEF Base, Phase
<1> QED BY <1>2, <1>11, <1>12

\* When all of it is, what a window shows is what ioncore has.
LEMMA FlushedCalm ==
  ASSUME NEW t, NEW u, Base(t), Calm(t), t.wm # "gone", Flushed(t, u, Len(t.out))
  PROVE  Calm(u)
<1> SUFFICES ASSUME NEW w \in Windows PROVE CalmOf(u, w)
  BY DEF Calm
<1>1. t \in States /\ Len(t.out) \in 0 .. Len(t.out) /\ Own(t, w) /\ CalmOf(t, w)
  BY Fields DEF Base, Calm
<1>2. /\ u \in States /\ Grows(t, u, Seeable(t))
      /\ u.pc = t.pc /\ u.wm = t.wm /\ u.cwin = t.cwin /\ u.place = t.place /\ u.prop = t.prop
      /\ u.icon = t.icon /\ u.tmpwins = t.tmpwins /\ u.refused = t.refused /\ u.wants = t.wants
  BY DEF Flushed
<1>3. Final(u, w) = Final(t, w) /\ u.x[w].exists = t.x[w].exists
  BY <1>1, FlushedTrace
<1>4. u.x[w] = Final(t, w).x
  <2>1. Now(u, w) = Final(t, w)
    BY DEF Flushed, Final
  <2> QED BY <2>1 DEF Now
<1>5. \A e, v : Has(t, e, v) => Has(u, e, v)
  BY <1>1, <1>2, GrowsEvents
<1>6. /\ \A k : At(u, k, w) = At(t, k, w)
      /\ Passing(u, w) = Passing(t, w) /\ Unscanned(u, w) = Unscanned(t, w) /\ Single(u, w) = Single(t, w)
  <2>1. \A k : At(u, k, w) = At(t, k, w)
    BY <1>2 DEF At
  <2> QED BY <1>2, <2>1 DEF Passing, Unscanned, Scanned, Single
<1>7. Shown(u, w)
  BY <1>1, <1>2, <1>3, <1>5, <1>6 DEF CalmOf, Shown
<1>8. Noticed(u, w)
  <2> SUFFICES ASSUME t.cwin[w].managed, ~Passing(t, w)
               PROVE  IF u.x[w].exists THEN u.x[w].sel ELSE Has(u, "Destroy", w)
    BY <1>2, <1>6 DEF Noticed
  <2>1. CASE u.x[w].exists
    BY <1>1, <1>4, <2>1 DEF Own, Managed, Passing
  <2>2. CASE ~u.x[w].exists
    BY <1>1, <1>3, <1>5, <2>2 DEF CalmOf, Noticed
  <2> QED BY <2>1, <2>2
<1>9. Heard(u, w)
  <2> SUFFICES ASSUME Single(t, w) PROVE Heard(u, w)
    BY <1>6 DEF Heard
  <2>1. \A e : <<e, w>> \notin Seeable(t)
    BY DEF Seeable
  <2>2. /\ \A e : LastWord(t, w, e) => LastWord(u, w, e)
        /\ Silent(t, w) => Silent(u, w)
    BY <1>1, <1>2, <2>1, GrowsEvents DEF Silent
  <2>3. Unscanned(t, w) => u.x[w].mapped = t.x[w].mapped
    <3> SUFFICES ASSUME Unscanned(t, w) PROVE u.x[w].mapped = t.x[w].mapped
      OBVIOUS
    <3>1. Only(t, w, {"select", "saveset"})
      BY <1>1 DEF Own, Untouched
    <3> QED BY <1>1, <1>4, <3>1, OnlyKeeps DEF Final
  <2>4. Taken(u, w) = Taken(t, w)
    BY <1>2, <1>6, <2>3 DEF Taken
  <2> QED BY <1>1, <1>2, <1>3, <1>6, <2>2, <2>4 DEF CalmOf, Heard
<1> QED BY <1>7, <1>8, <1>9 DEF CalmOf

\* That keeps the invariant.
LEMMA FlushBase == ASSUME Base(cw), XFlush PROVE Keeps(cw, cw')
<1>1. cw.wm # "gone" /\ cw \in States /\ Len(cw.out) \in Nat
  BY FlushFlushed, Fields DEF Base
<1>2. PICK n \in 1 .. Len(cw.out) :
        Flushed(cw, cw', n) /\ ("masked" \notin ClientCalls => n = Len(cw.out))
  BY FlushFlushed
<1>3. n \in 0 .. Len(cw.out)
  BY <1>1, <1>2
<1>4. \A w \in Windows : Own(cw', w)
  BY <1>1, <1>2, <1>3, FlushedOwn DEF Base
<1>5. \A w \in Windows : Dock(cw', w)
  BY <1>1, <1>2, <1>3, FlushedDock DEF Base
<1>6. Phase(cw')
  BY <1>1, <1>2 DEF Base, Phase, Flushed, At
<1>7. cw' \in States
  BY <1>2 DEF Flushed
<1>8. ClientCalls = {} /\ Calm(cw) => Calm(cw')
  BY <1>1, <1>2, FlushedCalm
<1> QED BY <1>4, <1>5, <1>6, <1>7, <1>8 DEF Keeps, Base

\* What the server makes of a window when ioncore is cut off
Rescued(x) ==
  [x EXCEPT !.parent = IF x.saved /\ x.parent # "root" THEN "root" ELSE @,
            !.mapped = @ \/ (x.saved /\ x.parent # "root"), !.sel = FALSE, !.saved = FALSE]

\* With its parent, whether it is mapped, and whether it is watched and saved
Altered(x, p, k, b) == [x EXCEPT !.parent = p, !.mapped = k, !.sel = b, !.saved = b]

\* It is on the root.
LEMMA RescuedFacts ==
  ASSUME NEW x \in XWindows, x.exists /\ x.parent = "frame" => x.saved,
         ~x.exists => x.parent = "root" /\ ~x.mapped
  PROVE  LET y == Rescued(x)
         IN /\ y \in XWindows /\ y.exists = x.exists /\ y.parent = "root" /\ ~y.saved /\ ~y.sel
            /\ ~y.exists => ~y.mapped
            /\ y.mapped <=> x.mapped \/ (x.saved /\ x.parent # "root")
<1> DEFINE p == IF x.saved /\ x.parent # "root" THEN "root" ELSE x.parent
           m == x.mapped \/ (x.saved /\ x.parent # "root")
<1>1. x.parent \in {"root", "frame"} /\ x.exists \in BOOLEAN /\ x.saved \in BOOLEAN
  BY DEF XWindows
<1>2. p \in {"root", "frame"} /\ m \in BOOLEAN /\ FALSE \in BOOLEAN
  BY <1>1
<1>3. /\ x.exists => p = "root"
      /\ ~x.exists => p = "root" /\ (m <=> FALSE)
  BY <1>1
<1>4. ASSUME NEW b \in BOOLEAN, NEW q \in {"root", "frame"}, NEW k \in BOOLEAN
      PROVE  LET y == Altered(x, q, k, b)
             IN /\ y \in XWindows /\ y.exists = x.exists /\ y.parent = q /\ y.mapped = k
                /\ y.sel = b /\ y.saved = b
  BY DEF XWindows, Altered
<1>5. PICK b \in BOOLEAN, k \in BOOLEAN : b = FALSE /\ k = m
  BY <1>2
<1>6. Rescued(x) = Altered(x, p, k, b)
  BY <1>5 DEF Rescued, Altered
<1>7. /\ Rescued(x) \in XWindows /\ Rescued(x).exists = x.exists /\ Rescued(x).parent = p
      /\ Rescued(x).mapped = k /\ Rescued(x).sel = b /\ Rescued(x).saved = b
  <2> HIDE DEF p, m
  <2> QED BY <1>2, <1>4, <1>6
<1>8. k <=> x.mapped \/ (x.saved /\ x.parent # "root")
  BY <1>5
<1> HIDE DEF p, m
<1> QED BY <1>1, <1>3, <1>5, <1>7, <1>8

\* The connection may break after any of the requests.
LEMMA CrashBase == ASSUME Base(cw), Crash PROVE Keeps(cw, cw')
<1>1. /\ cw \in States /\ cw.wm # "gone" /\ Len(cw.out) \in Nat /\ Phase(cw)
      /\ \A w \in Windows : Own(cw, w) /\ Unseen(cw, w)
  BY Fields DEF Base, Own, Crash
<1>2. PICK n \in 0 .. Len(cw.out) :
       LET t == Executed(n)
           back == {w \in Windows : t.x[w].saved /\ t.x[w].parent # "root"}
       IN cw' = [t EXCEPT
            !.wm = "gone", !.ev = <<>>, !.out = <<>>, !.pc = Idle, !.tmpwins = {},
            !.cwin = [w \in Windows |-> NotManaged],
            !.x = [w \in Windows |->
                     [t.x[w] EXCEPT !.parent = IF w \in back THEN "root" ELSE @, !.mapped = @ \/ w \in back,
                                    !.sel = FALSE, !.saved = FALSE]],
            !.asked = [w \in Windows |-> FALSE], !.ends = @ + 1, !.crashed = TRUE, !.kept = back,
            !.wants = [w \in Windows |-> t.x[w].mapped \/ w \in back]]
  BY DEF Crash
<1> DEFINE t == Executed(n)
           back == {w \in Windows : t.x[w].saved /\ t.x[w].parent # "root"}
           cs == [w \in Windows |-> NotManaged]
           xs == [w \in Windows |-> Rescued(t.x[w])]
           as == [w \in Windows |-> FALSE]
           ws == [w \in Windows |-> t.x[w].mapped \/ w \in back]
           no == <<>>
           more == t.ends + 1
<1>3. Worked(cw, t, n)
  BY <1>1, ExecutedFacts
<1>4. cw' = [t EXCEPT !.wm = "gone", !.ev = no, !.out = no, !.pc = Idle, !.tmpwins = {}, !.cwin = cs,
                      !.x = xs, !.asked = as, !.ends = more, !.crashed = TRUE, !.kept = back, !.wants = ws]
  <2>1. xs = [w \in Windows |->
                [t.x[w] EXCEPT !.parent = IF w \in back THEN "root" ELSE @, !.mapped = @ \/ w \in back,
                               !.sel = FALSE, !.saved = FALSE]]
    BY DEF Rescued
  <2> HIDE DEF xs
  <2> QED BY <1>2, <2>1
<1>5. t \in States /\ Rest(cw, t) /\ \A v \in Windows : t.x[v] = Trace(cw, v)[n].x
  <2>1. \A v \in Windows : Now(t, v) = Trace(cw, v)[n]
    BY <1>3 DEF Worked
  <2>2. \A v : Now(t, v).x = t.x[v]
    BY DEF Now
  <2>3. \A v \in Windows : t.x[v] = Trace(cw, v)[n].x
    <3> SUFFICES ASSUME NEW v \in Windows PROVE t.x[v] = Trace(cw, v)[n].x
      OBVIOUS
    <3> HIDE DEF t
    <3> QED BY <2>1, <2>2
  <2> QED BY <1>3, <2>3 DEF Worked
<1> HIDE DEF t
<1>6. ASSUME NEW w \in Windows
      PROVE  /\ t.x[w] \in XWindows
             /\ t.x[w].exists /\ t.x[w].parent = "frame" => t.x[w].saved
             /\ ~t.x[w].exists => t.x[w].parent = "root" /\ ~t.x[w].mapped
  <2>1. Fine(cw, w) /\ Lifeless(cw, w)
    BY <1>1 DEF Own, Managed
  <2>2. t.x[w] \in XWindows
    BY <1>5, Fields
  <2>3. t.x[w].exists = cw.x[w].exists /\ (~cw.x[w].exists => t.x[w] = cw.x[w])
    <3>1. t.x[w] = Trace(cw, w)[n].x /\ Now(cw, w).x = cw.x[w]
      BY <1>5 DEF Now
    <3> QED BY <1>1, <3>1, TraceFacts
  <2> QED BY <1>5, <2>1, <2>2, <2>3 DEF Fine, Lifeless
<1>7. ASSUME NEW w \in Windows
      PROVE  /\ xs[w] \in XWindows /\ xs[w].parent = "root" /\ ~xs[w].saved /\ ~xs[w].sel
             /\ ~xs[w].exists => ~xs[w].mapped
             /\ ws[w] <=> xs[w].mapped
             /\ ~as[w] /\ cs[w] = NotManaged
  <2>1. LET y == Rescued(t.x[w])
        IN /\ y \in XWindows /\ y.exists = t.x[w].exists /\ y.parent = "root" /\ ~y.saved /\ ~y.sel
           /\ ~y.exists => ~y.mapped
           /\ y.mapped <=> t.x[w].mapped \/ (t.x[w].saved /\ t.x[w].parent # "root")
    BY <1>6, RescuedFacts
  <2>2. xs[w] = Rescued(t.x[w])
    OBVIOUS
  <2>3. ws[w] <=> t.x[w].mapped \/ (t.x[w].saved /\ t.x[w].parent # "root")
    OBVIOUS
  <2> QED BY <2>1, <2>2, <2>3
<1>8. /\ NotManaged \in CWins /\ ~NotManaged.managed
  <2>1. NoGeom \in Geoms
    BY ClientAssumption DEF NoGeom
  <2> QED BY <2>1, NewTypes
<1>9. /\ cs \in [Windows -> CWins] /\ xs \in [Windows -> XWindows] /\ as \in [Windows -> BOOLEAN]
      /\ ws \in [Windows -> BOOLEAN] /\ back \in SUBSET Windows /\ no \in Seq(Events) /\ no \in Seq(Requests)
      /\ Idle \in Pcs /\ more \in Nat /\ no = <<>>
  <2>1. xs \in [Windows -> XWindows]
    BY <1>6, RescuedFacts
  <2>2. ws \in [Windows -> BOOLEAN]
    <3>1. \A w \in Windows : (t.x[w].mapped \/ w \in back) \in BOOLEAN
      OBVIOUS
    <3> QED BY <3>1
  <2>3. more \in Nat
    BY <1>5, Fields
  <2> QED BY <1>8, <2>1, <2>2, <2>3 DEF Pcs
<1> HIDE DEF cs, xs, as, ws, back, no, more
<1>10. /\ cw' \in States /\ cw'.wm = "gone" /\ cw'.ev = no /\ cw'.out = no /\ cw'.pc = Idle
       /\ cw'.tmpwins = {} /\ cw'.cwin = cs /\ cw'.x = xs /\ cw'.asked = as /\ cw'.crashed
       /\ cw'.wants = ws /\ cw'.icon = t.icon /\ cw'.twice = t.twice
  <2> DEFINE u(b) == [t EXCEPT !.wm = "gone", !.ev = no, !.out = no, !.pc = Idle, !.tmpwins = {}, !.cwin = cs,
                               !.x = xs, !.asked = as, !.ends = more, !.crashed = b, !.kept = back, !.wants = ws]
  <2>1. ASSUME NEW b \in BOOLEAN
        PROVE  /\ u(b) \in States /\ u(b).wm = "gone" /\ u(b).ev = no /\ u(b).out = no /\ u(b).pc = Idle
               /\ u(b).tmpwins = {} /\ u(b).cwin = cs /\ u(b).x = xs /\ u(b).asked = as /\ u(b).crashed = b
               /\ u(b).wants = ws /\ u(b).icon = t.icon /\ u(b).twice = t.twice
    BY <1>5, <1>9 DEF States
  <2>2. cw' = u(TRUE) /\ TRUE \in BOOLEAN
    BY <1>4
  <2> HIDE DEF u
  <2> QED BY <2>1, <2>2
<1>11. Phase(cw')
  <2>1. cw'.pc[1] = "idle" /\ \A k, w : k # "idle" => ~At(cw', k, w)
    BY <1>10 DEF At, Idle
  <2> QED BY <1>7, <1>9, <1>10, <2>1 DEF Phase
<1>12. ASSUME NEW w \in Windows PROVE Own(cw', w) /\ Dock(cw', w)
  <2>1. ~cw'.twice
    BY <1>1, <1>5, <1>10 DEF Own, Managed, Rest
  <2>2. Bare(cw', w)
    BY <1>7, <1>8, <1>10 DEF Bare
  <2>3. Dock(cw, w) /\ cw'.icon = cw.icon
    BY <1>5, <1>10 DEF Base, Rest
  <2> QED BY <1>1, <1>9, <1>10, <2>1, <2>2, <2>3, BareOwn, DormantDock
<1>13. Base(cw')
  BY <1>10, <1>11, <1>12 DEF Base
<1> QED BY <1>10, <1>13, GoneCalm DEF Keeps

-----------------------------------------------------------------------------
(* The invariant holds in the beginning, and from then on *)

\* A window, there or not, mapped or not
NewOne(b, m) == [New EXCEPT !.exists = b, !.mapped = m]

\* Before ioncore begins for the first time.
LEMMA InitBase == ASSUME ClientInit PROVE Base(cw) /\ Calm(cw)
<1>1. PICK there \in SUBSET Windows \ {{}}, p \in {"none", "lazy", "acrobatic"}, w, v \in Windows,
           mapped \in SUBSET Windows :
        /\ there \in {{w}, {w, v}} /\ (w # v => p = "none") /\ mapped \subseteq there
        /\ cw = [x |-> [u \in Windows |-> [New EXCEPT !.exists = u \in there, !.mapped = u \in mapped]],
                 out |-> <<>>, ev |-> <<>>, pc |-> Idle, wm |-> "gone",
                 cwin |-> [u \in Windows |-> NotManaged], place |-> [u \in Windows |-> NoGeom],
                 prop |-> [u \in Windows |-> IF u = w THEN p ELSE "none"],
                 icon |-> [u \in Windows |-> IF u = w /\ v # w THEN v ELSE NoWindow],
                 tmpwins |-> {}, kept |-> {}, refused |-> {}, twice |-> FALSE, crashed |-> FALSE,
                 wants |-> [u \in Windows |-> u \in mapped],
                 asked |-> [u \in Windows |-> FALSE], moves |-> 0, ends |-> 0]
  BY DEF ClientInit
<1>2. NoGeom \in Geoms
  BY ClientAssumption DEF NoGeom
<1>3. NotManaged \in CWins /\ ~NotManaged.managed
  BY <1>2, NewTypes
<1> DEFINE xs == [u \in Windows |-> [New EXCEPT !.exists = u \in there, !.mapped = u \in mapped]]
           cs == [u \in Windows |-> NotManaged]
           ps == [u \in Windows |-> IF u = w THEN p ELSE "none"]
           is == [u \in Windows |-> IF u = w /\ v # w THEN v ELSE NoWindow]
           ws == [u \in Windows |-> u \in mapped]
           gs == [u \in Windows |-> NoGeom]
           as == [u \in Windows |-> FALSE]
<1>4. ASSUME NEW u \in Windows
      PROVE  /\ xs[u] \in XWindows /\ (xs[u].exists <=> u \in there) /\ (xs[u].mapped <=> u \in mapped)
             /\ ~xs[u].sel /\ ~xs[u].saved /\ xs[u].parent = "root" /\ xs[u].border
  <2>1. ASSUME NEW b \in BOOLEAN, NEW m \in BOOLEAN
        PROVE  LET y == NewOne(b, m)
               IN /\ y \in XWindows /\ y.exists = b /\ y.mapped = m /\ ~y.sel /\ ~y.saved
                  /\ y.parent = "root" /\ y.border
    BY <1>2 DEF New, NewOne, XWindows
  <2> DEFINE b == u \in there
             m == u \in mapped
  <2>2. b \in BOOLEAN /\ m \in BOOLEAN /\ (b <=> u \in there) /\ (m <=> u \in mapped)
    OBVIOUS
  <2>3. xs[u] = NewOne(b, m)
    BY DEF NewOne
  <2> HIDE DEF xs, b, m
  <2>4. /\ xs[u] \in XWindows /\ xs[u].exists = b /\ xs[u].mapped = m /\ ~xs[u].sel /\ ~xs[u].saved
        /\ xs[u].parent = "root" /\ xs[u].border
    BY <2>1, <2>2, <2>3
  <2> QED BY <2>2, <2>4
<1>5. /\ xs \in [Windows -> XWindows] /\ cs \in [Windows -> CWins] /\ gs \in [Windows -> Geoms]
      /\ ps \in [Windows -> {"none", "lazy", "acrobatic"}]
      /\ is \in [Windows -> Windows \cup {NoWindow}]
      /\ as \in [Windows -> BOOLEAN] /\ Idle \in Pcs
      /\ \A u \in Windows : ~as[u] /\ ~cs[u].managed
  BY <1>2, <1>3, <1>4 DEF Pcs
<1>6. ws \in [Windows -> BOOLEAN] /\ \A u \in Windows : ws[u] <=> u \in mapped
  <2>1. \A u \in Windows : (u \in mapped) \in BOOLEAN
    OBVIOUS
  <2> QED BY <2>1
<1>7. \A u \in Windows : is[u] # NoWindow => u = w /\ is[u] = v /\ v # w
  BY <1>1
<1>8. \A u \in Windows : is[u] = v /\ v # w => u = w
  BY <1>1, ClientAssumption
<1>9. is[v] = NoWindow
  BY <1>1
<1> HIDE DEF xs, cs, ps, is, ws, gs, as
<1>10. cw = [x |-> xs, out |-> <<>>, ev |-> <<>>, pc |-> Idle, wm |-> "gone", cwin |-> cs, place |-> gs,
             prop |-> ps, icon |-> is, tmpwins |-> {}, kept |-> {}, refused |-> {}, twice |-> FALSE,
             crashed |-> FALSE, wants |-> ws, asked |-> as, moves |-> 0, ends |-> 0]
  BY <1>1 DEF xs, cs, ps, is, ws, gs, as
<1>11. cw \in States
  <2> DEFINE no == <<>>
  <2>1. no \in Seq(Requests) /\ no \in Seq(Events) /\ 0 \in Nat /\ {} \in SUBSET Windows
    OBVIOUS
  <2>2. PICK b \in BOOLEAN : b = FALSE
    OBVIOUS
  <2>3. cw = [x |-> xs, out |-> no, ev |-> no, pc |-> Idle, wm |-> "gone", cwin |-> cs, place |-> gs,
              prop |-> ps, icon |-> is, tmpwins |-> {}, kept |-> {}, refused |-> {}, twice |-> b,
              crashed |-> b, wants |-> ws, asked |-> as, moves |-> 0, ends |-> 0]
    BY <1>10, <2>2
  <2> HIDE DEF no
  <2> QED BY <1>5, <1>6, <2>1, <2>3 DEF States
<1>12. /\ cw.x = xs /\ cw.out = <<>> /\ cw.ev = <<>> /\ cw.pc = Idle /\ cw.wm = "gone" /\ cw.cwin = cs
       /\ cw.icon = is /\ cw.tmpwins = {} /\ ~cw.twice /\ cw.wants = ws /\ cw.asked = as
  BY <1>10
<1>13. Phase(cw)
  <2>1. cw.pc[1] = "idle" /\ \A k, u : k # "idle" => ~At(cw, k, u)
    BY <1>12 DEF At, Idle
  <2> QED BY <1>5, <1>12, <2>1 DEF Phase
<1>14. ASSUME NEW u \in Windows PROVE Own(cw, u) /\ Dock(cw, u)
  <2>1. Bare(cw, u)
    BY <1>1, <1>4, <1>5, <1>6, <1>12 DEF Bare
  <2>2. \A i \in Windows : Docked(cw, u, i) /\ ~Asks(cw, i) /\ ~At(cw, "maprq", i)
    BY <1>12, Dormant
  <2>3. Dock(cw, u)
    BY <1>7, <1>8, <1>9, <1>12, <2>2 DEF Dock
  <2> QED BY <1>11, <1>12, <2>1, <2>3, BareOwn
<1>15. Base(cw)
  BY <1>11, <1>13, <1>14 DEF Base
<1> QED BY <1>12, <1>15, GoneCalm

\* Whatever happens then keeps it, if no main window of a dockapp is mapped
\* twice.
LEMMA NextBase ==
  ASSUME "again" \notin ClientCalls, Base(cw), [ClientNext]_clients
  PROVE  Keeps(cw, cw')
<1>1. CASE UNCHANGED clients
  BY <1>1 DEF clients, Keeps
<1>2. CASE XFlush
  BY <1>2, FlushBase
<1>3. CASE reparent_root
  BY <1>3, ReparentBase
<1>4. CASE Attributes
  BY <1>4, AttributesBase
<1>5. CASE Create
  BY <1>5, CreateBase
<1>6. CASE clientwin_load
  BY <1>6, LoadBase
<1>7. CASE postmanage_check
  BY <1>7, CheckBase
<1>8. CASE rootwin_manage_initial_windows
  BY <1>8, ScanBase
<1>9. CASE ioncore_handle_event
  BY <1>9, EventBase
<1>10. CASE User
  BY <1>10, UserBase
<1>11. CASE Client
  BY <1>11, ClientBase
<1>12. CASE Start
  BY <1>12, StartBase
<1>13. CASE Started
  BY <1>13, StartedBase
<1>14. CASE Exit
  BY <1>14, ExitBase
<1>15. CASE ioncore_deinit
  BY <1>15, DeinitBase
<1>16. CASE Crash
  BY <1>16, CrashBase
<1> QED
  BY <1>1, <1>2, <1>3, <1>4, <1>5, <1>6, <1>7, <1>8, <1>9, <1>10, <1>11, <1>12, <1>13, <1>14, <1>15, <1>16
  DEF ClientNext

-----------------------------------------------------------------------------
(* What that says of every state there can be *)

\* What holds always: what is believed of windows is true of them, and, as long
\* as clients do nothing that the code does not stand, seen on them
ClientInv == Windows # {} /\ Base(cw) /\ (ClientCalls = {} => Calm(cw))

\* It holds in the beginning and is kept.
LEMMA ClientInductive ==
  ASSUME "again" \notin ClientCalls
  PROVE  /\ ClientInit => ClientInv
         /\ ClientInv /\ [ClientNext]_clients => ClientInv'
<1>1. ASSUME ClientInit PROVE ClientInv
  <2>1. Windows # {}
    BY <1>1 DEF ClientInit
  <2> QED BY <1>1, <2>1, InitBase DEF ClientInv
<1>2. ASSUME ClientInv, [ClientNext]_clients PROVE ClientInv'
  <2>1. Keeps(cw, cw')
    BY <1>2, NextBase DEF ClientInv
  <2> QED BY <1>2, <2>1 DEF ClientInv, Keeps
<1> QED BY <1>1, <1>2

\* So it holds always.
LEMMA ClientAlways ==
  ASSUME "again" \notin ClientCalls
  PROVE  ClientSpec => []ClientInv
<1>1. ClientInit => ClientInv
  BY ClientInductive
<1>2. ClientInv /\ [ClientNext]_clients => ClientInv'
  BY ClientInductive
<1> QED BY <1>1, <1>2, PTL DEF ClientSpec

\* When nothing is under way, windows are what is believed of them.
LEMMA QuietFacts ==
  ASSUME Base(cw), cw.out = <<>>, cw.ev = <<>>, cw.pc = Idle, NEW w \in Windows
  PROVE  /\ Final(cw, w).x = cw.x[w] /\ Final(cw, w).asked = cw.asked[w]
         /\ \A e : ~Has(cw, e, w) /\ ~LastWord(cw, w, e)
         /\ \A k : k # "idle" => ~At(cw, k, w)
<1>1. DOMAIN cw.ev = {} /\ cw \in States
  BY DEF Base
<1>2. \A e : ~Has(cw, e, w) /\ ~LastWord(cw, w, e)
  BY <1>1 DEF Has, LastWord, Range
<1>3. \A k : k # "idle" => ~At(cw, k, w)
  BY DEF At, Idle
<1> QED BY <1>1, <1>2, <1>3, FinalFacts

\* Every ConfigureRequest is answered, with an event of the server or one of
\* ioncore's (clientwin_handle_configure_request, clientwin_fitrep, and
\* handle_configure_request for those that are not managed), for any number of
\* windows, even when clients act while ioncore looks away.
THEOREM ConfiguresAnswered ==
  ASSUME "again" \notin ClientCalls
  PROVE  ClientSpec => []ConfigureAnswered
<1>1. ClientInv => ConfigureAnswered
  <2> SUFFICES ASSUME ClientInv, Quiet, NEW w \in Windows PROVE ~cw.asked[w]
    BY DEF ConfigureAnswered
  <2>1. Base(cw) /\ cw.out = <<>> /\ cw.ev = <<>> /\ cw.pc = Idle
    BY DEF ClientInv, Quiet
  <2>2. Final(cw, w).asked = cw.asked[w] /\ ~Has(cw, "ConfigureRequest", w)
    BY <2>1, QuietFacts
  <2> QED BY <2>1, <2>2 DEF Base, Own, Answered
<1> QED BY <1>1, ClientAlways, PTL

\* Whenever ioncore ends, in order (ioncore_deinit, clientwin_deinit) or with
\* the connection cut at any point, the windows it had are on the root again
\* and visible; a window in a frame is always in the save set.
THEOREM NoWindowEverLost ==
  ASSUME "again" \notin ClientCalls
  PROVE  ClientSpec => []NoWindowLost
<1>1. ClientInv => NoWindowLost
  <2> SUFFICES ASSUME ClientInv PROVE NoWindowLost
    OBVIOUS
  <2>1. Base(cw) /\ cw \in States
    BY DEF ClientInv, Base
  <2>2. ASSUME NEW w \in Windows, cw.x[w].exists, cw.x[w].parent = "frame" PROVE cw.x[w].saved
    <3>1. 0 \in 0 .. Len(cw.out) /\ Fine(cw, w)
      BY <2>1, Fields DEF Base, Own, Managed
    <3>2. Trace(cw, w)[0] = Now(cw, w)
      BY <2>1, <3>1, TraceFacts
    <3>3. Trace(cw, w)[0].x = cw.x[w]
      BY <3>2 DEF Now
    <3> QED BY <2>2, <3>1, <3>3 DEF Fine
  <2>3. ASSUME cw.wm = "gone", NEW w \in Windows, cw.x[w].exists, cw.wants[w]
        PROVE  /\ cw.x[w].mapped /\ cw.x[w].parent = "root"
               /\ cw.crashed \/ w \in cw.refused \/ cw.x[w].border
    <3>1. cw.out = <<>> /\ cw.ev = <<>> /\ cw.pc = Idle
      BY <2>1, <2>3 DEF Base, Phase
    <3>2. Final(cw, w).x = cw.x[w]
      BY <2>1, <3>1, QuietFacts
    <3>3. Managed(cw, w) /\ Restored(cw, w)
      BY <2>1 DEF Base, Own
    <3>4. ~cw.cwin[w].managed
      BY <2>3, <3>3 DEF Managed
    <3> QED BY <2>3, <3>2, <3>3, <3>4 DEF Managed, Restored
  <2>4. cw.kept \subseteq Windows
    BY <2>1, Fields
  <2> QED BY <2>2, <2>3, <2>4 DEF NoWindowLost
<1> QED BY <1>1, ClientAlways, PTL

\* Whatever overtakes whatever between the clients, the server and ioncore: when
\* ioncore has dealt with all events, just those windows are managed whose
\* clients want them shown, each once, and the server and the properties that
\* clients read agree with what ioncore keeps of each window (clientwin.c,
\* manage.c, eventh.c).
THEOREM ClientsAlwaysKnown ==
  ASSUME ClientCalls = {}
  PROVE  ClientSpec => []ClientsKnown
<1>1. ClientInv => ClientsKnown
  <2> SUFFICES ASSUME ClientInv PROVE ClientsKnown
    OBVIOUS
  <2>1. Base(cw) /\ Calm(cw) /\ Windows # {}
    BY DEF ClientInv
  <2>2. ~cw.twice
    BY <2>1 DEF Base, Own, Managed
  <2>3. ASSUME Quiet, NEW w \in Windows
        PROVE  /\ CalmOf(cw, w) /\ Own(cw, w) /\ cw.wm = "running" /\ cw.tmpwins = {}
               /\ Final(cw, w).x = cw.x[w]
               /\ \A e : ~Has(cw, e, w) /\ ~LastWord(cw, w, e)
               /\ \A k : k # "idle" => ~At(cw, k, w)
               /\ ~Passing(cw, w)
    <3>1. cw.out = <<>> /\ cw.ev = <<>> /\ cw.pc = Idle /\ cw.wm = "running"
      BY <2>3 DEF Quiet
    <3>2. CalmOf(cw, w) /\ Own(cw, w) /\ cw.tmpwins = {}
      BY <2>1, <3>1 DEF Base, Calm, Phase
    <3>3. /\ Final(cw, w).x = cw.x[w]
          /\ \A e : ~Has(cw, e, w) /\ ~LastWord(cw, w, e)
          /\ \A k : k # "idle" => ~At(cw, k, w)
      BY <2>1, <3>1, QuietFacts
    <3> QED BY <3>1, <3>2, <3>3 DEF Passing
  <2>4. ASSUME Quiet, NEW w \in Windows, cw.cwin[w].managed PROVE cw.x[w].exists /\ cw.x[w].sel
    BY <2>3, <2>4 DEF CalmOf, Noticed
  <2>5. ASSUME Quiet, NEW w \in Windows, Alone(w), w \notin cw.refused
        PROVE  cw.wants[w] <=> cw.cwin[w].managed
    <3>1. CASE ~cw.x[w].exists
      <4>1. ~cw.wants[w]
        BY <2>3, <2>5, <3>1 DEF Own, Lifeless
      <4> QED BY <2>4, <2>5, <3>1, <4>1
    <3>2. CASE cw.x[w].exists
      <4>1. Single(cw, w)
        BY <2>5 DEF Alone, Single
      <4>2. Taken(cw, w) <=> cw.cwin[w].managed
        BY <2>3, <2>5 DEF Taken, Unscanned, Scanned
      <4> QED BY <2>3, <2>5, <3>2, <4>1, <4>2 DEF CalmOf, Heard
    <3> QED BY <3>1, <3>2
  <2>6. RightOnesManaged
    BY <2>2, <2>4, <2>5 DEF RightOnesManaged
  <2>7. ASSUME Quiet, NEW w \in Windows, cw.cwin[w].managed
        PROVE  LET c == cw.cwin[w]
                   x == cw.x[w]
               IN /\ x.saved /\ x.sel /\ x.parent = "frame" /\ x.geom = c.geom
                  /\ c.mapped => x.geom = cw.place[w]
                  /\ IF cw.prop[w] = "acrobatic" THEN x.away <=> ~c.mapped
                     ELSE /\ x.mapped <=> c.mapped
                          /\ x.state = c.state /\ c.state = (IF c.mapped THEN "Normal" ELSE "Iconic")
    <3>1. cw.x[w].exists /\ cw.x[w].sel
      BY <2>4, <2>7
    <3>2. /\ cw.x[w].saved /\ cw.x[w].parent = "frame" /\ cw.x[w].geom = cw.cwin[w].geom
          /\ cw.cwin[w].state # "Withdrawn" => cw.x[w].state = cw.cwin[w].state
      BY <2>3, <2>7, <3>1 DEF Own, Managed
    <3>3. /\ cw.cwin[w].mapped => cw.cwin[w].geom = cw.place[w]
          /\ IF cw.prop[w] = "acrobatic" THEN cw.x[w].away = ~cw.cwin[w].mapped
             ELSE /\ cw.cwin[w].state = (IF cw.cwin[w].mapped THEN "Normal" ELSE "Iconic")
                  /\ cw.x[w].mapped = cw.cwin[w].mapped
      BY <2>3, <2>7, <3>1 DEF CalmOf, Shown
    <3> QED BY <3>1, <3>2, <3>3
  <2>8. ASSUME Quiet, NEW w \in Windows, ~cw.cwin[w].managed, cw.x[w].exists
        PROVE  ~cw.x[w].saved /\ ~cw.x[w].sel /\ cw.x[w].parent = "root"
    BY <2>3, <2>8 DEF Own, Managed
  <2>9. WindowsAgree
    BY <2>7, <2>8 DEF WindowsAgree
  <2> QED BY <2>6, <2>9 DEF ClientsKnown
<1>2. ClientSpec => []ClientInv
  BY ClientAlways
<1> QED BY <1>1, <1>2, PTL

=============================================================================
