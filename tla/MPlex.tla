------------------------------- MODULE MPlex -------------------------------
(***************************************************************************)
(* Multiplexers (ioncore/mplex.c, llist.c), as frames are: members of      *)
(* which those on the numbered list are shown one at a time, and           *)
(* placeholders (mplexpholder.c) that keep the place of a region that is   *)
(* in full screen mode or detached, until it returns (return.c,            *)
(* fullscreen.c, detach.c).                                                *)
(*                                                                         *)
(* A placeholder stands behind a member of the list (it is on the list     *)
(* lnode->phs), or before the first (misc_phs).  When its member leaves,   *)
(* it moves to the end of the previous one.  When the frame goes it moves  *)
(* to another frame, or, if the frame floats, stays on a list without a    *)
(* multiplexer and recreates the frame when the first region returns.      *)
(*                                                                         *)
(* All lists are those of DList; the heads misc_phs and lnode->phs are     *)
(* phs[m] and phs[r], and the list node of a region is the region itself.  *)
(* Levels, passive and pseudomodal members, geometry and the status        *)
(* display are left out.                                                   *)
(***************************************************************************)
EXTENDS Integers, Sequences, FiniteSets
LOCAL INSTANCE SequencesExt

CONSTANTS
  Frames,       \* the multiplexers
  Floating,     \* those in a group: they go when empty, and can be recreated
  Regions,      \* what they manage: client windows with their groups
  Phs,          \* placeholders
  NULL,
  Other,        \* managers that are not modelled: screens, groups
  AttachFlags,  \* sets of flags regions are attached with
  Indices,      \* what Lua code passes for an index
  Calls,        \* calls included although they break an invariant, see Guarded
  MaxOps        \* bound of the model: calls and events

ASSUME MPlexAssumption ==
  /\ Floating \subseteq Frames
  /\ {NULL, Other} \cap (Frames \cup Regions \cup Phs) = {}
  /\ AttachFlags \subseteq SUBSET {"SWITCHTO", "HIDDEN", "UNNUMBERED"}
  /\ Indices \subseteq Int /\ MaxOps \in Nat

VARIABLES
  s,    \* the state of the program, see TypeOK
  left  \* what is left of MaxOps
vars == <<s, left>>

Nodes == Regions \cup Phs
INSTANCE DList

LAST == -1
AFTER_CURRENT == -2
AFTER_CURRENT_ACT == -3

-----------------------------------------------------------------------------
(* The lists *)

List(t, first) == [next |-> t.next, prev |-> t.prev, first |-> first]
MxList(t, m) == List(t, t.mx[m])
PhList(t, o) == List(t, t.phs[o])
SetMx(t, m, d) == [t EXCEPT !.next = d.next, !.prev = d.prev, !.mx[m] = d.first]
SetPhs(t, o, d) == [t EXCEPT !.next = d.next, !.prev = d.prev, !.phs[o] = d.first]

Members(t, m) == {r \in Regions : t.mgr[r] = m}
Numbered(t, m) == Items(MxList(t, m))
PhsOf(t, o) == Items(PhList(t, o))

\* on whose list ph is: the member it is after, or the multiplexer
Owner(t, h) == IF t.after[h] # NULL THEN t.after[h] ELSE t.home[h]

mplexpholder_do_link(t, h, m, after, or_after) ==
  LET o == IF after # NULL THEN (IF t.after[after] # NULL THEN t.after[after] ELSE m)
           ELSE IF or_after # NULL THEN or_after ELSE m
      d == IF after # NULL THEN LinkAfter(PhList(t, o), after, h) ELSE LinkFirst(PhList(t, o), h)
  IN [SetPhs(t, o, d) EXCEPT !.after[h] = IF o = m THEN NULL ELSE o]

\* NULL when the loop does not end
get_head(t, h) ==
  LET N == Cardinality(Phs)
      Stops(x) == t.prev[x] = NULL \/ t.next[t.prev[x]] = NULL
      at[k \in 0..N] == IF k = 0 THEN h ELSE IF Stops(at[k-1]) THEN at[k-1] ELSE t.prev[at[k-1]]
  IN IF Stops(at[N]) THEN at[N] ELSE NULL

\* the branch of mplexpholder_do_unlink for a list without a multiplexer
SetPrev(t, h, head, p) ==
  IF head = NULL THEN [t EXCEPT !.aborted = TRUE]
  ELSE [t EXCEPT !.aborted = @ \/ t.prev[head] # h, !.prev[head] = p]
UnlinkOrphan(t, h) ==
  LET n == t.next[h]
      u == [t EXCEPT !.next[t.prev[h]] = n]
  IN IF n # NULL THEN [u EXCEPT !.prev[n] = t.prev[h]] ELSE SetPrev(u, h, get_head(u, h), t.prev[h])

\* The recreate_pholder of the first goes to the next, or is destroyed
PassRecreate(t, h) ==
  LET n == t.next[h]
  IN IF t.rec[h] THEN [t EXCEPT !.rec = [x \in Phs |-> IF x = n THEN TRUE ELSE x # h /\ @[x]]] ELSE t
UnlinkPh(t, h, m) ==
  LET o == IF t.after[h] # NULL THEN t.after[h] ELSE m
  IN CASE t.after[h] = NULL /\ t.prev[h] = NULL -> t
       [] o = NULL /\ t.prev[h] # NULL -> UnlinkOrphan(t, h)
       [] OTHER -> SetPhs(t, o, Unlink(PhList(t, o), h))
mplexpholder_do_unlink(t, h, m) ==
  [UnlinkPh(PassRecreate(t, h), h, m) EXCEPT !.after[h] = NULL, !.next[h] = NULL, !.prev[h] = NULL]

LinkUnlessOrphan(t, h, m, after, or_after) ==
  IF m = NULL THEN t ELSE mplexpholder_do_link(t, h, m, after, or_after)
mplexpholder_move(t, h, m, after, or_after) ==
  LinkUnlessOrphan([mplexpholder_do_unlink(t, h, t.home[h]) EXCEPT !.home[h] = m],
                   h, m, after, or_after)

\* Move the placeholders hs, in order, to m, the first behind after
MoveAll(t, hs, m, after, or_after) ==
  FoldLeft(LAMBDA u, i : mplexpholder_move(u, hs[i], m, IF i = 1 THEN after ELSE hs[i-1], or_after),
           t, [i \in DOMAIN hs |-> i])

\* Mutants: the placeholders of r go with it; they go to the head of the list
mplex_move_phs_before_not(t, m, r) == t
mplex_move_phs_before_head(t, m, r) ==
  LET p == PrevItem(MxList(t, m), r) IN MoveAll(t, PhsOf(t, r), m, NULL, p)

\* mplex_move_phs_before: to the end of what is before r, which is about to go
mplex_move_phs_before(t, m, r) ==
  LET p == PrevItem(MxList(t, m), r)
  IN MoveAll(t, PhsOf(t, r), m, LastItem(PhList(t, IF p = NULL THEN m ELSE p)), p)

mplex_flatten_phs(t, m) ==
  FoldLeft(LAMBDA u, r : MoveAll(u, PhsOf(u, r), m, LastItem(PhList(u, m)), NULL), t, Numbered(t, m))

mplex_migrate_phs(t, src, dst) ==
  LET l == LastItem(MxList(t, dst))
  IN MoveAll(t, PhsOf(t, src), dst, LastItem(PhList(t, IF l = NULL THEN dst ELSE l)), l)

\* the nodes llist_index_to_after may return: with AFTER_CURRENT_ACT it skips
\* those behind the current that have activity
IndexToAfter(t, m, index) ==
  LET is == Numbered(t, m)
      pos == {i \in DOMAIN is : is[i] = t.cur[m]}
  IN CASE index = AFTER_CURRENT_ACT ->
            IF pos = {} THEN {t.cur[m]} ELSE {is[i] : i \in {j \in DOMAIN is : \E p \in pos : p <= j}}
       [] index = AFTER_CURRENT -> {t.cur[m]}
       [] index < 0 /\ index \notin {AFTER_CURRENT, AFTER_CURRENT_ACT} -> {LastItem(MxList(t, m))}
       [] index > 0 /\ index <= Len(is) -> {is[index]}
       [] OTHER -> {NULL}

-----------------------------------------------------------------------------
(* Placeholders of regions *)

\* memory for a new placeholder: which one it is makes no difference
NewPh(t) == IF \A h \in Phs : t.live[h] THEN {} ELSE {CHOOSE h \in Phs : ~t.live[h]}

Destroy(t, h) ==
  [mplexpholder_do_unlink(t, h, t.home[h]) EXCEPT
     !.live[h] = FALSE, !.home[h] = NULL, !.param[h] = {}]

\* create_mplexpholder for a member: behind the last after it
PhFor(t, h, r) ==
  LET m == t.mgr[r]
      u == [t EXCEPT !.live[h] = TRUE, !.home[h] = m,
                     !.param[h] = (IF t.hidden[r] THEN {"HIDDEN"} ELSE {})
                                  \cup (IF t.numbered[r] THEN {} ELSE {"UNNUMBERED"})]
  IN IF t.numbered[r] THEN mplexpholder_do_link(u, h, m, LastItem(PhList(t, r)), r)
     ELSE mplexpholder_do_link(u, h, m, NULL, NULL)

\* the same with parameters; a = the node the index leads to, last = it was LAST
PhAt(t, h, m, flags, last, a) ==
  LET u == [t EXCEPT !.live[h] = TRUE, !.home[h] = m, !.param[h] = flags]
  IN IF "UNNUMBERED" \in flags THEN mplexpholder_do_link(u, h, m, NULL, NULL)
     ELSE mplexpholder_do_link(u, h, m,
            IF last THEN LastItem(PhList(t, IF a = NULL THEN m ELSE a)) ELSE NULL, a)

\* region_unset_return
UnsetReturn(t, r) ==
  IF t.ret[r] = NULL THEN t
  ELSE [t EXCEPT !.ret[r] = NULL, !.deferred = Append(@, t.ret[r])]

-----------------------------------------------------------------------------
(* Members *)

MayMap(t, m) == t.mapped[m] /\ ~t.unview[m]

\* Mutants: the member displayed so far is not hidden; a frame that is too small
\* for its members is forgotten
Display_both(t, m, r) ==
  LET u == [t EXCEPT !.hidden[r] = FALSE, !.rmapped[r] = MayMap(t, m)]
  IN IF ~t.hidden[r] THEN t ELSE IF t.numbered[r] THEN [u EXCEPT !.cur[m] = r] ELSE u
Display_small(t, m, r) ==
  LET c == t.cur[m]
      u == [t EXCEPT !.hidden[r] = FALSE, !.rmapped[r] = t.mapped[m]]
      v == IF c = NULL THEN u
           ELSE [u EXCEPT !.hidden[c] = TRUE, !.rmapped[c] = @ /\ ~t.mapped[m]]
  IN IF ~t.hidden[r] THEN t
     ELSE IF t.numbered[r] THEN [v EXCEPT !.cur[m] = r] ELSE u

\* mplex_do_node_display
Display(t, m, r) ==
  LET c == t.cur[m]
      u == [t EXCEPT !.hidden[r] = FALSE, !.rmapped[r] = MayMap(t, m)]
      v == IF c = NULL THEN u
           ELSE [u EXCEPT !.hidden[c] = TRUE, !.rmapped[c] = @ /\ ~t.mapped[m]]
  IN IF ~t.hidden[r] THEN t
     ELSE IF t.numbered[r] THEN [v EXCEPT !.cur[m] = r] ELSE u

DisplayNext(t, m, r) == IF r = NULL THEN t ELSE Display(t, m, r)

\* r leaves the list; r is linked after a, or first
LeaveList(t, m, r) == [SetMx(t, m, Unlink(MxList(t, m), r)) EXCEPT !.count[m] = @ - 1]
JoinList(t, m, r, a) ==
  [SetMx(t, m, IF a = NULL THEN LinkFirst(MxList(t, m), r) ELSE LinkAfter(MxList(t, m), a, r))
     EXCEPT !.count[m] = @ + 1]

\* mplex_managed_remove and region_unset_manager.  The next to be displayed is
\* the one before r, or the one behind
mplex_managed_remove(t, m, r) ==
  LET p == PrevItem(MxList(t, m), r)
      next == IF t.numbered[r] /\ t.cur[m] = r THEN (IF p # NULL THEN p ELSE t.next[r]) ELSE NULL
      v == [t EXCEPT !.cur[m] = IF @ = r THEN NULL ELSE @]
      u == IF t.numbered[r] THEN LeaveList(mplex_move_phs_before(v, m, r), m, r) ELSE t
  IN DisplayNext(
       [UnsetReturn(u, r) EXCEPT !.mgr[r] = Other, !.numbered[r] = FALSE,
                                 !.hidden[r] = FALSE, !.rmapped[r] = FALSE],
       m, next)

\* region_detach_manager
Detach(t, r) ==
  IF t.mgr[r] \in Frames THEN mplex_managed_remove(t, t.mgr[r], r) ELSE UnsetReturn(t, r)

\* Mutant: those behind the placeholder stay where they are
FollowPh_alone(t, m, r, h) == MoveAll(t, <<h>>, m, NULL, r)

\* The placeholder ph and those behind it move behind the new member
FollowPh(t, m, r, h) ==
  LET hs == Items(PhList(t, Owner(t, h)))
      k == CHOOSE i \in DOMAIN hs : hs[i] = h
  IN MoveAll(t, SubSeq(hs, k, Len(hs)), m, NULL, r)

\* mplex_do_attach_final: attach r at the placeholder h.  other = a member that
\* is not on the list has the focus
AttachFinal(t, m, r, h, other) ==
  LET flags == t.param[h]
      num == "UNNUMBERED" \notin flags
      hide == "HIDDEN" \in flags /\ (~num \/ t.mx[m] # NULL)
      sw == ~hide /\ ("SWITCHTO" \in flags \/ (num /\ t.cur[m] = NULL /\ ~other))
      u == [t EXCEPT !.mgr[r] = m, !.numbered[r] = num, !.hidden[r] = TRUE, !.rmapped[r] = FALSE]
      v == IF num THEN FollowPh(JoinList(u, m, r, t.after[h]), m, r, h) ELSE u
  IN DisplayNext(v, m, IF hide \/ (~sw /\ num) THEN NULL ELSE r)

\* A member that is not on the list, and is shown, may have the focus
MayHaveFocus(t, m) == \E r \in Members(t, m) : ~t.numbered[r] /\ ~t.hidden[r]
Focus(t, m) == IF MayHaveFocus(t, m) THEN BOOLEAN ELSE {FALSE}

-----------------------------------------------------------------------------
(* Frames that go *)

\* mplex_migrate_phs_to_fph: the list stays, without a multiplexer
Orphan(t, m) ==
  LET hs == Range(PhsOf(t, m))
  IN [t EXCEPT !.rec[t.phs[m]] = TRUE, !.phs[m] = NULL,
               !.home = [h \in Phs |-> IF h \in hs THEN NULL ELSE @[h]]]

\* The end of frame_rescue_clientwins, of a test too (other is NULL then);
\* other = the frame regions are rescued to
MoveOut(t, m, other) ==
  IF t.phs[m] = NULL THEN t
  ELSE IF m \in Floating THEN Orphan(t, m)
  ELSE IF other # NULL THEN mplex_migrate_phs(t, m, other)
  ELSE t
RescuePhs(t, m, other) == MoveOut(mplex_flatten_phs(t, m), m, other)

\* mplex_deinit of a frame without members
Deinit(t, m) == [MoveAll(t, PhsOf(t, m), NULL, NULL, NULL) EXCEPT !.alive[m] = FALSE,
                   !.mapped[m] = FALSE, !.unview[m] = FALSE]

\* region_dispose of a frame without members
Dispose(t, m, other) == Deinit(RescuePhs(t, m, other), m)

\* region_attach_helper: attach r, new or managed elsewhere, at h.  A floating
\* frame that it leaves empty is disposed of (region_postdetach_dispose)
Postdetach(t, o, empty) == IF o \in Floating /\ empty THEN Dispose(t, o, NULL) ELSE t
Attach(t, m, r, h, other) ==
  LET o == t.mgr[r]
  IN Postdetach(AttachFinal(IF o = NULL THEN t ELSE Detach(t, r), m, r, h, other),
                o, o # m /\ Members(t, o) = {r})

\* mplex_do_attach: with a placeholder that lasts as long as the call
DoAttach(t, m, r, flags, last, a, h, other) ==
  Destroy(Attach(PhAt(t, h, m, flags, last, a), m, r, h, other), h)

\* mplex_rescue_attach, to the end of the frame other
RescueAttach(t, other, r, sw, h) ==
  LET flags == (IF t.hidden[r] THEN {"HIDDEN"} ELSE {})
               \cup (IF t.numbered[r] THEN {} ELSE {"UNNUMBERED"})
               \cup (IF sw THEN {"SWITCHTO"} ELSE {})
  IN DoAttach(t, other, r, flags, TRUE, LastItem(MxList(t, other)), h, FALSE)

\* mplex_rescue_clientwins with REGION_RESCUE_NODEEP and PHFLAGS_OK: the list
\* first, then the rest
Rescue(t, m, other, h) ==
  LET rs == Numbered(t, m) \o SetToSeq({r \in Members(t, m) : ~t.numbered[r]})
  IN FoldLeft(LAMBDA u, r : RescueAttach(u, other, r, t.cur[m] = r, h), t, rs)

\* mplex_map_mgd and mplex_unmap_mgd
MapManaged(t, m, mapped) ==
  [t EXCEPT !.rmapped = [r \in Regions |-> IF t.mgr[r] = m /\ ~t.hidden[r] THEN mapped ELSE @[r]]]

\* mplexpholder_attach_recreate: a new frame n gets all of the list h is on
Recreate(t, n, r, h, mapped) ==
  LET head == get_head(t, h)
      hs == {x \in Phs : t.home[x] = NULL /\ t.prev[x] # NULL /\ get_head(t, x) = head}
      u == [t EXCEPT !.alive[n] = TRUE, !.phs[n] = head,
                     !.home = [x \in Phs |-> IF x \in hs THEN n ELSE @[x]]]
  IN MapManaged([Attach(u, n, r, h, FALSE) EXCEPT !.rec[head] = FALSE, !.mapped[n] = mapped],
                n, mapped)

-----------------------------------------------------------------------------
(* Actions *)

\* The frames alive are empty and mapped
Start(alive) ==
  [next |-> [x \in Nodes |-> NULL], prev |-> [x \in Nodes |-> NULL],
   mx |-> [m \in Frames |-> NULL], cur |-> [m \in Frames |-> NULL],
   count |-> [m \in Frames |-> 0], phs |-> [o \in Frames \cup Regions |-> NULL],
   alive |-> [m \in Frames |-> m \in alive], mapped |-> [m \in Frames |-> m \in alive],
   unview |-> [m \in Frames |-> FALSE],
   mgr |-> [r \in Regions |-> NULL], numbered |-> [r \in Regions |-> FALSE],
   hidden |-> [r \in Regions |-> FALSE], rmapped |-> [r \in Regions |-> FALSE],
   live |-> [h \in Phs |-> FALSE], home |-> [h \in Phs |-> NULL],
   after |-> [h \in Phs |-> NULL], rec |-> [h \in Phs |-> FALSE],
   param |-> [h \in Phs |-> {}], ret |-> [r \in Regions |-> NULL],
   deferred |-> <<>>, aborted |-> FALSE]

Init == (\E alive \in SUBSET Frames : s = Start(alive)) /\ left = MaxOps

\* Calls that break an invariant happen only if they are among Calls
Guarded(call, cond) == cond => call \in Calls

Op(t) == left > 0 /\ ~s.aborted /\ s' = t /\ left' = left - 1

Alive == {m \in Frames : s.alive[m]}
Managed == {r \in Regions : s.mgr[r] \in Frames}

\* mplex_attach and mplex_attach_new; without an index, a frame's default
mplex_attach ==
  \E m \in Alive, r \in Regions, flags \in AttachFlags, h \in NewPh(s) :
    \E other \in Focus(s, m), to \in UNION {IndexToAfter(s, m, i) \X {i = LAST} : i \in Indices} :
      /\ "UNNUMBERED" \in flags => to = <<NULL, FALSE>>
      /\ Op(DoAttach(s, m, r, flags, to[2], to[1], h, other))

\* region_fullscreen_scr, and ioncore_do_detach: r leaves and is to return
region_enter_fullscreen ==
  \E r \in Managed, h \in NewPh(s) :
    LET o == s.mgr[r]
    IN Op(Postdetach([Detach(PhFor(s, h, r), r) EXCEPT !.ret[r] = h], o, Members(s, o) = {r}))

\* mplexpholder_do_attach
Reattach(t, r, h) ==
  LET u == [t EXCEPT !.param[h] = @ \cup {"SWITCHTO"}]
  IN IF t.home[h] # NULL
     THEN {Attach(u, t.home[h], r, h, other) : other \in Focus(t, t.home[h])}
     ELSE IF get_head(t, h) = NULL THEN {[t EXCEPT !.aborted = TRUE]}
     ELSE IF ~t.rec[get_head(t, h)] THEN {}
     ELSE {Recreate(u, p[1], r, h, p[2]) : p \in {x \in Floating : ~t.alive[x]} \X BOOLEAN}

\* The placeholder is destroyed; when it is of no use, it is lost
region_leave_fullscreen ==
  \E r \in Regions :
    LET h == s.ret[r]
        u == [s EXCEPT !.ret[r] = NULL]
    IN /\ h # NULL
       /\ \E vs \in {Reattach(u, r, h)} : \E v \in IF vs = {} THEN {u} ELSE vs : Op(Destroy(v, h))

\* ioncore_detach: unset by the old manager, the placeholder goes later
ioncore_reattach ==
  \E r \in Regions : s.ret[r] # NULL /\ \E v \in Reattach(s, r, s.ret[r]) : Op(v)

\* "forget"
region_unset_return == \E r \in Regions : s.ret[r] # NULL /\ Op(UnsetReturn(s, r))

\* A placeholder whose region is gone, or is back, goes
ExecuteDeferred ==
  /\ s.deferred # <<>> /\ ~s.aborted
  /\ LET h == Head(s.deferred)
     IN /\ Guarded("orphan", s.home[h] = NULL /\ s.prev[h] \notin {NULL, h})
        /\ s' = [Destroy(s, h) EXCEPT !.deferred = Tail(@)]
  /\ UNCHANGED left

\* A client goes, and a floating frame with the last
region_rqdispose ==
  \E r \in Regions :
    LET o == s.mgr[r]
        last == o \in Floating /\ Members(s, o) = {r}
        u == [Detach(IF last THEN RescuePhs(s, o, NULL) ELSE s, r) EXCEPT !.mgr[r] = NULL]
    IN o # NULL /\ Op(IF last THEN Deinit(u, o) ELSE u)

\* mplex_set_index; inc_index and dec_index pass an index that is relative
SetIndex(m, r, index) ==
  /\ Guarded("number", ~s.numbered[r] /\ ~s.hidden[r])
  /\ Guarded("index_self", s.cur[m] = r /\ index \in {AFTER_CURRENT, AFTER_CURRENT_ACT})
  /\ \E u \in {IF s.numbered[r] THEN LeaveList(mplex_move_phs_before(s, m, r), m, r)
                ELSE [s EXCEPT !.numbered[r] = TRUE]} :
       \E a \in IndexToAfter(u, m, index) : Op(JoinList(u, m, r, a))

GetIndex(m, r) ==
  IF s.numbered[r] THEN (CHOOSE i \in DOMAIN Numbered(s, m) : Numbered(s, m)[i] = r) - 1 ELSE -1

mplex_set_index ==
  \E r \in Managed :
    LET m == s.mgr[r]
    IN \E index \in Indices \cup {GetIndex(m, r) + 1, GetIndex(m, r) - 1} : SetIndex(m, r, index)

\* mplex_switch_nth, _next, _prev and _to, or a member gets the focus
mplex_do_prepare_focus == \E r \in Managed : s.hidden[r] /\ Op(Display(s, s.mgr[r], r))

\* mplex_set_hidden, with "toggle"
mplex_set_hidden ==
  \E r \in Managed :
    LET m == s.mgr[r]
    IN /\ Guarded("hide", s.cur[m] = r)
       /\ Op(IF s.hidden[r] THEN Display(s, m, r)
             ELSE [s EXCEPT !.hidden[r] = TRUE, !.rmapped[r] = @ /\ ~MayMap(s, m)])

mplex_map ==
  \E m \in Alive :
    LET u == [s EXCEPT !.mapped[m] = ~@]
    IN Op(IF s.unview[m] THEN u ELSE MapManaged(u, m, u.mapped[m]))

\* mplex_do_fit_managed: the frame is made too small for its members, or not
mplex_do_fit_managed ==
  \E m \in Alive :
    LET u == [s EXCEPT !.unview[m] = ~@]
    IN Op(IF s.mapped[m] THEN MapManaged(u, m, ~u.unview[m]) ELSE u)

\* region_rqdispose of a frame.  To ask whether it may go is a rescue that is
\* a test, but not to the placeholders
frame_rqdispose ==
  \E m \in Alive : \E other \in {n \in Alive \ Floating : n # m} \cup {NULL} :
    LET u == RescuePhs(s, m, NULL)
    IN /\ Guarded("question", Members(s, m) # {})
       /\ Op(IF Members(s, m) # {} THEN u ELSE Dispose(u, m, other))

\* tiling_unsplit_at: all go to a neighbour; the frame goes later
tiling_unsplit_at ==
  \E m, other \in Alive \ Floating : \E h \in NewPh(s) :
    m # other /\ Op(RescuePhs(Rescue(s, m, other, h), m, other))

\* The window a frame is in is destroyed, and it with its members
frame_deinit ==
  \E m \in Alive :
    LET u == FoldLeft(LAMBDA t, r : [Detach(t, r) EXCEPT !.mgr[r] = NULL], s, SetToSeq(Members(s, m)))
    IN Op(Deinit(u, m))

create_frame == \E m \in Frames \ Alive : Op([s EXCEPT !.alive[m] = TRUE])

Next ==
  \/ mplex_attach \/ region_enter_fullscreen \/ region_leave_fullscreen \/ ioncore_reattach
  \/ region_unset_return \/ ExecuteDeferred \/ region_rqdispose \/ mplex_set_index
  \/ mplex_do_prepare_focus \/ mplex_set_hidden \/ mplex_map \/ mplex_do_fit_managed
  \/ frame_rqdispose \/ tiling_unsplit_at \/ frame_deinit \/ create_frame

Spec == Init /\ [][Next]_vars

-----------------------------------------------------------------------------
(* Properties *)

TypeOK ==
  /\ s.next \in [Nodes -> Nodes \cup {NULL}] /\ s.prev \in [Nodes -> Nodes \cup {NULL}]
  /\ s.mx \in [Frames -> Regions \cup {NULL}] /\ s.cur \in [Frames -> Regions \cup {NULL}]
  /\ s.count \in [Frames -> 0..Cardinality(Regions)]
  /\ s.phs \in [Frames \cup Regions -> Phs \cup {NULL}]
  /\ s.mgr \in [Regions -> Frames \cup {NULL, Other}]
  /\ s.home \in [Phs -> Frames \cup {NULL}] /\ s.after \in [Phs -> Regions \cup {NULL}]
  /\ s.ret \in [Regions -> Phs \cup {NULL}] /\ s.deferred \in Seq(Phs)
  /\ s.param \in [Phs -> SUBSET {"SWITCHTO", "HIDDEN", "UNNUMBERED"}]
  /\ left \in 0..MaxOps

\* The lists are sound whatever came and went: the numbered members of a frame
\* are those on its list, and counted; a placeholder is on the list of what it
\* is after, in a frame that is there; the current member is on the list
LinksSound ==
  /\ TypeOK
  /\ \A m \in Frames :
       /\ Sound(MxList(s, m))
       /\ Range(Numbered(s, m)) = {r \in Members(s, m) : s.numbered[r]}
       /\ s.count[m] = Len(Numbered(s, m))
       /\ s.cur[m] \in Range(Numbered(s, m)) \cup {NULL}
       /\ ~s.alive[m] => Members(s, m) = {} /\ PhsOf(s, m) = <<>>
  /\ \A o \in Frames \cup Regions :
       /\ Sound(PhList(s, o))
       /\ \A h \in Range(PhsOf(s, o)) : s.live[h] /\ Owner(s, h) = o
  /\ \A h \in Phs : /\ s.home[h] # NULL => h \in Range(PhsOf(s, Owner(s, h)))
                    /\ s.after[h] # NULL => s.mgr[s.after[h]] = s.home[h]
                    /\ s.rec[h] => s.home[h] = NULL
  /\ \A r \in Regions : s.ret[r] # NULL => s.live[s.ret[r]] /\ s.mgr[r] = Other

\* Of the members on the list at most one is shown, the current one, and the
\* current one is
ShownIsCurrent ==
  \A m \in Frames : {r \in Members(s, m) : s.numbered[r] /\ ~s.hidden[r]} = {s.cur[m]} \ {NULL}

\* What is shown in a frame that is mapped and large enough is mapped, and
\* nothing else, whether it changed while the frame was hidden or not
MappedIffShown ==
  \A m \in Frames : \A r \in Members(s, m) : s.rmapped[r] <=> ~s.hidden[r] /\ MayMap(s, m)

\* One member of a frame is shown, and mapped when the frame is: the current one
OneShown == ShownIsCurrent /\ MappedIffShown

\* What stands on a frame, or on a list of placeholders without one, in order
Places(t, m) ==
  FoldLeft(LAMBDA q, r : q \o <<r>> \o PhsOf(t, r), PhsOf(t, m), Numbered(t, m))
Orphans(t) ==
  {Items(List(t, h)) : h \in {x \in Phs : t.home[x] = NULL /\ t.prev[x] # NULL
                                           /\ t.next[t.prev[x]] = NULL}}
Before(t) ==
  LET qs == {Places(t, m) : m \in Frames} \cup Orphans(t)
  IN UNION {{<<q[i], q[j]>> : <<i, j>> \in {p \in (DOMAIN q) \X (DOMAIN q) : p[1] < p[2]}} : q \in qs}

\* Who moves together keeps its order, from list to list and from frame to
\* frame, and what stays on a frame keeps its order whatever leaves and comes:
\* a call changes the place of one region at most.  (Placeholders are not kept
\* in order with the regions when these are rescued.)
Stays(x, y) ==
  x \in Regions /\ y \in Phs => s'.mgr[x] = s.mgr[x] /\ s'.home[y] = s.home[y]
PlacesKept ==
  [][LET turned == {p \in Before(s) \cap {<<q[2], q[1]>> : q \in Before(s')} :
                      Stays(p[1], p[2]) /\ Stays(p[2], p[1])}
     IN \E moved \in Regions : \A p \in turned : moved \in {p[1], p[2]}]_vars

\* A region that returns from full screen mode has behind it and before it what
\* its placeholder had, which is gone then
ReturnsToPlace ==
  [][\A r \in Regions :
       LET h == s.ret[r]
       IN h # NULL /\ s'.mgr[r] \in Frames /\ s'.numbered[r] /\ ~s'.live[h] /\ s'.deferred = s.deferred =>
            \A x \in Nodes : /\ <<x, h>> \in Before(s) => <<r, x>> \notin Before(s')
                            /\ <<h, x>> \in Before(s) => <<x, r>> \notin Before(s')]_vars

\* Places in the order of members, for those who stay and those who return
OrderKept == PlacesKept /\ ReturnsToPlace

\* The assertion of mplexpholder_do_unlink
UnlinkAsserted == ~s.aborted
=============================================================================
