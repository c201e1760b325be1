-------------------------------- MODULE Focus --------------------------------
(***************************************************************************)
(* Who has the focus (ioncore/focus.c, with the parts of eventh.c,         *)
(* event.c, region.c, group.c, mplex.c, window.c and clientwin.c that      *)
(* change it).                                                             *)
(*                                                                         *)
(* The window manager never sets the focus and believes it: it asks the X  *)
(* server and learns from the events what became of it.  Meanwhile regions *)
(* are destroyed and reparented, the pointer enters windows and other      *)
(* programs take the focus.  Six variables of the program try to keep up:  *)
(* the ACTIVE flags and active_sub links of the regions, focus_current,    *)
(* the history focuslist with the insertion that waits for its timer, the  *)
(* region awaited and the region to be focused next.                       *)
(*                                                                         *)
(* The handlers call each other deep down (destroying a client detaches it *)
(* from its group, which focuses another client at once), so a handler is  *)
(* an operator from states to states and the state is the one record s.    *)
(* The X server is external; every window is mapped, and a frame shows one *)
(* region at a time.                                                       *)
(***************************************************************************)
EXTENDS Naturals, Sequences, FiniteSets
LOCAL INSTANCE SequencesExt

CONSTANTS
  Root,       \* the screen, never destroyed
  Frames,     \* frames (WMPlex): windows directly below the root
  Groups,     \* groups of a client and its transients (WGroupCW)
  Clients,    \* client windows
  NoInput,    \* the clients that refuse XSetInputFocus
  Tiled,      \* the frames of a tiling
  NULL,
  StartParent, StartManager, \* the tree of regions to start from
  MaxOps      \* bound of the model: what users, clients and the pointer do

Regions == {Root} \cup Frames \cup Groups \cup Clients

ASSUME FocusAssumption ==
  /\ NoInput \subseteq Clients /\ Tiled \subseteq Frames
  /\ NULL \notin Regions
  /\ StartParent \in [Regions -> Regions \cup {NULL}]
  /\ StartManager \in [Regions -> Regions \cup {NULL}]
  /\ StartParent[Root] = NULL /\ StartManager[Root] = NULL
  /\ MaxOps \in Nat

VARIABLES
  s,     \* the regions, the focus variables and the X server, see TypeOK
  left   \* what is left of MaxOps
vars == <<s, left>>

-----------------------------------------------------------------------------
(* The tree *)

\* r, f[r], f[f[r]] and so on
Up(f, r) ==
  LET up[x \in Regions \cup {NULL}] == IF x = NULL THEN <<>> ELSE <<x>> \o up[f[x]]
  IN up[r]

Path(t, r) == Up(t.parent, r)
MgrOrParent(t, r) == IF t.manager[r] # NULL THEN t.manager[r] ELSE t.parent[r]
Managed(t, m) == {r \in t.alive : t.manager[r] = m}
Prefer(p, S) == IF S = {} THEN NULL ELSE IF p \in S THEN p ELSE CHOOSE r \in S : TRUE

\* The members of the manager m on the stacking list, groups opened up.
Stacked(t, m) ==
  LET groups == {g \in Managed(t, m) \cap Groups : Managed(t, g) # {}}
  IN (Managed(t, m) \ groups) \cup UNION {Managed(t, g) : g \in groups}

-----------------------------------------------------------------------------
(* The X server: moving the focus from one window to another tells the     *)
(* windows between them.  Events: type, window and detail.                 *)
NotifyInferior == "Inferior"
PointerRoot == "PointerRoot"
Ev(type, reg, detail) == [type |-> type, reg |-> reg, detail |-> detail]

XMove(t, to) ==
  LET from == t.xfocus
      above == Path(t, IF from = PointerRoot THEN NULL ELSE from)
      below == Path(t, IF to = PointerRoot THEN NULL ELSE to)
      crossed(path, other) == SelectSeq(Tail(path), LAMBDA x : x \notin Range(other))
      out == IF from = PointerRoot THEN <<Ev("FocusOut", Root, PointerRoot)>>
             ELSE <<Ev("FocusOut", from,
                       IF from \in Range(below) THEN NotifyInferior ELSE "Other")>>
                  \o [i \in 1..Len(crossed(above, below)) |->
                        Ev("FocusOut", crossed(above, below)[i], "Other")]
      in == IF to = PointerRoot THEN <<Ev("FocusIn", Root, PointerRoot)>>
            ELSE [i \in 1..Len(crossed(below, above)) |->
                    Ev("FocusIn", Reverse(crossed(below, above))[i], "Other")]
                 \o <<Ev("FocusIn", to, IF to \in Range(above) THEN NotifyInferior ELSE "Other")>>
  IN IF from = to \/ to \in t.unmapped THEN t
     ELSE [t EXCEPT !.xfocus = to, !.q = @ \o out \o in]

\* The window of r is unmapped (or moved below another): the focus reverts to its parent.
XLeave(t, r, par) ==
  IF t.xfocus # r THEN t
  ELSE [t EXCEPT !.xfocus = par,
                 !.q = @ \o <<Ev("FocusOut", r, "Other"), Ev("FocusIn", par, NotifyInferior)>>]

\* XDeleteContext: events of the window of r find no region any more.
XForget(t, r) == [t EXCEPT !.q = SelectSeq(@, LAMBDA e : e.reg # r)]

-----------------------------------------------------------------------------
(* The history and its delayed insertion *)

Remove_with_mgrs(t, r) ==
  LET mgrs == Range(Up([x \in Regions |-> MgrOrParent(t, x)], r))
  IN [t EXCEPT !.list = SelectSeq(@, LAMBDA x : x \notin mgrs)]

Push(t, r) == [Remove_with_mgrs(t, r) EXCEPT !.list = <<r>> \o @]

\* timer_expired__focuslist_insert; a freed region is written to: a fault.
Insert(t) ==
  IF t.awaiting \notin t.alive THEN [t EXCEPT !.fault = TRUE]
  ELSE [Push(t, t.awaiting) EXCEPT !.awaiting = NULL, !.timer = FALSE]

Schedule(t, r) == IF t.delay THEN [t EXCEPT !.awaiting = r, !.timer = TRUE] ELSE Push(t, r)

\* Mutant: any region, not just the one that waits.
Cancel_if_is_any(t, r) == IF t.awaiting # NULL THEN [t EXCEPT !.timer = FALSE] ELSE t
\* The region is still the one that awaits insertion when its timer is reset.
Cancel_if_is(t, r) == IF t.awaiting = r THEN [t EXCEPT !.timer = FALSE] ELSE t

Trigger(t) == IF t.awaiting = NULL THEN t ELSE Insert(t)

-----------------------------------------------------------------------------
(* Requests to set the focus *)

Check_clear_await(t, r) ==
  IF r \in Range(Path(t, t.await)) /\ r # t.await THEN t ELSE [t EXCEPT !.await = NULL]

\* await_watch_handler: the first region above prev that is not being destroyed.
Await_above(t, prev) ==
  LET rest == SelectSeq(Tail(Path(t, prev)), LAMBDA x : x \notin t.dying)
  IN IF rest = <<>> THEN NULL ELSE Head(rest)

May_control_focus(t, r) ==
  /\ r \notin t.dying
  /\ \/ r \in t.active \cup t.pseudo
     \/ r \in Range(Path(t, t.await)) \cup Range(Path(t, t.next))
     \/ r \in Range(Up(t.manager, t.next))

Maybewarp(t, r) == [t EXCEPT !.next = r, !.source = "other"]

\* A client that refuses the input leaves the focus alone, or to the frame of its tiling.
Finalise_focusing(t, r) ==
  IF r \in t.active /\ t.await = NULL THEN t
  ELSE LET a == [t EXCEPT !.await = r]
       IN IF r \notin NoInput THEN XMove(a, r)
          ELSE IF t.parent[r] \in Tiled THEN XMove(a, t.parent[r]) ELSE a

\* region_do_set_focus of a multiplexer, a group, a window: down to who will get it.
Target(t, r, p) ==
  LET down == IF r \in Groups
                THEN IF t.current_managed[r] # NULL THEN {t.current_managed[r]} ELSE Managed(t, r)
              ELSE IF r \in Clients THEN {} ELSE Stacked(t, r)
      in == Prefer(p, down)
  IN IF in = NULL THEN r
     ELSE IF in \in Frames /\ Stacked(t, in) # {} THEN Prefer(p, Stacked(t, in))
     ELSE in

Do_set_focus(t, r, p) == Finalise_focusing(t, Target(t, r, p))

Maybewarp_now(t, r, p) == Do_set_focus([t EXCEPT !.next = NULL], r, p)

Source == [other |-> 0, pointerhack |-> 1, enterwindow |-> 2, fallback |-> 3]

\* Keep the focus where it is when a window below the pointer goes away.
Pointer_focus_hack(t, r) ==
  LET act == IF t.await # NULL THEN t.await ELSE t.current
  IN IF \/ t.next # NULL /\ Source[t.source] <= Source.pointerhack
        \/ r \in t.active /\ t.await = NULL
        \/ act = NULL \/ act \in t.dying
     THEN t ELSE [t EXCEPT !.next = act, !.source = "pointerhack"]

-----------------------------------------------------------------------------
(* Focus events: region_got_focus, region_lost_focus *)

\* The managers above r, windowless in its parent, that become (cease to be) pseudoactive.
PseudoToSet(t, r) ==
  LET up[x \in Regions] ==
        LET m == t.manager[x]
        IN IF m = NULL \/ m = t.parent[x] \/ m \in t.pseudo THEN {} ELSE {m} \cup up[m]
  IN IF r \in t.active \cup t.pseudo THEN up[r] ELSE {}
PseudoToUnset(t, r) ==
  LET up[x \in Regions] ==
        LET m == t.manager[x]
        IN IF m = NULL \/ m = t.parent[x] \/ m \notin t.pseudo THEN {} ELSE {m} \cup up[m]
  IN up[r]

\* group_managed_notify: a group remembers which of its members was activated last.
Activated(t, who) ==
  [t EXCEPT !.current_managed = [g \in Groups |->
     IF \E r \in who : t.manager[r] = g THEN CHOOSE r \in who : t.manager[r] = g ELSE @[g]]]

Set_pseudoactivity(t, r) ==
  LET new == PseudoToSet(t, r) IN Activated([t EXCEPT !.pseudo = @ \cup new], new)
Unset_pseudoactivity(t, r) == [t EXCEPT !.pseudo = @ \ PseudoToUnset(t, r)]

Got_focus(t, r) ==
  LET a == Check_clear_await(t, r)
      b == IF a.sub[r] = NULL THEN Schedule([a EXCEPT !.current = r], r) ELSE a
      c == Set_pseudoactivity([b EXCEPT !.active = @ \cup {r}], r)
      d == IF c.parent[r] # NULL THEN [c EXCEPT !.sub[c.parent[r]] = r] ELSE c
  IN IF r \in b.active THEN b ELSE Activated(d, {r})

Lost_focus(t, r) ==
  LET par == t.parent[r]
      a == IF par # NULL /\ t.sub[par] = r THEN [t EXCEPT !.sub[par] = NULL] ELSE t
  IN IF r \notin t.active THEN t ELSE Unset_pseudoactivity([a EXCEPT !.active = @ \ {r}], r)

\* Mutant: any focus event ends a request to set the focus.
Focus_in_done(t, ev) == [Got_focus(t, ev.reg) EXCEPT !.next = NULL]
\* ioncore_handle_focus_in; the pointer is on the one screen there is.
Focus_in(t, ev) ==
  LET a == Got_focus(t, ev.reg)
  IN IF a.next # NULL /\ Source[a.source] < Source.fallback THEN a
     ELSE IF ev.detail = PointerRoot /\ ev.reg = Root
       THEN [a EXCEPT !.next = Root, !.source = "fallback"]
     ELSE [a EXCEPT !.next = NULL]

Focus_out(t, ev) ==
  IF ev.detail # NotifyInferior THEN Lost_focus(t, ev.reg) ELSE Got_focus(t, ev.reg)

-----------------------------------------------------------------------------
(* Leaving a manager and a parent *)

Unset_manager(t, r) == [Unset_pseudoactivity(t, r) EXCEPT !.manager[r] = NULL]

Group_managed_remove(t, g, r, p) ==
  LET was_current == t.current_managed[g] = r
      a == Unset_manager([t EXCEPT !.current_managed[g] = IF @ = r THEN NULL ELSE @], r)
      next == Prefer(p, Managed(a, g))
  IN IF g \in t.dying \/ ~was_current THEN a
     ELSE IF next # NULL /\ May_control_focus(t, g) THEN Maybewarp_now(a, next, p)
     ELSE [a EXCEPT !.current_managed[g] = next]

\* mplex_current_node: the member the active region is in, else the one shown.
Current_node(t, m, p) ==
  LET within == {x \in Range(Up(t.manager, t.sub[m])) : t.manager[x] = m}
  IN Prefer(p, IF within # {} THEN within ELSE Managed(t, m))

Mplex_managed_remove(t, m, r, p) ==
  LET hadfocus == Current_node(t, m, p) = r
      a == Unset_manager(t, r)
      next == Prefer(p, Stacked(a, m))
  IN IF m \notin t.dying /\ hadfocus /\ May_control_focus(t, m) /\ next # NULL
     THEN Maybewarp(a, next) ELSE a

Detach_manager(t, r, p) ==
  LET m == t.manager[r]
  IN IF m = NULL THEN t
     ELSE IF m \in Groups THEN Group_managed_remove(t, m, r, p)
     ELSE Mplex_managed_remove(t, m, r, p)

\* Mutant: the link from the parent is left.
Unset_parent_sub(t, r) == [t EXCEPT !.parent[r] = NULL]
Unset_parent(t, r) ==
  LET par == t.parent[r]
      a == [t EXCEPT !.parent[r] = NULL]
  IN IF par = NULL THEN t ELSE IF t.sub[par] = r THEN [a EXCEPT !.sub[par] = NULL] ELSE a

\* Mutant: the current region is left as it was.
Focus_deinit_current(t, r) ==
  [Cancel_if_is(t, r) EXCEPT !.list = SelectSeq(@, LAMBDA x : x # r)]
Focus_deinit(t, r) ==
  LET a == Cancel_if_is(t, r)
      b == [a EXCEPT !.list = SelectSeq(@, LAMBDA x : x # r)]
  IN IF b.current = r THEN [b EXCEPT !.current = IF b.list = <<>> THEN NULL ELSE Head(b.list)]
     ELSE b

Forget_next(t, r) == IF t.next = r THEN [t EXCEPT !.next = NULL] ELSE t

\* The children are destroyed already, with the members of r.
Region_deinit(t, r, p) ==
  Forget_next(Focus_deinit(Unset_parent(Detach_manager(Forget_next(t, r), r, p), r), r), r)

-----------------------------------------------------------------------------
(* Destroying a region and all it manages: clientwin_deinit, window_deinit *)
(* and group_deinit, begun from above and ended from below.                *)

Begin(t, r) ==
  LET a == [t EXCEPT !.dying = @ \cup {r}]
      b == IF a.await = r THEN [a EXCEPT !.await = Await_above(a, r)] ELSE a
  IN IF r \in Clients THEN XForget(XLeave(Pointer_focus_hack(b, r), r, b.parent[r]), r) ELSE b

End(t, r, p) ==
  LET x(u) == XForget(XLeave(u, r, t.parent[r]), r)
      a == CASE r \in Clients -> Region_deinit(t, r, p)
             [] r \in Groups -> Region_deinit(x(t), r, p)
             [] OTHER -> x(Pointer_focus_hack(Region_deinit(t, r, p), r))
  IN [a EXCEPT !.alive = @ \ {r}, !.dying = @ \ {r},
               !.active = @ \ {r}, !.pseudo = @ \ {r}, !.sub[r] = NULL]

Destroy(t, r, p) ==
  LET steps[x \in Regions] ==
        <<<<"begin", x>>>>
        \o FoldLeft(LAMBDA acc, m : acc \o steps[m], <<>>, SetToSeq(Managed(t, x)))
        \o <<<<"end", x>>>>
  IN FoldLeft(LAMBDA u, step : IF step[1] = "begin" THEN Begin(u, step[2])
                               ELSE End(u, step[2], p), t, steps[r])

\* A group of a client goes with its last member.
Disposeroot(t, r) ==
  LET m == t.manager[r]
  IN IF m \in Groups /\ Managed(t, m) = {r} THEN m ELSE r

-----------------------------------------------------------------------------
(* The steps *)

\* The state when the focus has settled on r, the first region ever to get it.
Settled(r, delay) ==
  LET bare == [alive |-> Regions, dying |-> {}, parent |-> StartParent, manager |-> StartManager,
               active |-> {}, pseudo |-> {}, sub |-> [x \in Regions |-> NULL],
               current_managed |-> [g \in Groups |-> NULL],
               list |-> <<>>, delay |-> FALSE, timer |-> FALSE, awaiting |-> NULL,
               current |-> NULL, await |-> NULL, next |-> NULL, source |-> "other",
               goal |-> NULL, fault |-> FALSE, xfocus |-> r, unmapped |-> {}, q |-> <<>>]
  IN [FoldLeft(LAMBDA t, x : Got_focus(t, x), bare, Reverse(Path(bare, r)))
        EXCEPT !.list = <<r>>, !.delay = delay]

Init ==
  /\ \E r \in (Clients \ NoInput) \cup {f \in Frames : \A x \in Regions : StartManager[x] # f},
        delay \in BOOLEAN : s = Settled(r, delay)
  /\ left = MaxOps

Op == left > 0 /\ left' = left - 1

\* region_goto of a region by the user: shown at once, focused when the queue is empty.
Goto(r, p) ==
  /\ Op
  /\ r \in s.alive \ {Root}
  /\ s' = [Maybewarp(s, IF r \in Groups THEN Target(s, r, p) ELSE r) EXCEPT !.goal = r]

\* ioncore_goto_previous: the first region of the history but the first that is inactive.
Goto_previous(p) ==
  LET t == Trigger(s)
      old == SelectSeq(Tail(t.list), LAMBDA x : x \notin t.active)
  IN /\ Op
     /\ s.list # <<>>
     /\ s' = IF t.fault \/ old = <<>> THEN t
             ELSE [Maybewarp(t, IF Head(old) \in Groups THEN Target(t, Head(old), p)
                                ELSE Head(old)) EXCEPT !.goal = Head(old)]

\* A program unmaps its window: the X server takes the focus from it at once.
Client_unmaps(c) ==
  /\ Op
  /\ c \in s.alive \ s.unmapped
  /\ s' = XLeave([s EXCEPT !.unmapped = @ \cup {c}, !.q = Append(@, Ev("UnmapNotify", c, "Other")),
                         !.goal = NULL], c, s.parent[c])

\* clientwin_unmapped, then region_rqdispose
Unmapped(t, c, p) == [Destroy(t, Disposeroot(t, c), p) EXCEPT !.goal = NULL]

\* The user closes a frame that has no client windows left.
Close_frame(f, p) ==
  /\ Op
  /\ f \in s.alive
  /\ \A c \in Clients \cap s.alive : f \notin Range(Path(s, c))
  /\ s' = [Destroy(s, f, p) EXCEPT !.goal = NULL]

\* doit_reparent into an empty frame: clientwin_fitrep (unset_parent, set_parent), detached,
\* then mplex_do_attach_final: shown by f and focused if f may control the focus.
Attach(c, f, p) ==
  LET disposeroot == Disposeroot(s, c)
      a == XLeave(Unset_parent(s, c), c, s.parent[c])
      b == Detach_manager([a EXCEPT !.parent[c] = f], c, p)
      d == Set_pseudoactivity([b EXCEPT !.manager[c] = f], c)
      e == IF May_control_focus(b, f) THEN Maybewarp(d, c) ELSE Pointer_focus_hack(d, c)
  IN /\ Op
     /\ c \in s.alive /\ f \in s.alive
     /\ s.parent[c] # f /\ Managed(s, f) = {}
     /\ s' = [(IF disposeroot # c THEN Destroy(e, disposeroot, p) ELSE e) EXCEPT !.goal = NULL]

\* Another program takes the focus or gives it up.
Steal(to) ==
  /\ Op
  /\ to = PointerRoot \/ to \in s.alive \cap Clients
  /\ s' = [XMove(s, to) EXCEPT !.goal = IF s.next = NULL THEN NULL ELSE @]

\* ioncore_handle_enter_window
Enter_window(r) ==
  /\ Op
  /\ r \in s.alive \ (Groups \cup {Root})
  /\ r \notin s.active
  /\ s.next # NULL => Source[s.source] >= Source.enterwindow
  /\ r \notin Range(Path(s, s.next))
  /\ s' = [s EXCEPT !.next = r, !.source = "enterwindow", !.goal = NULL]

\* The next event is read from the connection.
Deliver(p) ==
  /\ s.q # <<>>
  /\ LET ev == Head(s.q)
         t == [s EXCEPT !.q = Tail(@)]
     IN s' = CASE ev.type = "FocusIn" -> Focus_in(t, ev)
               [] ev.type = "FocusOut" -> Focus_out(t, ev)
               [] ev.type = "UnmapNotify" -> Unmapped(t, ev.reg, p)
  /\ UNCHANGED left

Expire ==
  /\ s.timer
  /\ s' = Insert(s)
  /\ UNCHANGED left

\* ioncore_flushfocus, when XSync brings no more events.
Flush(p) ==
  /\ s.q = <<>>
  /\ s.next # NULL
  /\ s' = [Do_set_focus([s EXCEPT !.next = NULL], s.next, p)
             EXCEPT !.goal = IF Target(s, s.next, p) \in NoInput THEN NULL ELSE @]
  /\ UNCHANGED left

\* The region that is preferred where there is a choice.
Preferred == Clients \cup Frames

Next ==
  /\ ~s.fault
  /\ \/ \E r \in Regions, p \in Preferred : Goto(r, p)
     \/ \E p \in Preferred : Goto_previous(p)
     \/ \E c \in Clients : Client_unmaps(c)
     \/ \E f \in Frames, p \in Preferred : Close_frame(f, p)
     \/ \E c \in Clients, f \in Frames, p \in Preferred : Attach(c, f, p)
     \/ \E to \in Clients \cup {PointerRoot} : Steal(to)
     \/ \E r \in Regions : Enter_window(r)
     \/ \E p \in Preferred : Deliver(p)
     \/ Expire
     \/ \E p \in Preferred : Flush(p)

Spec == Init /\ [][Next]_vars

-----------------------------------------------------------------------------
(* Properties *)

Maybe == Regions \cup {NULL}
Details == {NotifyInferior, PointerRoot, "Other"}

\* Types of the variables.
TypeOK ==
  /\ s \in [alive : SUBSET Regions, dying : SUBSET Regions,
            parent : [Regions -> Maybe], manager : [Regions -> Maybe],
            active : SUBSET Regions, pseudo : SUBSET Regions, sub : [Regions -> Maybe],
            current_managed : [Groups -> Maybe],
            list : Seq(Regions), delay : BOOLEAN, timer : BOOLEAN, awaiting : Maybe,
            current : Maybe, await : Maybe, next : Maybe, source : DOMAIN Source,
            goal : Maybe, fault : BOOLEAN, xfocus : Regions \cup {PointerRoot},
            unmapped : SUBSET Regions,
            q : Seq([type : {"FocusIn", "FocusOut", "UnmapNotify"}, reg : Regions, detail : Details])]
  /\ left \in 0..MaxOps

\* After any mix of destroyed and reparented regions no variable of the focus code refers to
\* a region that is freed: the history (which holds a region once), the current region, the
\* one to be focused next, the one awaited, the one the timer will insert, the active_sub
\* links (region_deinit and region_focus_deinit undo what the events set up).
NoDangling ==
  /\ TypeOK
  /\ Range(s.list) \subseteq s.alive
  /\ Cardinality(Range(s.list)) = Len(s.list)
  /\ {s.current, s.next, s.await} \subseteq s.alive \cup {NULL}
  /\ s.timer => s.awaiting \in s.alive
  /\ \A r \in s.alive : /\ {s.parent[r], s.manager[r], s.sub[r]} \subseteq s.alive \cup {NULL}
                        /\ s.sub[r] # NULL => s.parent[s.sub[r]] = r
  /\ \A g \in Groups \cap s.alive :
       s.current_managed[g] # NULL => s.manager[s.current_managed[g]] = g

Focused == IF s.xfocus = PointerRoot THEN Root ELSE s.xfocus

\* Once every event is handled the regions agree with the X server, whatever was destroyed,
\* reparented or focused by others while the events were on the way: the ACTIVE regions are
\* the focused window and those above it, linked by active_sub, and focus_current is it.
ActivityTracksFocus ==
  s.q = <<>> =>
    LET path == Path(s, Focused)
    IN /\ s.active = Range(path)
       /\ s.current = Focused
       /\ \A r \in s.alive : s.sub[r] = IF \E i \in 2..Len(path) : path[i] = r
                                        THEN path[CHOOSE i \in 1..Len(path) : path[i + 1] = r]
                                        ELSE NULL

\* The links of focus refer to living regions, and to what the X server has
LinksFollow == NoDangling /\ ActivityTracksFocus

\* When the events are handled and no insertion is pending, the head of the history is the
\* region that has the focus (the history is "in order of importance", and goto_previous
\* skips its head).
CurrentFirst == s.q = <<>> /\ ~s.timer => s.list # <<>> /\ Head(s.list) = s.current

\* A region the user went to gets the focus although events about the focus of others, and
\* about the pointer entering other windows, are handled before the request is carried out
\* (unless its client refuses the focus, or other programs take it afterwards).
GotoArrives ==
  /\ s.q = <<>> /\ s.next = NULL
  /\ s.goal \in s.alive
  => \E r \in s.active : s.goal \in Range(Up(s.manager, r))

\* focus.c:358: "if the region that's waiting to be added to the focuslist is being deleted,
\* cancel the insertion": a deleted region is never inserted.  Not so in the code.
DeletedNotInserted == ~s.fault
=============================================================================
