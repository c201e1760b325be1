------------------------------- MODULE Groups -------------------------------
(***************************************************************************)
(* Groups (ioncore/group.c, group-cw.c, group-ws.c, grouppholder.c): the   *)
(* regions of a workspace or of a client window with its transients share  *)
(* the window of the multiplexer that shows the group, and its stacking    *)
(* list.  A region that is detached or in full screen mode is outside; its *)
(* placeholder keeps its level, what it is above and whether it is the     *)
(* bottom.  When a group of client windows goes, its placeholders stay     *)
(* together and recreate it.                                               *)
(*                                                                         *)
(* The status display is one more region; it is managed by the group that  *)
(* its multiplexer shows, or by the tiling at the bottom of that group.    *)
(* Geometry, names and the windows of groups themselves are left out.  A   *)
(* region outside has at most one placeholder, which goes by its name.     *)
(***************************************************************************)
EXTENDS Stacking

CONSTANTS
  Wins,        \* the multiplexers
  Groups,
  CWGroups,    \* those of client windows; the others are workspaces
  Regs,        \* what groups manage
  Tilings,     \* those of the regions that can manage the status display
  STDisp,      \* the status display, of the multiplexer Home
  Home,
  Levels,      \* that regions are attached at
  ON_TOP,      \* STACKING_LEVEL_ON_TOP
  GroupCalls,  \* calls that break an invariant and are included, see Guarded
  MaxGroupOps  \* bound: operations

Items == Regs \cup {STDisp}

ASSUME GroupsAssumption ==
  /\ IsFiniteSet(Regs) /\ Tilings \subseteq Regs /\ STDisp \notin Regs
  /\ CWGroups \subseteq Groups /\ Home \in Wins
  /\ NoItem \notin Items \cup Groups \cup Wins /\ Items \cap Groups = {}
  /\ Levels \subseteq Nat /\ {ON_TOP, MODAL1, MaxGroupOps} \subseteq Nat

VARIABLES
  g,           \* the state of the program
  groupOps     \* operations left

group == <<g, groupOps>>

-----------------------------------------------------------------------------
(* State: the stacking of each window; of each region the level, what it is  *)
(* above, its manager; of each group its window, the managed list and some   *)
(* of its regions; what multiplexers show; and placeholders.                 *)

Exists(t, gr) == t.par[gr] # NoItem
Managed(t, gr) == Range(t.managed[gr])
Mapped(t, gr) == t.shown[t.par[gr]] = gr
Z(t, w) == [list |-> t.list[w], order |-> t.order[w], level |-> t.level, above |-> t.above]
SetZ(t, w, z) == [t EXCEPT !.list[w] = z.list, !.order[w] = z.order, !.above = z.above]

\* mapped_filt, and not REGION_SKIP_FOCUS, which the status display has
Focusable(t) ==
  {x \in Regs : t.mgr[x] \in Groups /\ Mapped(t, t.mgr[x])}
find_to_focus(t, gr, try, group_only) ==
  stacking_find_to_focus(Z(t, t.par[gr]), try, Focusable(t),
                         IF group_only THEN Managed(t, gr) ELSE Items)

-----------------------------------------------------------------------------
(* The status display *)

\* group_do_add_managed_default: a new window is on top for the server
AddManaged(t, gr, x, level) ==
  LET w == t.par[gr]
      u == [t EXCEPT !.level[x] = level, !.above[x] = NoItem,
                     !.order[w] = Append(Without(@, {x}), x)]
  IN [SetZ(u, w, stacking_weave(Z(u, w), <<x>>, FALSE))
        EXCEPT !.managed[gr] = Append(@, x), !.mgr[x] = gr]

\* group_managed_remove for the status display, which is never current, or
\* tiling_unmanage_stdisp
DropSTDisp(t) ==
  IF t.mgr[STDisp] \in Groups
  THEN LET gr == t.mgr[STDisp]
       IN [SetZ(t, t.par[gr], stacking_unstack(Z(t, t.par[gr]), STDisp).z)
             EXCEPT !.managed[gr] = Without(@, {STDisp}), !.stdisp[gr] = NoItem,
                    !.mgr[STDisp] = NoItem, !.order[t.par[gr]] = Without(@, {STDisp})]
  ELSE [t EXCEPT !.mgr[STDisp] = NoItem]

\* group_manage_stdisp: the bottom first, if it can
group_manage_stdisp(t, gr) ==
  IF t.bottom[gr] \in Tilings THEN [DropSTDisp(t) EXCEPT !.mgr[STDisp] = t.bottom[gr]]
  ELSE IF t.stdisp[gr] = STDisp THEN t
  ELSE [AddManaged(DropSTDisp(t), gr, STDisp, ON_TOP) EXCEPT !.stdisp[gr] = STDisp]

\* mplex_remanage_stdisp: by what the multiplexer shows, after the old manager has
\* dropped it.  Groups of client windows do not manage it: it stays where it is
mplex_remanage_stdisp(t) ==
  LET gr == t.shown[Home]
  IN IF gr = NoItem \/ gr \in CWGroups THEN t
     ELSE group_manage_stdisp(IF t.mgr[STDisp] = gr THEN t ELSE DropSTDisp(t), gr)

\* Mutant: only another workspace makes the multiplexer think again
group_remanage_stdisp_not(t, gr) == t

group_remanage_stdisp(t, gr) ==
  IF t.par[gr] = Home /\ t.shown[Home] = gr THEN mplex_remanage_stdisp(t) ELSE t

\* group_do_set_bottom
SetBottom(t, gr, x) ==
  LET was == t.bottom[gr]
      u == [t EXCEPT !.bottom[gr] = x]
      std == t.stdisp[gr]
      noremanage == \/ was = x \/ (was = NoItem /\ std = NoItem)
                    \/ (x # NoItem /\ x = std) \/ (x = NoItem /\ was = std)
  IN IF ~noremanage /\ (x = NoItem \/ x \in Tilings) THEN group_remanage_stdisp(u, gr) ELSE u

-----------------------------------------------------------------------------
(* Placeholders *)

Outside(t) == {x \in Regs : t.mgr[x] = NoItem}
Away(t) == {x \in Regs : t.ph[x].set}
NoPh == [set |-> FALSE, level |-> 0, bottom |-> FALSE, above |-> NoItem]

\* The list a placeholder is on: of a group, or of one that is gone (its first has the
\* placeholder of the group)
PhList(t, x) == CHOOSE l \in Range(t.phs) \cup t.detached : x \in Range(l)

\* grouppholder_do_unlink, and the object goes
UnlinkPh(t, x) ==
  [t EXCEPT !.ph[x] = NoPh,
            !.phs = [gr \in Groups |-> Without(@[gr], {x})],
            !.detached = {Without(l, {x}) : l \in @} \ {<<>>}]

\* A region goes for good
Forget(t, x) ==
  LET u == IF t.ph[x].set THEN UnlinkPh(t, x) ELSE t
  IN [u EXCEPT !.ph = [y \in Regs |-> IF @[y].above = x THEN [@[y] EXCEPT !.above = NoItem] ELSE @[y]]]

ForgetAll(t, xs) ==
  LET u[k \in 0..Len(xs)] == IF k = 0 THEN t ELSE Forget(u[k-1], xs[k]) IN u[Len(xs)]

\* grouppholder_init, region_do_set_return
MakePh(t, gr, x) ==
  [t EXCEPT !.ph[x] = [set |-> TRUE, level |-> t.level[x], bottom |-> t.bottom[gr] = x,
                       above |-> t.above[x]],
            !.phs[gr] = <<x>> \o @]

-----------------------------------------------------------------------------
(* Regions come and go *)

\* group_managed_remove.  When the focus may be moved the new region is made current
\* by group_managed_notify, when it gets it
Unmanaged(u, gr, x, was_current, mcf) ==
  LET un == stacking_unstack(Z(u, u.par[gr]), x)
      v == [SetZ(u, u.par[gr], un.z)
              EXCEPT !.managed[gr] = Without(@, {x}), !.mgr[x] = NoItem,
                     !.order[u.par[gr]] = Without(@, {x}),
                     !.current[gr] = IF @ = x THEN NoItem ELSE @]
      stf == find_to_focus(v, gr, un.next, TRUE)
  IN IF was_current /\ ~(stf # NoItem /\ mcf) THEN [v EXCEPT !.current[gr] = stf] ELSE v
group_managed_remove(t, x, mcf) ==
  LET gr == t.mgr[x]
  IN Unmanaged(IF x = t.bottom[gr] THEN SetBottom(t, gr, NoItem) ELSE t, gr, x,
               t.current[gr] = x, mcf)

\* groupcw_managed_disposeroot, groupws_managed_disposeroot: the group goes with x
DisposedWith(t, gr, x) ==
  /\ Managed(t, gr) \ {t.stdisp[gr], x} = {}
  /\ gr \in CWGroups \/ t.bottom[gr] = x

\* mplex_managed_remove: the status display stays behind, and another group is shown
AfterLeaving(t, w, gr) ==
  LET rest == {h \in Groups : t.par[h] = w /\ h # gr}
      u == [t EXCEPT !.shown[w] = IF @ # gr THEN @ ELSE IF rest = {} THEN NoItem
                                  ELSE CHOOSE h \in rest : TRUE]
  IN IF w = Home /\ t.shown[w] = gr THEN mplex_remanage_stdisp(u) ELSE u

\* groupcw_rescue_clientwins and group_deinit: placeholders stay with that of the group,
\* those of a workspace keep nothing
Migrate(t, gr) ==
  IF t.phs[gr] = <<>> THEN t
  ELSE IF gr \in CWGroups THEN [t EXCEPT !.detached = @ \cup {t.phs[gr]}, !.phs[gr] = <<>>]
  ELSE [t EXCEPT !.phs[gr] = <<>>,
                 !.ph = [y \in Regs |-> IF y \in Range(t.phs[gr]) THEN NoPh ELSE @[y]]]

\* The group has the status display, or a tiling in it has
HasSTDisp(t, gr) == t.mgr[STDisp] \in Managed(t, gr) \cup {gr}
LeaveSTDisp(t, gr) == IF HasSTDisp(t, gr) THEN DropSTDisp(t) ELSE t

\* group_deinit: what is left are tilings
DestroyRest(t, gr) ==
  LET rest == Managed(t, gr)
      w == t.par[gr]
  IN ForgetAll(
       [t EXCEPT !.list[w] = Without(@, rest), !.order[w] = Without(@, rest), !.managed[gr] = <<>>,
                 !.mgr = [x \in Items |-> IF x \in rest THEN NoItem ELSE @[x]],
                 !.above = [x \in Items |-> IF @[x] \in rest THEN NoItem ELSE @[x]],
                 !.bottom[gr] = NoItem, !.current[gr] = NoItem, !.par[gr] = NoItem],
       t.managed[gr])

\* The regions xs leave, one by one
RemoveAll(t, xs, mcf) ==
  LET u[k \in 0..Len(xs)] == IF k = 0 THEN t ELSE group_managed_remove(u[k-1], xs[k], mcf)
  IN u[Len(xs)]

\* region_dispose: client windows are rescued one by one, placeholders migrate, the
\* group is destroyed, and its multiplexer goes on
DisposeGroup(t, gr, mcf) ==
  LET w == t.par[gr]
      rescued == RemoveAll(t, Without(t.managed[gr], Tilings \cup {STDisp}), mcf)
  IN AfterLeaving(DestroyRest(LeaveSTDisp(Migrate(rescued, gr), gr), gr), w, gr)

\* x goes out of its group, which is disposed of when that leaves it empty
TakeOut(t, x, mcf) ==
  LET gr == t.mgr[x]
      gone == DisposedWith(t, gr, x)
      u == group_managed_remove(t, x, mcf)
  IN IF gone THEN DisposeGroup(u, gr, mcf) ELSE u

\* group_do_attach_final.  a: level, what to be above, bottom, switch; mcf: the group
\* may control the focus
Entered(b, gr, x, switchto, mcf) ==
  LET sw == IF switchto THEN find_to_focus(b, gr, x, FALSE) = x
            ELSE stacking_must_focus(Z(b, b.par[gr]), x, Focusable(b))
  IN IF sw /\ ~mcf THEN [b EXCEPT !.current[gr] = x] ELSE b
group_do_attach_final(t, gr, x, a, mcf) ==
  LET above == IF a.above \in Managed(t, gr) THEN a.above ELSE NoItem
      u == AddManaged(t, gr, x, IF above # NoItem THEN t.level[above] ELSE a.level)
      v == [u EXCEPT !.above[x] = above]
  IN Entered(IF a.bottom THEN SetBottom(v, gr, x) ELSE v, gr, x, a.switchto, mcf)

Params == [level : Levels, above : Regs \cup {NoItem}, bottom : BOOLEAN, switchto : BOOLEAN]
\* To be above what is not in the group counts for nothing
MayAttach(t, gr, a) == /\ Exists(t, gr) /\ ~(t.bottom[gr] # NoItem /\ a.bottom)
                       /\ a.above \in Managed(t, gr) \cup {NoItem}

-----------------------------------------------------------------------------
(* Navigation, by places of the managed list, up or down it; 0 is none *)

nxt(m, i, wrap) == IF i < Len(m) THEN i + 1 ELSE IF wrap THEN 1 ELSE 0
prv(m, i, wrap) == IF i > 1 THEN i - 1 ELSE IF wrap THEN Len(m) ELSE 0

\* focusable: there may be modal regions in the window, of whatever group
NaviOK(t, gr) ==
  LET z == Z(t, t.par[gr])
  IN {x \in Focusable(t) \cap Managed(t, gr) :
        t.level[x] >= stacking_min_level(z, Focusable(t))}

do_get_next(t, gr, i, up, wrap, sti_ok) ==
  LET m == t.managed[gr]
      at[k \in 0..Len(m)] == IF k = 0 THEN i
                             ELSE IF at[k-1] = 0 \/ (k > 1 /\ at[k-1] = i) THEN 0
                             ELSE IF up THEN nxt(m, at[k-1], wrap) ELSE prv(m, at[k-1], wrap)
      hits == {k \in 1..Len(m) : at[k] \notin {0, i} /\ m[at[k]] \in NaviOK(t, gr)}
  IN IF hits # {} THEN m[at[Min(hits)]]
     ELSE IF sti_ok /\ m[i] \in NaviOK(t, gr) THEN m[i] ELSE NoItem

\* group_do_navi_first (but REGION_NAVI_ANY) and _next
group_do_navi_first(t, gr, end) ==
  IF t.managed[gr] = <<>> THEN NoItem
  ELSE IF end THEN do_get_next(t, gr, 1, FALSE, TRUE, TRUE)
  ELSE do_get_next(t, gr, Len(t.managed[gr]), TRUE, TRUE, TRUE)
group_do_navi_next(t, gr, x, end) ==
  IF end THEN do_get_next(t, gr, Place(t.managed[gr], x), TRUE, FALSE, FALSE)
  ELSE do_get_next(t, gr, Place(t.managed[gr], x), FALSE, FALSE, FALSE)

-----------------------------------------------------------------------------
(* Actions *)

EmptyGroup == [list |-> [w \in Wins |-> <<>>], order |-> [w \in Wins |-> <<>>],
  level |-> [x \in Items |-> 0], above |-> [x \in Items |-> NoItem],
  mgr |-> [x \in Items |-> NoItem], par |-> [gr \in Groups |-> NoItem],
  managed |-> [gr \in Groups |-> <<>>], bottom |-> [gr \in Groups |-> NoItem],
  current |-> [gr \in Groups |-> NoItem], stdisp |-> [gr \in Groups |-> NoItem],
  shown |-> [w \in Wins |-> NoItem], ph |-> [x \in Regs |-> NoPh],
  phs |-> [gr \in Groups |-> <<>>], detached |-> {}]

\* What attaching a group to a multiplexer does to what it shows
Show(t, w, gr, switchto) ==
  LET u == [t EXCEPT !.shown[w] = IF @ = NoItem \/ switchto THEN gr ELSE @]
  IN IF w = Home /\ u.shown # t.shown THEN mplex_remanage_stdisp(u) ELSE u

\* Regions as they are attached to a group of each kind
PutAll(t, ws, cw, xs) ==
  LET Put(u, x) == group_do_attach_final(u, IF x \in Tilings THEN ws ELSE cw, x,
                     [level |-> 0, above |-> NoItem, bottom |-> x \in Tilings,
                      switchto |-> FALSE], FALSE)
      u[k \in 0..Len(xs)] == IF k = 0 THEN t ELSE Put(u[k-1], xs[k])
  IN u[Len(xs)]

\* Where the behaviours that are checked start: with nothing, with a group of each kind
\* in Home, and with regions in these
GroupsInit ==
  /\ \E ws \in Groups \ CWGroups, cw \in CWGroups, full \in SUBSET Regs :
       LET both == Show(Show([EmptyGroup EXCEPT !.par[ws] = Home, !.par[cw] = Home],
                             Home, ws, TRUE), Home, cw, FALSE)
       IN g \in {EmptyGroup, PutAll(both, ws, cw, SetToSeq(full))}
  /\ groupOps = MaxGroupOps

Op(t) == groupOps > 0 /\ g' = t /\ groupOps' = groupOps - 1

NewGroup ==
  \E gr \in Groups, w \in Wins, switchto \in BOOLEAN :
    ~Exists(g, gr) /\ Op(Show([g EXCEPT !.par[gr] = w], w, gr, switchto))

\* mplex_switch_to
SwitchTo ==
  \E gr \in Groups : Exists(g, gr) /\ ~Mapped(g, gr) /\ Op(Show(g, g.par[gr], gr, TRUE))

\* A call after which a property does not hold: a tiling that has the status display is
\* the bottom no more
Guarded(call, breaks) == breaks => call \in GroupCalls

\* Of several placeholders without a group neither the first nor the last may go:
\* grouppholder_do_unlink makes the list a circle, or fails its assertion, for it clears
\* ph->prev->next before get_head reads it (see MPlex, where the code is the same).
\* Behaviours end before such a call; in a group, or alone, any may go
PhRemovable(x) ==
  LET l == PhList(g, x)
  IN x \in Away(g) /\ l \in g.detached /\ Len(l) > 1 => x \notin {l[1], l[Len(l)]}

group_do_attach ==
  \E gr \in Groups, x \in Regs, a \in Params, mcf \in BOOLEAN :
    /\ MayAttach(g, gr, a) /\ x \in Outside(g) /\ PhRemovable(x) /\ a.above # x
    /\ Op(group_do_attach_final(IF g.ph[x].set THEN UnlinkPh(g, x) ELSE g, gr, x, a, mcf))

\* doit_reparent: x comes from another group.  A tiling does not bring the status display
Reparent ==
  \E gr \in Groups, x \in Regs, a \in Params, mcf \in BOOLEAN :
    /\ MayAttach(g, gr, a) /\ g.mgr[x] \in Groups \ {gr} /\ a.above # x /\ g.mgr[STDisp] # x
    /\ LET old == g.mgr[x]
           u == group_do_attach_final(group_managed_remove(g, x, mcf), gr, x, a, mcf)
       IN Op(IF DisposedWith(g, old, x) THEN DisposeGroup(u, old, mcf) ELSE u)

RegionDestroyed ==
  \E x \in Regs, mcf \in BOOLEAN :
    /\ g.mgr[x] \in Groups \/ x \in Away(g)
    /\ PhRemovable(x)
    /\ LET t == IF g.mgr[STDisp] = x THEN DropSTDisp(g) ELSE g
       IN Op(Forget(IF g.mgr[x] \in Groups THEN TakeOut(t, x, mcf) ELSE t, x))

group_set_bottom ==
  \E gr \in Groups : \E x \in (Managed(g, gr) \cap Regs) \cup {NoItem} :
    /\ Exists(g, gr) /\ x # g.bottom[gr]
    /\ Guarded("bottom", x \notin Tilings \cup {NoItem} /\ g.bottom[gr] # NoItem
                         /\ g.mgr[STDisp] = g.bottom[gr])
    /\ Op(SetBottom(g, gr, x))

\* group_managed_rqorder; also the raise of group_managed_prepare_focus
group_managed_rqorder ==
  \E x \in Regs, lower \in BOOLEAN :
    /\ g.mgr[x] \in Groups
    /\ LET w == g.par[g.mgr[x]] IN Op(SetZ(g, w, stacking_restack(Z(g, w), x, lower)))

\* group_managed_notify: a mapped region got the focus
group_managed_notify ==
  \E x \in Focusable(g) : g.current[g.mgr[x]] # x /\ Op([g EXCEPT !.current[g.mgr[x]] = x])

\* ioncore_detach, clientwin_enter_fullscreen: x goes elsewhere and can return
Detach ==
  \E x \in Regs, mcf \in BOOLEAN :
    /\ g.mgr[x] \in Groups /\ g.mgr[STDisp] # x
    /\ Op(TakeOut(MakePh(g, g.mgr[x], x), x, mcf))

\* grouppholder_do_attach to the group; then the placeholder goes
ReturnTo(t, gr, x, switchto, mcf) ==
  UnlinkPh(group_do_attach_final(t, gr, x,
             [level |-> t.ph[x].level, above |-> t.ph[x].above, bottom |-> t.ph[x].bottom,
              switchto |-> switchto], mcf), x)

\* Mutant: only the placeholder that is used goes to the new group
ReturnToNew_one(t, gr, x, w, switchto) ==
  LET l == PhList(t, x)
      u == [t EXCEPT !.par[gr] = w, !.detached = (@ \ {l}) \cup ({Without(l, {x})} \ {<<>>})]
      v == group_do_attach_final(u, gr, x,
             [level |-> t.ph[x].level, above |-> NoItem, bottom |-> t.ph[x].bottom,
              switchto |-> TRUE], FALSE)
  IN UnlinkPh(Show([v EXCEPT !.phs[gr] = <<x>>], w, gr, switchto), x)

\* grouppholder_attach_recreate, recreate_handler: in a new group, which takes over all the
\* placeholders of the list.  What to be above is not passed on
ReturnToNew(t, gr, x, w, switchto) ==
  LET l == PhList(t, x)
      u == [t EXCEPT !.par[gr] = w, !.detached = @ \ {l}, !.ph[x].above = NoItem]
      v == group_do_attach_final(u, gr, x,
             [level |-> t.ph[x].level, above |-> NoItem, bottom |-> t.ph[x].bottom,
              switchto |-> TRUE], FALSE)
  IN UnlinkPh(Show([v EXCEPT !.phs[gr] = l], w, gr, switchto), x)

Return ==
  \E x \in Away(g), switchto, mcf \in BOOLEAN :
    \/ \E gr \in Groups :
         /\ x \in Range(g.phs[gr])
         /\ ~(g.ph[x].bottom /\ g.bottom[gr] # NoItem)
         /\ Op(ReturnTo(g, gr, x, switchto, mcf))
    \/ \E gr \in CWGroups, w \in Wins :
         /\ PhList(g, x) \in g.detached /\ ~Exists(g, gr)
         /\ Op(ReturnToNew(g, gr, x, w, switchto))

\* ioncore_detach_extl, "forget"
ForgetReturn == \E x \in Away(g) : PhRemovable(x) /\ Op(UnlinkPh(g, x))

\* The group is closed, or goes with its multiplexer
CloseGroup ==
  \E gr \in Groups, mcf \in BOOLEAN : Exists(g, gr) /\ Op(DisposeGroup(g, gr, mcf))

\* group_fitrep: the status display stays; the windows are reparented one by one, each
\* on top of the others, and then woven as they were
group_fitrep(t, gr, w) ==
  LET old == t.par[gr]
      u == IF t.mgr[STDisp] \in {gr, t.bottom[gr]} \ {NoItem} THEN DropSTDisp(t) ELSE t
      items == UnweaveItems(Z(u, old), Managed(u, gr))
      v == [u EXCEPT !.par[gr] = w,
                     !.list[old] = Without(@, Range(items)),
                     !.order = [h \in Wins |-> IF h = old THEN Without(@[h], Managed(u, gr))
                                               ELSE IF h = w THEN @[h] \o u.managed[gr] ELSE @[h]]]
  IN SetZ(v, w, stacking_weave(Z(v, w), items, FALSE))

\* The group is attached to another multiplexer
MoveGroup ==
  \E gr \in Groups, w \in Wins, switchto \in BOOLEAN :
    /\ Exists(g, gr) /\ g.par[gr] # w
    /\ LET left == AfterLeaving(group_fitrep(g, gr, w), g.par[gr], gr)
       IN Op(Show(left, w, gr, switchto))

GroupsNext ==
  \/ NewGroup \/ SwitchTo \/ MoveGroup \/ CloseGroup \/ group_do_attach \/ Reparent
  \/ RegionDestroyed \/ group_set_bottom \/ group_managed_rqorder \/ group_managed_notify
  \/ Detach \/ Return \/ ForgetReturn

GroupsSpec == GroupsInit /\ [][GroupsNext]_group

-----------------------------------------------------------------------------
(* Properties *)

\* The stacking of a window is that of the regions of all groups in it, ordered, and the
\* server has the same; the regions a group refers to are its own
GroupsSound ==
  /\ \A w \in Wins :
       /\ Ordered(Z(g, w)) /\ IsInjective(g.list[w])
       /\ Range(g.list[w]) = {x \in Items : g.mgr[x] \in Groups /\ g.par[g.mgr[x]] = w}
       /\ g.shown[w] # NoItem => g.par[g.shown[w]] = w
  /\ \A gr \in Groups :
       /\ Managed(g, gr) = {x \in Items : g.mgr[x] = gr} /\ IsInjective(g.managed[gr])
       /\ {g.bottom[gr], g.current[gr], g.stdisp[gr]} \subseteq Managed(g, gr) \cup {NoItem}
       /\ g.stdisp[gr] = STDisp <=> g.mgr[STDisp] = gr
       /\ ~Exists(g, gr) => g.managed[gr] = <<>> /\ g.phs[gr] = <<>>
  /\ \A x \in Regs :
       g.ph[x].set <=> Cardinality({l \in Range(g.phs) \cup g.detached : x \in Range(l)}) = 1

\* The status display is with the workspace that is shown, or with the tiling at its bottom
STDispShown ==
  LET gr == g.shown[Home]
  IN gr # NoItem /\ gr \notin CWGroups =>
       g.mgr[STDisp] = IF g.bottom[gr] \in Tilings THEN g.bottom[gr] ELSE gr

\* A group focuses its current region, or another one, but never one that a shown modal
\* region of the same window is above
ModalFirst ==
  \A gr \in Groups : Exists(g, gr) =>
    LET f == find_to_focus(g, gr, g.current[gr], FALSE)
        list == g.list[g.par[gr]]
        over(x) == {y \in Focusable(g) \cap Range(list) :
                      Place(list, y) > Place(list, x) /\ g.level[y] >= MODAL1
                      /\ g.level[y] > g.level[x]}
    IN /\ f # NoItem => over(f) = {}
       /\ g.current[gr] # NoItem /\ over(g.current[gr]) = {} => f = g.current[gr]
       /\ f = NoItem => Focusable(g) \cap Range(list) = {}

\* From the first or the last region on, navigation goes through all that may be focused
NaviComplete ==
  \A gr \in Groups : Exists(g, gr) =>
    LET f == Only(g.managed[gr], NaviOK(g, gr))
        At(i) == IF i \in DOMAIN f THEN f[i] ELSE NoItem
    IN /\ group_do_navi_first(g, gr, FALSE) = At(1)
       /\ group_do_navi_first(g, gr, TRUE) = At(Len(f))
       /\ \A i \in DOMAIN f : /\ group_do_navi_next(g, gr, f[i], TRUE) = At(i + 1)
                               /\ group_do_navi_next(g, gr, f[i], FALSE) = At(i - 1)

\* What may have the focus, and get it by the keyboard
FocusReaches == ModalFirst /\ NaviComplete

\* Placeholders that are in one place stay so, through the end of a group of client
\* windows and its recreation: what was together returns together
Together(x, y) ==
  x \in Away(g) /\ y \in Away(g) /\ PhList(g, x) = PhList(g, y)
StayTogether ==
  [][\A x, y \in Regs : Together(x, y) /\ y \in Away(g)' =>
       LET gr == g.mgr'[x]
           elsewhere == gr = NoItem \/ (Exists(g, gr) /\ x \notin Range(g.phs[gr]))
       IN IF x \in Away(g)' THEN Together(x, y)'
          ELSE elsewhere \/ y \in Range(g.phs'[gr])]_group
=============================================================================
