------------------------------ MODULE Bindings ------------------------------
(***************************************************************************)
(* The keys that are grabbed on a window (ioncore/regbind.c, binding.c,    *)
(* bindmaps.c): those of its own maps of bindings, which come and go with  *)
(* its mode, and those of the regions within it that have no window or do  *)
(* not grab, and are active.                                               *)
(***************************************************************************)
EXTENDS Naturals, Sequences, Functions

CONSTANTS
  Bindmaps,      \* in the order in which ioncore_refresh_bindmaps goes through them
  OwnMaps,       \* those that are added to the window itself
  Subs,          \* the regions within that grab on their parent
  MapsOf(_),     \* the maps of each of these, first to last
  Managers(_),   \* each of these and its managers among them, outermost first
  Keysyms, Keycodes, \* keycodes are positive; 0 is that of a key that is not on the keyboard
  Mods,          \* modifiers in a binding, without AnyModifier
  Locks,         \* which of the three locks to be ignored are on the keyboard
  NoOwner,
  BindCalls,     \* calls that break the invariant and are included: "direct", "anymod", "samecode"
  MaxBind        \* bound: operations

VARIABLES
  keymap,        \* the keycode of each keysym, by the server
  bindings,      \* of each map
  rbinds,        \* the maps of the window, with the owner of each
  grabs,         \* the server's passive grabs on the window
  active_sub,
  scheduled,     \* REGION_BINDING_UPDATE_SCHEDULED
  binds          \* operations left

binding == <<keymap, bindings, rbinds, grabs, active_sub, scheduled, binds>>

AnyModifier == "AnyModifier"

\* The managers are a tree
ASSUME BindingsAssumption ==
  /\ Keycodes \subseteq Nat \ {0} /\ MaxBind \in Nat /\ Locks \subseteq 1 .. 3
  /\ AnyModifier \notin Mods /\ NoOwner \notin Subs
  /\ Bindmaps \in Seq(Range(Bindmaps)) /\ OwnMaps \subseteq Range(Bindmaps)
  /\ \A r \in Subs :
       /\ MapsOf(r) \in Seq(Range(Bindmaps)) /\ Managers(r) \in Seq(Subs)
       /\ \A i \in DOMAIN Managers(r) : Managers(Managers(r)[i]) = SubSeq(Managers(r), 1, i)

Binding(ksb, kcb, state) == [ksb |-> ksb, kcb |-> kcb, state |-> state]
Rbind(bm, owner) == [bm |-> bm, owner |-> owner]

-----------------------------------------------------------------------------
(* Grabs *)

\* Mutant: three locks at once are left out
EvilLocks_two == {{}} \cup {{i, j} : i, j \in Locks}

\* The combinations of locks for which evil_grab_key grabs: its mods runs through
\* the locks from i to j
EvilLocks ==
  {{}} \cup {{l \in Locks : i <= l /\ l <= j} : i, j \in Locks} \cup {{i, j} : i, j \in Locks}

\* What XGrabKey and XUngrabKey concern
Combinations(b) ==
  IF b.kcb = 0 THEN {}
  ELSE IF b.state = AnyModifier THEN {b.kcb} \X Mods \X SUBSET Locks
  ELSE {b.kcb} \X {b.state} \X EvilLocks

\* do_bindmap_lookup_binding: with the modifiers, or else for any.  AnyModifier is
\* no known modifier: it is looked up as none
Lookup(bs, state, kcb) ==
  LET known == IF state = AnyModifier THEN "none" ELSE state
      exact == {b \in bs : b.kcb = kcb /\ b.state = known}
  IN IF exact # {} THEN exact ELSE {b \in bs : b.kcb = kcb /\ b.state = AnyModifier}

\* Mutant: it is not looked for in the other maps
Elsewhere_not(maps, rs, bm, b) == FALSE

\* Another map of the window has the key
Elsewhere(maps, rs, bm, b) ==
  \E k \in DOMAIN rs : rs[k].bm # bm /\ Lookup(maps[rs[k].bm], b.state, b.kcb) # {}

\* do_binding_grab_on_ungrab_on, for a set of bindings of bm
Concerned(maps, rs, bm, bs) ==
  UNION {Combinations(b) : b \in {x \in bs : ~Elsewhere(maps, rs, bm, x)}}

\* rbind_binding_added and _removed, for each time the map is on the window
Listed(rs, bm) == \E k \in DOMAIN rs : rs[k].bm = bm
Added(g, maps, rs, bm, bs) == IF Listed(rs, bm) THEN g \cup Concerned(maps, rs, bm, bs) ELSE g
Removed(g, maps, rs, bm, bs) == IF Listed(rs, bm) THEN g \ Concerned(maps, rs, bm, bs) ELSE g

-----------------------------------------------------------------------------
(* The maps of the window: w is its list and its grabs *)

Window == [rbinds |-> rbinds, grabs |-> grabs]
SetWindow(w) == rbinds' = w.rbinds /\ grabs' = w.grabs

\* region_do_add_bindmap_owned: the grabs first, then the link, at the head
AddOwned(w, bm, owner) ==
  [rbinds |-> <<Rbind(bm, owner)>> \o w.rbinds,
   grabs |-> w.grabs \cup Concerned(bindings, w.rbinds, bm, bindings[bm])]

\* remove_rbind: unlinked, then the grabs
remove_rbind(w, rb) ==
  LET at == CHOOSE k \in DOMAIN w.rbinds : w.rbinds[k] = rb
      rs == [k \in 1 .. Len(w.rbinds) - 1 |-> w.rbinds[IF k < at THEN k ELSE k + 1]]
  IN [rbinds |-> rs, grabs |-> w.grabs \ Concerned(bindings, rs, rb.bm, bindings[rb.bm])]

AddUnlessThere(w, bm, owner) ==
  IF Rbind(bm, owner) \in Range(w.rbinds) THEN w ELSE AddOwned(w, bm, owner)

\* The maps of r2 itself, first to last
AddMaps(w, r2) ==
  LET after[n \in 0 .. Len(MapsOf(r2))] ==
        IF n = 0 THEN w ELSE AddUnlessThere(after[n - 1], MapsOf(r2)[n], r2)
  IN after[Len(MapsOf(r2))]

\* Mutant: the innermost first
add_bindings_inner(w, r) ==
  LET after[n \in 0 .. Len(Managers(r))] ==
        IF n = 0 THEN w ELSE AddMaps(after[n - 1], Managers(r)[Len(Managers(r)) + 1 - n])
  IN after[Len(Managers(r))]

\* The maps of the managers first, so that those of r come before them
add_bindings(w, r) ==
  LET after[n \in 0 .. Len(Managers(r))] ==
        IF n = 0 THEN w ELSE AddMaps(after[n - 1], Managers(r)[n])
  IN after[Len(Managers(r))]

\* The rbinds that are to stay: those whose tmp is set
Owned(r) == UNION {{Rbind(bm, o) : bm \in Range(MapsOf(o))} : o \in Range(Managers(r))}
Stay == IF active_sub = NoOwner THEN {} ELSE Owned(active_sub)

UpdateOwned(w) ==
  LET v == IF active_sub = NoOwner THEN w ELSE add_bindings(w, active_sub)
      remove(u, x) == IF x.owner # NoOwner /\ x \notin Stay THEN remove_rbind(u, x) ELSE u
      after[n \in 0 .. Len(v.rbinds)] == IF n = 0 THEN v ELSE remove(after[n - 1], v.rbinds[n])
  IN after[Len(v.rbinds)]

-----------------------------------------------------------------------------
(* Actions *)

BindingsInit ==
  /\ keymap \in [Keysyms -> Keycodes]
  /\ bindings = [bm \in Range(Bindmaps) |-> {}]
  /\ rbinds = <<>> /\ grabs = {} /\ active_sub = NoOwner /\ scheduled = FALSE /\ binds = MaxBind

BindOp == binds > 0 /\ binds' = binds - 1

region_add_bindmap ==
  /\ BindOp
  /\ \E bm \in OwnMaps :
       Rbind(bm, NoOwner) \notin Range(rbinds) /\ SetWindow(AddOwned(Window, bm, NoOwner))
  /\ UNCHANGED <<keymap, bindings, active_sub, scheduled>>

region_remove_bindmap ==
  /\ BindOp
  /\ \E bm \in OwnMaps :
       Rbind(bm, NoOwner) \in Range(rbinds) /\ SetWindow(remove_rbind(Window, Rbind(bm, NoOwner)))
  /\ UNCHANGED <<keymap, bindings, active_sub, scheduled>>

\* One that is there for the same key is replaced, and only one
bindmap_add_binding ==
  /\ BindOp
  /\ \E bm \in Range(Bindmaps), ksb \in Keysyms :
       \E state \in Mods \cup (IF "anymod" \in BindCalls THEN {AnyModifier} ELSE {}) :
         LET b == Binding(ksb, keymap[ksb], state)
             found == {x \in bindings[bm] : x.kcb = b.kcb /\ x.state = b.state}
         IN \E gone \in IF found = {} THEN {{}} ELSE {{x} : x \in found} :
              /\ b.kcb # 0 /\ b \notin bindings[bm]
              /\ bindings' = [bindings EXCEPT ![bm] = (@ \ gone) \cup {b}]
              /\ grabs' = Added(grabs, bindings', rbinds, bm, {b})
  /\ UNCHANGED <<keymap, rbinds, active_sub, scheduled>>

bindmap_remove_binding ==
  /\ BindOp
  /\ \E bm \in Range(Bindmaps) : \E b \in bindings[bm] :
       /\ b.kcb # 0
       /\ bindings' = [bindings EXCEPT ![bm] = @ \ {b}]
       /\ grabs' = Removed(grabs, bindings, rbinds, bm, {b})
  /\ UNCHANGED <<keymap, rbinds, active_sub, scheduled>>

\* All bindings are removed by their old keycodes, then added by the new ones
bindmap_refresh(x, bm, codes) ==
  LET new == {[b EXCEPT !.kcb = codes[b.ksb]] : b \in x.bindings[bm]}
      maps == [x.bindings EXCEPT ![bm] = new]
  IN [bindings |-> maps,
      grabs |-> Added(Removed(x.grabs, x.bindings, rbinds, bm, x.bindings[bm]),
                      maps, rbinds, bm, new)]

RefreshAll(x, codes) ==
  LET after[n \in 0 .. Len(Bindmaps)] ==
        IF n = 0 THEN x ELSE bindmap_refresh(after[n - 1], Bindmaps[n], codes)
  IN after[Len(Bindmaps)]

\* No key is bound twice.  compare_bindings knows keycodes only
NoneTwice(bs) ==
  \A b, d \in bs : b.kcb # 0 /\ b.kcb = d.kcb /\ b.state = d.state => b = d

\* The keyboard is changed (MappingNotify).  Keysyms may share a keycode, but when two
\* that are bound in one map come to do so the map has two bindings for one key, and
\* that is only among the calls as "samecode"
ioncore_refresh_bindmaps ==
  /\ BindOp
  /\ \E codes \in [Keysyms -> Keycodes \cup {0}] :
       /\ codes # keymap /\ keymap' = codes
       /\ LET x == RefreshAll([bindings |-> bindings, grabs |-> grabs], codes)
          IN bindings' = x.bindings /\ grabs' = x.grabs
  /\ "samecode" \in BindCalls \/ \A bm \in Range(Bindmaps) : NoneTwice(bindings'[bm])
  /\ UNCHANGED <<rbinds, active_sub, scheduled>>

\* region_got_focus.  Deferred actions run before the next event is handled, and
\* the region that was active has lost the focus before
GetsFocus ==
  /\ BindOp /\ ((active_sub = NoOwner /\ ~scheduled) \/ "direct" \in BindCalls)
  /\ active_sub' \in Subs \ {active_sub} /\ scheduled' = TRUE
  /\ UNCHANGED <<keymap, bindings, rbinds, grabs>>

\* region_lost_focus, or the region goes (region_unset_parent)
LosesFocus ==
  /\ BindOp /\ active_sub # NoOwner /\ active_sub' = NoOwner /\ scheduled' = TRUE
  /\ UNCHANGED <<keymap, bindings, rbinds, grabs>>

region_do_update_owned_grabs ==
  /\ scheduled /\ scheduled' = FALSE
  /\ SetWindow(UpdateOwned(Window))
  /\ UNCHANGED <<keymap, bindings, active_sub, binds>>

BindingsNext ==
  \/ region_add_bindmap \/ region_remove_bindmap \/ bindmap_add_binding \/ bindmap_remove_binding
  \/ ioncore_refresh_bindmaps \/ GetsFocus \/ LosesFocus \/ region_do_update_owned_grabs

BindingsSpec == BindingsInit /\ [][BindingsNext]_binding

-----------------------------------------------------------------------------
(* Properties *)

BindingsTypeOK ==
  /\ bindings \in [Range(Bindmaps) -> SUBSET [ksb : Keysyms, kcb : Keycodes \cup {0},
                                              state : Mods \cup {AnyModifier}]]
  /\ active_sub \in Subs \cup {NoOwner}
  /\ \A bm \in Range(Bindmaps) : \A b \in bindings[bm] : b.kcb = keymap[b.ksb]

\* The server grabs exactly the keys that are bound in a map of the window, with
\* each combination of the locks, whatever maps share them and in whatever order maps,
\* bindings and keycodes come and go
GrabbedIffBound ==
  /\ BindingsTypeOK
  /\ grabs = UNION {{b.kcb} \X (IF b.state = AnyModifier THEN Mods ELSE {b.state}) \X SUBSET Locks :
                     b \in {x \in UNION {bindings[rbinds[k].bm] : k \in DOMAIN rbinds} : x.kcb # 0}}

\* When no update is pending the maps with an owner are those of the active region
\* and its managers, and a key finds the inner ones first
OwnersFollow ==
  ~scheduled =>
    LET owned == {k \in DOMAIN rbinds : rbinds[k].owner # NoOwner}
        place(k) ==
          CHOOSE i \in DOMAIN Managers(active_sub) : Managers(active_sub)[i] = rbinds[k].owner
    IN IF active_sub = NoOwner THEN owned = {}
       ELSE /\ {rbinds[k] : k \in owned} = Owned(active_sub)
            /\ \A j, k \in owned : j < k => place(j) >= place(k)
=============================================================================
