-------------------------------- MODULE Grab --------------------------------
(***************************************************************************)
(* Grabs of the keyboard and the pointer (ioncore/grab.c) and those who    *)
(* take them: submaps, quoting and waiting for the release of modifiers    *)
(* (key.c), keyboard resizing (kbresize.c, resize.c), dragging with the    *)
(* pointer (pointer.c, presize.c, the inner loop of eventh.c) and menus    *)
(* that last as long as a key is held (mod_menu/grabmenu.c).               *)
(*                                                                         *)
(* Grabs are a stack.  The handler of the top gets the keys; it may take   *)
(* another grab, end the operation it serves, or drop regions, and only    *)
(* then its answer is applied.  A grab below the top is marked and goes    *)
(* when it comes to the top.  The holder of a grab may be destroyed, the   *)
(* resize mode may time out, and Lua code may take a grab at any time.     *)
(*                                                                         *)
(* As the handlers call each other, a handler is an operator from states   *)
(* to states, and the state is one record.  Geometry and cursors are left  *)
(* out.                                                                    *)
(***************************************************************************)
EXTENDS Naturals, Sequences

CONSTANTS
  Root,       \* the root window, never destroyed
  Frames,     \* windows whose bindings are grabbed; may be resized
  Inputs,     \* windows of queries: bindings are looked up, not grabbed
  Menus,      \* menus that grabmenu may create
  Clients,    \* client windows
  NULL,
  MAX_GRABS,  \* slots of the array grabs
  DragCalls,  \* what Lua code may begin while a button is held
  MaxOps      \* bound of the model: keys, buttons, calls and destructions

Regions == {Root} \cup Frames \cup Inputs \cup Menus \cup Clients

ASSUME GrabAssumption ==
  /\ NULL \notin Regions /\ Root \notin Frames \cup Inputs \cup Menus \cup Clients
  /\ Menus \cap (Frames \cup Clients) = {} /\ Frames \cap Clients = {}
  /\ MAX_GRABS \in Nat \ {0}
  /\ DragCalls \subseteq {"kbresize", "quote"}
  /\ MaxOps \in Nat

VARIABLES
  s,      \* the state of the program, see TypeOK
  left    \* what is left of MaxOps
vars == <<s, left>>

-----------------------------------------------------------------------------
(* grab.c *)

Slots(t) == DOMAIN t.grabs
Top(t) == t.grabs[Len(t.grabs)]
grab_held(t) == t.grabs # <<>>

\* the keyboard of the X server, and input_mode, follow the grab installed
grab_kb_ptr(t, sqid) == [t EXCEPT !.xkb = sqid, !.input_mode = "grab"]
ungrab_kb_ptr(t) == [t EXCEPT !.xkb = NULL, !.input_mode = "normal"]

Establish(t, reg, handler) ==
  IF Len(t.grabs) < MAX_GRABS
  THEN grab_kb_ptr(
         [t EXCEPT !.grabs = Append(@, [holder |-> reg, handler |-> handler,
                                        remove |-> FALSE, sqid |-> t.last_sqid]),
                   !.last_sqid = @ + 1],
         t.last_sqid)
  ELSE [t EXCEPT !.dropped = TRUE]

\* the entries left when those marked are taken off the top
Unmarked(gs) ==
  LET keep == {i \in DOMAIN gs : ~gs[i].remove}
  IN IF keep = {} THEN <<>> ELSE SubSeq(gs, 1, CHOOSE i \in keep : \A j \in keep : j <= i)


\* Mutant: the grab below is not installed again
do_grab_remove_last(t) == ungrab_kb_ptr([t EXCEPT !.grabs = Unmarked(t.grabs)])

do_grab_remove(t) ==
  LET gs == Unmarked(t.grabs)
      u == ungrab_kb_ptr([t EXCEPT !.grabs = gs])
  IN IF gs = <<>> THEN u ELSE grab_kb_ptr(u, gs[Len(gs)].sqid)

\* the end of mark_for_removal; with no grab left it reads the element before
\* the array, and whatever that is, do_grab_remove then changes nothing
Settle(t) == IF grab_held(t) /\ Top(t).remove THEN do_grab_remove(t) ELSE t

\* mark_for_removal(grab, FALSE); i may have been taken off meanwhile
Mark(t, i) ==
  Settle(IF i \in Slots(t) THEN [t EXCEPT !.grabs[i].remove = TRUE] ELSE t)

\* ioncore_grab_remove: the topmost of the grabs with that handler
GrabRemove(t, handler) ==
  LET is == {i \in Slots(t) : t.grabs[i].handler = handler}
  IN IF is = {} THEN t ELSE Mark(t, CHOOSE i \in is : \A j \in is : j <= i)

-----------------------------------------------------------------------------
(* The killed handlers *)


\* Mutant: the grab is left to the answer of resize_handler
EndMode_nograb(t) ==
  IF t.mode = NULL THEN t ELSE [t EXCEPT !.mode = NULL, !.timer = "none"]

\* moveresmode_cancel and moveresmode_finish
EndMode(t) ==
  IF t.mode = NULL THEN t
  ELSE GrabRemove([t EXCEPT !.mode = NULL, !.timer = "none"], "resize")

cancel_moveres(t, reg) == IF t.mode = reg THEN EndMode(t) ELSE t

\* moveresmode_do_end alone: the timer of the keyboard stays, without a mode
p_moveres_end(t) ==
  IF t.p.reg # NULL /\ t.mode = t.p.reg
  THEN [t EXCEPT !.mode = NULL, !.timer = IF @ = "mode" THEN "idle" ELSE @]
  ELSE t

clear_subs(t, reg) == [t EXCEPT !.sub[reg] = 0]

finish_pointer(t) == [t EXCEPT !.p.state = "no"]

pointer_grab_killed(t) ==
  LET u == IF t.p.drag = "resize" THEN p_moveres_end(t) ELSE t
  IN finish_pointer([u EXCEPT !.p.reg = NULL])

\* what remains of a region after its watches have been called;
\* region_deinit asserts that no submap is pending
Free(t, r) ==
  [t EXCEPT !.alive = @ \ {r}, !.dying = @ \ {r},
            !.p.reg = IF @ = r THEN NULL ELSE @,
            !.aborted = @ \/ t.sub[r] > 0,
            !.sub[r] = 0]

\* Killing a menu destroys it, and the watch marks its grab, marked already
KilledHandler(t, g) ==
  CASE g.handler = "resize" -> cancel_moveres(t, g.holder)
    [] g.handler = "pointer" -> pointer_grab_killed(t)
    [] g.handler = "submap" -> clear_subs(t, g.holder)
    [] g.handler = "grabmenu" -> Settle(Free(t, g.holder))
    [] OTHER -> t

\* mark_for_removal(grab, TRUE)
Kill(t, i) ==
  IF i \in Slots(t) /\ ~t.grabs[i].remove
  THEN Settle(KilledHandler([t EXCEPT !.grabs[i].remove = TRUE], t.grabs[i]))
  ELSE Settle(t)


\* Mutant: only the topmost grab of the holder
HolderRemove_top(t, reg) ==
  IF grab_held(t) /\ Top(t).holder = reg THEN Kill(t, Len(t.grabs)) ELSE t

\* do_holder_remove(holder, TRUE), called by the watch of a grab: after the n
\* slots that were the topmost
HolderRemove(t, reg) ==
  LET kill(u, i) == IF i \in Slots(u) /\ u.grabs[i].holder = reg THEN Kill(u, i) ELSE u
      after[n \in 0 .. Len(t.grabs)] ==
        IF n = 0 THEN t ELSE kill(after[n - 1], Len(t.grabs) + 1 - n)
  IN after[Len(t.grabs)]

\* destroy_obj: p_regwatch was set up before any watch of a grab
Destroy(t, r) ==
  IF r \notin t.alive THEN t
  ELSE LET unwatched == [t EXCEPT !.p.reg = IF @ = r THEN NULL ELSE @]
           u == HolderRemove(unwatched, r)
       IN IF r \in u.alive THEN Free(u, r) ELSE u

-----------------------------------------------------------------------------
(* What bindings and Lua code call *)

region_begin_kbresize(t, r) ==
  IF t.mode # NULL THEN t
  ELSE Establish([t EXCEPT !.mode = r, !.timer = "mode"], r, "resize")

clientwin_quote_next(t, c) == Establish(t, c, "quote")

mod_menu_grabmenu(t, m) == Establish([t EXCEPT !.alive = @ \cup {m}], m, "grabmenu")

\* region_rqclose and the like: the destruction is deferred
rqclose(t, r) == [t EXCEPT !.dying = @ \cup {r}]

\* the calls a binding may make; "none" is any call that concerns no grab
Call(t, c) ==
  CASE c.op = "kbresize" /\ c.reg \in t.alive -> region_begin_kbresize(t, c.reg)
    [] c.op = "quote" /\ c.reg \in t.alive -> clientwin_quote_next(t, c.reg)
    [] c.op = "grabmenu" /\ c.reg \notin t.alive -> mod_menu_grabmenu(t, c.reg)
    [] c.op = "rqclose" /\ c.reg \in t.alive -> rqclose(t, c.reg)
    [] OTHER -> t

Calls ==
  [op : {"none"}, reg : {NULL}]
  \cup [op : {"kbresize"}, reg : Frames] \cup [op : {"quote"}, reg : Clients]
  \cup [op : {"grabmenu"}, reg : Menus]
  \cup [op : {"rqclose"}, reg : Regions \ {Root}]

-----------------------------------------------------------------------------
(* key.c *)

MaxSub == 2  \* bound of the model: depth of submaps

\* what a key is bound to; an escape kills the grab whatever it is bound to
Bindings == {"none", "submap", "call", "call_wait"}
Keys == [bound : Bindings, call : Calls]

\* do_key: the next state and what it returns
do_key(t, reg, k) ==
  LET grabbed == reg \in Frames \cup {Root}
  IN CASE k.bound = "submap" /\ t.sub[reg] < MaxSub ->
            [s |-> [t EXCEPT !.sub[reg] = @ + 1],
             ret |-> IF grabbed THEN "submap" ELSE "none_submap"]
       [] k.bound \in {"call", "call_wait"} ->
            [s |-> Call(IF grabbed THEN [t EXCEPT !.xkb = NULL] ELSE t, k.call),
             ret |-> IF k.bound = "call_wait" /\ t.sub[reg] = 0
                     THEN "waitrelease" ELSE "none"]
       [] OTHER -> [s |-> t, ret |-> "none"]

\* ioncore_do_handle_keypress; the binding may have destroyed reg, and the
\* modifiers may have been released before waitrelease looks
HandleKeypress(t, reg, k, mods) ==
  LET d == do_key(t, reg, k)
      u == d.s
  IN IF reg \notin u.alive THEN u
     ELSE CASE d.ret = "submap" -> Establish(u, reg, "submap")
            [] d.ret = "waitrelease" -> IF mods THEN Establish(u, Root, "waitrelease") ELSE u
            [] d.ret = "none" /\ u.sub[reg] > 0 -> clear_subs(u, reg)
            [] OTHER -> u


\* Mutant: a key that is bound to nothing leaves the path as it is
submapgrab_handler_keep(t, reg, k) ==
  LET d == do_key(t, reg, k)
  IN [s |-> IF k.bound = "none" THEN d.s ELSE clear_subs(d.s, reg), done |-> d.ret # "submap"]

\* submapgrab_handler, for a key that is no modifier
submapgrab_handler(t, reg, k) ==
  LET d == do_key(t, reg, k)
  IN IF d.ret = "submap" THEN [s |-> d.s, done |-> FALSE]
     ELSE [s |-> clear_subs(d.s, reg), done |-> TRUE]

\* resize_handler: the bindings of the mode are the functions it lists as safe
resize_handler(t, reg, op) ==
  LET u == IF t.mode # reg THEN t
           ELSE CASE op = "resize" -> [t EXCEPT !.timer = "mode"]
                  [] op \in {"finish", "cancel"} -> EndMode(t)
                  [] OTHER -> t
  IN [s |-> u, done |-> t.mode = reg /\ u.mode = NULL]

\* the answer of a handler that was called for slot n
Answer(n, sqid, r) ==
  IF ~r.done THEN r.s
  ELSE IF n \in Slots(r.s) /\ r.s.grabs[n].sqid # sqid THEN r.s
  ELSE Mark(r.s, n)

-----------------------------------------------------------------------------
(* Events.  A button that is pressed starts an inner loop, which reads only  *)
(* keys, buttons and motion, and runs timers; deferred actions and events    *)
(* that destroy windows wait until it is left.                               *)

Init ==
  /\ s = [alive |-> Regions \ Menus, dying |-> {}, aborted |-> FALSE,
           grabs |-> <<>>, last_sqid |-> 0, dropped |-> FALSE,
           xkb |-> NULL, input_mode |-> "normal",
           mode |-> NULL, timer |-> "none", sub |-> [r \in Regions |-> 0],
           p |-> [state |-> "no", reg |-> NULL, motion |-> FALSE, drag |-> "none"],
           loop |-> "main"]
  /\ left = MaxOps

Main == s.loop = "main" /\ s.dying = {}

\* the inner loop goes on while a grab is held
Loop(t) == [t EXCEPT !.loop = IF grab_held(t) THEN @ ELSE "main"]

Event(t) == ~s.aborted /\ left > 0 /\ left' = left - 1 /\ s' = Loop(t)

\* ioncore_handle_grabs: Escape
Escape == grab_held(s) /\ Event(Kill(s, Len(s.grabs)))

\* ioncore_handle_grabs: any other key goes to the handler of the top
ToHandler(handler, r) ==
  /\ grab_held(s) /\ Top(s).handler = handler
  /\ Event(Answer(Len(s.grabs), Top(s).sqid, r))

SubmapKey(k) ==
  ToHandler("submap", submapgrab_handler(s, Top(s).holder, k))

ResizeKey(op) == ToHandler("resize", resize_handler(s, Top(s).holder, op))

\* quote_next_handler and waitrelease_handler
LastKey(handler) == ToHandler(handler, [s |-> s, done |-> TRUE])

\* grabmenu_handler: the modifiers are released; menu_finish is deferred
GrabmenuRelease ==
  ToHandler("grabmenu", [s |-> rqclose(s, Top(s).holder), done |-> TRUE])

\* ioncore_handle_keyboard with no grab
Keypress(reg, k, mods) ==
  /\ Main /\ ~grab_held(s) /\ reg \in s.alive
  /\ Event(HandleKeypress(s, reg, k, mods))

\* ioncore_set_drag_handlers, called for p_reg
set_drag_handlers(t, drag) ==
  IF t.p.motion THEN t ELSE [t EXCEPT !.p.drag = drag, !.p.motion = TRUE]

\* a grabmenu can only be called from a key (ioncore_current_key)
PointerCalls == {c \in Calls : c.op # "grabmenu"}

\* ioncore_dodo_handle_buttonpress
ButtonPress(reg, drag, c) ==
  /\ c.op \in DragCalls \cup {"none", "rqclose"}
  /\ Main /\ ~grab_held(s) /\ reg \in s.alive
  /\ LET t == Establish([s EXCEPT !.loop = "drag",
                                  !.p = [state |-> "held", reg |-> reg,
                                         motion |-> FALSE, drag |-> "none"]],
                        reg, "pointer")
     IN Event(IF drag = "none" THEN Call(t, c) ELSE set_drag_handlers(t, drag))

\* ioncore_do_handle_motionnotify: the first motion beyond the threshold
MotionBegin(drag) ==
  /\ s.loop = "drag" /\ s.p.reg # NULL /\ ~s.p.motion
  /\ Event([s EXCEPT !.p.motion = TRUE, !.p.drag = drag,
                     !.mode = IF drag = "resize" /\ @ = NULL THEN s.p.reg ELSE @])

\* ioncore_do_handle_buttonrelease
ButtonRelease(c) ==
  /\ s.loop = "drag"
  /\ LET t == IF s.p.reg = NULL THEN s
              ELSE IF ~s.p.motion THEN Call(s, c)
              ELSE IF s.p.drag = "resize" THEN p_moveres_end(s) ELSE s
         u == finish_pointer(GrabRemove(t, "pointer"))
     IN Event([u EXCEPT !.loop = "main"])

\* Lua code called by a timer, or by another program through mod_notionflux
LuaCall(c) ==
  /\ c.op \in IF s.loop = "main" THEN {"kbresize", "quote"} ELSE DragCalls
  /\ ~s.aborted /\ left > 0 /\ left' = left - 1 /\ s' = Call(s, c)

\* a region is asked to go: its last client has left, a button was clicked
Close(r) ==
  /\ Main /\ r \in s.alive \ {Root} /\ r \notin Clients
  /\ Event(rqclose(s, r))

\* clientwin_unmapped, on an event of the X server
ClientGone(c) == Main /\ c \in s.alive /\ Event(Destroy(s, c))

\* mainloop_execute_deferred
ExecuteDeferred ==
  /\ s.loop = "main" /\ ~s.aborted
  /\ \E r \in s.dying : s' = Loop(Destroy([s EXCEPT !.dying = @ \ {r}], r))
  /\ UNCHANGED left

\* tmr_end_resize: the timer holds the mode it was set for, or nothing
ResizeTimeout ==
  /\ ~s.aborted /\ s.timer = "mode"
  /\ s' = EndMode(s) /\ UNCHANGED left

Next ==
  \/ Escape \/ GrabmenuRelease
  \/ \E k \in Keys : SubmapKey(k)
  \/ \E op \in {"none", "resize", "finish"} : ResizeKey(op)
  \/ LastKey("quote") \/ LastKey("waitrelease")
  \/ \E reg \in Regions \ Clients, k \in Keys, mods \in BOOLEAN : Keypress(reg, k, mods)
  \/ \E reg \in Frames, drag \in {"none", "resize", "tab"}, c \in PointerCalls : ButtonPress(reg, drag, c)
  \/ \E drag \in {"none", "resize", "tab"} : MotionBegin(drag)
  \/ \E c \in PointerCalls : ButtonRelease(c) \/ LuaCall(c)
  \/ (\E r \in Regions : Close(r)) \/ (\E c \in Clients : ClientGone(c))
  \/ ExecuteDeferred \/ ResizeTimeout

Spec == Init /\ [][Next]_vars

-----------------------------------------------------------------------------
(* Properties *)

Grab == [holder : Regions, remove : BOOLEAN, sqid : Nat,
         handler : {"resize", "pointer", "submap", "quote", "waitrelease", "grabmenu"}]

\* The state of the program
TypeOK ==
  /\ s.alive \subseteq Regions /\ s.dying \subseteq Regions
  /\ s.grabs \in Seq(Grab) /\ Len(s.grabs) <= MAX_GRABS /\ s.last_sqid \in Nat
  /\ s.xkb \in Nat \cup {NULL} /\ s.input_mode \in {"normal", "grab"}
  /\ s.mode \in Regions \cup {NULL} /\ s.timer \in {"none", "mode", "idle"}
  /\ s.sub \in [Regions -> 0..MaxSub] /\ s.loop \in {"main", "drag"}
  /\ left \in 0..MaxOps

\* Between two events the keyboard is grabbed for the grab on top of the stack,
\* which is not one to be removed, and for nothing when there is none: no
\* order of endings leaves the keyboard dead, or keys going past a handler
\* (do_grab_remove, mark_for_removal, do_key's own XUngrabKeyboard)
XGrabMatches ==
  IF grab_held(s)
  THEN s.xkb = Top(s).sqid /\ ~Top(s).remove /\ s.input_mode = "grab"
  ELSE s.xkb = NULL /\ s.input_mode = "normal"

\* A grab that is not to be removed has a holder that lives (grab_watch_handler):
\* handlers are called with the holder
HoldersLive ==
  \A i \in Slots(s) : ~s.grabs[i].remove => s.grabs[i].holder \in s.alive

\* The stack of grabs is what the server and the handlers take it for
GrabsSound == TypeOK /\ XGrabMatches /\ HoldersLive

\* A keyboard resize has its grab exactly as long as its mode lasts, however
\* it ends: by key, Escape, timer or the destruction of the region, and
\* whatever lies above it in the stack (moveresmode_cancel, cancel_moveres)
ResizeGrabIffMode ==
  s.dropped \/
    \A r \in Frames :
      (\E i \in Slots(s) : /\ s.grabs[i].handler = "resize" /\ ~s.grabs[i].remove
                           /\ s.grabs[i].holder = r)
      <=> (s.mode = r /\ s.timer = "mode")

\* The path into a submap of a window whose bindings are grabbed is kept
\* only while a grab waits for the next key (submapgrab, clear_subs)
SubmapHasGrab ==
  s.dropped \/
    \A r \in Frames \cup {Root} :
      s.sub[r] > 0 => \E i \in Slots(s) : /\ s.grabs[i].handler = "submap"
                                          /\ ~s.grabs[i].remove /\ s.grabs[i].holder = r

\* What lasts from key to key, a mode or a path, lasts as long as its grab
ModesHaveGrab == ResizeGrabIffMode /\ SubmapHasGrab

\* Not so in the code: region.c:118, a region is not destroyed within a submap
\* (assert(reg->submapstat==NULL) in region_deinit).
NoSubmapAtDeinit == ~s.aborted

=============================================================================
