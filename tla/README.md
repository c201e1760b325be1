# Notion in TLA+

A verification project for Notion, a tiling window manager for X11. The TLA+
modules are translated from the C sources; `PROJECT.json` maps every definition to
the lines it models, and lists runs, mutants, hazards, findings and theorems.

1. [The system](#the-system)
2. [The modules](#the-modules)
3. [The runs](#the-runs)
4. [What the runs found](#what-the-runs-found)
5. [The proofs](#the-proofs)
6. [Not modelled](#not-modelled)
7. [The plan](#the-plan)

## The system

Notion is one process with one thread. A loop (`ioncore_mainloop`) reads X events,
signals, timers and pipes; every handler runs to its end. What makes it hard is not
threads but the order of things: signals arrive between any two instructions, the X
server answers later than it is asked and says things about windows that are gone,
the session manager has its own idea of what comes next, and a handler deep in a
chain of calls may destroy the region its caller is working on.

| Component | State | Operations | Interacts with | Correct if |
|---|---|---|---|---|
| Objects, watches, deferred actions (`libtu/obj.c`, `libmainloop/defer.c`) | flags of an object, its watches; the list of deferred actions in a static buffer of 16 and the heap | `destroy_obj`, `watch_setup`, `mainloop_defer_action`, `mainloop_defer_destroy`, `mainloop_execute_deferred` | everything: all regions, timers, hooks and placeholders are objects | an object is destroyed once; no action runs on a dead object; buffer slots are neither lost nor shared; every action is executed or cancelled |
| Main loop, signals, timers (`libmainloop/signal.c`, `select.c`, `ioncore/event.c`) | flags raised by handlers; sorted queue of timers; the interval timer; the signal mask | `mainloop_check_signals`, `timer_set`, `timer_reset`, `mainloop_select`, `ioncore_get_event` | handlers call back into everything | the loop never sleeps over something it should do; timers fire in order, not early, and do fire; children are waited for |
| Focus (`ioncore/focus.c`, `eventh.c`, part of `event.c`) | ACTIVE flags and `active_sub` links, `focus_current`, the history `focuslist` with its delayed insertion, the awaited and the next region | focus and enter events, `region_goto`, `ioncore_goto_previous`, `ioncore_flushfocus`, the deinit of a region | X server; regions being destroyed and reparented | the flags agree with the X server when the dust settles; nothing points to a freed region; a request is not lost |
| Regions (`region.c`, `attach.c`, `detach.c`, `return.c`, `activity.c`) | two trees over the same regions: parent (windows) and manager | attach, detach, dispose with rescue of clients, activity counts | all classes of regions | both trees stay consistent through attaching and destruction; no client window is lost |
| Multiplexers, groups, stacking, placeholders (`mplex.c`, `llist.c`, `group*.c`, `stacking.c`, `*pholder.c`) | lists of members, the current one, stacking order and levels, placeholders | attach, remove, switch, hide, restack | focus, frames, screens | the current member is one of the list; placeholders lead to a place that exists |
| Client windows (`clientwin.c`, `manage.c`, `fullscreen.c`, `netwm.c`) | state of a client, its placeholders, transients | map, unmap, configure requests, fullscreen | X clients, groups, frames | a client is managed once and found again after fullscreen |
| Tiling (`mod_tiling/`) | a binary tree of splits with sizes and bounds | split, unsplit, resize, rotate | frames | the leaves tile the rectangle within their bounds |
| Grabs and keyboard resizing (`grab.c`, `kbresize.c`, `binding.c`) | a stack of grabs, a resize mode with a timer | establish, remove by handler, by holder, by Escape | the X keyboard grab, timers | the keyboard is grabbed exactly while a grab is on the stack |
| Names (`names.c`) | a tree of names with instance numbers | register, unregister | all regions | names are unique, numbers are reused |
| Session (`ioncore/exec.c`, `mod_sm/`) | the hook of the session manager, `save_complete_fn`, the restart hint | `ioncore_shutdown`, `restart`, `resign`, `snapshot`, messages of the manager | session manager | what is asked for last happens, after a save, and the manager gets its answers |
| Hooks, descriptors, pipes (`hooks.c`, `select.c`, `exec.c`) | lists walked while callbacks change them | register, unregister, call | Lua, ion-statusd | a callback may remove any entry |
| Queries and completion (`mod_query/`) | the line, the completions and the numbers of requests for them | edit, complete, answer | Lua completers, timers | an answer is used only for the request that waits for it |

Two things cut across all of them: **destruction** (a destroyed region takes its
children, members, watches, deferred actions and its place in the focus variables
with it, at any depth of the stack) and **asynchrony** (`goto` is a note to focus
later, deferred actions run from the loop, timers insert into the history, a
restart under a session manager only starts a conversation).

## The modules

| Module | Models | Proofs |
|---|---|---|
| `Deferred` (`MCDeferred`) | objects, watches and deferred actions | `Deferred_proof` |
| `TimerService` | what the timers promise: the abstract specification | |
| `MainLoop` (`MCMainLoop`, `MCSignals`) | signals, timers, the loop; implements `TimerService` | `MainLoop_proof` |
| `Hooks`, `Inputs`, `TimeVal` (`MCServices`) | hooks that are called; descriptors, pipes and the connections of notionflux; the arithmetic of `struct timeval` | `Services_proof` |
| `Focus` (`MCFocus`) | focus, and what destroying, reparenting and events do to it | |
| `ClientWin` (`MCFocus`) | windows of clients, between the client, the X server and ioncore | `ClientWin_proof` |
| `Session` (`MCSession`) | exit, restart and save, with and without a session manager | `Session_proof` |
| `Bindings`, `Grab` (`MCKeys`) | the keys that are grabbed on a window; the stack of grabs, submaps, keyboard and pointer resizing | `Keys_proof` |
| `DList` | the linked lists of `libtu/dlist.h` | |
| `MPlex` (`MCMPlex`) | multiplexers, their placeholders, full screen and return, over `DList` | |
| `Stacking` | the stacking list of a window and its operators, without state | |
| `Groups` | groups, their stacking, status display and placeholders, over `Stacking` | `Groups_proof` |
| `HistoryList` | what the history of queries promises: the abstract specification | |
| `History` | the ring that implements it | `Query_proof` |
| `Query` (`MCQuery`) | queries with completion, over `History` | |
| `Split` | the tree of splits and its operators, without state | |
| `Tiling` (`MCTiling`) | workspaces that are tilings, over `Split` | |

The MC modules name the objects of an instance. `MCServices`, `MCKeys` and `MCFocus`
check modules that share no state in one run: the variable `part` says which of them a
behaviour is about, and the others rest. Definitions marked "Mutant" are the ways in which
the code might plausibly be wrong; no specification uses them, each one replaces its
neighbour to show that a property would notice.

### Deferred

`life` is the state of each object (an address may be allocated again once it is
free), `deferred` the list, `dbuf_used` the slots of the static buffer, `stack` the
frames of code running: a handler, the watch handlers of an object being destroyed,
its destructor. Every call the code makes while it runs is an action guarded by a
non-empty stack, so destruction nests as it does in C. `Link` and `Unlink` are
`defer_action_on_list`'s linking and `free_defer`; `Destroy`, `EnterDeinit` and
`Free` are the three parts of `destroy_obj`; `Execute` is one round of
`mainloop_execute_deferred`. Deferring on an object that is being destroyed loses the
object (`watch_setup` refuses), and the action runs without one, as in the code.
Watch handlers other than that of a deferred action run no code here.

### MainLoop and TimerService

`pc` is where the program is, at the granularity at which a signal makes a
difference: one step for each flag tested or cleared, each system call and each
update of the queue. Signals become `pending` at any time and are delivered between
any two steps unless blocked. `mainloop_check_signals` is the steps `usr2` to `fire`,
`timer_do_set` is `insert`, `do_timer_set` is `set` and `itimer`, `mainloop_select` is
`test` to `unmask`; `ioncore_get_event`, which sleeps in `select` with nothing
blocked, is `getx` and `select`. Timers are kept by the moment they are due.

`TimerService` knows a clock, a moment for each timer and the handler that runs: a
handler runs once for each set, after its moment, not before that of an earlier
timer, one at a time. `MainLoop!ImplementsService` maps the queue to it.

### Hooks

`items` is the list, `fnOf` what each item calls, `calls` the calls at work, innermost
first: each holds the item it goes on with (`next`, read before the function of the
present one is called) and whether a function is `running`. `called`, `start` and
`removed` are auxiliary. The functions that run may add and remove items and call the
hook again, up to `MaxNested` deep.

### Inputs

`input_fds` is the table of `select.c`, `open` what the kernel's descriptors stand for
(the lowest free number is taken again), `rfds` and `next` the round of
`mainloop_select` that is under way. A stream is a pipe from a program, of which
`process_pipe` hands data and end to a handler, or a connection of notionflux, with one of
`MAX_SERVED` buffers of `MAX_DATA`. What is sent is counted, not kept. `handled` and
`replied` record what handlers and clients are told: a client that hangs up is told
nothing, and the handler of a pipe that cannot be read is not told the end, as in the
code. A request that is complete runs Lua code, which may start a program before the
connection is closed. `accept` and `fcntl` may fail.

### TimeVal

The clock in ticks of a microsecond, `struct timeval` as seconds and microseconds, the
unsigned int in which milliseconds are multiplied with its width: `add_to_current_time`,
`libmainloop_get_timeout`.

### Focus

The handlers call each other deeply (destroying a client detaches it from its group,
which focuses another client at once, which asks the X server), so each handler is an
operator from a state to a state, and the state is one record `s`: the two trees, the
ACTIVE and PSEUDOACTIVE flags, `active_sub`, `current_managed` of groups, the six
focus variables, and the X server's focus with its queue of events. `Destroy` is a
sequence of `Begin` and `End` steps over the subtree, in the order of the destructors
of clients, windows and groups. The X server (external) sends FocusOut and FocusIn to
the windows between the old and the new focus, with the detail the handlers look at;
it takes the focus from unmapped windows, and events of forgotten windows find no
region. Clients may refuse the focus, take it, or unmap at any time; the notification
of an unmapping travels with the other events.

Left open in the model: which member a multiplexer or an empty group gives the focus
to (`p`, any; in the code it follows from stacking and history). Left out: warping,
colour maps, hidden members (a frame shows one region at a time, and a client is
attached only to an empty frame), several X screens.

### ClientWin

One record `cw`: the X server's windows `x` (parent, mapped, selected events, save set,
WM_STATE, border, geometry), the requests `out` that ioncore has not flushed and the events
`ev` it has not read, what ioncore keeps of each window (`cwin`), and where a handler is
that waits for the server (`pc`, `tmpwins`), for the client may act in between. `wants`
(the client asked to be shown), `asked` (a ConfigureRequest without answer), `refused`,
`twice`, `kept` are auxiliary. Lazy and acrobatic windows (`winprops`) and dockapps with
an icon window are kinds of windows. `Execute` is the server; destroyed windows make
requests void. `Exit` and `Crash` end ioncore with requests in any state, the server then
carries out the save set, and `Start` scans what is there. A client that asks to be full
screen by its ConfigureRequest is always shown then (`clientwin.c:1270`).

### Session

Variables are those of `exec.c` and `sm_session.c` by name; `c2s` and `s2c` are the
messages on the connection, `sm` is the session manager, external, keeping to the
protocol of XSMP: one save at a time, other requests wait, a shutdown may be cancelled
until it is over. `session` counts the changes made, `saved` is what was saved last,
`asked` remembers the last request. `mod_sm_close` is a lost connection.

### Bindings

One window: `rbinds` are its maps of bindings, some with an owner (a region within the
window that does not grab keys itself), `bindings` the contents of the maps, `keymap` the
keycodes the server gives keysyms, `grabs` the set of keys, modifiers and locks the server
grabs. Adding and removing maps and bindings, a new keyboard mapping, and the change of
the active region with its deferred update are the actions.

### Grab

The state is one record `s`, as in `Focus`: `grabs` is the stack, each entry with its
holder, its handler, the mark `remove` and the sequence number by which
`ioncore_handle_grabs` finds it again after the handler has run; `xkb` is the grab the
X keyboard grab was last made for. `mode` and `timer` are those of keyboard resizing,
`sub` how deep in a submap a window is, `p` what the pointer holds and `loop` whether
`ioncore_do_handle_buttonpress` runs its own loop. `Keypress`, `ButtonPress`,
`MotionBegin`, `ButtonRelease`, `ResizeTimeout`, `ExecuteDeferred` are the events;
`Call` is what the Lua function of a binding may call, `HandleKeypress` with `Answer`
what becomes of its answer. Geometry, cursors and the look-up of bindings are left out, and the
Lua functions that are called when a submap is entered and when its modifiers are released
(`key.c:314-336`): any function may be called by the keys before and after.

### DList and MPlex

Lists are kept as the code keeps them: `next`, `prev` and first pointers closed backwards
only, with assignments in the order of the macros, for the properties are about what a
wrong order breaks. `mx` and `cur` are `mx_list` and `mx_current` of a multiplexer, `phs`
the heads of the placeholder lists (`misc_phs` of a frame, `lnode->phs` of a member),
`home` and `after` where a placeholder stands, `rec` whether it can recreate its frame,
`ret` the placeholder a region will return to. `mplex_managed_remove`,
`mplex_do_attach_final`, `mplexpholder_do_link`, `mplexpholder_do_unlink` and the moves of
placeholders are operators by those names; disposal with rescue, full screen, detaching and
reattaching, switching, hiding, mapping, fitting and reordering are actions. Nondeterministic:
which member has the focus (and so is "current" to commands), whether a rescued client
finds another frame. Who returns is switched to; a return without switching
(`mplexpholder.c:309-312`) is left out.

### Stacking and Groups

`Stacking` has the operators of `stacking.c` on a record of the list, the levels, what an
item is above, and the server's order, which the program only changes relative to a
sibling. In `Groups` one record `g` has for each window of a multiplexer the list and the
server's order; for each group its window, its managed regions, bottom, current region and
status display; and the placeholders of regions that are outside (`ph`, and `phs` of a
group, or `detached` once the group has gone). Attaching, closing, moving a group between
windows, raising and lowering, switching, detaching and returning are the actions. A
region has one placeholder at most; geometry is left out.

### HistoryList, History and Query

`HistoryList` is a sequence without duplicates; `History` is the ring of `history.c`, whose
pushes move an entry to the front in place. `Query!HistoryStaysList` is that the steps of
the ring, also one that is full and wrapped, are steps of the list. In `Query`, `w` is the
`WEdln`: the line and the point (lines are numbers, and a line is a prefix of the larger
ones), the place in the history, the completions shown (`list`, `sel`), and the three
numbers `waiting`, `current`, `timed` by which answers find the request they answer; `run`
and `done` (auxiliary) count calls of the completor. `proxies` are the answers that are
outstanding, which come in any order or never. `fresh` (auxiliary) is that completions were
asked for since the line changed. Every change of the line is told to
`wedln_update_handler` except the one by `edln_cut`, which is an action of its own.

### Split and Tiling

A tree is a function from nodes to records (`up`, `tl`, `br`, `dir`, `current`, `geom`,
`min`, `hint`), and each C function on it an operator of the same name, written as a
function of the tree: bounds from the leaves upwards, sizes from the root downwards, the
requests (`split_do_rqgeom_`) up and then down. Division truncates as in C (`Quot`).
`Tiling` has the calls as actions; a removed frame, a new one, the focus that follows and
the workspace that is resized or rotated are parts of them. A split that finds no room
only updates the bounds. What a new frame needs (`hint`) is what the C code is told after it
has made room for `SPLIT_MINS`. Left out: the tiling whose last frame cannot be replaced,
which the code itself calls useless (`tiling.c:723-729`).

## The runs

| Run | Instance | Shows |
|---|---|---|
| `deferred` | two objects, two slots and the heap, at most 3 entries, stack of 2 | `ListSound`: slots exact, entries name live objects or none; `DestroySound`: destruction once and as asked; `EventuallyServed` |
| `mainloop_timers` | two timers (symmetric), delays up to 2, set before moment 2 | `NoLostTimer`: the queue is sorted and the loop never sleeps without an alarm; `OnTime`: nor with one too late; `ImplementsService` |
| `mainloop_signals` | two children, SIGUSR2 and SIGTERM, or a timer | `NoMissedSignal`, `NoLostChild`: no sleep over what a signal announced; `ChildrenReaped`, `TimersServed` |
| `services` | three functions, 6 operations, 2 nested calls; two or three pipes and connections with errors and hang-ups, one buffer of 2; seconds of 10 ticks and a uint of 4 bits | `CallsSound`: a call of a hook calls what was there, once; `StreamsKept`: data, ends and answers reach their own handler or client, though numbers are used again; `TimerExact` |
| `session` | one command, 2 requests, 1 save of the manager's own, 1 change, 1 loss of connection | `OneDone`: one answer for each save; `RequestKept`: the last request wins, saved first; `SaveAnswered`, `RestartHappens` |
| `focus` | two frames, a group, a client and its transient that refuses the focus, 4 operations; or a client window, or a dockapp with its icon, 2 moves, 1 end of ioncore | `LinksFollow`, `CurrentFirst`, `GotoArrives`: no dangling references, agreement with the X server, history, requests arrive; `ClientsKnown`, `ConfigureAnswered`, `NoWindowLost`: who asks to be shown is managed, is answered, and survives ioncore |
| `keys` | five maps, two keysyms and keycodes (also shared), three locks, 5 changes; or two frames, a query, a menu, a client, stack of 3, 6 events | `GrabbedIffBound`, `OwnersFollow`: the server grabs what is bound, the maps of the active region come first; `GrabsSound`, `ModesHaveGrab`: the X grab is that of the top of the stack, holders live, modes go with their grabs |
| `mplex` | a floating and two tiled frames, two or three members in one of them, three placeholders; 4 calls | `LinksSound`: lists sound; `OneShown`: one member shown and mapped; `OrderKept`: who returns finds its place |
| `mplex_assert` | two regions, with the call that is left out of `mplex` | expects a violation, see below |
| `groups` | a workspace and a group of a client window, two windows, two clients and a tiling, two levels; 3 calls from a start with a region attached | `GroupsSound`: one ordered stacking, which the server has too; `STDispShown`; `FocusReaches`: no focus below a modal region, navigation complete; `StayTogether`: placeholders return to one group |
| `query` | three lines, histories of 3 entries, empty or full; 4 operations | `AskedAfterChange`, `AnswerFits`: answers belong to the line and run, a line that was changed, but by cutting, is asked for; `HistoryStaysList`: the ring is the list |
| `tiling` | up to four frames with minima of 1x2 on workspaces of 5x4 and 3x5, `SPLIT_MINS` 1; 4 calls | `Tiled`: without gap or overlap, neighbours adjacent; `MinKept`; `CurrentFollows` |

Why the bounds are enough to be interesting:

* `deferred`: three entries on two slots mix buffer and heap in every order; two
  nested frames let a destructor destroy, defer on and cancel for another object.
* `mainloop_timers`: with two timers each may be set before, at and after the other,
  reset while armed or due, and set by the handler of either. The clock is not
  bounded by the timers: expiry may be arbitrarily late.
* `mainloop_signals`: two children are enough for two deaths on one signal.
* `services`: six operations add three functions and still call, remove and add within a
  call within a call. Three streams and one buffer: one connection more than is served,
  and a number closed and taken again in one round. 15 ms of 2 ticks overflow the 4-bit
  unsigned int and pass two seconds.
* `focus`: 4 operations allow, for instance, goto, unmap, steal and enter to overlap,
  with their events interleaved in every way; a counterexample of 3 was typical of
  earlier errors in the model. Five frames or clients add no new kind of step. Two moves
  of a client around a start and an end of ioncore meet every request and event on the
  way; windows do not interact, except a dockapp and its icon.
* `session`: two requests are needed to cross, one save of the manager to cross with.
* `keys`: three grabs put one between the top and the one that ends; six events are
  enough to stack three and end them in another order with a destruction between. Five
  changes put two maps with a shared key on the window, change it, and take one away.
* `mplex`: three placeholders can stand behind one member, in the order in which they
  came, and move twice. The run starts with members attached (`MCInit`), which are two or
  three calls more, and deferred destructions are not counted; with two tiled frames the
  members of one that is unsplit go to the other.
* `groups`: three regions, two of them above, below or modal to each other, two groups in
  one window or each in its own; a detach, an end of the group and a return are three calls.
* `query`: 4 operations with two answers outstanding cross in every order; three
  entries make every fill of the ring, wrapped or not.
* `tiling`: four frames are the least with a split below a split on both sides; on 5x4
  one frame cannot shrink, two of a row have to share what is left, and halves are odd. With
  `SPLIT_MINS` below the minimum in one direction, as it may be in the code, splits meet the case in which the
  frame fits nevertheless.

Fairness:

* `Deferred`: handlers return and the loop goes round. `SF` on `Return` and `Free`,
  since a handler may make more calls at any time before it returns.
* `MainLoop`: the program's own steps are taken; handlers end whatever they do before;
  the clock goes on (`SF(Tick)`) and a pending signal is delivered if unblocked again
  and again (`SF(Deliver)`), which POSIX promises of `pselect`. Nothing is assumed of
  the user, of the X server or of children. `ioncore_get_event` waits for the X server
  alone, so the liveness properties exempt it (`Elsewhere`).
* `Session`: the loop reads the connection and the manager goes on with what it has.
* The others are checked for safety only and assume none.

`CHECK_DEADLOCK FALSE` is set where the system may stop: the process has ended
(`session`, `mainloop_signals`), or the operations of the bound are used up and all is
quiet (`services`, `focus`, `keys`, `mplex`, `groups`, `query`, `tiling`).

## What the runs found

One run checks a statement of the sources that the code does not keep:

* `mplex_assert`: the placeholders of a floating frame that is gone stay on a list
  without a head. When the last of two goes, `assert(next->prev==ph)`
  (`mplexpholder.c:94`) fails, because `ph->prev->next` is cleared first, so that
  `get_head` returns `ph` itself. When the first goes, the list becomes a circle.

The following were found in the same way, with the call in question included in the
instance, and are kept as notes. Where a definition is named, it stands in the module,
marked "Not so in the code", and TLC refutes it when it is listed as an invariant.

* Main loop, `NoUnhandledSignal`: SIGUSR1 is not among the signals blocked around
  `pselect` (`signal.c:547-551`), so one delivered just before it sleeps is handled at
  the next event only. With `pselect` the comment in `select.c:126` expects no such race.
* `TimeVal`, `DueAsDocumented`: `msecs * 1000` is computed in an unsigned int
  (`signal.c:281`): a timer of more than 71 minutes comes early.
* `Session`, `RestartDoesNotReturn`: under a session manager a restart by SIGUSR1
  returns, into `assert(0)` (`event.c:48`). `SavedFirst`: any SaveComplete triggers the
  pending restart, also that of an earlier save (`sm_session.c:263`): the session at the
  request is not saved. `SavedFirstQuiet` says what does hold.
* `Focus`, `DeletedNotInserted`: deleting the region that awaits insertion into the
  history resets the timer but not the pointer (`focus.c:263-270`): `goto_previous` right
  after inserts freed memory, contrary to the comment at `focus.c:358`.
* `Hooks`, `"removenext"` in `HookCalls`: a function that removes the item that comes next
  leaves the call going on with freed memory (`hooks.c:349`).
* `Inputs`, `"nomem"` in `InputCalls`: when a connection cannot be registered its buffer
  keeps `data` (`mod_notionflux.c`), and the next connection fails the assertion that there
  is none. `receive_data` adds `n` to `ndata` and then compares `ndata+n` with the size, so
  it is "too much" at the wrong moment, and a full buffer reads nothing, which is taken for
  the end ("Connection closed prematurely", a warning only): the client gets no answer. When a pipe cannot be read
  the handler is not told that it ends (`exec.c:219-224`). `mainloop_popen_bgread` leaves the first pipe registered
  when the second fails (`exec.c:287`).
* `Bindings`, `BindCalls`: `"direct"`: with the focus going straight from one active region
  to another the maps of both are on the window, and a key of the same map loses its grab
  (`regbind.c:34`); `"anymod"`: a binding for any modifier beside one for a certain one;
  `"samecode"`: when two keysyms that one map binds come to share a keycode, `bindmap_refresh`
  keeps both bindings (`binding.c:235-238`), and removing one (`binding.c:305-332`) ungrabs
  the key that the other still binds.
* `Groups`: of the placeholders that are left by a group the first goes, and their list
  becomes a circle, or the last of several, and `assert(next->prev==ph)` fails
  (`grouppholder.c:79`), both as in `mplex_assert`. The behaviours end before such a call
  (`PhRemovable`), and the properties say nothing of what follows it. `"bottom"` in
  `GroupCalls`: another region becomes the bottom while the tiling that was has the status
  display, which stays there.
* `ClientWin`, `ClientCalls`: `"masked"`: what a client does while ioncore has deselected
  its events is never noticed; `"again"`: a dockapp whose main window is mapped twice has
  its icon managed twice; `"lazymap"`: a lazily resized window that is shown with its frame
  keeps the old geometry (the comment at `mplex.c:826`). A window that a hook refuses does
  not get its border back.
* `Grab`, `NoSubmapAtDeinit`: within a submap of a window whose bindings are not grabbed
  (a query after Control+K) nothing clears `submapstat` before the next key; when the
  region is destroyed first, the assertion of `region.c:118` fails. With `DragCalls`
  including `"kbresize"`: a keyboard resize begun while a button is held is ended by
  `p_moveres_end` without its grab or its timer.
* `MPlex`, the guarded calls (`Guarded`), each of which breaks an invariant when it is
  added to `Calls`: `"hide"` (`mplex_set_hidden` of the current member leaves it current),
  `"number"` (a visible unnumbered member that is put on the list is shown beside the
  current one), `"index_self"` (an index relative to the current member given to that
  member: it is linked after itself, `mplex.c:316`), `"question"` (asking whether a frame
  may go moves placeholders, `frame.c:712`), `"orphan"` (above).
* `Query`, `"one"`: a single completion from the history that is put in place without a
  list leaves the numbers as if it were still waited for. `"cut"`: `edln_cut` updates without
  saying that the line changed (`edln.c:549-555`), so that with automatic completions `wedln_update_handler`
  (`wedln.c:878-880`) neither sets the timer nor gives up the request: the new line is not
  asked for, and an answer for the old one is accepted.
* `Split` and `Tiling`, by `Calls`: `"transpose"`: `splitsplit_do_rqsize` (`split.c:1226`)
  has no fallback for minima that do not fit, as `splitsplit_do_resize` has, so a request
  to resize after such a transposition makes regions overlap; and transposing shares out
  by the minima of the old directions (`split.c:615`), so a frame may fall below its
  minimum although there is room. `"swap"`: `tiling_swap_leaves` (`tiling.c:1255`) leaves
  the `current` marks, so that another region than the focused one becomes current.
  `"small"`: a workspace below the minima. `"mins"`: a split asks for `SPLIT_MINS`
  (`tiling.c:950`, "totally arbitrary"), not for the minimum of the new frame; a frame that needs more
  is below its minimum, and the next request to resize makes frames overlap. The same goes for
  the frame that replaces the last one. `"noframe"`: when the new frame cannot be created its siblings have already made
  room (`split.c:1688-1734`), and the split one has not grown: a gap. `splittree_flip_dir` never flips the node it is
  called for, so rotating by 180 degrees leaves the root as it was.

The instances leave these calls out, and their properties hold for all others that are
modelled, in every order.

## The proofs

TLC checks the instances above; the following hold for all values of the constants.
The assumptions are the named `ASSUME`s of the modules: distinctness of the special
values, types of the bounds, and what the constants of the C code are (a history has at
least one place, a second some microseconds, there are finitely many streams). The
variants that a run leaves out on purpose (`"nomem"` in `InputCalls`, `"one"` and `"cut"` in `Calls`, `"samecode"` in `BindCalls`:
calls that break an invariant, see *What the runs found*) are hypotheses of the theorems
that need them, and the runs choose the same.

**Deferred_proof**: `Spec => []IInv` with `IInv` the conjunction of `TypeOK`,
`SlotsExact`, `EntryObjectValid`, `DestroyIsSound` and `DestroyedOnce`: together they
are inductive. That entries name live objects needs that a destroyed object's entries
are cancelled before it is freed (the watch frame), which needs that destruction is
once; that slots are exact needs that the heap is no slot. Lemmas `LinkFacts`,
`UnlinkFacts` and `UnlinkSlots` say what linking and unlinking do to the list,
`LinkKeeps` and the `Push`/`Pop` lemmas what calls and returns keep. Six theorems: the
invariant and each of its parts.

**MainLoop_proof**: `NoMissedSignal`, `NoLostTimer` and `NoLostChild` speak only of
the moment the loop sleeps and are not inductive. What wakes the loop for a timer is
handed from the interval timer to the pending signal, to the flag, to
`mainloop_check_signals`, which rearms: `Alarmed` says that one of them always holds
it. `Notified` says the same of SIGCHLD and zombies, `Quiet` that no flag of a blocked
signal is up from the test to `pselect`, and `ArgOK` that the timer on its way into the
queue is not in it, which the sortedness of the queue needs. `InsertSorted`,
`UnqueueSorted` and their index lemmas prove that setting and resetting keep the queue
sorted and without duplicates, for any number of timers and any moments.
`LoopImplementsService` proves that the loop implements `TimerService`, step by step: the
fire of the head of the queue is the fire of the abstract service, setting and resetting
are its own, everything else stutters. It needs besides `IInv` that the current time
is not ahead of the clock and that a handler is at work until it returns (`RunningOK`), so
that handlers are not nested. `AlwaysOnTime` is about a program that takes no
time of its own (`MCSpec`): `InTime` says that the interval timer is set to the moment of the
first timer or before, unless it has expired or is about to be set.

**Services_proof**: for hooks, `CallsSound` follows from what each call at work relies on,
however deep the calls are nested (`FrameSound`): the item it goes on with is in the list,
and from there on are the functions it has still to call. `TimersExact` is
arithmetic: `Gettime`, the lemmas on carry and borrow and `TimeoutIsLeft` say that the
pairs of seconds and microseconds are the numbers they stand for. `StreamsAlwaysKept` is about
the descriptors: `Served` says that the descriptors, the entries of the list, the streams
and the buffers fit, `Told` that each handler and connection was told what is due: a handler
the end once, unless the pipe could not be read, and a client its answer, unless it hung up, sent
too much or the connection failed. A pipe
or connection that opens, moves or closes is a lemma on `Served` for any values (`PipeOpens`,
`ConnOpens`, `StreamMoves`, `StreamCloses`), because a handler or a request may start a program in the middle of the
callback that closes its own descriptor: that step is the composition of two (`CallbackCloses`). That a free
descriptor exists is the pigeonhole principle; that the loop goes on with an entry that is
still registered is that the next one is read before the callback, and the callback
closes only its own.

**Session_proof**: `OneDone` speaks of the moment a `SaveYourselfDone` arrives. The invariant
follows a question of the manager to its answer (`OneAnswer`): it is a `SaveYourself` on its
way, a request for the second phase, its answer, or a `SaveYourselfDone`, one of them at
a time, and `sent_save_done` tells whether a cancellation behind it must be answered.
`RequestKept` needs what `save_complete_fn` stands for (`LastAsked`), and that the session is
saved and the hint published before the answer (`SavedBefore`). Both hold for any number of
requests, changes, saves and lost connections.

**Query_proof**: the theorems start from any sound history (`IInv`), as the run does.
The invariant is `Counted` (each request took an operation, so that their numbers are bounded and in
order), `Asked` (a change since completions were last asked for has the timer at work for the
latest number) and `Fits` (at most one program can answer the request that is waited for; it
was asked of the line that is there, after what is shown). `QueryAsks` needs the first two,
`QueryAnswers` also the third, which only holds without the calls named `"one"`; both hold
only without `"cut"`, and `Asked` says so, since `QueryKeepsHistory` needs neither. `QueryKeepsHistory` is that a query leaves the
history a ring that implements the list. What `get_matches` of the history returns is a
recursive function over its places: `NatMin`, the least element of a set of numbers (by well-founded
induction), gives the existence of the function and the induction on its argument.
The same module proves of the history that the ring implements the
list (`HistoryImplementsList`), by a step simulation under `IInv`, type correctness and that no string is in it twice; without the
latter the place of a string, which the list chooses, would not be the one the ring finds.
`IndexFacts` says that indices are different places, `IndexMoves` that moving the head back
shifts every entry by one, `RemovedFacts` what the loop that closes the gap leaves at each
index; `PushKnown` and `PushNew` are the two kinds of push. `HistoryKeepsList` is the
same from any sound history, which is what `query` checks from an empty and a full one.

**Keys_proof**, the grabs: a handler is an operator from states to states, so that the invariant is made of
predicates on a state and each operator has a lemma on what it keeps. `Sound` says that holders live
and that a menu has one grab, since the grab that is killed destroys its menu; `Matches` that the
X server grabs the keyboard for the top of the stack, and nothing for an empty one. In the middle of a
handler `Matches` does not hold: the keyboard is ungrabbed by `do_key` while the entry is
still there. `Settled` says that it holds or that the top is marked, which is what makes the next
removal repair it; `Fewer` says of everything that removes grabs that the entries which are left
are the same ones at the same places, with more marks, and that those gone were marked. `Phases`
says that while `ioncore_do_handle_buttonpress` runs its loop the grab of the pointer is the
bottom of the stack, with nothing but quoting above it, and that no such grab lives outside. `ModesAlwaysGrabbed` needs besides that of the grabs for
resizing only the topmost can be alive (`ResizeSound`), and assumes, as the run does, that no
keyboard resize is begun while a button is held (`"kbresize" \notin DragCalls`).
The loop of `do_holder_remove` is a recursive function of the place it has come to; `NatMin` gives its existence and
the induction on its argument.

**Keys_proof**, the bindings: adding the maps of a region and its managers, removing those of others
and refreshing keycodes are loops over lists, nested twice. `Joins` and `Leaves` say what such
a loop makes of a window: of its rbinds, of their order, and of its grabs, which `Fit` the
maps. `ConcernedFacts` is the heart of it: what is grabbed or ungrabbed for a map are its keys
without those the other maps of the window have, although the code looks up bindings and the
server has combinations of locks. `OwnersInv` says that the rbinds with an owner are those of
the region that was active at the last update (`Last`), the inner ones first by their depth in
the tree of managers; what stays and what is new belong to managers of both
(`SharedManagers`). It holds even when the focus goes directly from one region in the window
to another. `GrabsInv` adds that the grabs are the keys held by the maps and that each
binding has the keycode of its keysym, which is what makes a binding that is removed the one
that was grabbed. `KeysAlwaysGrabbed` assumes what the run does (`CalmBinds`): `regbind.c:34`
skips rbinds of the same map, so that a map with two owners in a window loses its keys with
the first of them, AnyModifier is looked up as no modifier, and a map with two bindings of one key (`NoneTwice`),
which only keysyms that come to share a keycode leave it with, loses the key with the first of
them. That no key is bound twice is part of the invariant: a binding that is added replaces the one of the
same key, whichever keysym it was made for.

**Groups_proof**: the state is one record and each C function an operator on it, so that there
is a lemma per operator, of what it leaves alone (`Aside`, `Fewer`, `Lesser`, `Kept`) and what it makes.
`GroupsInv` is inductive. Its parts: for each window the list is `Stacked`, that is without
duplicates, sorted by level, the server's order the same, and who is above another is behind it in the list and at
its level; groups and regions know each other (`ListOK`, `RefsOK`, `RegOK`); the status display has the manager it names
(`STDispOK`); each region outside has its placeholder on one list (`PhsOK`), each region inside none (`NotAway`); a window
shows a group that is in it (`ShowsOK`). `RestackFacts` and the `Weave` lemmas say what the loops of
`stacking.c` make of the list and of the server's order, which they change one window at a time relative to another, and that the
two come out the same. Nothing may stay behind that is above what is taken out, and `Up` must come to its
end for that (`ChainFacts`, `SubtreeFacts`: each step leads further to the front of the list, so that
there are no more of them than places). The functions that take out or
destroy all regions of a group are recursive in the list of them (`RemoveAllFacts`,
`ForgetAllFacts`). While a group is emptied `ShowsOK` does not hold of it; it is
repaired by `AfterLeaving`, and only then does `STDispWith`, by which the status display is with
the workspace that is shown, hold again: a step is composed from `TakeOutFacts`, `DisposeFacts`
and `AttachArrives`. `FocusReaches` follows from the invariant: `InvModal` walks the stacking
from the top, `InvNavi` both ways through the managed list (`Walks` is what its loop has passed).
`StayTogether` is an action property that the run checks.

**ClientWin_proof**: what ioncore believes of a window is not true of it, but will be when its
requests are carried out. The invariants therefore speak of the window as it will then be:
`Final`, the end of `Trace`, a recursive function over the requests that wait, with one `Step`
for each. `RunTurns`, `RunAppend` and `RunTail` are the lemmas on it: sending is one step at
the end, flushing goes on from a later beginning; `RunChanged` says that a window which its client
unmaps first, or waits for, becomes the same with the requests that are on their way. The invariant is in two
parts. `Base` says of each window (`Own`) that a managed one will be in its frame, saved and
selected, and another on the root and not (`Managed`), at each moment in between in the save set while it
is in a frame (`Fine`, because the connection may break there), that who waits for an answer
has a request in the queue (`Answered`), what exit owes it (`Restored`), and that ioncore does not see its own unmappings
(`Unseen`). `Dock` keeps dockapps and their icons apart, because the request of one manages the other:
without it a window could be managed twice. `Calm` adds that the window
shows what ioncore has (`Shown`), that the end of a managed window is noticed (`Noticed`), and that the last event of its client, or
what was made of all of them, is what the client wants (`Heard`). `Base` is inductive for any clients, if
the main window of a dockapp is not mapped a second time (`"again" \notin ClientCalls`); it gives
`NoWindowEverLost` and `ConfiguresAnswered`. `Calm` needs `ClientCalls = {}`, as the run does: who acts
while its events are deselected is not seen, and a lazily resized window that is shown with its frame keeps
its old geometry, so `ClientsAlwaysKnown` has that as its hypothesis. Each handler is a
composition of operators on states; a lemma per operator says what it keeps of the window it serves
(`Tends`), `DealsBase` and `DealsCalm` that the other windows do not notice, and one lemma per action that it keeps both parts
(`Keeps`). `Executed` is a recursive function as well: `ExecutedFacts` shows by induction
that what the server has done with n requests is the n-th state of each `Trace`.

Only model-checked:

- liveness (`EventuallyServed`, `TimersServed`, `ChildrenReaped`, `SaveAnswered`,
  `RestartHappens`): fairness and ENABLED are out of the prover's reach;
- what `Split` computes on trees of any size, an induction over the tree: the library's
  induction theorems take an operator as a parameter, which the provers cannot instantiate.
  `Split` and `Tiling` use recursive operators besides;
- `Focus` and `MPlex` with `DList`, which no proof has reached yet, and `StayTogether` of `Groups`.

## Not modelled

`PROJECT.json` lists all components. The Lua binding and Lua configuration (no model of
the Lua heap is attempted), the drawing engine and fonts (output only), generic containers
of `libtu` other than the lists (sequences and sets here), menus, dock and scratchpad
(geometry over multiplexers), start-up and command line, layout files (I/O; `Session` keeps
whether a save succeeds), Xinerama and XRandR policies (Lua), names (local and sequential).
The X server, the session manager, child processes and client programs appear as external
actions.

Of the modelled components: floating splits, unused space and maximising of tilings and the
status display within one (`split-stdisp.c`); geometry of groups; modes, shading and tabs of
frames; transients, size hints and EWMH properties of clients; activity counts; the parsing
of bindings; the registry of named hooks and forking.

## The plan

What is left, in the order of its worth:

1. Proofs: the lists of `DList` and the current member of `MPlex`, the order of the history
   in `Focus`.
2. `Region`: activity counts and the manager tree with groups, composed with `MPlex` and
   with `Focus`, which takes the choice of the member that gets the focus as any.
3. The status display in `Split`: it brings maxima, and the tree is rotated around it.
4. Transients of `ClientWin` with the groups that hold them.

