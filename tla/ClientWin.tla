----------------------------- MODULE ClientWin ------------------------------
(* Client windows between three parties: the client that owns the window, the *)
(* X server, and ioncore (clientwin.c, manage.c, eventh.c, rootwin.c), whose  *)
(* requests wait in the output buffer of its connection until they are sent   *)
(* and whose events wait in its queue.  The client maps, configures,          *)
(* withdraws and destroys its window at any point in between; ioncore may     *)
(* exit, crash and be started again.                                          *)
EXTENDS FiniteSets, Functions, Integers, Sequences, SequencesExt

CONSTANTS
  Windows,      \* client windows
  NoWindow,
  Geoms,        \* geometries that places and windows may have
  ClientCalls,  \* what the code does not stand: "masked" clients that act while ioncore
                \* looks away, "again" a main window of a dockapp that is mapped twice,
                \* "lazymap" a lazily resized window shown together with its frame
  MaxMoves,     \* bounds: what clients and the user do,
  MaxEnds       \* how often ioncore ends

ASSUME ClientAssumption ==
  Geoms # {} /\ NoWindow \notin Windows /\ MaxMoves \in Nat /\ MaxEnds \in Nat

VARIABLE cw

clients == <<cw>>
NoGeom == CHOOSE g \in Geoms : TRUE

-----------------------------------------------------------------------------
(* The X server: what one request of ioncore does to its window *)

Notice(t, w, e) == IF t.x[w].sel THEN [t EXCEPT !.ev = Append(@, <<e, w>>)] ELSE t
\* The client is told where its window is now
Told(t, w) == [t EXCEPT !.asked[w] = FALSE]

Execute(t, r) ==
  LET w == r[2]
      x == t.x[w]
      un == IF x.mapped THEN Notice(t, w, "Unmap") ELSE t
  IN IF ~x.exists THEN t  \* BadWindow is ignored
     ELSE CASE r[1] = "select" -> [t EXCEPT !.x[w].sel = r[3]]
            [] r[1] = "map" -> [t EXCEPT !.x[w].mapped = TRUE]
            [] r[1] = "unmap" -> [un EXCEPT !.x[w].mapped = FALSE]
            \* a mapped window is unmapped, and mapped again
            [] r[1] = "reparent" -> [un EXCEPT !.x[w].parent = r[3]]
            [] r[1] = "saveset" -> [t EXCEPT !.x[w].saved = r[3]]
            [] r[1] = "state" -> [t EXCEPT !.x[w].state = r[3]]
            [] r[1] = "border" -> [t EXCEPT !.x[w].border = r[3]]
            [] r[1] = "resize" -> IF x.geom = r[3] THEN t ELSE [Told(t, w) EXCEPT !.x[w].geom = r[3]]
            [] r[1] = "move" -> [t EXCEPT !.x[w].away = r[3]]
            [] OTHER -> Told(t, w)  \* "notify", and "forward": as the client asked

\* The server carries out what it reads at once without another client coming
\* in between, if there is little
Executed(n) ==
  LET after[i \in 0..n] == IF i = 0 THEN cw ELSE Execute(after[i - 1], cw.out[i]) IN after[n]
XFlush ==
  LET n == IF "masked" \in ClientCalls THEN 1 ELSE Len(cw.out)
  IN /\ cw.out # <<>>
     /\ cw' = [Executed(n) EXCEPT !.out = SubSeq(@, n + 1, Len(@))]

Send(t, w, rs) == [t EXCEPT !.out = @ \o rs]
\* With StructureNotify deselected around it
Masked(t, w, rs) == Send(t, w, <<<<"select", w, FALSE>>>> \o rs \o <<<<"select", w, TRUE>>>>)

-----------------------------------------------------------------------------
(* Client windows: hiding and showing, geometry *)

set_clientwin_state(t, w, s) ==
  IF t.cwin[w].state = s THEN t
  ELSE Send([t EXCEPT !.cwin[w].state = s], w, <<<<"state", w, s>>>>)

\* Mutant: the unmapping is taken for the client's
hide_clientwin_seen(t, w) ==
  IF t.prop[w] = "acrobatic" THEN Send(t, w, <<<<"move", w, TRUE>>>>)
  ELSE Send(set_clientwin_state(t, w, "Iconic"), w, <<<<"unmap", w>>>>)
hide_clientwin(t, w) ==
  IF t.prop[w] = "acrobatic" THEN Send(t, w, <<<<"move", w, TRUE>>>>)
  ELSE Masked(set_clientwin_state(t, w, "Iconic"), w, <<<<"unmap", w>>>>)

show_clientwin(t, w) ==
  LET acrobatic == t.prop[w] = "acrobatic"
      u == IF acrobatic THEN Send(t, w, <<<<"move", w, FALSE>>>>) ELSE t
  IN IF acrobatic /\ t.cwin[w].state = "Normal" THEN u
     ELSE set_clientwin_state(Masked(u, w, <<<<"map", w>>>>), w, "Normal")

clientwin_map(t, w) == [show_clientwin(t, w) EXCEPT !.cwin[w].mapped = TRUE]
clientwin_unmap(t, w) == [hide_clientwin(t, w) EXCEPT !.cwin[w].mapped = FALSE]

sendconfig_clientwin(t, w) == Masked(t, w, <<<<"notify", w>>>>)
do_reparent_clientwin(t, w, p) == Masked(t, w, <<<<"reparent", w, p>>>>)

postpone_resize(t, w) == t.cwin[w].state = "Iconic" /\ t.prop[w] = "lazy"

\* Mutant: a resize that is not needed or is put off counts as an answer
clientwin_fitrep_early(t, w, np, g) ==
  LET u == IF ~np THEN t
           ELSE LET v == sendconfig_clientwin(do_reparent_clientwin(t, w, "frame"), w)
                IN [v EXCEPT !.cwin[w].parent = "frame"]
      c == [u EXCEPT !.cwin[w].need_cfgntfy = FALSE]
  IN IF (~np /\ t.cwin[w].geom = g) \/ postpone_resize(u, w) THEN c
     ELSE Send([c EXCEPT !.cwin[w].geom = g], w,
               <<<<"resize", w, g>>, <<"move", w, u.prop[w] = "acrobatic" /\ ~u.cwin[w].mapped>>>>)
\* np: into another window, or in the same one
clientwin_fitrep(t, w, np, g) ==
  LET u == IF ~np THEN t
           ELSE LET v == sendconfig_clientwin(do_reparent_clientwin(t, w, "frame"), w)
                IN [v EXCEPT !.cwin[w].parent = "frame"]
      away == u.prop[w] = "acrobatic" /\ ~u.cwin[w].mapped
  IN IF (~np /\ t.cwin[w].geom = g) \/ postpone_resize(u, w) THEN u
     ELSE Send([u EXCEPT !.cwin[w].geom = g, !.cwin[w].need_cfgntfy = FALSE],
               w, <<<<"resize", w, g>>, <<"move", w, away>>>>)

\* mplex_do_node_display: what was hidden may have been resized lazily
Display(t, w) == clientwin_fitrep(clientwin_map(t, w), w, FALSE, t.place[w])

\* Attaching to a frame or a group in it: reparented, then shown or not
AttachTo(t, w, g, shown) ==
  LET u == [clientwin_fitrep(t, w, TRUE, g) EXCEPT !.place[w] = g]
  IN IF shown THEN Display(u, w) ELSE clientwin_unmap(u, w)

-----------------------------------------------------------------------------
(* Managing.  pc: what the handler waits for, the buffer being flushed; then  *)
(* <<"deinit", w>> has asked for the attributes of the window it leaves       *)

Idle == <<"idle", NoWindow>>
Ready(what) == cw.wm # "gone" /\ cw.pc[1] = what /\ cw.out = <<>>

NotManaged == [managed |-> FALSE, state |-> "Withdrawn", mapped |-> FALSE, parent |-> "root",
               geom |-> NoGeom, orig_bw |-> FALSE, need_cfgntfy |-> FALSE]

\* create_clientwin
create_clientwin(t, w) ==
  LET u == [t EXCEPT !.cwin[w] = [NotManaged EXCEPT !.managed = TRUE, !.geom = t.x[w].geom, !.orig_bw = t.x[w].border],
                     !.twice = @ \/ t.cwin[w].managed]
  IN Send(u, w, <<<<"border", w, FALSE>>, <<"select", w, TRUE>>, <<"saveset", w, TRUE>>>>)

\* clientwin_destroyed, and the disposal that follows it: nothing is asked of
\* a window that is forgotten
clientwin_destroyed(t, w) ==
  [Send(t, w, <<<<"saveset", w, FALSE>>, <<"select", w, FALSE>>>>) EXCEPT !.cwin[w] = NotManaged]

\* clientwin_unmapped, or the end of ioncore: region_rqdispose, if need be by
\* force, and clientwin_deinit up to its reparent_root
clientwin_deinit(t, w) ==
  [Send(t, w, <<<<"select", w, FALSE>>, <<"unmap", w>>>>
              \o (IF t.cwin[w].orig_bw THEN <<<<"border", w, TRUE>>>> ELSE <<>>)) EXCEPT !.pc = <<"deinit", w>>]
\* Mutant: out of the save set before it is back on the root
Released_unsaved(t, w) ==
  LET free == Send(t, w, <<<<"saveset", w, FALSE>>>>)
      back == IF t.x[w].exists THEN Send(free, w, <<<<"reparent", w, "root">>>>) ELSE free
      left == IF ~t.x[w].exists THEN back
              ELSE IF t.wm = "exiting" THEN Send(back, w, <<<<"map", w>>>>)
              ELSE set_clientwin_state(back, w, "Withdrawn")
  IN [left EXCEPT !.cwin[w] = NotManaged, !.pc = Idle]
\* and from there on
Released(t, w) ==
  LET alive == t.x[w].exists
      back == IF alive THEN Send(t, w, <<<<"reparent", w, "root">>>>) ELSE t
      left == IF ~alive THEN t
              ELSE IF t.wm = "exiting" THEN Send(back, w, <<<<"map", w>>>>)
              ELSE set_clientwin_state(back, w, "Withdrawn")
  IN [Send(left, w, <<<<"saveset", w, FALSE>>>>) EXCEPT !.cwin[w] = NotManaged, !.pc = Idle]

reparent_root ==
  /\ Ready("deinit")
  /\ cw' = Released(cw, cw.pc[2])

\* ioncore_manage_clientwin, up to the first reply it waits for
ioncore_manage_clientwin(t, w, maprq) ==
  IF t.cwin[w].managed THEN t
  ELSE [Send(t, w, <<<<"select", w, TRUE>>>>) EXCEPT !.pc = <<IF maprq THEN "maprq" ELSE "scan", w>>]

fail2(t, w) == [Send(t, w, <<<<"select", w, FALSE>>>>) EXCEPT !.pc = Idle]

\* Its attributes, and its hints: the icon of a dockapp is managed in its place
Attributes ==
  \E maprq \in BOOLEAN :
    /\ Ready(IF maprq THEN "maprq" ELSE "scan")
    /\ LET w == cw.pc[2]
           icon == cw.icon[w]
           x == cw.x[w]
           dockapp == icon # NoWindow /\ (maprq \/ x.mapped \/ cw.x[icon].mapped)
           u == IF ~maprq /\ x.mapped THEN Send(cw, w, <<<<"unmap", w>>>>) ELSE cw
           v == Send(u, w, <<<<"select", w, FALSE>>, <<"select", icon, TRUE>>>>)
       IN cw' = IF ~x.exists \/ (icon # NoWindow /\ ~cw.x[icon].exists) THEN fail2(cw, w)
                ELSE IF dockapp THEN [v EXCEPT !.pc = <<"create", icon>>]
                ELSE IF ~maprq /\ ~x.mapped THEN fail2(cw, w)
                ELSE [cw EXCEPT !.pc = <<"create", w>>]

\* The window is created and put somewhere, by clientwin_do_manage_alt, or
\* nobody wants it
Create ==
  /\ cw.wm # "gone" /\ cw.pc[1] = "create"
  /\ LET w == cw.pc[2]
         u == create_clientwin(cw, w)
     IN \/ \E g \in Geoms, shown \in BOOLEAN :
             cw' = [AttachTo(u, w, g, shown) EXCEPT !.pc = <<"check", w>>]
        \/ cw' = [clientwin_destroyed(u, w) EXCEPT !.pc = Idle, !.refused = @ \cup {w}]

\* clientwin_load: by the number saved in the layout, only if it is still there
clientwin_load ==
  \E w \in cw.tmpwins, g \in Geoms :
    /\ Ready("idle") /\ cw.wm = "init"
    /\ ~cw.cwin[w].managed /\ cw.x[w].exists /\ cw.x[w].mapped
    /\ LET u == do_reparent_clientwin(create_clientwin(cw, w), w, "frame")
           v == [u EXCEPT !.cwin[w].geom = g, !.cwin[w].parent = "frame", !.place[w] = g]
       IN cw' = [Send(v, w, <<<<"resize", w, g>>>>) EXCEPT !.pc = <<"loaded", w>>]

\* postmanage_check; who loaded it then puts it in its frame
postmanage_check ==
  \E loaded \in BOOLEAN :
    /\ Ready(IF loaded THEN "loaded" ELSE "check")
    /\ LET w == cw.pc[2]
           t == [cw EXCEPT !.pc = Idle]
       IN IF ~cw.x[w].exists THEN cw' = clientwin_destroyed(t, w)
          ELSE IF loaded THEN \E shown \in BOOLEAN :
                                cw' = IF shown THEN clientwin_map(t, w) ELSE clientwin_unmap(t, w)
          ELSE cw' = t

\* scan_initial_windows knew the windows when ioncore began; icons come with
\* their dockapps.  Those already loaded are passed over.
rootwin_manage_initial_windows ==
  \E w \in cw.tmpwins :
    /\ cw.wm = "init" /\ cw.pc = Idle
    /\ cw' = [ioncore_manage_clientwin(cw, w, FALSE) EXCEPT !.tmpwins = @ \ {w}]

-----------------------------------------------------------------------------
(* Events and requests *)

\* check_fs_cfgrq, check_normal_cfgrq: moved to full screen, or given a
\* geometry by its manager, which may be the one it has; or not at all
ConfigureOutcomes(t, w) ==
  {t} \cup {clientwin_fitrep([t EXCEPT !.place[w] = g], w, FALSE, g) : g \in Geoms}
      \cup {AttachTo(t, w, g, TRUE) : g \in Geoms}

clientwin_handle_configure_request(t, w) ==
  LET u == [t EXCEPT !.cwin[w].need_cfgntfy = TRUE]
  IN {IF v.cwin[w].need_cfgntfy
      THEN [sendconfig_clientwin(v, w) EXCEPT !.cwin[w].need_cfgntfy = FALSE] ELSE v
        : v \in ConfigureOutcomes(u, w)}

ioncore_handle_event ==
  /\ cw.wm = "running" /\ cw.pc = Idle /\ cw.ev # <<>>
  /\ LET e == Head(cw.ev)
         w == e[2]
         t == [cw EXCEPT !.ev = Tail(@)]
     IN CASE e[1] = "MapRequest" -> cw' = ioncore_manage_clientwin(t, w, TRUE)
          [] e[1] = "Unmap" -> cw' = IF t.cwin[w].managed THEN clientwin_deinit(t, w) ELSE t
          [] e[1] = "Destroy" -> cw' = IF t.cwin[w].managed THEN clientwin_destroyed(t, w) ELSE t
          [] OTHER -> IF t.cwin[w].managed THEN cw' \in clientwin_handle_configure_request(t, w)
                      ELSE cw' = Send(t, w, <<<<"forward", w>>>>)

\* The user shows, hides, resizes and moves what is managed
User ==
  /\ cw.wm = "running" /\ cw.pc = Idle /\ cw.moves < MaxMoves
  /\ \E w \in Windows :
       /\ cw.cwin[w].managed
       /\ LET t == [cw EXCEPT !.moves = @ + 1]
          IN \/ cw.cwin[w].mapped /\ cw' = clientwin_unmap(t, w)
             \/ ~cw.cwin[w].mapped /\ cw' = Display(t, w)
             \* the frame is shown: mplex_map_mgd
             \/ /\ ~cw.cwin[w].mapped
                /\ cw.place[w] = cw.cwin[w].geom \/ "lazymap" \in ClientCalls
                /\ cw' = clientwin_map(t, w)
             \/ \E g \in Geoms : cw' = clientwin_fitrep([t EXCEPT !.place[w] = g], w, FALSE, g)
             \/ \E g \in Geoms, shown \in BOOLEAN : cw' = AttachTo(t, w, g, shown)

-----------------------------------------------------------------------------
(* Clients *)

New == [exists |-> TRUE, mapped |-> FALSE, sel |-> FALSE, parent |-> "root", saved |-> FALSE,
        state |-> "Withdrawn", border |-> TRUE, geom |-> NoGeom, away |-> FALSE]

Redirected(t, w, e) == IF t.wm = "gone" THEN t ELSE [t EXCEPT !.ev = Append(@, <<e, w>>)]

Client ==
  /\ cw.moves < MaxMoves
  /\ \E w \in Windows :
       /\ cw.x[w].exists
       /\ LET t == [cw EXCEPT !.moves = @ + 1]
              isicon == \E v \in Windows : cw.icon[v] = w
          IN \* XMapWindow goes to ioncore, if there is one
             \/ /\ ~cw.x[w].mapped /\ ~isicon
                /\ cw.icon[w] # NoWindow /\ "again" \notin ClientCalls =>
                     ~(cw.wants[w] \/ cw.x[cw.icon[w]].mapped \/ cw.cwin[cw.icon[w]].managed)
                /\ cw' = IF cw.wm = "gone" THEN [t EXCEPT !.x[w].mapped = TRUE, !.wants[w] = TRUE]
                         ELSE [Redirected(t, w, "MapRequest") EXCEPT !.wants[w] = TRUE]
             \* XConfigureWindow
             \/ /\ cw.wm # "gone"
                /\ cw' = [Redirected(t, w, "ConfigureRequest") EXCEPT !.asked[w] = TRUE]
             \* XWithdrawWindow: unmaps, and sends the event to the root itself
             \/ /\ cw.wants[w] /\ (cw.icon[w] = NoWindow \/ "again" \in ClientCalls)
                /\ LET u == IF cw.x[w].mapped THEN Notice(t, w, "Unmap") ELSE t
                   IN cw' = [Redirected(u, w, "Unmap") EXCEPT !.x[w].mapped = FALSE, !.wants[w] = FALSE]
             \* XDestroyWindow
             \/ cw' = [Notice(t, w, "Destroy") EXCEPT !.x[w] = [New EXCEPT !.exists = FALSE],
                                                      !.wants[w] = FALSE, !.asked[w] = FALSE]

-----------------------------------------------------------------------------
(* Start and end of ioncore *)

\* rootwin_do_init redirects what happens on the root, and then looks
Start ==
  /\ cw.wm = "gone" /\ cw.out = <<>>
  /\ cw' = [cw EXCEPT !.wm = "init", !.ev = <<>>,
                      !.kept = {}, !.tmpwins = {w \in Windows : /\ cw.x[w].exists
                                                   /\ ~\E v \in Windows : cw.icon[v] = w /\ cw.x[v].exists}]
Started ==
  /\ cw.wm = "init" /\ cw.tmpwins = {} /\ cw.pc = Idle
  /\ cw' = [cw EXCEPT !.wm = "running"]

\* ioncore_deinit
Exit ==
  /\ cw.wm = "running" /\ cw.pc = Idle /\ cw.ends < MaxEnds
  /\ cw' = [cw EXCEPT !.wm = "exiting", !.ends = @ + 1,
                      !.kept = {w \in Windows : cw.cwin[w].managed}]
ioncore_deinit ==
  \/ \E w \in Windows :
       /\ cw.wm = "exiting" /\ cw.pc = Idle /\ cw.cwin[w].managed
       /\ cw' = clientwin_deinit(cw, w)
  \/ /\ cw.wm = "exiting" /\ Ready("idle") /\ ~\E w \in Windows : cw.cwin[w].managed
     \* what is asked for while it goes is lost
     /\ LET kept == {w \in cw.kept : <<"MapRequest", w>> \notin Range(cw.ev)}
        IN cw' = [cw EXCEPT !.wm = "gone", !.ev = <<>>, !.kept = kept,
                            !.x = [w \in Windows |-> [cw.x[w] EXCEPT !.sel = FALSE]],
                            !.asked = [w \in Windows |-> FALSE],
                            !.wants = [w \in Windows |-> cw.x[w].mapped \/ (w \in kept /\ cw.wants[w])]]

\* The connection breaks, with requests that are never sent: the server puts
\* back what is in the save set
Crash ==
  /\ cw.wm # "gone" /\ cw.ends < MaxEnds
  /\ \E n \in 0..Len(cw.out) :
       LET t == Executed(n)
           back == {w \in Windows : t.x[w].saved /\ t.x[w].parent # "root"}
       IN cw' = [t EXCEPT
            !.wm = "gone", !.ev = <<>>, !.out = <<>>, !.pc = Idle, !.tmpwins = {},
            !.cwin = [w \in Windows |-> NotManaged],
            !.x = [w \in Windows |->
                     [t.x[w] EXCEPT !.parent = IF w \in back THEN "root" ELSE @, !.mapped = @ \/ w \in back,
                                    !.sel = FALSE, !.saved = FALSE]],
            !.asked = [w \in Windows |-> FALSE], !.ends = @ + 1, !.crashed = TRUE, !.kept = back,
            !.wants = [w \in Windows |-> t.x[w].mapped \/ w \in back]]

\* A window of any kind, or a dockapp and its icon
ClientInit ==
  \E there \in SUBSET Windows \ {{}}, p \in {"none", "lazy", "acrobatic"}, w, v \in Windows,
     mapped \in SUBSET Windows :
    /\ there \in {{w}, {w, v}} /\ (w # v => p = "none") /\ mapped \subseteq there
    /\ cw = [x |-> [u \in Windows |-> [New EXCEPT !.exists = u \in there, !.mapped = u \in mapped]],
             out |-> <<>>, ev |-> <<>>, pc |-> Idle, wm |-> "gone",
             cwin |-> [u \in Windows |-> NotManaged], place |-> [u \in Windows |-> NoGeom],
             prop |-> [u \in Windows |-> IF u = w THEN p ELSE "none"],
             icon |-> [u \in Windows |-> IF u = w /\ v # w THEN v ELSE NoWindow],
             tmpwins |-> {}, kept |-> {}, refused |-> {}, twice |-> FALSE, crashed |-> FALSE,
             wants |-> [u \in Windows |-> u \in mapped],
             asked |-> [u \in Windows |-> FALSE], moves |-> 0, ends |-> 0]

ClientNext ==
  \/ XFlush \/ reparent_root \/ Attributes \/ Create \/ clientwin_load \/ postmanage_check
  \/ rootwin_manage_initial_windows \/ ioncore_handle_event \/ User \/ Client
  \/ Start \/ Started \/ Exit \/ ioncore_deinit \/ Crash

ClientSpec == ClientInit /\ [][ClientNext]_clients

-----------------------------------------------------------------------------
(* Properties *)

\* ioncore runs and nothing is under way
Quiet == cw.wm = "running" /\ cw.pc = Idle /\ cw.out = <<>> /\ cw.ev = <<>>
Alone(w) == \A v \in Windows : cw.icon[v] # w /\ (v = w => cw.icon[v] = NoWindow)

\* Who asks to be shown is managed, and who withdraws or is no more is not,
\* whatever overtakes whatever; no window is managed twice
RightOnesManaged ==
  /\ ~cw.twice
  /\ Quiet => \A w \in Windows : /\ cw.cwin[w].managed => cw.x[w].exists
                                 /\ Alone(w) /\ w \notin cw.refused => (cw.wants[w] <=> cw.cwin[w].managed)
\* The server and the client's properties agree with what ioncore keeps
WindowsAgree ==
  Quiet => \A w \in Windows :
    LET c == cw.cwin[w]
        x == cw.x[w]
    IN IF c.managed
       THEN /\ x.saved /\ x.sel /\ x.parent = "frame" /\ x.geom = c.geom
            /\ c.mapped => x.geom = cw.place[w]
            /\ IF cw.prop[w] = "acrobatic" THEN x.away <=> ~c.mapped
               ELSE /\ x.mapped <=> c.mapped
                    /\ x.state = c.state /\ c.state = (IF c.mapped THEN "Normal" ELSE "Iconic")
       ELSE x.exists => ~x.saved /\ ~x.sel /\ x.parent = "root"
ClientsKnown == RightOnesManaged /\ WindowsAgree

\* Every ConfigureRequest is answered, with an event of the server or with one
\* of ioncore's when nothing changes (ICCCM 4.1.5)
ConfigureAnswered == Quiet => \A w \in Windows : ~cw.asked[w]

\* Whenever ioncore comes to its end, the windows it had are on the root again,
\* visible, and after an orderly exit with their own borders
NoWindowLost ==
  /\ \A w \in Windows : cw.x[w].exists /\ cw.x[w].parent = "frame" => cw.x[w].saved
  /\ cw.wm = "gone" =>
       \A w \in cw.kept : cw.x[w].exists /\ cw.wants[w] =>
          /\ cw.x[w].mapped /\ cw.x[w].parent = "root"
          /\ cw.crashed \/ w \in cw.refused \/ cw.x[w].border
=============================================================================
