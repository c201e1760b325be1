------------------------------- MODULE Session -------------------------------
(***************************************************************************)
(* Ending, restarting and saving the session (ioncore/exec.c), alone or    *)
(* under an X session manager (mod_sm/sm_session.c).                       *)
(*                                                                         *)
(* With a session manager nothing is done at once: mod_sm_smhook leaves a  *)
(* function in save_complete_fn and asks the manager for a save, and the   *)
(* manager drives the rest by messages: SaveYourself, a second phase once  *)
(* the other clients are done, SaveComplete, ShutdownCancelled, Die.  The  *)
(* handlers run in the one thread of the window manager, but a request of  *)
(* the user and a message of the manager may cross on the wire.            *)
(*                                                                         *)
(* The manager is external; it keeps to the protocol: one save at a time,  *)
(* further requests wait, and a shutdown may be cancelled until it is over.*)
(* A session is known by the number of changes made to it.                 *)
(***************************************************************************)
EXTENDS Naturals, Sequences

CONSTANTS
  Cmds,        \* the window managers ioncore_restart_other may start
  None,        \* NULL
  SaveFails,   \* may ioncore_save_layout or the request for a second phase fail?
  MaxChanges,  \* bound of the model: changes to the session
  MaxRequests, \* bound of the model: requests of the user
  MaxSmSaves,  \* bound of the model: saves the manager starts on its own
  MaxBreaks    \* bound of the model: connections lost (at most one has effect)

ASSUME SessionAssumption ==
  /\ None \notin Cmds
  /\ SaveFails \in BOOLEAN
  /\ MaxChanges \in Nat /\ MaxRequests \in Nat /\ MaxSmSaves \in Nat /\ MaxBreaks \in Nat

VARIABLES
  wm,               \* "running", or how it ended
  smhook,           \* is there a session manager hook?
  sm_conn,          \* is the connection to the manager open?
  save_complete_fn, \* to be called when the manager says the save is complete
  sent_save_done,   \* has SaveYourselfDone been sent for the last SaveYourself?
  restart_hint,     \* the restart style to be published at the next save
  some_sent,        \* have the constant properties been published?
  other,            \* the window manager to be executed instead, or None
  session,          \* the number of changes to the session
  saved,            \* the session as it was last saved
  asked,            \* ghost: the last request, the session it was made for, whether a
                    \* save was under way then, and whether a save failed since
  sm,               \* the manager: its phase, the kind of save, the hint it knows
  waiting,          \* the requests the manager has not served yet
  c2s, s2c,         \* messages to the manager and from it
  left              \* what the bounds of the model leave

core == <<wm, smhook, sm_conn, save_complete_fn, sent_save_done, restart_hint, some_sent, other>>
data == <<session, saved, asked>>
net == <<sm, waiting, c2s, s2c>>
vars == <<core, data, net, left>>

-----------------------------------------------------------------------------
Requests == {"none", "resign", "shutdown", "restart", "restart_other", "snapshot"}
Hints == {"IfRunning", "Immediately"}
Ended == {"resigned", "died", "left", "restarted", "killed", "aborted", "crashed"}

Request(shutdown) == [type |-> "SaveYourselfRequest", shutdown |-> shutdown]
Phase2Request == [type |-> "SaveYourselfPhase2Request"]
Done(success) == [type |-> "SaveYourselfDone", success |-> success]
Props(hint) == [type |-> "SetProperties", hint |-> hint]

ToSm == [type : {"SaveYourselfRequest"}, shutdown : BOOLEAN] \cup {Phase2Request}
          \cup [type : {"SaveYourselfDone"}, success : BOOLEAN]
          \cup [type : {"SetProperties"}, hint : Hints]
FromSm == {"SaveYourself", "SaveYourselfPhase2", "SaveComplete", "ShutdownCancelled", "Die"}

\* Is a save under way, or asked for?
Saving == sm.phase # "idle" \/ waiting # <<>> \/ c2s # <<>> \/ s2c # <<>>

Init ==
  /\ wm = "running"
  /\ smhook \in BOOLEAN
  /\ sm_conn = smhook
  /\ save_complete_fn = "none" /\ sent_save_done = FALSE /\ restart_hint = "Immediately"
  /\ some_sent = FALSE /\ other = None
  /\ session = 0 /\ saved = 0 /\ asked = [what |-> "none", at |-> 0, cmd |-> None,
                                                   crossing |-> FALSE, failed |-> FALSE]
  /\ waiting = <<>> /\ c2s = <<>>
  \* The manager has a new client save itself, and not one that is restored.
  /\ \/ sm = [phase |-> "idle", shutdown |-> FALSE, hint |-> "IfRunning"] /\ s2c = <<>>
     \/ /\ smhook
        /\ sm = [phase |-> "saving", shutdown |-> FALSE, hint |-> "IfRunning"]
        /\ s2c = <<"SaveYourself">>
  /\ left = [changes |-> MaxChanges, requests |-> MaxRequests,
             saves |-> MaxSmSaves, breaks |-> MaxBreaks]

\* A client window or frame comes, goes or moves.
Change ==
  /\ wm = "running" /\ left.changes > 0
  /\ session' = session + 1
  /\ left' = [left EXCEPT !.changes = @ - 1]
  /\ UNCHANGED <<core, saved, asked, net>>

-----------------------------------------------------------------------------
(* ioncore/exec.c *)

\* ioncore_do_snapshot: fails before the hook is called if the layout is to be
\* saved and cannot be.
DoSnapshot(save_layout, ok) ==
  /\ ok \/ (save_layout /\ SaveFails)
  /\ saved' = IF ok THEN session ELSE saved

\* The window manager ends: ioncore_do_exit, ioncore_do_restart, a signal.
End(how) == wm' = how

\* Mutant: the function of the last request stays.
SaveCompleteFn_keep(what) ==
  CASE what = "restart" -> "sm_exit"
    [] what = "restart_other" -> "sm_restart"
    [] OTHER -> save_complete_fn

\* What mod_sm_smhook leaves in save_complete_fn, reset first.
SaveCompleteFn(what) ==
  CASE what = "restart" -> "sm_exit"
    [] what = "restart_other" -> "sm_restart"
    [] OTHER -> "none"

\* mod_sm_smhook: the function to be called is set after the save is requested.
\* Resigning publishes the hint and exits; the libSM calls need a connection
\* (sm_set_other_properties returns without an id, which goes with it).
Smhook(what) ==
  /\ save_complete_fn' = SaveCompleteFn(what)
  /\ restart_hint' = IF what \in {"restart", "snapshot"} THEN "Immediately" ELSE "IfRunning"
  /\ IF what # "resign"
     THEN /\ c2s' = IF sm_conn THEN Append(c2s, Request(what = "shutdown")) ELSE c2s
          /\ IF sm_conn THEN UNCHANGED wm ELSE End("crashed")
          /\ UNCHANGED some_sent
     ELSE /\ some_sent' = TRUE
          /\ c2s' = IF sm_conn THEN Append(c2s, Props(restart_hint')) ELSE c2s
          /\ End(IF sm_conn \/ some_sent THEN "resigned" ELSE "crashed")

\* Without a hook: save and go.
NoSmhook(what, ok) ==
  /\ IF what = "resign" THEN ok /\ UNCHANGED saved
     ELSE \E save_layout \in BOOLEAN :
            (what = "snapshot" => save_layout) /\ DoSnapshot(save_layout, ok)
  /\ CASE what \in {"resign", "shutdown"} -> End("resigned")
       [] what = "snapshot" -> UNCHANGED wm
       [] OTHER -> End("restarted")
  /\ UNCHANGED <<save_complete_fn, restart_hint, some_sent, c2s>>

\* set_other
SetOther(what, cmd) ==
  CASE what = "restart" -> other' = None
    [] what = "restart_other" -> other' = cmd
    [] OTHER -> UNCHANGED other

Ask(what, cmd) ==
  asked' = [what |-> what, at |-> session, cmd |-> cmd, crossing |-> Saving, failed |-> FALSE]

\* ioncore_resign, ioncore_shutdown, ioncore_restart, ioncore_restart_other and
\* ioncore_snapshot.
Do(what, cmd, ok) ==
  /\ Ask(what, cmd)
  /\ SetOther(what, cmd)
  /\ IF smhook THEN ok /\ Smhook(what) /\ UNCHANGED saved ELSE NoSmhook(what, ok)
  /\ UNCHANGED <<smhook, sm_conn, sent_save_done, session, sm, waiting, s2c>>

MayRequest ==
  /\ wm = "running" /\ left.requests > 0
  /\ left' = [left EXCEPT !.requests = @ - 1]

UserRequest ==
  /\ MayRequest
  /\ \E what \in Requests \ {"none"}, cmd \in Cmds \cup {None}, ok \in BOOLEAN :
       /\ (cmd = None) = (what # "restart_other")
       /\ Do(what, cmd, ok)

\* check_signals for SIGUSR1: ioncore_restart is asserted not to return.
Usr1 ==
  /\ MayRequest
  /\ \E ok \in BOOLEAN :
       IF smhook
       THEN /\ ok /\ End("aborted")
            /\ UNCHANGED <<smhook, sm_conn, save_complete_fn, sent_save_done, restart_hint,
                           some_sent, other, data, net>>
       ELSE Do("restart", None, ok)

\* check_signals for SIGTERM and the deadly signals: an emergency snapshot, which
\* is only a warning under a session manager, then ioncore_resign or the signal.
Term ==
  /\ MayRequest
  /\ \E ok \in BOOLEAN : IF smhook THEN ok /\ UNCHANGED saved ELSE DoSnapshot(TRUE, ok)
  /\ Ask("resign", None)
  /\ IF smhook THEN Smhook("resign")
     ELSE End("resigned") /\ UNCHANGED <<save_complete_fn, restart_hint, some_sent, c2s>>
  /\ UNCHANGED <<smhook, sm_conn, sent_save_done, other, session, sm, waiting, s2c>>

Deadly ==
  /\ MayRequest
  /\ \E ok \in BOOLEAN : IF smhook THEN ok /\ UNCHANGED saved ELSE DoSnapshot(TRUE, ok)
  /\ End("killed")
  /\ UNCHANGED <<smhook, sm_conn, save_complete_fn, sent_save_done, restart_hint, some_sent,
                 other, session, asked, net>>

-----------------------------------------------------------------------------
(* mod_sm/sm_session.c: the messages of the manager *)

\* sm_process_messages takes the first message from the connection.
Receive(m) ==
  /\ wm = "running" /\ sm_conn
  /\ s2c # <<>> /\ Head(s2c) = m
  /\ s2c' = Tail(s2c)
  /\ UNCHANGED <<smhook, sm_conn, restart_hint, other, session, sm, waiting, left>>

\* sm_save_yourself: the second phase is asked for, which may fail.
RecvSaveYourself ==
  /\ Receive("SaveYourself")
  /\ \/ c2s' = Append(c2s, Phase2Request) /\ sent_save_done' = FALSE /\ UNCHANGED asked
     \/ /\ SaveFails
        /\ c2s' = Append(c2s, Done(FALSE)) /\ sent_save_done' = TRUE
        /\ asked' = [asked EXCEPT !.failed = TRUE]
  /\ UNCHANGED <<wm, save_complete_fn, some_sent, saved>>

\* Mutant: sent_save_done is not set.
RecvPhase2_unsent ==
  /\ Receive("SaveYourselfPhase2")
  /\ \E ok \in BOOLEAN :
       /\ DoSnapshot(TRUE, ok)
       /\ c2s' = c2s \o (IF ok THEN <<Props(restart_hint)>> ELSE <<>>) \o <<Done(ok)>>
       /\ some_sent' = (some_sent \/ ok)
       /\ asked' = [asked EXCEPT !.failed = @ \/ ~ok]
  /\ UNCHANGED <<wm, save_complete_fn, sent_save_done>>

\* Mutant: the restart hint is published only when the other properties are.
RecvPhase2_stale ==
  /\ Receive("SaveYourselfPhase2")
  /\ \E ok \in BOOLEAN :
       /\ DoSnapshot(TRUE, ok)
       /\ c2s' = c2s \o (IF ok /\ ~some_sent THEN <<Props(restart_hint)>> ELSE <<>>) \o <<Done(ok)>>
       /\ some_sent' = (some_sent \/ ok)
       /\ asked' = [asked EXCEPT !.failed = @ \/ ~ok]
  /\ sent_save_done' = TRUE
  /\ UNCHANGED <<wm, save_complete_fn>>

\* sm_save_yourself_phase2, with sm_set_properties.
RecvPhase2 ==
  /\ Receive("SaveYourselfPhase2")
  /\ \E ok \in BOOLEAN :
       /\ DoSnapshot(TRUE, ok)
       /\ c2s' = c2s \o (IF ok THEN <<Props(restart_hint)>> ELSE <<>>) \o <<Done(ok)>>
       /\ some_sent' = (some_sent \/ ok)
       /\ asked' = [asked EXCEPT !.failed = @ \/ ~ok]
  /\ sent_save_done' = TRUE
  /\ UNCHANGED <<wm, save_complete_fn>>

\* Mutant: the answer is left to the second phase, which will not come.
RecvShutdownCancelled_silent ==
  /\ Receive("ShutdownCancelled")
  /\ save_complete_fn' = "none" /\ asked' = [asked EXCEPT !.what = "none"]
  /\ UNCHANGED <<wm, some_sent, saved, c2s, sent_save_done>>

\* sm_shutdown_cancelled
RecvShutdownCancelled ==
  /\ Receive("ShutdownCancelled")
  /\ save_complete_fn' = "none" /\ asked' = [asked EXCEPT !.what = "none"]
  /\ IF sent_save_done THEN UNCHANGED c2s ELSE c2s' = Append(c2s, Done(FALSE))
  /\ sent_save_done' = TRUE
  /\ UNCHANGED <<wm, some_sent, saved>>

\* Mutant: the function is forgotten instead of called.
RecvSaveComplete_forget ==
  /\ Receive("SaveComplete")
  /\ save_complete_fn' = "none"
  /\ UNCHANGED <<wm, sent_save_done, some_sent, saved, asked, c2s>>

\* sm_save_complete calls sm_exit or sm_restart, which do not return.
RecvSaveComplete ==
  /\ Receive("SaveComplete")
  /\ CASE save_complete_fn = "sm_exit" -> End("left")
       [] save_complete_fn = "sm_restart" -> End("restarted")
       [] OTHER -> UNCHANGED wm
  /\ save_complete_fn' = "none"
  /\ UNCHANGED <<sent_save_done, some_sent, saved, asked, c2s>>

\* sm_die
RecvDie ==
  /\ Receive("Die")
  /\ End("died")
  /\ UNCHANGED <<save_complete_fn, sent_save_done, some_sent, saved, asked, c2s>>

\* IceProcessMessages meets an I/O error: mod_sm_close, which leaves the hook.
mod_sm_close ==
  /\ wm = "running" /\ sm_conn /\ left.breaks > 0
  /\ sm_conn' = FALSE
  /\ left' = [left EXCEPT !.breaks = @ - 1]
  /\ UNCHANGED <<wm, smhook, save_complete_fn, sent_save_done, restart_hint, some_sent, other,
                 data, net>>

-----------------------------------------------------------------------------
(* The session manager *)

SmStart(shutdown) ==
  /\ sm' = [sm EXCEPT !.phase = "saving", !.shutdown = shutdown]
  /\ s2c' = Append(s2c, "SaveYourself")
  /\ UNCHANGED <<core, data, c2s>>

\* A save the manager has been asked for, and one of its own.
SmServe ==
  /\ sm.phase = "idle" /\ waiting # <<>>
  /\ waiting' = Tail(waiting)
  /\ SmStart(Head(waiting)) /\ UNCHANGED left

SmSave(shutdown) ==
  /\ smhook /\ sm.phase = "idle" /\ left.saves > 0
  /\ left' = [left EXCEPT !.saves = @ - 1]
  /\ SmStart(shutdown) /\ UNCHANGED waiting

\* A Phase2Request that crossed a ShutdownCancelled is void.
SmReceive ==
  /\ c2s # <<>> /\ c2s' = Tail(c2s)
  /\ LET m == Head(c2s) IN
     CASE m.type = "SaveYourselfRequest" ->
            waiting' = Append(waiting, m.shutdown) /\ UNCHANGED <<sm, s2c>>
       [] m.type = "SetProperties" ->
            sm' = [sm EXCEPT !.hint = m.hint] /\ UNCHANGED <<waiting, s2c>>
       [] m.type = "SaveYourselfDone" ->
            /\ sm' = [sm EXCEPT !.phase = IF @ = "cancelled" THEN "idle" ELSE "saved"]
            /\ UNCHANGED <<waiting, s2c>>
       [] m.type = "SaveYourselfPhase2Request" ->
            /\ IF sm.phase = "saving"
               THEN sm' = [sm EXCEPT !.phase = "phase2"] /\ s2c' = Append(s2c, "SaveYourselfPhase2")
               ELSE UNCHANGED <<sm, s2c>>
            /\ UNCHANGED waiting
  /\ UNCHANGED <<core, data, left>>

\* The other clients are done too.
SmComplete ==
  /\ sm.phase = "saved"
  /\ s2c' = Append(s2c, IF sm.shutdown THEN "Die" ELSE "SaveComplete")
  /\ sm' = [sm EXCEPT !.phase = IF sm.shutdown THEN "over" ELSE "idle"]
  /\ UNCHANGED <<core, data, waiting, c2s, left>>

\* The user changes his mind, or another client does.
SmCancel ==
  /\ sm.shutdown /\ sm.phase \in {"saving", "phase2", "saved"}
  /\ s2c' = Append(s2c, "ShutdownCancelled")
  /\ sm' = [sm EXCEPT !.phase = IF @ = "saved" THEN "idle" ELSE "cancelled", !.shutdown = FALSE]
  /\ UNCHANGED <<core, data, waiting, c2s, left>>

-----------------------------------------------------------------------------
Recv == RecvSaveYourself \/ RecvPhase2 \/ RecvShutdownCancelled \/ RecvSaveComplete \/ RecvDie

Next ==
  \/ Change \/ UserRequest \/ Usr1 \/ Term \/ Deadly
  \/ RecvSaveYourself \/ RecvPhase2 \/ RecvShutdownCancelled \/ RecvSaveComplete \/ RecvDie
  \/ mod_sm_close
  \/ SmServe \/ (\E shutdown \in BOOLEAN : SmSave(shutdown)) \/ SmReceive \/ SmComplete \/ SmCancel

Spec == Init /\ [][Next]_vars

\* The main loop reads the connection, and the manager goes on.
FairSpec == Spec /\ WF_vars(Recv) /\ WF_vars(SmReceive) /\ WF_vars(SmServe) /\ WF_vars(SmComplete)

-----------------------------------------------------------------------------
(* Properties *)

TypeOK ==
  /\ wm \in Ended \cup {"running"}
  /\ smhook \in BOOLEAN /\ sm_conn \in BOOLEAN /\ sent_save_done \in BOOLEAN /\ some_sent \in BOOLEAN
  /\ save_complete_fn \in {"none", "sm_exit", "sm_restart"} /\ restart_hint \in Hints
  /\ other \in Cmds \cup {None} /\ (save_complete_fn = "sm_restart" => other # None)
  /\ session \in 0 .. MaxChanges /\ saved \in 0 .. session
  /\ asked \in [what : Requests, at : 0 .. session, cmd : Cmds \cup {None},
                crossing : BOOLEAN, failed : BOOLEAN]
  /\ sm \in [phase : {"idle", "saving", "phase2", "saved", "cancelled", "over"},
             shutdown : BOOLEAN, hint : Hints]
  /\ waiting \in Seq(BOOLEAN) /\ c2s \in Seq(ToSm) /\ s2c \in Seq(FromSm)

Of(messages, type) == {i \in DOMAIN messages : messages[i].type = type}
Dones == Of(c2s, "SaveYourselfDone")

\* The manager gets one SaveYourselfDone for a SaveYourself, whichever of the
\* second phase and the cancellation comes first: none it does not wait for.
OneDone ==
  IF sm.phase \in {"saving", "phase2", "cancelled"} THEN \A i, j \in Dones : i = j ELSE Dones = {}

\* Types, and: a SaveComplete ends the window manager only for the last request made, and
\* starts the window manager that was asked for with it.
LastRequestWins ==
  /\ TypeOK
  /\ wm = "left" => asked.what = "restart"
  /\ wm = "restarted" =>
       /\ asked.what \in {"restart", "restart_other"}
       /\ other = asked.cmd

\* Not so in the code in general: "Restart, saving session first": what the session was at the request is
\* saved, unless the save failed, before the request ends the window manager.
SavedFirst ==
  wm \in {"left", "restarted"} /\ smhook /\ ~asked.failed => saved >= asked.at

\* That is so for a request made while no save is under way.  The manager is to
\* start again a window manager that left for a restart: by then it has been
\* told so, or the message is on its way.
Published == Of(c2s, "SetProperties")
LastHint(hint) ==
  IF Published = {} THEN sm.hint = hint
  ELSE \E i \in Published : (\A j \in Published : j <= i) /\ c2s[i].hint = hint

SavedFirstQuiet ==
  ~asked.crossing /\ ~asked.failed =>
    /\ SavedFirst
    /\ wm = "left" => LastHint("Immediately")

\* What was asked for last is what happens, and with the session saved when no save was
\* under way
RequestKept == LastRequestWins /\ SavedFirstQuiet

\* Not so in the code: ioncore_restart does not return (the assertion in check_signals).
RestartDoesNotReturn == wm # "aborted"

\* The manager is never left waiting for an answer, and no other client with it.
SaveAnswered ==
  sm.phase \in {"saving", "phase2", "cancelled"} ~>
    (sm.phase \in {"idle", "saved"} \/ wm # "running" \/ ~sm_conn)

\* A restart happens unless another request takes its place, the shutdown it
\* was made in is cancelled (which resets asked with save_complete_fn), or the
\* connection is lost.
RestartHappens ==
  asked.what = "restart" ~> (wm # "running" \/ asked.what # "restart" \/ ~sm_conn)
=============================================================================
