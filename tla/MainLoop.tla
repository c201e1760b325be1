------------------------------ MODULE MainLoop ------------------------------
(***************************************************************************)
(* Signals, timers and the loop that sleeps until something happens:       *)
(* libmainloop/signal.c and select.c with the callers in ioncore/event.c.  *)
(*                                                                         *)
(* Signal handlers only raise flags; mainloop_check_signals acts on them   *)
(* when the loop comes round.  The timers are a queue sorted by the moment *)
(* they are due, served by the one interval timer of the process.  Between *)
(* any two steps of the program the clock may tick, the interval timer may *)
(* expire, a child may die, and an unblocked pending signal may be         *)
(* delivered.                                                              *)
(*                                                                         *)
(* pc is where the program is:                                             *)
(*   usr2 chld reap kill tmr time fire  in mainloop_check_signals          *)
(*   handler                            in a timer handler it called       *)
(*   insert                             in timer_do_set                    *)
(*   set itimer                         in do_timer_set                    *)
(*   run                                the deferred actions of the loop   *)
(*   event                              an event or input handler          *)
(*   test enter pselect unmask          in mainloop_select                 *)
(*   getx select                        in ioncore_get_event               *)
(*   dead                               check_signals ended the process    *)
(***************************************************************************)
EXTENDS Naturals, Sequences, FiniteSets, SequencesExt

CONSTANTS
  Timers,    \* WTimer objects
  Children,  \* processes that may be spawned
  UserSignals, \* the signals other processes send
  Off,       \* no moment, no timer
  MaxDelay,  \* bound of the model: the longest time a timer is set to
  MaxTime    \* bound of the model: timers are set before this moment

ASSUME MainLoopAssumption ==
  /\ Off \notin Nat /\ Off \notin Timers
  /\ UserSignals \subseteq {"USR2", "TERM", "USR1"}
  /\ MaxDelay \in Nat /\ MaxTime \in Nat

VARIABLES
  pc,
  caller,    \* who called mainloop_check_signals: "loop" or "get_event"
  back,      \* where do_timer_set returns to
  arg,       \* timer_do_set: the timer, its delay and where it returns to
  now,       \* the clock of mainloop_gettime
  cur,       \* the local current_time of mainloop_check_signals
  wait,      \* what libmainloop_get_timeout computed
  queue,     \* the timers that are set
  when,      \* of each timer: the moment it was last set to
  running,   \* the timer whose handler mainloop_check_signals called
  itimer,    \* the moment ITIMER_REAL expires
  pending,   \* the signals pending for the process
  had_tmr, wait_sig, usr2_sig, kill_sig,  \* the flags the handlers raise
  child      \* of each child: "none", "running" or "zombie"

code == <<pc, caller, back, arg, cur, wait, running>>
flags == <<had_tmr, wait_sig, usr2_sig, kill_sig>>
vars == <<pc, caller, back, arg, now, cur, wait, queue, when, running, itimer,
          pending, had_tmr, wait_sig, usr2_sig, kill_sig, child>>

Signals == {"ALRM", "CHLD", "USR2", "TERM", "USR1"}

\* Mutant: SIGCHLD is not among the blocked signals.
special_sigs_nochld == Signals \ {"USR1", "CHLD"}

\* mainloop_trap_signals puts in special_sigs, the signals mainloop_select
\* blocks, all that it handles but SIGUSR1 (and the DEADLY ones, which are
\* handled as SIGUSR1 is).
special_sigs == Signals \ {"USR1"}

Moments == Nat \cup {Off}

Places == {"usr2", "chld", "reap", "kill", "tmr", "time", "fire", "handler",
           "insert", "set", "itimer", "run", "event", "test", "enter",
           "pselect", "unmask", "getx", "select", "dead"}

TypeOK ==
  /\ pc \in Places
  /\ caller \in {"loop", "get_event"}
  /\ back \in {"tmr", "handler", "run", "event", "insert"}
  /\ arg \in [timer : Timers \cup {Off}, msecs : Nat, ret : {"handler", "run", "event"}]
  /\ now \in Nat /\ cur \in Nat /\ wait \in Nat
  /\ queue \in Seq(Timers)
  /\ when \in [Timers -> Nat]
  /\ running \in Timers \cup {Off}
  /\ itimer \in Moments
  /\ pending \in SUBSET Signals
  /\ had_tmr \in BOOLEAN /\ wait_sig \in BOOLEAN /\ usr2_sig \in BOOLEAN
  /\ kill_sig \in {"none", "TERM", "USR1"}
  /\ child \in [Children -> {"none", "running", "zombie"}]

\* The variables that are locals of a function hold these values out of its scope.
NoArg == [timer |-> Off, msecs |-> 0, ret |-> "run"]

-----------------------------------------------------------------------------
(* The kernel *)

\* sigprocmask(SIG_BLOCK, special_sigs) is in force in mainloop_select but
\* while pselect sleeps.
Masked == IF pc \in {"test", "enter", "unmask"} THEN special_sigs ELSE {}

Asleep == pc \in {"pselect", "select"}

\* A signal interrupts pselect, which returns to mainloop_select, and select,
\* after which ioncore_get_event starts again.
Wake ==
  pc' = CASE pc = "pselect" -> "unmask" [] pc = "select" -> "usr2" [] OTHER -> pc

\* From MaxTime on, the clock of the model runs for the timers still set alone.
Tick ==
  /\ \/ now < MaxTime
     \/ itimer # Off /\ now < itimer
     \/ queue # <<>> /\ now <= when[Head(queue)]
  /\ now' = now + 1
  /\ UNCHANGED <<code, queue, when, itimer, pending, flags, child>>

Raise(s) == pending' = pending \cup {s}

Expire ==
  /\ itimer # Off /\ itimer <= now
  /\ itimer' = Off
  /\ Raise("ALRM")
  /\ UNCHANGED <<code, now, queue, when, flags, child>>

ChildDies(c) ==
  /\ child[c] = "running"
  /\ child' = [child EXCEPT ![c] = "zombie"]
  /\ Raise("CHLD")
  /\ UNCHANGED <<code, now, queue, when, itimer, flags>>

UserSignal(s) ==
  /\ s \in UserSignals \ pending
  /\ pc # "dead"
  /\ Raise(s)
  /\ UNCHANGED <<code, now, queue, when, itimer, flags, child>>

\* timer_handler, chld_handler, usr2_handler and exit_handler.
Deliver(s) ==
  /\ s \in pending \ Masked
  /\ pc # "dead"
  /\ pending' = pending \ {s}
  /\ had_tmr' = (had_tmr \/ s = "ALRM")
  /\ wait_sig' = (wait_sig \/ s = "CHLD")
  /\ usr2_sig' = (usr2_sig \/ s = "USR2")
  /\ kill_sig' = IF s \in {"TERM", "USR1"} THEN s ELSE kill_sig
  /\ Wake
  /\ UNCHANGED <<caller, back, arg, now, cur, wait, queue, when, running, itimer, child>>

-----------------------------------------------------------------------------
(* mainloop_check_signals *)

Goto(p) == pc' = p
OnlyPc == UNCHANGED <<caller, back, arg, now, cur, wait, queue, when, running,
                      itimer, pending, flags, child>>

CheckUsr2 ==
  /\ pc = "usr2"
  /\ Goto("chld")
  /\ usr2_sig' = FALSE
  /\ UNCHANGED <<caller, back, arg, now, cur, wait, queue, when, running, itimer,
                 pending, had_tmr, wait_sig, kill_sig, child>>

CheckChld ==
  /\ pc = "chld"
  /\ Goto(IF wait_sig THEN "reap" ELSE "kill")
  /\ wait_sig' = FALSE
  /\ UNCHANGED <<caller, back, arg, now, cur, wait, queue, when, running, itimer,
                 pending, had_tmr, usr2_sig, kill_sig, child>>

\* Mutant: one child is waited for for each signal, not all.
Reap_once(c) ==
  /\ pc = "reap"
  /\ child[c] = "zombie"
  /\ child' = [child EXCEPT ![c] = "none"]
  /\ Goto("kill")
  /\ UNCHANGED <<caller, back, arg, cur, wait, running, now, queue, when, itimer, pending, flags>>

\* waitpid and the hooks called for the child it returned.
Reap(c) ==
  /\ pc = "reap"
  /\ child[c] = "zombie"
  /\ child' = [child EXCEPT ![c] = "none"]
  /\ UNCHANGED <<code, now, queue, when, itimer, pending, flags>>

NoneToReap ==
  /\ pc = "reap"
  /\ \A c \in Children : child[c] # "zombie"
  /\ Goto("kill")
  /\ OnlyPc

\* A deadly signal: the caller restarts, resigns or kills the process, and the
\* timers are not looked at.
CheckKill ==
  /\ pc = "kill"
  /\ Goto(IF kill_sig # "none" THEN "dead" ELSE "tmr")
  /\ OnlyPc

Leave == Goto(IF caller = "loop" THEN "run" ELSE "getx")

\* while(had_tmr){ had_tmr=FALSE; if(queue==NULL) break; ...
CheckTimers ==
  /\ pc = "tmr"
  /\ IF had_tmr /\ queue # <<>> THEN Goto("time") ELSE Leave
  /\ had_tmr' = FALSE
  /\ UNCHANGED <<caller, back, arg, now, cur, wait, queue, when, running, itimer,
                 pending, wait_sig, usr2_sig, kill_sig, child>>

GetTime ==
  /\ pc = "time"
  /\ cur' = now
  /\ Goto("fire")
  /\ UNCHANGED <<caller, back, arg, now, wait, queue, when, running, itimer,
                 pending, flags, child>>

\* Mutant: a timer is taken to be due at its moment, not after.
CallHandler_early ==
  /\ pc = "fire"
  /\ queue # <<>> /\ when[Head(queue)] <= cur
  /\ queue' = Tail(queue)
  /\ running' = Head(queue)
  /\ Goto("handler")
  /\ UNCHANGED <<caller, back, arg, now, cur, wait, when, itimer, pending, flags, child>>

\* The first timer is taken off the queue and its handler called.
CallHandler ==
  /\ pc = "fire"
  /\ queue # <<>> /\ when[Head(queue)] < cur
  /\ queue' = Tail(queue)
  /\ running' = Head(queue)
  /\ Goto("handler")
  /\ UNCHANGED <<caller, back, arg, now, cur, wait, when, itimer, pending, flags, child>>

HandlerReturns ==
  /\ pc = "handler"
  /\ running' = Off
  /\ Goto("fire")
  /\ UNCHANGED <<caller, back, arg, now, cur, wait, queue, when, itimer, pending,
                 flags, child>>

\* Mutant: the interval timer is not set for the timers left.
NoneDue_norearm ==
  /\ pc = "fire"
  /\ queue # <<>> => when[Head(queue)] >= cur
  /\ back' = "tmr"
  /\ cur' = 0
  /\ Goto("tmr")
  /\ UNCHANGED <<caller, arg, now, wait, queue, when, running, itimer,
                 pending, flags, child>>

NoneDue ==
  /\ pc = "fire"
  /\ queue # <<>> => when[Head(queue)] >= cur
  /\ back' = "tmr"
  /\ cur' = 0
  /\ Goto("set")
  /\ UNCHANGED <<caller, arg, now, wait, queue, when, running, itimer,
                 pending, flags, child>>

-----------------------------------------------------------------------------
(* do_timer_set and the operations on timers *)

\* Mutant: a timer that is due does not raise had_tmr.
SetTimeout_due ==
  /\ pc = "set"
  /\ IF queue = <<>>
     THEN /\ itimer' = IF had_tmr THEN itimer ELSE Off
          /\ Goto(back)
          /\ UNCHANGED <<wait, had_tmr>>
     ELSE IF when[Head(queue)] > now
     THEN /\ wait' = when[Head(queue)] - now
          /\ Goto("itimer")
          /\ UNCHANGED <<itimer, had_tmr>>
     ELSE /\ Goto(back)
          /\ UNCHANGED <<wait, itimer, had_tmr>>
  /\ UNCHANGED <<caller, back, arg, now, cur, queue, when, running, pending,
                 wait_sig, usr2_sig, kill_sig, child>>

\* libmainloop_get_timeout: with a timer that is due had_tmr is raised instead;
\* with no timer left the interval timer is disarmed.
SetTimeout ==
  /\ pc = "set"
  /\ IF queue = <<>>
     THEN /\ itimer' = IF had_tmr THEN itimer ELSE Off
          /\ Goto(back)
          /\ UNCHANGED <<wait, had_tmr>>
     ELSE IF when[Head(queue)] > now
     THEN /\ wait' = when[Head(queue)] - now
          /\ Goto("itimer")
          /\ UNCHANGED <<itimer, had_tmr>>
     ELSE /\ had_tmr' = TRUE
          /\ Goto(back)
          /\ UNCHANGED <<wait, itimer>>
  /\ UNCHANGED <<caller, back, arg, now, cur, queue, when, running, pending,
                 wait_sig, usr2_sig, kill_sig, child>>

\* setitimer, which counts from the moment it is called; when it fails the
\* timers are looked at at once.
SetItimer ==
  /\ pc = "itimer"
  /\ \/ itimer' = now + wait /\ UNCHANGED had_tmr
     \/ had_tmr' = TRUE /\ UNCHANGED itimer
  /\ wait' = 0
  /\ Goto(back)
  /\ UNCHANGED <<caller, back, arg, now, cur, queue, when, running, pending,
                 wait_sig, usr2_sig, kill_sig, child>>

\* Code that may use the timers.
Free == pc \in {"handler", "run", "event"}

timer_is_set(t) == Contains(queue, t)

\* The walk along the queue to the timer, which is there once.
Unqueue(t) == \E i \in 1 .. Len(queue) : queue[i] = t /\ queue' = RemoveAt(queue, i)

\* timer_reset
TimerReset(t) ==
  /\ Free
  /\ Unqueue(t)
  /\ back' = pc
  /\ Goto("set")
  /\ UNCHANGED <<caller, arg, now, cur, wait, when, running, itimer, pending,
                 flags, child>>

\* Mutant: the timer is not reset first.
TimerSet_noreset(t, msecs) ==
  /\ Free /\ now < MaxTime
  /\ arg' = [timer |-> t, msecs |-> msecs, ret |-> pc]
  /\ Goto("insert")
  /\ UNCHANGED <<queue, back, caller, now, cur, wait, when, running, itimer, pending, flags, child>>

\* timer_do_set up to its timer_reset, which sets the interval timer anew if
\* the timer was in the queue.
TimerSet(t, msecs) ==
  /\ Free /\ now < MaxTime
  /\ arg' = [timer |-> t, msecs |-> msecs, ret |-> pc]
  /\ IF timer_is_set(t)
     THEN Unqueue(t) /\ back' = "insert" /\ Goto("set")
     ELSE Goto("insert") /\ UNCHANGED <<queue, back>>
  /\ UNCHANGED <<caller, now, cur, wait, when, running, itimer, pending, flags, child>>

\* Mutant: the interval timer is set only for the first timer.
TimerInsert_rearm ==
  /\ pc = "insert"
  /\ LET w == now + arg.msecs
     IN  /\ when' = [when EXCEPT ![arg.timer] = w]
         /\ \E i \in 1 .. Len(queue) + 1 :
              /\ \A j \in 1 .. i - 1 : when[queue[j]] <= w
              /\ i <= Len(queue) => when[queue[i]] > w
              /\ queue' = InsertAt(queue, i, arg.timer)
  /\ back' = arg.ret
  /\ arg' = NoArg
  /\ Goto(IF queue = <<>> THEN "set" ELSE arg.ret)
  /\ UNCHANGED <<caller, now, cur, wait, running, itimer, pending, flags, child>>

\* The rest of timer_do_set: the timer goes behind those due no later.
TimerInsert ==
  /\ pc = "insert"
  /\ LET w == now + arg.msecs
     IN  /\ when' = [when EXCEPT ![arg.timer] = w]
         /\ \E i \in 1 .. Len(queue) + 1 :
              /\ \A j \in 1 .. i - 1 : when[queue[j]] <= w
              /\ i <= Len(queue) => when[queue[i]] > w
              /\ queue' = InsertAt(queue, i, arg.timer)
  /\ back' = arg.ret
  /\ arg' = NoArg
  /\ Goto("set")
  /\ UNCHANGED <<caller, now, cur, wait, running, itimer, pending, flags, child>>

-----------------------------------------------------------------------------
(* The loop *)

\* mainloop_spawn from a deferred action or a handler.
Spawn(c) ==
  /\ Free /\ child[c] = "none"
  /\ child' = [child EXCEPT ![c] = "running"]
  /\ UNCHANGED <<code, now, queue, when, itimer, pending, flags>>

\* An X event is waiting: it is handled and the loop starts again.
XEvent ==
  /\ pc = "run"
  /\ Goto("event")
  /\ OnlyPc

\* Nothing is waiting: mainloop_select.
EnterSelect ==
  /\ pc = "run"
  /\ Goto("test")
  /\ OnlyPc

\* Mutant: wait_sig is not looked at.
TestSignals_nowait ==
  /\ pc = "test"
  /\ Goto(IF had_tmr \/ usr2_sig \/ kill_sig # "none"
          THEN "unmask" ELSE "enter")
  /\ OnlyPc

TestSignals ==
  /\ pc = "test"
  /\ Goto(IF had_tmr \/ wait_sig \/ usr2_sig \/ kill_sig # "none"
          THEN "unmask" ELSE "enter")
  /\ OnlyPc

EnterPselect ==
  /\ pc = "enter"
  /\ Goto("pselect")
  /\ OnlyPc

\* Some descriptor is readable.
Readable ==
  /\ pc = "pselect"
  /\ Goto("unmask")
  /\ OnlyPc

\* check_input_fds may have a handler to call, or not.
Unmask ==
  /\ pc = "unmask"
  /\ Goto("event") \/ Goto("usr2")
  /\ OnlyPc

EventDone ==
  /\ pc = "event"
  /\ Goto("usr2")
  /\ caller' = "loop"
  /\ UNCHANGED <<back, arg, now, cur, wait, queue, when, running, itimer, pending,
                 flags, child>>

\* A handler that grabs the pointer or needs a timestamp waits for an X event
\* of its own in ioncore_get_event.
GetEvent ==
  /\ pc = "event"
  /\ Goto("usr2")
  /\ caller' = "get_event"
  /\ UNCHANGED <<back, arg, now, cur, wait, queue, when, running, itimer, pending,
                 flags, child>>

GotEvent ==
  /\ pc = "getx"
  /\ Goto("event")
  /\ OnlyPc

NoEvent ==
  /\ pc = "getx"
  /\ Goto("select")
  /\ OnlyPc

XReadable ==
  /\ pc = "select"
  /\ Goto("usr2")
  /\ OnlyPc

Init ==
  /\ pc = "usr2" /\ caller = "loop" /\ back = "run"
  /\ arg = NoArg
  /\ now = 0 /\ cur = 0 /\ wait = 0
  /\ queue = <<>> /\ when = [t \in Timers |-> 0] /\ running = Off
  /\ itimer = Off /\ pending = {}
  /\ had_tmr = FALSE /\ wait_sig = FALSE /\ usr2_sig = FALSE /\ kill_sig = "none"
  /\ child = [c \in Children |-> "none"]

Environment ==
  \/ Tick \/ Expire
  \/ \E c \in Children : ChildDies(c)
  \/ \E s \in Signals : UserSignal(s) \/ Deliver(s)
  \/ Readable \/ XReadable

CheckSignals ==
  \/ CheckUsr2 \/ CheckChld \/ NoneToReap \/ CheckKill \/ CheckTimers
  \/ GetTime \/ CallHandler \/ HandlerReturns \/ NoneDue
  \/ \E c \in Children : Reap(c)

TimerOps ==
  \/ SetTimeout \/ SetItimer \/ TimerInsert
  \/ \E t \in Timers : TimerReset(t)
  \/ \E t \in Timers, d \in 0 .. MaxDelay : TimerSet(t, d)

Loop ==
  \/ XEvent \/ EnterSelect \/ TestSignals \/ EnterPselect \/ Unmask
  \/ EventDone \/ GetEvent \/ GotEvent \/ NoEvent
  \/ \E c \in Children : Spawn(c)

Next == Environment \/ CheckSignals \/ TimerOps \/ Loop

Spec == Init /\ [][Next]_vars

\* The program runs on until it sleeps: handlers, deferred actions and the
\* loops in them end whatever they do before.  The clock runs, the interval
\* timer expires, and a pending signal is delivered when sigprocmask or pselect
\* lets it through.  Nothing is assumed of the user, the X server or children.
Fairness ==
  /\ WF_vars(CheckSignals) /\ WF_vars(SetTimeout \/ SetItimer \/ TimerInsert)
  /\ WF_vars(EnterPselect \/ TestSignals \/ Unmask \/ GotEvent \/ NoEvent)
  /\ SF_vars(HandlerReturns) /\ SF_vars(EventDone \/ GetEvent) /\ SF_vars(EnterSelect \/ XEvent)
  /\ SF_vars(Tick) /\ WF_vars(Expire)
  /\ \A s \in Signals : SF_vars(Deliver(s))

FairSpec == Spec /\ Fairness

-----------------------------------------------------------------------------
(* Properties *)

\* The queue holds a timer once and is sorted by the moments.
QueueSorted ==
  \A i, j \in 1 .. Len(queue) :
    i < j => queue[i] # queue[j] /\ when[queue[i]] <= when[queue[j]]

\* The loop never sleeps over work a signal in special_sigs announced: the
\* signals are blocked from the test of the flags to pselect.
NoMissedSignal ==
  pc = "pselect" => ~had_tmr /\ ~wait_sig /\ ~usr2_sig /\ kill_sig # "TERM"

\* The loop never sleeps with a timer set and nothing to wake it, however
\* expiries, resets, sets and failures of setitimer fall together.
NoLostTimer ==
  pc = "pselect" /\ queue # <<>> => itimer # Off \/ "ALRM" \in pending

\* SIGCHLD is not counted, so two children may die on one signal: a child that
\* is dead when the loop sleeps has a signal of its own still pending.
NoLostChild ==
  pc = "pselect" /\ (\E c \in Children : child[c] = "zombie") => "CHLD" \in pending

\* What mainloop_unhandled_signals is for ("Race conditions with other signals
\* we'll just have to ignore without pselect()"): with pselect the loop does
\* not sleep with any signal unhandled.  Not so in the code, for SIGUSR1.
NoUnhandledSignal == pc = "pselect" => kill_sig = "none"

\* The timers keep the promises of TimerService.
Service == INSTANCE TimerService WITH
  due <- [t \in Timers |-> IF timer_is_set(t) THEN when[t] ELSE Off]

ImplementsService == Service!Spec

\* A timer that is set fires or is reset, or the program has ended or sleeps in
\* ioncore_get_event, which waits for the X server alone.
Elsewhere == pc \in {"select", "dead"}

TimersServed == \A t \in Timers : timer_is_set(t) ~> ~timer_is_set(t) \/ Elsewhere

\* A child that dies is waited for.
ChildrenReaped ==
  \A c \in Children : child[c] = "zombie" ~> child[c] # "zombie" \/ Elsewhere
=============================================================================
