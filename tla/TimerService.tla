---------------------------- MODULE TimerService ----------------------------
(***************************************************************************)
(* What the timers of libmainloop promise their users: the handler of a    *)
(* timer that was set runs once, after the moment the timer was set to and *)
(* not before the handler of a timer due earlier, unless the timer is      *)
(* reset or set again; one handler runs at a time.                         *)
(***************************************************************************)
EXTENDS Naturals

CONSTANTS Timers, Off

VARIABLES now,     \* the clock
          due,     \* of each timer: the moment it is set to, or Off
          running  \* the timer whose handler runs, or Off

vars == <<now, due, running>>

Init ==
  /\ now = 0
  /\ due = [t \in Timers |-> Off]
  /\ running = Off

Tick ==
  /\ now' = now + 1
  /\ UNCHANGED <<due, running>>

Set(t) ==
  /\ due'[t] # Off /\ due'[t] >= now
  /\ due' = [due EXCEPT ![t] = due'[t]]
  /\ UNCHANGED <<now, running>>

Reset(t) ==
  /\ due' = [due EXCEPT ![t] = Off]
  /\ UNCHANGED <<now, running>>

Fire(t) ==
  /\ running = Off
  /\ due[t] # Off /\ due[t] < now
  /\ \A u \in Timers : due[u] # Off => due[t] <= due[u]
  /\ due' = [due EXCEPT ![t] = Off]
  /\ running' = t
  /\ UNCHANGED now

Done ==
  /\ running' = Off
  /\ UNCHANGED <<now, due>>

Next == Tick \/ Done \/ \E t \in Timers : Set(t) \/ Reset(t) \/ Fire(t)

Spec == Init /\ [][Next]_vars
=============================================================================
