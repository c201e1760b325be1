------------------------------- MODULE TimeVal -------------------------------
(***************************************************************************)
(* The arithmetic of struct timeval in libmainloop/signal.c: when a timer  *)
(* set now for some milliseconds is due, and how long the interval timer   *)
(* has to run.  The units are constants, as the width of the product in    *)
(* add_to_current_time is what matters: msecs is a uint and msecs * 1000   *)
(* is computed in a uint before it is added to a long.                     *)
(*                                                                         *)
(* The machine sets timers again and again; its state is the clock, the    *)
(* last timer set and the last timeout computed for it.                    *)
(***************************************************************************)
EXTENDS Integers

CONSTANTS
  USECS_IN_SEC,  \* microseconds in a second
  USECS_IN_MSEC, \* microseconds in a millisecond
  UINT,          \* the number of values of a uint
  MaxMsecs,      \* bound of the model: the largest argument of timer_set
  MaxClock       \* bound of the model: the last moment of the clock, in usecs

ASSUME TimeValAssumption ==
  /\ USECS_IN_SEC \in Nat \ {0} /\ USECS_IN_MSEC \in Nat \ {0} /\ UINT \in Nat \ {0}
  /\ MaxMsecs \in Nat /\ MaxMsecs < UINT /\ MaxClock \in Nat

VARIABLES
  clock,   \* the microseconds gone by
  set,     \* the moment the timer was set at and its msecs
  due,     \* the timeval computed for it
  timeout  \* the timeval libmainloop_get_timeout computed, or NoTimeout

vars == <<clock, set, due, timeout>>

Timeval == [sec : Nat, usec : 0 .. USECS_IN_SEC - 1]
NoTimeout == [sec |-> -1, usec |-> 0]

\* mainloop_gettime
gettime(c) == [sec |-> c \div USECS_IN_SEC, usec |-> c % USECS_IN_SEC]

Usecs(tv) == tv.sec * USECS_IN_SEC + tv.usec

\* TIMEVAL_LATER
Later(a, b) == a.sec > b.sec \/ (a.sec = b.sec /\ a.usec > b.usec)

\* Microseconds of a second and more are carried over to the seconds.
Carry(sec, usec) ==
  [sec |-> sec + (usec \div USECS_IN_SEC), usec |-> usec % USECS_IN_SEC]

\* msecs * 1000 is the product of two uints.
add_to_current_time(tv, msecs) ==
  Carry(tv.sec, tv.usec + ((msecs * USECS_IN_MSEC) % UINT))

\* Mutant: no second is borrowed.
get_timeout_noborrow(when, tv) ==
  IF ~Later(when, tv) THEN NoTimeout
  ELSE IF when.usec < tv.usec
  THEN Carry(when.sec - tv.sec, (when.usec + USECS_IN_SEC) - tv.usec)
  ELSE Carry(when.sec - tv.sec, when.usec - tv.usec)

\* libmainloop_get_timeout for the first timer of the queue.
get_timeout(when, tv) ==
  IF ~Later(when, tv) THEN NoTimeout
  ELSE IF when.usec < tv.usec
  THEN Carry((when.sec - 1) - tv.sec, (when.usec + USECS_IN_SEC) - tv.usec)
  ELSE Carry(when.sec - tv.sec, when.usec - tv.usec)

Init ==
  /\ clock = 0
  /\ set = [at |-> 0, msecs |-> 0]
  /\ due = gettime(0)
  /\ timeout = NoTimeout

Set(msecs) ==
  /\ set' = [at |-> clock, msecs |-> msecs]
  /\ due' = add_to_current_time(gettime(clock), msecs)
  /\ timeout' = get_timeout(due', gettime(clock))
  /\ UNCHANGED clock

\* Time goes by, and the timeout is computed again.
Rearm(c) ==
  /\ c > clock
  /\ clock' = c
  /\ timeout' = get_timeout(due, gettime(c))
  /\ UNCHANGED <<set, due>>

Next ==
  \/ \E msecs \in 0 .. MaxMsecs : Set(msecs)
  \/ \E c \in 0 .. MaxClock : Rearm(c)

Spec == Init /\ [][Next]_vars

-----------------------------------------------------------------------------
(* Properties *)

TypeOK ==
  /\ clock \in Nat
  /\ set \in [at : Nat, msecs : 0 .. MaxMsecs]
  /\ due \in Timeval
  /\ timeout \in Timeval \cup {NoTimeout}

\* The timeout is exactly the time left, and there is none if none is left.
TimeoutExact ==
  IF Usecs(due) > clock
  THEN timeout # NoTimeout /\ Usecs(timeout) = Usecs(due) - clock
  ELSE timeout = NoTimeout

\* A timer is due when timer_set was asked to call it, while the product fits.
DueExact ==
  set.msecs * USECS_IN_MSEC < UINT =>
    Usecs(due) = set.at + set.msecs * USECS_IN_MSEC

\* The interval timer is armed for exactly the time left until the moment asked for (so
\* never for zero, which would disarm it), whatever carries and borrows there are.
TimerExact == TypeOK /\ DueExact /\ TimeoutExact

\* Not so in the code, which computes msecs * 1000 in a uint (see DueExact):
\* "Set timer to call fn in msecs milliseconds" (the documentation of
\* WTimer.set, for any msecs).
DueAsDocumented == Usecs(due) = set.at + set.msecs * USECS_IN_MSEC
=============================================================================
