------------------------------ MODULE SysClock ------------------------------
(***************************************************************************)
(* The system clock of the board support package: alt_tick, called by the  *)
(* timer interrupt, counts ticks in a word that wraps and calls an alarm   *)
(* whenever its time has come.  rollover holds back an alarm whose time    *)
(* lies beyond the next wrap.  There is one alarm, started with            *)
(* alt_alarm_start and renewed for the same number of ticks each time.     *)
(***************************************************************************)
EXTENDS Integers

CONSTANTS
    Span,           \* values of alt_u32 (2^32)
    Period          \* ticks between calls (alt_ticks_per_second(), 1000)

\* What the theorems take for granted: a period fits in the counter.
ClockAssumption == Span \in Nat /\ Period \in Nat \ {0} /\ Period + 1 < Span

VARIABLES
    nticks,         \* _alt_nticks
    time, rollover, \* of the alarm
    \* history
    since           \* ticks since the last call, -1 at the start

vars == <<nticks, time, rollover, since>>

TypeOK ==
    /\ nticks \in 0..Span - 1
    /\ time \in 0..Span - 1 /\ rollover \in BOOLEAN
    /\ since \in -1..Period - 1

\* alt_alarm_start, at any time.
Init ==
    /\ nticks \in 0..Span - 1
    /\ time = (nticks + Period + 1) % Span
    /\ rollover = (time < nticks)
    /\ since = -1

Ticked == (nticks + 1) % Span

\* rollover as the test of time finds it: the wrap clears it.
HeldBack == rollover /\ Ticked /= 0

\* MUTANT: rollover is not looked at.
Fires_NoRollover == time <= Ticked

\* The coming tick calls the alarm.
Fires == time <= Ticked /\ ~HeldBack

alt_tick ==
    /\ nticks' = Ticked
    /\ time' = IF Fires THEN (time + Period) % Span ELSE time
    /\ rollover' = IF Fires THEN time' < nticks' ELSE HeldBack
    /\ since' = IF Fires THEN 0 ELSE since + 1

Spec == Init /\ [][alt_tick]_vars

\* The alarm is called exactly every Period ticks, the first time one later,
\* also across a wrap of the counter (alt_tick.c:86-147, alt_alarm_start.c:65-112).
AlarmOnTime == Fires <=> since + 1 = Period
=============================================================================
