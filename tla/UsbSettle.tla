----------------------------- MODULE UsbSettle ------------------------------
(***************************************************************************)
(* The settle time of USB_Task, with the arithmetic UsbHost leaves out.    *)
(* The time in milliseconds is computed from alt_nticks() in 32 bits, so   *)
(* it starts over every 2^32 / 1000 milliseconds, while the deadline is    *)
(* computed as if it did not.  No device comes or goes here.               *)
(***************************************************************************)
EXTENDS Naturals

CONSTANTS
    Span,               \* values of alt_u32 (2^32)
    Thousand,           \* the factor from seconds to milliseconds (1000)
    TicksPerSecond,     \* alt_ticks_per_second() (1000)
    Delay               \* the settle time in milliseconds (200)

VARIABLES
    nticks,             \* _alt_nticks
    task,               \* usb_task_state
    usb_delay

vars == <<nticks, task, usb_delay>>

Init ==
    /\ nticks \in 0..Span - 1
    /\ task = "ATTACHED"
    /\ usb_delay = 0

Milliseconds == ((nticks * Thousand) % Span) \div TicksPerSecond

Attached ==
    /\ task = "ATTACHED"
    /\ usb_delay' = (Milliseconds + Delay) % Span
    /\ task' = "SETTLE"
    /\ UNCHANGED nticks

Settle ==
    /\ task = "SETTLE"
    /\ Milliseconds > usb_delay
    /\ task' = "RESET_DEVICE"
    /\ UNCHANGED <<nticks, usb_delay>>

alt_tick ==
    /\ nticks' = (nticks + 1) % Span
    /\ UNCHANGED <<task, usb_delay>>

Next == Attached \/ Settle \/ alt_tick
Spec == Init /\ [][Next]_vars

\* The loop looks often enough not to miss a deadline that passes again and
\* again.
FairSpec == Spec /\ WF_vars(alt_tick) /\ SF_vars(Attached) /\ SF_vars(Settle)

\* "waiting for settle timer to expire" (transfer.c:278-282): it expires.
SettleEnds == task = "SETTLE" ~> task = "RESET_DEVICE"
=============================================================================
