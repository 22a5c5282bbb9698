------------------------------- MODULE Console -------------------------------
(***************************************************************************)
(* The console of the processor, stdout over JTAG: write() of the fast     *)
(* driver fills a ring, the interrupt routine moves the ring into the      *)
(* FIFO of the device, the host takes characters out of the FIFO.  Nothing *)
(* reads stdin, so what the host types fills the receive ring for good.    *)
(* An alarm of the system clock looks every second whether the host was    *)
(* there, and write() gives up on a host that is away.                     *)
(* write() may be interrupted between any two of its accesses, except      *)
(* where it disables interrupts; interrupts do not nest.  The device and   *)
(* the host move at any time.  Characters are numbered as write() accepts  *)
(* them.  Locals are 0 while they have no use.                             *)
(***************************************************************************)
EXTENDS Integers, Sequences

CONSTANTS
    BUF_LEN,            \* of both rings (2048)
    Depth,              \* of both FIFOs (64)
    Threshold,          \* WI at so many characters, RI at so many free places (8)
    timeout,            \* seconds without the host (10)
    MaxInactive,        \* host_inactive stays there (INT_MAX - 2)
    Lengths,            \* what printf hands over in a call
    MaxChars,           \* bound: characters offered in all
    Span, Period        \* of SysClock

ASSUME ConsoleAssumption ==
    /\ BUF_LEN \in Nat \ {0, 1} /\ Depth \in Nat \ {0} /\ Threshold \in 0..Depth - 1
    /\ timeout \in Nat \ {0} /\ MaxInactive \in Nat /\ timeout <= MaxInactive
    /\ Lengths \subseteq Nat \ {0} /\ MaxChars \in Nat
    /\ Span \in Nat /\ Period \in Nat \ {0} /\ Period + 1 < Span

VARIABLES
    \* altera_avalon_jtag_uart_write
    wpc, count, n, out,
    \* altera_avalon_jtag_uart_state
    tx_in, tx_out, tx_buf,
    rx,                 \* characters in the receive ring
    RE, WE,             \* irq_enable, always as in the control register
    host_inactive,
    \* altera_avalon_jtag_uart_irq
    ipc, WI, space,     \* of the control word it has read
    ravail,             \* the last data word told of more characters
    \* the device
    wfifo, rfifo,       \* characters to the host, number of those from it
    ac, pause_irq,
    \* the system clock
    nticks, time, rollover, since,
    \* history
    accepted, delivered

wvars == <<wpc, count, n, out, tx_in, tx_buf, accepted>>
ivars == <<ipc, WI, space, ravail, tx_out, rx>>
ien   == <<RE, WE>>
fifos == <<wfifo, rfifo, delivered>>
flags == <<ac, pause_irq>>
clock == <<nticks, time, rollover, since>>
vars  == <<wvars, ivars, ien, host_inactive, fifos, flags, clock>>

Clock == INSTANCE SysClock
Ring == 0..BUF_LEN - 1

TypeOK ==
    /\ wpc \in {"idle", "look", "copy", "publish", "kick", "wait", "judge"}
    /\ count \in Nat /\ n \in 0..BUF_LEN - 1 /\ out \in Ring
    /\ tx_in \in Ring /\ tx_out \in Ring /\ tx_buf \in [Ring -> Nat]
    /\ rx \in Ring
    /\ RE \in BOOLEAN /\ WE \in BOOLEAN
    /\ host_inactive \in 0..MaxInactive
    /\ ipc \in {"off", "receive", "send", "again"}
    /\ WI \in BOOLEAN /\ space \in 0..Depth /\ ravail \in BOOLEAN
    /\ wfifo \in Seq(Nat) /\ Len(wfifo) <= Depth /\ rfifo \in 0..Depth
    /\ ac \in BOOLEAN /\ pause_irq \in BOOLEAN
    /\ Clock!TypeOK
    /\ accepted \in Nat /\ delivered \in Nat

\* altera_avalon_jtag_uart_init and the power-up state of the device.
Init ==
    /\ wpc = "idle" /\ count = 0 /\ n = 0 /\ out = 0
    /\ tx_in = 0 /\ tx_out = 0 /\ tx_buf = [i \in Ring |-> 0]
    /\ rx = 0
    /\ RE = TRUE /\ WE = FALSE
    /\ host_inactive = 0
    /\ ipc = "off" /\ WI = FALSE /\ space = 0 /\ ravail = FALSE
    /\ wfifo = <<>> /\ rfifo = 0
    /\ ac = FALSE /\ pause_irq = FALSE
    /\ Clock!Init /\ nticks = 1     \* the timer was started just before
    /\ accepted = 0 /\ delivered = 0
-----------------------------------------------------------------------------
(* write()                                                                 *)

Interruptible == ipc = "off"

Call(c) ==
    /\ Interruptible /\ wpc = "idle"
    /\ accepted + c <= MaxChars
    /\ wpc' = "look" /\ count' = c
    /\ UNCHANGED <<n, out, tx_in, tx_buf, accepted, ivars, ien, host_inactive,
                   fifos, flags, clock>>

\* MUTANT: a ring with out at 0 is filled to the brim.
Room_Brim(in, o) ==
    IF in < o THEN o - 1 - in ELSE BUF_LEN - in

\* The places from in on, without turning round; one place stays free.
Room(in, o) ==
    IF in < o THEN o - 1 - in
    ELSE IF o > 0 THEN BUF_LEN - in ELSE BUF_LEN - 1 - in

\* Reads both ends of the ring.
Look ==
    /\ Interruptible /\ wpc = "look"
    /\ out' = IF count > 0 THEN tx_out ELSE out
    /\ LET room == Room(tx_in, tx_out)
       IN  IF count > 0 /\ room > 0
           THEN n' = (IF room > count THEN count ELSE room) /\ wpc' = "copy"
           ELSE n' = n /\ wpc' = "kick"
    /\ UNCHANGED <<count, tx_in, tx_buf, accepted, ivars, ien, host_inactive,
                   fifos, flags, clock>>

\* memcpy; the interrupt routine does not look at these places yet.
Copy ==
    /\ Interruptible /\ wpc = "copy"
    /\ tx_buf' = [i \in Ring |-> IF i \in tx_in..tx_in + n - 1
                                 THEN accepted + 1 + (i - tx_in) ELSE tx_buf[i]]
    /\ wpc' = "publish"
    /\ UNCHANGED <<count, n, out, tx_in, accepted, ivars, ien, host_inactive,
                   fifos, flags, clock>>

\* MUTANT: the end of the ring is forgotten.
Publish_RunsOn ==
    /\ Interruptible /\ wpc = "publish"
    /\ tx_in' = tx_in + n
    /\ count' = count - n
    /\ accepted' = accepted + n
    /\ n' = 0
    /\ wpc' = "look"
    /\ UNCHANGED <<out, tx_buf, ivars, ien, host_inactive, fifos, flags, clock>>

Publish ==
    /\ Interruptible /\ wpc = "publish"
    /\ tx_in' = (tx_in + n) % BUF_LEN
    /\ count' = count - n
    /\ accepted' = accepted + n
    /\ n' = 0
    /\ wpc' = "look"
    /\ UNCHANGED <<out, tx_buf, ivars, ien, host_inactive, fifos, flags, clock>>

\* With interrupts disabled.
Kick ==
    /\ Interruptible /\ wpc = "kick"
    /\ WE' = TRUE
    /\ wpc' = IF count > 0 THEN "wait" ELSE "idle"
    /\ out' = IF count > 0 THEN out ELSE 0
    /\ UNCHANGED <<count, n, tx_in, tx_buf, accepted, ivars, RE, host_inactive,
                   fifos, flags, clock>>

\* MUTANT: waits for the host however long it is away.
Wait_ForEver ==
    /\ Interruptible /\ wpc = "wait"
    /\ out /= tx_out
    /\ wpc' = "judge"
    /\ UNCHANGED <<count, n, out, tx_in, tx_buf, accepted, ivars, ien, host_inactive,
                   fifos, flags, clock>>

\* The loop ends when the routine has sent something or the host is away.
Wait ==
    /\ Interruptible /\ wpc = "wait"
    /\ out /= tx_out \/ host_inactive >= timeout
    /\ wpc' = "judge"
    /\ UNCHANGED <<count, n, out, tx_in, tx_buf, accepted, ivars, ien, host_inactive,
                   fifos, flags, clock>>

\* A host that missed the last second is enough to give up: the call returns
\* what it has accepted, or -EIO for nothing.
Judge ==
    /\ Interruptible /\ wpc = "judge"
    /\ wpc' = IF host_inactive > 0 THEN "idle" ELSE "look"
    /\ count' = IF host_inactive > 0 THEN 0 ELSE count
    /\ out' = 0
    /\ UNCHANGED <<n, tx_in, tx_buf, accepted, ivars, ien, host_inactive,
                   fifos, flags, clock>>

Writer == Look \/ Copy \/ Publish \/ Kick \/ Wait \/ Judge
-----------------------------------------------------------------------------
(* The interrupt routine.                                                  *)

RIpending == RE /\ (pause_irq \/ Depth - rfifo <= Threshold)
WIpending == WE /\ Len(wfifo) <= Threshold

\* Reads the control register, at first and after each round.
Control ==
    /\ WI' = WIpending
    /\ space' = IF WIpending THEN Depth - Len(wfifo) ELSE 0
    /\ ravail' = RIpending
    /\ ipc' = IF RIpending THEN "receive" ELSE IF WIpending THEN "send" ELSE "off"
    /\ UNCHANGED <<wvars, tx_out, rx, ien, host_inactive, fifos, flags, clock>>

Enter == ipc = "off" /\ (RIpending \/ WIpending) /\ Control
Again == ipc = "again" /\ Control

AfterReceive == IF WI THEN "send" ELSE "again"

\* Reads the data register while there is room in the ring.
Receive ==
    /\ ipc = "receive" /\ rx < BUF_LEN - 1
    /\ pause_irq' = FALSE
    /\ ravail' = (rfifo > 1)
    /\ IF rfifo > 0
       THEN rfifo' = rfifo - 1 /\ rx' = rx + 1 /\ UNCHANGED ipc
       ELSE ipc' = AfterReceive /\ UNCHANGED <<rfifo, rx>>
    /\ UNCHANGED <<wvars, WI, space, tx_out, ien, host_inactive, wfifo, delivered,
                   ac, clock>>

\* MUTANT: receive interrupts stay on when the ring is full.
ReceiveFull_StaysOn ==
    /\ ipc = "receive" /\ rx = BUF_LEN - 1
    /\ ipc' = AfterReceive
    /\ UNCHANGED <<wvars, WI, space, ravail, tx_out, rx, ien, host_inactive,
                   fifos, flags, clock>>

\* The ring is full: receive interrupts are turned off if more is waiting.
ReceiveFull ==
    /\ ipc = "receive" /\ rx = BUF_LEN - 1
    /\ RE' = (RE /\ ~ravail)
    /\ ipc' = AfterReceive
    /\ UNCHANGED <<wvars, WI, space, ravail, tx_out, rx, WE, host_inactive,
                   fifos, flags, clock>>

\* Moves a character from the ring into the FIFO.
Send ==
    /\ ipc = "send" /\ space > 0 /\ tx_out /= tx_in
    /\ wfifo' = Append(wfifo, tx_buf[tx_out])
    /\ tx_out' = (tx_out + 1) % BUF_LEN
    /\ space' = space - 1
    /\ UNCHANGED <<wvars, ipc, WI, ravail, rx, ien, host_inactive, rfifo,
                   delivered, flags, clock>>

\* MUTANT: transmit interrupts are turned off even if characters are left.
SendEnd_AlwaysOff ==
    /\ ipc = "send" /\ (space = 0 \/ tx_out = tx_in)
    /\ WE' = FALSE
    /\ ipc' = "again"
    /\ UNCHANGED <<wvars, WI, space, ravail, tx_out, rx, RE, host_inactive,
                   fifos, flags, clock>>

\* With space left the ring is empty: transmit interrupts are turned off.
SendEnd ==
    /\ ipc = "send" /\ (space = 0 \/ tx_out = tx_in)
    /\ WE' = (WE /\ space = 0)
    /\ ipc' = "again"
    /\ UNCHANGED <<wvars, WI, space, ravail, tx_out, rx, RE, host_inactive,
                   fifos, flags, clock>>

Isr == Enter \/ Again \/ Receive \/ ReceiveFull \/ Send \/ SendEnd
-----------------------------------------------------------------------------
(* The clock and the host.                                                 *)

\* altera_avalon_jtag_uart_timeout
CheckHost ==
    /\ ac' = FALSE
    /\ host_inactive' = IF ac THEN 0
                        ELSE IF host_inactive < MaxInactive THEN host_inactive + 1
                        ELSE host_inactive

\* A timer interrupt.
Tick ==
    /\ Interruptible
    /\ Clock!alt_tick
    /\ IF Clock!Fires THEN CheckHost ELSE UNCHANGED <<ac, host_inactive>>
    /\ UNCHANGED <<wvars, ivars, ien, fifos, pause_irq>>

\* The terminal on the host asks the device for characters.
HostPoll ==
    /\ ac' = TRUE
    /\ pause_irq' = (pause_irq \/ rfifo > 0)
    /\ IF wfifo = <<>> THEN UNCHANGED <<wfifo, delivered>>
       ELSE wfifo' = Tail(wfifo) /\ delivered' = Head(wfifo)
    /\ UNCHANGED <<wvars, ivars, ien, host_inactive, rfifo, clock>>

HostType ==
    /\ rfifo < Depth /\ rfifo' = rfifo + 1
    /\ ac' = TRUE
    /\ UNCHANGED <<wvars, ivars, ien, host_inactive, wfifo, delivered, pause_irq, clock>>

Next == Writer \/ Isr \/ Tick \/ HostPoll \/ HostType \/ \E c \in Lengths : Call(c)
Spec == Init /\ [][Next]_vars

\* The processor runs and its timer ticks; the host may stay away.
FairSpec == Spec /\ WF_vars(Writer) /\ WF_vars(Isr) /\ WF_vars(Tick)
-----------------------------------------------------------------------------
(* Properties.                                                             *)

\* What write() has accepted reaches the host in order and exactly once,
\* although write() and the interrupt routine share the ring without a lock
\* (altera_avalon_jtag_uart_write.c:90-139, altera_avalon_jtag_uart_init.c:164-181).
Device == INSTANCE Pipe WITH Capacity <- BUF_LEN - 1 + Depth
ImplementsPipe == Device!Spec

\* Characters in the ring never wait for an interrupt that is turned off,
\* wherever the interrupt routine comes between the steps of write(): it turns
\* the interrupt off for a ring that write() may be filling
\* (altera_avalon_jtag_uart_write.c:121-139, altera_avalon_jtag_uart_init.c:182-191).
PendingIsArmed ==
    tx_in /= tx_out /\ ipc = "off" => WE \/ wpc \in {"look", "copy", "publish", "kick"}

\* The interrupt routine returns, whatever the host types and although nobody
\* empties the receive ring (altera_avalon_jtag_uart_init.c:112-194).
IsrReturns == ipc /= "off" ~> ipc = "off"

\* write() returns although the host may be away for ever, while characters
\* are in the ring (altera_avalon_jtag_uart_write.c:99-193).
WriteReturns == wpc /= "idle" ~> wpc = "idle"

\* The alarm that watches the host comes every second (alt_tick.c:86-147).
AlarmOnTime == Clock!AlarmOnTime
=============================================================================
