---------------------------- MODULE UsbTransfer ----------------------------
(***************************************************************************)
(* How a keyboard report reaches the game: kbdPoll calls XferInTransfer,   *)
(* which has XferDispatchPkt launch IN transactions until one succeeds,    *)
(* with bounded retries, and keeps the data toggle of the endpoint between *)
(* transfers.  The chip runs a transaction on its own and raises HXFRDNIRQ;*)
(* the device sends each report until it has seen an ACK and flips its     *)
(* toggle with each.  A boot report fits in one packet.                    *)
(* Reports are numbered; packets, answers and ACKs may get lost, and the   *)
(* five seconds of a dispatch may run out while a transaction is under way.*)
(***************************************************************************)
EXTENDS Naturals

CONSTANTS
    USB_NAK_LIMIT, USB_RETRY_LIMIT,
    MaxReports,         \* bound: reports the device has to send
    MaxErrors,          \* bound: lost packets and ACKs
    MaxLate             \* bound: dispatches that run out of time

ASSUME LimitAssumption == /\ USB_NAK_LIMIT \in 1..255
                          /\ USB_RETRY_LIMIT \in 1..127
                          /\ MaxReports \in Nat
                          /\ MaxErrors \in Nat
                          /\ MaxLate \in Nat

VARIABLES
    \* the program
    pc,
    nak_count, retry_count,
    rcode,              \* result of the last dispatch
    rcvToggle,          \* saved toggle of the endpoint
    \* the chip
    busy,               \* a transaction is under way
    HXFRDN, RCVDAV,     \* pending interrupts
    HRSL,               \* result of the last transaction
    toggle,             \* the toggle the chip expects
    fifo,               \* the report in the receive buffer
    \* the device
    posted,             \* reports it has had to send
    next, devtog,       \* the report it sends next, and its toggle
    \* bounds
    errors, lates,
    \* history
    launches,           \* transactions launched by this dispatch
    got,                \* the last report the game received
    exact               \* each was the one after the report before

prog   == <<pc, nak_count, retry_count, rcode, rcvToggle>>
chip   == <<busy, HXFRDN, RCVDAV, HRSL, toggle, fifo>>
dev    == <<posted, next, devtog>>
bounds == <<errors, lates>>
hist   == <<launches, got, exact>>
vars   == <<prog, chip, dev, bounds, hist>>

Results == {"SUCCESS", "NAK", "TOGERR", "TIMEOUT", "CRCERR"}

TypeOK ==
    /\ pc \in {"poll", "launch", "wait", "result", "check", "read", "save"}
    /\ nak_count \in 0..USB_NAK_LIMIT
    /\ retry_count \in 0..USB_RETRY_LIMIT
    /\ rcode \in Results \cup {"0xff", "0xf0"}
    /\ rcvToggle \in {0, 1}
    /\ busy \in BOOLEAN /\ HXFRDN \in BOOLEAN /\ RCVDAV \in BOOLEAN
    /\ HRSL \in Results
    /\ toggle \in {0, 1}
    /\ fifo \in 0..MaxReports
    /\ posted \in 0..MaxReports
    /\ next \in 1..MaxReports + 1
    /\ devtog \in {0, 1}
    /\ errors \in 0..MaxErrors /\ lates \in 0..MaxLate
    /\ launches \in 0..USB_NAK_LIMIT + USB_RETRY_LIMIT
    /\ got \in 0..MaxReports
    /\ exact \in BOOLEAN

\* A device just configured: HID_init and SET_CONFIGURATION reset the toggles.
Init ==
    /\ pc = "poll"
    /\ nak_count = 0 /\ retry_count = 0
    /\ rcode = "SUCCESS"
    /\ rcvToggle = 0
    /\ busy = FALSE /\ HXFRDN = FALSE /\ RCVDAV = FALSE
    /\ HRSL = "SUCCESS"
    /\ toggle = 0
    /\ fifo = 0
    /\ posted = 0 /\ next = 1 /\ devtog = 0
    /\ errors = 0 /\ lates = 0
    /\ launches = 0 /\ got = 0 /\ exact = TRUE
-----------------------------------------------------------------------------
(* The program.                                                            *)

\* kbdPoll and the head of XferInTransfer and XferDispatchPkt.
Poll ==
    /\ pc = "poll"
    /\ toggle' = rcvToggle
    /\ nak_count' = 0 /\ retry_count' = 0
    /\ launches' = 0
    /\ pc' = "launch"
    /\ UNCHANGED <<rcode, rcvToggle, busy, HXFRDN, RCVDAV, HRSL, fifo, dev,
                   bounds, got, exact>>

Launch ==
    /\ pc = "launch"
    /\ busy' = TRUE
    /\ launches' = launches + 1
    /\ pc' = "wait"
    /\ UNCHANGED <<nak_count, retry_count, rcode, rcvToggle, HXFRDN, RCVDAV,
                   HRSL, toggle, fifo, dev, bounds, got, exact>>

\* The transaction, or one before it, is over.
Done ==
    /\ pc = "wait"
    /\ HXFRDN
    /\ HXFRDN' = FALSE
    /\ pc' = "result"
    /\ UNCHANGED <<nak_count, retry_count, rcode, rcvToggle, busy, RCVDAV, HRSL,
                   toggle, fifo, dev, bounds, hist>>

\* The time is up, whatever the chip is doing: the dispatch returns 0xff.
TimeIsUp ==
    /\ pc = "wait"
    /\ lates < MaxLate
    /\ lates' = lates + 1
    /\ rcode' = "0xff"
    /\ pc' = "poll"
    /\ UNCHANGED <<nak_count, retry_count, rcvToggle, chip, dev, errors, hist>>

\* MUTANT: NAKs are not counted.
Result_NoNakCount ==
    /\ pc = "result"
    /\ rcode' = HRSL
    /\ retry_count' = retry_count + (IF HRSL = "TIMEOUT" THEN 1 ELSE 0)
    /\ pc' = CASE HRSL = "SUCCESS" -> "check"
               [] HRSL = "NAK" -> "launch"
               [] HRSL = "TIMEOUT" /\ retry_count' /= USB_RETRY_LIMIT -> "launch"
               [] OTHER -> "poll"
    /\ UNCHANGED <<nak_count, rcvToggle, chip, dev, bounds, hist>>

\* MUTANT: the limit of the retries is tested before the increment.
Result_OneMore ==
    /\ pc = "result"
    /\ rcode' = HRSL
    /\ nak_count' = nak_count + (IF HRSL = "NAK" THEN 1 ELSE 0)
    /\ retry_count' = retry_count + (IF HRSL = "TIMEOUT" THEN 1 ELSE 0)
    /\ pc' = CASE HRSL = "SUCCESS" -> "check"
               [] HRSL = "NAK" /\ nak_count' /= USB_NAK_LIMIT -> "launch"
               [] HRSL = "TIMEOUT" /\ retry_count /= USB_RETRY_LIMIT -> "launch"
               [] OTHER -> "poll"
    /\ UNCHANGED <<rcvToggle, chip, dev, bounds, hist>>

\* A NAK and a silent device are tried again, up to a limit of each; any
\* other result but success is returned.
Result ==
    /\ pc = "result"
    /\ rcode' = HRSL
    /\ nak_count' = nak_count + (IF HRSL = "NAK" THEN 1 ELSE 0)
    /\ retry_count' = retry_count + (IF HRSL = "TIMEOUT" THEN 1 ELSE 0)
    /\ pc' = CASE HRSL = "SUCCESS" -> "check"
               [] HRSL = "NAK" /\ nak_count' /= USB_NAK_LIMIT -> "launch"
               [] HRSL = "TIMEOUT" /\ retry_count' /= USB_RETRY_LIMIT -> "launch"
               [] OTHER -> "poll"
    /\ UNCHANGED <<rcvToggle, chip, dev, bounds, hist>>

\* RCVDAVIRQ must be pending.
Check ==
    /\ pc = "check"
    /\ IF RCVDAV
       THEN pc' = "read" /\ UNCHANGED rcode
       ELSE pc' = "poll" /\ rcode' = "0xf0"
    /\ UNCHANGED <<nak_count, retry_count, rcvToggle, chip, dev, bounds, hist>>

\* The report is copied and the buffer freed.
Read ==
    /\ pc = "read"
    /\ got' = fifo
    /\ exact' = (exact /\ fifo = got + 1)
    /\ RCVDAV' = FALSE
    /\ pc' = "save"
    /\ UNCHANGED <<nak_count, retry_count, rcode, rcvToggle, busy, HXFRDN, HRSL,
                   toggle, fifo, dev, bounds, launches>>

\* MUTANT: the toggle is not saved.
Save_Forgets ==
    /\ pc = "save"
    /\ pc' = "poll"
    /\ UNCHANGED <<nak_count, retry_count, rcode, rcvToggle, chip, dev, bounds,
                   hist>>

\* The transfer is complete; the chip's toggle is kept for the next one.
Save ==
    /\ pc = "save"
    /\ rcvToggle' = toggle
    /\ pc' = "poll"
    /\ UNCHANGED <<nak_count, retry_count, rcode, chip, dev, bounds, hist>>

Program == Poll \/ Launch \/ Done \/ TimeIsUp \/ Result \/ Check \/ Read \/ Save
-----------------------------------------------------------------------------
(* The chip and the device.                                                *)

Finish(result) ==
    /\ busy
    /\ busy' = FALSE
    /\ HXFRDN' = TRUE
    /\ HRSL' = result
    /\ UNCHANGED <<prog, posted, lates, hist>>

\* The device has a new report.
Post ==
    /\ posted < MaxReports
    /\ posted' = posted + 1
    /\ UNCHANGED <<prog, chip, next, devtog, bounds, hist>>

Nak ==
    /\ next > posted
    /\ Finish("NAK")
    /\ UNCHANGED <<RCVDAV, toggle, fifo, next, devtog, errors>>

\* Either the ACK gets through, or the device will send the report again.
Acknowledge ==
    \/ next' = next + 1 /\ devtog' = 1 - devtog /\ UNCHANGED errors
    \/ errors < MaxErrors /\ errors' = errors + 1 /\ UNCHANGED <<next, devtog>>

\* The report arrives with the toggle expected and is kept ...
Receive ==
    /\ next <= posted
    /\ devtog = toggle
    /\ Finish("SUCCESS")
    /\ fifo' = next
    /\ RCVDAV' = TRUE
    /\ toggle' = 1 - toggle
    /\ Acknowledge

\* ... or with the other one and is dropped as a repetition.
Repeated ==
    /\ next <= posted
    /\ devtog /= toggle
    /\ Finish("TOGERR")
    /\ UNCHANGED <<fifo, RCVDAV, toggle>>
    /\ Acknowledge

\* The token or the answer is lost or damaged.
Garbled ==
    /\ errors < MaxErrors
    /\ errors' = errors + 1
    /\ \E r \in {"TIMEOUT", "CRCERR"} : Finish(r)
    /\ UNCHANGED <<fifo, RCVDAV, toggle, next, devtog>>

Transaction == Nak \/ Receive \/ Repeated \/ Garbled

Next == Program \/ Post \/ Transaction

Spec == Init /\ [][Next]_vars

\* The chip ends every transaction, the loop polls on.
FairSpec == Spec /\ WF_vars(Program) /\ WF_vars(Transaction)
-----------------------------------------------------------------------------
(* Properties.                                                             *)

\* Every report reaches the game exactly once and in order, although packets
\* are retried and ACKs get lost, as long as no dispatch has run out of time
\* under a running transaction (transfer.c:142-226).
ExactlyOnce == lates = 0 => exact

\* A dispatch launches at most so many transactions, whatever mixture of NAKs
\* and timeouts it meets (transfer.c:165-182).
BoundedDispatch == launches < USB_NAK_LIMIT + USB_RETRY_LIMIT

\* Every report is delivered in the end, unless a dispatch runs out of time:
\* after the last error the toggles find together again by themselves
\* (transfer.c:198-223).
Delivered == \A r \in 1..MaxReports : (posted >= r) ~> (got >= r \/ lates > 0)
=============================================================================
