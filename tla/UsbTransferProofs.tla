------------------------- MODULE UsbTransferProofs -------------------------
(***************************************************************************)
(* Proofs that the reports of a keyboard reach the game exactly once, for  *)
(* any limits of the retries and any number of reports, errors and late    *)
(* dispatches, and that a dispatch is bounded.                             *)
(***************************************************************************)
EXTENDS UsbTransfer, TLAPS

\* While a dispatch runs, neither limit has been reached, and each transaction
\* but the one under way is counted as a NAK or a timeout.
Counted ==
    /\ BoundedDispatch
    /\ pc \in {"launch", "wait", "result"} =>
        /\ nak_count < USB_NAK_LIMIT /\ retry_count < USB_RETRY_LIMIT
        /\ launches = nak_count + retry_count + (IF pc = "launch" THEN 0 ELSE 1)

\* A result and a report in the buffer belong to the transaction of this
\* dispatch: the chip runs while the program waits, and at no other time.
Fresh ==
    lates = 0 =>
        /\ pc = "wait" => (busy <=> ~HXFRDN)
        /\ pc /= "wait" => ~busy /\ ~HXFRDN
        /\ RCVDAV <=> \/ pc = "wait" /\ HXFRDN /\ HRSL = "SUCCESS"
                      \/ pc = "result" /\ HRSL = "SUCCESS"
                      \/ pc \in {"check", "read"}

\* The last report to arrive, read or not.
Arrived == IF RCVDAV THEN got + 1 ELSE got

\* The saved toggle is one behind the chip's from the arrival of a report to
\* the end of the transfer.  The device is one report ahead if its toggle is
\* the chip's, and about to repeat the last one if not.
InStep ==
    lates = 0 =>
        /\ toggle = IF RCVDAV \/ pc = "save" THEN 1 - rcvToggle ELSE rcvToggle
        /\ RCVDAV => fifo = got + 1
        /\ next = IF toggle = devtog THEN Arrived + 1 ELSE Arrived
        /\ exact

IInv == TypeOK /\ Counted /\ Fresh /\ InStep

\* The invariant holds when a device has been configured.
LEMMA InitInv == Init => IInv
<1> SUFFICES ASSUME Init PROVE IInv
  OBVIOUS
<1> USE LimitAssumption DEF Init
<1>1. TypeOK
  <2>1. /\ nak_count \in 0..USB_NAK_LIMIT /\ retry_count \in 0..USB_RETRY_LIMIT
        /\ launches \in 0..USB_NAK_LIMIT + USB_RETRY_LIMIT
    OBVIOUS
  <2>2. /\ fifo \in 0..MaxReports /\ posted \in 0..MaxReports /\ got \in 0..MaxReports
        /\ next \in 1..MaxReports + 1 /\ errors \in 0..MaxErrors /\ lates \in 0..MaxLate
    OBVIOUS
  <2>3. /\ busy \in BOOLEAN /\ HXFRDN \in BOOLEAN /\ RCVDAV \in BOOLEAN
        /\ exact \in BOOLEAN
    OBVIOUS
  <2>4. /\ rcode \in Results /\ HRSL \in Results
        /\ pc = "poll" /\ rcvToggle = 0 /\ toggle = 0 /\ devtog = 0
    BY DEF Results
  <2> HIDE LimitAssumption DEF Init
  <2> QED
    BY <2>1, <2>2, <2>3, <2>4 DEF TypeOK
<1>2. Counted
  BY DEF Counted, BoundedDispatch
<1>3. Fresh
  BY DEF Fresh
<1>4. InStep
  BY DEF InStep, Arrived
<1> QED
  BY <1>1, <1>2, <1>3, <1>4 DEF IInv

\* Types. The limits bound the counters only while a dispatch goes on.
LEMMA TypeInv == IInv /\ [Next]_vars => TypeOK'
<1> SUFFICES ASSUME IInv, [Next]_vars PROVE TypeOK'
  OBVIOUS
<1> USE LimitAssumption DEF IInv, TypeOK, Counted, BoundedDispatch, Results, vars,
   prog, chip, dev, bounds, hist
<1>1. CASE Poll
  BY <1>1 DEF Poll
<1>2. CASE Launch
  BY <1>2 DEF Launch
<1>3. CASE Done
  BY <1>3 DEF Done
<1>4. CASE TimeIsUp
  BY <1>4 DEF TimeIsUp
<1>5. CASE Result
  BY <1>5 DEF Result
<1>6. CASE Check
  BY <1>6 DEF Check
<1>7. CASE Read
  BY <1>7 DEF Read
<1>8. CASE Save
  BY <1>8 DEF Save
<1>9. CASE Post
  BY <1>9 DEF Post
<1>10. CASE Nak
  BY <1>10 DEF Nak, Finish
<1>11. CASE Receive
  <2>1. next' \in 1..MaxReports + 1 /\ devtog' \in {0, 1} /\ errors' \in 0..MaxErrors
    BY <1>11 DEF Receive, Acknowledge
  <2>2. fifo' \in 0..MaxReports /\ toggle' \in {0, 1}
    BY <1>11 DEF Receive
  <2>3. HRSL' \in Results /\ RCVDAV' \in BOOLEAN /\ HXFRDN' \in BOOLEAN /\ busy' \in BOOLEAN
    BY <1>11 DEF Receive, Finish
  <2> QED
    BY <1>11, <2>1, <2>2, <2>3 DEF Receive, Finish
<1>12. CASE Repeated
  <2>1. next' \in 1..MaxReports + 1 /\ devtog' \in {0, 1} /\ errors' \in 0..MaxErrors
    BY <1>12 DEF Repeated, Acknowledge
  <2>2. HRSL' \in Results /\ HXFRDN' \in BOOLEAN /\ busy' \in BOOLEAN
    BY <1>12 DEF Repeated, Finish
  <2> QED
    BY <1>12, <2>1, <2>2 DEF Repeated, Finish
<1>13. CASE Garbled
  <2>1. PICK r \in {"TIMEOUT", "CRCERR"} : Finish(r)
    BY <1>13 DEF Garbled
  <2>2. HRSL' \in Results /\ HXFRDN' \in BOOLEAN /\ busy' \in BOOLEAN
    BY <2>1 DEF Finish
  <2>3. errors' \in 0..MaxErrors
    BY <1>13 DEF Garbled
  <2> QED
    BY <1>13, <2>1, <2>2, <2>3 DEF Garbled, Finish
<1>14. CASE UNCHANGED vars
  BY <1>14
<1> QED
  BY <1>1, <1>2, <1>3, <1>4, <1>5, <1>6, <1>7, <1>8, <1>9, <1>10, <1>11, <1>12,
     <1>13, <1>14 DEF Next, Program, Transaction

\* Counting: a NAK or a timeout that reaches its limit ends the dispatch.
LEMMA CountedInv == IInv /\ [Next]_vars => Counted'
<1> SUFFICES ASSUME IInv, [Next]_vars PROVE Counted'
  OBVIOUS
<1> USE LimitAssumption DEF IInv, TypeOK, Counted, BoundedDispatch, vars, prog,
   chip, dev, bounds, hist
<1>1. CASE Poll
  BY <1>1 DEF Poll
<1>2. CASE Launch
  BY <1>2 DEF Launch
<1>3. CASE Done
  BY <1>3 DEF Done
<1>4. CASE TimeIsUp
  BY <1>4 DEF TimeIsUp
<1>5. CASE Result
  BY <1>5 DEF Result
<1>6. CASE Check
  BY <1>6 DEF Check
<1>7. CASE Read
  BY <1>7 DEF Read
<1>8. CASE Save
  BY <1>8 DEF Save
<1>9. CASE Post
  BY <1>9 DEF Post
<1>10. CASE Nak
  BY <1>10 DEF Nak, Finish
<1>11. CASE Receive
  BY <1>11 DEF Receive, Finish, Acknowledge
<1>12. CASE Repeated
  BY <1>12 DEF Repeated, Finish, Acknowledge
<1>13. CASE Garbled
  BY <1>13 DEF Garbled, Finish
<1>14. CASE UNCHANGED vars
  BY <1>14
<1> QED
  BY <1>1, <1>2, <1>3, <1>4, <1>5, <1>6, <1>7, <1>8, <1>9, <1>10, <1>11, <1>12,
     <1>13, <1>14 DEF Next, Program, Transaction

\* Only a dispatch that runs out of time leaves a transaction behind.
LEMMA FreshInv == IInv /\ [Next]_vars => Fresh'
<1> SUFFICES ASSUME IInv, [Next]_vars PROVE Fresh'
  OBVIOUS
<1> USE LimitAssumption DEF IInv, TypeOK, Fresh, vars, prog, chip, dev, bounds, hist
<1>1. CASE Poll
  BY <1>1 DEF Poll
<1>2. CASE Launch
  BY <1>2 DEF Launch
<1>3. CASE Done
  BY <1>3 DEF Done
<1>4. CASE TimeIsUp
  BY <1>4 DEF TimeIsUp
<1>5. CASE Result
  BY <1>5 DEF Result
<1>6. CASE Check
  BY <1>6 DEF Check
<1>7. CASE Read
  BY <1>7 DEF Read
<1>8. CASE Save
  BY <1>8 DEF Save
<1>9. CASE Post
  BY <1>9 DEF Post
<1>10. CASE Nak
  BY <1>10 DEF Nak, Finish
<1>11. CASE Receive
  BY <1>11 DEF Receive, Finish, Acknowledge
<1>12. CASE Repeated
  BY <1>12 DEF Repeated, Finish, Acknowledge
<1>13. CASE Garbled
  BY <1>13 DEF Garbled, Finish
<1>14. CASE UNCHANGED vars
  BY <1>14
<1> QED
  BY <1>1, <1>2, <1>3, <1>4, <1>5, <1>6, <1>7, <1>8, <1>9, <1>10, <1>11, <1>12,
     <1>13, <1>14 DEF Next, Program, Transaction

\* Toggles.
LEMMA InStepInv == IInv /\ [Next]_vars => InStep'
<1> SUFFICES ASSUME IInv, [Next]_vars PROVE InStep'
  OBVIOUS
<1> USE LimitAssumption DEF IInv, TypeOK, Fresh, InStep, Arrived, vars, prog, chip,
   dev, bounds, hist
<1>1. CASE Poll
  BY <1>1 DEF Poll
<1>2. CASE Launch
  BY <1>2 DEF Launch
<1>3. CASE Done
  BY <1>3 DEF Done
<1>4. CASE TimeIsUp
  BY <1>4 DEF TimeIsUp
<1>5. CASE Result
  BY <1>5 DEF Result
<1>6. CASE Check
  BY <1>6 DEF Check
<1>7. CASE Read
  BY <1>7 DEF Read
<1>8. CASE Save
  BY <1>8 DEF Save
<1>9. CASE Post
  BY <1>9 DEF Post
<1>10. CASE Nak
  BY <1>10 DEF Nak, Finish
<1>11. CASE Receive
  BY <1>11 DEF Receive, Finish, Acknowledge
<1>12. CASE Repeated
  BY <1>12 DEF Repeated, Finish, Acknowledge
<1>13. CASE Garbled
  BY <1>13 DEF Garbled, Finish
<1>14. CASE UNCHANGED vars
  BY <1>14
<1> QED
  BY <1>1, <1>2, <1>3, <1>4, <1>5, <1>6, <1>7, <1>8, <1>9, <1>10, <1>11, <1>12,
     <1>13, <1>14 DEF Next, Program, Transaction

\* The inductive invariant holds in every behaviour.
THEOREM InvariantHolds == Spec => []IInv
<1>1. IInv /\ [Next]_vars => IInv'
  BY TypeInv, CountedInv, FreshInv, InStepInv DEF IInv
<1> QED
  BY <1>1, InitInv, PTL DEF Spec

\* Every variable has its type: the counters of NAKs and retries never pass
\* their limits (transfer.c:165-182).
THEOREM TypeCorrect == Spec => []TypeOK
<1>1. IInv => TypeOK
  BY DEF IInv
<1> QED
  BY <1>1, InvariantHolds, PTL

\* Every report reaches the game exactly once and in order, unless a dispatch has
\* run out of time (transfer.c:142-226).
THEOREM OnceCorrect == Spec => []ExactlyOnce
<1>1. IInv => ExactlyOnce
  BY DEF IInv, InStep, ExactlyOnce
<1> QED
  BY <1>1, InvariantHolds, PTL

\* A dispatch launches a bounded number of transactions (transfer.c:165-182).
THEOREM BoundCorrect == Spec => []BoundedDispatch
<1>1. IInv => BoundedDispatch
  BY DEF IInv, Counted
<1> QED
  BY <1>1, InvariantHolds, PTL
=============================================================================
