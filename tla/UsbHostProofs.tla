---------------------------- MODULE UsbHostProofs ----------------------------
(***************************************************************************)
(* Proof that the main loop polls the device it thinks it polls, for a     *)
(* device table of any size and a bus that changes at any moment.          *)
(***************************************************************************)
EXTENDS UsbHost, TLAPS

\* What a probe can leave behind: no state of a device being set up.
Probed == {INITIALIZE, WAIT_FOR_DEVICE, ILLEGAL, ATTACHED, WAIT_RESET_COMPLETE}

\* Slots are handed out in order and only USB_init takes them back, ...
InOrder == \A i \in Used : \A j \in Slots : j < i => j \in Used

\* ... so the last one in use belongs to the device enumerated last.
LastSlot ==
    /\ task = CONFIGURING => tmp_addr \in Slots /\ Used = 1..tmp_addr
    /\ task = RUNNING => /\ hid_addr \in Slots /\ Used = 1..hid_addr
                         /\ epinfo[hid_addr] = "hid_ep"

\* The main loop sees that a device has gone before another one is set up.
Watched ==
    /\ pc \in {"ack", "initack"} => task \in Probed
    /\ pc \in {"init", "initack"} => ~running
    /\ running /\ pc \in {"int", "probe"} => task = RUNNING
    /\ running /\ pc = "task" => task \notin {GET_DESCRIPTOR, ADDRESSING, CONFIGURING, ERROR}
    /\ running /\ pc = "main" => task /= ERROR
    /\ running /\ task = RUNNING => device = devclass[hid_addr]

IInv == TypeOK /\ InOrder /\ LastSlot /\ Watched
-----------------------------------------------------------------------------
(* The states are distinct numbers, and the rest of each action is what it *)
(* leaves alone.                                                           *)
USE DEF INITIALIZE, WAIT_FOR_DEVICE, ILLEGAL, ATTACHED, SETTLE, RESET_DEVICE,
    WAIT_RESET_COMPLETE, WAIT_SOF, GET_DESCRIPTOR, ADDRESSING, CONFIGURING, RUNNING, ERROR,
    TaskRest, NoTable, MainRest, program, mainvars, chip, world

\* The invariant holds at power-up.
LEMMA InitInv == Init => IInv
<1> SUFFICES ASSUME Init PROVE IInv
  OBVIOUS
<1>1. TypeOK
  <2>1. epinfo \in [Slots -> {"NULL", "dev0ep", "hid_ep"}] /\ devclass \in [Slots -> Classes]
    BY DEF Init, Classes
  <2>2. /\ HIRQ \in [condet : BOOLEAN, busevent : BOOLEAN]
        /\ condet \in BOOLEAN /\ busevent \in BOOLEAN /\ busrst \in BOOLEAN /\ due \in BOOLEAN
        /\ running \in BOOLEAN
    BY DEF Init
  <2>3. changes \in 0..MaxChanges
    BY HostAssumption DEF Init
  <2> QED
    BY <2>1, <2>2, <2>3 DEF Init, TypeOK, Classes
<1>2. InOrder
  BY DEF Init, InOrder, Used
<1> QED
  BY <1>1, <1>2 DEF Init, IInv, LastSlot, Watched

\* GetDriverandReport finds the device that was enumerated last.
LEMMA ReportsLast ==
    ASSUME IInv, Report
    PROVE  device' = devclass[hid_addr] /\ hid_addr \in Slots
<1>1. hid_addr \in Slots /\ Used = 1..hid_addr /\ hid_addr \in Nat \ {0}
  BY HostAssumption DEF IInv, LastSlot, Report, Slots
<1>2. hid_addr \in Used /\ \A j \in Used : j <= hid_addr
  BY <1>1
<1>3. \A i \in Used : (\A j \in Used : j <= i) => i = hid_addr
  BY <1>1
<1>4. (CHOOSE i \in Used : \A j \in Used : j <= i) = hid_addr
  BY <1>2, <1>3
<1> QED
  BY <1>1, <1>2, <1>4 DEF Report

\* A driver that takes a device keeps its slot.
LEMMA SlotStays ==
    ASSUME IInv, Recognised
    PROVE  Used' = Used
<1>1. tmp_addr \in Slots /\ tmp_addr \in Used
  BY HostAssumption DEF IInv, LastSlot, Recognised, InTask, Slots
<1>2. \A i \in Slots : epinfo'[i] /= "NULL" <=> epinfo[i] /= "NULL"
  BY <1>1 DEF Recognised, IInv, TypeOK, Used
<1> QED
  BY <1>2 DEF Used

\* Types.
LEMMA TypeInv == IInv /\ [Next]_vars => TypeOK'
<1> SUFFICES ASSUME IInv, [Next]_vars PROVE TypeOK'
  OBVIOUS
<1> USE DEF IInv, TypeOK, Classes, Probed, Watched, LastSlot
<1>1. CASE MAX3421E_Task
  BY <1>1 DEF MAX3421E_Task
<1>2. CASE MaxIntProbe
  BY <1>2 DEF MaxIntProbe, Probe, MAX_busprobe, Detached
<1>3. CASE MaxIntAck
  <2>1. task \in Probed
    BY <1>3 DEF MaxIntAck
  <2>2. task' = (task + 1) % 256 \/ task' = task
    BY <1>3 DEF MaxIntAck
  <2>3. task' \in {1, 2, 3, 4, 5, 16, 17, 19, 20}
    BY <2>1, <2>2
  <2>4. condet' \in BOOLEAN /\ busevent' \in BOOLEAN
    BY <1>3 DEF MaxIntAck
  <2> QED
    BY <1>3, <2>3, <2>4 DEF MaxIntAck
<1>4. CASE MAX3421E_init
  <2>1. task' \in Probed \cup {task}
    BY <1>4 DEF MAX3421E_init, Probe, MAX_busprobe, Detached
  <2>2. condet' \in BOOLEAN /\ busevent' \in BOOLEAN /\ busrst' \in BOOLEAN
    BY <1>4 DEF MAX3421E_init
  <2> QED
    BY <1>4, <2>1, <2>2 DEF MAX3421E_init
<1>5. CASE InitAck
  <2>1. epinfo' \in [Slots -> {"NULL", "dev0ep", "hid_ep"}] /\ devclass' \in [Slots -> Classes]
    BY <1>5 DEF InitAck, USB_init
  <2>2. condet' \in BOOLEAN
    BY <1>5 DEF InitAck
  <2> QED
    BY <1>5, <2>1, <2>2 DEF InitAck
<1>6. CASE Initialize
  BY <1>6 DEF Initialize, USB_init, InTask
<1>7. CASE Idle
  BY <1>7 DEF Idle
<1>8. CASE Attached
  <2>1. due' \in BOOLEAN
    BY <1>8 DEF Attached
  <2> QED
    BY <1>8, <2>1 DEF Attached, InTask
<1>9. CASE Settle
  BY <1>9 DEF Settle, InTask
<1>10. CASE ResetDevice
  <2>1. busevent' \in BOOLEAN /\ busrst' \in BOOLEAN
    BY <1>10 DEF ResetDevice
  <2> QED
    BY <1>10, <2>1 DEF ResetDevice, InTask
<1>11. CASE WaitResetComplete
  BY <1>11 DEF WaitResetComplete, InTask
<1>12. CASE WaitSof
  BY <1>12 DEF WaitSof, InTask
<1>13. CASE GetDescriptor
  BY <1>13 DEF GetDescriptor, InTask
<1>14. CASE Addressing
  BY <1>14 DEF Addressing, InTask
<1>15. CASE Recognised
  BY <1>15 DEF Recognised, InTask
<1>16. CASE Unrecognised
  BY <1>16 DEF Unrecognised, InTask
<1>17. CASE Report
  <2>1. device' = devclass[hid_addr] /\ hid_addr \in Slots
    BY <1>17, ReportsLast
  <2>2. running' \in BOOLEAN
    BY <1>17 DEF Report
  <2> QED
    BY <1>17, <2>1, <2>2 DEF Report
<1>18. CASE PollOrError
  BY <1>18 DEF PollOrError
<1>19. CASE NotRunning
  <2>1. running' \in BOOLEAN
    BY <1>19 DEF NotRunning
  <2>2. pc' \in {"init", "int"}
    BY <1>19 DEF NotRunning
  <2> QED
    BY <1>19, <2>1, <2>2 DEF NotRunning
<1>20. CASE BusChange
  <2>1. changes' \in 0..MaxChanges /\ condet' \in BOOLEAN
    BY <1>20, HostAssumption DEF BusChange
  <2>2. bus' \in {"J", "SE0", "SE1"} /\ plugged' \in Classes
    BY <1>20 DEF BusChange
  <2> QED
    BY <1>20, <2>1, <2>2 DEF BusChange
<1>21. CASE BusResetDone
  <2>1. condet' \in BOOLEAN /\ busevent' \in BOOLEAN /\ busrst' \in BOOLEAN
    BY <1>21 DEF BusResetDone
  <2> QED
    BY <1>21, <2>1 DEF BusResetDone
<1>22. CASE DelayOver
  BY <1>22 DEF DelayOver
<1>23. CASE UNCHANGED vars
  BY <1>23 DEF vars
<1> QED
  BY <1>1, <1>2, <1>3, <1>4, <1>5, <1>6, <1>7, <1>8, <1>9, <1>10, <1>11, <1>12,
     <1>13, <1>14, <1>15, <1>16, <1>17, <1>18, <1>19, <1>20, <1>21, <1>22, <1>23
     DEF Next, Program, USB_Task, MainLoop

\* A slot is taken only when all before it are.
LEMMA InOrderInv == IInv /\ [Next]_vars => InOrder'
<1> SUFFICES ASSUME IInv, [Next]_vars PROVE InOrder'
  OBVIOUS
<1> USE DEF IInv, TypeOK, InOrder, Used
<1>1. CASE MAX3421E_Task
  BY <1>1 DEF MAX3421E_Task
<1>2. CASE MaxIntProbe
  BY <1>2 DEF MaxIntProbe, Probe, MAX_busprobe, Detached
<1>3. CASE MaxIntAck
  BY <1>3 DEF MaxIntAck
<1>4. CASE MAX3421E_init
  BY <1>4 DEF MAX3421E_init, Probe, MAX_busprobe, Detached
<1>5. CASE InitAck
  BY <1>5 DEF InitAck, USB_init
<1>6. CASE Initialize
  BY <1>6 DEF Initialize, USB_init, InTask
<1>7. CASE Idle
  BY <1>7 DEF Idle
<1>8. CASE Attached
  BY <1>8 DEF Attached, InTask
<1>9. CASE Settle
  BY <1>9 DEF Settle, InTask
<1>10. CASE ResetDevice
  BY <1>10 DEF ResetDevice, InTask
<1>11. CASE WaitResetComplete
  BY <1>11 DEF WaitResetComplete, InTask
<1>12. CASE WaitSof
  BY <1>12 DEF WaitSof, InTask
<1>13. CASE GetDescriptor
  BY <1>13 DEF GetDescriptor, InTask
<1>14. CASE Addressing
  BY <1>14 DEF Addressing, InTask
<1>15. CASE Recognised
  <2>1. Used' = Used
    BY <1>15, SlotStays
  <2> QED
    BY <1>15, <2>1 DEF Recognised
<1>16. CASE Unrecognised
  BY <1>16 DEF Unrecognised, InTask
<1>17. CASE Report
  BY <1>17 DEF Report
<1>18. CASE PollOrError
  BY <1>18 DEF PollOrError
<1>19. CASE NotRunning
  BY <1>19 DEF NotRunning
<1>20. CASE BusChange
  BY <1>20 DEF BusChange
<1>21. CASE BusResetDone
  BY <1>21 DEF BusResetDone
<1>22. CASE DelayOver
  BY <1>22 DEF DelayOver
<1>23. CASE UNCHANGED vars
  BY <1>23 DEF vars
<1> QED
  BY <1>1, <1>2, <1>3, <1>4, <1>5, <1>6, <1>7, <1>8, <1>9, <1>10, <1>11, <1>12,
     <1>13, <1>14, <1>15, <1>16, <1>17, <1>18, <1>19, <1>20, <1>21, <1>22, <1>23
     DEF Next, Program, USB_Task, MainLoop

\* A slot is last until the next device is set up.
LEMMA LastSlotInv == IInv /\ [Next]_vars => LastSlot'
<1> SUFFICES ASSUME IInv, [Next]_vars PROVE LastSlot'
  OBVIOUS
<1> USE DEF IInv, TypeOK, LastSlot, Watched, Probed, Used
<1>1. CASE MAX3421E_Task
  BY <1>1 DEF MAX3421E_Task
<1>2. CASE MaxIntProbe
  BY <1>2 DEF MaxIntProbe, Probe, MAX_busprobe, Detached
<1>3. CASE MaxIntAck
  BY <1>3 DEF MaxIntAck
<1>4. CASE MAX3421E_init
  BY <1>4 DEF MAX3421E_init, Probe, MAX_busprobe, Detached
<1>5. CASE InitAck
  BY <1>5 DEF InitAck, USB_init
<1>6. CASE Initialize
  BY <1>6 DEF Initialize, USB_init, InTask
<1>7. CASE Idle
  BY <1>7 DEF Idle
<1>8. CASE Attached
  BY <1>8 DEF Attached, InTask
<1>9. CASE Settle
  BY <1>9 DEF Settle, InTask
<1>10. CASE ResetDevice
  BY <1>10 DEF ResetDevice, InTask
<1>11. CASE WaitResetComplete
  BY <1>11 DEF WaitResetComplete, InTask
<1>12. CASE WaitSof
  BY <1>12 DEF WaitSof, InTask
<1>13. CASE GetDescriptor
  BY <1>13 DEF GetDescriptor, InTask
<1>14. CASE Addressing
  <2>1. CASE task' = ERROR
    BY <2>1
  <2>2. CASE task' /= ERROR
    <3>1. PICK i \in Slots \ Used :
              /\ \A j \in Slots : j < i => j \in Used
              /\ epinfo' = [epinfo EXCEPT ![i] = "dev0ep"]
              /\ task' = CONFIGURING /\ tmp_addr' = i
      BY <1>14, <2>2 DEF Addressing
    <3>2. \A j \in Slots : j \in Used' <=> j \in Used \/ j = i
      BY <3>1
    <3>3. \A j \in Used : j \in Slots /\ ~(i < j)
      BY <3>1 DEF InOrder
    <3>4. Used' = 1..i
      BY <3>1, <3>2, <3>3, HostAssumption DEF Slots
    <3> HIDE DEF Used
    <3> QED
      BY <3>1, <3>4
  <2> QED
    BY <2>1, <2>2
<1>15. CASE Recognised
  <2>1. Used' = Used
    BY <1>15, SlotStays
  <2>2. tmp_addr \in Slots /\ Used = 1..tmp_addr
    BY <1>15 DEF Recognised, InTask
  <2>3. hid_addr' = tmp_addr /\ epinfo'[tmp_addr] = "hid_ep" /\ task' \in {RUNNING, ERROR}
    BY <1>15, <2>2 DEF Recognised
  <2> HIDE DEF Used
  <2> QED
    BY <1>15, <2>1, <2>2, <2>3
<1>16. CASE Unrecognised
  BY <1>16 DEF Unrecognised, InTask
<1>17. CASE Report
  BY <1>17 DEF Report
<1>18. CASE PollOrError
  BY <1>18 DEF PollOrError
<1>19. CASE NotRunning
  BY <1>19 DEF NotRunning
<1>20. CASE BusChange
  BY <1>20 DEF BusChange
<1>21. CASE BusResetDone
  BY <1>21 DEF BusResetDone
<1>22. CASE DelayOver
  BY <1>22 DEF DelayOver
<1>23. CASE UNCHANGED vars
  BY <1>23 DEF vars
<1> QED
  BY <1>1, <1>2, <1>3, <1>4, <1>5, <1>6, <1>7, <1>8, <1>9, <1>10, <1>11, <1>12,
     <1>13, <1>14, <1>15, <1>16, <1>17, <1>18, <1>19, <1>20, <1>21, <1>22, <1>23
     DEF Next, Program, USB_Task, MainLoop

\* The main loop comes round between two devices.
LEMMA WatchedInv == IInv /\ [Next]_vars => Watched'
<1> SUFFICES ASSUME IInv, [Next]_vars PROVE Watched'
  OBVIOUS
<1> USE DEF IInv, TypeOK, Watched, Probed, LastSlot
<1>1. CASE MAX3421E_Task
  BY <1>1 DEF MAX3421E_Task
<1>2. CASE MaxIntProbe
  BY <1>2 DEF MaxIntProbe, Probe, MAX_busprobe, Detached
<1>3. CASE MaxIntAck
  BY <1>3 DEF MaxIntAck
<1>4. CASE MAX3421E_init
  BY <1>4 DEF MAX3421E_init, Probe, MAX_busprobe, Detached
<1>5. CASE InitAck
  BY <1>5 DEF InitAck, USB_init
<1>6. CASE Initialize
  BY <1>6 DEF Initialize, USB_init, InTask
<1>7. CASE Idle
  BY <1>7 DEF Idle
<1>8. CASE Attached
  BY <1>8 DEF Attached, InTask
<1>9. CASE Settle
  BY <1>9 DEF Settle, InTask
<1>10. CASE ResetDevice
  BY <1>10 DEF ResetDevice, InTask
<1>11. CASE WaitResetComplete
  BY <1>11 DEF WaitResetComplete, InTask
<1>12. CASE WaitSof
  BY <1>12 DEF WaitSof, InTask
<1>13. CASE GetDescriptor
  BY <1>13 DEF GetDescriptor, InTask
<1>14. CASE Addressing
  BY <1>14 DEF Addressing, InTask
<1>15. CASE Recognised
  BY <1>15 DEF Recognised, InTask
<1>16. CASE Unrecognised
  BY <1>16 DEF Unrecognised, InTask
<1>17. CASE Report
  <2>1. device' = devclass[hid_addr]
    BY <1>17, ReportsLast
  <2> QED
    BY <1>17, <2>1 DEF Report
<1>18. CASE PollOrError
  BY <1>18 DEF PollOrError
<1>19. CASE NotRunning
  BY <1>19 DEF NotRunning
<1>20. CASE BusChange
  BY <1>20 DEF BusChange
<1>21. CASE BusResetDone
  BY <1>21 DEF BusResetDone
<1>22. CASE DelayOver
  BY <1>22 DEF DelayOver
<1>23. CASE UNCHANGED vars
  BY <1>23 DEF vars
<1> QED
  BY <1>1, <1>2, <1>3, <1>4, <1>5, <1>6, <1>7, <1>8, <1>9, <1>10, <1>11, <1>12,
     <1>13, <1>14, <1>15, <1>16, <1>17, <1>18, <1>19, <1>20, <1>21, <1>22, <1>23
     DEF Next, Program, USB_Task, MainLoop

\* The inductive invariant holds in every behaviour.
THEOREM InvariantHolds == Spec => []IInv
<1>1. IInv /\ [Next]_vars => IInv'
  BY TypeInv, InOrderInv, LastSlotInv, WatchedInv DEF IInv
<1> QED
  BY <1>1, InitInv, PTL DEF Spec

\* Every variable has its type; in particular usb_task_state takes no value but
\* these, although the handler adds 1 to it.
THEOREM TypeCorrect == Spec => []TypeOK
<1>1. IInv => TypeOK
  BY DEF IInv
<1> QED
  BY <1>1, InvariantHolds, PTL

\* The main loop polls the device it thinks it polls (main.c:234-241,
\* HID.c:216-223).
THEOREM PollsCorrect == Spec => []PollsTheDevice
<1>1. IInv => PollsTheDevice
  BY DEF IInv, LastSlot, Watched, PollsTheDevice, Polling
<1> QED
  BY <1>1, InvariantHolds, PTL
=============================================================================
