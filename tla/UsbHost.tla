------------------------------ MODULE UsbHost ------------------------------
(***************************************************************************)
(* The USB host of the keyboard: the MAX3421E interrupt handler, USB_Task  *)
(* and the USB part of the main loop, which runs the three in turn, against*)
(* a bus on which a device may come and go at any moment.  The handler     *)
(* reads the interrupt register, probes the bus and acknowledges in three  *)
(* steps, with the bus moving in between.                                  *)
(* A transfer to the device either succeeds, which takes a device, or      *)
(* fails; how it does is in UsbTransfer.  J and K (full and low speed) are *)
(* handled alike, both are "J" here.                                       *)
(***************************************************************************)
EXTENDS Naturals

CONSTANTS
    USB_NUMDEVICES,     \* slots 1..USB_NUMDEVICES-1 can be assigned (8)
    MaxChanges          \* bound: how often the bus changes

ASSUME HostAssumption == /\ USB_NUMDEVICES \in Nat \ {0, 1}
                         /\ MaxChanges \in Nat

VARIABLES
    \* the program
    task,               \* usb_task_state, a BYTE
    epinfo, devclass,   \* devtable[i].epinfo and .devclass, i > 0
    tmp_addr,
    hid_addr,           \* hid_device.addr
    running,            \* runningdebugflag of main
    device,             \* device of main: the class it polls
    pc,                 \* what the main loop does next
    HIRQ,               \* the interrupts MaxIntHandler has read
    \* the chip and the bus
    condet, busevent,   \* pending CONDETIRQ and BUSEVENTIRQ
    busrst,             \* a bus reset is going on
    due,                \* the time in usb_delay has passed
    bus, plugged,       \* line state and class of the device on it
    changes

program == <<task, epinfo, devclass, tmp_addr, hid_addr>>
mainvars == <<running, device>>
chip  == <<condet, busevent, busrst>>
world == <<bus, plugged, changes>>
vars  == <<program, mainvars, pc, HIRQ, chip, due, world>>

\* The values of usb_task_state (USB.h).
INITIALIZE      == 1
WAIT_FOR_DEVICE == 3
ILLEGAL         == 4
ATTACHED        == 16
SETTLE          == 17
RESET_DEVICE    == 18
WAIT_RESET_COMPLETE == 19
WAIT_SOF        == 20
GET_DESCRIPTOR  == 21
ADDRESSING      == 32
CONFIGURING     == 48
RUNNING         == 64
ERROR           == 255
Detached(s) == s < 16

\* Classes of devices: keyboard, mouse, anything else.
HID_K == 1
HID_M == 2
Classes == {0, HID_K, HID_M}

Slots == 1..USB_NUMDEVICES - 1
Used == {i \in Slots : epinfo[i] /= "NULL"}

TypeOK ==
    \* 2 and 5 are no states of the program: they are what adding 1 makes of
    \* INITIALIZE and ILLEGAL.
    /\ task \in {1, 2, 3, 4, 5} \cup ATTACHED..GET_DESCRIPTOR
                \cup {ADDRESSING, CONFIGURING, RUNNING, ERROR}
    /\ epinfo \in [Slots -> {"NULL", "dev0ep", "hid_ep"}]
    /\ devclass \in [Slots -> Classes]
    /\ tmp_addr \in Slots \cup {0}
    /\ hid_addr \in Slots \cup {0}
    /\ running \in BOOLEAN
    /\ device \in Classes \cup {255}
    /\ pc \in {"int", "probe", "ack", "task", "main", "init", "initack"}
    /\ HIRQ \in [condet : BOOLEAN, busevent : BOOLEAN]
    /\ condet \in BOOLEAN /\ busevent \in BOOLEAN /\ busrst \in BOOLEAN
    /\ due \in BOOLEAN
    /\ bus \in {"J", "SE0", "SE1"}
    /\ plugged \in Classes
    /\ changes \in 0..MaxChanges

\* Power-up: main calls MAX3421E_init and USB_init, then enters its loop.
Init ==
    /\ task = INITIALIZE
    /\ epinfo = [i \in Slots |-> "NULL"]
    /\ devclass = [i \in Slots |-> 0]
    /\ tmp_addr = 0 /\ hid_addr = 0
    /\ running = FALSE /\ device = 0
    /\ pc = "init"
    /\ HIRQ = [condet |-> FALSE, busevent |-> FALSE]
    /\ condet = FALSE /\ busevent = FALSE /\ busrst = FALSE
    /\ due = TRUE
    /\ bus \in {"J", "SE0"} /\ plugged \in Classes
    /\ changes = 0

\* USB_init clears the device table.
USB_init ==
    /\ epinfo' = [i \in Slots |-> "NULL"]
    /\ devclass' = [i \in Slots |-> 0]
-----------------------------------------------------------------------------
(* The chip.                                                               *)

\* MUTANT: a connection noticed while a device runs is ignored.
MAX_busprobe_KeepsRunning(s) ==
    CASE bus = "J"   -> IF s \in {WAIT_RESET_COMPLETE, RUNNING} THEN s ELSE ATTACHED
      [] bus = "SE1" -> ILLEGAL
      [] bus = "SE0" -> IF Detached(s) THEN WAIT_FOR_DEVICE ELSE INITIALIZE

\* MUTANT: without the exception for the interrupt a bus reset causes.
MAX_busprobe_NoKludge(s) ==
    CASE bus = "J"   -> ATTACHED
      [] bus = "SE1" -> ILLEGAL
      [] bus = "SE0" -> IF Detached(s) THEN WAIT_FOR_DEVICE ELSE INITIALIZE

\* MUTANT: a disconnection is acted upon only when detached.
MAX_busprobe_KeepsState(s) ==
    CASE bus = "J"   -> IF s = WAIT_RESET_COMPLETE THEN s ELSE ATTACHED
      [] bus = "SE1" -> ILLEGAL
      [] bus = "SE0" -> IF Detached(s) THEN WAIT_FOR_DEVICE ELSE s

\* MAX_busprobe: what the lines make of usb_task_state s.
MAX_busprobe(s) ==
    CASE bus = "J"   -> IF s = WAIT_RESET_COMPLETE THEN s ELSE ATTACHED
      [] bus = "SE1" -> ILLEGAL
      [] bus = "SE0" -> IF Detached(s) THEN WAIT_FOR_DEVICE ELSE INITIALIZE

Probe == task' = MAX_busprobe(task)

\* MAX3421E_Task: only CONDETIRQ pulls the interrupt line.
MAX3421E_Task ==
    /\ pc = "int"
    /\ IF condet
       THEN pc' = "probe" /\ HIRQ' = [condet |-> condet, busevent |-> busevent]
       ELSE pc' = "task" /\ UNCHANGED HIRQ
    /\ UNCHANGED <<program, mainvars, chip, due, world>>

MaxIntProbe ==
    /\ pc = "probe"
    /\ Probe
    /\ pc' = "ack"
    /\ UNCHANGED <<epinfo, devclass, tmp_addr, hid_addr, mainvars, HIRQ, chip,
                   due, world>>

\* The rest of MaxIntHandler: a bus event advances the state, and the
\* interrupts that were read are acknowledged.
MaxIntAck ==
    /\ pc = "ack"
    /\ task' = IF HIRQ.busevent THEN (task + 1) % 256 ELSE task
    /\ condet' = FALSE
    /\ busevent' = (busevent /\ ~HIRQ.busevent)
    /\ pc' = "task"
    /\ UNCHANGED <<epinfo, devclass, tmp_addr, hid_addr, mainvars, HIRQ, busrst,
                   due, world>>

\* MAX3421E_init: chip reset and probe ...
MAX3421E_init ==
    /\ pc = "init"
    /\ Probe
    /\ condet' \in BOOLEAN
    /\ busevent' = FALSE /\ busrst' = FALSE
    /\ pc' = "initack"
    /\ UNCHANGED <<epinfo, devclass, tmp_addr, hid_addr, mainvars, HIRQ, due,
                   world>>

\* ... then the interrupt is cleared, and USB_init follows.
InitAck ==
    /\ pc = "initack"
    /\ condet' = FALSE
    /\ USB_init
    /\ pc' = "int"
    /\ UNCHANGED <<task, tmp_addr, hid_addr, mainvars, HIRQ, busevent, busrst,
                   due, world>>
-----------------------------------------------------------------------------
(* USB_Task: one action per case.                                          *)

InTask(s) == pc = "task" /\ task = s /\ pc' = "main"

TaskRest == UNCHANGED <<mainvars, HIRQ, world>>
NoTable  == UNCHANGED <<epinfo, devclass, tmp_addr, hid_addr>>

\* A transfer succeeds only with a device on the bus.
Answers == bus = "J"

Initialize ==
    /\ InTask(INITIALIZE)
    /\ USB_init
    /\ task' = WAIT_FOR_DEVICE
    /\ TaskRest /\ UNCHANGED <<tmp_addr, hid_addr, chip, due>>

\* WAIT_FOR_DEVICE, ILLEGAL, RUNNING, the default of the outer switch, where
\* ERROR ends up, and the values no case mentions.
Idle ==
    /\ pc = "task"
    /\ task \in {2, WAIT_FOR_DEVICE, ILLEGAL, 5, RUNNING, ERROR}
    /\ pc' = "main"
    /\ TaskRest /\ UNCHANGED <<program, chip, due>>

\* The settle time begins.
Attached ==
    /\ InTask(ATTACHED)
    /\ due' = FALSE
    /\ task' = SETTLE
    /\ TaskRest /\ NoTable /\ UNCHANGED <<chip>>

Settle ==
    /\ InTask(SETTLE)
    /\ task' = IF due THEN RESET_DEVICE ELSE SETTLE
    /\ TaskRest /\ NoTable /\ UNCHANGED <<chip, due>>

ResetDevice ==
    /\ InTask(RESET_DEVICE)
    /\ busevent' = FALSE
    /\ busrst' = TRUE
    /\ task' = WAIT_RESET_COMPLETE
    /\ TaskRest /\ NoTable /\ UNCHANGED <<condet, due>>

WaitResetComplete ==
    /\ InTask(WAIT_RESET_COMPLETE)
    /\ task' = IF busrst THEN task ELSE WAIT_SOF
    /\ TaskRest /\ NoTable /\ UNCHANGED <<chip, due>>

\* The condition HIRQ | bmFRAMEIRQ is always true.
WaitSof ==
    /\ InTask(WAIT_SOF)
    /\ task' = GET_DESCRIPTOR
    /\ TaskRest /\ NoTable /\ UNCHANGED <<chip, due>>

\* Only the first request of the descriptor decides.
GetDescriptor ==
    /\ InTask(GET_DESCRIPTOR)
    /\ task' \in {ERROR} \cup (IF Answers THEN {ADDRESSING} ELSE {})
    /\ TaskRest /\ NoTable /\ UNCHANGED <<chip, due>>

\* The first free slot is taken before the device has accepted the address.
Addressing ==
    /\ InTask(ADDRESSING)
    /\ IF Used = Slots
       THEN task' = ERROR /\ UNCHANGED <<epinfo, tmp_addr>>
       ELSE \E i \in Slots \ Used :
                /\ \A j \in Slots : j < i => j \in Used
                /\ epinfo' = [epinfo EXCEPT ![i] = "dev0ep"]
                /\ \/ task' = ERROR /\ UNCHANGED tmp_addr
                   \/ Answers /\ task' = CONFIGURING /\ tmp_addr' = i
    /\ TaskRest /\ UNCHANGED <<devclass, hid_addr, chip, due>>

\* HIDMProbe or HIDKProbe recognises the device, fills in its slot and then
\* configures the device, which may fail.
Recognised ==
    /\ InTask(CONFIGURING)
    /\ Answers /\ plugged \in {HID_K, HID_M}
    /\ epinfo' = [epinfo EXCEPT ![tmp_addr] = "hid_ep"]
    /\ devclass' = [devclass EXCEPT ![tmp_addr] = plugged]
    /\ hid_addr' = tmp_addr
    /\ task' \in {RUNNING, ERROR}
    /\ TaskRest /\ UNCHANGED <<tmp_addr, chip, due>>

Unrecognised ==
    /\ InTask(CONFIGURING)
    /\ task' = ERROR
    /\ TaskRest /\ NoTable /\ UNCHANGED <<chip, due>>

USB_Task ==
    \/ Initialize \/ Idle \/ Attached \/ Settle \/ ResetDevice
    \/ WaitResetComplete \/ WaitSof \/ GetDescriptor \/ Addressing
    \/ Recognised \/ Unrecognised
-----------------------------------------------------------------------------
(* The USB part of the main loop.                                          *)

MainRest == UNCHANGED <<program, HIRQ, chip, due, world>>

\* GetDriverandReport: the class of the last slot in use.
Report ==
    /\ pc = "main" /\ task = RUNNING /\ ~running
    /\ running' = TRUE
    /\ device' = IF Used = {} THEN 255
                 ELSE devclass[CHOOSE i \in Used : \A j \in Used : j <= i]
    /\ pc' = "int"
    /\ MainRest

\* kbdPoll or mousePoll; ERROR is only shown on the LEDs.
PollOrError ==
    /\ pc = "main"
    /\ task = ERROR \/ (task = RUNNING /\ running)
    /\ pc' = "int"
    /\ UNCHANGED mainvars /\ MainRest

\* MUTANT: runningdebugflag stays up when the device goes.
NotRunning_KeepsFlag ==
    /\ pc = "main" /\ task \notin {RUNNING, ERROR}
    /\ pc' = "int"
    /\ UNCHANGED mainvars /\ MainRest

\* Not running: if it was, everything starts over.
NotRunning ==
    /\ pc = "main" /\ task \notin {RUNNING, ERROR}
    /\ running' = FALSE
    /\ pc' = IF running THEN "init" ELSE "int"
    /\ UNCHANGED device /\ MainRest

MainLoop == Report \/ PollOrError \/ NotRunning

Program == MAX3421E_Task \/ MaxIntProbe \/ MaxIntAck \/ MAX3421E_init
           \/ InitAck \/ USB_Task \/ MainLoop
-----------------------------------------------------------------------------
(* The chip and the bus on their own.                                      *)

\* A device comes, goes, or is exchanged for another one; the chip notices.
BusChange ==
    /\ changes < MaxChanges
    /\ changes' = changes + 1
    /\ bus' \in {"J", "SE0", "SE1"} \ (IF bus = "J" THEN {} ELSE {bus})
    /\ plugged' \in Classes
    /\ condet' = TRUE
    /\ UNCHANGED <<program, mainvars, pc, HIRQ, busevent, busrst, due>>

\* The end of a bus reset, which may look like a new connection.
BusResetDone ==
    /\ busrst
    /\ busrst' = FALSE
    /\ busevent' = TRUE
    /\ condet' \in {condet, TRUE}
    /\ UNCHANGED <<program, mainvars, pc, HIRQ, due, world>>

DelayOver ==
    /\ ~due
    /\ due' = TRUE
    /\ UNCHANGED <<program, mainvars, pc, HIRQ, chip, world>>

Next == Program \/ BusChange \/ BusResetDone \/ DelayOver

\* The loop runs, a bus reset ends, time passes; a device need not do anything.
\* A bus reset takes 50 ms, many turns of the loop, and its end is not tied to
\* them: resets do not all end just between the handler and USB_Task.
Fairness ==
    /\ WF_vars(Program)
    /\ WF_vars(DelayOver)
    /\ SF_vars(BusResetDone /\ pc = "main")

Spec == Init /\ [][Next]_vars
FairSpec == Spec /\ Fairness
-----------------------------------------------------------------------------
(* Properties.                                                             *)

\* The main loop polls the device it thinks it polls: the endpoint record
\* behind hid_device.addr is filled in and its class is the one main cached
\* when the device came up (main.c:234-241, HID.c:216-223).
Polling == pc = "main" /\ task = RUNNING /\ running
PollsTheDevice ==
    Polling => /\ hid_addr \in Slots
               /\ epinfo[hid_addr] = "hid_ep"
               /\ devclass[hid_addr] = device

\* Enumeration ends, with a running device, with an error or detached again,
\* once the bus is quiet (transfer.c:274-374).
Enumerating == task \in ATTACHED..CONFIGURING
EnumerationEnds == Enumerating ~> ~Enumerating

\* A device that is gone for good does not stay RUNNING, although the handler
\* may lose an interrupt (MAX3421E.c:210-233).
Gone == task = RUNNING /\ bus /= "J"
LossIsNoticed == Gone ~> ~Gone
=============================================================================
