----------------------------- MODULE Interrupts -----------------------------
(***************************************************************************)
(* Device interrupts, from the command register to the answer: do_io() and *)
(* answer_do_io() of the SSI, the interrupt handler with its priorities,   *)
(* and the three numberings of a (sub)device that have to agree: the       *)
(* address of its command register, its interrupt line, number and         *)
(* sub-terminal in the message to the SSI, and its index in                *)
(* pcb_blocked_on_device.                                                  *)
(*                                                                         *)
(* The handler runs with interrupts disabled, but the devices go on: what  *)
(* it reads from the registers may have changed since the MIP register was *)
(* read.  Processes are those that wait for a device; scheduling is in     *)
(* module Nucleus.                                                         *)
(***************************************************************************)
EXTENDS Integers, FiniteSets, Sequences, SequencesExt

CONSTANTS
    Attached,   (* the devices: pairs of an interrupt line and a number     *)
    Process,    (* processes that do I/O                                    *)
    MaxTicks    (* bound: clock messages waiting for the SSI                *)

(* const.h and uriscv: lines, numbers, registers of 16 bytes.              *)
DEV_IL_START == 17
N_EXT_IL == 5
N_DEV_PER_IL == 8
IL_TERMINAL == 21
DEV_REG_START == 268435540
DEV_REG_SIZE == 16
MAXDEVICE == (N_EXT_IL + 1) * N_DEV_PER_IL

ASSUME InterruptsAssumption ==
    /\ Attached \subseteq
           (DEV_IL_START..(DEV_IL_START + N_EXT_IL - 1)) \X (0..(N_DEV_PER_IL - 1))
    /\ MaxTicks \in Nat

NONE == -1

(* A unit is what executes one command at a time: a device, or one of the  *)
(* two sub-devices of a terminal.                                          *)
Sub(iln) == IF iln = IL_TERMINAL THEN {"recv", "transm"} ELSE {"dtp"}
Unit == UNION {{[iln |-> a[1], dev |-> a[2], sub |-> s] : s \in Sub(a[1])} :
               a \in Attached}
Line == {a[1] : a \in Attached}

DEV_REG_ADDR(iln, dev) ==
    DEV_REG_START + ((iln - DEV_IL_START) * N_DEV_PER_IL + dev) * DEV_REG_SIZE

(* dtp_reg_t and term_reg_t: where the command field is.                   *)
CommandAddr(u) == DEV_REG_ADDR(u.iln, u.dev) + (IF u.sub = "transm" THEN 12 ELSE 4)

(* Status codes.  In a terminal's register a character follows the code.   *)
READY == 1
BUSY == 3
Ended == {4, 5}
Char == 90
InRegister(u, code) ==
    IF u.iln = IL_TERMINAL /\ code = 5 THEN code + 256 * Char ELSE code
-----------------------------------------------------------------------------
VARIABLES
    status,     (* the status register of each unit                         *)
    timer,      (* whether the interval timer's interrupt is pending        *)
    mip,        (* what the handler has read from MIP and not handled yet   *)
    inbox,      (* payloads on their way to the SSI                         *)
    pcb_blocked_on_device,
    pcb_blocked_on_clock,
    asked,      (* asked[p]: the unit p has commanded and waits for         *)
    outcome,    (* outcome[u]: the code u's command ended with, unanswered  *)
    panic

vars == <<status, timer, mip, inbox, pcb_blocked_on_device,
          pcb_blocked_on_clock, asked, outcome, panic>>
devices == <<status, outcome>>

NoUnit == [iln |-> 0, dev |-> 0, sub |-> "none"]

Init ==
    /\ status = [u \in Unit |-> READY]
    /\ timer = FALSE
    /\ mip = {}
    /\ inbox = <<>>
    /\ pcb_blocked_on_device = [n \in 0..(MAXDEVICE - 1) |-> <<>>]
    /\ pcb_blocked_on_clock = <<>>
    /\ asked = [p \in Process |-> NoUnit]
    /\ outcome = [u \in Unit |-> NONE]
    /\ panic = FALSE
-----------------------------------------------------------------------------
(* utils.c                                                                 *)

(* Faulty variant: the sub-terminal is not told apart.                     *)
hash_without_transm(type, number, transm) == type * N_DEV_PER_IL + number

hash_from_device_type_number(type, number, transm) ==
    (type + (IF type = IL_TERMINAL - DEV_IL_START /\ transm # 0 THEN 1 ELSE 0))
        * N_DEV_PER_IL + number

comm_add_to_number(command_addr) ==
    LET tmp1 == (command_addr - DEV_REG_START) \div DEV_REG_SIZE
        il_number == tmp1 \div N_DEV_PER_IL
        dev_number == tmp1 - il_number * N_DEV_PER_IL
        recv_command == DEV_REG_ADDR(il_number + 17, dev_number) + 4
    IN  hash_from_device_type_number(il_number, dev_number,
                                     IF command_addr # recv_command THEN 1 ELSE 0)

(* The four chars of interrupt_handler_io_msg_t: service, status, type of  *)
(* the device, and its number with the sub-terminal in bit 7.              *)
Payload == [service : {0, 1}, status : 0..255, device_type : 0..(N_EXT_IL - 1),
            device_number : 0..255]

(* Faulty variant: the flag of the transmitter is one bit too high.        *)
payloadBit8(service, code, type, number, transm) ==
    [service |-> service, status |-> code % 256, device_type |-> type,
     device_number |-> number + 256 * transm]

payload(service, code, type, number, transm) ==
    [service |-> service, status |-> code % 256, device_type |-> type,
     device_number |-> number + 128 * transm]
-----------------------------------------------------------------------------
(* The devices                                                             *)

Pending(u) == status[u] % 256 \notin {READY, BUSY}
CDEV_BITMAP(iln) == {u.dev : u \in {v \in Unit : v.iln = iln /\ Pending(v)}}
MIP == (IF timer THEN {3} ELSE {}) \cup {iln \in Line : CDEV_BITMAP(iln) # {}}

Completes(u) ==
    /\ status[u] = BUSY
    /\ \E code \in Ended :
          /\ status' = [status EXCEPT ![u] = InRegister(u, code)]
          /\ outcome' = [outcome EXCEPT ![u] = code]
    /\ UNCHANGED <<timer, mip, inbox, pcb_blocked_on_device, pcb_blocked_on_clock,
                   asked, panic>>

TimerFires ==
    /\ ~ timer /\ timer' = TRUE
    /\ Cardinality({i \in DOMAIN inbox : inbox[i].service = 1}) < MaxTicks
    /\ UNCHANGED <<devices, mip, inbox, pcb_blocked_on_device, pcb_blocked_on_clock,
                   asked, panic>>
-----------------------------------------------------------------------------
(* interrupt_handler(): MIP is read once; then the timer, and the lines    *)
(* that were pending, each once.                                           *)

EntersHandler ==
    /\ mip = {} /\ MIP # {} /\ ~ panic
    /\ mip' = MIP
    /\ UNCHANGED <<devices, timer, inbox, pcb_blocked_on_device, pcb_blocked_on_clock,
                   asked, panic>>

Lowest(S) == CHOOSE x \in S : \A y \in S : x <= y

(* LDIT acknowledges the timer's interrupt.                                *)
it_interrupt_handler ==
    /\ 3 \in mip
    /\ mip' = mip \ {3}
    /\ timer' = FALSE
    /\ inbox' = Append(inbox, payload(1, 0, 0, 0, 0))
    /\ UNCHANGED <<devices, pcb_blocked_on_device, pcb_blocked_on_clock, asked, panic>>

(* Faulty variant: a terminal's receiver is always served first.           *)
ServedReceiverFirst(iln, dev) ==
    LET unit == [s \in Sub(iln) |-> [iln |-> iln, dev |-> dev, sub |-> s]] IN
    IF iln # IL_TERMINAL THEN unit["dtp"]
    ELSE IF status[unit["recv"]] % 256 = READY THEN unit["transm"] ELSE unit["recv"]

(* The unit of the device that is served: a terminal's transmitter unless  *)
(* it is ready or busy (the status is read into a char).                   *)
Served(iln, dev) ==
    LET unit == [s \in Sub(iln) |-> [iln |-> iln, dev |-> dev, sub |-> s]] IN
    IF iln # IL_TERMINAL THEN unit["dtp"]
    ELSE IF status[unit["transm"]] % 256 \notin {READY, BUSY} THEN unit["transm"]
    ELSE unit["recv"]

(* Faulty variant: the line stays in the copy of MIP.                      *)
HandledLineAgain(iln) == mip

HandledLine(iln) == mip \ {iln}

(* device_interrupt_handler(): the pending device with the lowest number   *)
(* on the lowest line is acknowledged and reported to the SSI.  The status *)
(* is cut to a char.                                                       *)
device_interrupt_handler ==
    /\ mip # {} /\ 3 \notin mip /\ ~ panic
    /\ LET iln == Lowest(mip) IN
       /\ mip' = HandledLine(iln)
       /\ IF CDEV_BITMAP(iln) = {}
          THEN panic' = TRUE /\ UNCHANGED <<status, inbox>>
          ELSE LET u == Served(iln, Lowest(CDEV_BITMAP(iln))) IN
               /\ status' = [status EXCEPT ![u] = READY]
               /\ inbox' = Append(inbox,
                      payload(0, status[u], iln - DEV_IL_START, u.dev,
                              IF u.sub = "transm" THEN 1 ELSE 0))
               /\ UNCHANGED panic
    /\ UNCHANGED <<timer, outcome, pcb_blocked_on_device, pcb_blocked_on_clock, asked>>
-----------------------------------------------------------------------------
(* The SSI runs with interrupts enabled: an interrupt that is pending is   *)
(* taken before its next step.                                             *)

SsiRuns == mip = {} /\ MIP = {} /\ ~ panic

(* do_io() for a process that waits for nothing, on a unit nobody uses:    *)
(* the command register is written last.  A PCB has one p_io and is linked *)
(* once at most.                                                           *)
do_io(p, u) ==
    /\ SsiRuns
    /\ asked[p] = NoUnit /\ \A q \in Process : asked[q] # u
    /\ p \notin ToSet(pcb_blocked_on_clock)
    /\ LET n == comm_add_to_number(CommandAddr(u)) IN
       pcb_blocked_on_device' =
           [pcb_blocked_on_device EXCEPT ![n] = Append(RemoveFirst(@, p), p)]
    /\ status' = [status EXCEPT ![u] = BUSY]
    /\ asked' = [asked EXCEPT ![p] = u]
    /\ UNCHANGED <<timer, mip, inbox, pcb_blocked_on_clock, outcome, panic>>

wait_for_clock(p) ==
    /\ SsiRuns
    /\ asked[p] = NoUnit /\ p \notin ToSet(pcb_blocked_on_clock)
    /\ pcb_blocked_on_clock' = Append(pcb_blocked_on_clock, p)
    /\ UNCHANGED <<devices, timer, mip, inbox, pcb_blocked_on_device, asked, panic>>

(* What the SSI reads from a payload.  SUBTERMINAL_TYPE is bit 7.          *)
DeviceNumber(load) == load.device_number % 128
Transm(load) == load.device_number - DeviceNumber(load)

(* Faulty variant: the sub-terminal is looked for in the device number.    *)
IndexUnmasked(load) == hash_from_device_type_number(load.device_type,
                                                    DeviceNumber(load), 0)

Index(load) ==
    hash_from_device_type_number(load.device_type, DeviceNumber(load), Transm(load))

(* answer_do_io(): the first process of the queue is answered.             *)
answer_do_io ==
    /\ SsiRuns /\ inbox # <<>> /\ Head(inbox).service = 0
    /\ LET n == Index(Head(inbox))
           q == pcb_blocked_on_device[n]
       IN  IF q = <<>> THEN UNCHANGED <<pcb_blocked_on_device, asked>>
           ELSE /\ pcb_blocked_on_device' = [pcb_blocked_on_device EXCEPT ![n] = Tail(q)]
                /\ asked' = [asked EXCEPT ![Head(q)] = NoUnit]
    /\ outcome' = [u \in Unit |-> IF \E p \in Process : asked'[p] = u THEN outcome[u] ELSE NONE]
    /\ inbox' = Tail(inbox)
    /\ UNCHANGED <<status, timer, mip, pcb_blocked_on_clock, panic>>

answer_wait_for_clock ==
    /\ SsiRuns /\ inbox # <<>> /\ Head(inbox).service = 1
    /\ pcb_blocked_on_clock' = <<>>
    /\ inbox' = Tail(inbox)
    /\ UNCHANGED <<devices, timer, mip, pcb_blocked_on_device, asked, panic>>
-----------------------------------------------------------------------------
Next ==
    \/ \E u \in Unit : Completes(u) \/ (\E p \in Process : do_io(p, u))
    \/ \E p \in Process : wait_for_clock(p)
    \/ TimerFires \/ EntersHandler \/ it_interrupt_handler \/ device_interrupt_handler
    \/ answer_do_io \/ answer_wait_for_clock

Spec == Init /\ [][Next]_vars

(* Devices end what they are told to do; a pending interrupt is taken, the *)
(* handler runs to its end, and the SSI serves its inbox.                  *)
Fairness ==
    /\ \A u \in Unit : WF_vars(Completes(u))
    /\ WF_vars(EntersHandler) /\ WF_vars(device_interrupt_handler)
    /\ WF_vars(it_interrupt_handler)
    /\ SF_vars(answer_do_io) /\ SF_vars(answer_wait_for_clock)

FairSpec == Spec /\ Fairness
-----------------------------------------------------------------------------
InterruptsTypeOK ==
    /\ status \in [Unit -> {READY, BUSY} \cup Ended \cup {5 + 256 * Char}]
    /\ timer \in BOOLEAN /\ panic \in BOOLEAN
    /\ mip \subseteq Line \cup {3}
    /\ inbox \in Seq(Payload)
    /\ pcb_blocked_on_device \in [0..(MAXDEVICE - 1) -> Seq(Process)]
    /\ pcb_blocked_on_clock \in Seq(Process)
    /\ asked \in [Process -> Unit \cup {NoUnit}]
    /\ outcome \in [Unit -> Ended \cup {NONE}]

(* The reports of u that the SSI has not taken up yet.                     *)
Reports(u) ==
    {i \in DOMAIN inbox :
        /\ inbox[i].service = 0
        /\ inbox[i].device_type = u.iln - DEV_IL_START
        /\ inbox[i].device_number = u.dev + (IF u.sub = "transm" THEN 128 ELSE 0)}

Asker(u) == {p \in Process : asked[p] = u}

(* A command is at one stage: executing, ended and not acknowledged, or    *)
(* reported; and all the while the process that gave it, and nobody else,  *)
(* is in the queue its report will be looked up in.  Without a command     *)
(* there is no report and nobody waits.                                    *)
CommandUnderWay ==
    \A u \in Unit :
        /\ Cardinality(Reports(u)) + (IF status[u] = READY THEN 0 ELSE 1)
               = Cardinality(Asker(u))
        /\ ToSet(pcb_blocked_on_device[comm_add_to_number(CommandAddr(u))]) = Asker(u)

(* The handler's two PANICs: a line of its copy of MIP always has a device *)
(* to serve, though other devices end their commands meanwhile.            *)
NoPanic == ~ panic

(* A process is answered with the status its own command ended with.       *)
OwnStatus ==
    [][\A p \in Process :
          asked[p] # NoUnit /\ asked'[p] # asked[p] =>
              /\ asked'[p] = NoUnit
              /\ Head(inbox).status = outcome[asked[p]]
              /\ Reports(asked[p]) # {}]_vars

(* Every command is answered: no device is overtaken for ever by those of  *)
(* higher priority.                                                        *)
IoAnswered == \A p \in Process : asked[p] # NoUnit ~> asked[p] = NoUnit
=============================================================================
