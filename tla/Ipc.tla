-------------------------------- MODULE Ipc ---------------------------------
(***************************************************************************)
(* The nucleus of phase 2 as a message-passing scheduler: SYS1 (send),     *)
(* SYS2 (receive), the PLT and device interrupts, the scheduler, and the   *)
(* PCB and message pools of phase 1 they work on.                          *)
(*                                                                         *)
(* An exception or interrupt handler runs with interrupts disabled, from   *)
(* the trap to the LDST of scheduler.c, so each handler is one action; the *)
(* call of scheduler() at its end belongs to the action.                   *)
(*                                                                         *)
(* On its own (IpcSpec) the module describes a fixed population in which   *)
(* every process calls SYS1 and SYS2 as it pleases.  Module Nucleus        *)
(* extends it with the SSI, the devices, creation and termination.         *)
(***************************************************************************)
EXTENDS Integers, FiniteSets, SequencesExt

CONSTANTS
    MaxProc,     (* MAXPROC: PCBs in pcbTable                               *)
    MaxMsg,      (* MAXMESSAGES: messages in msgTable                       *)
    CountMod,    (* the unsigned counters wrap at CountMod                  *)
    Load,        (* the payloads that are sent: records with a field op     *)
    Population   (* processes alive in the initial state of IpcSpec         *)

ASSUME IpcAssumption ==
    /\ MaxProc \in Nat /\ MaxProc >= 2
    /\ MaxMsg \in Nat
    /\ CountMod \in Nat /\ CountMod > MaxProc
    /\ Population \in 2..MaxProc
-----------------------------------------------------------------------------
(* Addresses.  PCBs are numbered in the order of pcbTable, above the       *)
(* values the code uses as special senders and destinations.               *)

NULL == 0
ANYMESSAGE == 0
PARENT == 0
INTERRUPT_HANDLER_MSG == 1
SSI_FAKE_ADDR == 2

Pcb == 3..(MaxProc + 2)
Address == 0..(MaxProc + 2)

(* initPcbs pushes the table in index order, so allocPcb hands out the     *)
(* last entry first: main() gives it to the SSI and the next one to test.  *)
ssi_pcb_real == MaxProc + 2
test_pcb == MaxProc + 1

(* The name under which a process sees a sender, and the senders a         *)
(* message can carry.                                                      *)
Alias(p) == IF p = ssi_pcb_real THEN SSI_FAKE_ADDR ELSE p
Sender == (Pcb \ {ssi_pcb_real}) \cup {INTERRUPT_HANDLER_MSG, SSI_FAKE_ADDR}

(* What a register holds in the middle of a program: no sender's name.     *)
SCRATCH == -1

(* Results of SYS1 in reg_a0.                                              *)
DELIVERED == 0
MSGNOGOOD == -1
DEST_NOT_EXIST == -2

Message == [sender : Sender, payload : Load]
NoMessage == [sender |-> NULL, payload |-> NULL]

(* unsigned arithmetic on process_count and softblock_count                *)
Inc(c) == IF c = CountMod - 1 THEN 0 ELSE c + 1
Dec(c) == IF c = 0 THEN CountMod - 1 ELSE c - 1
-----------------------------------------------------------------------------
VARIABLES
    pcbFree,          (* pcbFree_h, head first                              *)
    p_parent,         (* field of each PCB                                  *)
    ready_queue,      (* PCBs linked by p_list, head first                  *)
    current_process,
    process_count,
    softblock_count,
    do_io,            (* field of each PCB                                  *)
    msg_inbox,        (* field of each PCB: messages, oldest first          *)
    msgFree,          (* how many messages msgFree_h holds                  *)
    blocked,          (* PCBs whose saved state p_s is inside SYS2          *)
    reg_a1,           (* p_s.reg_a1 of each PCB: the sender a process       *)
                      (* blocked in SYS2 wants                              *)
    received,         (* reg_a0 and *reg_a2 as the last SYS2 left them      *)
    ret,              (* reg_a0 as the last SYS1 left it, for its caller    *)
    cpu               (* "run", "wait" (WAIT), "halt" (HALT), "panic", or   *)
                      (* "kernel": in a nucleus loop of module Nucleus      *)

procVars == <<pcbFree, p_parent, process_count>>
msgVars == <<msg_inbox, msgFree, blocked, received, do_io, softblock_count>>
cpuVars == <<ready_queue, current_process, cpu>>
ipcVars == <<procVars, msgVars, cpuVars, reg_a1, ret>>

Ready == ToSet(ready_queue)
Live == Pcb \ ToSet(pcbFree)
isPcbValid(p) == p \in Live
-----------------------------------------------------------------------------
(* scheduler(), called at the end of every handler.  cur and ready are the *)
(* handler's current_process and ready queue; the counters are read as the *)
(* handler left them.  searchPcb looks for ssi_pcb, which main() set to    *)
(* SSI_FAKE_ADDR: no PCB has that address.                                 *)

(* Faulty variant: the SSI is not counted.                                 *)
OneUserLeft(ready) ==
    process_count' \in {1, 2} /\ SSI_FAKE_ADDR \notin ToSet(ready)

OnlySsiLeft(ready) == process_count' = 1 /\ SSI_FAKE_ADDR \notin ToSet(ready)

Idle(kind, ready) ==
    cpu' = kind /\ current_process' = NULL /\ ready_queue' = ready

Scheduler(cur, ready) ==
    \/ /\ cur # NULL
       /\ cpu' = "run" /\ current_process' = cur /\ ready_queue' = ready
    \/ /\ cur = NULL /\ OnlySsiLeft(ready)
       /\ Idle("halt", ready)
    \/ /\ cur = NULL /\ ~OnlySsiLeft(ready) /\ ready = <<>>
       /\ Idle(IF softblock_count' > 0 THEN "wait" ELSE "panic", ready)
    \/ /\ cur = NULL /\ ~OnlySsiLeft(ready) /\ ready # <<>>
       /\ cpu' = "run"
       /\ current_process' = Head(ready)
       /\ ready_queue' = Tail(ready)
-----------------------------------------------------------------------------
(* send_message()                                                          *)

is_a_softblocking_request(load) == load.op \in {"DOIO", "CLOCKWAIT"}

(* Faulty variant: the sender is not translated to the SSI's fake address. *)
WaitingForRealAddress(sender, dest) ==
    reg_a1[dest] \in {sender, ANYMESSAGE}

is_waiting_for_me(sender, dest) ==
    reg_a1[dest] \in {Alias(sender), ANYMESSAGE}

(* Faulty variant: the running process is not excepted.                    *)
WakesCurrent(dest, sender) ==
    dest \notin Ready /\ is_waiting_for_me(sender, dest)

(* The code's test for "dest is blocked on a SYS2 for this sender".        *)
Wakes(dest, sender) ==
    /\ dest \notin Ready
    /\ dest # current_process
    /\ is_waiting_for_me(sender, dest)

Delivers(dest, sender) == msgFree > 0 /\ Wakes(dest, sender)

ReadyAfter(dest, sender) ==
    IF Delivers(dest, sender) THEN Append(ready_queue, dest) ELSE ready_queue

(* The sender of a DOIO or CLOCKWAIT request is marked as it sends it.     *)
MarkSoftblocking(dest, load, sender) ==
    IF /\ dest = ssi_pcb_real
       /\ sender # INTERRUPT_HANDLER_MSG
       /\ is_a_softblocking_request(load)
    THEN [do_io EXCEPT ![current_process] = TRUE]
    ELSE do_io

(* The message pool is exhausted: MSGNOGOOD.                               *)
SendFails == msgFree = 0 /\ UNCHANGED msgVars

(* Faulty variant: do_io is cleared before it is tested.                   *)
SendDeliversUncounted(dest, load, sender) ==
    /\ Delivers(dest, sender)
    /\ do_io' = [MarkSoftblocking(dest, load, sender) EXCEPT ![dest] = FALSE]
    /\ blocked' = blocked \ {dest}
    /\ received' = [received EXCEPT
                       ![dest] = [sender |-> Alias(sender), payload |-> load]]
    /\ UNCHANGED <<softblock_count, msg_inbox, msgFree>>

(* The message is handed to the blocked receiver and freed at once.        *)
SendDelivers(dest, load, sender) ==
    /\ Delivers(dest, sender)
    /\ softblock_count' =
           IF do_io[dest] THEN Dec(softblock_count) ELSE softblock_count
    /\ do_io' = [MarkSoftblocking(dest, load, sender) EXCEPT ![dest] = FALSE]
    /\ blocked' = blocked \ {dest}
    /\ received' = [received EXCEPT
                       ![dest] = [sender |-> Alias(sender), payload |-> load]]
    /\ UNCHANGED <<msg_inbox, msgFree>>

(* Faulty variants: no test that allocMsg succeeded; the message is linked *)
(* into the inbox without having been taken off the free list.             *)
SendQueuesUnchecked(dest, load, sender) ==
    /\ ~Wakes(dest, sender)
    /\ msgFree' = msgFree - 1
    /\ UNCHANGED <<msg_inbox, softblock_count, blocked, received, do_io>>

SendQueuesUnallocated(dest, load, sender) ==
    /\ msgFree > 0 /\ ~Wakes(dest, sender)
    /\ msg_inbox' = [msg_inbox EXCEPT
                        ![dest] = Append(@, [sender |-> Alias(sender),
                                             payload |-> load])]
    /\ UNCHANGED <<msgFree, softblock_count, blocked, received, do_io>>

(* The message waits in the receiver's inbox.                              *)
SendQueues(dest, load, sender) ==
    /\ msgFree > 0 /\ ~Wakes(dest, sender)
    /\ msgFree' = msgFree - 1
    /\ msg_inbox' = [msg_inbox EXCEPT
                        ![dest] = Append(@, [sender |-> Alias(sender),
                                             payload |-> load])]
    /\ do_io' = MarkSoftblocking(dest, load, sender)
    /\ UNCHANGED <<softblock_count, blocked, received>>

SendMessage(dest, load, sender) ==
    \/ SendFails
    \/ SendDelivers(dest, load, sender)
    \/ SendQueues(dest, load, sender)

Running(p) == cpu = "run" /\ current_process = p

Destination(p, to) ==
    CASE to = SSI_FAKE_ADDR -> ssi_pcb_real
      [] to = PARENT        -> p_parent[p]
      [] OTHER              -> to

(* SYS1: p sends load to the address to.                                   *)
SysSend(p, to, load) ==
    LET dest == Destination(p, to) IN
    /\ Running(p)
    /\ \/ /\ ~isPcbValid(dest)
          /\ ret' = DEST_NOT_EXIST
          /\ UNCHANGED <<msgVars, procVars>>
          /\ Scheduler(p, ready_queue)
       \/ /\ isPcbValid(dest)
          /\ ret' = IF msgFree = 0 THEN MSGNOGOOD ELSE DELIVERED
          /\ SendMessage(dest, load, p)
          /\ UNCHANGED procVars
          /\ Scheduler(p, ReadyAfter(dest, p))
    /\ UNCHANGED reg_a1
-----------------------------------------------------------------------------
(* SYS2                                                                    *)

Matches(m, src) == src = ANYMESSAGE \/ m.sender = src
Matching(p, src) ==
    {i \in DOMAIN msg_inbox[p] : Matches(msg_inbox[p][i], src)}

(* Faulty variant: the newest message the caller accepts is taken.         *)
ReceivePopsNewest(p, src) ==
    \E i \in Matching(p, src) :
        /\ \A j \in Matching(p, src) : i >= j
        /\ received' = [received EXCEPT ![p] = msg_inbox[p][i]]
        /\ msg_inbox' = [msg_inbox EXCEPT ![p] = RemoveAt(@, i)]
        /\ msgFree' = msgFree + 1
        /\ do_io' = [do_io EXCEPT ![p] = FALSE]
        /\ UNCHANGED <<blocked, softblock_count, reg_a1, procVars>>
        /\ Scheduler(p, ready_queue)

(* popMessage finds the oldest message the caller accepts.                 *)
ReceivePops(p, src) ==
    \E i \in Matching(p, src) :
        /\ \A j \in Matching(p, src) : i <= j
        /\ received' = [received EXCEPT ![p] = msg_inbox[p][i]]
        /\ msg_inbox' = [msg_inbox EXCEPT ![p] = RemoveAt(@, i)]
        /\ msgFree' = msgFree + 1
        /\ do_io' = [do_io EXCEPT ![p] = FALSE]
        /\ UNCHANGED <<blocked, softblock_count, reg_a1, procVars>>
        /\ Scheduler(p, ready_queue)

(* Faulty variant: only processes without do_io are accounted for.         *)
ReceiveBlocksUncounted(p, src) ==
    /\ Matching(p, src) = {}
    /\ blocked' = blocked \cup {p}
    /\ reg_a1' = [reg_a1 EXCEPT ![p] = src]
    /\ received' = [received EXCEPT ![p] = NoMessage]
    /\ UNCHANGED <<softblock_count, msg_inbox, msgFree, do_io, procVars>>
    /\ Scheduler(NULL, ready_queue)

(* blockSys() saves the registers, the wanted sender among them.  The      *)
(* result slot is cleared: SYS2 has not returned yet.                      *)
ReceiveBlocks(p, src) ==
    /\ Matching(p, src) = {}
    /\ softblock_count' =
           IF do_io[p] THEN Inc(softblock_count) ELSE softblock_count
    /\ blocked' = blocked \cup {p}
    /\ reg_a1' = [reg_a1 EXCEPT ![p] = src]
    /\ received' = [received EXCEPT ![p] = NoMessage]
    /\ UNCHANGED <<msg_inbox, msgFree, do_io, procVars>>
    /\ Scheduler(NULL, ready_queue)

(* SYS2: p receives from src, or from anyone.  The register with the       *)
(* result of an earlier SYS1 is overwritten.                               *)
SysReceive(p, src) ==
    /\ Running(p)
    /\ ReceivePops(p, src) \/ ReceiveBlocks(p, src)
    /\ ret' = DELIVERED
-----------------------------------------------------------------------------
(* Interrupts.  interrupt_handler() serves every bit of mip before it      *)
(* calls the scheduler; one action per bit reaches the same ready queue.   *)

(* The time slice of the running process is over: its state is saved and   *)
(* it goes to the end of the ready queue.  In WAIT the PLT is masked.      *)
PltInterrupt ==
    /\ cpu = "run"
    /\ reg_a1' = [reg_a1 EXCEPT ![current_process] = SCRATCH]
    /\ UNCHANGED <<procVars, msgVars, ret>>
    /\ Scheduler(NULL, Append(ready_queue, current_process))

(* A device or the interval timer: the handler sends load to the SSI,      *)
(* whatever the CPU is doing, and resumes what it interrupted.             *)
Interrupt(load) ==
    /\ cpu \in {"run", "wait"}
    /\ SendMessage(ssi_pcb_real, load, INTERRUPT_HANDLER_MSG)
    /\ UNCHANGED <<procVars, reg_a1, ret>>
    /\ Scheduler(current_process,
                 ReadyAfter(ssi_pcb_real, INTERRUPT_HANDLER_MSG))

(* HALT and PANIC stop the machine.                                        *)
Stopped == cpu \in {"halt", "panic"} /\ UNCHANGED ipcVars
-----------------------------------------------------------------------------
(* IpcSpec: Population processes, none created or terminated, each calling *)
(* SYS1 and SYS2 with any arguments.  The initial state is one in which    *)
(* test has created its children, the SSI waits for requests, and nothing  *)
(* is in transit.                                                          *)

Alive == (MaxProc + 3 - Population)..(MaxProc + 2)

IpcInit ==
    /\ pcbFree = [i \in 1..(MaxProc - Population) |->
                     MaxProc + 3 - Population - i]
    /\ p_parent = [p \in Pcb |->
                      IF p \in Alive /\ p < test_pcb THEN test_pcb ELSE NULL]
    /\ ready_queue = [i \in 1..(Population - 2) |-> test_pcb - i]
    /\ current_process = test_pcb
    /\ process_count = Population
    /\ softblock_count = 0
    /\ do_io = [p \in Pcb |-> FALSE]
    /\ msg_inbox = [p \in Pcb |-> <<>>]
    /\ msgFree = MaxMsg
    /\ blocked = {ssi_pcb_real}
    /\ reg_a1 = [p \in Pcb |-> ANYMESSAGE]
    /\ received = [p \in Pcb |-> NoMessage]
    /\ ret = DELIVERED
    /\ cpu = "run"

(* A process may name any destination, the NULL parent of test and a free  *)
(* PCB included, and any live source.  A request is only sent to the SSI:  *)
(* to anyone else its op would say nothing.  The SSI itself only receives  *)
(* from anyone and answers processes other than itself.                    *)
IpcNext ==
    \/ \E p \in Alive, to \in {PARENT, SSI_FAKE_ADDR} \cup Pcb, load \in Load :
          /\ p = ssi_pcb_real => to \notin {SSI_FAKE_ADDR, ssi_pcb_real}
          /\ is_a_softblocking_request(load) => to = SSI_FAKE_ADDR
          /\ SysSend(p, to, load)
    \/ \E p \in Alive,
          src \in {ANYMESSAGE, SSI_FAKE_ADDR} \cup (Alive \ {ssi_pcb_real}) :
          /\ p = ssi_pcb_real => src = ANYMESSAGE
          /\ SysReceive(p, src)
    \/ PltInterrupt
    \/ \E load \in Load : Interrupt(load)
    \/ Stopped

IpcSpec == IpcInit /\ [][IpcNext]_ipcVars
-----------------------------------------------------------------------------
(* Type invariant: every variable holds a value its C type and its users   *)
(* allow.                                                                  *)
TypeOK ==
    /\ pcbFree \in Seq(Pcb)
    /\ p_parent \in [Pcb -> Pcb \cup {NULL}]
    /\ ready_queue \in Seq(Pcb)
    /\ current_process \in Pcb \cup {NULL}
    /\ process_count \in 0..(CountMod - 1)
    /\ softblock_count \in 0..(CountMod - 1)
    /\ do_io \in [Pcb -> BOOLEAN]
    /\ msg_inbox \in [Pcb -> Seq(Message)]
    /\ msgFree \in Nat
    /\ blocked \in SUBSET Pcb
    /\ reg_a1 \in [Pcb -> {SCRATCH, ANYMESSAGE} \cup Sender]
    /\ received \in [Pcb -> Message \cup {NoMessage}]
    /\ ret \in {DELIVERED, MSGNOGOOD, DEST_NOT_EXIST}
    /\ cpu \in {"run", "wait", "halt", "panic", "kernel"}

(* No PCB is linked twice into the ready queue.                            *)
ReadyOnce ==
    \A i, j \in DOMAIN ready_queue : ready_queue[i] = ready_queue[j] => i = j

(* No process is in two places.                                            *)
PlacedOnce ==
    /\ ReadyOnce
    /\ current_process \notin Ready
    /\ blocked \cap (Ready \cup {current_process}) = {}

Placed == (Ready \cup blocked \cup {current_process}) \ {NULL}

(* Every live process is in exactly one place: running, ready, or blocked  *)
(* in SYS2.  send_message relies on it: it takes "not in the ready queue   *)
(* and not current" for "blocked on a receive" (exceptions.c:222-226).     *)
Placement == PlacedOnce /\ Placed = Live

(* No lost wakeup: while a process is blocked in SYS2 its inbox holds no   *)
(* message it would accept, whatever was sent and in whatever order.       *)
NoLostWakeup == \A p \in blocked : Matching(p, reg_a1[p]) = {}

(* softblock_count is the number of blocked processes with do_io set, at   *)
(* every step: sends, receives, wakeups and interrupts count the flag up   *)
(* and down in three places (exceptions.c:122, 148, 228).  Whether the     *)
(* flag tells who has a request outstanding is another question, for which *)
(* see SoftblockCount and PanicIsDeadlock of module Nucleus.               *)
SoftblockExact ==
    softblock_count = Cardinality({p \in blocked : do_io[p]})

(* Every message of msgTable is either free or in the inbox of a process.  *)
Held(inbox, live) ==
    LET held[n \in 0..MaxProc] ==     (* by the first n PCBs                *)
            IF n = 0 THEN 0
            ELSE held[n - 1] + IF n + 2 \in live THEN Len(inbox[n + 2]) ELSE 0
    IN  held[MaxProc]

MsgPoolExact == msgFree + Held(msg_inbox, Live) = MaxMsg

(* SYS1 and SYS2 keep the promise of Channels.  A channel is the part of   *)
(* the receiver's inbox that came from one sender.                         *)
SentBy(s, inbox) ==
    LET sent[n \in 0..Len(inbox)] ==  (* among the first n messages         *)
            IF n = 0 THEN <<>>
            ELSE IF inbox[n].sender = s THEN Append(sent[n - 1], inbox[n].payload)
            ELSE sent[n - 1]
    IN  sent[Len(inbox)]

ChannelOf(s, p) == SentBy(s, msg_inbox[p])

Wanted(p) ==
    IF p \notin blocked THEN {}
    ELSE IF reg_a1[p] = ANYMESSAGE THEN Sender ELSE {reg_a1[p]}

C == INSTANCE Channels WITH
        Proc <- Pcb,
        From <- Sender,
        Any <- ANYMESSAGE,
        Data <- Load,
        Nothing <- NoMessage,
        chan <- [s \in Sender |-> [p \in Pcb |-> ChannelOf(s, p)]],
        want <- [p \in Pcb |-> Wanted(p)],
        got <- received

(* Every behaviour of the nucleus is one of Channels: per-sender FIFO, no  *)
(* loss, no duplicate, a receiver suspended only when it has to be.        *)
ImplementsChannels == C!ChanSpec
=============================================================================
