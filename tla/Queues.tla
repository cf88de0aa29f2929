------------------------------- MODULE Queues -------------------------------
(***************************************************************************)
(* The lists of phase1 as the memory they are: pcb.c and msg.c on the      *)
(* links of Lists, called by the nucleus and by the SSI in the order of    *)
(* phase2.  Every function runs with interrupts disabled and is one        *)
(* operator on the memory; a step is one call, or the calls the nucleus    *)
(* makes in one go.  The SSI runs with interrupts enabled: between two     *)
(* calls of its own, other processes and traps use the same lists.         *)
(*                                                                         *)
(* Which process waits for which message, what requests say and when they  *)
(* come is left open here (module Nucleus has it): any process that could  *)
(* be the object of a call may be.                                         *)
(***************************************************************************)
EXTENDS Lists

CONSTANT Liberty    (* what programs do beyond the discipline of Untouched  *)
                    (* and MayQueue: a subset of {"die", "clock"}           *)

ASSUME QueuesAssumption == Liberty \subseteq {"die", "clock"}

ssi_pcb_real == MaxProc
test_pcb == MaxProc - 1
NOBODY == 0

VARIABLES
    links,              (* the memory of all list_heads                     *)
    p_parent,           (* of each PCB: a PCB or NOBODY                     *)
    m_sender,           (* of each message                                  *)
    current_process,    (* a PCB or NOBODY                                  *)
    ssi,                (* between two calls of the SSI: what is next and   *)
                        (* the PCBs it works for                            *)
    frame               (* terminate_process, run by the SSI or on a trap:  *)
                        (* what is next and the stack of its arguments      *)

vars == <<links, p_parent, m_sender, current_process, ssi, frame>>
-----------------------------------------------------------------------------
(* pcb.c                                                                   *)

freePcb(l, p) == list_add(l, p_list(p), pcbFree_h)

(* Every list_head of a new PCB is initialised.                            *)
Renewed(l, p) ==
    [n \in Node |-> IF n \in {p_list(p), p_sib(p), p_io(p)} \cup PcbHead(p)
                    THEN [next |-> n, prev |-> n] ELSE l[n]]

allocPcb(l) ==
    LET first == l[pcbFree_h].next IN Renewed(list_del(l, first), container_of(first))

(* removeProcQ and removeProcQForIO: the first entry, unlinked.            *)
removeProcQ(l, head) == INIT_LIST_HEAD(list_del(l, l[head].next), l[head].next)

(* outProcQ and outProcQForIO: the entry, if a walk meets it.              *)
Meets(l, head, entry) == entry \in ToSet(Entries(l, head))
outProcQ(l, head, entry) == IF Meets(l, head, entry) THEN list_del(l, entry) ELSE l

outChild(l, p) == IF p_parent[p] = NOBODY THEN l ELSE list_del(l, p_sib(p))

(* outProcQForIO on every device queue, as terminate_process does.         *)
OutOfDevices(l, p) ==
    LET used == {d \in Device : Meets(l, pcb_blocked_on_device(d), p_io(p))} IN
    IF used = {} THEN l ELSE list_del(l, p_io(p))

isPcbValid(p) == ~ Meets(links, pcbFree_h, p_list(p))
Ready(p) == Meets(links, ready_queue, p_list(p))
Children(p) == {container_of(n) : n \in ToSet(Entries(links, p_child(p)))}
-----------------------------------------------------------------------------
(* msg.c                                                                   *)

(* Faulty variant: pushMessage() for insertMessage().                      *)
insertMessageFirst(l, p, m) == list_add(l, m_list(m), msg_inbox(p))

(* allocMsg() and insertMessage() into an inbox.                           *)
allocMsg(l) ==
    LET first == l[msgFree_h].next IN INIT_LIST_HEAD(list_del(l, first), first)
insertMessage(l, p, m) == list_add_tail(l, m_list(m), msg_inbox(p))

(* popMessage() looks for the first message of the sender, or of anyone.   *)
Inbox(p) == Entries(links, msg_inbox(p))
From(p, s) ==
    {i \in DOMAIN Inbox(p) : s = NOBODY \/ m_sender[message_of(Inbox(p)[i])] = s}

freeMsg(l, m) == list_add(l, m_list(m), msgFree_h)
-----------------------------------------------------------------------------
(* main(): the pools are filled, then the SSI and test are made ready.     *)

initPcbs(l) ==
    LET added[i \in 0..MaxProc] == IF i = 0 THEN l ELSE freePcb(added[i - 1], i)
    IN  added[MaxProc]

initMsgs(l) ==
    LET added[i \in 0..MaxMsg] == IF i = 0 THEN l ELSE freeMsg(added[i - 1], i)
    IN  added[MaxMsg]

MakeReady(l, p) == list_add_tail(l, p_list(p), ready_queue)
BootLinks ==
    LET static == [n \in Node |-> IF n \in KernelHead THEN [next |-> n, prev |-> n]
                                  ELSE NullLinks]
        pools == initMsgs(initPcbs(static))
    IN  MakeReady(allocPcb(MakeReady(allocPcb(pools), ssi_pcb_real)), test_pcb)

(* The scheduler takes the first ready process, if there is one.           *)
First(l) == IF list_empty(l, ready_queue) THEN NOBODY ELSE container_of(l[ready_queue].next)
WithoutFirst(l) == IF list_empty(l, ready_queue) THEN l ELSE removeProcQ(l, ready_queue)

Actor == {"ssi", "nucleus"}
NoFrame == [pc |-> "idle", stack |-> <<>>]
SsiIdle == [pc |-> "idle", p |-> NOBODY, asker |-> NOBODY]

Init ==
    /\ links = WithoutFirst(BootLinks)
    /\ p_parent = [p \in Pcb |-> NOBODY]
    /\ m_sender = [m \in Msg |-> NOBODY]
    /\ current_process = First(BootLinks)
    /\ ssi = SsiIdle
    /\ frame = [a \in Actor |-> NoFrame]
-----------------------------------------------------------------------------
(* The nucleus: scheduler(), the PLT, SYS1 and SYS2                        *)

(* No trap is being handled.                                               *)
User == frame["nucleus"] = NoFrame
Live == Pcb \ {container_of(n) : n \in ToSet(Entries(links, pcbFree_h))}

Schedules(l) == current_process' = First(l) /\ links' = WithoutFirst(l)

(* The PLT: the running process goes to the end of the ready queue.        *)
Preempt ==
    /\ User /\ current_process # NOBODY
    /\ Schedules(MakeReady(links, current_process))
    /\ UNCHANGED <<p_parent, m_sender, ssi, frame>>

(* The PCBs the SSI or terminate_process has in hand.                      *)
Dying == UNION {ToSet(frame[a].stack) : a \in Actor}
Served == {ssi.p, IF ssi.pc = "insertIo" THEN NOBODY ELSE ssi.asker} \ {NOBODY}
InHand == Served \cup Dying

(* send_message() makes a receiver that is neither running nor ready       *)
(* ready, if the message is the one it waits for; otherwise the message is *)
(* queued, if there is one left.                                           *)
Wakes(to) ==
    IF to # current_process /\ ~ Ready(to) THEN {MakeReady(links, to)} ELSE {}

Posted(to) ==
    IF list_empty(links, msgFree_h) THEN {}
    ELSE {insertMessage(allocMsg(links), to, message_of(links[msgFree_h].next))}

SendMessage(to, sender, l) ==
    \/ l \in Wakes(to) /\ UNCHANGED m_sender
    \/ /\ l \in Posted(to)
       /\ m_sender' = [m_sender EXCEPT ![message_of(links[msgFree_h].next)] = sender]

Sends(to) ==
    /\ User /\ current_process # NOBODY
    /\ to \notin InHand /\ isPcbValid(to)
    /\ SendMessage(to, current_process, links')
    /\ UNCHANGED <<p_parent, current_process, ssi, frame>>

(* A device or the interval timer: the handler sends to the SSI, and the   *)
(* interrupted process goes on, or a WAIT ends.                            *)
Interrupt ==
    /\ User
    /\ \E l \in Wakes(ssi_pcb_real) \cup Posted(ssi_pcb_real) :
          /\ SendMessage(ssi_pcb_real, NOBODY, l)
          /\ IF current_process = NOBODY THEN Schedules(l)
             ELSE links' = l /\ UNCHANGED current_process
    /\ UNCHANGED <<p_parent, ssi, frame>>

(* The SSI receives from anyone, and when it has nothing in hand.  The     *)
(* sender of a free message is never read and is cleared here, where the   *)
(* code clears it with the next allocMsg().                                *)
Receives(s) ==
    /\ User /\ current_process # NOBODY
    /\ current_process = ssi_pcb_real => s = NOBODY /\ ssi = SsiIdle /\ frame["ssi"] = NoFrame
    /\ LET found == From(current_process, s) IN
       \/ \E i \in found :
             /\ \A j \in found : i <= j
             /\ LET msg == Inbox(current_process)[i] IN
                /\ links' = freeMsg(list_del(links, msg), message_of(msg))
                /\ m_sender' = [m_sender EXCEPT ![message_of(msg)] = NOBODY]
             /\ UNCHANGED current_process
       \/ found = {} /\ Schedules(links) /\ UNCHANGED m_sender
    /\ UNCHANGED <<p_parent, ssi, frame>>
-----------------------------------------------------------------------------
(* The SSI                                                                 *)

SsiRuns == User /\ current_process = ssi_pcb_real /\ frame["ssi"] = NoFrame
SsiAt(pc) == SsiRuns /\ ssi.pc = pc
SsiGoes(pc, p, asker) == ssi' = [pc |-> pc, p |-> p, asker |-> asker]

(* Faulty variant: whether allocPcb() returned NULL is not asked.          *)
CreateAllocatesUnchecked(asker) ==
    /\ SsiAt("idle") /\ asker # ssi_pcb_real /\ isPcbValid(asker)
    /\ SsiGoes("insertChild", container_of(links[pcbFree_h].next), asker)
    /\ links' = allocPcb(links)
    /\ UNCHANGED <<p_parent, m_sender, current_process, frame>>

(* create_process() fails without effect if there is no free PCB.          *)
CreateAllocates(asker) ==
    /\ SsiAt("idle") /\ asker # ssi_pcb_real /\ isPcbValid(asker)
    /\ ~ list_empty(links, pcbFree_h)
    /\ LET p == container_of(links[pcbFree_h].next) IN
       /\ p_parent' = [p_parent EXCEPT ![p] = NOBODY]
       /\ SsiGoes("insertChild", p, asker)
    /\ links' = allocPcb(links)
    /\ UNCHANGED <<m_sender, current_process, frame>>

CreateInsertsChild ==
    /\ SsiAt("insertChild")
    /\ p_parent' = [p_parent EXCEPT ![ssi.p] = ssi.asker]
    /\ links' = list_add_tail(links, p_sib(ssi.p), p_child(ssi.asker))
    /\ SsiGoes("insertReady", ssi.p, ssi.asker)
    /\ UNCHANGED <<m_sender, current_process, frame>>

CreateInsertsReady ==
    /\ SsiAt("insertReady")
    /\ links' = MakeReady(links, ssi.p)
    /\ ssi' = SsiIdle
    /\ UNCHANGED <<p_parent, m_sender, current_process, frame>>

(* A process asks for one device, or for the clock, at a time; for the     *)
(* same device it may ask again.                                           *)
MayQueue(p, head) ==
    /\ p # ssi_pcb_real /\ isPcbValid(p)
    /\ \A h \in IoHead : Meets(links, h, p_io(p)) =>
           h = head /\ head # pcb_blocked_on_clock

(* Faulty variant: the asker is not removed first.                         *)
DoIoRemovesNothing(p, d) ==
    /\ SsiAt("idle") /\ MayQueue(p, pcb_blocked_on_device(d))
    /\ ssi' = [pc |-> "insertIo", p |-> p, asker |-> d]
    /\ UNCHANGED <<links, p_parent, m_sender, current_process, frame>>

(* do_io() removes the asker from the queue of the device and puts it at   *)
(* the end.                                                                *)
DoIoRemoves(p, d) ==
    /\ SsiAt("idle") /\ MayQueue(p, pcb_blocked_on_device(d))
    /\ links' = outProcQ(links, pcb_blocked_on_device(d), p_io(p))
    /\ ssi' = [pc |-> "insertIo", p |-> p, asker |-> d]
    /\ UNCHANGED <<p_parent, m_sender, current_process, frame>>

DoIoInserts ==
    /\ SsiAt("insertIo")
    /\ links' = list_add_tail(links, p_io(ssi.p), pcb_blocked_on_device(ssi.asker))
    /\ ssi' = SsiIdle
    /\ UNCHANGED <<p_parent, m_sender, current_process, frame>>

WaitForClock(p) ==
    /\ SsiAt("idle") /\ MayQueue(p, pcb_blocked_on_clock)
    /\ links' = list_add_tail(links, p_io(p), pcb_blocked_on_clock)
    /\ UNCHANGED <<p_parent, m_sender, current_process, ssi, frame>>

(* answer_do_io() and the loop of answer_wait_for_clock()                  *)
Answers(head) ==
    /\ SsiAt("idle") /\ head \in IoHead /\ ~ list_empty(links, head)
    /\ links' = removeProcQ(links, head)
    /\ UNCHANGED <<p_parent, m_sender, current_process, ssi, frame>>
-----------------------------------------------------------------------------
(* terminate_process()                                                     *)

(* p, its children and theirs.                                             *)
Family(p) ==
    LET known[i \in 0..MaxProc] ==
            IF i = 0 THEN {p} ELSE UNION {{q} \cup Children(q) : q \in known[i - 1]}
    IN  known[MaxProc]

OnClock(q) == Meets(links, pcb_blocked_on_clock, p_io(q))

(* The discipline: nobody dies that the SSI or another terminate_process   *)
(* has in hand, or that waits for the clock.                               *)
Untouched(p) ==
    /\ "die" \in Liberty \/ Family(p) \cap InHand = {}
    /\ "clock" \in Liberty \/ \A q \in Family(p) : ~ OnClock(q)

SsiTerminates(p) ==
    /\ SsiAt("idle") /\ p # ssi_pcb_real /\ isPcbValid(p) /\ Untouched(p)
    /\ frame' = [frame EXCEPT !["ssi"] = [pc |-> "outChild", stack |-> <<p>>]]
    /\ UNCHANGED <<links, p_parent, m_sender, current_process, ssi>>

Traps ==
    /\ User /\ current_process \notin {NOBODY, ssi_pcb_real}
    /\ Untouched(current_process)
    /\ frame' = [frame EXCEPT !["nucleus"] = [pc |-> "outChild",
                                              stack |-> <<current_process>>]]
    /\ UNCHANGED <<links, p_parent, m_sender, current_process, ssi>>

TermAt(a, pc) ==
    /\ frame[a].pc = pc
    /\ a = "ssi" => User /\ current_process = ssi_pcb_real
Victim(a) == Head(frame[a].stack)
TermGoes(a, pc) == frame' = [frame EXCEPT ![a].pc = pc]

TermOutChild(a) ==
    /\ TermAt(a, "outChild")
    /\ links' = outChild(links, Victim(a))
    /\ TermGoes(a, "outReady")
    /\ UNCHANGED <<p_parent, m_sender, current_process, ssi>>

TermOutReady(a) ==
    /\ TermAt(a, "outReady")
    /\ links' = outProcQ(links, ready_queue, p_list(Victim(a)))
    /\ TermGoes(a, "outIO")
    /\ UNCHANGED <<p_parent, m_sender, current_process, ssi>>

(* Faulty variant: the device queues are not searched.                     *)
TermKeepsIO(a) ==
    /\ TermAt(a, "outIO") /\ TermGoes(a, "children")
    /\ UNCHANGED <<links, p_parent, m_sender, current_process, ssi>>

(* The clock queue is searched for p_list, by which nothing is linked in   *)
(* it.                                                                     *)
TermOutIO(a) ==
    /\ TermAt(a, "outIO")
    /\ links' = outProcQ(OutOfDevices(links, Victim(a)), pcb_blocked_on_clock,
                         p_list(Victim(a)))
    /\ TermGoes(a, "children")
    /\ UNCHANGED <<p_parent, m_sender, current_process, ssi>>

(* The first child, or nothing if its PCB is not valid (and then the loop  *)
(* never ends).                                                            *)
TermNextChild(a) ==
    /\ TermAt(a, "children")
    /\ ~ list_empty(links, p_child(Victim(a)))
    /\ LET first == container_of(links[p_child(Victim(a))].next) IN
       frame' = [frame EXCEPT
                    ![a] = IF isPcbValid(first)
                           THEN [pc |-> "outChild", stack |-> <<first>> \o @.stack]
                           ELSE @]
    /\ UNCHANGED <<links, p_parent, m_sender, current_process, ssi>>

(* freePcb(), and back to the caller: its loop over the children, or the   *)
(* SSI, or, after a trap, the scheduler.                                   *)
TermFrees(a) ==
    /\ TermAt(a, "children") /\ list_empty(links, p_child(Victim(a)))
    /\ links' = freePcb(links, Victim(a))
    /\ LET rest == Tail(frame[a].stack)
           next == IF rest # <<>> THEN "children"
                   ELSE IF a = "ssi" THEN "idle" ELSE "scheduler"
       IN  frame' = [frame EXCEPT ![a] = [pc |-> next, stack |-> rest]]
    /\ UNCHANGED <<p_parent, m_sender, current_process, ssi>>

TrapEnds ==
    /\ TermAt("nucleus", "scheduler")
    /\ Schedules(links)
    /\ frame' = [frame EXCEPT !["nucleus"] = NoFrame]
    /\ UNCHANGED <<p_parent, m_sender, ssi>>

Terminate(a) ==
    \/ TermOutChild(a) \/ TermOutReady(a) \/ TermOutIO(a)
    \/ TermNextChild(a) \/ TermFrees(a)
-----------------------------------------------------------------------------
Next ==
    \/ Preempt \/ Interrupt \/ Traps \/ TrapEnds
    \/ \E p \in Pcb : Sends(p) \/ CreateAllocates(p) \/ WaitForClock(p) \/ SsiTerminates(p)
    \/ \E p \in Pcb, d \in Device : DoIoRemoves(p, d)
    \/ \E s \in Pcb \cup {NOBODY} : Receives(s)
    \/ CreateInsertsChild \/ CreateInsertsReady \/ DoIoInserts
    \/ \E h \in IoHead : Answers(h)
    \/ \E a \in Actor : Terminate(a)

Spec == Init /\ [][Next]_vars
-----------------------------------------------------------------------------
(* Type invariant.  The SSI and terminate_process always have PCBs in      *)
(* hand, never a list head taken for one.                                  *)
QueuesTypeOK ==
    /\ links \in [Node -> [next : Node, prev : Node]]
    /\ p_parent \in [Pcb -> Pcb \cup {NOBODY}]
    /\ m_sender \in [Msg -> Pcb \cup {NOBODY}]
    /\ current_process \in Pcb \cup {NOBODY}
    /\ \/ ssi = SsiIdle
       \/ /\ ssi.pc \in {"insertChild", "insertReady", "insertIo"}
          /\ ssi.p \in Pcb /\ ssi.asker \in Pcb \cup Device
    /\ \A a \in Actor :
           /\ frame[a].stack \in Seq(Pcb)
           /\ frame[a].pc \in IF frame[a].stack = <<>> THEN {"idle", "scheduler"}
                             ELSE {"outChild", "outReady", "outIO", "children"}

(* The lists somebody may still walk: the kernel's, and those of PCBs that *)
(* are in use.                                                             *)
Walked == KernelHead \cup UNION {PcbHead(p) : p \in Live}

(* Every walk comes back to its head, forwards and backwards (a ring that  *)
(* does not close stops the kernel for good: list_for_each never ends),    *)
(* and meets only entries of the field container_of expects.  It follows   *)
(* that no entry is in two of these lists.                                 *)
RingsClose ==
    \A h \in Walked :
        /\ Ring(links, h)
        /\ ToSet(Entries(links, h)) \subseteq EntryOf(h)

(* A free PCB is in no other list, whatever its last owner was doing, and  *)
(* the running process is in neither p_list queue.                         *)
FreeIsNowhereElse ==
    LET used == UNION {ToSet(Entries(links, h)) : h \in Walked \ {pcbFree_h}} IN
    /\ \A p \in Pcb \ Live : {p_list(p), p_io(p), p_sib(p)} \cap used = {}
    /\ User /\ current_process # NOBODY =>
           isPcbValid(current_process) /\ ~ Ready(current_process)

(* What the refinement shows: the lists are the sequences of QueueSpec.    *)
line == [h \in ListHead |-> IF h \in Walked THEN Entries(links, h) ELSE <<>>]

Abstract == INSTANCE QueueSpec
ImplementsQueues == Abstract!QueueBehaviour
=============================================================================
