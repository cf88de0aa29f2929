------------------------------ MODULE Nucleus -------------------------------
(***************************************************************************)
(* Phase 2 of the kernel as a whole: the nucleus of module Ipc, the SSI    *)
(* process, the processes that call it, the devices and the interval       *)
(* timer, creation and termination of processes.                           *)
(*                                                                         *)
(* The SSI runs with interrupts enabled, so between any two of its steps   *)
(* the PLT, a device or another process may come.  The functions of        *)
(* phase1 disable interrupts: a step of the SSI is one such call, one      *)
(* system call, or one half of an increment of a global counter.  Running  *)
(* code of a process between its system calls is not a step.               *)
(***************************************************************************)
EXTENDS Ipc

CONSTANTS
    Device,      (* the (sub)devices: indices of pcb_blocked_on_device      *)
    Services,    (* the operations programs use, a subset of Operation      *)
    Liberty,     (* what programs do beyond the discipline of MayDie,       *)
                 (* MayTerminate and MaySend: a subset of {"kill", "send"}  *)
    MaxTicks,    (* bound: clock interrupts not yet taken up by the SSI     *)
    MaxData      (* bound: plain messages waiting in one inbox              *)

(* Requests to the SSI by their service code.  GETTIME stands for          *)
(* GETSUPPORTPTR and GETPROCESSID too: each returns a field of the asker.  *)
(* BAD is a code the SSI does not know.                                    *)
SsiOp == {"CREATE", "TERM", "DOIO", "CLOCKWAIT", "GETTIME", "BAD"}
Operation == SsiOp \cup {"DATA", "RECV", "TRAP"}

NOPROC == -1

Request == [op : SsiOp, arg : Address \cup Device]
Reply == [op : {"CREATED", "TERMINATED", "IOSTATUS", "TICKED", "TIME"},
          arg : Address \cup Device \cup {NOPROC}]
Event == [op : {"IODONE"}, arg : Device] \cup [op : {"TICK"}, arg : {0}]
Data == [op |-> "DATA", arg |-> 0]
NucleusLoad == Request \cup Reply \cup Event \cup {Data}

ASSUME NucleusAssumption ==
    /\ Services \subseteq Operation
    /\ Liberty \subseteq {"kill", "send"}
    /\ MaxTicks \in Nat /\ MaxData \in Nat
    /\ Load = NucleusLoad

(* The reply each request is answered with.                                *)
Answer == [CREATE |-> "CREATED", TERM |-> "TERMINATED", DOIO |-> "IOSTATUS",
           CLOCKWAIT |-> "TICKED", GETTIME |-> "TIME"]

NoCall == [op |-> "none", arg |-> 0]
Receiving == [op |-> "RECV", arg |-> 0]

(* The two callers of terminate_process.                                   *)
Actor == {"ssi", "nucleus"}
-----------------------------------------------------------------------------
VARIABLES
    p_child,                (* children of each PCB, oldest first           *)
    pcb_blocked_on_device,  (* PCBs linked by p_io, for each device         *)
    pcb_blocked_on_clock,   (* PCBs linked by p_io                          *)
    busy,                   (* devices executing a command                  *)
    ssi,                    (* where the SSI is: pc, the PCB p it works on, *)
                            (* and tmp, a counter it has read               *)
    frame,                  (* terminate_process, for each actor: pc, stack *)
                            (* of the calls' arguments (innermost first),   *)
                            (* was_blocked, and tmp as above                *)
    call                    (* call[p]: the request p has sent to the SSI   *)
                            (* and not been answered, Receiving while it is *)
                            (* blocked for anyone's message, or NoCall      *)

listVars == <<p_child, pcb_blocked_on_device, pcb_blocked_on_clock>>
vars == <<ipcVars, listVars, busy, ssi, frame, call>>

(* The SSI and a nucleus loop work on the lists without a context switch.  *)
keepCpu == <<current_process, cpu, ret>>
keepMsg == <<msg_inbox, msgFree, received>>
-----------------------------------------------------------------------------
(* main(): the SSI and test, with the SSI dispatched first.                *)

NoFrame == [pc |-> "idle", stack |-> <<>>, was_blocked |-> FALSE, tmp |-> 0]

Init ==
    /\ pcbFree = [i \in 1..(MaxProc - 2) |-> test_pcb - i]
    /\ p_parent = [p \in Pcb |-> NULL]
    /\ ready_queue = <<test_pcb>>
    /\ current_process = ssi_pcb_real
    /\ process_count = 2
    /\ softblock_count = 0
    /\ do_io = [p \in Pcb |-> FALSE]
    /\ msg_inbox = [p \in Pcb |-> <<>>]
    /\ msgFree = MaxMsg
    /\ blocked = {}
    /\ reg_a1 = [p \in Pcb |-> ANYMESSAGE]
    /\ received = [p \in Pcb |-> NoMessage]
    /\ ret = DELIVERED
    /\ cpu = "run"
    /\ p_child = [p \in Pcb |-> <<>>]
    /\ pcb_blocked_on_device = [d \in Device |-> <<>>]
    /\ pcb_blocked_on_clock = <<>>
    /\ busy = {}
    /\ ssi = [pc |-> "receive", p |-> NULL, tmp |-> 0]
    /\ frame = [a \in Actor |-> NoFrame]
    /\ call = [p \in Pcb |-> NoCall]
-----------------------------------------------------------------------------
(* The SSI's loop                                                          *)

SsiAt(pc) == Running(ssi_pcb_real) /\ ssi.pc = pc
SsiGoes(pc, p) == ssi' = [pc |-> pc, p |-> p, tmp |-> 0]

(* The message the SSI is serving.                                         *)
Asker == received[ssi_pcb_real].sender
Asked == received[ssi_pcb_real].payload
Serving(op) == SsiAt("dispatch") /\ Asked.op = op

(* A message that reaches a blocked process ends its call.                 *)
EndsCall(dest, sender) ==
    call' = IF isPcbValid(dest) /\ Delivers(dest, sender)
            THEN [call EXCEPT ![dest] = NoCall]
            ELSE call

(* SYSCALL(SENDMESSAGE, dest, load, 0) in ssi.c                            *)
SsiSends(dest, op, arg) ==
    /\ SysSend(ssi_pcb_real, dest, [op |-> op, arg |-> arg])
    /\ EndsCall(dest, ssi_pcb_real)
    /\ UNCHANGED <<listVars, busy, frame>>

SsiReceives ==
    /\ SsiAt("receive")
    /\ SysReceive(ssi_pcb_real, ANYMESSAGE)
    /\ SsiGoes("dispatch", NULL)
    /\ UNCHANGED <<listVars, busy, frame, call>>
-----------------------------------------------------------------------------
(* CREATEPROCESS                                                           *)

(* allocPcb() resets every field; what its inbox held is not freed.        *)
allocPcb(p) ==
    /\ pcbFree # <<>> /\ p = Head(pcbFree)
    /\ pcbFree' = Tail(pcbFree)
    /\ p_parent' = [p_parent EXCEPT ![p] = NULL]
    /\ p_child' = [p_child EXCEPT ![p] = <<>>]
    /\ reg_a1' = [reg_a1 EXCEPT ![p] = ANYMESSAGE]
    /\ msg_inbox' = [msg_inbox EXCEPT ![p] = <<>>]
    /\ received' = [received EXCEPT ![p] = NoMessage]
    /\ do_io' = [do_io EXCEPT ![p] = FALSE]

CreateAllocates ==
    /\ Serving("CREATE")
    /\ \/ /\ pcbFree = <<>>
          /\ SsiGoes("reply", NOPROC)
          /\ UNCHANGED <<pcbFree, p_parent, p_child, reg_a1, msg_inbox, received, do_io>>
       \/ \E p \in Pcb : allocPcb(p) /\ SsiGoes("insertChild", p)
    /\ UNCHANGED <<keepCpu, ready_queue, process_count, softblock_count, msgFree,
                   blocked, pcb_blocked_on_device, pcb_blocked_on_clock, busy,
                   frame, call>>

CreateInsertsChild ==
    /\ SsiAt("insertChild")
    /\ p_parent' = [p_parent EXCEPT ![ssi.p] = Asker]
    /\ p_child' = [p_child EXCEPT ![Asker] = Append(@, ssi.p)]
    /\ SsiGoes("insertReady", ssi.p)
    /\ UNCHANGED <<pcbFree, process_count, msgVars, cpuVars, reg_a1, ret, busy,
                   pcb_blocked_on_device, pcb_blocked_on_clock, frame, call>>

CreateInsertsReady ==
    /\ SsiAt("insertReady")
    /\ ready_queue' = Append(ready_queue, ssi.p)
    /\ SsiGoes("countRead", ssi.p)
    /\ UNCHANGED <<procVars, msgVars, keepCpu, reg_a1, listVars, busy, frame, call>>

(* process_count++ is a load, an addition and a store.                     *)
CreateReadsCount ==
    /\ SsiAt("countRead")
    /\ ssi' = [ssi EXCEPT !.pc = "countWrite", !.tmp = Inc(process_count)]
    /\ UNCHANGED <<ipcVars, listVars, busy, frame, call>>

CreateWritesCount ==
    /\ SsiAt("countWrite")
    /\ process_count' = ssi.tmp
    /\ SsiGoes("reply", ssi.p)
    /\ UNCHANGED <<pcbFree, p_parent, msgVars, cpuVars, reg_a1, ret, listVars,
                   busy, frame, call>>

CreateReplies ==
    /\ SsiAt("reply")
    /\ SsiSends(Asker, "CREATED", ssi.p)
    /\ SsiGoes("receive", NULL)

Create == \/ CreateAllocates \/ CreateInsertsChild \/ CreateInsertsReady
          \/ CreateReadsCount \/ CreateWritesCount \/ CreateReplies
-----------------------------------------------------------------------------
(* terminate_process(), run by the SSI (interruptible) or by the nucleus   *)
(* on a trap (not interruptible).  A frame is what the innermost call is   *)
(* doing; the calls below it wait in their loop over the children.         *)

Acts(a) == IF a = "ssi" THEN Running(ssi_pcb_real) ELSE cpu = "kernel"
TermAt(a, pc) == Acts(a) /\ frame[a].pc = pc
Victim(a) == Head(frame[a].stack)

TermGoes(a, pc) == frame' = [frame EXCEPT ![a].pc = pc]

(* outProcQ() and its kin: the entry found first is unlinked.              *)
Without(q, p) ==
    IF p \in ToSet(q) THEN RemoveAt(q, CHOOSE i \in DOMAIN q : q[i] = p) ELSE q

(* The caller goes on with its children, or terminate_process is over.     *)
Resume(stack) ==
    IF stack = <<>> THEN NoFrame
    ELSE [NoFrame EXCEPT !.pc = "children", !.stack = stack]

(* Faulty variant: isPcbValid is not asked.                                *)
EnterUnchecked(a, p, stack) ==
    /\ frame' = [frame EXCEPT ![a] = [NoFrame EXCEPT !.pc = "outChild",
                                                    !.stack = <<p>> \o stack]]
    /\ cpu' = IF a = "nucleus" THEN "kernel" ELSE cpu

(* A call of terminate_process(p): PANIC for the SSI, nothing for a PCB    *)
(* that is not valid.                                                      *)
Enter(a, p, stack) ==
    /\ frame' = [frame EXCEPT ![a] =
                    IF isPcbValid(p)
                    THEN [NoFrame EXCEPT !.pc = "outChild", !.stack = <<p>> \o stack]
                    ELSE Resume(stack)]
    /\ cpu' = IF p = ssi_pcb_real THEN "panic"
              ELSE IF a = "nucleus" THEN "kernel" ELSE cpu

SsiTerminates ==
    /\ Serving("TERM") \/ Serving("BAD")
    /\ Enter("ssi", IF Asked.op = "BAD" \/ Asked.arg = NULL THEN Asker ELSE Asked.arg,
             <<>>)
    /\ SsiGoes("terminate", NULL)
    /\ UNCHANGED <<procVars, msgVars, ready_queue, current_process, reg_a1, ret,
                   listVars, busy, call>>

(* outChild does not clear p_parent.                                       *)
TermOutChild(a) ==
    /\ TermAt(a, "outChild")
    /\ LET prnt == p_parent[Victim(a)] IN
       p_child' = IF prnt = NULL THEN p_child
                  ELSE [p_child EXCEPT ![prnt] = Without(@, Victim(a))]
    /\ TermGoes(a, "outReady")
    /\ UNCHANGED <<ipcVars, pcb_blocked_on_device, pcb_blocked_on_clock, busy,
                   ssi, call>>

(* Faulty variant: the victim stays in the ready queue.                    *)
TermKeepsReady(a) ==
    /\ TermAt(a, "outReady") /\ TermGoes(a, "outIO")
    /\ UNCHANGED <<ipcVars, listVars, busy, ssi, call>>

TermOutReady(a) ==
    /\ TermAt(a, "outReady")
    /\ ready_queue' = Without(ready_queue, Victim(a))
    /\ TermGoes(a, "outIO")
    /\ UNCHANGED <<procVars, msgVars, keepCpu, reg_a1, listVars, busy, ssi, call>>

(* Faulty variant: the device queues are not searched.                     *)
TermKeepsIO(a) ==
    /\ TermAt(a, "outIO") /\ TermGoes(a, "countRead")
    /\ UNCHANGED <<ipcVars, listVars, busy, ssi, call>>

(* outProcQForIO on every device queue; one step, because only the SSI     *)
(* adds to them.  The clock queue is searched with outProcQ, which takes   *)
(* its p_io links for p_list links: no entry ever compares equal to p, and *)
(* the queue stays as it is.                                               *)
TermOutIO(a) ==
    /\ TermAt(a, "outIO")
    /\ frame' = [frame EXCEPT
           ![a].pc = "countRead",
           ![a].was_blocked = \E d \in Device :
                                 Victim(a) \in ToSet(pcb_blocked_on_device[d])]
    /\ pcb_blocked_on_device' =
           [d \in Device |-> Without(pcb_blocked_on_device[d], Victim(a))]
    /\ UNCHANGED <<ipcVars, p_child, pcb_blocked_on_clock, busy, ssi, call>>

(* Faulty variant: process_count is left alone.                            *)
TermForgetsCount(a) ==
    /\ TermAt(a, "countRead")
    /\ frame' = [frame EXCEPT ![a].pc = "countWrite", ![a].tmp = process_count]
    /\ UNCHANGED <<ipcVars, listVars, busy, ssi, call>>

(* process_count--                                                         *)
TermReadsCount(a) ==
    /\ TermAt(a, "countRead")
    /\ frame' = [frame EXCEPT ![a].pc = "countWrite", ![a].tmp = Dec(process_count)]
    /\ UNCHANGED <<ipcVars, listVars, busy, ssi, call>>

TermWritesCount(a) ==
    /\ TermAt(a, "countWrite")
    /\ process_count' = frame[a].tmp
    /\ TermGoes(a, IF frame[a].was_blocked THEN "softRead" ELSE "children")
    /\ UNCHANGED <<pcbFree, p_parent, msgVars, cpuVars, reg_a1, ret, listVars,
                   busy, ssi, call>>

(* Faulty variant: do_io is read as clear.                                 *)
TermForgetsSoftblock(a) ==
    /\ TermAt(a, "softRead")
    /\ frame' = [frame EXCEPT ![a].pc = "softWrite", ![a].tmp = softblock_count]
    /\ UNCHANGED <<ipcVars, listVars, busy, ssi, call>>

(* softblock_count -= p->do_io                                             *)
TermReadsSoftblock(a) ==
    /\ TermAt(a, "softRead")
    /\ frame' = [frame EXCEPT
           ![a].pc = "softWrite",
           ![a].tmp = IF do_io[Victim(a)] THEN Dec(softblock_count)
                      ELSE softblock_count]
    /\ UNCHANGED <<ipcVars, listVars, busy, ssi, call>>

TermWritesSoftblock(a) ==
    /\ TermAt(a, "softWrite")
    /\ softblock_count' = frame[a].tmp
    /\ TermGoes(a, "children")
    /\ UNCHANGED <<procVars, msg_inbox, msgFree, blocked, received, do_io,
                   cpuVars, reg_a1, ret, listVars, busy, ssi, call>>

(* while (!emptyChild(p)) terminate_process(first child)                   *)
TermNextChild(a) ==
    /\ TermAt(a, "children") /\ p_child[Victim(a)] # <<>>
    /\ Enter(a, Head(p_child[Victim(a)]), frame[a].stack)
    /\ UNCHANGED <<procVars, msgVars, ready_queue, current_process, reg_a1, ret,
                   listVars, busy, ssi, call>>

(* Faulty variant: the PCB is freed with children left.                    *)
TermFreesEarly(a) ==
    /\ TermAt(a, "children")
    /\ pcbFree' = <<Victim(a)>> \o pcbFree
    /\ blocked' = blocked \ {Victim(a)}
    /\ call' = [call EXCEPT ![Victim(a)] = NoCall]
    /\ frame' = [frame EXCEPT ![a] = Resume(Tail(frame[a].stack))]
    /\ UNCHANGED <<p_parent, process_count, keepMsg, do_io, softblock_count,
                   cpuVars, reg_a1, ret, listVars, busy, ssi>>

(* freePcb(p)                                                              *)
TermFrees(a) ==
    /\ TermAt(a, "children") /\ p_child[Victim(a)] = <<>>
    /\ pcbFree' = <<Victim(a)>> \o pcbFree
    /\ blocked' = blocked \ {Victim(a)}
    /\ call' = [call EXCEPT ![Victim(a)] = NoCall]
    /\ frame' = [frame EXCEPT ![a] = Resume(Tail(frame[a].stack))]
    /\ UNCHANGED <<p_parent, process_count, keepMsg, do_io, softblock_count,
                   cpuVars, reg_a1, ret, listVars, busy, ssi>>

(* The SSI answers a TERMPROCESS, even if its sender is gone, and goes on  *)
(* without an answer after an unknown service code.                        *)
TermReplies ==
    /\ SsiAt("terminate") /\ frame["ssi"] = NoFrame
    /\ \/ Asked.op = "TERM" /\ SsiSends(Asker, "TERMINATED", 0)
       \/ Asked.op = "BAD" /\ UNCHANGED <<ipcVars, listVars, busy, frame, call>>
    /\ SsiGoes("receive", NULL)

(* pass_up_or_die() after the death of the current process.                *)
TrapEnds ==
    /\ cpu = "kernel" /\ frame["nucleus"] = NoFrame
    /\ UNCHANGED <<procVars, msgVars, reg_a1, ret, listVars, busy, ssi, frame, call>>
    /\ Scheduler(NULL, ready_queue)

Terminate(a) ==
    \/ TermOutChild(a) \/ TermOutReady(a) \/ TermOutIO(a)
    \/ TermReadsCount(a) \/ TermWritesCount(a)
    \/ TermReadsSoftblock(a) \/ TermWritesSoftblock(a)
    \/ TermNextChild(a) \/ TermFrees(a)
-----------------------------------------------------------------------------
(* DOIO, CLOCKWAIT and the answers to their interrupts; GETTIME            *)

(* do_io() marks the asker, moves it to the end of the device's queue, and *)
(* writes the command register.                                            *)
DoIoQueues ==
    /\ Serving("DOIO")
    /\ do_io' = [do_io EXCEPT ![Asker] = TRUE]
    /\ pcb_blocked_on_device' =
           [pcb_blocked_on_device EXCEPT
               ![Asked.arg] = Append(Without(@, Asker), Asker)]
    /\ SsiGoes("command", NULL)
    /\ UNCHANGED <<procVars, keepMsg, blocked, softblock_count, cpuVars, reg_a1, ret,
                   p_child, pcb_blocked_on_clock, busy, frame, call>>

(* Faulty variant: the command register is not written.                    *)
DoIoCommandsNothing ==
    /\ SsiAt("command") /\ SsiGoes("receive", NULL)
    /\ UNCHANGED <<ipcVars, listVars, busy, frame, call>>

DoIoCommands ==
    /\ SsiAt("command")
    /\ busy' = busy \cup {Asked.arg}
    /\ SsiGoes("receive", NULL)
    /\ UNCHANGED <<ipcVars, listVars, frame, call>>

(* Faulty variant: headProcQForIO instead of removeProcQForIO.             *)
DoIoAnswersPeeking ==
    /\ Serving("IODONE")
    /\ LET q == pcb_blocked_on_device[Asked.arg] IN
       IF q = <<>> THEN SsiGoes("receive", NULL) ELSE SsiGoes("answer", Head(q))
    /\ UNCHANGED <<ipcVars, listVars, busy, frame, call>>

(* answer_do_io(): the device's interrupt is for the head of its queue;    *)
(* nothing is done if the queue is empty.                                  *)
DoIoAnswers ==
    /\ Serving("IODONE")
    /\ LET q == pcb_blocked_on_device[Asked.arg] IN
       \/ /\ q = <<>>
          /\ SsiGoes("receive", NULL)
          /\ UNCHANGED pcb_blocked_on_device
       \/ /\ q # <<>>
          /\ SsiGoes("answer", Head(q))
          /\ pcb_blocked_on_device' =
                 [pcb_blocked_on_device EXCEPT ![Asked.arg] = Tail(@)]
    /\ UNCHANGED <<ipcVars, p_child, pcb_blocked_on_clock, busy, frame, call>>

DoIoReplies ==
    /\ SsiAt("answer")
    /\ SsiSends(ssi.p, "IOSTATUS", Asked.arg)
    /\ SsiGoes("receive", NULL)

WaitForClock ==
    /\ Serving("CLOCKWAIT")
    /\ pcb_blocked_on_clock' = Append(pcb_blocked_on_clock, Asker)
    /\ SsiGoes("receive", NULL)
    /\ UNCHANGED <<ipcVars, p_child, pcb_blocked_on_device, busy, frame, call>>

(* Faulty variant: the removed processes are not answered.                 *)
ClockForgets ==
    /\ Serving("TICK")
    /\ SsiGoes("receive", NULL)
    /\ pcb_blocked_on_clock' = <<>>
    /\ UNCHANGED <<ipcVars, p_child, pcb_blocked_on_device, busy, frame, call>>

(* answer_wait_for_clock() empties the queue, one removal and one SYS1 at  *)
(* a time.                                                                 *)
ClockAnswers ==
    /\ Serving("TICK")
    /\ \/ /\ pcb_blocked_on_clock = <<>>
          /\ SsiGoes("receive", NULL)
          /\ UNCHANGED pcb_blocked_on_clock
       \/ /\ pcb_blocked_on_clock # <<>>
          /\ SsiGoes("tick", Head(pcb_blocked_on_clock))
          /\ pcb_blocked_on_clock' = Tail(pcb_blocked_on_clock)
    /\ UNCHANGED <<ipcVars, p_child, pcb_blocked_on_device, busy, frame, call>>

ClockReplies ==
    /\ SsiAt("tick")
    /\ SsiSends(ssi.p, "TICKED", 0)
    /\ SsiGoes("dispatch", NULL)

GetTimeReplies ==
    /\ Serving("GETTIME")
    /\ SsiSends(Asker, "TIME", 0)
    /\ SsiGoes("receive", NULL)

SsiStep ==
    \/ SsiReceives \/ Create \/ SsiTerminates \/ Terminate("ssi") \/ TermReplies
    \/ DoIoQueues \/ DoIoCommands \/ DoIoAnswers \/ DoIoReplies
    \/ WaitForClock \/ ClockAnswers \/ ClockReplies \/ GetTimeReplies
-----------------------------------------------------------------------------
(* Programs.  A process asks the SSI for one service at a time: it sends   *)
(* the request and receives the answer, as p_create and p_term of phase3   *)
(* do (but not the printer loop of sst.c, which sends two DOIO requests    *)
(* and receives once).  Between calls it does what the discipline allows.  *)

Children(p) == ToSet(p_child[p])

(* PCBs the SSI has allocated and not yet made ready, and PCBs that a      *)
(* terminate_process in progress has not yet freed.                        *)
UnderConstruction == IF ssi.pc \in {"insertChild", "insertReady"} THEN {ssi.p} ELSE {}
Dying == UNION {ToSet(frame[a].stack) : a \in Actor}

(* The smallest set that holds p's children and theirs.                    *)
Progeny(p) ==
    {q \in Pcb : \A S \in SUBSET Pcb :
                     (\A r \in S \cup {p} : Children(r) \subseteq S) => q \in S}

(* q waits for a message of anyone, as mutex_proc and the parked children  *)
(* of p2test do, and so does all its progeny.                              *)
AtRest(q) == \A r \in {q} \cup Progeny(q) : r \in blocked /\ call[r] = Receiving

(* The discipline of the programs in phase3: a process ends with its inbox *)
(* empty and its progeny at rest, it terminates only children at rest, and *)
(* it sends messages to its parent and to children that are not ending.    *)
(* With "kill" a process terminates a child at any time, with "send" it    *)
(* sends to any process it may have heard of.                              *)
MayDie(p) == msg_inbox[p] = <<>> /\ \A q \in Children(p) : AtRest(q)

MayTerminate(p, q) ==
    q \in Children(p) /\ ("kill" \in Liberty \/ AtRest(q))

(* A trap may find the progeny at rest or waiting for a device.            *)
AwaitsDevice(q) ==
    q \in blocked /\ \E d \in Device : q \in ToSet(pcb_blocked_on_device[d])

MayTrap(p) ==
    /\ msg_inbox[p] = <<>>
    /\ \A q \in Progeny(p) : AtRest(q) \/ AwaitsDevice(q)

Ending(q) == call[q].op = "BAD" \/ (call[q].op = "TERM" /\ call[q].arg = NULL)

MaySend(p, to) ==
    /\ Cardinality({i \in DOMAIN msg_inbox[to] : msg_inbox[to][i].payload = Data})
           < MaxData
    /\ \/ "send" \in Liberty /\ to \notin {p, ssi_pcb_real} \cup UnderConstruction
       \/ to \in Children(p) \cup {p_parent[p]} /\ ~Ending(to)

(* The requests p may make.  A device has one user at a time.  TERM of an  *)
(* address that is no PCB's is answered and ignored.                       *)
MayRequest(p, req) ==
    /\ req.op \in Services
    /\ \/ req.op \in {"CREATE", "CLOCKWAIT", "GETTIME"} /\ req.arg = 0
       \/ /\ req.op = "DOIO" /\ req.arg \in Device
          /\ \A q \in Pcb \ {p} : call[q] # req
       \/ req.op = "TERM" /\ req.arg = NULL /\ MayDie(p)
       \/ req.op = "TERM" /\ req.arg = SSI_FAKE_ADDR
       \/ req.op = "TERM" /\ MayTerminate(p, req.arg)
       \/ req.op = "BAD" /\ req.arg = 0 /\ MayDie(p)

Client(p) == Running(p) /\ p # ssi_pcb_real
clientKeeps == <<listVars, busy, ssi, frame>>

Requests(p, req) ==
    /\ Client(p) /\ call[p] = NoCall /\ MayRequest(p, req)
    /\ SysSend(p, SSI_FAKE_ADDR, req)
    /\ call' = [call EXCEPT ![p] = req]
    /\ UNCHANGED clientKeeps

(* The answer may have come already.                                       *)
Awaits(p) ==
    /\ Client(p) /\ call[p].op \in SsiOp
    /\ SysReceive(p, SSI_FAKE_ADDR)
    /\ call' = IF Matching(p, SSI_FAKE_ADDR) = {} THEN call
               ELSE [call EXCEPT ![p] = NoCall]
    /\ UNCHANGED clientKeeps

Receives(p) ==
    /\ "RECV" \in Services
    /\ Client(p) /\ call[p] = NoCall
    /\ SysReceive(p, ANYMESSAGE)
    /\ call' = [call EXCEPT ![p] = IF Matching(p, ANYMESSAGE) = {} THEN Receiving
                                   ELSE NoCall]
    /\ UNCHANGED clientKeeps

Sends(p, to) ==
    /\ "DATA" \in Services
    /\ Client(p) /\ call[p] = NoCall
    /\ LET dest == Destination(p, to) IN
       /\ dest # NULL => MaySend(p, dest)
       /\ EndsCall(dest, p)
    /\ SysSend(p, to, Data)
    /\ UNCHANGED clientKeeps

(* A trap of a process without support structure: pass_up_or_die kills it. *)
Traps(p) ==
    /\ "TRAP" \in Services
    /\ Client(p) /\ call[p] = NoCall /\ MayTrap(p)
    /\ Enter("nucleus", p, <<>>)
    /\ UNCHANGED <<procVars, msgVars, ready_queue, current_process, reg_a1, ret,
                   listVars, busy, ssi, call>>

ClientStep(p) ==
    \/ \E req \in [op : Services \cap SsiOp, arg : Address \cup Device] :
           Requests(p, req)
    \/ Awaits(p) \/ Receives(p) \/ Traps(p)
    \/ \E to \in Pcb \cup {PARENT} : Sends(p, to)
-----------------------------------------------------------------------------
(* Devices and the interval timer                                          *)

DeviceInterrupt(d) ==
    /\ d \in busy
    /\ Interrupt([op |-> "IODONE", arg |-> d])
    /\ busy' = busy \ {d}
    /\ UNCHANGED <<listVars, ssi, frame, call>>

PendingTicks ==
    {i \in DOMAIN msg_inbox[ssi_pcb_real] :
         msg_inbox[ssi_pcb_real][i].payload.op = "TICK"}

ClockInterrupt ==
    /\ Cardinality(PendingTicks) < MaxTicks
    /\ Interrupt([op |-> "TICK", arg |-> 0])
    /\ UNCHANGED <<listVars, busy, ssi, frame, call>>

SliceEnds == PltInterrupt /\ UNCHANGED <<listVars, busy, ssi, frame, call>>

Halted == Stopped /\ UNCHANGED <<listVars, busy, ssi, frame, call>>
-----------------------------------------------------------------------------
Next ==
    \/ SsiStep
    \/ \E p \in Pcb : ClientStep(p)
    \/ Terminate("nucleus") \/ TrapEnds
    \/ \E d \in Device : DeviceInterrupt(d)
    \/ ClockInterrupt \/ SliceEnds \/ Halted

Spec == Init /\ [][Next]_vars

(* Whenever a process is dispatched it gets through at least one system    *)
(* call or list operation before its time slice ends, time slices end, and *)
(* devices and the interval timer deliver their interrupts.                *)
Fairness ==
    /\ SF_vars(SsiStep)
    /\ \A p \in Pcb \ {ssi_pcb_real} : SF_vars(Awaits(p))
    /\ WF_vars(Terminate("nucleus") \/ TrapEnds)
    /\ \A d \in Device : WF_vars(DeviceInterrupt(d))
    /\ WF_vars(ClockInterrupt) /\ WF_vars(SliceEnds)

FairSpec == Spec /\ Fairness
-----------------------------------------------------------------------------
(* Type invariant of the variables this module adds.                       *)
NucleusTypeOK ==
    /\ TypeOK
    /\ p_child \in [Pcb -> Seq(Pcb)]
    /\ pcb_blocked_on_device \in [Device -> Seq(Pcb)]
    /\ pcb_blocked_on_clock \in Seq(Pcb)
    /\ busy \subseteq Device
    /\ ssi \in [pc : {"receive", "dispatch", "insertChild", "insertReady",
                      "countRead", "countWrite", "reply", "terminate", "command",
                      "answer", "tick"},
                p : Pcb \cup {NULL, NOPROC},
                tmp : 0..(CountMod - 1)]
    /\ frame \in [Actor -> [pc : {"idle", "outChild", "outReady", "outIO", "countRead",
                                  "countWrite", "softRead", "softWrite", "children"},
                            stack : Seq(Pcb),
                            was_blocked : BOOLEAN,
                            tmp : 0..(CountMod - 1)]]
    /\ call \in [Pcb -> Request \cup {NoCall, Receiving}]

(* While the nucleus kills the running process it is still current.        *)
KilledByTrap == IF cpu = "kernel" THEN {current_process} ELSE {}

(* The place of every PCB: free, under construction, dying, or exactly one *)
(* of ready, blocked and running.  In particular a terminated process is   *)
(* gone from the ready queue (utils.c:8-10), a PCB is never linked into    *)
(* two p_list queues, and no process is forgotten.                         *)
EveryPcbPlaced ==
    /\ PlacedOnce
    /\ IsInjective(pcbFree)
    /\ Placed \ KilledByTrap \subseteq Live
    /\ UnderConstruction \cap Placed = {}
    /\ Live \ (UnderConstruction \cup Dying) \subseteq Placed

(* SSI requests in transit: in the SSI's inbox, being served, in a queue,  *)
(* about to be answered, or answered in the asker's inbox.                 *)
InInbox(p) ==
    {i \in DOMAIN msg_inbox[ssi_pcb_real] : msg_inbox[ssi_pcb_real][i].sender = p}
BeingServed(p) ==
    ssi.pc \in {"dispatch", "insertChild", "insertReady", "countRead", "countWrite",
                "reply", "terminate"} /\ Asker = p
QueuedFor(p) ==
    {d \in Device : p \in ToSet(pcb_blocked_on_device[d])}
OnClock(p) == {i \in DOMAIN pcb_blocked_on_clock : pcb_blocked_on_clock[i] = p}
BeingAnswered(p) == ssi.pc \in {"answer", "tick"} /\ ssi.p = p
Answered(p) ==
    {i \in DOMAIN msg_inbox[p] : msg_inbox[p][i].sender = SSI_FAKE_ADDR}

Count(b) == IF b THEN 1 ELSE 0
Stages(p) == Cardinality(InInbox(p)) + Count(BeingServed(p))
             + Cardinality(QueuedFor(p)) + Cardinality(OnClock(p))
             + Count(BeingAnswered(p)) + Cardinality(Answered(p))

(* A request is neither lost nor served twice: while a process has one it  *)
(* is at exactly one stage, and otherwise nothing of an old request is     *)
(* left anywhere, in no queue and no inbox.                                *)
RequestAtOneStage ==
    \A p \in Live \ (Dying \cup {ssi_pcb_real}) :
        Stages(p) = Count(call[p].op \in SsiOp)

(* The answer a process receives from the SSI is the answer to the request *)
(* it has outstanding, for I/O the one of the device it asked for.         *)
AnswersMatch ==
    [][\A p \in Pcb \ {ssi_pcb_real} :
          LET answer == received'[p].payload IN
          received'[p] # received[p] /\ received'[p].sender = SSI_FAKE_ADDR =>
              /\ call[p].op \in SsiOp /\ answer.op = Answer[call[p].op]
              /\ answer.op = "IOSTATUS" => answer.arg = call[p].arg]_vars

(* The processes blocked on an I/O or clock request (initial.c:11).        *)
SoftBlocked == {p \in blocked : call[p].op \in {"DOIO", "CLOCKWAIT"}}

(* softblock_count is their number, but while a PCB is being terminated.   *)
SoftblockCount ==
    (\A a \in Actor : frame[a] = NoFrame) =>
        softblock_count = Cardinality(SoftBlocked)

(* process_count is the number of started, not yet terminated processes    *)
(* (initial.c:8), whenever the SSI and the nucleus are not about to change *)
(* it.                                                                     *)
CountingDone ==
    /\ \A a \in Actor : frame[a] = NoFrame
    /\ ssi.pc \notin {"insertChild", "insertReady", "countRead", "countWrite"}

ProcessCount == CountingDone => process_count = Cardinality(Live)

(* Parent and child links agree: a live process that is not on its way in  *)
(* or out has a live parent that lists it once; who is listed is live and  *)
(* names the parent.                                                       *)
FamilyTree ==
    /\ \A p \in Live : \A q \in Children(p) : isPcbValid(q) /\ p_parent[q] = p
    /\ \A p \in Live : IsInjective(p_child[p])
    /\ \A q \in Live \ (UnderConstruction \cup Dying) :
           p_parent[q] # NULL => isPcbValid(p_parent[q]) /\ q \in Children(p_parent[q])

(* The scheduler enters WAIT only if an interrupt will come that makes a   *)
(* process ready: a device is at work for the head of its queue, or a      *)
(* process waits for the clock.                                            *)
WaitEnds ==
    cpu = "wait" =>
        \/ pcb_blocked_on_clock # <<>>
        \/ \E d \in busy : pcb_blocked_on_device[d] # <<>>

(* PANIC is a deadlock: everybody waits for a message of somebody else,    *)
(* and no request is outstanding, to a device, to the clock or to the SSI. *)
(* The scheduler judges by softblock_count, which follows do_io; here it   *)
(* is the requests that count.                                             *)
PanicIsDeadlock ==
    cpu = "panic" =>
        Live = blocked /\ \A p \in Live \ {ssi_pcb_real} : call[p] = Receiving

(* HALT comes when the SSI alone is left.                                  *)
HaltAtTheEnd == cpu = "halt" => Live \ Dying = {ssi_pcb_real}

(* Every request is answered, or its sender terminates, or the machine     *)
(* halts (and then HaltAtTheEnd holds).                                    *)
RequestsAnswered ==
    \A p \in Pcb \ {ssi_pcb_real} :
        (call[p].op \in SsiOp) ~> (call[p] = NoCall \/ cpu = "halt")
-----------------------------------------------------------------------------
(* What comments in the code say and some programs can break.              *)

(* terminate_process "removes the process from the ready queue ... and     *)
(* frees the process control block (PCB) memory" (utils.c:8-10).           *)
OutOfReady(a) ==
    IF frame[a].pc \in {"idle", "outChild", "outReady"} THEN {} ELSE {Victim(a)}

TerminatedNotReady ==
    \A a \in Actor : (OutOfReady(a) \cup ToSet(pcbFree)) \cap Ready = {}

(* "If the process is terminated, do nothing" (ssi.c:203-204): no device   *)
(* queue holds a terminated process.  It holds where processes keep the    *)
(* discipline.                                                             *)
DeviceQueuesLive ==
    \A d \in Device : ToSet(pcb_blocked_on_device[d]) \cap ToSet(pcbFree) = {}
=============================================================================
