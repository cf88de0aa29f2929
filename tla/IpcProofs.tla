----------------------------- MODULE IpcProofs ------------------------------
(***************************************************************************)
(* Proofs about IpcSpec for every number of PCBs, processes and messages   *)
(* and every set of payloads: the type invariant, that every process is in *)
(* exactly one place, that no wakeup is lost, that softblock_count is      *)
(* exact, that PANIC means deadlock, that SYS1 and SYS2 implement          *)
(* Channels, and that no message leaks out of the pool.                    *)
(*                                                                         *)
(* All of them rest on one inductive invariant, IInv.  Each handler ends   *)
(* in scheduler(), so a step is proved in two parts: what the handler      *)
(* does, up to the arguments it calls scheduler() with, and what           *)
(* scheduler() makes of them (SchedulerPlaces, HandlerPlaces).             *)
(***************************************************************************)
EXTENDS Ipc, DataLemmas

(* The numbers of PCBs and addresses, as far as the proofs need them.      *)
LEMMA Addresses ==
    /\ NULL \notin Pcb /\ Alive \subseteq Pcb
    /\ ssi_pcb_real \in Pcb /\ ssi_pcb_real \in Alive
    /\ test_pcb \in Pcb /\ test_pcb \in Alive /\ test_pcb # ssi_pcb_real
    /\ \A p \in Pcb : Alias(p) \in Sender
    /\ INTERRUPT_HANDLER_MSG \notin Pcb
    /\ INTERRUPT_HANDLER_MSG \in Sender /\ SSI_FAKE_ADDR \in Sender
    /\ Alias(INTERRUPT_HANDLER_MSG) = INTERRUPT_HANDLER_MSG
    /\ Pcb \ {ssi_pcb_real} \subseteq Sender
    /\ ANYMESSAGE \notin Sender /\ SCRATCH \notin Sender \cup {ANYMESSAGE}
BY IpcAssumption
   DEF NULL, Pcb, Alive, ssi_pcb_real, test_pcb, Alias, Sender, SSI_FAKE_ADDR,
       INTERRUPT_HANDLER_MSG, ANYMESSAGE, SCRATCH
-----------------------------------------------------------------------------
(* What scheduler() does with the process and the ready queue it is called *)
(* with: nobody is lost and nobody is in two places.                       *)
LEMMA SchedulerPlaces ==
    ASSUME NEW cur \in Pcb \cup {NULL}, NEW ready \in Seq(Pcb),
           Once(ready), cur \notin ToSet(ready),
           Scheduler(cur, ready)
    PROVE  /\ ready_queue' \in Seq(Pcb)
           /\ current_process' \in Pcb \cup {NULL}
           /\ cpu' \in {"run", "wait", "halt", "panic"}
           /\ cpu' = "run" <=> current_process' # NULL
           /\ Once(ready_queue')
           /\ current_process' \notin ToSet(ready_queue')
           /\ (ToSet(ready_queue') \cup {current_process'}) \ {NULL}
                  = (ToSet(ready) \cup {cur}) \ {NULL}
<1>1. CASE cur # NULL /\ cpu' = "run" /\ current_process' = cur
               /\ ready_queue' = ready
  BY <1>1
<1>2. CASE cur = NULL /\ (\E kind \in {"halt", "wait", "panic"} : Idle(kind, ready))
  BY <1>2 DEF Idle
<1>3. CASE /\ cur = NULL /\ ready # <<>>
           /\ cpu' = "run" /\ current_process' = Head(ready)
           /\ ready_queue' = Tail(ready)
  <2>1. /\ Head(ready) \in Pcb /\ Tail(ready) \in Seq(Pcb)
        /\ Head(ready) \in ToSet(ready)
        /\ ToSet(Tail(ready)) = ToSet(ready) \ {Head(ready)}
        /\ Once(Tail(ready))
    BY <1>3, TailRange
  <2> QED BY <1>3, <2>1, Addresses
<1> QED BY <1>1, <1>2, <1>3 DEF Scheduler
-----------------------------------------------------------------------------
(* The inductive invariant.  Beyond TypeOK and Placement it says that the  *)
(* CPU runs exactly when there is a current process, and that the SSI is   *)
(* never freed: an interrupt finds it, and Placement applies to it.        *)
CurrentRuns ==
    /\ cpu = "run" <=> current_process # NULL
    /\ cpu # "kernel"
    /\ ssi_pcb_real \in Live

IInv == TypeOK /\ Placement /\ CurrentRuns

LEMMA InitIInv == IpcInit => IInv
<1> SUFFICES ASSUME IpcInit PROVE IInv
  OBVIOUS
<1> DEFINE free == MaxProc - Population
           rest == Population - 2
<1>1. free \in Nat /\ rest \in Nat
  BY IpcAssumption
<1>2. /\ pcbFree \in Seq(Pcb) /\ DOMAIN pcbFree = 1..free
      /\ \A i \in 1..free : pcbFree[i] = MaxProc + 3 - Population - i
  <2>1. pcbFree \in [1..free -> Pcb]
    BY <1>1, IpcAssumption DEF IpcInit, Pcb
  <2> QED BY <1>1, <2>1, IpcAssumption DEF IpcInit
<1>3. /\ ready_queue \in Seq(Pcb) /\ DOMAIN ready_queue = 1..rest
      /\ \A i \in 1..rest : ready_queue[i] = test_pcb - i
  <2>1. ready_queue \in [1..rest -> Pcb]
    BY <1>1, IpcAssumption DEF IpcInit, Pcb, test_pcb
  <2> QED BY <1>1, <2>1, IpcAssumption DEF IpcInit
<1>4. TypeOK
  <2>1. p_parent \in [Pcb -> Pcb \cup {NULL}]
    BY Addresses DEF IpcInit
  <2>2. process_count \in 0..(CountMod - 1) /\ softblock_count \in 0..(CountMod - 1)
    BY IpcAssumption DEF IpcInit
  <2>3. msg_inbox \in [Pcb -> Seq(Message)]
    BY EmptySeq DEF IpcInit
  <2> QED BY <1>2, <1>3, <2>1, <2>2, <2>3, Addresses, IpcAssumption
          DEF IpcInit, TypeOK
<1>5. ToSet(pcbFree) = Pcb \ Alive
  <2>1. ASSUME NEW p \in Pcb \ Alive PROVE p \in ToSet(pcbFree)
    <3>1. MaxProc + 3 - Population - p \in 1..free
      BY <2>1, IpcAssumption DEF Pcb, Alive
    <3>2. pcbFree[MaxProc + 3 - Population - p] = p
      BY <1>2, <3>1, <2>1, IpcAssumption DEF Pcb
    <3> QED BY <1>2, <3>1, <3>2 DEF ToSet
  <2>2. \A i \in 1..free : pcbFree[i] \in Pcb \ Alive
    BY <1>1, <1>2, IpcAssumption DEF Pcb, Alive
  <2> QED BY <1>2, <2>1, <2>2 DEF ToSet
<1>6. Ready = Alive \ {ssi_pcb_real, test_pcb}
  <2>1. ASSUME NEW p \in Alive \ {ssi_pcb_real, test_pcb} PROVE p \in Ready
    <3>1. test_pcb - p \in 1..rest
      BY <2>1, IpcAssumption DEF Alive, test_pcb, ssi_pcb_real
    <3>2. ready_queue[test_pcb - p] = p
      BY <1>3, <3>1, <2>1, IpcAssumption DEF Alive, test_pcb
    <3> QED BY <1>3, <3>1, <3>2 DEF Ready, ToSet
  <2>2. \A i \in 1..rest : ready_queue[i] \in Alive \ {ssi_pcb_real, test_pcb}
    BY <1>1, <1>3, IpcAssumption DEF Alive, test_pcb, ssi_pcb_real
  <2> QED BY <1>3, <2>1, <2>2 DEF Ready, ToSet
<1>7. ReadyOnce
  BY <1>1, <1>3, IpcAssumption DEF ReadyOnce, test_pcb
<1>8. Live = Alive
  BY <1>5, Addresses DEF Live
<1> QED BY <1>4, <1>6, <1>7, <1>8, Addresses
        DEF IpcInit, IInv, CurrentRuns, Placement, PlacedOnce, Placed
-----------------------------------------------------------------------------
(* A handler that calls scheduler() with the processes that are not        *)
(* blocked leaves every process in one place.                              *)
LEMMA HandlerPlaces ==
    ASSUME IInv,
           NEW cur \in Pcb \cup {NULL}, NEW ready \in Seq(Pcb),
           Once(ready), cur \notin ToSet(ready),
           Scheduler(cur, ready), UNCHANGED procVars,
           blocked' \subseteq Live,
           (ToSet(ready) \cup {cur}) \ {NULL} = Live \ blocked'
    PROVE  /\ Placement' /\ CurrentRuns'
           /\ ready_queue' \in Seq(Pcb)
           /\ current_process' \in Pcb \cup {NULL}
           /\ cpu' \in {"run", "wait", "halt", "panic"}
<1>1. Live' = Live /\ NULL \notin Live
  BY Addresses DEF procVars, Live
<1>2. /\ ready_queue' \in Seq(Pcb)
      /\ current_process' \in Pcb \cup {NULL}
      /\ cpu' \in {"run", "wait", "halt", "panic"}
      /\ cpu' = "run" <=> current_process' # NULL
      /\ Once(ready_queue')
      /\ current_process' \notin ToSet(ready_queue')
      /\ (ToSet(ready_queue') \cup {current_process'}) \ {NULL}
             = (ToSet(ready) \cup {cur}) \ {NULL}
  BY SchedulerPlaces
<1>3. ReadyOnce' /\ Ready' = ToSet(ready_queue')
  BY <1>2 DEF Once, ReadyOnce, Ready
<1>4. NULL \notin ToSet(ready_queue')
  BY <1>2, Addresses, ElementOfSeq, LenProperties DEF ToSet
<1>5. Placement'
  BY <1>1, <1>2, <1>3, <1>4 DEF Placement, PlacedOnce, Placed
<1>6. CurrentRuns'
  BY <1>1, <1>2 DEF IInv, CurrentRuns
<1> QED BY <1>2, <1>5, <1>6

(* What send_message() does to a valid dest: it is woken if it was blocked *)
(* and the pool was not empty, and the handler may go to the scheduler.    *)
LEMMA SendPlaces ==
    ASSUME IInv, NEW dest \in Live, NEW load \in Load,
           NEW sender \in Pcb \cup {INTERRUPT_HANDLER_MSG},
           SendMessage(dest, load, sender)
    PROVE  LET ready == ReadyAfter(dest, sender) IN
           /\ ready \in Seq(Pcb) /\ Once(ready)
           /\ current_process \notin ToSet(ready)
           /\ blocked' = IF Delivers(dest, sender) THEN blocked \ {dest} ELSE blocked
           /\ (ToSet(ready) \cup {current_process}) \ {NULL} = Live \ blocked'
           /\ Delivers(dest, sender) => dest \in blocked
<1>1. /\ ready_queue \in Seq(Pcb) /\ Once(ready_queue) /\ Live \subseteq Pcb
      /\ current_process \notin Ready /\ NULL \notin Live
      /\ Ready = ToSet(ready_queue)
      /\ (Ready \cup blocked \cup {current_process}) \ {NULL} = Live
      /\ blocked \cap (Ready \cup {current_process}) = {} /\ blocked \subseteq Pcb
  BY Addresses DEF IInv, TypeOK, Placement, PlacedOnce, Placed, ReadyOnce, Once, Ready, Live
<1>2. CASE Delivers(dest, sender)
  <2>1. dest \notin Ready /\ dest # current_process /\ msgFree > 0
    BY <1>2 DEF Delivers, Wakes
  <2>2. blocked' = blocked \ {dest}
    BY <1>2, <2>1 DEF SendMessage, SendFails, SendDelivers, SendQueues, Delivers
  <2>3. ReadyAfter(dest, sender) = Append(ready_queue, dest)
    BY <1>2 DEF ReadyAfter
  <2>4. /\ Append(ready_queue, dest) \in Seq(Pcb)
        /\ ToSet(Append(ready_queue, dest)) = Ready \cup {dest}
        /\ Once(Append(ready_queue, dest))
    BY <1>1, <2>1, AppendRange, AppendOnce
  <2>5. dest \in blocked
    BY <1>1, <2>1
  <2> QED BY <1>1, <1>2, <2>1, <2>2, <2>3, <2>4, <2>5
<1>3. CASE ~Delivers(dest, sender)
  <2>1. blocked' = blocked
    BY <1>3 DEF SendMessage, SendFails, SendDelivers, SendQueues, msgVars
  <2>2. ReadyAfter(dest, sender) = ready_queue
    BY <1>3 DEF ReadyAfter
  <2> QED BY <1>1, <1>3, <2>1, <2>2
<1> QED BY <1>2, <1>3

(* send_message() keeps the types of what it writes.                       *)
LEMMA SendTypes ==
    ASSUME TypeOK, NEW dest \in Live, NEW load \in Load,
           NEW sender \in Pcb \cup {INTERRUPT_HANDLER_MSG},
           SendMessage(dest, load, sender)
    PROVE  /\ softblock_count' \in 0..(CountMod - 1)
           /\ do_io' \in [Pcb -> BOOLEAN]
           /\ msg_inbox' \in [Pcb -> Seq(Message)]
           /\ msgFree' \in Nat
           /\ blocked' \in SUBSET Pcb
           /\ received' \in [Pcb -> Message \cup {NoMessage}]
<1> DEFINE m == [sender |-> Alias(sender), payload |-> load]
<1>1. m \in Message /\ dest \in Pcb
  BY Addresses DEF Message, Live
<1>2. MarkSoftblocking(dest, load, sender) \in [Pcb -> BOOLEAN]
  BY DEF TypeOK, MarkSoftblocking
<1>3. CASE SendFails
  BY <1>3 DEF SendFails, msgVars, TypeOK
<1>4. CASE SendDelivers(dest, load, sender)
  <2>1. softblock_count' \in 0..(CountMod - 1)
    BY <1>4, IpcAssumption DEF SendDelivers, Dec, TypeOK
  <2>2. do_io' \in [Pcb -> BOOLEAN]
    BY <1>2, <1>4 DEF SendDelivers
  <2>3. received' \in [Pcb -> Message \cup {NoMessage}]
    BY <1>1, <1>4 DEF SendDelivers, TypeOK
  <2> QED BY <1>4, <2>1, <2>2, <2>3 DEF SendDelivers, TypeOK
<1>5. CASE SendQueues(dest, load, sender)
  <2>1. Append(msg_inbox[dest], m) \in Seq(Message)
    BY <1>1, AppendProperties DEF TypeOK
  <2>2. msg_inbox' \in [Pcb -> Seq(Message)]
    BY <1>5, <2>1 DEF SendQueues, TypeOK
  <2>3. msgFree' \in Nat
    BY <1>5 DEF SendQueues, TypeOK
  <2> QED BY <1>2, <1>5, <2>2, <2>3 DEF SendQueues, TypeOK
<1> QED BY <1>3, <1>4, <1>5 DEF SendMessage
-----------------------------------------------------------------------------
(* Every step preserves the invariant: one lemma per kind of step.         *)
LEMMA SendStep ==
    ASSUME IInv, NEW p \in Alive, NEW to \in {PARENT, SSI_FAKE_ADDR} \cup Pcb,
           NEW load \in Load, SysSend(p, to, load)
    PROVE  IInv'
<1> DEFINE dest == Destination(p, to)
<1> USE DEF SysSend
<1>1. /\ current_process = p /\ p \in Pcb /\ UNCHANGED reg_a1
      /\ ready_queue \in Seq(Pcb) /\ Once(ready_queue) /\ p \notin ToSet(ready_queue)
  BY Addresses DEF Running, IInv, TypeOK, Placement, PlacedOnce, ReadyOnce, Once, Ready
<1>2. CASE ~isPcbValid(dest)
  <2>1. /\ UNCHANGED <<msgVars, procVars>> /\ ret' = DEST_NOT_EXIST
        /\ Scheduler(p, ready_queue)
    BY <1>2, Addresses DEF SendMessage, isPcbValid
  <2>2. /\ blocked' \subseteq Live
        /\ (ToSet(ready_queue) \cup {p}) \ {NULL} = Live \ blocked'
    BY <1>1, <2>1, Addresses
       DEF msgVars, IInv, TypeOK, Placement, PlacedOnce, Placed, Ready
  <2>3. /\ Placement' /\ CurrentRuns' /\ ready_queue' \in Seq(Pcb)
        /\ current_process' \in Pcb \cup {NULL}
        /\ cpu' \in {"run", "wait", "halt", "panic"}
    BY <1>1, <2>1, <2>2, HandlerPlaces
  <2> QED BY <1>1, <2>1, <2>3 DEF IInv, TypeOK, msgVars, procVars
<1>3. CASE isPcbValid(dest)
  <2>1. /\ SendMessage(dest, load, p) /\ UNCHANGED procVars
        /\ Scheduler(p, ReadyAfter(dest, p))
        /\ ret' \in {MSGNOGOOD, DELIVERED}
    BY <1>3
  <2>2. dest \in Live
    BY <1>3 DEF isPcbValid
  <2>3. /\ ReadyAfter(dest, p) \in Seq(Pcb) /\ Once(ReadyAfter(dest, p))
        /\ p \notin ToSet(ReadyAfter(dest, p))
        /\ blocked' \subseteq blocked
        /\ (ToSet(ReadyAfter(dest, p)) \cup {p}) \ {NULL} = Live \ blocked'
    BY <1>1, <2>1, <2>2, SendPlaces
  <2>4. blocked' \subseteq Live
    BY <2>3, Addresses DEF IInv, TypeOK, Placement, Placed
  <2>5. /\ Placement' /\ CurrentRuns' /\ ready_queue' \in Seq(Pcb)
        /\ current_process' \in Pcb \cup {NULL}
        /\ cpu' \in {"run", "wait", "halt", "panic"}
    BY <1>1, <2>1, <2>3, <2>4, HandlerPlaces
  <2>6. /\ softblock_count' \in 0..(CountMod - 1)
        /\ do_io' \in [Pcb -> BOOLEAN]
        /\ msg_inbox' \in [Pcb -> Seq(Message)]
        /\ msgFree' \in Nat
        /\ blocked' \in SUBSET Pcb
        /\ received' \in [Pcb -> Message \cup {NoMessage}]
    BY <1>1, <2>1, <2>2, SendTypes DEF IInv
  <2> QED BY <1>1, <2>1, <2>5, <2>6 DEF IInv, TypeOK, procVars
<1> QED BY <1>2, <1>3

LEMMA ReceiveStep ==
    ASSUME IInv, NEW p \in Alive,
           NEW src \in {ANYMESSAGE, SSI_FAKE_ADDR} \cup (Alive \ {ssi_pcb_real}),
           SysReceive(p, src)
    PROVE  IInv'
<1>1. /\ current_process = p /\ p \in Pcb /\ p # NULL /\ ret' = DELIVERED
      /\ ready_queue \in Seq(Pcb) /\ Once(ready_queue) /\ p \notin ToSet(ready_queue)
      /\ Ready = ToSet(ready_queue) /\ p \in Live /\ p \notin blocked
      /\ NULL \notin Live
  BY Addresses DEF SysReceive, Running, IInv, TypeOK, Placement, PlacedOnce, Placed,
                   ReadyOnce, Once, Ready, Live
<1>2. /\ blocked \subseteq Live
      /\ (Ready \cup {p}) \ {NULL} = Live \ blocked
  BY <1>1, Addresses DEF IInv, TypeOK, Placement, PlacedOnce, Placed
<1>3. CASE ReceivePops(p, src)
  <2>1. PICK i \in Matching(p, src) :
           /\ received' = [received EXCEPT ![p] = msg_inbox[p][i]]
           /\ msg_inbox' = [msg_inbox EXCEPT ![p] = RemoveAt(@, i)]
           /\ msgFree' = msgFree + 1
           /\ do_io' = [do_io EXCEPT ![p] = FALSE]
           /\ UNCHANGED <<blocked, softblock_count, reg_a1, procVars>>
           /\ Scheduler(p, ready_queue)
    BY <1>3 DEF ReceivePops
  <2>2. /\ Placement' /\ CurrentRuns' /\ ready_queue' \in Seq(Pcb)
        /\ current_process' \in Pcb \cup {NULL}
        /\ cpu' \in {"run", "wait", "halt", "panic"}
    BY <1>1, <1>2, <2>1, HandlerPlaces
  <2>3. i \in DOMAIN msg_inbox[p] /\ msg_inbox[p] \in Seq(Message)
    BY <1>1, <2>1 DEF Matching, IInv, TypeOK
  <2>4. RemoveAt(msg_inbox[p], i) \in Seq(Message) /\ msg_inbox[p][i] \in Message
    BY <2>3, RemoveAtType, ElementOfSeq, LenProperties
  <2>5. /\ msg_inbox' \in [Pcb -> Seq(Message)]
        /\ received' \in [Pcb -> Message \cup {NoMessage}]
        /\ do_io' \in [Pcb -> BOOLEAN] /\ msgFree' \in Nat
    BY <1>1, <2>1, <2>4 DEF IInv, TypeOK
  <2> QED BY <1>1, <2>1, <2>2, <2>5 DEF IInv, TypeOK, procVars
<1>4. CASE ReceiveBlocks(p, src)
  <2>1. /\ blocked' = blocked \cup {p}
        /\ UNCHANGED <<msg_inbox, msgFree, do_io, procVars>>
        /\ Scheduler(NULL, ready_queue)
    BY <1>4 DEF ReceiveBlocks
  <2>2. /\ NULL \notin ToSet(ready_queue) /\ blocked' \subseteq Live
        /\ (ToSet(ready_queue) \cup {NULL}) \ {NULL} = Live \ blocked'
    <3>1. NULL \notin ToSet(ready_queue)
      BY <1>1, Addresses, ElementOfSeq, LenProperties DEF ToSet
    <3> QED BY <1>1, <1>2, <2>1, <3>1
  <2>3. /\ Placement' /\ CurrentRuns' /\ ready_queue' \in Seq(Pcb)
        /\ current_process' \in Pcb \cup {NULL}
        /\ cpu' \in {"run", "wait", "halt", "panic"}
    BY <1>1, <2>1, <2>2, HandlerPlaces
  <2>4. softblock_count' \in 0..(CountMod - 1)
    BY <1>4, IpcAssumption DEF ReceiveBlocks, Inc, IInv, TypeOK
  <2>5. src \in {SCRATCH, ANYMESSAGE} \cup Sender
    BY Addresses
  <2>6. /\ reg_a1' \in [Pcb -> {SCRATCH, ANYMESSAGE} \cup Sender]
        /\ received' \in [Pcb -> Message \cup {NoMessage}]
    BY <1>4, <2>5 DEF ReceiveBlocks, IInv, TypeOK
  <2>7. blocked' \in SUBSET Pcb
    BY <1>1, <2>1 DEF IInv, TypeOK
  <2> QED BY <1>1, <2>1, <2>3, <2>4, <2>6, <2>7 DEF IInv, TypeOK, procVars
<1> QED BY <1>3, <1>4 DEF SysReceive

LEMMA PltStep ==
    ASSUME IInv, PltInterrupt
    PROVE  IInv'
<1> DEFINE p == current_process
           ready == Append(ready_queue, p)
<1>1. /\ p \in Pcb /\ p # NULL /\ p \in Live /\ p \notin blocked /\ NULL \notin Live
      /\ ready_queue \in Seq(Pcb) /\ Once(ready_queue) /\ p \notin ToSet(ready_queue)
      /\ Ready = ToSet(ready_queue)
  BY Addresses DEF PltInterrupt, IInv, CurrentRuns, TypeOK, Placement, PlacedOnce, Placed,
                   ReadyOnce, Once, Ready, Live
<1>2. /\ UNCHANGED <<procVars, msgVars, ret>> /\ Scheduler(NULL, ready)
      /\ reg_a1' = [reg_a1 EXCEPT ![p] = SCRATCH]
  BY DEF PltInterrupt
<1>3. /\ ready \in Seq(Pcb) /\ Once(ready) /\ ToSet(ready) = Ready \cup {p}
  BY <1>1, AppendRange, AppendOnce
<1>4. NULL \notin Ready
  BY <1>1, Addresses, ElementOfSeq, LenProperties DEF ToSet
<1>5. /\ NULL \notin ToSet(ready) /\ blocked' \subseteq Live
      /\ (ToSet(ready) \cup {NULL}) \ {NULL} = Live \ blocked'
  <2>1. blocked' = blocked
    BY <1>2 DEF msgVars
  <2> QED BY <1>1, <1>3, <1>4, <2>1, Addresses
          DEF IInv, TypeOK, Placement, PlacedOnce, Placed
<1>6. /\ Placement' /\ CurrentRuns' /\ ready_queue' \in Seq(Pcb)
      /\ current_process' \in Pcb \cup {NULL}
      /\ cpu' \in {"run", "wait", "halt", "panic"}
  <2> HIDE DEF ready
  <2> QED BY <1>2, <1>3, <1>5, HandlerPlaces
<1> QED BY <1>1, <1>2, <1>6 DEF IInv, TypeOK, msgVars, procVars

LEMMA InterruptStep ==
    ASSUME IInv, NEW load \in Load, Interrupt(load)
    PROVE  IInv'
<1> DEFINE ready == ReadyAfter(ssi_pcb_real, INTERRUPT_HANDLER_MSG)
<1>1. /\ SendMessage(ssi_pcb_real, load, INTERRUPT_HANDLER_MSG)
      /\ UNCHANGED <<procVars, reg_a1, ret>>
      /\ Scheduler(current_process, ready)
      /\ ssi_pcb_real \in Live /\ current_process \in Pcb \cup {NULL}
  BY DEF Interrupt, IInv, CurrentRuns, TypeOK
<1>2. /\ ready \in Seq(Pcb) /\ Once(ready) /\ current_process \notin ToSet(ready)
      /\ blocked' \subseteq blocked
      /\ (ToSet(ready) \cup {current_process}) \ {NULL} = Live \ blocked'
  BY <1>1, SendPlaces
<1>3. blocked' \subseteq Live
  BY <1>2, Addresses DEF IInv, TypeOK, Placement, Placed
<1>4. /\ Placement' /\ CurrentRuns' /\ ready_queue' \in Seq(Pcb)
      /\ current_process' \in Pcb \cup {NULL}
      /\ cpu' \in {"run", "wait", "halt", "panic"}
  <2> HIDE DEF ready
  <2> QED BY <1>1, <1>2, <1>3, HandlerPlaces
<1>5. /\ softblock_count' \in 0..(CountMod - 1)
      /\ do_io' \in [Pcb -> BOOLEAN]
      /\ msg_inbox' \in [Pcb -> Seq(Message)]
      /\ msgFree' \in Nat
      /\ blocked' \in SUBSET Pcb
      /\ received' \in [Pcb -> Message \cup {NoMessage}]
  BY <1>1, SendTypes DEF IInv
<1> QED BY <1>1, <1>4, <1>5 DEF IInv, TypeOK, procVars

LEMMA NextIInv == IInv /\ [IpcNext]_ipcVars => IInv'
<1> SUFFICES ASSUME IInv, [IpcNext]_ipcVars PROVE IInv'
  OBVIOUS
<1>1. CASE UNCHANGED ipcVars
  BY <1>1 DEF IInv, TypeOK, Placement, PlacedOnce, Placed, ReadyOnce, CurrentRuns, Ready,
              Live, ipcVars, procVars, msgVars, cpuVars
<1>2. ASSUME NEW p \in Alive, NEW to \in {PARENT, SSI_FAKE_ADDR} \cup Pcb,
             NEW load \in Load, SysSend(p, to, load)
      PROVE  IInv'
  BY <1>2, SendStep
<1>3. ASSUME NEW p \in Alive,
             NEW src \in {ANYMESSAGE, SSI_FAKE_ADDR} \cup (Alive \ {ssi_pcb_real}),
             SysReceive(p, src)
      PROVE  IInv'
  BY <1>3, ReceiveStep
<1>4. CASE PltInterrupt
  BY <1>4, PltStep
<1>5. ASSUME NEW load \in Load, Interrupt(load)
      PROVE  IInv'
  BY <1>5, InterruptStep
<1>6. CASE Stopped
  BY <1>1, <1>6 DEF Stopped
<1> QED BY <1>1, <1>2, <1>3, <1>4, <1>5, <1>6 DEF IpcNext

THEOREM Invariance == IpcSpec => []IInv
<1> QED BY InitIInv, NextIInv, PTL DEF IpcSpec

(* Every variable of the nucleus keeps its type: the counters stay in the  *)
(* range of an unsigned, the free-message count never runs below zero, and *)
(* every message that is queued or delivered is a proper one.              *)
THEOREM TypeCorrect == IpcSpec => []TypeOK
<1>1. IInv => TypeOK
  BY DEF IInv
<1> QED BY <1>1, Invariance, PTL

(* Every live process is at every time in exactly one place: running, in   *)
(* the ready queue (once), or blocked in SYS2.                             *)
THEOREM EveryProcessPlaced == IpcSpec => []Placement
<1>1. IInv => Placement
  BY DEF IInv
<1> QED BY <1>1, Invariance, PTL
-----------------------------------------------------------------------------
(* No lost wakeup.  The invariant is preserved because of Placement: a     *)
(* blocked receiver is neither ready nor current, so send_message() only   *)
(* queues a message for it that it does not accept.                        *)
LEMMA SendKeepsWakeup ==
    ASSUME IInv, NoLostWakeup, NEW dest \in Live, NEW load \in Load,
           NEW sender \in Pcb \cup {INTERRUPT_HANDLER_MSG},
           SendMessage(dest, load, sender), UNCHANGED reg_a1
    PROVE  NoLostWakeup'
<1>1. CASE SendFails
  BY <1>1 DEF SendFails, msgVars, NoLostWakeup, Matching, Matches
<1>2. CASE SendDelivers(dest, load, sender)
  BY <1>2 DEF SendDelivers, NoLostWakeup, Matching, Matches
<1>3. CASE SendQueues(dest, load, sender)
  <2> DEFINE m == [sender |-> Alias(sender), payload |-> load]
  <2>1. m \in Message /\ m.sender = Alias(sender) /\ dest \in Pcb
    BY Addresses DEF Message, Live
  <2>2. /\ msg_inbox' = [msg_inbox EXCEPT ![dest] = Append(@, m)]
        /\ UNCHANGED blocked
    BY <1>3 DEF SendQueues
  <2>3. SUFFICES ASSUME NEW p \in blocked
                 PROVE  Matching(p, reg_a1[p])' = {}
    BY <2>2 DEF NoLostWakeup
  <2>4. p \in Pcb /\ Matching(p, reg_a1[p]) = {}
    BY DEF NoLostWakeup, IInv, TypeOK
  <2>5. CASE p # dest
    BY <2>1, <2>2, <2>4, <2>5 DEF Matching, Matches, IInv, TypeOK
  <2>6. CASE p = dest
    <3>1. dest \notin Ready /\ dest # current_process
      BY <2>6 DEF IInv, Placement, PlacedOnce
    <3>2. reg_a1[dest] # Alias(sender) /\ reg_a1[dest] # ANYMESSAGE
      BY <1>3, <3>1 DEF SendQueues, Wakes, is_waiting_for_me
    <3>3. /\ msg_inbox'[dest] = Append(msg_inbox[dest], m)
          /\ msg_inbox[dest] \in Seq(Message)
      BY <2>1, <2>2 DEF IInv, TypeOK
    <3>4. \A i \in DOMAIN Append(msg_inbox[dest], m) :
             \/ i \in DOMAIN msg_inbox[dest]
                   /\ Append(msg_inbox[dest], m)[i] = msg_inbox[dest][i]
             \/ Append(msg_inbox[dest], m)[i] = m
      BY <2>1, <3>3, AppendProperties, LenProperties
    <3>5. \A i \in DOMAIN msg_inbox[dest] :
             ~Matches(msg_inbox[dest][i], reg_a1[dest])
      BY <2>4, <2>6 DEF Matching
    <3>6. ~Matches(m, reg_a1[dest])
      BY <2>1, <3>2 DEF Matches
    <3> QED BY <2>6, <3>3, <3>4, <3>5, <3>6 DEF Matching, Matches
  <2> QED BY <2>5, <2>6
<1> QED BY <1>1, <1>2, <1>3 DEF SendMessage

LEMMA NextNoLostWakeup ==
    IInv /\ NoLostWakeup /\ [IpcNext]_ipcVars => NoLostWakeup'
<1> SUFFICES ASSUME IInv, NoLostWakeup, [IpcNext]_ipcVars PROVE NoLostWakeup'
  OBVIOUS
<1>1. CASE UNCHANGED ipcVars
  BY <1>1 DEF NoLostWakeup, Matching, Matches, ipcVars, msgVars
<1>2. ASSUME NEW p \in Alive, NEW to \in {PARENT, SSI_FAKE_ADDR} \cup Pcb,
             NEW load \in Load, SysSend(p, to, load)
      PROVE  NoLostWakeup'
  <2>1. CASE ~isPcbValid(Destination(p, to))
    BY <1>2, <2>1 DEF SysSend, msgVars, NoLostWakeup, Matching, Matches
  <2>2. CASE isPcbValid(Destination(p, to))
    <3>1. /\ SendMessage(Destination(p, to), load, p) /\ UNCHANGED reg_a1
          /\ Destination(p, to) \in Live /\ p \in Pcb
      BY <1>2, <2>2, Addresses DEF SysSend, isPcbValid
    <3> QED BY <3>1, SendKeepsWakeup
  <2> QED BY <2>1, <2>2
<1>3. ASSUME NEW p \in Alive,
             NEW src \in {ANYMESSAGE, SSI_FAKE_ADDR} \cup (Alive \ {ssi_pcb_real}),
             SysReceive(p, src)
      PROVE  NoLostWakeup'
  <2>1. p = current_process /\ p \in Pcb /\ p \notin blocked
    BY <1>3, Addresses DEF SysReceive, Running, IInv, Placement, PlacedOnce
  <2>2. CASE ReceivePops(p, src)
    BY <2>1, <2>2 DEF ReceivePops, NoLostWakeup, Matching, Matches, IInv, TypeOK
  <2>3. CASE ReceiveBlocks(p, src)
    BY <2>1, <2>3 DEF ReceiveBlocks, NoLostWakeup, Matching, Matches, IInv, TypeOK
  <2> QED BY <1>3, <2>2, <2>3 DEF SysReceive
<1>4. CASE PltInterrupt
  <2>1. current_process \notin blocked
    BY DEF IInv, Placement, PlacedOnce
  <2> QED BY <1>4, <2>1 DEF PltInterrupt, msgVars, NoLostWakeup, Matching, Matches,
                            IInv, TypeOK
<1>5. ASSUME NEW load \in Load, Interrupt(load)
      PROVE  NoLostWakeup'
  BY <1>5, SendKeepsWakeup DEF Interrupt, IInv, CurrentRuns
<1>6. CASE Stopped
  BY <1>1, <1>6 DEF Stopped
<1> QED BY <1>1, <1>2, <1>3, <1>4, <1>5, <1>6 DEF IpcNext

(* A process blocked in SYS2 never has a message in its inbox that it      *)
(* would accept, in whatever order SYS1, SYS2 and interrupts come.         *)
THEOREM WakeupNeverLost == IpcSpec => []NoLostWakeup
<1>1. IpcInit => NoLostWakeup
  BY Addresses, EmptySeq DEF IpcInit, NoLostWakeup, Matching
<1> QED BY <1>1, NextNoLostWakeup, Invariance, PTL DEF IpcSpec
-----------------------------------------------------------------------------
(* softblock_count.                                                        *)
SoftBlockedSet == {p \in blocked : do_io[p]}

LEMMA SoftBlockedFinite ==
    ASSUME TypeOK
    PROVE  /\ IsFiniteSet(SoftBlockedSet)
           /\ Cardinality(SoftBlockedSet) \in Nat
           /\ Cardinality(SoftBlockedSet) <= MaxProc
           /\ \A p \in Pcb \ SoftBlockedSet :
                  Cardinality(SoftBlockedSet) + 1 <= MaxProc
<1>1. IsFiniteSet(Pcb) /\ Cardinality(Pcb) = MaxProc
  <2>1. \A a, b \in Int : /\ IsFiniteSet(a..b)
                           /\ Cardinality(a..b) = IF a > b THEN 0 ELSE b - a + 1
    BY FS_Interval
  <2>2. \A b \in Int : b >= 3 => IsFiniteSet(3..b) /\ Cardinality(3..b) = b - 2
    BY <2>1
  <2> QED BY <2>2, IpcAssumption DEF Pcb
<1>2. SoftBlockedSet \in SUBSET Pcb
  BY DEF SoftBlockedSet, TypeOK
<1>3. IsFiniteSet(SoftBlockedSet) /\ Cardinality(SoftBlockedSet) <= MaxProc
  BY <1>1, <1>2, FS_Subset
<1>4. Cardinality(SoftBlockedSet) \in Nat
  BY <1>3, FS_CardinalityType
<1>5. ASSUME NEW p \in Pcb \ SoftBlockedSet
      PROVE  Cardinality(SoftBlockedSet) + 1 <= MaxProc
  <2>1. SoftBlockedSet \cup {p} \in SUBSET Pcb
    BY <1>2
  <2>2. Cardinality(SoftBlockedSet \cup {p}) <= MaxProc
    BY <1>1, <2>1, FS_Subset
  <2>3. Cardinality(SoftBlockedSet \cup {p}) = Cardinality(SoftBlockedSet) + 1
    BY <1>3, FS_AddElement
  <2> QED BY <2>2, <2>3
<1> QED BY <1>3, <1>4, <1>5

(* A message marks its sender, which is not blocked, and wakes at most one *)
(* receiver, which is uncounted as it leaves.                              *)
LEMMA SendKeepsCount ==
    ASSUME IInv, SoftblockExact, NEW dest \in Live, NEW load \in Load,
           NEW sender \in Pcb \cup {INTERRUPT_HANDLER_MSG},
           SendMessage(dest, load, sender)
    PROVE  SoftblockExact'
<1>1. /\ softblock_count = Cardinality(SoftBlockedSet) /\ dest \in Pcb
      /\ current_process \notin blocked /\ do_io \in [Pcb -> BOOLEAN]
      /\ blocked \subseteq Pcb
  BY DEF SoftblockExact, SoftBlockedSet, IInv, TypeOK, Placement, PlacedOnce, Live
<1>2. /\ MarkSoftblocking(dest, load, sender) \in [Pcb -> BOOLEAN]
      /\ \A p \in blocked : MarkSoftblocking(dest, load, sender)[p] = do_io[p]
  BY <1>1 DEF MarkSoftblocking
<1>3. CASE SendFails
  BY <1>3 DEF SendFails, msgVars, SoftblockExact
<1>4. CASE SendDelivers(dest, load, sender)
  <2>1. dest \in blocked
    BY <1>4, SendPlaces DEF SendDelivers
  <2>2. SoftBlockedSet' = SoftBlockedSet \ {dest}
    BY <1>1, <1>2, <1>4 DEF SendDelivers, SoftBlockedSet
  <2>3. Cardinality(SoftBlockedSet') =
           IF do_io[dest] THEN Cardinality(SoftBlockedSet) - 1
           ELSE Cardinality(SoftBlockedSet)
    <3>1. IsFiniteSet(SoftBlockedSet)
      BY SoftBlockedFinite DEF IInv
    <3>2. dest \in SoftBlockedSet <=> do_io[dest]
      BY <2>1 DEF SoftBlockedSet
    <3>3. Cardinality(SoftBlockedSet \ {dest}) =
             IF dest \in SoftBlockedSet THEN Cardinality(SoftBlockedSet) - 1
             ELSE Cardinality(SoftBlockedSet)
      BY <3>1, FS_RemoveElement
    <3> QED BY <2>2, <3>2, <3>3
  <2>4. do_io[dest] => softblock_count # 0
    <3>1. do_io[dest] => SoftBlockedSet # {}
      BY <2>1 DEF SoftBlockedSet
    <3>2. Cardinality(SoftBlockedSet) = 0 => SoftBlockedSet = {}
      BY SoftBlockedFinite, FS_EmptySet DEF IInv
    <3> QED BY <1>1, <3>1, <3>2
  <2>5. softblock_count' =
           IF do_io[dest] THEN softblock_count - 1 ELSE softblock_count
    BY <1>4, <2>4 DEF SendDelivers, Dec
  <2> QED BY <1>1, <2>3, <2>5 DEF SoftblockExact, SoftBlockedSet
<1>5. CASE SendQueues(dest, load, sender)
  <2>1. SoftBlockedSet' = SoftBlockedSet /\ softblock_count' = softblock_count
    BY <1>2, <1>5 DEF SendQueues, SoftBlockedSet
  <2> QED BY <1>1, <2>1 DEF SoftblockExact, SoftBlockedSet
<1> QED BY <1>3, <1>4, <1>5 DEF SendMessage

LEMMA NextSoftblockExact ==
    IInv /\ SoftblockExact /\ [IpcNext]_ipcVars => SoftblockExact'
<1> SUFFICES ASSUME IInv, SoftblockExact, [IpcNext]_ipcVars PROVE SoftblockExact'
  OBVIOUS
<1>1. CASE UNCHANGED ipcVars
  BY <1>1 DEF SoftblockExact, ipcVars, msgVars
<1>2. ASSUME NEW p \in Alive, NEW to \in {PARENT, SSI_FAKE_ADDR} \cup Pcb,
             NEW load \in Load, SysSend(p, to, load)
      PROVE  SoftblockExact'
  <2>1. CASE ~isPcbValid(Destination(p, to))
    BY <1>2, <2>1 DEF SysSend, msgVars, SoftblockExact
  <2>2. CASE isPcbValid(Destination(p, to))
    <3>1. /\ SendMessage(Destination(p, to), load, p)
          /\ Destination(p, to) \in Live /\ p \in Pcb
      BY <1>2, <2>2, Addresses DEF SysSend, isPcbValid
    <3> QED BY <3>1, SendKeepsCount
  <2> QED BY <2>1, <2>2
<1>3. ASSUME NEW p \in Alive,
             NEW src \in {ANYMESSAGE, SSI_FAKE_ADDR} \cup (Alive \ {ssi_pcb_real}),
             SysReceive(p, src)
      PROVE  SoftblockExact'
  <2>1. /\ p = current_process /\ p \in Pcb /\ p \notin blocked
        /\ do_io \in [Pcb -> BOOLEAN] /\ blocked \subseteq Pcb
        /\ softblock_count = Cardinality(SoftBlockedSet)
    BY <1>3, Addresses DEF SysReceive, Running, IInv, TypeOK, Placement, PlacedOnce,
                           SoftblockExact, SoftBlockedSet
  <2>2. CASE ReceivePops(p, src)
    <3>1. /\ do_io' = [do_io EXCEPT ![p] = FALSE]
          /\ UNCHANGED <<blocked, softblock_count>>
      BY <2>2 DEF ReceivePops
    <3>2. SoftBlockedSet' = SoftBlockedSet
      BY <2>1, <3>1 DEF SoftBlockedSet
    <3> QED BY <2>1, <3>1, <3>2 DEF SoftblockExact, SoftBlockedSet
  <2>3. CASE ReceiveBlocks(p, src)
    <3>1. /\ blocked' = blocked \cup {p} /\ UNCHANGED do_io
          /\ softblock_count' = IF do_io[p] THEN Inc(softblock_count)
                                ELSE softblock_count
      BY <2>3 DEF ReceiveBlocks
    <3>2. p \notin SoftBlockedSet
      BY <2>1 DEF SoftBlockedSet
    <3>3. /\ IsFiniteSet(SoftBlockedSet) /\ Cardinality(SoftBlockedSet) \in Nat
          /\ Cardinality(SoftBlockedSet) + 1 <= MaxProc
      BY <2>1, <3>2, SoftBlockedFinite DEF IInv
    <3>4. CASE do_io[p]
      <4>1. SoftBlockedSet' = SoftBlockedSet \cup {p}
        BY <3>1, <3>4 DEF SoftBlockedSet
      <4>2. Cardinality(SoftBlockedSet \cup {p}) = Cardinality(SoftBlockedSet) + 1
        BY <3>2, <3>3, FS_AddElement
      <4>3. softblock_count' = softblock_count + 1
        BY <2>1, <3>1, <3>3, <3>4, IpcAssumption DEF Inc
      <4> QED BY <2>1, <4>1, <4>2, <4>3 DEF SoftblockExact, SoftBlockedSet
    <3>5. CASE ~do_io[p]
      <4>1. SoftBlockedSet' = SoftBlockedSet /\ softblock_count' = softblock_count
        BY <3>1, <3>5 DEF SoftBlockedSet
      <4> QED BY <2>1, <4>1 DEF SoftblockExact, SoftBlockedSet
    <3> QED BY <3>4, <3>5
  <2> QED BY <1>3, <2>2, <2>3 DEF SysReceive
<1>4. CASE PltInterrupt
  BY <1>4 DEF PltInterrupt, msgVars, SoftblockExact
<1>5. ASSUME NEW load \in Load, Interrupt(load)
      PROVE  SoftblockExact'
  BY <1>5, SendKeepsCount DEF Interrupt, IInv, CurrentRuns
<1>6. CASE Stopped
  BY <1>1, <1>6 DEF Stopped
<1> QED BY <1>1, <1>2, <1>3, <1>4, <1>5, <1>6 DEF IpcNext

(* softblock_count is at every step the number of blocked processes with   *)
(* do_io set: it never wraps, in either direction.  Nothing is said of     *)
(* whether such a process has a request outstanding.                       *)
THEOREM CountsSoftBlocked == IpcSpec => []SoftblockExact
<1>1. IpcInit => SoftblockExact
  <2> SUFFICES ASSUME IpcInit PROVE SoftblockExact
    OBVIOUS
  <2>1. {p \in blocked : do_io[p]} = {}
    BY Addresses DEF IpcInit
  <2> QED BY <2>1, FS_EmptySet DEF IpcInit, SoftblockExact
<1> QED BY <1>1, NextSoftblockExact, Invariance, PTL DEF IpcSpec
-----------------------------------------------------------------------------
(* What of the first N messages of an inbox came from one sender, N by N.  *)
Parts(s, q, N) ==
    {sent \in [0..N -> Seq(Load)] :
        /\ sent[0] = <<>>
        /\ \A n \in 1..N :
              sent[n] = IF q[n].sender = s THEN Append(sent[n - 1], q[n].payload)
                        ELSE sent[n - 1]}

LEMMA SentByParts ==
    ASSUME NEW q \in Seq(Message), NEW s
    PROVE  \E sent \in Parts(s, q, Len(q)) : sent[Len(q)] = SentBy(s, q)
<1> DEFINE part(n, r) == IF q[n].sender = s THEN Append(r, q[n].payload) ELSE r
           sent == CHOOSE f : f = [n \in 0..Len(q) |->
                                      IF n = 0 THEN <<>> ELSE part(n, f[n - 1])]
<1>1. Len(q) \in Nat /\ DOMAIN q = 1..Len(q)
  BY LenProperties
<1>2. ASSUME NEW n \in 1..Len(q), NEW r \in Seq(Load)  PROVE part(n, r) \in Seq(Load)
  <2>1. q[n] \in Message
    BY <1>1, ElementOfSeq
  <2>2. q[n].payload \in Load
    BY <2>1 DEF Message
  <2> QED BY <2>2, AppendProperties
<1> HIDE DEF part
<1>3. PICK N : N = Len(q)
  OBVIOUS
<1>4. PICK step \in [(1..N) \X Seq(Load) -> Seq(Load)] :
         \A n \in 1..N, r \in Seq(Load) : step[<<n, r>>] = part(n, r)
  <2> DEFINE f == [k \in (1..N) \X Seq(Load) |-> part(k[1], k[2])]
  <2>1. f \in [(1..N) \X Seq(Load) -> Seq(Load)]
    BY <1>2, <1>3
  <2>2. \A n \in 1..N, r \in Seq(Load) : f[<<n, r>>] = part(n, r)
    OBVIOUS
  <2> QED BY <2>1, <2>2
<1>5. <<>> \in Seq(Load) /\ N \in Nat
  BY <1>1, <1>3
<1>6. PICK g \in [0..N -> Seq(Load)] :
         g[0] = <<>> /\ \A i \in 1..N : g[i] = step[<<i, g[i - 1]>>]
  <2>1. Passes(N, Seq(Load), <<>>, step) # {}
    BY <1>5, Repeated
  <2> QED BY <2>1 DEF Passes
<1>7. \A i \in 1..N : g[i] = part(i, g[i - 1])
  <2>1. \A i \in 1..N : g[i - 1] \in Seq(Load)
    BY <1>5
  <2> QED BY <1>4, <1>6, <2>1
<1>8. g = [n \in 0..N |-> IF n = 0 THEN <<>> ELSE part(n, g[n - 1])]
  BY <1>5, <1>6, <1>7
<1>9. sent = [n \in 0..N |-> IF n = 0 THEN <<>> ELSE part(n, sent[n - 1])]
  BY <1>3, <1>8
<1>10. SentBy(s, q) = sent[N]
  BY <1>3 DEF SentBy, part
<1> HIDE DEF sent
<1>11. \A n \in 1..N : sent[n] = part(n, sent[n - 1])
  BY <1>5, <1>9
<1>12. sent[0] = <<>> /\ sent[0] \in Seq(Load)
  BY <1>5, <1>9
<1>13. sent \in [0..N -> Seq(Load)]
  <2> DEFINE P == {n \in 0..N : sent[n] \in Seq(Load)}
  <2>1. 0 \in P
    <3>1. 0 \in 0..N
      BY <1>5
    <3> QED BY <1>12, <3>1
  <2>2. ASSUME NEW i \in 1..N, i - 1 \in P  PROVE i \in P
    BY <1>2, <1>3, <1>5, <1>11, <2>2
  <2>3. 0..N \subseteq P
    <3> HIDE DEF P
    <3> QED BY <1>5, <2>1, <2>2, Upwards
  <2>4. \A n \in 0..N : sent[n] \in Seq(Load)
    BY <2>3
  <2> QED BY <1>9, <2>4
<1>14. sent \in Parts(s, q, N)
  BY <1>11, <1>12, <1>13 DEF part, Parts
<1> QED BY <1>3, <1>10, <1>14

(* A new message is the last of its sender.                                *)
LEMMA SentByAppend ==
    ASSUME NEW q \in Seq(Message), NEW m \in Message, NEW s
    PROVE  /\ SentBy(s, q) \in Seq(Load)
           /\ SentBy(s, Append(q, m)) =
                 IF m.sender = s THEN Append(SentBy(s, q), m.payload) ELSE SentBy(s, q)
<1>1. PICK N, r : N = Len(q) /\ r = Append(q, m)
  OBVIOUS
<1>2. /\ N \in Nat /\ r \in Seq(Message) /\ Len(r) = N + 1
      /\ \A j \in 1..N : r[j] = q[j]
      /\ r[N + 1] = m
  <2>1. Len(Append(q, m)) = Len(q) + 1
    BY AppendProperties
  <2> QED BY <1>1, <2>1, AppendElements
<1>3. PICK g \in Parts(s, q, N) : g[N] = SentBy(s, q)
  BY <1>1, SentByParts
<1>4. PICK h \in Parts(s, r, N + 1) : h[N + 1] = SentBy(s, r)
  BY <1>2, SentByParts
<1>5. h[N] = g[N]
  <2> DEFINE P == {n \in 0..N : h[n] = g[n]}
  <2>1. 0 \in P
    BY <1>2 DEF Parts
  <2>2. ASSUME NEW i \in 1..N, i - 1 \in P  PROVE i \in P
    <3>1. i \in 1..(N + 1) /\ r[i] = q[i] /\ h[i - 1] = g[i - 1]
      BY <1>2, <2>2
    <3> QED BY <3>1 DEF Parts
  <2>3. 0..N \subseteq P
    <3> HIDE DEF P
    <3> QED BY <1>2, <2>1, <2>2, Upwards
  <2> QED BY <1>2, <2>3
<1>6. h[N + 1] = IF m.sender = s THEN Append(h[N], m.payload) ELSE h[N]
  <2>1. N + 1 \in 1..(N + 1) /\ (N + 1) - 1 = N
    BY <1>2
  <2> QED BY <1>2, <2>1 DEF Parts
<1>7. g[N] \in Seq(Load)
  BY <1>2 DEF Parts
<1> QED BY <1>1, <1>3, <1>4, <1>5, <1>6, <1>7

(* Nothing came from a sender of whom there is no message.                 *)
LEMMA SentByNobody ==
    ASSUME NEW q \in Seq(Message), NEW s, \A i \in DOMAIN q : q[i].sender # s
    PROVE  SentBy(s, q) = <<>>
<1>1. PICK N : N = Len(q) /\ N \in Nat /\ DOMAIN q = 1..N
  BY LenProperties
<1>2. PICK g \in Parts(s, q, N) : g[N] = SentBy(s, q)
  BY <1>1, SentByParts
<1> DEFINE P == {n \in 0..N : g[n] = <<>>}
<1>3. 0 \in P
  BY <1>1 DEF Parts
<1>4. ASSUME NEW i \in 1..N, i - 1 \in P  PROVE i \in P
  BY <1>1, <1>4 DEF Parts
<1>5. 0..N \subseteq P
  <2> HIDE DEF P
  <2> QED BY <1>1, <1>3, <1>4, Upwards
<1> QED BY <1>1, <1>2, <1>5

(* The oldest message of a sender is the head of what came from him, and   *)
(* taking it touches nobody else's.                                        *)
LEMMA SentByRemove ==
    ASSUME NEW q \in Seq(Message), NEW i \in DOMAIN q, NEW s
    PROVE  /\ q[i].sender # s => SentBy(s, RemoveAt(q, i)) = SentBy(s, q)
           /\ q[i].sender = s /\ (\A j \in DOMAIN q : q[j].sender = s => i <= j) =>
                 /\ SentBy(s, q) # <<>> /\ Head(SentBy(s, q)) = q[i].payload
                 /\ SentBy(s, RemoveAt(q, i)) = Tail(SentBy(s, q))
<1>1. PICK N, r : N = Len(q) - 1 /\ r = RemoveAt(q, i)
  OBVIOUS
<1>2. /\ N \in Nat /\ Len(q) = N + 1 /\ DOMAIN q = 1..(N + 1) /\ i \in 1..(N + 1)
      /\ r \in Seq(Message) /\ Len(r) = N
      /\ \A j \in 1..N : r[j] = IF j < i THEN q[j] ELSE q[j + 1]
  <2>1. Len(q) \in Nat /\ DOMAIN q = 1..Len(q)
    BY LenProperties
  <2>2. N \in Nat /\ Len(q) = N + 1 /\ i \in 1..(N + 1)
    BY <1>1, <2>1
  <2>3. r \in Seq(Message)
    BY <1>1, RemoveAtType
  <2>4. DOMAIN r = 1..(Len(q) - 1) /\ \A j \in DOMAIN r : r[j] = q[Skip(i, j)]
    BY <1>1, RemoveAtElements
  <2>5. Len(r) = N
    BY <1>1, RemoveAtLength
  <2> QED BY <2>1, <2>2, <2>3, <2>4, <2>5 DEF Skip
<1>3. PICK g \in Parts(s, q, N + 1) : g[N + 1] = SentBy(s, q)
  BY <1>2, SentByParts
<1>4. PICK h \in Parts(s, r, N) : h[N] = SentBy(s, r)
  BY <1>2, SentByParts
<1>5. ASSUME q[i].sender # s  PROVE h[N] = g[N + 1]
  <2> DEFINE P == {n \in 0..N : /\ n < i => h[n] = g[n]
                                /\ n >= i - 1 => h[n] = g[n + 1]}
  <2>1. 0 \in P
    <3>1. h[0] = <<>> /\ g[0] = <<>>
      BY DEF Parts
    <3>2. 1 \in 1..(N + 1) /\ 1 - 1 = 0 /\ 0 \in 0..N
      BY <1>2
    <3>3. g[1] = IF q[1].sender = s THEN Append(g[0], q[1].payload) ELSE g[0]
      BY <3>2 DEF Parts
    <3>4. i = 1 => g[0 + 1] = h[0]
      BY <1>5, <3>1, <3>3
    <3>5. 0 >= i - 1 => i = 1
      BY <1>2
    <3> QED BY <3>1, <3>2, <3>4, <3>5
  <2>2. ASSUME NEW n \in 1..N, n - 1 \in P  PROVE n \in P
    <3>1. /\ h[n] = IF r[n].sender = s THEN Append(h[n - 1], r[n].payload) ELSE h[n - 1]
          /\ n \in 1..(N + 1) /\ n + 1 \in 1..(N + 1)
      <4>1. n \in 1..(N + 1) /\ n + 1 \in 1..(N + 1)
        BY <1>2
      <4>2. h \in Parts(s, r, N)
        BY <1>4
      <4>3. h[n] = IF r[n].sender = s THEN Append(h[n - 1], r[n].payload) ELSE h[n - 1]
        BY <4>2 DEF Parts
      <4> QED BY <4>1, <4>3
    <3>2. /\ g[n] = IF q[n].sender = s THEN Append(g[n - 1], q[n].payload) ELSE g[n - 1]
          /\ g[n + 1] = IF q[n + 1].sender = s THEN Append(g[n], q[n + 1].payload) ELSE g[n]
      <4>1. (n + 1) - 1 = n
        BY <1>2
      <4> QED BY <3>1, <4>1 DEF Parts
    <3>3. CASE n < i
      <4>1. r[n] = q[n] /\ h[n - 1] = g[n - 1]
        BY <1>2, <2>2, <3>3
      <4>2. h[n] = g[n]
        BY <3>1, <3>2, <4>1
      <4>3. n >= i - 1 => g[n + 1] = g[n]
        BY <1>2, <1>5, <3>2, <3>3
      <4> QED BY <1>2, <4>2, <4>3
    <3>4. CASE ~ (n < i)
      <4>1. r[n] = q[n + 1] /\ h[n - 1] = g[n]
        BY <1>2, <2>2, <3>4
      <4>2. h[n] = g[n + 1]
        BY <3>1, <3>2, <4>1
      <4> QED BY <1>2, <3>4, <4>2
    <3> QED BY <3>3, <3>4
  <2>3. 0..N \subseteq P
    <3> HIDE DEF P
    <3> QED BY <1>2, <2>1, <2>2, Upwards
  <2> QED BY <1>2, <2>3
<1>6. ASSUME q[i].sender = s, \A j \in DOMAIN q : q[j].sender = s => i <= j
      PROVE  g[N + 1] # <<>> /\ Head(g[N + 1]) = q[i].payload /\ h[N] = Tail(g[N + 1])
  <2> DEFINE First(n) == /\ g[n + 1] # <<>> /\ Head(g[n + 1]) = q[i].payload
                         /\ h[n] = Tail(g[n + 1])
             P == {n \in 0..N : /\ n < i => h[n] = <<>> /\ g[n] = <<>>
                                /\ n >= i - 1 => First(n)}
  <2>1. ASSUME NEW n \in 0..N, n = i - 1, g[n] = <<>>, h[n] = <<>>
        PROVE  First(n)
    <3>1. n + 1 = i /\ n + 1 \in 1..(N + 1) /\ (n + 1) - 1 = n
      BY <1>2, <2>1
    <3>2. g[n + 1] = Append(<<>>, q[i].payload)
      BY <1>6, <2>1, <3>1 DEF Parts
    <3> QED BY <2>1, <3>2
  <2> HIDE DEF First
  <2>2. 0 \in P
    <3>1. h[0] = <<>> /\ g[0] = <<>> /\ 0 \in 0..N
      BY <1>2 DEF Parts
    <3>2. 0 >= i - 1 => 0 = i - 1
      BY <1>2
    <3> QED BY <2>1, <3>1, <3>2
  <2>3. ASSUME NEW n \in 1..N, n - 1 \in P  PROVE n \in P
    <3>1. /\ h[n] = IF r[n].sender = s THEN Append(h[n - 1], r[n].payload) ELSE h[n - 1]
          /\ n \in 1..(N + 1) /\ n + 1 \in 1..(N + 1) /\ n - 1 \in 0..N /\ n \in 0..N
      <4>1. n \in 1..(N + 1) /\ n + 1 \in 1..(N + 1) /\ n - 1 \in 0..N /\ n \in 0..N
        BY <1>2
      <4>2. h \in Parts(s, r, N)
        BY <1>4
      <4>3. h[n] = IF r[n].sender = s THEN Append(h[n - 1], r[n].payload) ELSE h[n - 1]
        BY <4>2 DEF Parts
      <4> QED BY <4>1, <4>3
    <3>2. /\ g[n] = IF q[n].sender = s THEN Append(g[n - 1], q[n].payload) ELSE g[n - 1]
          /\ g[n + 1] = IF q[n + 1].sender = s THEN Append(g[n], q[n + 1].payload) ELSE g[n]
      <4>1. (n + 1) - 1 = n
        BY <1>2
      <4> QED BY <3>1, <4>1 DEF Parts
    <3>3. CASE n < i
      <4>1. /\ r[n] = q[n] /\ q[n].sender # s
            /\ h[n - 1] = <<>> /\ g[n - 1] = <<>>
        BY <1>2, <1>6, <2>3, <3>3
      <4>2. h[n] = <<>> /\ g[n] = <<>>
        BY <3>1, <3>2, <4>1
      <4>3. n >= i - 1 => First(n)
        <5>1. n >= i - 1 => n = i - 1
          BY <1>2, <3>3
        <5> QED BY <2>1, <3>1, <4>2, <5>1
      <4> QED BY <3>1, <4>2, <4>3
    <3>4. CASE ~ (n < i)
      <4>1. r[n] = q[n + 1] /\ First(n - 1)
        BY <1>2, <2>3, <3>4
      <4>2. g[n] # <<>> /\ Head(g[n]) = q[i].payload /\ h[n - 1] = Tail(g[n])
        <5>1. (n - 1) + 1 = n
          BY <1>2
        <5> QED BY <4>1, <5>1 DEF First
      <4>3. g[n] \in Seq(Load)
        <5>1. n \in 0..(N + 1) /\ g \in [0..(N + 1) -> Seq(Load)]
          BY <1>2, <1>3, <3>1 DEF Parts
        <5> QED BY <5>1
      <4>4. ASSUME q[n + 1].sender = s  PROVE First(n)
        <5>1. PICK a, x : a = g[n] /\ x = q[n + 1].payload
          OBVIOUS
        <5>2. x \in Load
          <6>1. q[n + 1] \in Message
            BY <1>2, <3>1, ElementOfSeq
          <6> QED BY <5>1, <6>1 DEF Message
        <5>3. /\ Append(a, x) # <<>> /\ Head(Append(a, x)) = Head(a)
              /\ Tail(Append(a, x)) = Append(Tail(a), x)
          BY <4>2, <4>3, <5>1, <5>2, HeadTailOfAppend
        <5>4. g[n + 1] = Append(a, x)
          BY <3>2, <4>4, <5>1
        <5>5. h[n] = Append(Tail(a), x)
          BY <3>1, <4>1, <4>2, <4>4, <5>1
        <5>6. Head(a) = q[i].payload
          BY <4>2, <5>1
        <5> QED BY <5>3, <5>4, <5>5, <5>6 DEF First
      <4>5. ASSUME q[n + 1].sender # s  PROVE First(n)
        <5>1. g[n + 1] = g[n] /\ h[n] = h[n - 1]
          BY <3>1, <3>2, <4>1, <4>5
        <5> QED BY <4>2, <5>1 DEF First
      <4>6. First(n)
        BY <4>4, <4>5
      <4> QED BY <3>1, <3>4, <4>6
    <3> QED BY <3>3, <3>4
  <2>4. 0..N \subseteq P
    <3> HIDE DEF P
    <3> QED BY <1>2, <2>2, <2>3, Upwards
  <2>5. First(N)
    <3>1. N \in 0..N /\ N >= i - 1
      BY <1>2
    <3> QED BY <2>4, <3>1
  <2> QED BY <2>5 DEF First
<1> QED BY <1>1, <1>3, <1>4, <1>5, <1>6
-----------------------------------------------------------------------------
(* The steps of Channels, said of the inboxes.                             *)

LEMMA StutterMaps ==
    ASSUME UNCHANGED received,
           \A t \in Sender, r \in Pcb : ChannelOf(t, r)' = ChannelOf(t, r),
           \A r \in Pcb : Wanted(r)' = Wanted(r)
    PROVE  UNCHANGED C!chanVars
BY DEF C!chanVars

LEMMA SendMaps ==
    ASSUME NEW s \in Sender, NEW p \in Pcb, NEW d \in Load,
           s \notin Wanted(p), UNCHANGED received,
           \A t \in Sender, r \in Pcb :
              ChannelOf(t, r)' = IF t = s /\ r = p THEN Append(ChannelOf(s, p), d)
                                 ELSE ChannelOf(t, r),
           \A r \in Pcb : Wanted(r)' = Wanted(r)
    PROVE  C!Send(s, p, d)
<1> QED BY DEF C!Send

LEMMA HandOverMaps ==
    ASSUME NEW s \in Sender, NEW p \in Pcb, NEW d \in Load,
           s \in Wanted(p),
           received' = [received EXCEPT ![p] = [sender |-> s, payload |-> d]],
           \A t \in Sender, r \in Pcb : ChannelOf(t, r)' = ChannelOf(t, r),
           \A r \in Pcb : Wanted(r)' = IF r = p THEN {} ELSE Wanted(r)
    PROVE  C!HandOver(s, p, d)
<1> QED BY DEF C!HandOver

LEMMA ReceiveMaps ==
    ASSUME NEW p \in Pcb, NEW src, NEW s \in Sender,
           src = ANYMESSAGE \/ src = s, Wanted(p) = {},
           ChannelOf(s, p) # <<>>,
           received' = [received EXCEPT
                           ![p] = [sender |-> s, payload |-> Head(ChannelOf(s, p))]],
           \A t \in Sender, r \in Pcb :
              ChannelOf(t, r)' = IF t = s /\ r = p THEN Tail(ChannelOf(s, p))
                                 ELSE ChannelOf(t, r),
           \A r \in Pcb : Wanted(r)' = Wanted(r)
    PROVE  C!Receive(p, src)
<1> DEFINE chan == [t \in Sender |-> [r \in Pcb |-> ChannelOf(t, r)]]
           want == [r \in Pcb |-> Wanted(r)]
<1>1. chan[s][p] = ChannelOf(s, p) /\ want[p] = {}
  OBVIOUS
<1>2. chan' = [chan EXCEPT ![s][p] = Tail(@)]
  <2>1. chan' = [t \in Sender |-> [r \in Pcb |-> ChannelOf(t, r)']]
    OBVIOUS
  <2> QED BY <2>1
<1>3. UNCHANGED want
  OBVIOUS
<1>4. s \in C!Accepted(src)
  BY DEF C!Accepted
<1> QED BY <1>1, <1>2, <1>3, <1>4 DEF C!Receive

LEMMA SuspendMaps ==
    ASSUME NEW p \in Pcb, NEW src \in Sender \cup {ANYMESSAGE}, Wanted(p) = {},
           \A t \in Sender : src \in {ANYMESSAGE, t} => ChannelOf(t, p) = <<>>,
           received' = [received EXCEPT ![p] = NoMessage],
           \A t \in Sender, r \in Pcb : ChannelOf(t, r)' = ChannelOf(t, r),
           \A r \in Pcb : Wanted(r)' = IF r = p
                                       THEN IF src = ANYMESSAGE THEN Sender ELSE {src}
                                       ELSE Wanted(r)
    PROVE  C!Suspend(p, src)
<1> QED BY DEF C!Suspend, C!Accepted

(* What a message sent to a PCB's inbox, and one taken out of it, do to    *)
(* the channels.                                                           *)
LEMMA ChannelGrows ==
    ASSUME IInv, NEW p \in Pcb, NEW m \in Message,
           msg_inbox' = [msg_inbox EXCEPT ![p] = Append(@, m)]
    PROVE  \A t \in Sender, r \in Pcb :
              ChannelOf(t, r)' = IF t = m.sender /\ r = p
                                 THEN Append(ChannelOf(m.sender, p), m.payload)
                                 ELSE ChannelOf(t, r)
<1>1. msg_inbox \in [Pcb -> Seq(Message)]
  BY DEF IInv, TypeOK
<1>2. SUFFICES ASSUME NEW t \in Sender, NEW r \in Pcb
      PROVE  ChannelOf(t, r)' = IF t = m.sender /\ r = p
                                THEN Append(ChannelOf(m.sender, p), m.payload)
                                ELSE ChannelOf(t, r)
  OBVIOUS
<1>3. ChannelOf(t, r)' = SentBy(t, msg_inbox'[r]) /\ ChannelOf(t, r) = SentBy(t, msg_inbox[r])
  BY DEF ChannelOf
<1>4. CASE r # p
  BY <1>1, <1>3, <1>4
<1>5. CASE r = p
  <2>1. msg_inbox'[p] = Append(msg_inbox[p], m) /\ msg_inbox[p] \in Seq(Message)
    BY <1>1
  <2>2. SentBy(t, Append(msg_inbox[p], m)) =
           IF m.sender = t THEN Append(SentBy(t, msg_inbox[p]), m.payload)
           ELSE SentBy(t, msg_inbox[p])
    BY <2>1, SentByAppend
  <2> QED BY <1>3, <1>5, <2>1, <2>2
<1> QED BY <1>4, <1>5

LEMMA ChannelShrinks ==
    ASSUME IInv, NEW p \in Pcb, NEW i \in DOMAIN msg_inbox[p], NEW s,
           s = msg_inbox[p][i].sender,
           \A j \in DOMAIN msg_inbox[p] : msg_inbox[p][j].sender = s => i <= j,
           msg_inbox'[p] = RemoveAt(msg_inbox[p], i),
           \A r \in Pcb \ {p} : msg_inbox'[r] = msg_inbox[r]
    PROVE  /\ ChannelOf(s, p) # <<>>
           /\ Head(ChannelOf(s, p)) = msg_inbox[p][i].payload
           /\ \A t \in Sender, r \in Pcb :
                 ChannelOf(t, r)' = IF t = s /\ r = p THEN Tail(ChannelOf(s, p))
                                    ELSE ChannelOf(t, r)
<1>1. msg_inbox \in [Pcb -> Seq(Message)] /\ msg_inbox[p] \in Seq(Message)
  BY DEF IInv, TypeOK
<1>2. ChannelOf(s, p) = SentBy(s, msg_inbox[p])
  BY DEF ChannelOf
<1>3. /\ SentBy(s, msg_inbox[p]) # <<>>
      /\ Head(SentBy(s, msg_inbox[p])) = msg_inbox[p][i].payload
      /\ SentBy(s, RemoveAt(msg_inbox[p], i)) = Tail(SentBy(s, msg_inbox[p]))
  BY <1>1, SentByRemove
<1>4. ASSUME NEW t \in Sender, NEW r \in Pcb
      PROVE  ChannelOf(t, r)' = IF t = s /\ r = p THEN Tail(ChannelOf(s, p))
                                ELSE ChannelOf(t, r)
  <2>1. /\ ChannelOf(t, r)' = SentBy(t, msg_inbox'[r])
        /\ ChannelOf(t, r) = SentBy(t, msg_inbox[r])
    BY DEF ChannelOf
  <2>3. CASE r # p
    BY <2>1, <2>3
  <2>4. CASE r = p /\ t = s
    BY <1>2, <1>3, <2>1, <2>4
  <2>5. CASE r = p /\ t # s
    <3>1. SentBy(t, RemoveAt(msg_inbox[p], i)) = SentBy(t, msg_inbox[p])
      BY <1>1, <2>5, SentByRemove
    <3> QED BY <2>1, <2>5, <3>1
  <2> QED BY <2>3, <2>4, <2>5
<1> QED BY <1>2, <1>3, <1>4

LEMMA ChannelsKept ==
    ASSUME UNCHANGED msg_inbox
    PROVE  \A t \in Sender, r \in Pcb : ChannelOf(t, r)' = ChannelOf(t, r)
BY DEF ChannelOf

(* send_message() queues, hands over, or does nothing.  A process that is  *)
(* suspended gets the message by hand if it wants it: by Placement, "not   *)
(* in the ready queue and not current" means suspended.                    *)
LEMMA SendChannels ==
    ASSUME IInv, NEW dest \in Live, NEW load \in Load,
           NEW sender \in Pcb \cup {INTERRUPT_HANDLER_MSG},
           SendMessage(dest, load, sender), UNCHANGED reg_a1
    PROVE  [C!ChanNext]_(C!chanVars)
<1> DEFINE s == Alias(sender)
           m == [sender |-> s, payload |-> load]
<1>1. s \in Sender /\ dest \in Pcb
  BY Addresses DEF Live
<1>2. m \in Message /\ m.sender = s /\ m.payload = load
  BY <1>1 DEF Message
<1>3. CASE SendFails
  <2>1. /\ UNCHANGED received
        /\ \A t \in Sender, r \in Pcb : ChannelOf(t, r)' = ChannelOf(t, r)
        /\ \A r \in Pcb : Wanted(r)' = Wanted(r)
    BY <1>3, ChannelsKept DEF SendFails, msgVars, Wanted
  <2> QED BY <2>1, StutterMaps
<1>4. CASE SendDelivers(dest, load, sender)
  <2>1. /\ Delivers(dest, sender)
        /\ received' = [received EXCEPT ![dest] = m]
        /\ blocked' = blocked \ {dest}
        /\ UNCHANGED msg_inbox
    BY <1>4 DEF SendDelivers
  <2>2. dest \in blocked
    BY <2>1, SendPlaces
  <2>3. s \in Wanted(dest)
    BY <1>1, <2>1, <2>2 DEF Delivers, Wakes, is_waiting_for_me, Wanted
  <2>4. \A r \in Pcb : Wanted(r)' = IF r = dest THEN {} ELSE Wanted(r)
    BY <2>1 DEF Wanted
  <2>5. \A t \in Sender, r \in Pcb : ChannelOf(t, r)' = ChannelOf(t, r)
    BY <2>1, ChannelsKept
  <2>6. C!HandOver(s, dest, load)
    BY <1>1, <2>1, <2>3, <2>4, <2>5, HandOverMaps
  <2> QED BY <1>1, <2>6 DEF C!ChanNext
<1>5. CASE SendQueues(dest, load, sender)
  <2>1. /\ ~Wakes(dest, sender)
        /\ msg_inbox' = [msg_inbox EXCEPT ![dest] = Append(@, m)]
        /\ UNCHANGED <<blocked, received>>
    BY <1>5 DEF SendQueues
  <2>2. s \notin Wanted(dest)
    <3>1. CASE dest \in blocked
      <4>1. dest \notin Ready /\ dest # current_process
        BY <3>1 DEF IInv, Placement, PlacedOnce
      <4>2. reg_a1[dest] # s /\ reg_a1[dest] # ANYMESSAGE
        BY <2>1, <4>1 DEF Wakes, is_waiting_for_me
      <4> QED BY <3>1, <4>2 DEF Wanted
    <3> QED BY <3>1 DEF Wanted
  <2>3. \A r \in Pcb : Wanted(r)' = Wanted(r)
    BY <2>1 DEF Wanted
  <2>4. \A t \in Sender, r \in Pcb :
           ChannelOf(t, r)' = IF t = m.sender /\ r = dest
                              THEN Append(ChannelOf(m.sender, dest), m.payload)
                              ELSE ChannelOf(t, r)
    <3> HIDE DEF m
    <3> QED BY <1>1, <1>2, <2>1, ChannelGrows
  <2>5. C!Send(s, dest, load)
    BY <1>1, <1>2, <2>1, <2>2, <2>3, <2>4, SendMaps
  <2> QED BY <1>1, <2>5 DEF C!ChanNext
<1> QED BY <1>3, <1>4, <1>5 DEF SendMessage

(* SYS2 returns the head of a channel the caller accepts from, or suspends *)
(* it when all of those are empty.                                         *)
LEMMA ReceiveChannels ==
    ASSUME IInv, NEW p \in Alive,
           NEW src \in {ANYMESSAGE, SSI_FAKE_ADDR} \cup (Alive \ {ssi_pcb_real}),
           SysReceive(p, src)
    PROVE  C!ChanNext
<1>1. /\ current_process = p /\ p \in Pcb /\ p \notin blocked
      /\ msg_inbox[p] \in Seq(Message) /\ Wanted(p) = {}
  BY Addresses DEF SysReceive, Running, IInv, TypeOK, Placement, PlacedOnce, Wanted
<1>2. src \in Sender \cup {ANYMESSAGE}
  BY Addresses
<1>3. CASE ReceivePops(p, src)
  <2>1. PICK i \in Matching(p, src) :
           /\ \A j \in Matching(p, src) : i <= j
           /\ received' = [received EXCEPT ![p] = msg_inbox[p][i]]
           /\ msg_inbox' = [msg_inbox EXCEPT ![p] = RemoveAt(@, i)]
           /\ UNCHANGED <<blocked, reg_a1>>
    BY <1>3 DEF ReceivePops
  <2>2. PICK s : s = msg_inbox[p][i].sender
    OBVIOUS
  <2>3. i \in DOMAIN msg_inbox[p] /\ (src = ANYMESSAGE \/ src = s)
    BY <2>1, <2>2 DEF Matching, Matches
  <2>4. \A j \in DOMAIN msg_inbox[p] : msg_inbox[p][j].sender = s => i <= j
    BY <2>1, <2>3 DEF Matching, Matches
  <2>5. s \in Sender /\ msg_inbox[p][i] = [sender |-> s, payload |-> msg_inbox[p][i].payload]
    <3>1. msg_inbox[p][i] \in Message
      BY <1>1, <2>3, ElementOfSeq, LenProperties
    <3> QED BY <2>2, <3>1 DEF Message
  <2>6. /\ ChannelOf(s, p) # <<>>
        /\ Head(ChannelOf(s, p)) = msg_inbox[p][i].payload
        /\ \A t \in Sender, r \in Pcb :
              ChannelOf(t, r)' = IF t = s /\ r = p THEN Tail(ChannelOf(s, p))
                                 ELSE ChannelOf(t, r)
    <3>1. /\ p \in Pcb /\ i \in DOMAIN msg_inbox[p]
      BY <1>1, <2>1, <2>3
    <3>2. /\ msg_inbox'[p] = RemoveAt(msg_inbox[p], i)
          /\ \A r \in Pcb \ {p} : msg_inbox'[r] = msg_inbox[r]
      BY <1>1, <2>1 DEF IInv, TypeOK
    <3> QED BY <2>2, <2>4, <3>1, <3>2, ChannelShrinks
  <2>7. received' = [received EXCEPT
                        ![p] = [sender |-> s, payload |-> Head(ChannelOf(s, p))]]
    BY <2>1, <2>5, <2>6
  <2>8. \A r \in Pcb : Wanted(r)' = Wanted(r)
    BY <2>1 DEF Wanted
  <2>9. C!Receive(p, src)
    BY <1>1, <2>3, <2>5, <2>6, <2>7, <2>8, ReceiveMaps
  <2> QED BY <1>1, <1>2, <2>9 DEF C!ChanNext
<1>4. CASE ReceiveBlocks(p, src)
  <2>1. /\ Matching(p, src) = {}
        /\ blocked' = blocked \cup {p}
        /\ reg_a1' = [reg_a1 EXCEPT ![p] = src]
        /\ received' = [received EXCEPT ![p] = NoMessage]
        /\ UNCHANGED msg_inbox
    BY <1>4 DEF ReceiveBlocks
  <2>2. ASSUME NEW t \in Sender, src \in {ANYMESSAGE, t}  PROVE ChannelOf(t, p) = <<>>
    <3>1. \A j \in DOMAIN msg_inbox[p] : msg_inbox[p][j].sender # t
      BY <2>1, <2>2 DEF Matching, Matches
    <3> QED BY <1>1, <3>1, SentByNobody DEF ChannelOf
  <2>3. \A r \in Pcb : Wanted(r)' = IF r = p
                                    THEN IF src = ANYMESSAGE THEN Sender ELSE {src}
                                    ELSE Wanted(r)
    BY <1>1, <2>1 DEF Wanted, IInv, TypeOK
  <2>4. \A t \in Sender, r \in Pcb : ChannelOf(t, r)' = ChannelOf(t, r)
    BY <2>1, ChannelsKept
  <2>5. C!Suspend(p, src)
    BY <1>1, <1>2, <2>1, <2>2, <2>3, <2>4, SuspendMaps
  <2> QED BY <1>1, <1>2, <2>5 DEF C!ChanNext
<1> QED BY <1>3, <1>4 DEF SysReceive

LEMMA InitChannels == IpcInit => C!ChanInit
<1> SUFFICES ASSUME IpcInit PROVE C!ChanInit
  OBVIOUS
<1>1. ASSUME NEW t \in Sender, NEW r \in Pcb  PROVE ChannelOf(t, r) = <<>>
  <2>1. msg_inbox[r] = <<>>
    BY DEF IpcInit
  <2>2. <<>> \in Seq(Message) /\ \A j \in DOMAIN (<<>>) : FALSE
    BY EmptySeq
  <2> QED BY <2>1, <2>2, SentByNobody DEF ChannelOf
<1>2. \A r \in Pcb : Wanted(r) \in {{}, Sender}
  BY DEF IpcInit, Wanted
<1> QED BY <1>1, <1>2 DEF IpcInit, C!ChanInit

LEMMA NextChannels == IInv /\ [IpcNext]_ipcVars => [C!ChanNext]_(C!chanVars)
<1> SUFFICES ASSUME IInv, [IpcNext]_ipcVars PROVE [C!ChanNext]_(C!chanVars)
  OBVIOUS
<1>1. ASSUME UNCHANGED <<msg_inbox, blocked, received>>,
             \A r \in blocked : reg_a1'[r] = reg_a1[r]
      PROVE  [C!ChanNext]_(C!chanVars)
  <2>1. \A r \in Pcb : Wanted(r)' = Wanted(r)
    BY <1>1 DEF Wanted
  <2>2. \A t \in Sender, r \in Pcb : ChannelOf(t, r)' = ChannelOf(t, r)
    BY <1>1, ChannelsKept
  <2> QED BY <1>1, <2>1, <2>2, StutterMaps
<1>2. CASE UNCHANGED ipcVars
  BY <1>1, <1>2 DEF ipcVars, msgVars
<1>3. ASSUME NEW p \in Alive, NEW to \in {PARENT, SSI_FAKE_ADDR} \cup Pcb,
             NEW load \in Load, SysSend(p, to, load)
      PROVE  [C!ChanNext]_(C!chanVars)
  <2>1. CASE ~isPcbValid(Destination(p, to))
    BY <1>1, <1>3, <2>1 DEF SysSend, msgVars
  <2>2. CASE isPcbValid(Destination(p, to))
    <3>1. /\ SendMessage(Destination(p, to), load, p) /\ UNCHANGED reg_a1
          /\ Destination(p, to) \in Live /\ p \in Pcb
      BY <1>3, <2>2, Addresses DEF SysSend, isPcbValid
    <3> QED BY <3>1, SendChannels
  <2> QED BY <2>1, <2>2
<1>4. ASSUME NEW p \in Alive,
             NEW src \in {ANYMESSAGE, SSI_FAKE_ADDR} \cup (Alive \ {ssi_pcb_real}),
             SysReceive(p, src)
      PROVE  [C!ChanNext]_(C!chanVars)
  BY <1>4, ReceiveChannels
<1>5. CASE PltInterrupt
  <2>1. /\ current_process \notin blocked
        /\ reg_a1' = [reg_a1 EXCEPT ![current_process] = SCRATCH]
        /\ UNCHANGED msgVars /\ blocked \subseteq Pcb
        /\ reg_a1 \in [Pcb -> {SCRATCH, ANYMESSAGE} \cup Sender]
    BY <1>5 DEF PltInterrupt, IInv, Placement, PlacedOnce, TypeOK
  <2>2. \A r \in blocked : reg_a1'[r] = reg_a1[r]
    BY <2>1
  <2> QED BY <1>1, <2>1, <2>2 DEF msgVars
<1>6. ASSUME NEW load \in Load, Interrupt(load)
      PROVE  [C!ChanNext]_(C!chanVars)
  <2>1. /\ SendMessage(ssi_pcb_real, load, INTERRUPT_HANDLER_MSG) /\ UNCHANGED reg_a1
        /\ ssi_pcb_real \in Live
    BY <1>6 DEF Interrupt, IInv, CurrentRuns
  <2> QED BY <2>1, SendChannels
<1>7. CASE Stopped
  BY <1>2, <1>7 DEF Stopped
<1> QED BY <1>2, <1>3, <1>4, <1>5, <1>6, <1>7 DEF IpcNext

(* Every behaviour of SYS1, SYS2, the interrupts and the scheduler is one  *)
(* of Channels: a message is never lost, duplicated or overtaken by a      *)
(* later one of the same sender, and a receiver is suspended only while    *)
(* there is nothing for it.                                                *)
THEOREM ChannelsImplemented == IpcSpec => ImplementsChannels
<1> QED BY InitChannels, NextChannels, Invariance, PTL
        DEF IpcSpec, ImplementsChannels, C!ChanSpec
-----------------------------------------------------------------------------
(* How many messages the inboxes of the first n PCBs hold, n by n.         *)
Size(inbox, live, n) == IF n + 2 \in live THEN Len(inbox[n + 2]) ELSE 0

Counts(inbox, live) ==
    {held \in [0..MaxProc -> Nat] :
        /\ held[0] = 0
        /\ \A n \in 1..MaxProc : held[n] = held[n - 1] + Size(inbox, live, n)}

LEMMA SizeNat ==
    ASSUME NEW inbox \in [Pcb -> Seq(Message)], NEW live \in SUBSET Pcb, NEW n \in 1..MaxProc
    PROVE  Size(inbox, live, n) \in Nat
<1>1. CASE n + 2 \in live
  <2>1. inbox[n + 2] \in Seq(Message)
    BY <1>1
  <2>2. Len(inbox[n + 2]) \in Nat
    BY <2>1, LenProperties
  <2> QED BY <1>1, <2>2 DEF Size
<1> QED BY <1>1 DEF Size

LEMMA HeldCounts ==
    ASSUME NEW inbox \in [Pcb -> Seq(Message)], NEW live \in SUBSET Pcb
    PROVE  \E held \in Counts(inbox, live) : held[MaxProc] = Held(inbox, live)
<1> DEFINE held == CHOOSE f : f = [n \in 0..MaxProc |->
                                      IF n = 0 THEN 0
                                      ELSE f[n - 1] + Size(inbox, live, n)]
<1>1. MaxProc \in Nat /\ 0 \in Nat
  BY IpcAssumption
<1>2. PICK step \in [(1..MaxProc) \X Nat -> Nat] :
         \A n \in 1..MaxProc, r \in Nat : step[<<n, r>>] = r + Size(inbox, live, n)
  <2> DEFINE f == [k \in (1..MaxProc) \X Nat |-> k[2] + Size(inbox, live, k[1])]
  <2>1. f \in [(1..MaxProc) \X Nat -> Nat]
    BY SizeNat
  <2>2. \A n \in 1..MaxProc, r \in Nat : f[<<n, r>>] = r + Size(inbox, live, n)
    OBVIOUS
  <2> QED BY <2>1, <2>2
<1>3. PICK g \in [0..MaxProc -> Nat] :
         g[0] = 0 /\ \A i \in 1..MaxProc : g[i] = step[<<i, g[i - 1]>>]
  <2>1. Passes(MaxProc, Nat, 0, step) # {}
    BY <1>1, Repeated
  <2> QED BY <2>1 DEF Passes
<1>4. \A i \in 1..MaxProc : g[i] = g[i - 1] + Size(inbox, live, i)
  <2>1. \A i \in 1..MaxProc : g[i - 1] \in Nat
    BY <1>1
  <2> QED BY <1>2, <1>3, <2>1
<1>5. g = [n \in 0..MaxProc |-> IF n = 0 THEN 0 ELSE g[n - 1] + Size(inbox, live, n)]
  BY <1>1, <1>3, <1>4
<1>6. held = [n \in 0..MaxProc |-> IF n = 0 THEN 0 ELSE held[n - 1] + Size(inbox, live, n)]
  BY <1>5
<1>7. Held(inbox, live) = held[MaxProc]
  BY DEF Held, Size
<1> HIDE DEF held
<1>8. \A n \in 1..MaxProc : held[n] = held[n - 1] + Size(inbox, live, n)
  BY <1>1, <1>6
<1>9. held[0] = 0
  BY <1>1, <1>6
<1>10. held \in [0..MaxProc -> Nat]
  <2> DEFINE P == {n \in 0..MaxProc : held[n] \in Nat}
  <2>1. 0 \in P
    BY <1>1, <1>9
  <2>2. ASSUME NEW i \in 1..MaxProc, i - 1 \in P  PROVE i \in P
    <3>1. held[i - 1] \in Nat
      BY <2>2
    <3>2. Size(inbox, live, i) \in Nat
      BY SizeNat
    <3>3. held[i] = held[i - 1] + Size(inbox, live, i)
      BY <1>8
    <3> QED BY <1>1, <3>1, <3>2, <3>3
  <2>3. 0..MaxProc \subseteq P
    <3> HIDE DEF P
    <3> QED BY <1>1, <2>1, <2>2, Upwards
  <2>4. \A n \in 0..MaxProc : held[n] \in Nat
    BY <2>3
  <2> QED BY <1>6, <2>4
<1>11. held \in Counts(inbox, live)
  BY <1>8, <1>9, <1>10 DEF Counts
<1> QED BY <1>7, <1>11

(* No messages in empty inboxes.                                           *)
LEMMA HeldNone ==
    ASSUME NEW inbox \in [Pcb -> Seq(Message)], NEW live \in SUBSET Pcb,
           \A p \in Pcb : Len(inbox[p]) = 0
    PROVE  Held(inbox, live) = 0
<1>1. PICK g \in Counts(inbox, live) : g[MaxProc] = Held(inbox, live)
  BY HeldCounts
<1>2. MaxProc \in Nat
  BY IpcAssumption
<1> DEFINE P == {n \in 0..MaxProc : g[n] = 0}
<1>3. 0 \in P
  BY <1>2 DEF Counts
<1>4. ASSUME NEW i \in 1..MaxProc, i - 1 \in P  PROVE i \in P
  <2>1. Size(inbox, live, i) = 0
    BY DEF Size
  <2>2. g[i] = g[i - 1] + Size(inbox, live, i)
    BY DEF Counts
  <2> QED BY <1>4, <2>1, <2>2
<1>5. 0..MaxProc \subseteq P
  <2> HIDE DEF P
  <2> QED BY <1>2, <1>3, <1>4, Upwards
<1> QED BY <1>1, <1>2, <1>5

(* A change of one inbox counts once.                                      *)
LEMMA HeldChange ==
    ASSUME NEW inbox \in [Pcb -> Seq(Message)], NEW other \in [Pcb -> Seq(Message)],
           NEW live \in SUBSET Pcb, NEW p \in live,
           \A r \in Pcb \ {p} : other[r] = inbox[r]
    PROVE  /\ Held(inbox, live) \in Nat /\ Held(other, live) \in Nat
           /\ Len(inbox[p]) \in Nat /\ Len(other[p]) \in Nat
           /\ Held(other, live) + Len(inbox[p]) = Held(inbox, live) + Len(other[p])
<1>1. PICK g \in Counts(inbox, live) : g[MaxProc] = Held(inbox, live)
  BY HeldCounts
<1>2. PICK h \in Counts(other, live) : h[MaxProc] = Held(other, live)
  BY HeldCounts
<1>3. MaxProc \in Nat /\ p \in Pcb /\ p - 2 \in 1..MaxProc /\ (p - 2) + 2 = p
  BY IpcAssumption DEF Pcb
<1>4. PICK a, b, k : a = Len(inbox[p]) /\ b = Len(other[p]) /\ k = p - 2
  OBVIOUS
<1>5. a \in Nat /\ b \in Nat
  <2>1. inbox[p] \in Seq(Message) /\ other[p] \in Seq(Message)
    BY <1>3
  <2> QED BY <1>4, <2>1, LenProperties
<1>6. \A n \in 0..MaxProc : g[n] \in Nat /\ h[n] \in Nat
  BY <1>1, <1>2 DEF Counts
<1>7. Size(inbox, live, k) = a /\ Size(other, live, k) = b
  BY <1>3, <1>4 DEF Size
<1>8. ASSUME NEW n \in 1..MaxProc, n # k
      PROVE  Size(other, live, n) = Size(inbox, live, n) /\ Size(inbox, live, n) \in Nat
  <2>1. n + 2 # p /\ n + 2 \in Pcb
    BY <1>3, <1>4, <1>8, IpcAssumption DEF Pcb
  <2>2. other[n + 2] = inbox[n + 2]
    BY <2>1
  <2> QED BY <2>2, SizeNat DEF Size
<1> DEFINE P == {n \in 0..MaxProc : /\ n < k => h[n] = g[n]
                                    /\ n >= k => h[n] + a = g[n] + b}
<1>9. 0 \in P
  BY <1>1, <1>2, <1>3, <1>4 DEF Counts
<1>10. ASSUME NEW i \in 1..MaxProc, i - 1 \in P  PROVE i \in P
  <2>1. g[i] = g[i - 1] + Size(inbox, live, i) /\ h[i] = h[i - 1] + Size(other, live, i)
    BY <1>1, <1>2 DEF Counts
  <2>2. g[i - 1] \in Nat /\ h[i - 1] \in Nat
    BY <1>3, <1>6
  <2>3. CASE i = k
    <3>1. h[i - 1] = g[i - 1]
      BY <1>3, <1>4, <1>10, <2>3
    <3> QED BY <1>5, <1>7, <2>1, <2>2, <2>3, <3>1
  <2>4. CASE i < k
    <3>1. h[i - 1] = g[i - 1]
      BY <1>3, <1>4, <1>10, <2>4
    <3>2. h[i] = g[i]
      BY <1>3, <1>4, <1>8, <2>1, <2>4, <3>1
    <3> QED BY <1>3, <1>4, <2>4, <3>2
  <2>5. CASE i > k
    <3>1. h[i - 1] + a = g[i - 1] + b
      BY <1>3, <1>4, <1>10, <2>5
    <3>2. Size(other, live, i) = Size(inbox, live, i) /\ Size(inbox, live, i) \in Nat
      BY <1>3, <1>4, <1>8, <2>5
    <3>3. h[i] + a = g[i] + b
      <4>1. PICK x, y, z : x = g[i - 1] /\ y = h[i - 1] /\ z = Size(inbox, live, i)
        OBVIOUS
      <4>2. x \in Nat /\ y \in Nat /\ z \in Nat /\ y + a = x + b
        BY <2>2, <3>1, <3>2, <4>1
      <4>3. g[i] = x + z /\ h[i] = y + z
        BY <2>1, <3>2, <4>1
      <4>4. (y + z) + a = (x + z) + b
        BY <1>5, <4>2
      <4> QED BY <4>3, <4>4
    <3> QED BY <1>3, <1>4, <2>5, <3>3
  <2> QED BY <1>3, <1>4, <2>3, <2>4, <2>5
<1>11. 0..MaxProc \subseteq P
  <2> HIDE DEF P
  <2> QED BY <1>3, <1>9, <1>10, Upwards
<1>12. h[MaxProc] + a = g[MaxProc] + b
  BY <1>3, <1>4, <1>11
<1>13. g[MaxProc] \in Nat /\ h[MaxProc] \in Nat
  BY <1>3, <1>6
<1> QED BY <1>1, <1>2, <1>4, <1>5, <1>12, <1>13

(* send_message() moves a message from the free list to an inbox, or takes *)
(* none.                                                                   *)
LEMMA SendCounts ==
    ASSUME IInv, MsgPoolExact, NEW dest \in Live, NEW load \in Load,
           NEW sender \in Pcb \cup {INTERRUPT_HANDLER_MSG},
           SendMessage(dest, load, sender), UNCHANGED procVars
    PROVE  MsgPoolExact'
<1>1. Live' = Live /\ Live \in SUBSET Pcb
  BY DEF procVars, Live
<1>2. msg_inbox \in [Pcb -> Seq(Message)] /\ msgFree \in Nat
  BY DEF IInv, TypeOK
<1>3. CASE SendQueues(dest, load, sender)
  <2> DEFINE m == [sender |-> Alias(sender), payload |-> load]
  <2>1. m \in Message /\ dest \in Pcb
    BY <1>1, Addresses DEF Message
  <2>2. /\ msgFree > 0 /\ msgFree' = msgFree - 1
        /\ msg_inbox' = [msg_inbox EXCEPT ![dest] = Append(@, m)]
    BY <1>3 DEF SendQueues
  <2> HIDE DEF m
  <2>3. PICK other : other = msg_inbox'
    OBVIOUS
  <2>4. msg_inbox[dest] \in Seq(Message)
    BY <1>2, <2>1
  <2>5. Append(msg_inbox[dest], m) \in Seq(Message)
    BY <2>1, <2>4, AppendProperties
  <2>6. Len(Append(msg_inbox[dest], m)) = Len(msg_inbox[dest]) + 1
    BY <2>1, <2>4, AppendProperties
  <2>7. /\ other \in [Pcb -> Seq(Message)] /\ other[dest] = Append(msg_inbox[dest], m)
        /\ \A r \in Pcb \ {dest} : other[r] = msg_inbox[r]
    BY <1>2, <2>1, <2>2, <2>3, <2>5
  <2>8. /\ Held(msg_inbox, Live) \in Nat /\ Held(other, Live) \in Nat
        /\ Len(msg_inbox[dest]) \in Nat
        /\ Held(other, Live) + Len(msg_inbox[dest])
             = Held(msg_inbox, Live) + Len(other[dest])
    BY <1>1, <1>2, <2>7, HeldChange
  <2>9. Held(other, Live) = Held(msg_inbox, Live) + 1
    BY <2>6, <2>7, <2>8
  <2> QED BY <1>1, <1>2, <2>2, <2>3, <2>8, <2>9 DEF MsgPoolExact
<1>4. CASE UNCHANGED <<msg_inbox, msgFree>>
  BY <1>1, <1>4 DEF MsgPoolExact
<1> QED BY <1>3, <1>4 DEF SendMessage, SendFails, SendDelivers, msgVars

LEMMA NextMsgPool == IInv /\ MsgPoolExact /\ [IpcNext]_ipcVars => MsgPoolExact'
<1> SUFFICES ASSUME IInv, MsgPoolExact, [IpcNext]_ipcVars PROVE MsgPoolExact'
  OBVIOUS
<1>1. CASE UNCHANGED <<msg_inbox, msgFree, procVars>>
  BY <1>1 DEF MsgPoolExact, procVars, Live
<1>2. CASE UNCHANGED ipcVars
  BY <1>1, <1>2 DEF ipcVars, msgVars
<1>3. ASSUME NEW p \in Alive, NEW to \in {PARENT, SSI_FAKE_ADDR} \cup Pcb,
             NEW load \in Load, SysSend(p, to, load)
      PROVE  MsgPoolExact'
  <2>1. CASE ~isPcbValid(Destination(p, to))
    BY <1>1, <1>3, <2>1 DEF SysSend, msgVars
  <2>2. CASE isPcbValid(Destination(p, to))
    <3>1. /\ SendMessage(Destination(p, to), load, p) /\ UNCHANGED procVars
          /\ Destination(p, to) \in Live /\ p \in Pcb
      BY <1>3, <2>2, Addresses DEF SysSend, isPcbValid
    <3> QED BY <3>1, SendCounts
  <2> QED BY <2>1, <2>2
<1>4. ASSUME NEW p \in Alive,
             NEW src \in {ANYMESSAGE, SSI_FAKE_ADDR} \cup (Alive \ {ssi_pcb_real}),
             SysReceive(p, src)
      PROVE  MsgPoolExact'
  <2>1. CASE ReceiveBlocks(p, src)
    BY <1>1, <2>1 DEF ReceiveBlocks
  <2>2. CASE ReceivePops(p, src)
    <3>1. PICK i \in DOMAIN msg_inbox[p] :
             /\ msg_inbox' = [msg_inbox EXCEPT ![p] = RemoveAt(@, i)]
             /\ msgFree' = msgFree + 1
             /\ UNCHANGED procVars
      BY <2>2 DEF ReceivePops, Matching
    <3>2. /\ p \in Live /\ Live' = Live /\ Live \in SUBSET Pcb /\ p \in Pcb
          /\ msg_inbox \in [Pcb -> Seq(Message)] /\ msgFree \in Nat
          /\ msg_inbox[p] \in Seq(Message)
      BY <1>4, <3>1, Addresses DEF SysReceive, Running, IInv, TypeOK, Placement, Placed,
                                   Live, procVars
    <3>3. PICK other, q : other = msg_inbox' /\ q = msg_inbox[p]
      OBVIOUS
    <3>4. RemoveAt(q, i) \in Seq(Message) /\ Len(RemoveAt(q, i)) = Len(q) - 1
      BY <3>2, <3>3, RemoveAtType, RemoveAtLength
    <3>5. /\ other \in [Pcb -> Seq(Message)] /\ other[p] = RemoveAt(q, i)
          /\ \A r \in Pcb \ {p} : other[r] = msg_inbox[r]
      BY <3>1, <3>2, <3>3, <3>4
    <3>6. /\ Held(msg_inbox, Live) \in Nat /\ Held(other, Live) \in Nat
          /\ Len(q) \in Nat
          /\ Held(other, Live) + Len(q) = Held(msg_inbox, Live) + Len(other[p])
      BY <3>2, <3>3, <3>5, HeldChange
    <3>7. Held(msg_inbox, Live) = Held(other, Live) + 1
      BY <3>4, <3>5, <3>6
    <3> QED BY <3>1, <3>2, <3>3, <3>6, <3>7 DEF MsgPoolExact
  <2> QED BY <1>4, <2>1, <2>2 DEF SysReceive
<1>5. CASE PltInterrupt
  BY <1>1, <1>5 DEF PltInterrupt, msgVars
<1>6. ASSUME NEW load \in Load, Interrupt(load)
      PROVE  MsgPoolExact'
  <2>1. /\ SendMessage(ssi_pcb_real, load, INTERRUPT_HANDLER_MSG) /\ UNCHANGED procVars
        /\ ssi_pcb_real \in Live
    BY <1>6 DEF Interrupt, IInv, CurrentRuns
  <2> QED BY <2>1, SendCounts
<1>7. CASE Stopped
  BY <1>2, <1>7 DEF Stopped
<1> QED BY <1>2, <1>3, <1>4, <1>5, <1>6, <1>7 DEF IpcNext

(* No message of msgTable is lost and none is in use twice: at every time  *)
(* the free ones and those in the inboxes of live processes are            *)
(* MAXMESSAGES together.                                                   *)
THEOREM NoMessageLeaks == IpcSpec => []MsgPoolExact
<1>1. IpcInit => MsgPoolExact
  <2> SUFFICES ASSUME IpcInit PROVE MsgPoolExact
    OBVIOUS
  <2>1. IInv
    BY InitIInv
  <2>2. /\ msg_inbox \in [Pcb -> Seq(Message)] /\ Live \in SUBSET Pcb
        /\ \A p \in Pcb : msg_inbox[p] = <<>>
    BY <2>1 DEF IInv, TypeOK, IpcInit, Live
  <2>3. Len(<<>>) = 0
    OBVIOUS
  <2>4. Held(msg_inbox, Live) = 0
    BY <2>2, <2>3, HeldNone
  <2> QED BY <2>4, IpcAssumption DEF IpcInit, MsgPoolExact
<1> QED BY <1>1, Invariance, NextMsgPool, PTL DEF IpcSpec
=============================================================================
