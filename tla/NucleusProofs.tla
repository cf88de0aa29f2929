---------------------------- MODULE NucleusProofs ---------------------------
(***************************************************************************)
(* Proofs about Spec of module Nucleus: its types, which hold whatever     *)
(* programs do; and what it keeps of processes, of their families and of   *)
(* their requests to the SSI when programs keep the discipline of MayDie,  *)
(* MayTerminate and MaySend (Liberty = {}).                                *)
(***************************************************************************)
EXTENDS Nucleus, IpcProofs

(* The processes other than the SSI.                                       *)
User == Pcb \ {ssi_pcb_real}

LEMMA Names ==
    /\ NULL \notin Pcb /\ NOPROC \notin Pcb /\ Pcb \subseteq Address
    /\ NULL \in Address /\ SSI_FAKE_ADDR \in Address
    /\ ssi_pcb_real \in Pcb /\ test_pcb \in User
    /\ SSI_FAKE_ADDR \notin Pcb /\ INTERRUPT_HANDLER_MSG \notin Pcb
    /\ SSI_FAKE_ADDR # INTERRUPT_HANDLER_MSG /\ NULL # SSI_FAKE_ADDR
    /\ \A p \in User : Alias(p) = p /\ p \in Sender
    /\ Alias(ssi_pcb_real) = SSI_FAKE_ADDR
    /\ Alias(INTERRUPT_HANDLER_MSG) = INTERRUPT_HANDLER_MSG
    /\ INTERRUPT_HANDLER_MSG \in Sender /\ SSI_FAKE_ADDR \in Sender
    /\ ANYMESSAGE = NULL /\ PARENT = NULL /\ ANYMESSAGE \notin Sender
    /\ SCRATCH \notin Sender \cup {ANYMESSAGE}
BY IpcAssumption
   DEF NULL, NOPROC, Pcb, Address, User, ssi_pcb_real, test_pcb, Alias, Sender,
       SSI_FAKE_ADDR, INTERRUPT_HANDLER_MSG, ANYMESSAGE, SCRATCH, PARENT

(* Every payload the kernel and the programs send is a Load.               *)
LEMMA Loads ==
    /\ Request \subseteq Load /\ Event \subseteq Load /\ Reply \subseteq Load
    /\ Data \in Load
BY NucleusAssumption DEF NucleusLoad
-----------------------------------------------------------------------------
(* Queues.                                                                 *)

(* Pushing on a stack, or on the free list.                                *)
LEMMA Push ==
    ASSUME NEW T, NEW q \in Seq(T), NEW e \in T
    PROVE  /\ <<e>> \o q \in Seq(T) /\ <<e>> \o q # <<>>
           /\ Head(<<e>> \o q) = e /\ Tail(<<e>> \o q) = q
           /\ ToSet(<<e>> \o q) = {e} \cup ToSet(q)
           /\ Once(q) /\ e \notin ToSet(q) => Once(<<e>> \o q)
<1>1. PICK r, n : r = <<e>> \o q /\ n = Len(q)
  OBVIOUS
<1>2. n \in Nat /\ DOMAIN q = 1..n /\ \A i \in 1..n : q[i] \in T
  BY <1>1, LenProperties, ElementOfSeq
<1>3. <<e>> \in Seq(T) /\ Len(<<e>>) = 1 /\ <<e>>[1] = e
  OBVIOUS
<1>4. /\ r \in Seq(T) /\ Len(r) = n + 1
      /\ \A i \in 1..(n + 1) : r[i] = IF i <= 1 THEN <<e>>[i] ELSE q[i - 1]
  <2>1. /\ <<e>> \o q \in Seq(T)
        /\ Len(<<e>> \o q) = Len(<<e>>) + Len(q)
        /\ \A i \in 1..(Len(<<e>>) + Len(q)) :
              (<<e>> \o q)[i] = IF i <= Len(<<e>>) THEN <<e>>[i] ELSE q[i - Len(<<e>>)]
    BY <1>3, ConcatProperties
  <2> QED BY <1>1, <1>2, <1>3, <2>1
<1>5. DOMAIN r = 1..(n + 1)
  BY <1>4, LenProperties
<1>6. r[1] = e /\ \A i \in 1..n : r[i + 1] = q[i]
  BY <1>2, <1>3, <1>4
<1>7. r # <<>>
  BY <1>2, <1>4, EmptySeq
<1>8. Head(r) = e
  BY <1>4, <1>6, <1>7, HeadTailProperties
<1>9. Tail(r) = q
  <2>1. PICK t : t = Tail(r)
    OBVIOUS
  <2>2. t \in Seq(T) /\ DOMAIN t = 1..(Len(r) - 1) /\ \A j \in DOMAIN t : t[j] = r[j + 1]
    BY <1>4, <1>7, <2>1, TailElements
  <2>3. DOMAIN t = 1..n
    BY <1>2, <1>4, <2>2
  <2>4. Len(t) = Len(q)
    <3>1. Len(t) \in Nat /\ 1..Len(t) = 1..n
      BY <2>2, <2>3, LenProperties
    <3> QED BY <1>1, <1>2, <3>1
  <2>5. \A j \in 1..n : t[j] = q[j]
    BY <1>6, <2>2, <2>3
  <2> QED BY <1>1, <2>1, <2>2, <2>4, <2>5, SeqEqual
<1>10. ToSet(r) = {e} \cup ToSet(q)
  <2>1. ToSet(r) \subseteq {e} \cup ToSet(q)
    <3>1. \A i \in 1..(n + 1) : i = 1 \/ (i - 1 \in 1..n /\ r[i] = q[i - 1])
      BY <1>2, <1>4
    <3>2. ASSUME NEW i \in 1..(n + 1)  PROVE r[i] \in {e} \cup ToSet(q)
      <4>1. CASE i = 1
        BY <1>6, <4>1
      <4>2. CASE i # 1
        BY <1>2, <3>1, <4>2 DEF ToSet
      <4> QED BY <4>1, <4>2
    <3> QED BY <1>5, <3>2 DEF ToSet
  <2>2. ASSUME NEW x \in ToSet(q)  PROVE x \in ToSet(r)
    <3>1. PICK i \in 1..n : q[i] = x
      BY <1>2, <2>2 DEF ToSet
    <3>2. i + 1 \in 1..(n + 1) /\ r[i + 1] = x
      BY <1>2, <1>6, <3>1
    <3> QED BY <1>5, <3>2 DEF ToSet
  <2>3. e \in ToSet(r)
    <3>1. 1 \in 1..(n + 1)
      BY <1>2
    <3> QED BY <1>5, <1>6, <3>1 DEF ToSet
  <2> QED BY <2>1, <2>2, <2>3
<1>11. ASSUME Once(q), e \notin ToSet(q)  PROVE Once(r)
  <2>1. \A i \in 1..(n + 1) : i = 1 \/ (i - 1 \in 1..n /\ r[i] = q[i - 1])
    BY <1>2, <1>4
  <2>2. \A i \in 1..n : q[i] # e
    BY <1>2, <1>11 DEF ToSet
  <2>3. ASSUME NEW i \in 1..(n + 1), NEW j \in 1..(n + 1), r[i] = r[j]  PROVE i = j
    <3>1. CASE i = 1 \/ j = 1
      BY <1>6, <2>1, <2>2, <2>3, <3>1
    <3>2. CASE i # 1 /\ j # 1
      <4>1. i - 1 \in 1..n /\ j - 1 \in 1..n /\ q[i - 1] = q[j - 1]
        BY <2>1, <2>3, <3>2
      <4>2. i - 1 = j - 1
        BY <1>2, <1>11, <4>1 DEF Once
      <4> QED BY <4>2
    <3> QED BY <3>1, <3>2
  <2> QED BY <1>5, <2>3 DEF Once
<1> QED BY <1>1, <1>4, <1>7, <1>8, <1>9, <1>10, <1>11

(* Unlinking.  What is not the entry stays, as often as it was there.      *)
LEMMA WithoutRange ==
    ASSUME NEW T, NEW q \in Seq(T), NEW p
    PROVE  /\ Without(q, p) \in Seq(T)
           /\ ToSet(Without(q, p)) \subseteq ToSet(q)
           /\ ToSet(q) \ {p} \subseteq ToSet(Without(q, p))
           /\ \A M : AtMostOne(q, M) => AtMostOne(Without(q, p), M)
           /\ \A x : x # p /\ AtMostOne(q, {x}) => (x \in ToSet(Without(q, p)) <=> x \in ToSet(q))
           /\ Once(q) => Once(Without(q, p)) /\ ToSet(Without(q, p)) = ToSet(q) \ {p}
           /\ p \notin ToSet(q) => Without(q, p) = q
<1>1. CASE p \notin ToSet(q)
  BY <1>1 DEF Without
<1>2. CASE p \in ToSet(q)
  <2>1. PICK i \in DOMAIN q : q[i] = p /\ Without(q, p) = RemoveAt(q, i)
    <3>1. \E i \in DOMAIN q : q[i] = p
      BY <1>2 DEF ToSet
    <3>2. (CHOOSE i \in DOMAIN q : q[i] = p) \in DOMAIN q /\ q[CHOOSE i \in DOMAIN q : q[i] = p] = p
      BY <3>1
    <3> QED BY <1>2, <3>2 DEF Without
  <2>2. PICK r : r = RemoveAt(q, i)
    OBVIOUS
  <2>3. /\ r \in Seq(T) /\ Len(q) \in Nat /\ DOMAIN q = 1..Len(q) /\ DOMAIN r = 1..(Len(q) - 1)
        /\ \A j \in DOMAIN r : Skip(i, j) \in DOMAIN q \ {i} /\ r[j] = q[Skip(i, j)]
    BY <2>2, RemoveAtType, RemoveAtElements, LenProperties
  <2>4. ToSet(r) \subseteq ToSet(q)
    BY <2>3 DEF ToSet
  <2>5. ASSUME NEW x \in ToSet(q), x # p  PROVE x \in ToSet(r)
    <3>1. PICK k \in DOMAIN q : q[k] = x /\ k # i
      BY <2>1, <2>5 DEF ToSet
    <3>2. CASE k < i
      <4>1. k \in DOMAIN r /\ Skip(i, k) = k
        BY <2>3, <3>1, <3>2 DEF Skip
      <4> QED BY <2>3, <3>1, <4>1 DEF ToSet
    <3>3. CASE k > i
      <4>1. k - 1 \in DOMAIN r /\ Skip(i, k - 1) = k
        BY <2>3, <3>1, <3>3 DEF Skip
      <4> QED BY <2>3, <3>1, <4>1 DEF ToSet
    <3> QED BY <2>3, <3>1, <3>2, <3>3
  <2>6. \A M : AtMostOne(q, M) => AtMostOne(r, M)
    BY <2>2, AmongRemoved
  <2>7. Once(q) => Once(r) /\ ToSet(r) = ToSet(q) \ {p}
    BY <2>1, <2>2, RemoveAtRange
  <2> QED BY <1>2, <2>1, <2>2, <2>3, <2>4, <2>5, <2>6, <2>7
<1> QED BY <1>1, <1>2

(* An entry that is linked once is no longer linked.                       *)
LEMMA AtMostOneOnce ==
    ASSUME NEW q, NEW x, Once(q)
    PROVE  AtMostOne(q, {x})
BY DEF Once, AtMostOne
-----------------------------------------------------------------------------
(* What the handlers of module Ipc do, in the terms the proofs use.        *)

(* A message m to dest is handed over, waits in the inbox, or is dropped   *)
(* because the pool is exhausted; ready is the ready queue afterwards.     *)
Wakeable(dest, m) ==
    dest \notin Ready /\ dest # current_process /\ reg_a1[dest] \in {m.sender, ANYMESSAGE}

Handed(dest, m, ready) ==
    /\ msgFree > 0 /\ Wakeable(dest, m)
    /\ blocked' = blocked \ {dest}
    /\ received' = [received EXCEPT ![dest] = m]
    /\ UNCHANGED <<msg_inbox, msgFree>>
    /\ ready = Append(ready_queue, dest)

Queued(dest, m, ready) ==
    /\ msgFree > 0 /\ ~Wakeable(dest, m)
    /\ msgFree' = msgFree - 1
    /\ msg_inbox' = [msg_inbox EXCEPT ![dest] = Append(@, m)]
    /\ UNCHANGED <<blocked, received>>
    /\ ready = ready_queue

Dropped(ready) == msgFree = 0 /\ UNCHANGED msgVars /\ ready = ready_queue

Sent(dest, m, ready) == Handed(dest, m, ready) \/ Queued(dest, m, ready) \/ Dropped(ready)

MessageOf(sender, load) == [sender |-> Alias(sender), payload |-> load]

LEMMA SendEffect ==
    ASSUME NEW dest, NEW load, NEW sender, SendMessage(dest, load, sender)
    PROVE  /\ Sent(dest, MessageOf(sender, load), ReadyAfter(dest, sender))
           /\ Delivers(dest, sender) <=> msgFree > 0 /\ Wakeable(dest, MessageOf(sender, load))
<1> DEFINE m == MessageOf(sender, load)
<1>1. Wakes(dest, sender) <=> Wakeable(dest, m)
  BY DEF Wakes, is_waiting_for_me, Wakeable, MessageOf
<1>2. CASE SendFails
  <2>1. ReadyAfter(dest, sender) = ready_queue
    BY <1>2 DEF SendFails, ReadyAfter, Delivers
  <2> QED BY <1>1, <1>2, <2>1 DEF SendFails, Dropped, Sent, Delivers
<1>3. CASE SendDelivers(dest, load, sender)
  <2>1. ReadyAfter(dest, sender) = Append(ready_queue, dest)
    BY <1>3 DEF SendDelivers, ReadyAfter
  <2> QED BY <1>1, <1>3, <2>1 DEF SendDelivers, Delivers, Handed, Sent, MessageOf
<1>4. CASE SendQueues(dest, load, sender)
  <2>1. ReadyAfter(dest, sender) = ready_queue
    BY <1>4 DEF SendQueues, ReadyAfter, Delivers
  <2> QED BY <1>1, <1>4, <2>1 DEF SendQueues, Delivers, Queued, Sent, MessageOf
<1> QED BY <1>2, <1>3, <1>4 DEF SendMessage

(* scheduler() and one process x: it is not lost, and linked once.         *)
LEMMA SchedulerTypes ==
    ASSUME NEW cur \in Pcb \cup {NULL}, NEW ready \in Seq(Pcb), Scheduler(cur, ready)
    PROVE  /\ ready_queue' \in Seq(Pcb)
           /\ current_process' \in Pcb \cup {NULL}
           /\ cpu' \in {"run", "wait", "halt", "panic"}
           /\ cpu' = "run" <=> current_process' # NULL
           /\ cur # NULL => current_process' = cur /\ ready_queue' = ready
<1>1. CASE cur # NULL /\ cpu' = "run" /\ current_process' = cur
               /\ ready_queue' = ready
  BY <1>1
<1>2. CASE cur = NULL /\ (\E kind \in {"halt", "wait", "panic"} : Idle(kind, ready))
  BY <1>2 DEF Idle
<1>3. CASE /\ cur = NULL /\ ready # <<>>
           /\ cpu' = "run" /\ current_process' = Head(ready)
           /\ ready_queue' = Tail(ready)
  <2>1. Head(ready) \in Pcb /\ Tail(ready) \in Seq(Pcb)
    BY <1>3, HeadTailProperties
  <2> QED BY <1>3, <2>1, Addresses
<1> QED BY <1>1, <1>2, <1>3 DEF Scheduler

LEMMA SchedulerKeeps ==
    ASSUME NEW cur \in Pcb \cup {NULL}, NEW ready \in Seq(Pcb), Scheduler(cur, ready),
           NEW x \in Pcb, AtMostOne(ready, {x}), x = cur => x \notin ToSet(ready)
    PROVE  /\ AtMostOne(ready_queue', {x})
           /\ x \in ToSet(ready_queue') => x # current_process'
           /\ x \in ToSet(ready_queue') \/ x = current_process'
                 <=> x \in ToSet(ready) \/ x = cur
<1>1. CASE cur # NULL /\ current_process' = cur /\ ready_queue' = ready
  BY <1>1
<1>2. CASE cur = NULL /\ current_process' = NULL /\ ready_queue' = ready
  BY <1>2, Addresses
<1>3. CASE /\ cur = NULL /\ ready # <<>>
           /\ current_process' = Head(ready) /\ ready_queue' = Tail(ready)
  <2>1. PICK t : t = Tail(ready)
    OBVIOUS
  <2>2. /\ t \in Seq(Pcb) /\ Len(ready) \in Nat /\ DOMAIN ready = 1..Len(ready)
        /\ 1 \in DOMAIN ready /\ Head(ready) = ready[1]
        /\ DOMAIN t = 1..(Len(ready) - 1)
        /\ \A j \in DOMAIN t : t[j] = ready[j + 1]
    BY <1>3, <2>1, TailElements
  <2>3. \A j \in DOMAIN t : j + 1 \in DOMAIN ready /\ j + 1 # 1
    BY <2>2
  <2>4. \A i \in DOMAIN ready : i = 1 \/ (i - 1 \in DOMAIN t /\ t[i - 1] = ready[i])
    BY <2>2
  <2>5. AtMostOne(t, {x})
    BY <2>2, <2>3 DEF AtMostOne
  <2>6. x \in ToSet(t) => x # ready[1]
    BY <2>2, <2>3 DEF AtMostOne, ToSet
  <2>7. x \in ToSet(t) \/ x = ready[1] <=> x \in ToSet(ready)
    <3>1. ASSUME NEW i \in DOMAIN ready  PROVE ready[i] \in ToSet(t) \/ ready[i] = ready[1]
      BY <2>4 DEF ToSet
    <3>2. ASSUME NEW j \in DOMAIN t  PROVE t[j] \in ToSet(ready)
      BY <2>2, <2>3 DEF ToSet
    <3>3. ready[1] \in ToSet(ready)
      BY <2>2 DEF ToSet
    <3> QED BY <3>1, <3>2, <3>3 DEF ToSet
  <2> QED BY <1>3, <2>1, <2>2, <2>5, <2>6, <2>7, Addresses
<1> QED BY <1>1, <1>2, <1>3 DEF Scheduler, Idle
-----------------------------------------------------------------------------
(* SYS1, SYS2 and the interrupts keep the types of the nucleus and have    *)
(* the effects named above.                                                *)
LEMMA SysSendEffect ==
    ASSUME TypeOK, NEW p \in Pcb, NEW to, NEW load \in Load, SysSend(p, to, load)
    PROVE  LET dest == Destination(p, to) IN
           /\ TypeOK'
           /\ cpu = "run" /\ current_process = p
           /\ cpu' = "run" /\ current_process' = p
           /\ UNCHANGED <<procVars, reg_a1>>
           /\ \/ ~isPcbValid(dest) /\ UNCHANGED <<msgVars, ready_queue>>
              \/ isPcbValid(dest) /\ Sent(dest, MessageOf(p, load), ready_queue')
<1> DEFINE dest == Destination(p, to)
<1>1. /\ cpu = "run" /\ current_process = p /\ UNCHANGED reg_a1 /\ p # NULL
      /\ ready_queue \in Seq(Pcb)
  BY Addresses DEF SysSend, Running, TypeOK
<1>2. CASE ~isPcbValid(dest)
  <2>1. /\ UNCHANGED <<msgVars, procVars>> /\ ret' = DEST_NOT_EXIST
        /\ Scheduler(p, ready_queue)
    BY <1>2 DEF SysSend
  <2>2. cpu' = "run" /\ current_process' = p /\ ready_queue' = ready_queue
    BY <1>1, <2>1 DEF Scheduler
  <2>3. TypeOK'
    BY <1>1, <2>1, <2>2 DEF TypeOK, msgVars, procVars
  <2> QED BY <1>1, <1>2, <2>1, <2>2, <2>3
<1>3. CASE isPcbValid(dest)
  <2>1. /\ SendMessage(dest, load, p) /\ UNCHANGED procVars
        /\ Scheduler(p, ReadyAfter(dest, p))
        /\ ret' \in {MSGNOGOOD, DELIVERED}
    BY <1>3 DEF SysSend
  <2>2. dest \in Live /\ dest \in Pcb
    BY <1>3 DEF isPcbValid, Live
  <2>3. cpu' = "run" /\ current_process' = p /\ ready_queue' = ReadyAfter(dest, p)
    BY <1>1, <2>1 DEF Scheduler
  <2>4. ReadyAfter(dest, p) \in Seq(Pcb)
    BY <1>1, <2>2, AppendRange DEF ReadyAfter
  <2>5. /\ softblock_count' \in 0..(CountMod - 1)
        /\ do_io' \in [Pcb -> BOOLEAN]
        /\ msg_inbox' \in [Pcb -> Seq(Message)]
        /\ msgFree' \in Nat
        /\ blocked' \in SUBSET Pcb
        /\ received' \in [Pcb -> Message \cup {NoMessage}]
    BY <2>1, <2>2, SendTypes
  <2>6. TypeOK'
    BY <1>1, <2>1, <2>3, <2>4, <2>5 DEF TypeOK, procVars
  <2>7. Sent(dest, MessageOf(p, load), ready_queue')
    BY <2>1, <2>3, SendEffect
  <2> QED BY <1>1, <1>3, <2>1, <2>3, <2>6, <2>7
<1> QED BY <1>2, <1>3

LEMMA InterruptEffect ==
    ASSUME TypeOK, ssi_pcb_real \in Live, NEW load \in Load, Interrupt(load)
    PROVE  /\ TypeOK' /\ UNCHANGED <<procVars, reg_a1>>
           /\ cpu \in {"run", "wait"}
           /\ cpu' \in {"run", "wait", "halt", "panic"}
           /\ cpu' = "run" <=> current_process' # NULL
           /\ \E ready \in Seq(Pcb) :
                 /\ Sent(ssi_pcb_real, MessageOf(INTERRUPT_HANDLER_MSG, load), ready)
                 /\ Scheduler(current_process, ready)
<1> DEFINE ready == ReadyAfter(ssi_pcb_real, INTERRUPT_HANDLER_MSG)
<1>1. /\ SendMessage(ssi_pcb_real, load, INTERRUPT_HANDLER_MSG)
      /\ UNCHANGED <<procVars, reg_a1, ret>>
      /\ Scheduler(current_process, ready)
      /\ current_process \in Pcb \cup {NULL} /\ ready_queue \in Seq(Pcb)
      /\ cpu \in {"run", "wait"}
  BY DEF Interrupt, TypeOK
<1>2. ready \in Seq(Pcb)
  BY <1>1, AppendRange, Addresses DEF ReadyAfter
<1>3. Sent(ssi_pcb_real, MessageOf(INTERRUPT_HANDLER_MSG, load), ready)
  BY <1>1, SendEffect
<1>4. /\ softblock_count' \in 0..(CountMod - 1)
      /\ do_io' \in [Pcb -> BOOLEAN]
      /\ msg_inbox' \in [Pcb -> Seq(Message)]
      /\ msgFree' \in Nat
      /\ blocked' \in SUBSET Pcb
      /\ received' \in [Pcb -> Message \cup {NoMessage}]
  BY <1>1, SendTypes
<1> HIDE DEF ready
<1>5. /\ ready_queue' \in Seq(Pcb) /\ current_process' \in Pcb \cup {NULL}
      /\ cpu' \in {"run", "wait", "halt", "panic"}
      /\ cpu' = "run" <=> current_process' # NULL
  BY <1>1, <1>2, SchedulerTypes
<1>6. TypeOK'
  BY <1>1, <1>4, <1>5 DEF TypeOK, procVars
<1> QED BY <1>1, <1>2, <1>3, <1>5, <1>6

(* p takes message i out of its inbox, the first it accepts; or it blocks. *)
Popped(p, src, i) ==
    /\ i \in DOMAIN msg_inbox[p] /\ Matches(msg_inbox[p][i], src)
    /\ received' = [received EXCEPT ![p] = msg_inbox[p][i]]
    /\ msg_inbox' = [msg_inbox EXCEPT ![p] = RemoveAt(@, i)]
    /\ msgFree' = msgFree + 1
    /\ UNCHANGED <<blocked, reg_a1, ready_queue, current_process, cpu>>

Suspended(p, src) ==
    /\ Matching(p, src) = {}
    /\ blocked' = blocked \cup {p}
    /\ reg_a1' = [reg_a1 EXCEPT ![p] = src]
    /\ received' = [received EXCEPT ![p] = NoMessage]
    /\ UNCHANGED <<msg_inbox, msgFree>>
    /\ Scheduler(NULL, ready_queue)

LEMMA SysReceiveEffect ==
    ASSUME TypeOK, NEW p \in Pcb, NEW src \in Sender \cup {ANYMESSAGE}, SysReceive(p, src)
    PROVE  /\ TypeOK' /\ UNCHANGED procVars
           /\ cpu = "run" /\ current_process = p
           /\ cpu' \in {"run", "wait", "halt", "panic"}
           /\ cpu' = "run" <=> current_process' # NULL
           /\ \/ Suspended(p, src)
              \/ Matching(p, src) # {} /\ \E i \in DOMAIN msg_inbox[p] : Popped(p, src, i)
<1>1. /\ current_process = p /\ cpu = "run" /\ p # NULL /\ ret' = DELIVERED
      /\ ready_queue \in Seq(Pcb)
  BY Addresses DEF SysReceive, Running, TypeOK
<1>2. CASE ReceivePops(p, src)
  <2>1. PICK i \in Matching(p, src) :
           /\ received' = [received EXCEPT ![p] = msg_inbox[p][i]]
           /\ msg_inbox' = [msg_inbox EXCEPT ![p] = RemoveAt(@, i)]
           /\ msgFree' = msgFree + 1
           /\ do_io' = [do_io EXCEPT ![p] = FALSE]
           /\ UNCHANGED <<blocked, softblock_count, reg_a1, procVars>>
           /\ Scheduler(p, ready_queue)
    BY <1>2 DEF ReceivePops
  <2>2. cpu' = "run" /\ current_process' = p /\ ready_queue' = ready_queue
    BY <1>1, <2>1 DEF Scheduler
  <2>3. /\ i \in DOMAIN msg_inbox[p] /\ Matches(msg_inbox[p][i], src)
        /\ msg_inbox[p] \in Seq(Message)
    BY <1>1, <2>1 DEF Matching, TypeOK
  <2>4. RemoveAt(msg_inbox[p], i) \in Seq(Message) /\ msg_inbox[p][i] \in Message
    BY <2>3, RemoveAtType, ElementOfSeq, LenProperties
  <2>5. /\ msg_inbox' \in [Pcb -> Seq(Message)]
        /\ received' \in [Pcb -> Message \cup {NoMessage}]
        /\ do_io' \in [Pcb -> BOOLEAN] /\ msgFree' \in Nat
    BY <1>1, <2>1, <2>4 DEF TypeOK
  <2>6. TypeOK'
    BY <1>1, <2>1, <2>2, <2>5 DEF TypeOK, procVars
  <2>7. Popped(p, src, i)
    BY <1>1, <2>1, <2>2, <2>3 DEF Popped
  <2> QED BY <1>1, <2>1, <2>2, <2>3, <2>6, <2>7, Addresses
<1>3. CASE ReceiveBlocks(p, src)
  <2>1. Suspended(p, src) /\ UNCHANGED <<do_io, procVars>>
    BY <1>3 DEF ReceiveBlocks, Suspended
  <2>2. /\ ready_queue' \in Seq(Pcb) /\ current_process' \in Pcb \cup {NULL}
        /\ cpu' \in {"run", "wait", "halt", "panic"}
        /\ cpu' = "run" <=> current_process' # NULL
    BY <1>1, <2>1, SchedulerTypes DEF Suspended
  <2>3. softblock_count' \in 0..(CountMod - 1)
    BY <1>3, IpcAssumption DEF ReceiveBlocks, Inc, TypeOK
  <2>4. /\ reg_a1' \in [Pcb -> {SCRATCH, ANYMESSAGE} \cup Sender]
        /\ received' \in [Pcb -> Message \cup {NoMessage}]
        /\ blocked' \in SUBSET Pcb
    BY <2>1 DEF Suspended, TypeOK
  <2>5. TypeOK'
    BY <1>1, <2>1, <2>2, <2>3, <2>4 DEF TypeOK, procVars, Suspended
  <2> QED BY <1>1, <2>1, <2>2, <2>5
<1> QED BY <1>2, <1>3 DEF SysReceive
-----------------------------------------------------------------------------
(* The part of the inductive invariant that is about the SSI and holds     *)
(* whatever programs do.                                                   *)

SsiRequest ==
    {r \in Request : /\ r.op = "DOIO" => r.arg \in Device
                     /\ r.op = "TERM" => r.arg # ssi_pcb_real}

SsiMessage ==
    [sender : User, payload : SsiRequest]
    \cup [sender : {INTERRUPT_HANDLER_MSG}, payload : Event]

Creating == {"insertChild", "insertReady", "countRead", "countWrite"}

ServiceTypes ==
    /\ p_child \in [Pcb -> Seq(Pcb)]
    /\ pcb_blocked_on_device \in [Device -> Seq(Pcb)]
    /\ pcb_blocked_on_clock \in Seq(Pcb)
    /\ busy \subseteq Device
    /\ call \in [Pcb -> Request \cup {NoCall, Receiving}]

SsiPc == {"receive", "dispatch", "insertChild", "insertReady", "countRead", "countWrite",
          "reply", "terminate", "command", "answer", "tick"}
SsiType == ssi \in [pc : SsiPc, p : Pcb \cup {NULL, NOPROC}, tmp : 0..(CountMod - 1)]

FramePc == {"idle", "outChild", "outReady", "outIO", "countRead", "countWrite",
            "softRead", "softWrite", "children"}
FrameType == frame \in [Actor -> [pc : FramePc, stack : Seq(Pcb), was_blocked : BOOLEAN,
                                  tmp : 0..(CountMod - 1)]]

(* The CPU runs a process, the SSI is never freed, and no trap stops it.   *)
CpuWorks ==
    /\ cpu \in {"run", "kernel"} <=> current_process # NULL
    /\ cpu = "kernel" => current_process # ssi_pcb_real
    /\ ssi_pcb_real \in Live

(* The SSI is in exactly one place.                                        *)
SsiPlaced ==
    /\ AtMostOne(ready_queue, {ssi_pcb_real})
    /\ ssi_pcb_real \in Ready => ssi_pcb_real \notin blocked /\ current_process # ssi_pcb_real
    /\ ssi_pcb_real \in blocked => current_process # ssi_pcb_real
    /\ ssi_pcb_real \in Ready \cup blocked \cup {current_process}

(* What the SSI is sent and serves.                                        *)
SsiServes ==
    /\ \A i \in DOMAIN msg_inbox[ssi_pcb_real] : msg_inbox[ssi_pcb_real][i] \in SsiMessage
    /\ ssi_pcb_real \in blocked =>
          /\ ssi.pc = "dispatch" /\ reg_a1[ssi_pcb_real] = ANYMESSAGE
          /\ received[ssi_pcb_real] = NoMessage
    /\ ssi_pcb_real \notin blocked /\ ssi.pc # "receive" =>
          received[ssi_pcb_real] \in SsiMessage

SsiWork ==
    /\ ssi.pc \in Creating \cup {"reply"} => Asked.op = "CREATE"
    /\ ssi.pc = "command" => Asked.op = "DOIO"
    /\ ssi.pc = "answer" => Asked.op = "IODONE"
    /\ ssi.pc = "tick" => Asked.op = "TICK"
    /\ ssi.pc = "terminate" => Asked.op \in {"TERM", "BAD"}
    /\ ssi.pc \in Creating \cup {"answer", "tick"} => ssi.p \in User

(* The SSI is nobody's parent or child, in no queue of askers, and makes   *)
(* no request itself.                                                      *)
SsiApart ==
    /\ \A x \in Pcb : p_parent[x] # ssi_pcb_real /\ ssi_pcb_real \notin Children(x)
    /\ \A d \in Device : ssi_pcb_real \notin ToSet(pcb_blocked_on_device[d])
    /\ ssi_pcb_real \notin ToSet(pcb_blocked_on_clock)
    /\ call[ssi_pcb_real] = NoCall

(* terminate_process is never called for the SSI, and runs where it is     *)
(* called from.                                                            *)
Frames ==
    /\ \A a \in Actor : /\ ssi_pcb_real \notin ToSet(frame[a].stack)
                        /\ frame[a].stack = <<>> <=> frame[a] = NoFrame
                        /\ frame[a].pc = "idle" <=> frame[a] = NoFrame
    /\ cpu # "kernel" => frame["nucleus"] = NoFrame
    /\ ssi.pc # "terminate" => frame["ssi"] = NoFrame

Base == /\ TypeOK /\ ServiceTypes /\ SsiType /\ FrameType /\ CpuWorks /\ SsiPlaced
        /\ SsiServes /\ SsiWork /\ SsiApart /\ Frames

(* What a message to the SSI is.                                           *)
LEMMA SsiMessages ==
    /\ SsiMessage \subseteq Message
    /\ \A m \in SsiMessage :
          /\ m.payload \in Request \cup Event
          /\ m.payload.op \in SsiOp => m.sender \in User /\ m.payload \in Request
          /\ m.payload.op \notin SsiOp => m.sender = INTERRUPT_HANDLER_MSG
          /\ m.payload.op \in {"IODONE", "DOIO"} => m.payload.arg \in Device
          /\ m.payload.op = "TERM" => m.payload.arg # ssi_pcb_real
          /\ m.sender \in User => m.payload.op \in SsiOp
<1>1. SsiMessage \subseteq Message
  BY Names, Loads DEF SsiMessage, SsiRequest, Message
<1>2. ASSUME NEW m \in SsiMessage
      PROVE  \/ m.sender \in User /\ m.payload \in SsiRequest
             \/ m.sender = INTERRUPT_HANDLER_MSG /\ m.payload \in Event
  BY <1>2 DEF SsiMessage
<1>3. \A r \in SsiRequest : /\ r \in Request /\ r.op \in SsiOp
                            /\ r.op = "DOIO" => r.arg \in Device
                            /\ r.op = "TERM" => r.arg # ssi_pcb_real
                            /\ r.op # "IODONE"
  BY DEF SsiRequest, Request, SsiOp
<1>4. \A e \in Event : /\ e.op \in {"IODONE", "TICK"} /\ e.op \notin SsiOp
                       /\ e.op = "IODONE" => e.arg \in Device
  BY DEF Event, SsiOp
<1>5. INTERRUPT_HANDLER_MSG \notin User
  BY Names DEF User
<1> QED BY <1>1, <1>2, <1>3, <1>4, <1>5

(* The SSI runs: it is not blocked and has a message to serve.             *)
LEMMA SsiRuns ==
    ASSUME Base, Running(ssi_pcb_real)
    PROVE  /\ ssi_pcb_real \notin blocked /\ ssi_pcb_real \notin Ready
           /\ cpu = "run" /\ current_process = ssi_pcb_real
           /\ frame["nucleus"] = NoFrame
           /\ ssi.pc # "receive" =>
                 /\ received[ssi_pcb_real] \in SsiMessage
                 /\ Asked.op \in SsiOp => Asker \in User /\ Asked \in Request
                 /\ Asked.op \in {"IODONE", "DOIO"} => Asked.arg \in Device
                 /\ Asked.op = "TERM" => Asked.arg # ssi_pcb_real
                 /\ Asker \in User => Asked.op \in SsiOp
<1>1. /\ ssi_pcb_real \notin blocked /\ ssi_pcb_real \notin Ready
      /\ cpu = "run" /\ current_process = ssi_pcb_real
  BY DEF Base, SsiPlaced, Running
<1>2. frame["nucleus"] = NoFrame
  BY <1>1 DEF Base, Frames
<1>3. ssi.pc # "receive" => received[ssi_pcb_real] \in SsiMessage
  BY <1>1 DEF Base, SsiServes
<1> QED BY <1>1, <1>2, <1>3, SsiMessages DEF Asked, Asker
-----------------------------------------------------------------------------
(* Nothing that concerns the SSI alone changes.                            *)
LEMMA SsiUntouched ==
    ASSUME Base, UNCHANGED ssi,
           msg_inbox'[ssi_pcb_real] = msg_inbox[ssi_pcb_real],
           received'[ssi_pcb_real] = received[ssi_pcb_real],
           reg_a1'[ssi_pcb_real] = reg_a1[ssi_pcb_real],
           ssi_pcb_real \in blocked' <=> ssi_pcb_real \in blocked
    PROVE  SsiServes' /\ SsiWork' /\ SsiType'
<1>1. Asked' = Asked
  BY DEF Asked
<1>2. SsiWork'
  BY <1>1 DEF Base, SsiWork
<1>3. SsiServes'
  BY DEF Base, SsiServes
<1> QED BY <1>2, <1>3 DEF Base, SsiType

(* The SSI goes on with the message it serves.                             *)
LEMMA SsiGoesOn ==
    ASSUME Base, Running(ssi_pcb_real), ssi.pc # "receive",
           NEW pc \in SsiPc, NEW p \in Pcb \cup {NULL, NOPROC}, SsiGoes(pc, p),
           msg_inbox'[ssi_pcb_real] = msg_inbox[ssi_pcb_real],
           received'[ssi_pcb_real] = received[ssi_pcb_real],
           ssi_pcb_real \notin blocked',
           pc \in Creating \cup {"reply"} => Asked.op = "CREATE",
           pc = "command" => Asked.op = "DOIO",
           pc = "answer" => Asked.op = "IODONE",
           pc = "tick" => Asked.op = "TICK",
           pc = "terminate" => Asked.op \in {"TERM", "BAD"},
           pc \in Creating \cup {"answer", "tick"} => p \in User
    PROVE  SsiServes' /\ SsiWork' /\ SsiType'
<1>1. Asked' = Asked /\ ssi'.pc = pc /\ ssi'.p = p
  BY DEF Asked, SsiGoes
<1>2. SsiWork'
  BY <1>1 DEF SsiWork
<1>3. SsiServes'
  BY <1>1, SsiRuns DEF Base, SsiServes
<1>4. SsiType'
  BY IpcAssumption DEF SsiGoes, SsiType
<1> QED BY <1>2, <1>3, <1>4

(* A message is sent by a process that is not the SSI, or by an interrupt. *)
LEMMA SentServes ==
    ASSUME Base, NEW dest \in Live, NEW m \in Message, NEW ready, Sent(dest, m, ready),
           dest = ssi_pcb_real => m \in SsiMessage,
           UNCHANGED <<reg_a1, ssi>>
    PROVE  SsiServes' /\ SsiWork' /\ SsiType'
<1> DEFINE S == ssi_pcb_real
<1>0. dest \in Pcb /\ S \in Pcb /\ blocked' \subseteq blocked
  BY Names DEF Live, Sent, Handed, Queued, Dropped, msgVars
<1>1. CASE dest # S \/ Dropped(ready)
  <2>1. /\ msg_inbox'[S] = msg_inbox[S] /\ received'[S] = received[S]
        /\ S \in blocked' <=> S \in blocked
    BY <1>0, <1>1 DEF Base, TypeOK, Sent, Handed, Queued, Dropped, msgVars
  <2> QED BY <2>1, SsiUntouched
<1>2. CASE dest = S /\ Handed(dest, m, ready)
  <2>1. S \in blocked /\ ssi.pc = "dispatch"
    BY <1>2 DEF Base, SsiPlaced, Handed, Wakeable, SsiServes
  <2>2. /\ received'[S] = m /\ S \notin blocked' /\ msg_inbox' = msg_inbox
    BY <1>2 DEF Handed, Base, TypeOK, Live
  <2>3. SsiServes'
    BY <1>2, <2>1, <2>2 DEF Base, SsiServes
  <2>4. SsiWork' /\ SsiType'
    BY <2>1 DEF Base, SsiWork, SsiType, Creating
  <2> QED BY <2>3, <2>4
<1>3. CASE dest = S /\ Queued(dest, m, ready)
  <2>1. /\ received' = received /\ blocked' = blocked
        /\ msg_inbox'[S] = Append(msg_inbox[S], m) /\ msg_inbox[S] \in Seq(Message)
    BY <1>3 DEF Queued, Base, TypeOK, Live
  <2>2. \A i \in DOMAIN msg_inbox'[S] : msg_inbox'[S][i] \in SsiMessage
    <3>1. PICK q, r : q = msg_inbox[S] /\ r = msg_inbox'[S]
      OBVIOUS
    <3>2. /\ Len(q) \in Nat /\ DOMAIN q = 1..Len(q) /\ DOMAIN r = 1..(Len(q) + 1)
          /\ \A j \in DOMAIN q : r[j] = q[j]
          /\ r[Len(q) + 1] = m
      BY <2>1, <3>1, AppendElements
    <3>3. \A j \in DOMAIN q : q[j] \in SsiMessage
      BY <3>1 DEF Base, SsiServes
    <3> QED BY <1>3, <3>1, <3>2, <3>3
  <2>3. SsiServes'
    BY <2>1, <2>2 DEF Base, SsiServes
  <2>4. SsiWork' /\ SsiType'
    <3>1. Asked' = Asked
      BY <2>1 DEF Asked
    <3> QED BY <3>1 DEF Base, SsiWork, SsiType
  <2> QED BY <2>3, <2>4
<1> QED BY <1>1, <1>2, <1>3 DEF Sent

(* Where the SSI is after a message to dest and the scheduler.             *)
LEMMA SentPlacesSsi ==
    ASSUME Base, NEW dest \in Live, NEW m, NEW ready \in Seq(Pcb), Sent(dest, m, ready)
    PROVE  /\ AtMostOne(ready, {ssi_pcb_real})
           /\ ssi_pcb_real \in ToSet(ready) =>
                 ssi_pcb_real \notin blocked' /\ current_process # ssi_pcb_real
           /\ ssi_pcb_real \in blocked' => current_process # ssi_pcb_real
           /\ ssi_pcb_real \in ToSet(ready) \cup blocked' \cup {current_process}
<1> DEFINE S == ssi_pcb_real
<1>1. /\ dest \in Pcb /\ ready_queue \in Seq(Pcb) /\ Ready = ToSet(ready_queue)
      /\ AtMostOne(ready_queue, {S})
  BY DEF Live, Base, TypeOK, Ready, SsiPlaced
<1>2. CASE ~Handed(dest, m, ready)
  <2>1. ready = ready_queue /\ blocked' = blocked
    BY <1>2 DEF Sent, Queued, Dropped, msgVars
  <2> QED BY <1>1, <2>1 DEF Base, SsiPlaced
<1>3. CASE Handed(dest, m, ready)
  <2>1. /\ ready = Append(ready_queue, dest) /\ blocked' = blocked \ {dest}
        /\ dest \notin Ready /\ dest # current_process
    BY <1>3 DEF Handed, Wakeable
  <2>2. /\ ToSet(ready) = Ready \cup {dest}
        /\ (dest \in {S} => Among(ready_queue, {S}) = {}) => AtMostOne(ready, {S})
    BY <1>1, <2>1, AppendRange, AmongAppend
  <2>3. dest = S => Among(ready_queue, {S}) = {}
    BY <1>1, <2>1 DEF Among
  <2> QED BY <2>1, <2>2, <2>3 DEF Base, SsiPlaced
<1> QED BY <1>2, <1>3

LEMMA ScheduledPlacesSsi ==
    ASSUME NEW cur \in Pcb \cup {NULL}, NEW ready \in Seq(Pcb), Scheduler(cur, ready),
           AtMostOne(ready, {ssi_pcb_real}),
           ssi_pcb_real \in ToSet(ready) => ssi_pcb_real \notin blocked' /\ cur # ssi_pcb_real,
           ssi_pcb_real \in blocked' => cur # ssi_pcb_real,
           ssi_pcb_real \in ToSet(ready) \cup blocked' \cup {cur}
    PROVE  SsiPlaced'
<1>1. Ready' = ToSet(ready_queue')
  BY DEF Ready
<1>2. /\ AtMostOne(ready_queue', {ssi_pcb_real})
      /\ ssi_pcb_real \in ToSet(ready_queue') => ssi_pcb_real # current_process'
      /\ ssi_pcb_real \in ToSet(ready_queue') \/ ssi_pcb_real = current_process'
             <=> ssi_pcb_real \in ToSet(ready) \/ ssi_pcb_real = cur
  BY Names, SchedulerKeeps
<1> QED BY <1>1, <1>2 DEF SsiPlaced
-----------------------------------------------------------------------------
(* After main(): every PCB but those of the SSI and test is free.          *)
LEMMA InitFree ==
    ASSUME Init
    PROVE  /\ pcbFree \in Seq(Pcb) /\ Once(pcbFree)
           /\ ToSet(pcbFree) = Pcb \ {ssi_pcb_real, test_pcb}
<1> DEFINE n == MaxProc - 2
<1>1. n \in Nat /\ pcbFree = [i \in 1..n |-> test_pcb - i]
  BY IpcAssumption DEF Init
<1>2. \A i \in 1..n : test_pcb - i \in Pcb \ {ssi_pcb_real, test_pcb}
  BY IpcAssumption DEF test_pcb, ssi_pcb_real, Pcb
<1>3. pcbFree \in Seq(Pcb) /\ DOMAIN pcbFree = 1..n
  <2>1. pcbFree \in [1..n -> Pcb]
    BY <1>1, <1>2
  <2> QED BY <1>1, <2>1
<1>4. Once(pcbFree)
  BY <1>1, <1>3, IpcAssumption DEF Once, test_pcb
<1>5. \A x \in Pcb \ {ssi_pcb_real, test_pcb} : test_pcb - x \in 1..n /\ test_pcb - (test_pcb - x) = x
  BY IpcAssumption DEF test_pcb, ssi_pcb_real, Pcb
<1>6. \A x \in Pcb \ {ssi_pcb_real, test_pcb} : x \in ToSet(pcbFree)
  BY <1>1, <1>3, <1>5 DEF ToSet
<1>7. \A i \in DOMAIN pcbFree : pcbFree[i] \in Pcb \ {ssi_pcb_real, test_pcb}
  BY <1>1, <1>2, <1>3
<1> QED BY <1>3, <1>4, <1>6, <1>7 DEF ToSet

LEMMA NoQueue ==
    ASSUME NEW T
    PROVE  <<>> \in Seq(T) /\ ToSet(<<>>) = {} /\ Once(<<>>) /\ DOMAIN <<>> = {}
BY EmptySeq DEF ToSet, Once

LEMMA InitBase == Init => Base
<1> SUFFICES ASSUME Init PROVE Base
  OBVIOUS
<1>0. test_pcb \in Pcb /\ ssi_pcb_real \in Pcb /\ ssi_pcb_real # test_pcb /\ NULL \notin Pcb
  BY Names DEF User
<1>1. /\ pcbFree \in Seq(Pcb) /\ ToSet(pcbFree) = Pcb \ {ssi_pcb_real, test_pcb}
  BY InitFree
<1>2. /\ ready_queue \in Seq(Pcb) /\ ToSet(ready_queue) = {test_pcb}
      /\ DOMAIN ready_queue = {1}
  BY <1>0 DEF Init, ToSet
<1>3. TypeOK
  <2>1. msg_inbox \in [Pcb -> Seq(Message)]
    BY NoQueue DEF Init
  <2>2. /\ process_count \in 0..(CountMod - 1) /\ softblock_count \in 0..(CountMod - 1)
        /\ msgFree \in Nat
    BY IpcAssumption DEF Init
  <2>3. current_process \in Pcb \cup {NULL} /\ ret \in {DELIVERED, MSGNOGOOD, DEST_NOT_EXIST}
    BY <1>0 DEF Init
  <2> QED BY <1>1, <1>2, <2>1, <2>2, <2>3 DEF Init, TypeOK
<1>4. ServiceTypes
  BY NoQueue DEF Init, ServiceTypes
<1>5. SsiType /\ FrameType
  <2>1. NoFrame \in [pc : FramePc, stack : Seq(Pcb), was_blocked : BOOLEAN,
                     tmp : 0..(CountMod - 1)]
    BY NoQueue, IpcAssumption DEF NoFrame, FramePc
  <2> QED BY <2>1, IpcAssumption DEF Init, SsiType, FrameType, SsiPc
<1>6. CpuWorks
  BY <1>0, <1>1 DEF Init, CpuWorks, Live
<1>7. SsiPlaced
  <2>1. AtMostOne(ready_queue, {ssi_pcb_real})
    BY <1>2 DEF AtMostOne
  <2> QED BY <1>0, <1>2, <2>1 DEF Init, SsiPlaced, Ready
<1>8. SsiServes
  BY <1>0, NoQueue DEF Init, SsiServes
<1>9. SsiWork
  BY DEF Init, SsiWork, Creating
<1>10. SsiApart
  BY <1>0, NoQueue DEF Init, SsiApart, Children
<1>11. Frames
  <2>1. \A a \in Actor : frame[a] = NoFrame
    BY DEF Init
  <2>2. NoFrame.stack = <<>> /\ NoFrame.pc = "idle"
    BY DEF NoFrame
  <2>3. \A a \in Actor : ssi_pcb_real \notin ToSet(frame[a].stack)
    BY <2>1, <2>2, NoQueue
  <2>4. "nucleus" \in Actor /\ "ssi" \in Actor
    BY DEF Actor
  <2> QED BY <2>1, <2>2, <2>3, <2>4 DEF Frames
<1> QED BY <1>3, <1>4, <1>5, <1>6, <1>7, <1>8, <1>9, <1>10, <1>11 DEF Base
-----------------------------------------------------------------------------
(* Steps that send messages preserve Base.                                 *)

(* The SSI receives.                                                       *)
LEMMA SsiReceivesBase ==
    ASSUME Base, SsiReceives
    PROVE  Base'
<1> DEFINE S == ssi_pcb_real
<1>0. S \in Pcb /\ TypeOK
  BY Names DEF Base
<1>1. /\ SysReceive(S, ANYMESSAGE) /\ SsiGoes("dispatch", NULL) /\ ssi.pc = "receive"
      /\ UNCHANGED <<listVars, busy, frame, call>>
  BY DEF SsiReceives, SsiAt
<1>2. /\ TypeOK' /\ UNCHANGED procVars
      /\ cpu = "run" /\ current_process = S
      /\ cpu' \in {"run", "wait", "halt", "panic"}
      /\ cpu' = "run" <=> current_process' # NULL
      /\ \/ Suspended(S, ANYMESSAGE)
         \/ \E i \in DOMAIN msg_inbox[S] : Popped(S, ANYMESSAGE, i)
  <2>1. S \in Pcb /\ ANYMESSAGE \in Sender \cup {ANYMESSAGE}
    BY <1>0
  <2> QED BY <1>0, <1>1, <2>1, SysReceiveEffect
<1>3. ServiceTypes' /\ FrameType'
  BY <1>1 DEF Base, ServiceTypes, FrameType, listVars
<1>4. /\ SsiType' /\ SsiWork' /\ ssi'.pc = "dispatch"
  BY <1>1, IpcAssumption DEF SsiGoes, SsiType, SsiPc, SsiWork, Creating
<1>5. CpuWorks'
  BY <1>2 DEF Base, CpuWorks, procVars, Live
<1>6. SsiApart'
  BY <1>1, <1>2 DEF Base, SsiApart, procVars, listVars, Children
<1>7. Frames'
  BY <1>1, <1>2, <1>4 DEF Base, Frames
<1>8. CASE Suspended(S, ANYMESSAGE)
  <2>1. /\ blocked' = blocked \cup {S} /\ reg_a1'[S] = ANYMESSAGE
        /\ received'[S] = NoMessage /\ msg_inbox' = msg_inbox
        /\ Scheduler(NULL, ready_queue)
    BY <1>0, <1>8 DEF Suspended, TypeOK
  <2>2. SsiServes'
    BY <1>4, <2>1 DEF Base, SsiServes
  <2>3. ready_queue \in Seq(Pcb) /\ Ready = ToSet(ready_queue)
    BY DEF Base, TypeOK, Ready
  <2>4. SsiPlaced'
    BY <1>0, <1>2, <2>1, <2>3, ScheduledPlacesSsi, Names DEF Base, SsiPlaced
  <2> QED BY <1>2, <1>3, <1>4, <1>5, <1>6, <1>7, <2>2, <2>4 DEF Base
<1>9. ASSUME NEW i \in DOMAIN msg_inbox[S], Popped(S, ANYMESSAGE, i)
      PROVE  Base'
  <2>1. /\ msg_inbox[S] \in Seq(Message) /\ received'[S] = msg_inbox[S][i]
        /\ msg_inbox'[S] = RemoveAt(msg_inbox[S], i)
        /\ UNCHANGED <<blocked, ready_queue, current_process>>
    BY <1>0, <1>9 DEF Popped, TypeOK
  <2>2. S \notin blocked
    BY <1>2 DEF Base, SsiPlaced
  <2>3. received'[S] \in SsiMessage
    BY <2>1 DEF Base, SsiServes
  <2>4. \A j \in DOMAIN msg_inbox'[S] : msg_inbox'[S][j] \in SsiMessage
    <3>1. PICK q, r : q = msg_inbox[S] /\ r = RemoveAt(q, i)
      OBVIOUS
    <3>2. \A j \in DOMAIN r : Skip(i, j) \in DOMAIN q /\ r[j] = q[Skip(i, j)]
      BY <2>1, <3>1, RemoveAtElements
    <3>3. \A j \in DOMAIN q : q[j] \in SsiMessage
      BY <3>1 DEF Base, SsiServes
    <3> QED BY <2>1, <3>1, <3>2, <3>3
  <2>5. SsiServes'
    BY <2>1, <2>2, <2>3, <2>4 DEF SsiServes
  <2>6. SsiPlaced'
    BY <2>1 DEF Base, SsiPlaced, Ready
  <2> QED BY <1>2, <1>3, <1>4, <1>5, <1>6, <1>7, <2>5, <2>6 DEF Base
<1> QED BY <1>2, <1>8, <1>9

(* A message from the SSI, a program or an interrupt: what depends on the  *)
(* lists and on terminate_process is not touched.                          *)
LEMMA EndsCallType ==
    ASSUME Base, NEW dest, NEW sender, EndsCall(dest, sender)
    PROVE  /\ call' \in [Pcb -> Request \cup {NoCall, Receiving}]
           /\ call'[ssi_pcb_real] = NoCall
<1>1. call \in [Pcb -> Request \cup {NoCall, Receiving}] /\ call[ssi_pcb_real] = NoCall
  BY DEF Base, ServiceTypes, SsiApart
<1>2. ssi_pcb_real \in Pcb
  BY Names
<1> QED BY <1>1, <1>2 DEF EndsCall

LEMMA ListsKept ==
    ASSUME Base, UNCHANGED <<procVars, listVars, busy, frame>>,
           call' \in [Pcb -> Request \cup {NoCall, Receiving}],
           call'[ssi_pcb_real] = NoCall,
           cpu # "kernel", cpu' # "kernel",
           ssi' = ssi \/ frame["ssi"] = NoFrame
    PROVE  ServiceTypes' /\ FrameType' /\ SsiApart' /\ Frames'
<1>1. ServiceTypes' /\ FrameType'
  BY DEF Base, ServiceTypes, FrameType, listVars
<1>2. SsiApart'
  BY DEF Base, SsiApart, procVars, listVars, Children
<1>3. Frames'
  BY DEF Base, Frames
<1> QED BY <1>1, <1>2, <1>3

(* The SSI answers.                                                        *)
LEMMA SsiSendsBase ==
    ASSUME Base, ssi.pc # "receive", NEW dest \in User, NEW op, NEW arg,
           [op |-> op, arg |-> arg] \in Load, SsiSends(dest, op, arg),
           SsiGoes("receive", NULL) \/ SsiGoes("dispatch", NULL),
           frame["ssi"] = NoFrame
    PROVE  Base'
<1> DEFINE S == ssi_pcb_real
           load == [op |-> op, arg |-> arg]
           m == MessageOf(S, load)
<1>0. S \in Pcb /\ TypeOK /\ Destination(S, dest) = dest /\ dest # S /\ dest \in Pcb
  BY Names DEF Base, Destination, User
<1>1. /\ SysSend(S, dest, load) /\ EndsCall(dest, S)
      /\ UNCHANGED <<listVars, busy, frame>>
  BY DEF SsiSends
<1> HIDE DEF load
<1>2. /\ TypeOK' /\ cpu = "run" /\ current_process = S /\ cpu' = "run" /\ current_process' = S
      /\ UNCHANGED <<procVars, reg_a1>>
      /\ \/ ~isPcbValid(dest) /\ UNCHANGED <<msgVars, ready_queue>>
         \/ isPcbValid(dest) /\ Sent(dest, m, ready_queue')
  <2>1. load \in Load
    BY DEF load
  <2> QED BY <1>0, <1>1, <2>1, SysSendEffect
<1>3. /\ msg_inbox'[S] = msg_inbox[S] /\ received'[S] = received[S] /\ blocked' \subseteq blocked
      /\ (S \in ToSet(ready_queue') <=> S \in Ready) /\ AtMostOne(ready_queue', {S})
  <2>1. ready_queue \in Seq(Pcb) /\ AtMostOne(ready_queue, {S})
    BY <1>0 DEF TypeOK, Base, SsiPlaced
  <2>2. \/ ready_queue' = ready_queue
        \/ ready_queue' = Append(ready_queue, dest)
    BY <1>2 DEF Sent, Handed, Queued, Dropped
  <2>3. (S \in ToSet(ready_queue') <=> S \in Ready) /\ AtMostOne(ready_queue', {S})
    <3>1. CASE ready_queue' = ready_queue
      BY <2>1, <3>1 DEF Ready
    <3>2. CASE ready_queue' = Append(ready_queue, dest)
      <4>1. ToSet(Append(ready_queue, dest)) = ToSet(ready_queue) \cup {dest}
        BY <1>0, <2>1, AppendRange
      <4>2. AtMostOne(Append(ready_queue, dest), {S})
        <5>1. dest \notin {S}
          BY <1>0
        <5> QED BY <1>0, <2>1, <5>1, AmongAppend
      <4> QED BY <1>0, <3>2, <4>1, <4>2 DEF Ready
    <3> QED BY <2>2, <3>1, <3>2
  <2> QED BY <1>0, <1>2, <2>3 DEF Sent, Handed, Queued, Dropped, msgVars, TypeOK
<1>4. S \notin blocked /\ Running(S)
  BY <1>2, SsiRuns DEF Running
<1>5. SsiServes' /\ SsiWork' /\ SsiType'
  <2>1. /\ "receive" \in SsiPc /\ "dispatch" \in SsiPc
        /\ \A pc \in {"receive", "dispatch"} : pc \notin Creating \cup {"reply"}
    BY DEF SsiPc, Creating
  <2> QED BY <1>3, <1>4, <2>1, SsiGoesOn
<1>6. SsiPlaced'
  BY <1>2, <1>3, <1>4 DEF Base, SsiPlaced, Ready
<1>7. CpuWorks'
  BY <1>2 DEF Base, CpuWorks, procVars, Live
<1>8. ServiceTypes' /\ FrameType' /\ SsiApart' /\ Frames'
  BY <1>1, <1>2, EndsCallType, ListsKept
<1> QED BY <1>2, <1>5, <1>6, <1>7, <1>8 DEF Base

(* A program sends.                                                        *)
LEMMA UserSendsBase ==
    ASSUME Base, NEW p \in User, NEW to, NEW load \in Load, SysSend(p, to, load),
           Destination(p, to) = ssi_pcb_real => load \in SsiRequest,
           call' \in [Pcb -> Request \cup {NoCall, Receiving}],
           call'[ssi_pcb_real] = NoCall,
           UNCHANGED clientKeeps
    PROVE  Base'
<1> DEFINE S == ssi_pcb_real
           dest == Destination(p, to)
           m == MessageOf(p, load)
<1>0. S \in Pcb /\ TypeOK /\ p \in Pcb /\ p # S /\ ssi_pcb_real \in Live
  BY Names DEF Base, User, CpuWorks
<1>1. /\ TypeOK' /\ cpu = "run" /\ current_process = p /\ cpu' = "run" /\ current_process' = p
      /\ UNCHANGED <<procVars, reg_a1>>
      /\ \/ ~isPcbValid(dest) /\ UNCHANGED <<msgVars, ready_queue>>
         \/ isPcbValid(dest) /\ Sent(dest, m, ready_queue')
  BY <1>0, SysSendEffect
<1>2. m \in Message /\ m.sender = p /\ m.payload = load
  BY <1>0, Names DEF MessageOf, Message
<1> HIDE DEF m, dest
<1>3. /\ UNCHANGED <<listVars, busy, ssi, frame>>
  BY DEF clientKeeps
<1>4. CpuWorks'
  BY <1>1 DEF Base, CpuWorks, procVars, Live
<1>5. ServiceTypes' /\ FrameType' /\ SsiApart' /\ Frames'
  BY <1>1, <1>3, ListsKept
<1>6. CASE ~isPcbValid(dest)
  <2>1. UNCHANGED <<msgVars, ready_queue>>
    BY <1>1, <1>6
  <2>2. SsiServes' /\ SsiWork' /\ SsiType'
    BY <1>1, <1>3, <2>1, SsiUntouched DEF msgVars
  <2>3. SsiPlaced'
    BY <1>1, <2>1 DEF Base, SsiPlaced, msgVars, Ready
  <2> QED BY <1>1, <1>4, <1>5, <2>2, <2>3 DEF Base
<1>7. CASE isPcbValid(dest)
  <2>1. dest \in Live /\ Sent(dest, m, ready_queue') /\ ready_queue' \in Seq(Pcb)
    BY <1>1, <1>7 DEF isPcbValid, TypeOK
  <2>2. dest = S => m \in SsiMessage
    BY <1>2 DEF SsiMessage, MessageOf, m, dest
  <2>3. SsiServes' /\ SsiWork' /\ SsiType'
    BY <1>1, <1>2, <1>3, <2>1, <2>2, SentServes
  <2>4. SsiPlaced'
    <3>1. /\ AtMostOne(ready_queue', {S})
          /\ S \in ToSet(ready_queue') => S \notin blocked' /\ current_process # S
          /\ S \in blocked' => current_process # S
          /\ S \in ToSet(ready_queue') \cup blocked' \cup {current_process}
      BY <2>1, SentPlacesSsi
    <3> QED BY <1>1, <3>1 DEF SsiPlaced, Ready
  <2> QED BY <1>1, <1>4, <1>5, <2>3, <2>4 DEF Base
<1> QED BY <1>6, <1>7

LEMMA RequestsBase ==
    ASSUME Base, NEW p \in Pcb, NEW req \in [op : Services \cap SsiOp, arg : Address \cup Device],
           Requests(p, req)
    PROVE  Base'
<1>1. /\ p \in User /\ call[p] = NoCall /\ MayRequest(p, req)
      /\ SysSend(p, SSI_FAKE_ADDR, req)
      /\ call' = [call EXCEPT ![p] = req] /\ UNCHANGED clientKeeps
  BY DEF Requests, Client, User
<1>2. req \in Request
  BY DEF Request
<1>3. req \in SsiRequest
  <2>1. req.op = "TERM" => req.arg # ssi_pcb_real
    <3>1. ssi_pcb_real \notin Children(p)
      BY DEF Base, SsiApart
    <3> QED BY <1>1, <3>1, Names DEF MayRequest, MayTerminate
  <2>2. req.op = "DOIO" => req.arg \in Device
    BY <1>1 DEF MayRequest
  <2> QED BY <1>2, <2>1, <2>2 DEF SsiRequest
<1>4. req \in Load
  BY <1>2, Loads
<1>5. /\ call' \in [Pcb -> Request \cup {NoCall, Receiving}]
      /\ call'[ssi_pcb_real] = NoCall
  BY <1>1, <1>2, Names DEF Base, ServiceTypes, SsiApart, User
<1> QED BY <1>1, <1>3, <1>4, <1>5, UserSendsBase

(* Plain messages never go to the SSI.                                     *)
LEMMA SendsApart ==
    ASSUME Base, NEW p \in Pcb, NEW to, Sends(p, to)
    PROVE  Destination(p, to) # ssi_pcb_real
<1>1. SUFFICES ASSUME Destination(p, to) = ssi_pcb_real PROVE FALSE
  OBVIOUS
<1>2. MaySend(p, ssi_pcb_real)
  BY <1>1, Names DEF Sends
<1>3. ssi_pcb_real \notin Children(p) /\ p_parent[p] # ssi_pcb_real
  BY DEF Base, SsiApart
<1> QED BY <1>2, <1>3 DEF MaySend

LEMMA SendsBase ==
    ASSUME Base, NEW p \in Pcb, NEW to, Sends(p, to)
    PROVE  Base'
<1>1. /\ p \in User /\ SysSend(p, to, Data) /\ EndsCall(Destination(p, to), p)
      /\ UNCHANGED clientKeeps
  BY DEF Sends, Client, User
<1>2. /\ call' \in [Pcb -> Request \cup {NoCall, Receiving}]
      /\ call'[ssi_pcb_real] = NoCall
  BY <1>1, EndsCallType
<1> QED BY <1>1, <1>2, SendsApart, Loads, UserSendsBase

(* A program receives.                                                     *)
LEMMA UserReceivesBase ==
    ASSUME Base, NEW p \in User, NEW src \in Sender \cup {ANYMESSAGE}, SysReceive(p, src),
           call' \in [Pcb -> Request \cup {NoCall, Receiving}],
           call'[ssi_pcb_real] = NoCall,
           UNCHANGED clientKeeps
    PROVE  Base'
<1> DEFINE S == ssi_pcb_real
<1>0. S \in Pcb /\ TypeOK /\ p \in Pcb /\ p # S
  BY Names DEF Base, User
<1>1. /\ TypeOK' /\ UNCHANGED procVars /\ cpu = "run" /\ current_process = p
      /\ cpu' \in {"run", "wait", "halt", "panic"}
      /\ cpu' = "run" <=> current_process' # NULL
      /\ \/ Suspended(p, src)
         \/ \E i \in DOMAIN msg_inbox[p] : Popped(p, src, i)
  BY <1>0, SysReceiveEffect
<1>2. UNCHANGED <<listVars, busy, ssi, frame>>
  BY DEF clientKeeps
<1>3. CpuWorks'
  BY <1>1 DEF Base, CpuWorks, procVars, Live
<1>4. ServiceTypes' /\ FrameType' /\ SsiApart' /\ Frames'
  BY <1>1, <1>2, ListsKept
<1>5. SsiServes' /\ SsiWork' /\ SsiType'
  <2>1. /\ msg_inbox'[S] = msg_inbox[S] /\ received'[S] = received[S]
        /\ reg_a1'[S] = reg_a1[S] /\ (S \in blocked' <=> S \in blocked)
    BY <1>0, <1>1 DEF Suspended, Popped, TypeOK
  <2> QED BY <1>2, <2>1, SsiUntouched
<1>6. SsiPlaced'
  <2>1. CASE Suspended(p, src)
    <3>1. ready_queue \in Seq(Pcb) /\ Ready = ToSet(ready_queue)
      BY <1>0 DEF TypeOK, Ready
    <3>2. blocked' = blocked \cup {p} /\ Scheduler(NULL, ready_queue)
      BY <2>1 DEF Suspended
    <3>3. /\ AtMostOne(ready_queue, {S})
          /\ S \in ToSet(ready_queue) => S \notin blocked' /\ NULL # S
          /\ S \in blocked' => NULL # S
          /\ S \in ToSet(ready_queue) \cup blocked' \cup {NULL}
      BY <1>0, <1>1, <3>1, <3>2, Names DEF Base, SsiPlaced
    <3> QED BY <3>1, <3>2, <3>3, ScheduledPlacesSsi
  <2>2. ASSUME NEW i \in DOMAIN msg_inbox[p], Popped(p, src, i)  PROVE SsiPlaced'
    BY <2>2 DEF Base, SsiPlaced, Popped, Ready
  <2> QED BY <1>1, <2>1, <2>2
<1> QED BY <1>1, <1>3, <1>4, <1>5, <1>6 DEF Base

LEMMA ReceivingBase ==
    ASSUME Base, NEW p \in Pcb, Awaits(p) \/ Receives(p)
    PROVE  Base'
<1>1. p \in User /\ UNCHANGED clientKeeps
  BY DEF Awaits, Receives, Client, User
<1>2. /\ call' \in [Pcb -> Request \cup {NoCall, Receiving}]
      /\ call'[ssi_pcb_real] = NoCall
  BY <1>1, Names DEF Awaits, Receives, Base, ServiceTypes, SsiApart, User
<1>3. \E src \in Sender \cup {ANYMESSAGE} : SysReceive(p, src)
  BY Names DEF Awaits, Receives
<1> QED BY <1>1, <1>2, <1>3, UserReceivesBase

(* Interrupts.                                                             *)
LEMMA InterruptsBase ==
    ASSUME Base, NEW e \in Event, Interrupt(e), busy' \subseteq Device,
           UNCHANGED <<listVars, ssi, frame, call>>
    PROVE  Base'
<1> DEFINE S == ssi_pcb_real
           m == MessageOf(INTERRUPT_HANDLER_MSG, e)
<1>1. TypeOK /\ S \in Live /\ e \in Load /\ S \in Pcb
  BY Loads, Names DEF Base, CpuWorks
<1>2. /\ TypeOK' /\ UNCHANGED <<procVars, reg_a1>> /\ cpu \in {"run", "wait"}
      /\ cpu' \in {"run", "wait", "halt", "panic"}
      /\ cpu' = "run" <=> current_process' # NULL
      /\ \E ready \in Seq(Pcb) : Sent(S, m, ready) /\ Scheduler(current_process, ready)
  BY <1>1, InterruptEffect
<1>3. m \in SsiMessage
  BY Names DEF SsiMessage, MessageOf
<1>4. m \in Message
  BY <1>3, SsiMessages
<1>5. PICK ready \in Seq(Pcb) : Sent(S, m, ready) /\ Scheduler(current_process, ready)
  BY <1>2
<1> HIDE DEF m
<1>6. SsiServes' /\ SsiWork' /\ SsiType'
  BY <1>1, <1>2, <1>3, <1>4, <1>5, SentServes
<1>7. SsiPlaced'
  <2>1. /\ AtMostOne(ready, {S})
        /\ S \in ToSet(ready) => S \notin blocked' /\ current_process # S
        /\ S \in blocked' => current_process # S
        /\ S \in ToSet(ready) \cup blocked' \cup {current_process}
    BY <1>1, <1>5, SentPlacesSsi
  <2>2. current_process \in Pcb \cup {NULL}
    BY <1>1 DEF TypeOK
  <2> QED BY <1>5, <2>1, <2>2, ScheduledPlacesSsi
<1>8. CpuWorks'
  BY <1>2 DEF Base, CpuWorks, procVars, Live
<1>9. ServiceTypes' /\ FrameType' /\ SsiApart' /\ Frames'
  BY <1>2 DEF Base, ServiceTypes, FrameType, SsiApart, Frames, listVars, procVars, Children
<1> QED BY <1>2, <1>6, <1>7, <1>8, <1>9 DEF Base

LEMMA SliceEndsBase ==
    ASSUME Base, SliceEnds
    PROVE  Base'
<1> DEFINE S == ssi_pcb_real
           p == current_process
           ready == Append(ready_queue, p)
<1>1. /\ cpu = "run" /\ p \in Pcb /\ p # NULL /\ S \in Pcb /\ ready_queue \in Seq(Pcb)
      /\ reg_a1' = [reg_a1 EXCEPT ![p] = SCRATCH]
      /\ UNCHANGED <<procVars, msgVars, ret>> /\ Scheduler(NULL, ready)
      /\ UNCHANGED <<listVars, busy, ssi, frame, call>>
  BY Names DEF SliceEnds, PltInterrupt, Base, CpuWorks, TypeOK
<1>2. ready \in Seq(Pcb) /\ ToSet(ready) = Ready \cup {p}
  BY <1>1, AppendRange DEF Ready
<1> HIDE DEF ready
<1>3. /\ ready_queue' \in Seq(Pcb) /\ current_process' \in Pcb \cup {NULL}
      /\ cpu' \in {"run", "wait", "halt", "panic"}
      /\ cpu' = "run" <=> current_process' # NULL
  BY <1>1, <1>2, SchedulerTypes
<1>4. TypeOK'
  <2>1. reg_a1' \in [Pcb -> {SCRATCH, ANYMESSAGE} \cup Sender]
    BY <1>1 DEF Base, TypeOK
  <2> QED BY <1>1, <1>3, <2>1 DEF Base, TypeOK, procVars, msgVars
<1>5. CpuWorks'
  BY <1>1, <1>3 DEF Base, CpuWorks, procVars, Live
<1>6. ServiceTypes' /\ FrameType' /\ SsiApart' /\ Frames'
  BY <1>1, <1>3 DEF Base, ServiceTypes, FrameType, SsiApart, Frames, listVars, procVars, Children
<1>7. SsiServes' /\ SsiWork' /\ SsiType'
  <2>1. S \in blocked => reg_a1'[S] = reg_a1[S]
    BY <1>1 DEF Base, SsiPlaced, TypeOK
  <2>2. Asked' = Asked
    BY <1>1 DEF Asked, msgVars
  <2>3. SsiServes'
    BY <1>1, <2>1 DEF Base, SsiServes, msgVars
  <2> QED BY <1>1, <2>2, <2>3 DEF Base, SsiWork, SsiType
<1>8. SsiPlaced'
  <2>1. AtMostOne(ready, {S})
    <3>1. p \in {S} => Among(ready_queue, {S}) = {}
      BY DEF Base, SsiPlaced, Among, Ready
    <3>2. AtMostOne(ready_queue, {S})
      BY DEF Base, SsiPlaced
    <3> QED BY <1>1, <3>1, <3>2, AmongAppend DEF ready
  <2>2. blocked' = blocked
    BY <1>1 DEF msgVars
  <2>3. /\ S \in ToSet(ready) => S \notin blocked' /\ NULL # S
        /\ S \in blocked' => NULL # S
        /\ S \in ToSet(ready) \cup blocked' \cup {NULL}
    BY <1>1, <1>2, <2>2, Names DEF Base, SsiPlaced
  <2> QED BY <1>1, <1>2, <2>1, <2>3, ScheduledPlacesSsi
<1> QED BY <1>4, <1>5, <1>6, <1>7, <1>8 DEF Base
-----------------------------------------------------------------------------
(* The SSI's own steps on lists and counters.                              *)

(* It goes on, no message moves and nobody is scheduled.                   *)
LEMMA SsiStays ==
    ASSUME Base, Running(ssi_pcb_real),
           ready_queue' \in Seq(Pcb), AtMostOne(ready_queue', {ssi_pcb_real}),
           ssi_pcb_real \notin ToSet(ready_queue'),
           UNCHANGED <<current_process, cpu, blocked>>,
           pcbFree' = pcbFree \/ ssi_pcb_real \notin ToSet(pcbFree')
    PROVE  CpuWorks' /\ SsiPlaced'
<1>1. ssi_pcb_real \notin blocked /\ current_process = ssi_pcb_real
  BY SsiRuns DEF Running
<1> QED BY <1>1, Names DEF Base, CpuWorks, SsiPlaced, Ready, Live

LEMMA CreateAllocatesBase ==
    ASSUME Base, CreateAllocates
    PROVE  Base'
<1> DEFINE S == ssi_pcb_real
<1>0. /\ Running(S) /\ ssi.pc = "dispatch" /\ Asked.op = "CREATE" /\ S \in Pcb
      /\ S \notin blocked /\ S \notin Ready /\ frame["ssi"] = NoFrame
  BY Names, SsiRuns DEF CreateAllocates, Serving, SsiAt, Base, Frames
<1>1. /\ UNCHANGED <<keepCpu, ready_queue, process_count, softblock_count, msgFree,
                     blocked, pcb_blocked_on_device, pcb_blocked_on_clock, busy,
                     frame, call>>
  BY DEF CreateAllocates
<1>2. SsiPc \cap {"reply", "insertChild"} = {"reply", "insertChild"}
  BY DEF SsiPc
<1>3. ready_queue' \in Seq(Pcb) /\ AtMostOne(ready_queue', {S}) /\ S \notin ToSet(ready_queue')
  BY <1>0, <1>1 DEF Base, TypeOK, SsiPlaced, Ready
<1>4. CASE /\ SsiGoes("reply", NOPROC)
           /\ UNCHANGED <<pcbFree, p_parent, p_child, reg_a1, msg_inbox, received, do_io>>
  <2>1. SsiServes' /\ SsiWork' /\ SsiType'
    BY <1>0, <1>1, <1>2, <1>4, SsiGoesOn DEF Creating
  <2>2. CpuWorks' /\ SsiPlaced'
    BY <1>0, <1>1, <1>3, <1>4, SsiStays DEF keepCpu
  <2>3. TypeOK' /\ ServiceTypes' /\ FrameType'
    BY <1>1, <1>4 DEF keepCpu, Base, TypeOK, ServiceTypes, FrameType
  <2>4. SsiApart' /\ Frames'
    BY <1>0, <1>1, <1>4 DEF keepCpu, Base, SsiApart, Frames, Children
  <2> QED BY <2>1, <2>2, <2>3, <2>4 DEF Base
<1>5. ASSUME NEW p \in Pcb, allocPcb(p), SsiGoes("insertChild", p)
      PROVE  Base'
  <2>1. /\ pcbFree \in Seq(Pcb) /\ pcbFree # <<>> /\ p = Head(pcbFree) /\ pcbFree' = Tail(pcbFree)
        /\ p_parent' = [p_parent EXCEPT ![p] = NULL]
        /\ p_child' = [p_child EXCEPT ![p] = <<>>]
        /\ reg_a1' = [reg_a1 EXCEPT ![p] = ANYMESSAGE]
        /\ msg_inbox' = [msg_inbox EXCEPT ![p] = <<>>]
        /\ received' = [received EXCEPT ![p] = NoMessage]
        /\ do_io' = [do_io EXCEPT ![p] = FALSE]
    BY <1>5 DEF allocPcb, Base, TypeOK
  <2>2. /\ Len(pcbFree) \in Nat /\ DOMAIN pcbFree = 1..Len(pcbFree) /\ 1 \in DOMAIN pcbFree
        /\ Head(pcbFree) = pcbFree[1] /\ Tail(pcbFree) \in Seq(Pcb)
        /\ DOMAIN Tail(pcbFree) = 1..(Len(pcbFree) - 1)
        /\ \A j \in DOMAIN Tail(pcbFree) : Tail(pcbFree)[j] = pcbFree[j + 1]
    BY <2>1, TailElements
  <2>3. S \notin ToSet(pcbFree)
    BY DEF Base, CpuWorks, Live
  <2>4. p \in User /\ p \in ToSet(pcbFree)
    BY <2>1, <2>2, <2>3 DEF ToSet, User
  <2>5. pcbFree' \in Seq(Pcb) /\ S \notin ToSet(pcbFree')
    <3>1. \A j \in DOMAIN Tail(pcbFree) : j + 1 \in DOMAIN pcbFree
      BY <2>2
    <3>2. \A j \in DOMAIN Tail(pcbFree) : Tail(pcbFree)[j] \in ToSet(pcbFree)
      BY <2>2, <3>1 DEF ToSet
    <3>3. ToSet(Tail(pcbFree)) \subseteq ToSet(pcbFree)
      BY <3>2 DEF ToSet
    <3> QED BY <2>1, <2>2, <2>3, <3>3
  <2>6. TypeOK'
    BY <1>1, <2>1, <2>5, NoQueue DEF keepCpu, Base, TypeOK
  <2>7. ServiceTypes' /\ FrameType'
    BY <1>1, <2>1, NoQueue DEF Base, ServiceTypes, FrameType
  <2>8. msg_inbox'[S] = msg_inbox[S] /\ received'[S] = received[S]
    BY <2>1, <2>4, <1>0 DEF Base, TypeOK, User
  <2>9. SsiServes' /\ SsiWork' /\ SsiType'
    BY <1>0, <1>1, <1>2, <1>5, <2>4, <2>8, SsiGoesOn
  <2>10. CpuWorks' /\ SsiPlaced'
    BY <1>0, <1>1, <1>3, <2>5, SsiStays DEF keepCpu
  <2>11. SsiApart'
    <3>1. \A x \in Pcb : p_parent'[x] # S
      BY <2>1, Names DEF Base, SsiApart, TypeOK
    <3>2. \A x \in Pcb : S \notin ToSet(p_child'[x])
      BY <2>1, NoQueue DEF Base, SsiApart, ServiceTypes, Children
    <3> QED BY <1>1, <3>1, <3>2 DEF Base, SsiApart, Children
  <2>12. Frames'
    BY <1>0, <1>1, <1>5 DEF keepCpu, Base, Frames, SsiGoes
  <2> QED BY <2>6, <2>7, <2>9, <2>10, <2>11, <2>12 DEF Base
<1> QED BY <1>4, <1>5 DEF CreateAllocates

LEMMA CreateLinksBase ==
    ASSUME Base, CreateInsertsChild \/ CreateInsertsReady
    PROVE  Base'
<1> DEFINE S == ssi_pcb_real
<1>0. /\ Running(S) /\ ssi.pc \in {"insertChild", "insertReady"} /\ S \in Pcb
      /\ S \notin blocked /\ S \notin Ready /\ frame["ssi"] = NoFrame /\ Asked.op = "CREATE"
      /\ ssi.p \in User /\ Asker \in User
  BY Names, SsiRuns
     DEF CreateInsertsChild, CreateInsertsReady, SsiAt, Base, Frames, SsiWork, Creating, SsiOp
<1>1. /\ UNCHANGED <<pcbFree, process_count, msgVars, current_process, cpu, reg_a1, ret, busy,
                     pcb_blocked_on_device, pcb_blocked_on_clock, frame, call>>
  BY DEF CreateInsertsChild, CreateInsertsReady, procVars, cpuVars, keepCpu, listVars
<1>2. SsiPc \cap {"insertReady", "countRead"} = {"insertReady", "countRead"}
  BY DEF SsiPc
<1>3. PICK pc \in {"insertReady", "countRead"} : SsiGoes(pc, ssi.p)
  BY DEF CreateInsertsChild, CreateInsertsReady
<1>4. SsiServes' /\ SsiWork' /\ SsiType'
  BY <1>0, <1>1, <1>2, <1>3, SsiGoesOn DEF msgVars, User
<1>5. /\ ready_queue' \in Seq(Pcb) /\ AtMostOne(ready_queue', {S})
      /\ S \notin ToSet(ready_queue')
  <2>1. ready_queue \in Seq(Pcb) /\ AtMostOne(ready_queue, {S})
    BY DEF Base, TypeOK, SsiPlaced
  <2>2. CASE ready_queue' = ready_queue
    BY <1>0, <2>1, <2>2 DEF Ready
  <2>3. CASE ready_queue' = Append(ready_queue, ssi.p)
    <3>1. /\ Append(ready_queue, ssi.p) \in Seq(Pcb)
          /\ ToSet(Append(ready_queue, ssi.p)) = Ready \cup {ssi.p}
      BY <1>0, <2>1, AppendRange DEF User, Ready
    <3>2. ssi.p \notin {S}
      BY <1>0 DEF User
    <3>3. AtMostOne(Append(ready_queue, ssi.p), {S})
      BY <1>0, <2>1, <3>2, AmongAppend DEF User
    <3> QED BY <1>0, <2>3, <3>1, <3>2, <3>3
  <2> QED BY <2>2, <2>3 DEF CreateInsertsChild, CreateInsertsReady, cpuVars
<1>6. CpuWorks' /\ SsiPlaced'
  BY <1>0, <1>1, <1>5, SsiStays DEF msgVars
<1>7. /\ p_parent' \in [Pcb -> Pcb \cup {NULL}] /\ p_child' \in [Pcb -> Seq(Pcb)]
      /\ \A x \in Pcb : p_parent'[x] # S /\ S \notin ToSet(p_child'[x])
  <2>1. /\ p_parent \in [Pcb -> Pcb \cup {NULL}] /\ p_child \in [Pcb -> Seq(Pcb)]
        /\ \A x \in Pcb : p_parent[x] # S /\ S \notin ToSet(p_child[x])
    BY DEF Base, TypeOK, ServiceTypes, SsiApart, Children
  <2>2. CASE p_parent' = p_parent /\ p_child' = p_child
    BY <2>1, <2>2
  <2>3. CASE /\ p_parent' = [p_parent EXCEPT ![ssi.p] = Asker]
             /\ p_child' = [p_child EXCEPT ![Asker] = Append(@, ssi.p)]
    <3>1. /\ ssi.p \in Pcb /\ ssi.p # S /\ Asker \in Pcb /\ Asker # S
      BY <1>0 DEF User
    <3>2. /\ Append(p_child[Asker], ssi.p) \in Seq(Pcb)
          /\ ToSet(Append(p_child[Asker], ssi.p)) = ToSet(p_child[Asker]) \cup {ssi.p}
      BY <2>1, <3>1, AppendRange
    <3> QED BY <2>1, <2>3, <3>1, <3>2
  <2> QED BY <2>2, <2>3 DEF CreateInsertsChild, CreateInsertsReady, procVars, listVars
<1>8. TypeOK' /\ ServiceTypes' /\ FrameType'
  BY <1>1, <1>5, <1>7 DEF msgVars, Base, TypeOK, ServiceTypes, FrameType
<1>9. SsiApart'
  BY <1>1, <1>7 DEF Base, SsiApart, Children
<1>10. Frames'
  BY <1>0, <1>1 DEF Base, Frames
<1> QED BY <1>4, <1>6, <1>8, <1>9, <1>10 DEF Base

LEMMA CreateCountsBase ==
    ASSUME Base, CreateReadsCount \/ CreateWritesCount
    PROVE  Base'
<1> DEFINE S == ssi_pcb_real
<1>0. /\ Running(S) /\ ssi.pc \in {"countRead", "countWrite"} /\ S \in Pcb
      /\ S \notin blocked /\ S \notin Ready /\ frame["ssi"] = NoFrame /\ Asked.op = "CREATE"
      /\ ssi.p \in User /\ received[S] \in SsiMessage
  BY Names, SsiRuns
     DEF CreateReadsCount, CreateWritesCount, SsiAt, Base, Frames, SsiWork, Creating
<1>1. /\ UNCHANGED <<pcbFree, p_parent, msgVars, cpuVars, reg_a1, ret, listVars, busy, frame, call>>
      /\ process_count' \in 0..(CountMod - 1)
  BY DEF CreateReadsCount, CreateWritesCount, ipcVars, procVars, Base, TypeOK, SsiType
<1>2. SsiServes' /\ SsiWork' /\ SsiType'
  <2>1. ssi'.pc \in {"countWrite", "reply"} /\ ssi'.p = ssi.p
    <3>1. SsiType
      BY DEF Base
    <3>2. CASE CreateReadsCount
      BY <3>1, <3>2 DEF CreateReadsCount, SsiType
    <3>3. CASE CreateWritesCount
      BY <3>3 DEF CreateWritesCount, SsiGoes
    <3> QED BY <3>2, <3>3
  <2>2. Asked' = Asked
    BY <1>1 DEF Asked, msgVars
  <2>3. SsiType'
    <3>1. SsiType /\ process_count \in 0..(CountMod - 1)
      BY DEF Base, TypeOK
    <3>2. Inc(process_count) \in 0..(CountMod - 1) /\ 0 \in 0..(CountMod - 1)
      BY <3>1, IpcAssumption DEF Inc
    <3>3. CASE CreateReadsCount
      BY <3>1, <3>2, <3>3 DEF CreateReadsCount, SsiType, SsiPc
    <3>4. CASE CreateWritesCount
      BY <1>0, <3>2, <3>4 DEF CreateWritesCount, SsiGoes, SsiType, SsiPc, User
    <3> QED BY <3>3, <3>4
  <2>4. SsiServes'
    BY <1>0, <1>1, <2>1 DEF Base, SsiServes, msgVars
  <2>5. SsiWork'
    BY <1>0, <2>1, <2>2 DEF SsiWork, Creating
  <2> QED BY <2>3, <2>4, <2>5
<1>3. TypeOK' /\ ServiceTypes' /\ FrameType' /\ CpuWorks' /\ SsiPlaced' /\ SsiApart'
  BY <1>1 DEF msgVars, cpuVars, listVars, Base, TypeOK, ServiceTypes, FrameType, CpuWorks,
              SsiPlaced, SsiApart, Live, Ready, Children
<1>4. Frames'
  BY <1>0, <1>1 DEF Base, Frames, cpuVars
<1> QED BY <1>2, <1>3, <1>4 DEF Base

(* Requests and answers of devices and the clock: the queues of askers.    *)
LEMMA QueuesBase ==
    ASSUME Base, DoIoQueues \/ DoIoCommands \/ DoIoAnswers \/ WaitForClock \/ ClockAnswers
    PROVE  Base'
<1> DEFINE S == ssi_pcb_real
           dev == pcb_blocked_on_device
           clk == pcb_blocked_on_clock
<1>0. /\ Running(S) /\ ssi.pc \in {"dispatch", "command"} /\ S \in Pcb
      /\ S \notin blocked /\ S \notin Ready /\ frame["ssi"] = NoFrame
      /\ Asked.op \in {"IODONE", "DOIO"} => Asked.arg \in Device
      /\ Asked.op \in {"DOIO", "CLOCKWAIT"} => Asker \in User
      /\ DoIoCommands => Asked.op = "DOIO"
  BY Names, SsiRuns
     DEF DoIoQueues, DoIoCommands, DoIoAnswers, WaitForClock, ClockAnswers, Serving, SsiAt,
         Base, Frames, SsiWork, SsiOp
<1>1. /\ UNCHANGED <<procVars, keepMsg, blocked, softblock_count, cpuVars, reg_a1, ret,
                     p_child, frame, call>>
      /\ do_io' \in [Pcb -> BOOLEAN]
  BY DEF DoIoQueues, DoIoCommands, DoIoAnswers, WaitForClock, ClockAnswers, ipcVars, msgVars,
         keepMsg, listVars, Base, TypeOK
<1>2. /\ dev \in [Device -> Seq(Pcb)] /\ clk \in Seq(Pcb)
      /\ \A d \in Device : S \notin ToSet(dev[d])
      /\ S \notin ToSet(clk)
  BY DEF Base, ServiceTypes, SsiApart
<1>3. \A q \in Seq(Pcb) : S \notin ToSet(q) /\ q # <<>> =>
          Head(q) \in User /\ Tail(q) \in Seq(Pcb) /\ S \notin ToSet(Tail(q))
  <2>1. SUFFICES ASSUME NEW q \in Seq(Pcb), S \notin ToSet(q), q # <<>>
                 PROVE  Head(q) \in User /\ Tail(q) \in Seq(Pcb) /\ S \notin ToSet(Tail(q))
    OBVIOUS
  <2>2. /\ Tail(q) \in Seq(Pcb) /\ 1 \in DOMAIN q /\ Head(q) = q[1] /\ Head(q) \in Pcb
        /\ Len(q) \in Nat /\ DOMAIN q = 1..Len(q)
        /\ DOMAIN Tail(q) = 1..(Len(q) - 1)
        /\ \A j \in DOMAIN Tail(q) : Tail(q)[j] = q[j + 1]
    BY <2>1, TailElements, HeadTailProperties
  <2>3. \A j \in DOMAIN Tail(q) : j + 1 \in DOMAIN q
    BY <2>2
  <2>4. S \notin ToSet(Tail(q))
    BY <2>1, <2>2, <2>3 DEF ToSet
  <2>5. Head(q) \in User
    BY <2>1, <2>2 DEF ToSet, User
  <2> QED BY <2>2, <2>4, <2>5
<1>4. /\ dev' \in [Device -> Seq(Pcb)] /\ clk' \in Seq(Pcb)
      /\ \A d \in Device : S \notin ToSet(dev'[d])
      /\ S \notin ToSet(clk')
  <2>1. CASE DoIoQueues
    <3>1. /\ Asker \in User /\ Asked.arg \in Device /\ clk' = clk
          /\ dev' = [dev EXCEPT ![Asked.arg] = Append(Without(@, Asker), Asker)]
      BY <1>0, <2>1 DEF DoIoQueues, Serving
    <3>2. /\ Without(dev[Asked.arg], Asker) \in Seq(Pcb)
          /\ S \notin ToSet(Without(dev[Asked.arg], Asker))
      BY <1>2, <3>1, WithoutRange
    <3>3. PICK q, r : q = Without(dev[Asked.arg], Asker) /\ r = Append(q, Asker)
      OBVIOUS
    <3>4. r \in Seq(Pcb) /\ S \notin ToSet(r)
      BY <3>1, <3>2, <3>3, AppendRange DEF User
    <3>5. dev' = [dev EXCEPT ![Asked.arg] = r]
      BY <3>1, <3>3
    <3> QED BY <1>2, <3>1, <3>4, <3>5
  <2>2. CASE DoIoCommands
    BY <1>2, <2>2 DEF DoIoCommands, listVars
  <2>3. CASE DoIoAnswers
    <3>1. /\ clk' = clk /\ Asked.arg \in Device
          /\ \/ dev' = dev
             \/ dev[Asked.arg] # <<>> /\ dev' = [dev EXCEPT ![Asked.arg] = Tail(@)]
      BY <1>0, <2>3 DEF DoIoAnswers, Serving
    <3>2. dev[Asked.arg] # <<>> =>
             Tail(dev[Asked.arg]) \in Seq(Pcb) /\ S \notin ToSet(Tail(dev[Asked.arg]))
      BY <1>2, <1>3, <3>1
    <3>3. dev' \in [Device -> Seq(Pcb)] /\ \A d \in Device : S \notin ToSet(dev'[d])
      BY <1>2, <3>1, <3>2
    <3> QED BY <1>2, <3>1, <3>3
  <2>4. CASE WaitForClock
    <3>1. dev' = dev /\ Asker \in User /\ clk' = Append(clk, Asker)
      BY <1>0, <2>4 DEF WaitForClock, Serving
    <3> QED BY <1>2, <3>1, AppendRange DEF User
  <2>5. CASE ClockAnswers
    <3>1. /\ dev' = dev
          /\ clk' = clk \/ (clk # <<>> /\ clk' = Tail(clk))
      BY <2>5 DEF ClockAnswers
    <3>2. clk # <<>> => Tail(clk) \in Seq(Pcb) /\ S \notin ToSet(Tail(clk))
      BY <1>2, <1>3
    <3>3. clk' \in Seq(Pcb) /\ S \notin ToSet(clk')
      BY <1>2, <3>1, <3>2
    <3> QED BY <1>2, <3>1, <3>3
  <2> QED BY <2>1, <2>2, <2>3, <2>4, <2>5
<1>5. SsiServes' /\ SsiWork' /\ SsiType'
  <2>1. msg_inbox'[S] = msg_inbox[S] /\ received'[S] = received[S] /\ S \notin blocked'
    BY <1>0, <1>1 DEF keepMsg
  <2>2. {"command", "receive", "answer", "tick"} \subseteq SsiPc
        /\ \A pc \in {"command", "receive", "answer", "tick"} : pc \notin Creating \cup {"reply"}
    BY DEF SsiPc, Creating
  <2>3. /\ \A d \in Device : dev[d] # <<>> => Head(dev[d]) \in User
        /\ clk # <<>> => Head(clk) \in User
    BY <1>2, <1>3
  <2>4. PICK pc \in {"command", "receive", "answer", "tick"}, p \in User \cup {NULL} :
           /\ SsiGoes(pc, p)
           /\ pc = "command" => Asked.op = "DOIO"
           /\ pc = "answer" => Asked.op = "IODONE" /\ p \in User
           /\ pc = "tick" => Asked.op = "TICK" /\ p \in User
    <3>1. CASE DoIoQueues
      BY <3>1 DEF DoIoQueues, Serving
    <3>2. CASE DoIoCommands \/ WaitForClock
      BY <3>2 DEF DoIoCommands, WaitForClock
    <3>3. CASE DoIoAnswers
      BY <1>0, <2>3, <3>3 DEF DoIoAnswers, Serving
    <3>4. CASE ClockAnswers
      BY <2>3, <3>4 DEF ClockAnswers, Serving
    <3> QED BY <3>1, <3>2, <3>3, <3>4
  <2>5. pc \in SsiPc /\ p \in Pcb \cup {NULL, NOPROC} /\ ssi.pc # "receive" /\ pc # "terminate"
    BY <1>0, <2>2 DEF User
  <2> QED BY <1>0, <2>1, <2>2, <2>4, <2>5, SsiGoesOn
<1>6. CpuWorks' /\ SsiPlaced'
  BY <1>1 DEF Base, CpuWorks, SsiPlaced, procVars, cpuVars, Live, Ready
<1>7. TypeOK' /\ FrameType'
  BY <1>1 DEF Base, TypeOK, FrameType, procVars, cpuVars, keepMsg
<1>8. ServiceTypes'
  <2>1. busy' \subseteq Device
    BY <1>0 DEF DoIoQueues, DoIoCommands, DoIoAnswers, WaitForClock, ClockAnswers,
                Base, ServiceTypes
  <2> QED BY <1>1, <1>4, <2>1 DEF Base, ServiceTypes
<1>9. SsiApart'
  BY <1>1, <1>4 DEF Base, SsiApart, Children, procVars
<1>10. Frames'
  BY <1>0, <1>1 DEF Base, Frames, cpuVars
<1> QED BY <1>5, <1>6, <1>7, <1>8, <1>9, <1>10 DEF Base

(* The SSI's answers, and the end of an unknown service code.              *)
ReplyOp == {"CREATED", "TERMINATED", "IOSTATUS", "TICKED", "TIME"}

LEMMA Replies ==
    ASSUME Base, CreateReplies \/ DoIoReplies \/ ClockReplies \/ GetTimeReplies \/ TermReplies
    PROVE  /\ Running(ssi_pcb_real) /\ ssi.pc # "receive" /\ frame["ssi"] = NoFrame
           /\ SsiGoes("receive", NULL) \/ SsiGoes("dispatch", NULL)
           /\ \/ \E dest \in User, op \in ReplyOp,
                    arg \in Address \cup Device \cup {NOPROC} :
                    SsiSends(dest, op, arg)
              \/ UNCHANGED <<ipcVars, listVars, busy, frame, call>> /\ ssi'.pc = "receive"
<1>1. Running(ssi_pcb_real) /\ ssi.pc # "receive"
  BY DEF CreateReplies, DoIoReplies, ClockReplies, GetTimeReplies, TermReplies, SsiAt, Serving
<1>2. frame["ssi"] = NoFrame
  BY DEF CreateReplies, DoIoReplies, ClockReplies, GetTimeReplies, TermReplies, SsiAt, Serving,
         Base, Frames
<1>3. SsiGoes("receive", NULL) \/ SsiGoes("dispatch", NULL)
  BY DEF CreateReplies, DoIoReplies, ClockReplies, GetTimeReplies, TermReplies
<1>4. /\ Asked.op \in {"CREATE", "TERM", "GETTIME"} => Asker \in User
      /\ Asked.op = "IODONE" => Asked.arg \in Device
  BY <1>1, SsiRuns DEF SsiOp
<1>5. CASE CreateReplies
  <2>1. Asker \in User /\ ssi.p \in Address \cup {NOPROC}
    BY <1>4, <1>5, Names DEF CreateReplies, SsiAt, Base, SsiWork, SsiType
  <2> QED BY <1>1, <1>2, <1>3, <1>5, <2>1 DEF CreateReplies, ReplyOp
<1>6. CASE DoIoReplies
  <2>1. ssi.p \in User /\ Asked.arg \in Device
    BY <1>4, <1>6 DEF DoIoReplies, SsiAt, Base, SsiWork
  <2> QED BY <1>1, <1>2, <1>3, <1>6, <2>1 DEF DoIoReplies, ReplyOp
<1>7. CASE ClockReplies
  <2>1. ssi.p \in User
    BY <1>7 DEF ClockReplies, SsiAt, Base, SsiWork
  <2> QED BY <1>1, <1>2, <1>3, <1>7, <2>1, Names DEF ClockReplies, NULL, ReplyOp
<1>8. CASE GetTimeReplies
  BY <1>1, <1>2, <1>3, <1>4, <1>8, Names DEF GetTimeReplies, Serving, NULL, ReplyOp
<1>9. CASE TermReplies
  <2>1. CASE Asked.op = "TERM" /\ SsiSends(Asker, "TERMINATED", 0)
    BY <1>1, <1>2, <1>3, <1>4, <2>1, Names DEF NULL, ReplyOp
  <2>2. CASE UNCHANGED <<ipcVars, listVars, busy, frame, call>>
    BY <1>1, <1>2, <1>3, <1>9, <2>2 DEF TermReplies, SsiGoes
  <2> QED BY <1>9, <2>1, <2>2 DEF TermReplies
<1> QED BY <1>5, <1>6, <1>7, <1>8, <1>9

LEMMA RepliesBase ==
    ASSUME Base, CreateReplies \/ DoIoReplies \/ ClockReplies \/ GetTimeReplies \/ TermReplies
    PROVE  Base'
<1>1. /\ Running(ssi_pcb_real) /\ ssi.pc # "receive" /\ frame["ssi"] = NoFrame
      /\ SsiGoes("receive", NULL) \/ SsiGoes("dispatch", NULL)
  BY Replies
<1>2. ASSUME NEW dest \in User, NEW op \in ReplyOp,
             NEW arg \in Address \cup Device \cup {NOPROC}, SsiSends(dest, op, arg)
      PROVE  Base'
  <2>1. [op |-> op, arg |-> arg] \in Load
    BY Loads DEF Reply, ReplyOp
  <2> QED BY <1>1, <1>2, <2>1, SsiSendsBase
<1>3. CASE UNCHANGED <<ipcVars, listVars, busy, frame, call>> /\ ssi'.pc = "receive"
  <2>1. UNCHANGED ipcVars /\ SsiGoes("receive", NULL)
    BY <1>1, <1>3 DEF SsiGoes
  <2>2. SsiServes' /\ SsiWork' /\ SsiType'
    <3>1. /\ "receive" \in SsiPc /\ "receive" \notin Creating
      BY DEF SsiPc, Creating
    <3> QED BY <1>1, <2>1, <3>1, SsiGoesOn, SsiRuns DEF ipcVars, msgVars
  <2>3. TypeOK' /\ CpuWorks' /\ SsiPlaced'
    BY <2>1 DEF ipcVars, procVars, msgVars, cpuVars, Base, TypeOK, CpuWorks, SsiPlaced, Live, Ready
  <2>4. ServiceTypes' /\ FrameType' /\ SsiApart' /\ Frames'
    BY <1>1, <1>3, <2>1 DEF ipcVars, procVars, cpuVars, listVars, Base, ServiceTypes, FrameType,
                            SsiApart, Frames, Children
  <2> QED BY <2>2, <2>3, <2>4 DEF Base
<1> QED BY <1>2, <1>3, Replies
-----------------------------------------------------------------------------
(* terminate_process().                                                    *)
FrameOf == [pc : FramePc, stack : Seq(Pcb), was_blocked : BOOLEAN, tmp : 0..(CountMod - 1)]

(* A frame that is in use, or none.                                        *)
GoodFrame(f) ==
    /\ f \in FrameOf /\ ssi_pcb_real \notin ToSet(f.stack)
    /\ f.stack = <<>> <=> f = NoFrame
    /\ f.pc = "idle" <=> f = NoFrame

LEMMA GoodNoFrame == GoodFrame(NoFrame) /\ NoFrame.stack = <<>> /\ NoFrame.pc = "idle"
BY NoQueue, IpcAssumption DEF NoFrame, GoodFrame, FrameOf, FramePc

LEMMA FrameGoesOn ==
    ASSUME NEW f, GoodFrame(f), f.pc # "idle", NEW pc \in FramePc \ {"idle"},
           NEW w \in BOOLEAN, NEW n \in 0..(CountMod - 1)
    PROVE  /\ GoodFrame([f EXCEPT !.pc = pc]) /\ [f EXCEPT !.pc = pc].stack = f.stack
           /\ GoodFrame([f EXCEPT !.pc = pc, !.tmp = n])
           /\ [f EXCEPT !.pc = pc, !.tmp = n].stack = f.stack
           /\ GoodFrame([f EXCEPT !.pc = pc, !.was_blocked = w])
           /\ [f EXCEPT !.pc = pc, !.was_blocked = w].stack = f.stack
<1>1. f \in FrameOf /\ f.stack # <<>> /\ ssi_pcb_real \notin ToSet(f.stack)
  BY GoodNoFrame DEF GoodFrame
<1>2. ASSUME NEW g \in FrameOf, g.stack = f.stack, g.pc = pc  PROVE GoodFrame(g)
  BY <1>1, <1>2, GoodNoFrame DEF GoodFrame
<1>3. /\ [f EXCEPT !.pc = pc] \in FrameOf /\ [f EXCEPT !.pc = pc].stack = f.stack
      /\ [f EXCEPT !.pc = pc].pc = pc
  BY <1>1 DEF FrameOf
<1>4. /\ [f EXCEPT !.pc = pc, !.tmp = n] \in FrameOf
      /\ [f EXCEPT !.pc = pc, !.tmp = n].stack = f.stack
      /\ [f EXCEPT !.pc = pc, !.tmp = n].pc = pc
  BY <1>1 DEF FrameOf
<1>5. /\ [f EXCEPT !.pc = pc, !.was_blocked = w] \in FrameOf
      /\ [f EXCEPT !.pc = pc, !.was_blocked = w].stack = f.stack
      /\ [f EXCEPT !.pc = pc, !.was_blocked = w].pc = pc
  BY <1>1 DEF FrameOf
<1> QED BY <1>2, <1>3, <1>4, <1>5

LEMMA TermActs ==
    ASSUME Base, NEW a \in Actor, NEW pc \in FramePc \ {"idle"}, TermAt(a, pc)
    PROVE  /\ GoodFrame(frame[a]) /\ frame[a].pc = pc /\ frame[a].stack \in Seq(Pcb)
           /\ frame[a].stack # <<>>
           /\ Victim(a) \in User /\ Victim(a) \in ToSet(frame[a].stack)
           /\ Tail(frame[a].stack) \in Seq(Pcb)
           /\ ToSet(Tail(frame[a].stack)) \subseteq ToSet(frame[a].stack)
           /\ cpu \in {"run", "kernel"}
           /\ a = "ssi" => Running(ssi_pcb_real) /\ ssi.pc = "terminate" /\ cpu = "run"
           /\ a = "nucleus" => cpu = "kernel"
<1>1. /\ GoodFrame(frame[a]) /\ frame[a].pc = pc /\ frame[a] # NoFrame
  BY GoodNoFrame DEF TermAt, Base, Frames, FrameType, GoodFrame, FrameOf
<1>2. frame[a].stack \in Seq(Pcb) /\ frame[a].stack # <<>> /\ ssi_pcb_real \notin ToSet(frame[a].stack)
  BY <1>1 DEF GoodFrame, FrameOf
<1>3. PICK q : q = frame[a].stack
  OBVIOUS
<1>4. /\ Tail(q) \in Seq(Pcb) /\ 1 \in DOMAIN q /\ Head(q) = q[1] /\ Head(q) \in Pcb
      /\ Len(q) \in Nat /\ DOMAIN q = 1..Len(q)
      /\ DOMAIN Tail(q) = 1..(Len(q) - 1)
      /\ \A j \in DOMAIN Tail(q) : Tail(q)[j] = q[j + 1]
  BY <1>2, <1>3, TailElements, HeadTailProperties
<1>5. \A j \in DOMAIN Tail(q) : j + 1 \in DOMAIN q
  BY <1>4
<1>6. ToSet(Tail(q)) \subseteq ToSet(q)
  BY <1>4, <1>5 DEF ToSet
<1>7. Head(q) \in ToSet(q)
  BY <1>4 DEF ToSet
<1>8. Head(q) \in User
  BY <1>2, <1>3, <1>4, <1>7 DEF User
<1>9. /\ a = "ssi" => Running(ssi_pcb_real) /\ ssi.pc = "terminate" /\ cpu = "run"
      /\ a = "nucleus" => cpu = "kernel"
  BY <1>1 DEF TermAt, Acts, Running, Base, Frames
<1>10. cpu \in {"run", "kernel"}
  BY <1>9 DEF Actor
<1> QED BY <1>1, <1>2, <1>3, <1>4, <1>6, <1>7, <1>8, <1>9, <1>10 DEF Victim

(* Where a frame goes on, what else Base says is kept.                     *)
LEMMA FramesKept ==
    ASSUME Base, NEW a \in Actor, NEW f, GoodFrame(f), frame' = [frame EXCEPT ![a] = f],
           a = "ssi" => ssi'.pc = "terminate",
           a = "nucleus" => cpu' = "kernel" /\ ssi' = ssi,
           cpu' # "kernel" => cpu # "kernel"
    PROVE  FrameType' /\ Frames'
<1>1. /\ frame \in [Actor -> FrameOf] /\ \A b \in Actor : GoodFrame(frame[b])
      /\ f \in FrameOf
  BY DEF Base, FrameType, FrameOf, Frames, GoodFrame
<1>2. /\ frame' \in [Actor -> FrameOf] /\ \A b \in Actor : GoodFrame(frame'[b])
  BY <1>1
<1>3. FrameType'
  BY <1>2 DEF FrameType, FrameOf
<1>4. cpu' # "kernel" => frame'["nucleus"] = NoFrame
  BY <1>1 DEF Base, Frames
<1>5. ssi'.pc # "terminate" => frame'["ssi"] = NoFrame
  BY <1>1 DEF Base, Frames, Actor
<1> QED BY <1>2, <1>3, <1>4, <1>5 DEF Frames, GoodFrame

(* Steps that change no IPC state but the counters.                        *)
LEMMA TermListsBase ==
    ASSUME Base, NEW a \in Actor,
           \/ TermOutChild(a) \/ TermOutIO(a) \/ TermReadsCount(a) \/ TermWritesCount(a)
           \/ TermReadsSoftblock(a) \/ TermWritesSoftblock(a)
    PROVE  Base'
<1> DEFINE S == ssi_pcb_real
           dev == pcb_blocked_on_device
           v == Victim(a)
<1> USE DEF TermGoes
<1>1. PICK pc \in {"outChild", "outIO", "countRead", "countWrite", "softRead", "softWrite"} :
         TermAt(a, pc)
  BY DEF TermOutChild, TermOutIO, TermReadsCount, TermWritesCount, TermReadsSoftblock,
         TermWritesSoftblock
<1>2. pc \in FramePc \ {"idle"}
  BY DEF FramePc
<1>3. /\ GoodFrame(frame[a]) /\ frame[a].pc # "idle" /\ v \in User
      /\ a = "ssi" => ssi.pc = "terminate"
      /\ a = "nucleus" => cpu = "kernel"
  BY <1>1, <1>2, TermActs
<1>4. /\ UNCHANGED <<pcbFree, p_parent, cpuVars, reg_a1, ret, msg_inbox, msgFree, blocked,
                     received, do_io, pcb_blocked_on_clock, busy, ssi, call>>
  BY DEF TermOutChild, TermOutIO, TermReadsCount, TermWritesCount, TermReadsSoftblock,
         TermWritesSoftblock, ipcVars, procVars, msgVars, listVars
<1>5. /\ process_count' \in 0..(CountMod - 1) /\ softblock_count' \in 0..(CountMod - 1)
  <2>1. /\ process_count \in 0..(CountMod - 1) /\ softblock_count \in 0..(CountMod - 1)
        /\ frame[a].tmp \in 0..(CountMod - 1)
    BY <1>3 DEF Base, TypeOK, GoodFrame, FrameOf
  <2> QED BY <2>1 DEF TermOutChild, TermOutIO, TermReadsCount, TermWritesCount,
             TermReadsSoftblock, TermWritesSoftblock, ipcVars, procVars, msgVars
<1>6. PICK f : GoodFrame(f) /\ frame' = [frame EXCEPT ![a] = f]
  <2>1. frame \in [Actor -> FrameOf] /\ process_count \in 0..(CountMod - 1)
        /\ softblock_count \in 0..(CountMod - 1)
    BY DEF Base, FrameType, FrameOf, TypeOK
  <2>2. /\ Dec(process_count) \in 0..(CountMod - 1) /\ Dec(softblock_count) \in 0..(CountMod - 1)
    BY <2>1, IpcAssumption DEF Dec
  <2>3. {"outReady", "countRead", "countWrite", "softRead", "softWrite", "children"}
           \subseteq FramePc \ {"idle"}
    BY DEF FramePc
  <2>4. \A g \in FramePc \ {"idle"}, w \in BOOLEAN, n \in 0..(CountMod - 1) :
           /\ GoodFrame([frame[a] EXCEPT !.pc = g])
           /\ GoodFrame([frame[a] EXCEPT !.pc = g, !.tmp = n])
           /\ GoodFrame([frame[a] EXCEPT !.pc = g, !.was_blocked = w])
    BY <1>3, FrameGoesOn
  <2>5. CASE TermOutChild(a)
    BY <2>1, <2>3, <2>4, <2>5 DEF TermOutChild
  <2>6. CASE TermOutIO(a)
    <3>1. PICK w \in BOOLEAN : frame' = [frame EXCEPT ![a].pc = "countRead", ![a].was_blocked = w]
      BY <2>6 DEF TermOutIO
    <3> QED BY <2>1, <2>3, <2>4, <3>1
  <2>7. CASE TermReadsCount(a)
    BY <2>1, <2>2, <2>3, <2>4, <2>7 DEF TermReadsCount
  <2>8. CASE TermWritesCount(a)
    <3>1. PICK g \in {"softRead", "children"} : frame' = [frame EXCEPT ![a].pc = g]
      BY <2>8 DEF TermWritesCount
    <3> QED BY <2>1, <2>3, <2>4, <3>1
  <2>9. CASE TermReadsSoftblock(a)
    <3>1. PICK n \in 0..(CountMod - 1) :
             frame' = [frame EXCEPT ![a].pc = "softWrite", ![a].tmp = n]
      BY <2>1, <2>2, <2>9 DEF TermReadsSoftblock
    <3> QED BY <2>1, <2>3, <2>4, <3>1
  <2>10. CASE TermWritesSoftblock(a)
    BY <2>1, <2>3, <2>4, <2>10 DEF TermWritesSoftblock
  <2> QED BY <2>5, <2>6, <2>7, <2>8, <2>9, <2>10
<1>7. /\ p_child' \in [Pcb -> Seq(Pcb)] /\ dev' \in [Device -> Seq(Pcb)]
      /\ \A x \in Pcb : S \notin ToSet(p_child'[x])
      /\ \A d \in Device : S \notin ToSet(dev'[d])
  <2>1. /\ p_child \in [Pcb -> Seq(Pcb)] /\ dev \in [Device -> Seq(Pcb)]
        /\ \A x \in Pcb : S \notin ToSet(p_child[x])
        /\ \A d \in Device : S \notin ToSet(dev[d])
    BY DEF Base, ServiceTypes, SsiApart, Children
  <2>2. CASE TermOutChild(a)
    <3>1. /\ dev' = dev
          /\ \/ p_child' = p_child
             \/ p_child' = [p_child EXCEPT ![p_parent[v]] = Without(@, v)]
      BY <2>2 DEF TermOutChild
    <3>2. \A x \in Pcb : Without(p_child[x], v) \in Seq(Pcb) /\ S \notin ToSet(Without(p_child[x], v))
      BY <2>1, WithoutRange
    <3> QED BY <2>1, <3>1, <3>2
  <2>3. CASE TermOutIO(a)
    <3>1. /\ p_child' = p_child
          /\ dev' = [d \in Device |-> Without(dev[d], v)]
      BY <2>3 DEF TermOutIO
    <3>2. \A d \in Device : Without(dev[d], v) \in Seq(Pcb) /\ S \notin ToSet(Without(dev[d], v))
      BY <2>1, WithoutRange
    <3> QED BY <2>1, <3>1, <3>2
  <2>4. CASE UNCHANGED listVars
    BY <2>1, <2>4 DEF listVars
  <2> QED BY <2>2, <2>3, <2>4
          DEF TermReadsCount, TermWritesCount, TermReadsSoftblock, TermWritesSoftblock
<1>8. FrameType' /\ Frames'
  BY <1>3, <1>4, <1>6, FramesKept DEF cpuVars
<1>9. SsiServes' /\ SsiWork' /\ SsiType'
  BY <1>4, SsiUntouched
<1>10. TypeOK' /\ CpuWorks' /\ SsiPlaced'
  BY <1>4, <1>5 DEF Base, TypeOK, CpuWorks, SsiPlaced, cpuVars, Live, Ready
<1>11. ServiceTypes' /\ SsiApart'
  BY <1>4, <1>7 DEF Base, ServiceTypes, SsiApart, Children
<1> QED BY <1>8, <1>9, <1>10, <1>11 DEF Base

LEMMA TermOutReadyBase ==
    ASSUME Base, NEW a \in Actor, TermOutReady(a)
    PROVE  Base'
<1> DEFINE S == ssi_pcb_real
           v == Victim(a)
<1> USE DEF TermGoes
<1>1. /\ TermAt(a, "outReady") /\ "outReady" \in FramePc \ {"idle"} /\ "outIO" \in FramePc \ {"idle"}
      /\ "nucleus" \in Actor /\ S \in Pcb
  BY Names DEF TermOutReady, FramePc, Actor
<1>2. /\ GoodFrame(frame[a]) /\ frame[a].pc = "outReady" /\ v \in User
      /\ a = "ssi" => ssi.pc = "terminate"
      /\ a = "nucleus" => cpu = "kernel"
  BY <1>1, TermActs
<1>3. /\ UNCHANGED <<procVars, msgVars, keepCpu, reg_a1, listVars, busy, ssi, call>>
      /\ ready_queue' = Without(ready_queue, v)
      /\ frame' = [frame EXCEPT ![a].pc = "outIO"]
  BY DEF TermOutReady
<1>4. PICK f : GoodFrame(f) /\ frame' = [frame EXCEPT ![a] = f]
  <2>1. frame \in [Actor -> FrameOf]
    BY DEF Base, FrameType, FrameOf
  <2>2. GoodFrame([frame[a] EXCEPT !.pc = "outIO"])
    <3>1. frame[a].was_blocked \in BOOLEAN /\ frame[a].tmp \in 0..(CountMod - 1)
      BY <2>1 DEF FrameOf
    <3> QED BY <1>1, <1>2, <3>1, FrameGoesOn
  <2> QED BY <1>3, <2>1, <2>2
<1>5. /\ ready_queue' \in Seq(Pcb) /\ AtMostOne(ready_queue', {S})
      /\ S \in ToSet(ready_queue') <=> S \in Ready
  <2>1. ready_queue \in Seq(Pcb) /\ AtMostOne(ready_queue, {S}) /\ S # v
    BY <1>2 DEF Base, TypeOK, SsiPlaced, User
  <2> QED BY <1>3, <2>1, WithoutRange DEF Ready
<1>6. FrameType' /\ Frames'
  BY <1>2, <1>3, <1>4, FramesKept DEF keepCpu
<1>7. SsiServes' /\ SsiWork' /\ SsiType'
  BY <1>3, SsiUntouched DEF msgVars
<1>8. TypeOK' /\ CpuWorks' /\ SsiPlaced'
  BY <1>3, <1>5 DEF Base, TypeOK, CpuWorks, SsiPlaced, procVars, msgVars, keepCpu, Live, Ready
<1>9. ServiceTypes' /\ SsiApart'
  BY <1>3 DEF Base, ServiceTypes, SsiApart, Children, listVars, procVars
<1> QED BY <1>6, <1>7, <1>8, <1>9 DEF Base

(* The caller's frame.                                                     *)
LEMMA GoodResume ==
    ASSUME NEW stack \in Seq(Pcb), ssi_pcb_real \notin ToSet(stack)
    PROVE  /\ GoodFrame(Resume(stack)) /\ Resume(stack).stack = stack
           /\ stack # <<>> => Resume(stack).pc = "children"
           /\ stack = <<>> => Resume(stack) = NoFrame
<1>1. CASE stack = <<>>
  BY <1>1, GoodNoFrame DEF Resume
<1>2. CASE stack # <<>>
  <2>1. PICK f : f = [NoFrame EXCEPT !.pc = "children", !.stack = stack]
    OBVIOUS
  <2>2. f = [pc |-> "children", stack |-> stack, was_blocked |-> FALSE, tmp |-> 0]
    BY <2>1 DEF NoFrame
  <2>3. f \in FrameOf /\ f.stack = stack /\ f.pc = "children" /\ NoFrame.stack = <<>>
    BY <2>2, IpcAssumption DEF FrameOf, FramePc, NoFrame
  <2>4. GoodFrame(f)
    BY <1>2, <2>3, GoodNoFrame DEF GoodFrame
  <2> QED BY <1>2, <2>1, <2>3, <2>4 DEF Resume
<1> QED BY <1>1, <1>2

(* The frame of a new call, if there is one.                               *)
Called(p, stack) ==
    IF isPcbValid(p)
    THEN [NoFrame EXCEPT !.pc = "outChild", !.stack = <<p>> \o stack]
    ELSE Resume(stack)

LEMMA GoodCalled ==
    ASSUME NEW p, p \in Pcb => p # ssi_pcb_real,
           NEW stack \in Seq(Pcb), ssi_pcb_real \notin ToSet(stack)
    PROVE  /\ GoodFrame(Called(p, stack))
           /\ isPcbValid(p) => /\ Called(p, stack).stack = <<p>> \o stack
                               /\ Called(p, stack).pc = "outChild"
           /\ ~isPcbValid(p) => Called(p, stack) = Resume(stack)
<1>1. CASE ~isPcbValid(p)
  BY <1>1, GoodResume DEF Called
<1>2. CASE isPcbValid(p)
  <2>1. p \in User
    BY <1>2 DEF isPcbValid, Live, User
  <2>2. PICK q : q = <<p>> \o stack
    OBVIOUS
  <2>3. q \in Seq(Pcb) /\ q # <<>> /\ ssi_pcb_real \notin ToSet(q)
    <3>1. p \in Pcb /\ p # ssi_pcb_real
      BY <2>1 DEF User
    <3>2. <<p>> \o stack \in Seq(Pcb) /\ <<p>> \o stack # <<>>
          /\ ToSet(<<p>> \o stack) = {p} \cup ToSet(stack)
      BY <3>1, Push
    <3> QED BY <2>2, <3>1, <3>2
  <2>4. PICK f : f = [NoFrame EXCEPT !.pc = "outChild", !.stack = q]
    OBVIOUS
  <2>5. f = [pc |-> "outChild", stack |-> q, was_blocked |-> FALSE, tmp |-> 0]
    BY <2>4 DEF NoFrame
  <2>6. f \in FrameOf /\ f.stack = q /\ f.pc = "outChild" /\ NoFrame.stack = <<>>
    BY <2>3, <2>5, IpcAssumption DEF FrameOf, FramePc, NoFrame
  <2>7. GoodFrame(f)
    BY <2>3, <2>6, GoodNoFrame DEF GoodFrame
  <2> QED BY <1>2, <2>2, <2>4, <2>6, <2>7 DEF Called
<1> QED BY <1>1, <1>2

LEMMA EnterEffect ==
    ASSUME NEW a, NEW p, p \in Pcb => p # ssi_pcb_real, NEW stack, Enter(a, p, stack)
    PROVE  /\ frame' = [frame EXCEPT ![a] = Called(p, stack)]
           /\ cpu' = IF a = "nucleus" THEN "kernel" ELSE cpu
BY Names DEF Enter, Called

(* What a call changes but the SSI's own state.                            *)
LEMMA EnterBase ==
    ASSUME Base, NEW a \in Actor, NEW p, p \in Pcb => p # ssi_pcb_real,
           NEW stack \in Seq(Pcb), ssi_pcb_real \notin ToSet(stack), Enter(a, p, stack),
           UNCHANGED <<procVars, msgVars, ready_queue, current_process, reg_a1, ret, listVars,
                       busy, call>>,
           a = "ssi" => cpu # "kernel" /\ ssi'.pc = "terminate",
           a = "nucleus" => current_process \in User /\ cpu \in {"run", "kernel"} /\ ssi' = ssi,
           SsiServes' /\ SsiWork' /\ SsiType'
    PROVE  Base'
<1>1. /\ frame' = [frame EXCEPT ![a] = Called(p, stack)]
      /\ cpu' = IF a = "nucleus" THEN "kernel" ELSE cpu
  BY EnterEffect
<1>2. FrameType' /\ Frames'
  <2>1. GoodFrame(Called(p, stack))
    BY GoodCalled
  <2> QED BY <1>1, <2>1, FramesKept
<1>3. TypeOK'
  BY <1>1 DEF Base, TypeOK, procVars, msgVars
<1>4. CpuWorks'
  BY <1>1, Names DEF Base, CpuWorks, procVars, Live, User, Actor
<1>5. SsiPlaced' /\ ServiceTypes' /\ SsiApart'
  BY DEF Base, SsiPlaced, ServiceTypes, SsiApart, Children, listVars, procVars, msgVars, Ready
<1> QED BY <1>2, <1>3, <1>4, <1>5 DEF Base

LEMMA TermNextChildBase ==
    ASSUME Base, NEW a \in Actor, TermNextChild(a)
    PROVE  Base'
<1> DEFINE S == ssi_pcb_real
           q == p_child[Victim(a)]
<1>1. /\ TermAt(a, "children") /\ q # <<>> /\ "children" \in FramePc \ {"idle"}
      /\ Enter(a, Head(q), frame[a].stack)
      /\ UNCHANGED <<procVars, msgVars, ready_queue, current_process, reg_a1, ret,
                     listVars, busy, ssi, call>>
  BY DEF TermNextChild, FramePc
<1>2. /\ GoodFrame(frame[a]) /\ Victim(a) \in User /\ frame[a].stack \in Seq(Pcb)
      /\ a = "ssi" => ssi.pc = "terminate" /\ cpu = "run"
      /\ a = "nucleus" => cpu = "kernel"
  BY <1>1, TermActs
<1>3. Head(q) # S
  <2>1. q \in Seq(Pcb) /\ S \notin ToSet(q)
    BY <1>2 DEF Base, ServiceTypes, SsiApart, Children, User
  <2>2. Head(q) \in ToSet(q)
    BY <1>1, <2>1, TailElements DEF ToSet
  <2> QED BY <2>1, <2>2
<1>4. SsiServes' /\ SsiWork' /\ SsiType'
  BY <1>1, SsiUntouched DEF msgVars
<1>5. a = "nucleus" => current_process \in User
  BY <1>2 DEF Base, CpuWorks, TypeOK, User
<1> QED BY <1>1, <1>2, <1>3, <1>4, <1>5, EnterBase DEF GoodFrame

LEMMA SsiTerminatesBase ==
    ASSUME Base, SsiTerminates
    PROVE  Base'
<1> DEFINE S == ssi_pcb_real
           p == IF Asked.op = "BAD" \/ Asked.arg = NULL THEN Asker ELSE Asked.arg
<1>1. /\ Running(S) /\ ssi.pc = "dispatch" /\ Asked.op \in {"TERM", "BAD"}
      /\ Enter("ssi", p, <<>>) /\ SsiGoes("terminate", NULL)
      /\ UNCHANGED <<procVars, msgVars, ready_queue, current_process, reg_a1, ret,
                     listVars, busy, call>>
  BY DEF SsiTerminates, Serving, SsiAt
<1>2. /\ S \notin blocked /\ cpu = "run" /\ p # S
  BY <1>1, SsiRuns DEF SsiOp, User
<1>3. SsiServes' /\ SsiWork' /\ SsiType'
  <2>1. "terminate" \in SsiPc /\ "terminate" \notin Creating
    BY DEF SsiPc, Creating
  <2> QED BY <1>1, <1>2, <2>1, SsiGoesOn DEF msgVars
<1>4. "ssi" \in Actor /\ <<>> \in Seq(Pcb) /\ S \notin ToSet(<<>>)
  BY NoQueue DEF Actor
<1>5. ssi'.pc = "terminate"
  BY <1>1 DEF SsiGoes
<1> HIDE DEF p
<1> QED BY <1>1, <1>2, <1>3, <1>4, <1>5, EnterBase

LEMMA TrapsBase ==
    ASSUME Base, NEW p \in Pcb, Traps(p)
    PROVE  Base'
<1>1. /\ cpu = "run" /\ current_process = p /\ p \in User /\ p # ssi_pcb_real
      /\ Enter("nucleus", p, <<>>)
      /\ UNCHANGED <<procVars, msgVars, ready_queue, current_process, reg_a1, ret,
                     listVars, busy, ssi, call>>
  BY DEF Traps, Client, Running, User
<1>2. SsiServes' /\ SsiWork' /\ SsiType'
  BY <1>1, SsiUntouched DEF msgVars
<1>3. "nucleus" \in Actor /\ <<>> \in Seq(Pcb) /\ ssi_pcb_real \notin ToSet(<<>>)
  BY NoQueue DEF Actor
<1> QED BY <1>1, <1>2, <1>3, EnterBase

LEMMA TermFreesBase ==
    ASSUME Base, NEW a \in Actor, TermFrees(a)
    PROVE  Base'
<1> DEFINE S == ssi_pcb_real
           v == Victim(a)
<1>1. /\ TermAt(a, "children") /\ "children" \in FramePc \ {"idle"} /\ S \in Pcb
      /\ pcbFree' = <<v>> \o pcbFree
      /\ blocked' = blocked \ {v}
      /\ call' = [call EXCEPT ![v] = NoCall]
      /\ frame' = [frame EXCEPT ![a] = Resume(Tail(frame[a].stack))]
      /\ UNCHANGED <<p_parent, process_count, keepMsg, do_io, softblock_count,
                     cpuVars, reg_a1, ret, listVars, busy, ssi>>
  BY Names DEF TermFrees, FramePc
<1>2. /\ v \in User /\ v \in Pcb /\ v # S
      /\ Tail(frame[a].stack) \in Seq(Pcb)
      /\ ToSet(Tail(frame[a].stack)) \subseteq ToSet(frame[a].stack)
      /\ GoodFrame(frame[a])
      /\ a = "ssi" => ssi.pc = "terminate"
      /\ a = "nucleus" => cpu = "kernel"
  BY <1>1, TermActs DEF User
<1>3. FrameType' /\ Frames'
  <2>1. GoodFrame(Resume(Tail(frame[a].stack)))
    BY <1>2, GoodResume DEF GoodFrame
  <2> QED BY <1>1, <1>2, <2>1, FramesKept DEF cpuVars
<1>4. /\ pcbFree' \in Seq(Pcb) /\ ToSet(pcbFree') = {v} \cup ToSet(pcbFree)
  BY <1>1, <1>2, Push DEF Base, TypeOK
<1>5. SsiServes' /\ SsiWork' /\ SsiType'
  BY <1>1, <1>2, SsiUntouched DEF keepMsg
<1>6. CpuWorks' /\ SsiPlaced'
  BY <1>1, <1>2, <1>4 DEF Base, CpuWorks, SsiPlaced, cpuVars, Live, Ready
<1>7. TypeOK'
  BY <1>1, <1>4 DEF Base, TypeOK, keepMsg, cpuVars
<1>8. ServiceTypes' /\ SsiApart'
  BY <1>1, <1>2 DEF Base, ServiceTypes, SsiApart, Children, listVars
<1> QED BY <1>3, <1>5, <1>6, <1>7, <1>8 DEF Base

LEMMA TrapEndsBase ==
    ASSUME Base, TrapEnds
    PROVE  Base'
<1> DEFINE S == ssi_pcb_real
<1>1. /\ UNCHANGED <<procVars, msgVars, reg_a1, ret, listVars, busy, ssi, frame, call>>
      /\ frame["nucleus"] = NoFrame /\ cpu = "kernel"
      /\ Scheduler(NULL, ready_queue) /\ ready_queue \in Seq(Pcb) /\ NULL \notin Pcb /\ S \in Pcb
  BY Names DEF TrapEnds, Base, TypeOK
<1>2. /\ ready_queue' \in Seq(Pcb) /\ current_process' \in Pcb \cup {NULL}
      /\ cpu' \in {"run", "wait", "halt", "panic"}
      /\ cpu' = "run" <=> current_process' # NULL
  BY <1>1, SchedulerTypes
<1>3. SsiServes' /\ SsiWork' /\ SsiType'
  BY <1>1, SsiUntouched DEF msgVars
<1>4. SsiPlaced'
  <2>1. /\ AtMostOne(ready_queue, {S})
        /\ S \in ToSet(ready_queue) => S \notin blocked' /\ NULL # S
        /\ S \in blocked' => NULL # S
        /\ S \in ToSet(ready_queue) \cup blocked' \cup {NULL}
    BY <1>1 DEF Base, SsiPlaced, CpuWorks, msgVars, Ready
  <2> QED BY <1>1, <2>1, ScheduledPlacesSsi
<1>5. TypeOK' /\ CpuWorks'
  BY <1>1, <1>2 DEF Base, TypeOK, CpuWorks, procVars, msgVars, Live
<1>6. ServiceTypes' /\ FrameType' /\ SsiApart' /\ Frames'
  BY <1>1 DEF Base, ServiceTypes, FrameType, SsiApart, Frames, listVars, procVars, Children
<1> QED BY <1>3, <1>4, <1>5, <1>6 DEF Base
-----------------------------------------------------------------------------
LEMMA StutterBase ==
    ASSUME Base, UNCHANGED vars
    PROVE  Base'
<1> USE DEF vars, ipcVars, procVars, msgVars, cpuVars, listVars
<1>1. SsiServes' /\ SsiWork' /\ SsiType'
  BY SsiUntouched
<1>2. TypeOK' /\ CpuWorks' /\ SsiPlaced'
  BY DEF Base, TypeOK, CpuWorks, SsiPlaced, Live, Ready
<1>3. ServiceTypes' /\ FrameType' /\ SsiApart' /\ Frames'
  BY DEF Base, ServiceTypes, FrameType, SsiApart, Frames, Children
<1> QED BY <1>1, <1>2, <1>3 DEF Base

LEMMA NextBase ==
    ASSUME Base, [Next]_vars
    PROVE  Base'
<1>1. CASE SsiReceives
  BY <1>1, SsiReceivesBase
<1>2. CASE Create
  <2>1. CASE CreateAllocates
    BY <2>1, CreateAllocatesBase
  <2>2. CASE CreateInsertsChild \/ CreateInsertsReady
    BY <2>2, CreateLinksBase
  <2>3. CASE CreateReadsCount \/ CreateWritesCount
    BY <2>3, CreateCountsBase
  <2>4. CASE CreateReplies
    BY <2>4, RepliesBase
  <2> QED BY <1>2, <2>1, <2>2, <2>3, <2>4 DEF Create
<1>3. CASE SsiTerminates
  BY <1>3, SsiTerminatesBase
<1>4. ASSUME NEW a \in Actor, Terminate(a)  PROVE Base'
  <2>1. CASE TermOutReady(a)
    BY <2>1, TermOutReadyBase
  <2>2. CASE TermNextChild(a)
    BY <2>2, TermNextChildBase
  <2>3. CASE TermFrees(a)
    BY <2>3, TermFreesBase
  <2>4. CASE \/ TermOutChild(a) \/ TermOutIO(a) \/ TermReadsCount(a) \/ TermWritesCount(a)
             \/ TermReadsSoftblock(a) \/ TermWritesSoftblock(a)
    BY <2>4, TermListsBase
  <2> QED BY <1>4, <2>1, <2>2, <2>3, <2>4 DEF Terminate
<1>5. CASE TermReplies \/ DoIoReplies \/ ClockReplies \/ GetTimeReplies
  BY <1>5, RepliesBase
<1>6. CASE DoIoQueues \/ DoIoCommands \/ DoIoAnswers \/ WaitForClock \/ ClockAnswers
  BY <1>6, QueuesBase
<1>7. ASSUME NEW p \in Pcb, ClientStep(p)  PROVE Base'
  <2>1. ASSUME NEW req \in [op : Services \cap SsiOp, arg : Address \cup Device], Requests(p, req)
        PROVE  Base'
    BY <2>1, RequestsBase
  <2>2. CASE Awaits(p) \/ Receives(p)
    BY <2>2, ReceivingBase
  <2>3. CASE Traps(p)
    BY <2>3, TrapsBase
  <2>4. ASSUME NEW to, Sends(p, to)  PROVE Base'
    BY <2>4, SendsBase
  <2> QED BY <1>7, <2>1, <2>2, <2>3, <2>4 DEF ClientStep
<1>8. CASE TrapEnds
  BY <1>8, TrapEndsBase
<1>9. ASSUME NEW d \in Device, DeviceInterrupt(d)  PROVE Base'
  <2>1. [op |-> "IODONE", arg |-> d] \in Event
    BY DEF Event
  <2>2. busy' \subseteq Device
    BY <1>9 DEF DeviceInterrupt, Base, ServiceTypes
  <2> QED BY <1>9, <2>1, <2>2, InterruptsBase DEF DeviceInterrupt
<1>10. CASE ClockInterrupt
  <2>1. [op |-> "TICK", arg |-> 0] \in Event
    BY DEF Event
  <2>2. busy' \subseteq Device
    BY <1>10 DEF ClockInterrupt, Base, ServiceTypes
  <2> QED BY <1>10, <2>1, <2>2, InterruptsBase DEF ClockInterrupt
<1>11. CASE SliceEnds
  BY <1>11, SliceEndsBase
<1>12. CASE Halted \/ UNCHANGED vars
  <2>1. UNCHANGED vars
    BY <1>12 DEF Halted, Stopped, vars
  <2> QED BY <2>1, StutterBase
<1> QED BY <1>1, <1>2, <1>3, <1>4, <1>5, <1>6, <1>7, <1>8, <1>9, <1>10, <1>11, <1>12
        DEF Next, SsiStep, Actor

(* Base holds in every state, whatever programs do and whatever is         *)
(* dropped when the message pool is exhausted.                             *)
THEOREM BaseInvariance == Spec => []Base
<1>1. Init => Base
  BY InitBase
<1>2. Base /\ [Next]_vars => Base'
  BY NextBase
<1> QED BY <1>1, <1>2, PTL DEF Spec

(* Type correctness: every link is a PCB's, every counter fits its type,   *)
(* every request and answer is one the code knows.                         *)
THEOREM NucleusTypeInvariance == Spec => []NucleusTypeOK
<1>1. Base => NucleusTypeOK
  BY DEF Base, NucleusTypeOK, ServiceTypes, SsiType, SsiPc, FrameType, FramePc
<1> QED BY <1>1, BaseInvariance, PTL
-----------------------------------------------------------------------------
(* Every PCB is linked into at most one list, and every process that is    *)
(* neither under construction nor dying is in one of three places.         *)
Places ==
    /\ Once(ready_queue) /\ Once(pcbFree)
    /\ current_process \notin Ready \cup blocked
    /\ blocked \cap Ready = {}
    /\ Ready \cup blocked \cup UnderConstruction \subseteq Live
    /\ cpu = "run" => current_process \in Live
    /\ UnderConstruction \cap (Ready \cup blocked \cup {current_process}) = {}
    /\ Live \ (UnderConstruction \cup Dying) \subseteq Ready \cup blocked \cup {current_process}

Stack(a) == ToSet(frame[a].stack)

(* A process that terminate_process has taken out of the ready queue does  *)
(* not run any more.                                                       *)
Unready ==
    /\ \A x \in Stack("ssi") :
          x \in Ready \/ (cpu = "run" /\ x = current_process) =>
              x = Victim("ssi") /\ frame["ssi"].pc \in {"outChild", "outReady"}
    /\ Stack("nucleus") \cap Ready = {}
    /\ cpu = "kernel" => current_process \in Stack("nucleus") \/ current_process \notin Live

(* Children and parents.                                                   *)
Family ==
    /\ \A x \in Pcb : Once(p_child[x])
    /\ \A x \in Pcb : \A q \in Children(x) : x \in Live /\ q \in Live /\ p_parent[q] = x
    /\ \A q \in Live \ (UnderConstruction \cup Dying) :
          p_parent[q] # NULL => q \in Children(p_parent[q])
    /\ ssi.pc = "insertChild" => p_parent[ssi.p] = NULL
    /\ ssi.pc = "insertReady" => p_parent[ssi.p] = Asker /\ ssi.p \in Children(Asker)
    /\ \A q \in UnderConstruction : p_child[q] = <<>>

(* What a blocked process waits for, and who makes calls.                  *)
WaitsFor(p) ==
    /\ p \in blocked /\ p # ssi_pcb_real =>
          \/ call[p] = Receiving /\ reg_a1[p] = ANYMESSAGE
          \/ call[p].op \in SsiOp /\ reg_a1[p] = SSI_FAKE_ADDR
    /\ call[p] = Receiving => p \in blocked
    /\ call[p] # NoCall => p \in Live \ UnderConstruction

Waiting == \A p \in Pcb : WaitsFor(p)

(* The stages of a request.                                                *)
Stage == {"inbox", "served", "device", "clock", "answer", "answered"}
From(p) == {m \in Message : m.sender = p}
Requested(p) == Among(msg_inbox[ssi_pcb_real], From(p))
Replied(p) == Among(msg_inbox[p], From(SSI_FAKE_ADDR))

At(s, p) ==
    \/ s = "inbox" /\ Requested(p) # {}
    \/ s = "served" /\ BeingServed(p)
    \/ s = "device" /\ \E d \in Device : p \in ToSet(pcb_blocked_on_device[d])
    \/ s = "clock" /\ p \in ToSet(pcb_blocked_on_clock)
    \/ s = "answer" /\ BeingAnswered(p)
    \/ s = "answered" /\ Replied(p) # {}

(* A process is at one stage, and there for what it has asked.             *)
StagedAt(s, p) ==
    /\ s = "inbox" => \A m \in Requested(p) : p \in Live /\ call[p] = m.payload
    /\ s = "served" => \/ p \in Live /\ call[p] = Asked
                       \/ p \notin Live /\ ssi.pc = "terminate"
    /\ s = "device" => \A d \in Device : p \in ToSet(pcb_blocked_on_device[d]) =>
                           p \in Live /\ call[p] = [op |-> "DOIO", arg |-> d]
    /\ s = "clock" => p \in Live /\ call[p].op = "CLOCKWAIT"
    /\ s = "answer" => /\ p \in Live
                       /\ ssi.pc = "answer" => call[p] = [op |-> "DOIO", arg |-> Asked.arg]
                       /\ ssi.pc = "tick" => call[p].op = "CLOCKWAIT"
    /\ s = "answered" => \A m \in Replied(p) :
                             /\ p \in Live /\ call[p].op \in SsiOp
                             /\ m.payload.op = Answer[call[p].op]
                             /\ m.payload.op = "IOSTATUS" => m.payload.arg = call[p].arg

OneStage(p) ==
    /\ \A s, t \in Stage : At(s, p) /\ At(t, p) => s = t
    /\ AtMostOne(msg_inbox[ssi_pcb_real], From(p))
    /\ AtMostOne(msg_inbox[p], From(SSI_FAKE_ADDR))
    /\ \A s \in Stage : At(s, p) => StagedAt(s, p)

Trapped(p) == cpu = "kernel" /\ current_process = p

Staged ==
    /\ \A p \in User : OneStage(p)
    /\ \A d \in Device : Once(pcb_blocked_on_device[d])
    /\ Once(pcb_blocked_on_clock)
    /\ \A p \in User : Trapped(p) => call[p] = NoCall /\ \A s \in Stage : ~At(s, p)

(* Whom the requests of p, and the loops that carry them out, terminate.   *)
Pending(p) == At("inbox", p) \/ (BeingServed(p) /\ ssi.pc = "dispatch")
CallRoots(p) ==
    IF ~Pending(p) THEN {}
    ELSE IF Ending(p) THEN {p}
    ELSE IF call[p].op = "TERM" THEN {call[p].arg} \cap Pcb ELSE {}
SsiRoots(p) == IF ssi.pc = "terminate" /\ Asker = p THEN Stack("ssi") ELSE {}
NucleusRoots(p) == IF Trapped(p) THEN Stack("nucleus") ELSE {}
Roots(p) == CallRoots(p) \cup SsiRoots(p) \cup NucleusRoots(p)

(* terminate_process is never called for a process it is at work on, and   *)
(* has unlinked it from its parent and from the device queues before it    *)
(* goes on with the children.                                              *)
Listed(x) == \E y \in Pcb : x \in Children(y)
Stacks ==
    /\ \A a \in Actor : Once(frame[a].stack)
    /\ \A a \in Actor : \A x \in Stack(a) :
          Listed(x) => x = Victim(a) /\ frame[a].pc = "outChild"
    /\ \A a \in Actor : \A x \in Stack(a) :
          At("device", x) => x = Victim(a) /\ frame[a].pc \in {"outChild", "outReady", "outIO"}
    /\ \A p \in User : \A r \in CallRoots(p) : (r = p /\ Ending(p)) \/ r \in Children(p)
    /\ frame["ssi"].pc = "outChild" /\ Listed(Victim("ssi")) =>
          \/ Victim("ssi") = Asker /\ Ending(Asker)
          \/ p_parent[Victim("ssi")] \in ToSet(Tail(frame["ssi"].stack))
          \/ p_parent[Victim("ssi")] = Asker /\ call[Asker].op = "TERM"

(* R and what hangs from it.                                               *)
Closed(T) == \A y \in T : Children(y) \subseteq T

(* doom[x] = p: a request or a trap of p terminates x.  It is the roots    *)
(* and all their progeny; and they do nothing until then.                  *)
AtPeace(x) == x \in blocked /\ call[x] = Receiving
Meek(x, p) ==
    \/ AtPeace(x)
    \/ x = p /\ (Ending(x) \/ Trapped(x))
    \/ Trapped(p) /\ x \in blocked /\ \A s \in Stage : At(s, x) => s = "device"
Doomed(doom) ==
    /\ \A p \in User : \A x \in Roots(p) : x \in Pcb /\ doom[x] = p
    /\ \A x \in Pcb : \A y \in Children(x) : doom[x] # NULL => doom[y] = doom[x]
    /\ \A x \in Pcb : doom[x] # NULL =>
          /\ doom[x] \in User /\ x \in Live /\ x # ssi_pcb_real
          /\ \A T \in SUBSET Pcb : Roots(doom[x]) \subseteq T /\ Closed(T) => x \in T
          /\ Meek(x, doom[x])

Orderly ==
    /\ Base /\ Places /\ Unready /\ Family /\ Waiting /\ Staged /\ Stacks
    /\ \E doom \in [Pcb -> Pcb \cup {NULL}] : Doomed(doom)
-----------------------------------------------------------------------------
(* Lemmas about states.                                                    *)

(* scheduler(), for all processes.                                         *)
LEMMA ScheduledPlaces ==
    ASSUME NEW cur \in Pcb \cup {NULL}, NEW ready \in Seq(Pcb), Scheduler(cur, ready),
           Once(ready), cur \notin ToSet(ready)
    PROVE  /\ Once(ready_queue') /\ current_process' \notin Ready'
           /\ \A x \in Pcb : x \in Ready' \/ x = current_process'
                                <=> x \in ToSet(ready) \/ x = cur
<1>1. ready_queue' \in Seq(Pcb) /\ Ready' = ToSet(ready_queue') /\ NULL \notin Pcb
  BY SchedulerTypes, Names DEF Ready
<1>2. ASSUME NEW x \in Pcb
      PROVE  /\ AtMostOne(ready_queue', {x})
             /\ x \in ToSet(ready_queue') => x # current_process'
             /\ x \in ToSet(ready_queue') \/ x = current_process'
                   <=> x \in ToSet(ready) \/ x = cur
  BY AtMostOneOnce, SchedulerKeeps
<1>3. \A i \in DOMAIN ready_queue' : ready_queue'[i] \in Pcb
  BY <1>1, LenProperties, ElementOfSeq
<1>4. Once(ready_queue')
  BY <1>2, <1>3 DEF Once, AtMostOne
<1>5. Ready' \subseteq Pcb
  BY <1>1, <1>3 DEF ToSet
<1>6. current_process' \notin Ready'
  BY <1>1, <1>2, <1>5
<1>7. \A x \in Pcb : x \in Ready' \/ x = current_process' <=> x \in ToSet(ready) \/ x = cur
  BY <1>1, <1>2
<1> QED BY <1>4, <1>6, <1>7

(* A request is under way only for a process that waits for its answer, or *)
(* it is being carried out and has terminated its sender.                  *)
LEMMA StageFacts ==
    ASSUME Base, Staged, NEW p \in User, NEW s \in Stage, At(s, p)
    PROVE  \/ p \in Live /\ call[p].op \in SsiOp
           \/ s = "served" /\ p \notin Live /\ ssi.pc = "terminate"
<1> DEFINE S == ssi_pcb_real
<1>0. p \in Pcb /\ StagedAt(s, p) /\ "DOIO" \in SsiOp /\ "CLOCKWAIT" \in SsiOp
  BY DEF Staged, OneStage, User, SsiOp
<1>1. CASE s = "inbox"
  <2>1. PICK m \in Requested(p) : m.sender = p /\ call[p] = m.payload /\ p \in Live
    BY <1>0, <1>1 DEF At, StagedAt, Requested, Among, From
  <2>2. m \in SsiMessage
    BY <2>1 DEF Base, SsiServes, Requested, Among, ToSet
  <2> QED BY <2>1, <2>2, SsiMessages
<1>2. CASE s = "served"
  <2>1. BeingServed(p) /\ Asker = p /\ ssi.pc # "receive"
    BY <1>2 DEF At, BeingServed
  <2>2. received[S] \in SsiMessage
    <3>1. S \notin blocked
      BY <2>1, Names DEF Base, SsiServes, Asker, NoMessage, User
    <3> QED BY <2>1, <3>1 DEF Base, SsiServes
  <2>3. Asked.op \in SsiOp
    BY <2>1, <2>2, SsiMessages DEF Asked, Asker
  <2>4. (p \in Live /\ call[p] = Asked) \/ (p \notin Live /\ ssi.pc = "terminate")
    BY <1>0, <1>2 DEF StagedAt
  <2> QED BY <1>2, <2>3, <2>4
<1>3. CASE s = "device"
  <2>1. PICK d \in Device : p \in ToSet(pcb_blocked_on_device[d])
    BY <1>3 DEF At
  <2>2. p \in Live /\ call[p] = [op |-> "DOIO", arg |-> d]
    BY <1>0, <1>3, <2>1 DEF StagedAt
  <2> QED BY <1>0, <2>2
<1>4. CASE s = "clock"
  BY <1>0, <1>4 DEF At, StagedAt
<1>5. CASE s = "answer"
  BY <1>0, <1>5 DEF At, StagedAt, BeingAnswered
<1>6. CASE s = "answered"
  <2>1. PICK m \in Replied(p) : TRUE
    BY <1>6 DEF At
  <2> QED BY <1>0, <1>6, <2>1 DEF StagedAt
<1> QED BY <1>1, <1>2, <1>3, <1>4, <1>5, <1>6 DEF Stage

LEMMA NoStage ==
    ASSUME Base, Staged, NEW p \in User, p \in Live, call[p].op \notin SsiOp
    PROVE  \A s \in Stage : ~At(s, p)
BY StageFacts

(* The SSI serves a process that waits for it, until it has terminated it. *)
LEMMA ServedCalls ==
    ASSUME Base, Staged, NEW p \in User, BeingServed(p)
    PROVE  /\ Asked.op \in SsiOp
           /\ p \in Live => call[p] = Asked
           /\ p \notin Live => ssi.pc = "terminate"
<1>1. At("served", p) /\ "served" \in Stage
  BY DEF At, Stage
<1>2. StagedAt("served", p)
  BY <1>1 DEF Staged, OneStage
<1>3. received[ssi_pcb_real] \in SsiMessage /\ Asker = p
  <2>1. Asker = p /\ ssi.pc # "receive"
    BY DEF BeingServed
  <2>2. ssi_pcb_real \notin blocked
    BY <2>1, Names DEF Base, SsiServes, Asker, NoMessage, User
  <2> QED BY <2>1, <2>2 DEF Base, SsiServes
<1>4. Asked.op \in SsiOp
  BY <1>3, SsiMessages DEF Asked, Asker
<1> QED BY <1>2, <1>4 DEF StagedAt

LEMMA CallOps ==
    /\ NoCall.op = "none" /\ Receiving.op = "RECV"
    /\ "none" \notin SsiOp /\ "RECV" \notin SsiOp
    /\ \A p : Ending(p) => call[p].op \in SsiOp
    /\ NoCall # Receiving
BY DEF NoCall, Receiving, SsiOp, Ending
-----------------------------------------------------------------------------
(* Families.                                                               *)
LEMMA ChildrenArePcbs ==
    ASSUME Base, NEW x \in Pcb
    PROVE  Children(x) \subseteq Pcb
<1>1. p_child[x] \in Seq(Pcb)
  BY DEF Base, ServiceTypes
<1> QED BY <1>1, LenProperties, ElementOfSeq DEF Children, ToSet

LEMMA ProgenyCloses ==
    ASSUME NEW p \in Pcb, \A x \in Pcb : Children(x) \subseteq Pcb
    PROVE  /\ Progeny(p) \subseteq Pcb
           /\ \A r \in Progeny(p) \cup {p} : Children(r) \subseteq Progeny(p)
           /\ \A T \in SUBSET Pcb : (\A r \in T \cup {p} : Children(r) \subseteq T)
                 => Progeny(p) \subseteq T
BY DEF Progeny

(* Whoever descends from p is a child of p or descends from one.           *)
LEMMA ProgenySplits ==
    ASSUME NEW p \in Pcb, \A x \in Pcb : Children(x) \subseteq Pcb
    PROVE  \A x \in Progeny(p) : \E q \in Children(p) : x \in {q} \cup Progeny(q)
<1> DEFINE T == {x \in Pcb : \E q \in Children(p) : x \in {q} \cup Progeny(q)}
<1>1. ASSUME NEW r \in T \cup {p}, NEW z \in Children(r)  PROVE z \in T
  <2>1. r \in Pcb /\ z \in Pcb
    BY <1>1
  <2>2. CASE r = p
    BY <1>1, <2>1, <2>2
  <2>3. CASE r \in T
    <3>1. PICK q \in Children(p) : r \in {q} \cup Progeny(q)
      BY <2>3
    <3>2. z \in Progeny(q)
      BY <1>1, <3>1, ProgenyCloses
    <3> QED BY <2>1, <3>1, <3>2
  <2> QED BY <1>1, <2>2, <2>3
<1>2. T \in SUBSET Pcb
  OBVIOUS
<1> HIDE DEF T
<1>3. Progeny(p) \subseteq T
  BY <1>1, <1>2, ProgenyCloses
<1> QED BY <1>3 DEF T
-----------------------------------------------------------------------------
(* Who is doomed.                                                          *)

(* Somebody dooms whom he asks to terminate, is terminating, or what hangs *)
(* from one he dooms.                                                      *)
LEMMA DoomComesFrom ==
    ASSUME NEW doom, Doomed(doom), NEW x \in Pcb, doom[x] # NULL, x \notin Roots(doom[x]),
           \A y \in Pcb : Children(y) \subseteq Pcb
    PROVE  \E y \in Pcb : x \in Children(y) /\ doom[y] = doom[x]
<1> DEFINE T == {y \in Pcb : doom[y] = doom[x] /\ y # x}
<1>1. SUFFICES ASSUME \A y \in Pcb : x \in Children(y) => doom[y] # doom[x]
               PROVE  FALSE
  OBVIOUS
<1>2. Closed(T)
  <2>1. ASSUME NEW y \in T, NEW z \in Children(y)  PROVE z \in T
    <3>1. y \in Pcb /\ z \in Pcb /\ doom[y] = doom[x]
      BY <2>1
    <3>2. doom[z] = doom[y]
      BY <2>1, <3>1 DEF Doomed
    <3> QED BY <1>1, <2>1, <3>1, <3>2
  <2> QED BY <2>1 DEF Closed
<1>3. Roots(doom[x]) \subseteq T
  BY DEF Doomed
<1>4. T \in SUBSET Pcb
  OBVIOUS
<1> HIDE DEF T
<1>5. x \in T
  BY <1>2, <1>3, <1>4 DEF Doomed
<1> QED BY <1>5 DEF T

LEMMA NoRootsNoDoom ==
    ASSUME NEW doom, Doomed(doom), NEW p, Roots(p) = {}
    PROVE  \A x \in Pcb : p # NULL => doom[x] # p
<1>1. Closed({}) /\ {} \in SUBSET Pcb
  BY DEF Closed
<1> QED BY <1>1 DEF Doomed

(* No child of a free process is doomed that does not end by itself.       *)
LEMMA FreeChild ==
    ASSUME Base, Family, Stacks, NEW doom, Doomed(doom), cpu # "kernel",
           NEW y \in Pcb, doom[y] = NULL, call[y].op # "TERM",
           NEW z \in Children(y), ~Ending(z)
    PROVE  doom[z] = NULL
<1>1. SUFFICES ASSUME doom[z] # NULL PROVE FALSE
  OBVIOUS
<1>2. PICK r : r = doom[z]
  OBVIOUS
<1>3. /\ z \in Pcb /\ \A x \in Pcb : Children(x) \subseteq Pcb
      /\ r \in User /\ r \in Pcb /\ p_parent[z] = y
  BY <1>1, <1>2, ChildrenArePcbs DEF Doomed, Family, User
<1>4. z \in Roots(r)
  <2>1. SUFFICES ASSUME z \notin Roots(doom[z]) PROVE FALSE
    BY <1>2
  <2>2. PICK x \in Pcb : z \in Children(x) /\ doom[x] = doom[z]
    BY <1>1, <1>3, <2>1, DoomComesFrom
  <2>3. x = y
    BY <1>3, <2>2 DEF Family
  <2> QED BY <1>1, <2>2, <2>3
<1>5. ASSUME z \in CallRoots(r)  PROVE FALSE
  <2>1. z \in Children(r)
    BY <1>3, <1>5 DEF Stacks
  <2>2. r = y
    BY <1>3, <2>1 DEF Family
  <2>3. CASE Ending(r)
    <3>1. z = r
      BY <1>5, <2>3 DEF CallRoots
    <3> QED BY <2>3, <3>1
  <2>4. CASE ~Ending(r)
    <3>1. call[r].op = "TERM"
      BY <1>5, <2>4 DEF CallRoots
    <3> QED BY <2>2, <3>1
  <2> QED BY <2>3, <2>4
<1>6. ASSUME z \in SsiRoots(r)  PROVE FALSE
  <2>1. ssi.pc = "terminate" /\ Asker = r /\ z \in Stack("ssi")
    BY <1>6 DEF SsiRoots
  <2>2. Listed(z)
    BY DEF Listed
  <2>3. z = Victim("ssi") /\ frame["ssi"].pc = "outChild"
    BY <2>1, <2>2 DEF Stacks, Actor
  <2>4. \/ z = Asker /\ Ending(Asker)
        \/ y \in ToSet(Tail(frame["ssi"].stack))
        \/ y = Asker /\ call[Asker].op = "TERM"
    BY <1>3, <2>2, <2>3 DEF Stacks
  <2>5. y \in ToSet(Tail(frame["ssi"].stack)) => y \in Stack("ssi")
    <3>1. frame["ssi"].stack \in Seq(Pcb) /\ frame["ssi"].stack # <<>>
      BY <2>3 DEF Base, FrameType, Frames, Actor, NoFrame
    <3>2. PICK q : q = frame["ssi"].stack
      OBVIOUS
    <3>3. /\ DOMAIN q = 1..Len(q) /\ Len(q) \in Nat /\ DOMAIN Tail(q) = 1..(Len(q) - 1)
          /\ \A j \in DOMAIN Tail(q) : Tail(q)[j] = q[j + 1]
      BY <3>1, <3>2, TailElements
    <3>4. \A j \in DOMAIN Tail(q) : j + 1 \in DOMAIN q
      BY <3>3
    <3>5. ToSet(Tail(q)) \subseteq ToSet(q)
      BY <3>3, <3>4 DEF ToSet
    <3> QED BY <3>2, <3>5 DEF Stack
  <2>6. y \in Stack("ssi") => doom[y] = r
    BY <1>3, <2>1 DEF Doomed, Roots, SsiRoots
  <2> QED BY <1>1, <1>2, <2>4, <2>5, <2>6
<1>7. z \notin NucleusRoots(r)
  BY DEF NucleusRoots, Trapped
<1> QED BY <1>4, <1>5, <1>6, <1>7 DEF Roots

(* Nor any of its progeny.                                                 *)
LEMMA FreeProgeny ==
    ASSUME Base, Family, Stacks, NEW doom, Doomed(doom), cpu # "kernel",
           NEW y \in Pcb, doom[y] = NULL, call[y].op # "TERM",
           \A x \in Progeny(y) : call[x].op # "TERM" /\ ~Ending(x)
    PROVE  \A x \in Progeny(y) : doom[x] = NULL
<1> DEFINE T == {x \in Progeny(y) : doom[x] = NULL}
<1>1. \A x \in Pcb : Children(x) \subseteq Pcb
  BY ChildrenArePcbs
<1>2. /\ Progeny(y) \subseteq Pcb
      /\ \A r \in Progeny(y) \cup {y} : Children(r) \subseteq Progeny(y)
  BY <1>1, ProgenyCloses
<1>3. ASSUME NEW r \in T \cup {y}, NEW z \in Children(r)  PROVE z \in T
  <2>1. r \in Pcb /\ doom[r] = NULL /\ call[r].op # "TERM" /\ z \in Progeny(y)
    BY <1>2, <1>3
  <2>2. ~Ending(z)
    BY <2>1
  <2>3. doom[z] = NULL
    BY <1>3, <2>1, <2>2, FreeChild
  <2> QED BY <2>1, <2>3
<1>4. T \in SUBSET Pcb
  BY <1>2
<1> HIDE DEF T
<1>5. Progeny(y) \subseteq T
  BY <1>1, <1>3, <1>4, ProgenyCloses
<1> QED BY <1>5 DEF T

(* The SSI terminates processes for one that asked it to.                  *)
LEMMA SsiAtWork ==
    ASSUME Base, Stack("ssi") # {}
    PROVE  ssi.pc = "terminate" /\ Asker \in User /\ Asked.op \in {"TERM", "BAD"} /\ BeingServed(Asker)
<1>1. ssi.pc = "terminate"
  BY NoQueue DEF Base, Frames, Stack, NoFrame
<1>2. Asked.op \in {"TERM", "BAD"} /\ ssi_pcb_real \notin blocked
  BY <1>1 DEF Base, SsiWork, SsiServes
<1>3. received[ssi_pcb_real] \in SsiMessage
  BY <1>1, <1>2 DEF Base, SsiServes
<1> QED BY <1>1, <1>2, <1>3, SsiMessages DEF Asked, Asker, SsiOp, BeingServed

(* A program at work, and the parent and children it may send to, are free.*)
LEMMA FreeClient ==
    ASSUME Base, Places, NEW doom, Doomed(doom), NEW p \in User, cpu = "run",
           current_process = p, call[p] = NoCall
    PROVE  doom[p] = NULL
<1>1. p \notin blocked /\ p \in Pcb
  BY DEF Places, User
<1>2. ~Ending(p)
  BY CallOps
<1>3. \A q : ~Trapped(q)
  BY DEF Trapped
<1> QED BY <1>1, <1>2, <1>3 DEF Doomed, AtPeace, Meek

LEMMA FreeRelative ==
    ASSUME Base, Places, Family, Stacks, NEW doom, Doomed(doom), NEW p \in User, cpu = "run",
           current_process = p, call[p] = NoCall, NEW x \in Pcb, x \in Children(p) \cup {p_parent[p]},
           ~Ending(x)
    PROVE  doom[x] = NULL
<1>1. doom[p] = NULL /\ p \in Pcb /\ p \in Live
  BY FreeClient DEF User, Places
<1>2. CASE x \in Children(p)
  <2>1. call[p].op # "TERM" /\ cpu # "kernel"
    BY CallOps DEF SsiOp
  <2> QED BY <1>1, <1>2, <2>1, FreeChild
<1>3. CASE x = p_parent[p]
  <2>1. p \notin Dying
    <3>1. p \notin Stack("ssi")
      <4>1. SUFFICES ASSUME p \in Stack("ssi") PROVE FALSE
        OBVIOUS
      <4>2. ssi.pc = "terminate"
        BY <4>1, SsiAtWork
      <4>3. Asker \in User
        BY <4>1, SsiAtWork
      <4>4. p \in Roots(Asker)
        BY <4>1, <4>2 DEF Roots, SsiRoots
      <4>5. doom[p] = Asker
        BY <4>3, <4>4 DEF Doomed
      <4> QED BY <1>1, <4>3, <4>5, Names DEF User
    <3>2. Stack("nucleus") = {}
      BY NoQueue DEF Base, Frames, Stack, NoFrame
    <3> QED BY <3>1, <3>2 DEF Dying, Stack, Actor
  <2>2. p \notin UnderConstruction
    BY <1>1 DEF Places
  <2>3. p \in Children(x)
    BY <1>1, <1>3, <2>1, <2>2, Names DEF Family
  <2>4. doom[x] # NULL => doom[p] = doom[x]
    BY <2>3 DEF Doomed
  <2> QED BY <1>1, <2>4
<1> QED BY <1>2, <1>3
-----------------------------------------------------------------------------
(* Initially there are the SSI and test.                                   *)
LEMMA AtNone ==
    ASSUME NEW p, msg_inbox[ssi_pcb_real] = <<>>, msg_inbox[p] = <<>>, ~BeingServed(p),
           ~BeingAnswered(p), \A d \in Device : p \notin ToSet(pcb_blocked_on_device[d]),
           p \notin ToSet(pcb_blocked_on_clock)
    PROVE  \A s \in Stage : ~At(s, p)
<1>1. Requested(p) = {} /\ Replied(p) = {}
  BY NoQueue DEF Requested, Replied, Among
<1> QED BY <1>1 DEF At, Stage

LEMMA InitOrderly == Init => Orderly
<1> SUFFICES ASSUME Init PROVE Orderly
  OBVIOUS
<1> DEFINE S == ssi_pcb_real
<1>0. test_pcb \in Pcb /\ S \in Pcb /\ S # test_pcb /\ NULL \notin Pcb
  BY Names DEF User
<1>1. /\ pcbFree \in Seq(Pcb) /\ Once(pcbFree) /\ Live = {S, test_pcb}
  <2>1. pcbFree \in Seq(Pcb) /\ Once(pcbFree) /\ ToSet(pcbFree) = Pcb \ {S, test_pcb}
    BY InitFree
  <2> QED BY <1>0, <2>1 DEF Live
<1>2. Once(ready_queue) /\ Ready = {test_pcb}
  BY <1>0 DEF Init, Ready, ToSet, Once
<1>3. \A a \in Actor : Stack(a) = {} /\ frame[a].stack = <<>> /\ frame[a].pc = "idle"
  <2>1. \A a \in Actor : frame[a] = NoFrame
    BY DEF Init
  <2>2. ToSet(NoFrame.stack) = {} /\ NoFrame.stack = <<>> /\ NoFrame.pc = "idle"
    BY NoQueue DEF NoFrame
  <2> QED BY <2>1, <2>2 DEF Stack
<1>4. UnderConstruction = {} /\ Dying = {}
  BY <1>3 DEF Init, UnderConstruction, Dying, Stack
<1>5. Places
  BY <1>0, <1>1, <1>2, <1>4 DEF Init, Places
<1>6. "ssi" \in Actor /\ "nucleus" \in Actor
  BY DEF Actor
<1>7. Unready
  BY <1>3, <1>6 DEF Init, Unready
<1>8. \A x \in Pcb : p_child[x] = <<>> /\ Children(x) = {} /\ p_parent[x] = NULL
  BY NoQueue DEF Init, Children
<1>9. Family
  <2>1. ssi.pc = "receive"
    BY DEF Init
  <2>2. \A x \in Pcb : Once(p_child[x])
    BY <1>8, NoQueue
  <2> QED BY <1>4, <1>8, <2>1, <2>2, <1>1, <1>0 DEF Family
<1>10. Waiting
  BY CallOps DEF Init, Waiting, WaitsFor
<1>11. \A p \in Pcb : ~BeingServed(p) /\ ~BeingAnswered(p)
  BY DEF Init, BeingServed, BeingAnswered
<1>12. ASSUME NEW p \in Pcb  PROVE \A s \in Stage : ~At(s, p)
  BY <1>0, <1>11, AtNone, NoQueue DEF Init
<1>13. Staged
  <2>1. ASSUME NEW p \in User  PROVE OneStage(p)
    <3>1. msg_inbox[S] = <<>> /\ msg_inbox[p] = <<>> /\ p \in Pcb
      BY <1>0 DEF Init, User
    <3>2. \A M : AtMostOne(<<>>, M)
      BY NoQueue DEF AtMostOne
    <3> QED BY <1>12, <3>1, <3>2 DEF OneStage
  <2>2. \A p : ~Trapped(p)
    BY DEF Init, Trapped
  <2>3. Once(pcb_blocked_on_clock) /\ \A d \in Device : Once(pcb_blocked_on_device[d])
    BY NoQueue DEF Init
  <2> QED BY <2>1, <2>2, <2>3 DEF Staged
<1>14. \A p \in User : Roots(p) = {} /\ CallRoots(p) = {}
  <2>1. ASSUME NEW p \in User  PROVE Roots(p) = {} /\ CallRoots(p) = {}
    <3>1. ~Pending(p)
      BY <1>11, <1>12 DEF Pending, User, Stage
    <3> QED BY <3>1 DEF Roots, CallRoots, SsiRoots, NucleusRoots, Trapped, Init
  <2> QED BY <2>1
<1>15. Stacks
  <2>1. \A a \in Actor : Once(frame[a].stack)
    BY <1>3, NoQueue
  <2> QED BY <1>3, <1>6, <1>14, <2>1 DEF Stacks
<1>16. \E doom \in [Pcb -> Pcb \cup {NULL}] : Doomed(doom)
  <2>1. PICK doom : doom = [x \in Pcb |-> NULL]
    OBVIOUS
  <2>2. Doomed(doom) /\ doom \in [Pcb -> Pcb \cup {NULL}]
    BY <1>14, <2>1 DEF Doomed
  <2> QED BY <2>2
<1> QED BY <1>5, <1>7, <1>9, <1>10, <1>13, <1>15, <1>16, InitBase DEF Orderly
-----------------------------------------------------------------------------
(* Steps that leave families, frames and the free list alone, with no trap *)
(* being served.                                                           *)

(* Some processes are woken and the running one may block.                 *)
LEMMA CalmPlaces ==
    ASSUME Base, Base', Places, Unready, UNCHANGED <<pcbFree, frame>>,
           cpu # "kernel", cpu' # "kernel", UnderConstruction' = UnderConstruction,
           NEW W \in SUBSET blocked, W \cap Stack("ssi") = {},
           NEW B \in SUBSET Pcb, B \subseteq {current_process},
           blocked' = (blocked \ W) \cup B,
           Once(ready_queue'), current_process' \notin Ready',
           \A x \in Pcb : x \in Ready' \/ x = current_process'
                             <=> (x \in Ready \/ x = current_process \/ x \in W) /\ x \notin B
    PROVE  Places' /\ Unready'
<1>1. /\ NULL \notin Pcb /\ current_process \in Pcb \cup {NULL}
      /\ current_process' \in Pcb \cup {NULL}
      /\ blocked \subseteq Pcb /\ Ready \subseteq Pcb /\ Ready' \subseteq Pcb
  <2>1. ready_queue \in Seq(Pcb) /\ ready_queue' \in Seq(Pcb)
    BY DEF Base, TypeOK
  <2>2. Ready \subseteq Pcb /\ Ready' \subseteq Pcb
    BY <2>1, LenProperties, ElementOfSeq DEF Ready, ToSet
  <2> QED BY <2>2, Names DEF Base, TypeOK
<1>2. /\ Live' = Live /\ Dying' = Dying /\ \A a : Stack(a)' = Stack(a)
  BY DEF Live, Dying, Stack
<1>3. /\ cpu = "run" <=> current_process # NULL
      /\ cpu' = "run" <=> current_process' # NULL
  BY DEF Base, CpuWorks
<1>4. \A x \in Ready' \cup {current_process'} :
         x # NULL => x \notin B /\ (x \in Ready \/ x = current_process \/ x \in W)
  BY <1>1
<1>5. Ready' \cup {current_process'} \subseteq Live \cup {NULL}
  BY <1>3, <1>4 DEF Places
<1>6. B \subseteq Live
  BY <1>1, <1>3 DEF Places
<1>7. current_process' \notin Ready' \cup blocked' /\ blocked' \cap Ready' = {}
  BY <1>1, <1>4 DEF Places
<1>8. UnderConstruction \cap (Ready' \cup blocked' \cup {current_process'}) = {}
  <2>1. NULL \notin UnderConstruction
    BY <1>1 DEF Places, Live
  <2> QED BY <1>1, <1>4, <2>1 DEF Places
<1>9. Live \ (UnderConstruction \cup Dying) \subseteq Ready' \cup blocked' \cup {current_process'}
  BY <1>1 DEF Places, Live
<1>10. Places'
  BY <1>1, <1>2, <1>3, <1>5, <1>6, <1>7, <1>8, <1>9 DEF Places
<1>11. Stack("nucleus") = {}
  BY NoQueue DEF Base, Frames, NoFrame, Stack
<1>12. Unready'
  <2>1. frame' = frame /\ Victim("ssi")' = Victim("ssi")
    BY DEF Victim
  <2>2. Stack("ssi") \subseteq Pcb
    <3>1. frame["ssi"].stack \in Seq(Pcb)
      BY DEF Base, FrameType, Actor
    <3> QED BY <3>1, LenProperties, ElementOfSeq DEF Stack, ToSet
  <2>3. \A x \in Stack("ssi") :
           x \in Ready' \/ (cpu' = "run" /\ x = current_process') =>
              x \in Ready \/ (cpu = "run" /\ x = current_process)
    BY <1>1, <1>3, <1>4, <2>2
  <2> QED BY <1>2, <1>11, <2>1, <2>3 DEF Unready
<1> QED BY <1>10, <1>12

LEMMA CalmFamily ==
    ASSUME Family, UNCHANGED <<p_child, p_parent, pcbFree, frame>>,
           UnderConstruction' = UnderConstruction,
           ssi'.pc \in {"insertChild", "insertReady"} => ssi' = ssi /\ Asker' = Asker
    PROVE  Family'
<1>1. Live' = Live /\ Dying' = Dying /\ p_child' = p_child /\ p_parent' = p_parent
  BY DEF Live, Dying
<1>2. /\ ssi'.pc = "insertChild" => p_parent'[ssi'.p] = NULL
      /\ ssi'.pc = "insertReady" => p_parent'[ssi'.p] = Asker' /\ ssi'.p \in ToSet(p_child'[Asker'])
  <2>1. CASE ssi'.pc \in {"insertChild", "insertReady"}
    <3>1. ssi' = ssi /\ Asker' = Asker
      BY <2>1
    <3>2. /\ ssi.pc = "insertChild" => p_parent[ssi.p] = NULL
          /\ ssi.pc = "insertReady" => p_parent[ssi.p] = Asker /\ ssi.p \in ToSet(p_child[Asker])
      BY DEF Family, Children
    <3> QED BY <1>1, <3>1, <3>2
  <2>2. CASE ssi'.pc \notin {"insertChild", "insertReady"}
    BY <2>2
  <2> QED BY <2>1, <2>2
<1>3. /\ \A x \in Pcb : Once(p_child'[x])
      /\ \A q \in UnderConstruction' : p_child'[q] = <<>>
  BY <1>1 DEF Family
<1>4. \A x \in Pcb : \A q \in ToSet(p_child'[x]) : x \in Live' /\ q \in Live' /\ p_parent'[q] = x
  BY <1>1 DEF Family, Children
<1>5. \A q \in Live' \ (UnderConstruction' \cup Dying') :
         p_parent'[q] # NULL => q \in ToSet(p_child'[p_parent'[q]])
  <2>1. ASSUME NEW q \in Live \ (UnderConstruction \cup Dying), p_parent[q] # NULL
        PROVE  q \in ToSet(p_child[p_parent[q]])
    BY <2>1 DEF Family, Children
  <2> QED BY <1>1, <2>1
<1> QED BY <1>2, <1>3, <1>4, <1>5 DEF Family, Children

LEMMA WaitsOn ==
    ASSUME NEW p, WaitsFor(p), pcbFree' = pcbFree, UnderConstruction' = UnderConstruction,
           call'[p] = call[p], p \in blocked' <=> p \in blocked,
           p \in blocked => reg_a1'[p] = reg_a1[p]
    PROVE  WaitsFor(p)'
BY DEF WaitsFor, Live

(* A request stays where it is or leaves.                                  *)
LEMMA StageKept ==
    ASSUME NEW p \in User, OneStage(p), p \in Live' <=> p \in Live,
           Requested(p)' \subseteq Requested(p), AtMostOne(msg_inbox'[ssi_pcb_real], From(p)),
           Replied(p)' \subseteq Replied(p), AtMostOne(msg_inbox'[p], From(SSI_FAKE_ADDR)),
           BeingServed(p)' =>
              BeingServed(p) /\ Asked' = Asked /\ (p \in Live \/ ssi'.pc = "terminate"),
           BeingAnswered(p)' => BeingAnswered(p) /\ Asked' = Asked /\ ssi'.pc = ssi.pc,
           \A d \in Device : p \in ToSet(pcb_blocked_on_device'[d]) =>
                                p \in ToSet(pcb_blocked_on_device[d]),
           p \in ToSet(pcb_blocked_on_clock') => p \in ToSet(pcb_blocked_on_clock),
           call'[p] = call[p] \/ \A s \in Stage : ~At(s, p)
    PROVE  OneStage(p)' /\ \A s \in Stage : At(s, p)' => At(s, p)
<1>1. \A s \in Stage : At(s, p)' => At(s, p)
  BY DEF At
<1>2. ASSUME NEW s \in Stage, At(s, p)'  PROVE StagedAt(s, p)'
  <2>1. At(s, p) /\ StagedAt(s, p) /\ call'[p] = call[p]
    BY <1>1, <1>2 DEF OneStage
  <2>2. CASE s = "inbox"
    BY <2>1, <2>2 DEF StagedAt
  <2>3. CASE s = "served"
    BY <1>2, <2>1, <2>3 DEF StagedAt, At
  <2>4. CASE s = "device"
    BY <2>1, <2>4 DEF StagedAt
  <2>5. CASE s = "clock"
    BY <2>1, <2>5 DEF StagedAt
  <2>6. CASE s = "answer"
    BY <1>2, <2>1, <2>6 DEF StagedAt, At
  <2>7. CASE s = "answered"
    BY <2>1, <2>7 DEF StagedAt
  <2> QED BY <2>2, <2>3, <2>4, <2>5, <2>6, <2>7 DEF Stage
<1>3. \A s, t \in Stage : At(s, p)' /\ At(t, p)' => s = t
  BY <1>1 DEF OneStage
<1>4. From(p)' = From(p) /\ From(SSI_FAKE_ADDR)' = From(SSI_FAKE_ADDR)
  BY DEF From
<1> QED BY <1>1, <1>2, <1>3, <1>4 DEF OneStage

(* What is asked for and where does not depend on the queues' order.       *)
LEMMA CalmStage ==
    ASSUME NEW p \in User, OneStage(p), UNCHANGED <<pcbFree, listVars, ssi>>,
           Requested(p)' \subseteq Requested(p), AtMostOne(msg_inbox'[ssi_pcb_real], From(p)),
           Replied(p)' \subseteq Replied(p), AtMostOne(msg_inbox'[p], From(SSI_FAKE_ADDR)),
           received'[ssi_pcb_real] = received[ssi_pcb_real],
           call'[p] = call[p] \/ \A s \in Stage : ~At(s, p)
    PROVE  OneStage(p)' /\ \A s \in Stage : At(s, p)' => At(s, p)
<1>1. Asked' = Asked /\ Asker' = Asker /\ Live' = Live
  BY DEF Asked, Asker, Live
<1>2. /\ BeingServed(p)' => BeingServed(p)
      /\ BeingAnswered(p)' => BeingAnswered(p)
  BY <1>1 DEF BeingServed, BeingAnswered
<1>3. BeingServed(p)' => p \in Live \/ ssi'.pc = "terminate"
  BY <1>2 DEF OneStage, StagedAt, At, Stage
<1> QED BY <1>1, <1>2, <1>3, StageKept DEF listVars

(* Whom requests terminate does not change.                                *)
LEMMA CalmCallRoots ==
    ASSUME Stacks, NEW p \in User, CallRoots(p)' = CallRoots(p),
           CallRoots(p) # {} => call'[p] = call[p]
    PROVE  \A r \in CallRoots(p)' : (r = p /\ Ending(p)') \/ r \in Children(p)
<1>1. ASSUME NEW r \in CallRoots(p)  PROVE (r = p /\ Ending(p)') \/ r \in Children(p)
  <2>1. call'[p] = call[p]
    BY <1>1
  <2>2. Ending(p)' <=> Ending(p)
    BY <2>1 DEF Ending
  <2> QED BY <1>1, <2>2 DEF Stacks
<1> QED BY <1>1

LEMMA CalmStacks ==
    ASSUME Base, Base', Stacks, UNCHANGED <<p_child, p_parent, frame>>, cpu # "kernel",
           \A p \in User : \A r \in CallRoots(p)' : (r = p /\ Ending(p)') \/ r \in Children(p),
           Stack("ssi") = {} \/ (ssi' = ssi /\ Asker' = Asker /\ call'[Asker] = call[Asker]),
           \A x \in Stack("ssi") : At("device", x)' => At("device", x)
    PROVE  Stacks'
<1>1. /\ \A a : Stack(a)' = Stack(a) /\ Victim(a)' = Victim(a)
      /\ \A x : Listed(x)' <=> Listed(x)
      /\ \A x : ToSet(p_child'[x]) = Children(x)
  BY DEF Stack, Victim, Listed, Children
<1>2. Stack("nucleus") = {}
  BY NoQueue DEF Base, Frames, NoFrame, Stack
<1>3. \A a \in Actor : \A x \in Stack(a) : At("device", x)' => At("device", x)
  BY <1>2 DEF Actor
<1>4. \A p \in User : \A r \in CallRoots(p)' : (r = p /\ Ending(p)') \/ r \in ToSet(p_child'[p])
  BY <1>1
<1>5. ASSUME frame'["ssi"].pc = "outChild", Listed(Victim("ssi"))'
      PROVE  \/ Victim("ssi")' = Asker' /\ call'[Asker'].op = "BAD"
             \/ Victim("ssi")' = Asker' /\ call'[Asker'].op = "TERM" /\ call'[Asker'].arg = NULL
             \/ p_parent'[Victim("ssi")'] \in ToSet(Tail(frame'["ssi"].stack))
             \/ p_parent'[Victim("ssi")'] = Asker' /\ call'[Asker'].op = "TERM"
  <2>1. \/ Victim("ssi") = Asker /\ Ending(Asker)
        \/ p_parent[Victim("ssi")] \in ToSet(Tail(frame["ssi"].stack))
        \/ p_parent[Victim("ssi")] = Asker /\ call[Asker].op = "TERM"
    BY <1>1, <1>5 DEF Stacks
  <2>2. Stack("ssi") # {}
    <3>1. TermAt("ssi", "outChild") \/ frame["ssi"] # NoFrame
      BY <1>5 DEF NoFrame
    <3>2. frame["ssi"].stack \in Seq(Pcb) /\ frame["ssi"].stack # <<>>
      BY <3>1, <1>5 DEF Base, FrameType, Frames, Actor, NoFrame
    <3>3. Head(frame["ssi"].stack) \in ToSet(frame["ssi"].stack)
      <4>1. PICK q : q = frame["ssi"].stack
        OBVIOUS
      <4>2. 1 \in DOMAIN q /\ Head(q) = q[1]
        BY <3>2, <4>1, TailElements
      <4> QED BY <4>1, <4>2 DEF ToSet
    <3> QED BY <3>3 DEF Stack
  <2>3. Asker' = Asker /\ call'[Asker'] = call[Asker]
    BY <2>2
  <2>4. p_parent'[Victim("ssi")'] = p_parent[Victim("ssi")] /\ frame' = frame
    BY <1>1
  <2> QED BY <1>1, <2>1, <2>3, <2>4 DEF Ending
<1>6. \A a \in Actor : \A x \in Stack(a)' :
         /\ Listed(x)' => x = Victim(a)' /\ frame'[a].pc = "outChild"
         /\ At("device", x)' => x = Victim(a)' /\ frame'[a].pc \in {"outChild", "outReady", "outIO"}
  BY <1>1, <1>3 DEF Stacks
<1>7. \A a \in Actor : Once(frame'[a].stack)
  BY DEF Stacks
<1> QED BY <1>4, <1>5, <1>6, <1>7 DEF Stacks, Children, Ending

(* Nor what they do until then.                                            *)
LEMMA CalmDoom ==
    ASSUME Base, Base', NEW doom, Doomed(doom), UNCHANGED <<p_child, pcbFree, frame>>,
           cpu # "kernel", cpu' # "kernel",
           \A p \in User : CallRoots(p)' = CallRoots(p),
           Stack("ssi") = {} \/ (ssi' = ssi /\ Asker' = Asker),
           \A x \in Pcb : doom[x] # NULL => /\ call'[x] = call[x]
                                            /\ x \in blocked => x \in blocked'
    PROVE  Doomed(doom)'
<1>1. /\ \A a : Stack(a)' = Stack(a)
      /\ \A x : ToSet(p_child'[x]) = Children(x)
      /\ Live' = Live /\ \A T : Closed(T)' <=> Closed(T)
      /\ \A p : ~Trapped(p) /\ ~Trapped(p)'
  BY DEF Stack, Children, Live, Closed, Trapped
<1>2. \A p \in User : Roots(p)' = Roots(p)
  BY <1>1 DEF Roots, SsiRoots, NucleusRoots
<1>3. \A x \in Pcb : doom[x] # NULL =>
         /\ Ending(x)' <=> Ending(x)
         /\ AtPeace(x) => AtPeace(x)'
  BY DEF Ending, AtPeace
<1>4. \A x \in Pcb : doom[x] # NULL => doom[x] \in User
  BY DEF Doomed
<1>5. ASSUME NEW x \in Pcb, doom[x] # NULL
      PROVE  /\ doom[x] \in User /\ x \in Live' /\ x # ssi_pcb_real
             /\ \A T \in SUBSET Pcb : Roots(doom[x])' \subseteq T /\ Closed(T)' => x \in T
             /\ AtPeace(x)' \/ (x = doom[x] /\ Ending(x)')
  BY <1>1, <1>2, <1>3, <1>5 DEF Doomed, Meek
<1>6. \A p \in User : \A x \in Roots(p)' : x \in Pcb /\ doom[x] = p
  BY <1>2 DEF Doomed
<1>7. \A x \in Pcb : \A y \in ToSet(p_child'[x]) : doom[x] # NULL => doom[y] = doom[x]
  BY <1>1 DEF Doomed
<1> QED BY <1>2, <1>5, <1>6, <1>7 DEF Doomed, Children, Meek

(* Whom some request or trap terminates.                                   *)
Condemned(x) == \E doom \in [Pcb -> Pcb \cup {NULL}] : Doomed(doom) /\ doom[x] # NULL

LEMMA CondemnedWait ==
    ASSUME NEW x \in Pcb, Condemned(x), cpu # "kernel"
    PROVE  AtPeace(x) \/ (x \in User /\ Ending(x) /\ Roots(x) # {})
<1>1. PICK doom \in [Pcb -> Pcb \cup {NULL}] : Doomed(doom) /\ doom[x] # NULL
  BY DEF Condemned
<1>2. AtPeace(x) \/ (x = doom[x] /\ doom[x] \in User /\ Ending(x))
  BY <1>1 DEF Doomed, Trapped, Meek
<1>3. CASE x = doom[x] /\ Roots(x) = {}
  BY <1>1, <1>3, NoRootsNoDoom
<1> QED BY <1>2, <1>3

LEMMA CalmOrderly ==
    ASSUME Orderly, Base', UNCHANGED <<p_child, p_parent, pcbFree, frame>>,
           cpu # "kernel", cpu' # "kernel",
           UnderConstruction' = UnderConstruction, Places', Unready', Waiting',
           ssi'.pc \in {"insertChild", "insertReady"} => ssi' = ssi /\ Asker' = Asker,
           \A p \in User : OneStage(p)',
           \A d \in Device : Once(pcb_blocked_on_device'[d]), Once(pcb_blocked_on_clock'),
           \A p \in User : CallRoots(p)' = CallRoots(p)
                           /\ (CallRoots(p) # {} => call'[p] = call[p]),
           Stack("ssi") = {} \/ (ssi' = ssi /\ Asker' = Asker /\ call'[Asker] = call[Asker]),
           \A x \in Stack("ssi") : At("device", x)' => At("device", x),
           \A x \in Pcb : Condemned(x) => /\ call'[x] = call[x]
                                          /\ x \in blocked => x \in blocked'
    PROVE  Orderly'
<1>1. Base /\ Family /\ Stacks
  BY DEF Orderly
<1>2. Family'
  BY <1>1, CalmFamily
<1>3. Staged'
  BY DEF Staged, Trapped
<1>4. Stacks'
  <2>1. \A p \in User : \A r \in CallRoots(p)' : (r = p /\ Ending(p)') \/ r \in Children(p)
    BY <1>1, CalmCallRoots
  <2> QED BY <1>1, <2>1, CalmStacks
<1>5. PICK doom \in [Pcb -> Pcb \cup {NULL}] : Doomed(doom)
  BY DEF Orderly
<1>6. \A x \in Pcb : doom[x] # NULL => /\ call'[x] = call[x]
                                       /\ x \in blocked => x \in blocked'
  BY <1>5 DEF Condemned
<1>7. Doomed(doom)'
  BY <1>1, <1>5, <1>6, CalmDoom
<1> QED BY <1>2, <1>3, <1>4, <1>5, <1>7 DEF Orderly
-----------------------------------------------------------------------------
(* The time slice ends: nothing but the ready queue changes.               *)
LEMMA CallRootsKept ==
    ASSUME NEW p, Pending(p)' <=> Pending(p), Pending(p) => call'[p] = call[p]
    PROVE  CallRoots(p)' = CallRoots(p)
BY DEF CallRoots, Ending

LEMMA SliceEndsOrderly ==
    ASSUME Orderly, Base', SliceEnds
    PROVE  Orderly'
<1>1. /\ cpu = "run" /\ cpu # "kernel" /\ reg_a1' = [reg_a1 EXCEPT ![current_process] = SCRATCH]
      /\ UNCHANGED <<procVars, msgVars, listVars, busy, ssi, frame, call>>
      /\ Scheduler(NULL, Append(ready_queue, current_process))
  BY DEF SliceEnds, PltInterrupt
<1>2. Base /\ Places /\ Unready /\ Waiting /\ Staged
  BY DEF Orderly
<1>3. current_process \in Pcb /\ ready_queue \in Seq(Pcb) /\ reg_a1 \in [Pcb -> {SCRATCH, ANYMESSAGE} \cup Sender]
  BY <1>1, <1>2 DEF Base, TypeOK, CpuWorks
<1>4. PICK ready : ready = Append(ready_queue, current_process)
  OBVIOUS
<1>5. ready \in Seq(Pcb) /\ ToSet(ready) = Ready \cup {current_process} /\ Once(ready)
  BY <1>2, <1>3, <1>4, AppendRange, AppendOnce DEF Places, Ready
<1>6. /\ NULL \notin Pcb /\ cpu' \in {"run", "wait", "halt", "panic"}
      /\ Once(ready_queue') /\ current_process' \notin Ready'
      /\ \A x \in Pcb : x \in Ready' \/ x = current_process' <=> x \in Ready \/ x = current_process
  <2>1. NULL \notin ToSet(ready) /\ NULL \notin Pcb
    BY <1>5, Names, LenProperties, ElementOfSeq DEF ToSet
  <2> QED BY <1>1, <1>4, <1>5, <2>1, SchedulerTypes, ScheduledPlaces
<1>7. /\ blocked' = blocked /\ cpu' # "kernel" /\ UNCHANGED <<pcbFree, p_parent, p_child>>
      /\ UnderConstruction' = UnderConstruction
  BY <1>1, <1>6 DEF procVars, msgVars, listVars, UnderConstruction
<1>8. Places' /\ Unready'
  <2>1. {} \in SUBSET blocked /\ {} \in SUBSET Pcb
    OBVIOUS
  <2> QED BY <1>1, <1>2, <1>6, <1>7, <2>1, CalmPlaces
<1>9. Waiting'
  <2>1. ASSUME NEW p \in Pcb  PROVE WaitsFor(p)'
    <3>1. p \in blocked => p # current_process
      BY <1>2 DEF Places
    <3>2. p \in blocked => reg_a1'[p] = reg_a1[p]
      BY <1>1, <1>3, <3>1
    <3> QED BY <1>1, <1>2, <1>7, <3>2, WaitsOn DEF Waiting
  <2> QED BY <2>1 DEF Waiting
<1>10. \A p : At("inbox", p)' = At("inbox", p) /\ (Requested(p)' = Requested(p)) /\ (Replied(p)' = Replied(p))
  BY <1>1 DEF At, Requested, Replied, msgVars, From
<1>11. \A p \in User : OneStage(p)'
  BY <1>1, <1>2, <1>10, CalmStage DEF Staged, OneStage, msgVars, procVars
<1>12. \A p \in User : CallRoots(p)' = CallRoots(p)
  <2>1. \A p : Pending(p)' <=> Pending(p)
    BY <1>1, <1>10 DEF Pending, BeingServed, Asker, msgVars
  <2> QED BY <1>1, <2>1, CallRootsKept
<1>13. Asker' = Asker /\ \A x : At("device", x)' <=> At("device", x)
  BY <1>1 DEF Asker, At, msgVars, listVars
<1>14. Once(pcb_blocked_on_clock') /\ \A d \in Device : Once(pcb_blocked_on_device'[d])
  BY <1>1, <1>2 DEF Staged, listVars
<1> QED BY <1>1, <1>7, <1>8, <1>9, <1>11, <1>12, <1>13, <1>14, CalmOrderly
-----------------------------------------------------------------------------
(* Messages.                                                               *)

(* Whom a message wakes.                                                   *)
WokenBy(W, dest, m, ready) ==
    /\ W \subseteq {dest} /\ blocked' = blocked \ W
    /\ ToSet(ready) = Ready \cup W
    /\ W # {} <=> Handed(dest, m, ready)

(* A receiver is woken only when it is blocked.                            *)
LEMMA SentPlaces ==
    ASSUME Base, Places, NEW dest \in Live, NEW m, NEW ready, Sent(dest, m, ready),
           dest \in blocked \/ ~Wakeable(dest, m)
    PROVE  /\ ready \in Seq(Pcb) /\ Once(ready) /\ current_process \notin ToSet(ready)
           /\ \E W \in SUBSET blocked : WokenBy(W, dest, m, ready)
<1>1. ready_queue \in Seq(Pcb) /\ dest \in Pcb /\ Once(ready_queue) /\ current_process \notin Ready
  BY DEF Base, TypeOK, Live, Places
<1>2. CASE Handed(dest, m, ready)
  <2>1. /\ ready = Append(ready_queue, dest) /\ blocked' = blocked \ {dest}
        /\ dest \in blocked /\ dest \notin Ready /\ dest # current_process
    BY <1>2 DEF Handed, Wakeable
  <2>2. ready \in Seq(Pcb) /\ ToSet(ready) = Ready \cup {dest} /\ Once(ready)
    BY <1>1, <2>1, AppendRange, AppendOnce DEF Ready
  <2>3. {dest} \in SUBSET blocked /\ {dest} # {}
    BY <2>1
  <2>4. WokenBy({dest}, dest, m, ready)
    BY <1>2, <2>1, <2>2, <2>3 DEF WokenBy
  <2> QED BY <1>1, <2>1, <2>2, <2>3, <2>4
<1>3. CASE ~Handed(dest, m, ready)
  <2>1. ready = ready_queue /\ blocked' = blocked
    BY <1>3 DEF Sent, Queued, Dropped, msgVars
  <2>2. {} \in SUBSET blocked /\ WokenBy({}, dest, m, ready)
    BY <1>3, <2>1 DEF Ready, WokenBy
  <2> QED BY <1>1, <2>1, <2>2 DEF Ready
<1> QED BY <1>2, <1>3

(* What a message leaves in the inboxes.                                   *)
LEMMA SentInbox ==
    ASSUME Base, NEW dest \in Live, NEW m \in Message, NEW ready, Sent(dest, m, ready),
           NEW x \in Pcb, NEW T
    PROVE  /\ x # dest \/ m \notin T \/ ~Queued(dest, m, ready) =>
                 /\ Among(msg_inbox'[x], T) = Among(msg_inbox[x], T)
                 /\ AtMostOne(msg_inbox[x], T) => AtMostOne(msg_inbox'[x], T)
           /\ x = dest /\ m \in T /\ Queued(dest, m, ready) =>
                 /\ Among(msg_inbox'[x], T) = Among(msg_inbox[x], T) \cup {m}
                 /\ AtMostOne(msg_inbox[x], T) /\ Among(msg_inbox[x], T) = {} =>
                       AtMostOne(msg_inbox'[x], T)
<1>1. msg_inbox[x] \in Seq(Message) /\ msg_inbox \in [Pcb -> Seq(Message)] /\ dest \in Pcb
  BY DEF Base, TypeOK, Live
<1>2. CASE Queued(dest, m, ready)
  <2>1. CASE x = dest
    <3>1. msg_inbox'[x] = Append(msg_inbox[x], m)
      BY <1>1, <1>2, <2>1 DEF Queued
    <3>2. PICK q, r : q = msg_inbox[x] /\ r = Append(q, m)
      OBVIOUS
    <3>3. /\ m \in T => Among(r, T) = Among(q, T) \cup {m}
          /\ m \notin T => Among(r, T) = Among(q, T)
          /\ AtMostOne(q, T) /\ (m \in T => Among(q, T) = {}) => AtMostOne(r, T)
      BY <1>1, <3>2, AmongAppend
    <3> QED BY <1>2, <2>1, <3>1, <3>2, <3>3
  <2>2. CASE x # dest
    <3>1. msg_inbox'[x] = msg_inbox[x]
      BY <1>1, <1>2, <2>2 DEF Queued
    <3> QED BY <1>2, <2>2, <3>1
  <2> QED BY <2>1, <2>2
<1>3. CASE ~Queued(dest, m, ready)
  <2>1. msg_inbox' = msg_inbox
    BY <1>3 DEF Sent, Handed, Dropped, msgVars
  <2> QED BY <1>3, <2>1
<1> QED BY <1>2, <1>3

(* The SSI is woken only when it waits for a request.                      *)
LEMMA SsiWoken ==
    ASSUME Base, NEW m, Wakeable(ssi_pcb_real, m)
    PROVE  /\ ssi_pcb_real \in blocked /\ ssi.pc = "dispatch" /\ Asker = NULL
           /\ Stack("ssi") = {}
<1>1. ssi_pcb_real \in blocked
  BY DEF Base, SsiPlaced, Wakeable
<1>2. ssi.pc = "dispatch" /\ Asker = NULL
  BY <1>1 DEF Base, SsiServes, Asker, NoMessage
<1>3. Stack("ssi") = {}
  BY <1>2, NoQueue DEF Base, Frames, NoFrame, Stack
<1> QED BY <1>1, <1>2, <1>3

(* A message of the interrupt handler says nothing of any request.         *)
LEMMA InterruptsOrderly ==
    ASSUME Orderly, Base', NEW e \in Event, Interrupt(e), UNCHANGED <<listVars, ssi, frame, call>>
    PROVE  Orderly'
<1> DEFINE S == ssi_pcb_real
           m == MessageOf(INTERRUPT_HANDLER_MSG, e)
<1>1. /\ Base /\ Places /\ Unready /\ Waiting /\ Staged /\ TypeOK /\ S \in Live /\ S \in Pcb
      /\ e \in Load
  BY Loads, Names DEF Orderly, Base, CpuWorks
<1>2. /\ UNCHANGED <<procVars, reg_a1>> /\ cpu # "kernel" /\ cpu' # "kernel"
      /\ \E ready \in Seq(Pcb) : Sent(S, m, ready) /\ Scheduler(current_process, ready)
  BY <1>1, InterruptEffect
<1>3. PICK ready \in Seq(Pcb) : Sent(S, m, ready) /\ Scheduler(current_process, ready)
  BY <1>2
<1>4. m \in Message /\ m.sender = INTERRUPT_HANDLER_MSG /\ \A p \in User : m \notin From(p)
  BY <1>1, Names DEF MessageOf, Message, User, From
<1>5. m \notin From(SSI_FAKE_ADDR)
  BY <1>4, Names DEF From
<1> HIDE DEF m
<1>6. S \in blocked \/ ~Wakeable(S, m)
  BY <1>1, SsiWoken
<1>7. /\ Once(ready) /\ current_process \notin ToSet(ready)
      /\ \E W \in SUBSET blocked : WokenBy(W, S, m, ready)
  BY <1>1, <1>3, <1>6, SentPlaces
<1>8. PICK W \in SUBSET blocked :
            /\ W \subseteq {S} /\ blocked' = blocked \ W /\ ToSet(ready) = Ready \cup W
  BY <1>7 DEF WokenBy
<1>9. /\ Once(ready_queue') /\ current_process' \notin Ready'
      /\ \A x \in Pcb : x \in Ready' \/ x = current_process' <=> x \in ToSet(ready) \/ x = current_process
  <2>1. current_process \in Pcb \cup {NULL}
    BY <1>1 DEF TypeOK
  <2> QED BY <1>3, <1>7, <2>1, ScheduledPlaces
<1>10. /\ UNCHANGED <<pcbFree, p_parent, p_child>> /\ UnderConstruction' = UnderConstruction
  BY <1>2 DEF procVars, listVars, UnderConstruction
<1>11. Places' /\ Unready'
  <2>1. W \cap Stack("ssi") = {} /\ {} \in SUBSET Pcb
    BY <1>1, <1>8 DEF Base, Frames, Stack, Actor
  <2>2. \A x \in Pcb : x \in Ready' \/ x = current_process' <=>
           (x \in Ready \/ x = current_process \/ x \in W) /\ x \notin {}
    BY <1>8, <1>9
  <2> QED BY <1>1, <1>2, <1>8, <1>9, <1>10, <2>1, <2>2, CalmPlaces
<1>12. Waiting'
  <2>1. ASSUME NEW p \in Pcb, p # S  PROVE WaitsFor(p)'
    <3>1. p \in blocked' <=> p \in blocked
      BY <1>8, <2>1
    <3> QED BY <1>1, <1>2, <1>10, <3>1, WaitsOn DEF Waiting
  <2>2. WaitsFor(S)'
    <3>1. call'[S] = NoCall
      BY <1>1 DEF Base, SsiApart
    <3> QED BY <3>1, CallOps DEF WaitsFor
  <2> QED BY <2>1, <2>2 DEF Waiting
<1>13. \A p \in User : Requested(p)' = Requested(p) /\ AtMostOne(msg_inbox'[S], From(p))
                       /\ Replied(p)' = Replied(p) /\ AtMostOne(msg_inbox'[p], From(SSI_FAKE_ADDR))
  <2>1. ASSUME NEW p \in User
        PROVE  Requested(p)' = Requested(p) /\ AtMostOne(msg_inbox'[S], From(p))
               /\ Replied(p)' = Replied(p) /\ AtMostOne(msg_inbox'[p], From(SSI_FAKE_ADDR))
    <3>1. p \in Pcb /\ p # S /\ OneStage(p)
      BY <1>1 DEF User, Staged
    <3>2. /\ AtMostOne(msg_inbox'[S], From(p))
          /\ Among(msg_inbox'[S], From(p)) = Among(msg_inbox[S], From(p))
      BY <1>1, <1>3, <1>4, <3>1, SentInbox DEF OneStage
    <3>3. /\ AtMostOne(msg_inbox'[p], From(SSI_FAKE_ADDR))
          /\ Among(msg_inbox'[p], From(SSI_FAKE_ADDR)) = Among(msg_inbox[p], From(SSI_FAKE_ADDR))
      BY <1>1, <1>3, <1>4, <3>1, SentInbox DEF OneStage
    <3> QED BY <3>2, <3>3 DEF Requested, Replied, From
  <2> QED BY <2>1
<1>14. CASE Handed(S, m, ready)
  <2>1. Asker' = INTERRUPT_HANDLER_MSG /\ ssi.pc = "dispatch" /\ Asker = NULL /\ Stack("ssi") = {}
    <3>1. received'[S] = m
      BY <1>1, <1>14 DEF Handed, TypeOK
    <3> QED BY <1>1, <1>4, <1>14, <3>1, SsiWoken DEF Asker, Handed
  <2>2. \A p \in User : ~BeingServed(p) /\ ~BeingServed(p)' /\ ~BeingAnswered(p)'
    BY <2>1, Names DEF BeingServed, BeingAnswered, User
  <2>3. \A p \in User : OneStage(p)'
    <3>1. ASSUME NEW p \in User  PROVE OneStage(p)'
      <4>1. OneStage(p) /\ (p \in Live' <=> p \in Live)
        BY <1>1, <1>10 DEF Staged, Live
      <4> QED BY <1>13, <2>2, <4>1, StageKept DEF listVars
    <3> QED BY <3>1
  <2>4. \A p \in User : CallRoots(p)' = CallRoots(p)
    <3>1. \A p \in User : Pending(p)' <=> Pending(p)
      BY <1>13, <2>2 DEF Pending, At
    <3> QED BY <3>1, CallRootsKept
  <2>5. \A x \in Pcb : Condemned(x) => call'[x] = call[x] /\ (x \in blocked => x \in blocked')
    <3>1. ~Condemned(S)
      BY Names DEF Condemned, Doomed
    <3> QED BY <1>8, <3>1
  <2> QED BY <1>1, <1>2, <1>10, <1>11, <1>12, <2>1, <2>3, <2>4, <2>5, CalmOrderly
          DEF Staged, listVars, At
<1>15. CASE ~Handed(S, m, ready)
  <2>1. received' = received /\ blocked' = blocked
    BY <1>3, <1>15 DEF Sent, Queued, Dropped, msgVars
  <2>2. Asker' = Asker
    BY <2>1 DEF Asker
  <2>3. \A p \in User : OneStage(p)'
    <3>1. ASSUME NEW p \in User  PROVE OneStage(p)'
      BY <1>1, <1>10, <1>13, <2>1, CalmStage DEF Staged
    <3> QED BY <3>1
  <2>4. \A p \in User : CallRoots(p)' = CallRoots(p)
    <3>1. \A p \in User : Pending(p)' <=> Pending(p)
      BY <1>13, <2>2 DEF Pending, At, BeingServed
    <3> QED BY <3>1, CallRootsKept
  <2> QED BY <1>1, <1>2, <1>10, <1>11, <1>12, <2>1, <2>2, <2>3, <2>4, CalmOrderly
          DEF Staged, listVars, At
<1> QED BY <1>14, <1>15
-----------------------------------------------------------------------------
(* Receiving.                                                              *)
LEMMA NewStage ==
    ASSUME NEW p, NEW t \in Stage, \A s \in Stage : At(s, p)' => s = t,
           At(t, p)' => StagedAt(t, p)',
           AtMostOne(msg_inbox'[ssi_pcb_real], From(p)), AtMostOne(msg_inbox'[p], From(SSI_FAKE_ADDR))
    PROVE  OneStage(p)'
<1>1. \A q : From(q)' = From(q)
  BY DEF From
<1> QED BY <1>1 DEF OneStage

(* Nobody moves.                                                           *)
LEMMA SamePlaces ==
    ASSUME Places, Unready, UNCHANGED <<pcbFree, frame, blocked, ready_queue, current_process, cpu>>,
           UnderConstruction' = UnderConstruction
    PROVE  Places' /\ Unready'
<1>1. /\ Ready' = Ready /\ Live' = Live /\ Dying' = Dying
      /\ \A a : Stack(a)' = Stack(a) /\ Victim(a)' = Victim(a)
  BY DEF Ready, Live, Dying, Stack, Victim
<1> QED BY <1>1 DEF Places, Unready

(* A process that blocks was running.                                      *)
LEMMA SuspendedPlaces ==
    ASSUME Base, Base', Places, Unready, NEW p \in Pcb, NEW src, Suspended(p, src),
           current_process = p, cpu = "run", UNCHANGED <<pcbFree, frame>>,
           UnderConstruction' = UnderConstruction
    PROVE  Places' /\ Unready' /\ cpu' # "kernel"
<1>1. /\ Scheduler(NULL, ready_queue) /\ blocked' = blocked \cup {p}
      /\ ready_queue \in Seq(Pcb) /\ NULL \notin Pcb /\ p # NULL
  BY Names DEF Suspended, Base, TypeOK
<1>2. Once(ready_queue) /\ Ready = ToSet(ready_queue) /\ NULL \notin Ready /\ p \notin Ready
  BY <1>1, LenProperties, ElementOfSeq DEF Places, Ready, ToSet
<1>3. /\ Once(ready_queue') /\ current_process' \notin Ready' /\ cpu' # "kernel"
      /\ \A x \in Pcb : x \in Ready' \/ x = current_process' <=> x \in Ready \/ x = NULL
  BY <1>1, <1>2, SchedulerTypes, ScheduledPlaces
<1>4. \A x \in Pcb : x \in Ready' \/ x = current_process'
                        <=> (x \in Ready \/ x = current_process \/ x \in {}) /\ x \notin {p}
  BY <1>1, <1>2, <1>3
<1>5. {} \in SUBSET blocked /\ {p} \in SUBSET Pcb /\ {p} \subseteq {current_process}
      /\ blocked' = (blocked \ {}) \cup {p} /\ cpu # "kernel" /\ {} \cap Stack("ssi") = {}
  BY <1>1
<1> QED BY <1>3, <1>4, <1>5, CalmPlaces

LEMMA SsiReceivesOrderly ==
    ASSUME Orderly, Base', SsiReceives
    PROVE  Orderly'
<1> DEFINE S == ssi_pcb_real
<1>1. /\ Base /\ Places /\ Unready /\ Waiting /\ Staged /\ TypeOK /\ S \in Pcb /\ S \notin User
  BY Names DEF Orderly, Base, User
<1>2. /\ Running(S) /\ ssi.pc = "receive" /\ SysReceive(S, ANYMESSAGE) /\ ssi'.pc = "dispatch"
      /\ UNCHANGED <<listVars, busy, frame, call>>
  BY DEF SsiReceives, SsiAt, SsiGoes
<1>3. /\ UNCHANGED procVars /\ cpu = "run" /\ current_process = S
      /\ Suspended(S, ANYMESSAGE) \/ \E i \in DOMAIN msg_inbox[S] : Popped(S, ANYMESSAGE, i)
  BY <1>1, <1>2, Names, SysReceiveEffect
<1>4. /\ UNCHANGED <<pcbFree, p_parent, p_child>>
      /\ UnderConstruction' = UnderConstruction /\ UnderConstruction = {}
      /\ Stack("ssi") = {} /\ cpu # "kernel"
      /\ Once(pcb_blocked_on_clock') /\ \A d \in Device : Once(pcb_blocked_on_device'[d])
      /\ \A x : At("device", x)' <=> At("device", x)
      /\ \A x : At("clock", x)' <=> At("clock", x)
  <2>1. Stack("ssi") = {}
    BY <1>1, <1>2, NoQueue DEF Base, Frames, NoFrame, Stack
  <2>2. \A x : (At("device", x)' <=> At("device", x)) /\ (At("clock", x)' <=> At("clock", x))
    BY <1>2 DEF At, listVars
  <2> QED BY <1>1, <1>2, <1>3, <2>1, <2>2 DEF procVars, listVars, UnderConstruction, Staged
<1>5. \A p \in User : ~BeingServed(p) /\ ~BeingAnswered(p) /\ ~BeingAnswered(p)'
  BY <1>2 DEF BeingServed, BeingAnswered
<1>6. \A p \in User : msg_inbox'[p] = msg_inbox[p] /\ (p \in blocked' <=> p \in blocked)
                      /\ reg_a1'[p] = reg_a1[p] /\ p \in Pcb
  BY <1>1, <1>3 DEF Suspended, Popped, User, TypeOK
<1>7. \A p \in User : (At("answered", p)' <=> At("answered", p))
                      /\ AtMostOne(msg_inbox'[p], From(SSI_FAKE_ADDR))
  <2>1. \A p \in User : Replied(p)' = Replied(p)
    BY <1>6 DEF Replied, From
  <2> QED BY <1>1, <1>6, <2>1 DEF At, Staged, OneStage
<1>8. Waiting'
  <2>1. ASSUME NEW p \in User  PROVE WaitsFor(p)'
    BY <1>1, <1>2, <1>4, <1>6, WaitsOn DEF Waiting
  <2>2. WaitsFor(S)'
    <3>1. call'[S] = NoCall
      BY <1>1, <1>2 DEF Base, SsiApart
    <3> QED BY <3>1, CallOps DEF WaitsFor
  <2> QED BY <2>1, <2>2 DEF Waiting, User
<1>9. \A x \in Pcb : Condemned(x) => call'[x] = call[x] /\ (x \in blocked => x \in blocked')
  <2>1. ~Condemned(S)
    BY Names DEF Condemned, Doomed
  <2> QED BY <1>2, <1>6, <2>1 DEF User
<1>10. CASE Suspended(S, ANYMESSAGE)
  <2>1. Places' /\ Unready' /\ cpu' # "kernel"
    BY <1>1, <1>2, <1>3, <1>4, <1>10, SuspendedPlaces
  <2>2. Asker' = NULL /\ msg_inbox' = msg_inbox
    BY <1>1, <1>10 DEF Suspended, TypeOK, Asker, NoMessage
  <2>3. \A p \in User : ~BeingServed(p)' /\ Requested(p)' = Requested(p) /\ Replied(p)' = Replied(p)
    BY <2>2, Names DEF BeingServed, User, Requested, Replied, From
  <2>4. \A p \in User : OneStage(p)'
    <3>1. ASSUME NEW p \in User  PROVE OneStage(p)'
      <4>1. OneStage(p) /\ (p \in Live' <=> p \in Live)
        BY <1>1, <1>4 DEF Staged, Live
      <4>2. AtMostOne(msg_inbox'[S], From(p)) /\ AtMostOne(msg_inbox'[p], From(SSI_FAKE_ADDR))
        BY <2>2, <4>1 DEF OneStage
      <4> QED BY <1>2, <1>5, <2>3, <4>1, <4>2, StageKept DEF listVars
    <3> QED BY <3>1
  <2>5. \A p \in User : CallRoots(p)' = CallRoots(p)
    <3>1. \A p \in User : Pending(p)' <=> Pending(p)
      BY <1>5, <2>3 DEF Pending, At
    <3> QED BY <1>2, <3>1, CallRootsKept
  <2> QED BY <1>1, <1>2, <1>4, <1>8, <1>9, <2>1, <2>4, <2>5, CalmOrderly
<1>11. ASSUME NEW i \in DOMAIN msg_inbox[S], Popped(S, ANYMESSAGE, i)
       PROVE  Orderly'
  <2>1. /\ msg_inbox' = [msg_inbox EXCEPT ![S] = RemoveAt(@, i)]
        /\ received'[S] = msg_inbox[S][i] /\ msg_inbox[S] \in Seq(Message)
        /\ UNCHANGED <<blocked, ready_queue, current_process, cpu>>
    BY <1>1, <1>11 DEF Popped, TypeOK
  <2>2. PICK q : q = msg_inbox[S]
    OBVIOUS
  <2>3. PICK m : m = q[i]
    OBVIOUS
  <2>4. m \in Message /\ m \in ToSet(q) /\ Asker' = m.sender /\ Asked' = m.payload
    BY <1>11, <2>1, <2>2, <2>3, LenProperties, ElementOfSeq DEF ToSet, Asker, Asked
  <2>5. Places' /\ Unready'
    <3>1. Ready' = Ready
      BY <2>1 DEF Ready
    <3> QED BY <1>1, <1>2, <1>3, <1>4, <2>1, <3>1, SamePlaces
  <2>6. ASSUME NEW p \in User, p # m.sender
        PROVE  OneStage(p)' /\ (Pending(p)' <=> Pending(p))
    <3>1. OneStage(p) /\ AtMostOne(q, From(p)) /\ m \notin From(p) /\ (p \in Live' <=> p \in Live)
      BY <1>1, <1>4, <2>2, <2>4, <2>6 DEF Staged, OneStage, From, Live
    <3>2. AtMostOne(RemoveAt(q, i), From(p)) /\ Among(RemoveAt(q, i), From(p)) = Among(q, From(p))
      BY <1>11, <2>1, <2>2, <2>3, <3>1, AmongRemoved
    <3>3. msg_inbox'[S] = RemoveAt(q, i)
      BY <1>1, <2>1, <2>2 DEF TypeOK
    <3>4. Requested(p)' = Requested(p) /\ AtMostOne(msg_inbox'[S], From(p))
      BY <2>2, <3>2, <3>3 DEF Requested, From
    <3>5. ~BeingServed(p)'
      BY <2>4, <2>6 DEF BeingServed
    <3>6. Replied(p)' = Replied(p) /\ AtMostOne(msg_inbox'[p], From(SSI_FAKE_ADDR))
      BY <1>6, <1>7 DEF Replied, From
    <3>7. OneStage(p)'
      BY <1>2, <1>5, <3>1, <3>4, <3>5, <3>6, StageKept DEF listVars
    <3> QED BY <1>5, <3>4, <3>5, <3>7 DEF Pending, At
  <2>7. ASSUME NEW p \in User, p = m.sender
        PROVE  OneStage(p)' /\ (Pending(p)' <=> Pending(p))
    <3>1. OneStage(p) /\ AtMostOne(q, From(p)) /\ m \in From(p)
      BY <1>1, <2>2, <2>4, <2>7 DEF Staged, OneStage, From
    <3>2. AtMostOne(RemoveAt(q, i), From(p)) /\ Among(RemoveAt(q, i), From(p)) = {}
      BY <1>11, <2>1, <2>2, <2>3, <3>1, AmongRemoved
    <3>3. msg_inbox'[S] = RemoveAt(q, i)
      BY <1>1, <2>1, <2>2 DEF TypeOK
    <3>4. Requested(p)' = {} /\ AtMostOne(msg_inbox'[S], From(p))
      BY <2>2, <3>2, <3>3 DEF Requested, From
    <3>5. m \in Requested(p)
      BY <2>2, <2>4, <3>1 DEF Requested, Among
    <3>6. At("inbox", p) /\ StagedAt("inbox", p) /\ \A s \in Stage : At(s, p) => s = "inbox"
      BY <3>1, <3>5 DEF At, Stage, OneStage
    <3>7. p \in Live /\ call[p] = m.payload
      BY <3>5, <3>6 DEF StagedAt
    <3>8. \A s \in Stage : At(s, p)' => s = "served"
      <4>1. ~At("inbox", p)' /\ ~At("device", p)' /\ ~At("clock", p)' /\ ~At("answer", p)'
            /\ ~At("answered", p)'
        BY <1>4, <1>5, <1>7, <3>4, <3>6 DEF At, Stage
      <4> QED BY <4>1 DEF Stage
    <3>9. StagedAt("served", p)' /\ "served" \in Stage
      <4>1. p \in Live' /\ call'[p] = Asked'
        BY <1>2, <1>4, <2>4, <3>7 DEF Live
      <4> QED BY <4>1 DEF StagedAt, Stage
    <3>10. OneStage(p)'
      BY <1>7, <3>4, <3>8, <3>9, NewStage
    <3>11. Pending(p)' /\ Pending(p)
      BY <1>2, <2>4, <2>7, <3>6 DEF Pending, BeingServed
    <3> QED BY <3>10, <3>11
  <2>8. \A p \in User : OneStage(p)' /\ CallRoots(p)' = CallRoots(p)
    BY <1>2, <2>6, <2>7, CallRootsKept
  <2> QED BY <1>1, <1>2, <1>3, <1>4, <1>8, <1>9, <2>1, <2>5, <2>8, CalmOrderly
<1> QED BY <1>3, <1>10, <1>11
-----------------------------------------------------------------------------
(* Programs send.                                                          *)

(* Whom a program may send to is in one of the three places, and waits     *)
(* for nobody's orders.                                                    *)
LEMMA RelativePlaced ==
    ASSUME Orderly, NEW p \in User, cpu = "run", current_process = p, call[p] = NoCall,
           NEW x \in Live, x \in Children(p) \cup {p_parent[p]}, ~Ending(x)
    PROVE  /\ ~Condemned(x) /\ x \notin Stack("ssi")
           /\ x \in Ready \cup blocked \cup {current_process}
<1>1. Base /\ Places /\ Family /\ Stacks /\ Staged /\ x \in Pcb /\ p \in Pcb
  BY DEF Orderly, Live, User
<1>2. ~Condemned(x)
  BY <1>1, FreeRelative DEF Condemned
<1>3. x \notin Dying
  <2>1. PICK doom \in [Pcb -> Pcb \cup {NULL}] : Doomed(doom)
    BY DEF Orderly
  <2>2. doom[x] = NULL
    BY <1>2, <2>1 DEF Condemned
  <2>3. x \notin Stack("ssi")
    <3>1. SUFFICES ASSUME x \in Stack("ssi") PROVE FALSE
      OBVIOUS
    <3>2. ssi.pc = "terminate"
      BY <1>1, <3>1, SsiAtWork
    <3>3. Asker \in User
      BY <1>1, <3>1, SsiAtWork
    <3>4. x \in Roots(Asker)
      BY <3>1, <3>2 DEF Roots, SsiRoots
    <3> QED BY <2>1, <2>2, <3>3, <3>4, Names DEF Doomed, User
  <2>4. Stack("nucleus") = {}
    BY <1>1, NoQueue DEF Base, Frames, Stack, NoFrame
  <2> QED BY <2>3, <2>4 DEF Dying, Stack, Actor
<1>4. x \notin UnderConstruction
  <2>1. SUFFICES ASSUME x \in UnderConstruction PROVE FALSE
    OBVIOUS
  <2>2. /\ ssi.pc \in {"insertChild", "insertReady"} /\ x = ssi.p
        /\ frame["ssi"] = NoFrame /\ frame["nucleus"] = NoFrame
    BY <1>1, <2>1 DEF UnderConstruction, Base, Frames
  <2>3. Asker # p
    <3>1. SUFFICES ASSUME Asker = p PROVE FALSE
      OBVIOUS
    <3>2. BeingServed(p) /\ p \in Live
      BY <1>1, <2>2, <3>1 DEF BeingServed, Places
    <3> QED BY <1>1, <3>2, ServedCalls, CallOps
  <2>4. CASE x \in Children(p)
    <3>1. p_parent[x] = p
      BY <1>1, <2>4 DEF Family
    <3> QED BY <1>1, <2>2, <2>3, <3>1, Names DEF Family
  <2>5. CASE x = p_parent[p]
    <3>1. Dying = {}
      <4>1. \A a \in Actor : ToSet(frame[a].stack) = {}
        BY <2>2, NoQueue DEF Actor, NoFrame
      <4> QED BY <4>1 DEF Dying
    <3>2. p \notin UnderConstruction /\ p \in Live /\ x # NULL
      BY <1>1, Names DEF Places
    <3>3. p \in Children(x)
      BY <1>1, <2>5, <3>1, <3>2 DEF Family
    <3>4. p_child[x] = <<>>
      BY <1>1, <2>1 DEF Family
    <3> QED BY <3>3, <3>4, NoQueue DEF Children
  <2> QED BY <2>4, <2>5
<1>5. x \in Ready \cup blocked \cup {current_process}
  BY <1>1, <1>3, <1>4 DEF Places
<1>6. x \notin Stack("ssi")
  BY <1>3 DEF Dying, Stack, Actor
<1> QED BY <1>2, <1>5, <1>6

LEMMA SendsOrderly ==
    ASSUME Liberty = {}, Orderly, Base', NEW p \in Pcb, NEW to, Sends(p, to)
    PROVE  Orderly'
<1> DEFINE S == ssi_pcb_real
           dest == Destination(p, to)
           m == MessageOf(p, Data)
<1>1. /\ Base /\ Places /\ Unready /\ Waiting /\ Staged /\ TypeOK /\ S \in Pcb /\ S \notin User
      /\ p \in User /\ NULL \notin Pcb
  BY Names DEF Orderly, Base, User, Sends, Client
<1>2. /\ call[p] = NoCall /\ (dest # NULL => MaySend(p, dest))
      /\ EndsCall(dest, p) /\ SysSend(p, to, Data) /\ UNCHANGED <<listVars, busy, ssi, frame>>
  BY DEF Sends, clientKeeps
<1>3. /\ cpu = "run" /\ current_process = p /\ cpu' = "run" /\ current_process' = p
      /\ UNCHANGED <<procVars, reg_a1>>
      /\ \/ ~isPcbValid(dest) /\ UNCHANGED <<msgVars, ready_queue>>
         \/ isPcbValid(dest) /\ Sent(dest, m, ready_queue')
  BY <1>1, <1>2, Loads, SysSendEffect
<1>4. /\ UNCHANGED <<pcbFree, p_parent, p_child>> /\ UnderConstruction' = UnderConstruction
      /\ cpu # "kernel" /\ cpu' # "kernel"
      /\ Once(pcb_blocked_on_clock') /\ \A d \in Device : Once(pcb_blocked_on_device'[d])
      /\ \A x : At("device", x)' <=> At("device", x)
  BY <1>1, <1>2, <1>3 DEF procVars, listVars, UnderConstruction, Staged, At
<1>5. dest # S
  BY <1>1, SendsApart
<1>6. m \in Message /\ \A x \in User : m \notin From(SSI_FAKE_ADDR)
  BY <1>1, Names, Loads DEF MessageOf, Message, From, User
<1>7. m.sender = p
  BY <1>1, Names DEF MessageOf
<1>8. CASE ~isPcbValid(dest)
  <2>1. call' = call /\ UNCHANGED <<msgVars, ready_queue>>
    BY <1>2, <1>3, <1>8 DEF EndsCall
  <2>2. Places' /\ Unready' /\ Asker' = Asker
    BY <1>1, <1>2, <1>3, <1>4, <2>1, SamePlaces DEF msgVars, Asker
  <2>3. Waiting'
    BY <1>1, <1>3, <1>4, <2>1, WaitsOn DEF Waiting, msgVars
  <2>4. \A x \in User : Requested(x)' = Requested(x) /\ Replied(x)' = Replied(x)
    BY <2>1 DEF Requested, Replied, From, msgVars
  <2>5. \A x \in User : OneStage(x)'
    BY <1>1, <1>2, <1>4, <2>1, <2>4, CalmStage DEF Staged, OneStage, msgVars
  <2>6. \A x \in User : CallRoots(x)' = CallRoots(x)
    <3>1. \A x \in User : Pending(x)' <=> Pending(x)
      BY <1>2, <2>2, <2>4 DEF Pending, At, BeingServed
    <3> QED BY <2>1, <3>1, CallRootsKept
  <2> QED BY <1>1, <1>2, <1>3, <1>4, <2>1, <2>2, <2>3, <2>5, <2>6, CalmOrderly DEF msgVars
<1>9. CASE isPcbValid(dest)
  <2>0. PICK r : r = ready_queue'
    OBVIOUS
  <2>1. /\ dest \in Live /\ dest \in Pcb /\ Sent(dest, m, r)
        /\ dest \in Children(p) \cup {p_parent[p]} /\ ~Ending(dest)
    BY <1>1, <1>2, <1>3, <1>9, <2>0 DEF isPcbValid, Live, MaySend
  <2>2. /\ ~Condemned(dest) /\ dest \notin Stack("ssi")
        /\ dest \in Ready \cup blocked \cup {current_process}
    BY <1>1, <1>2, <1>3, <2>1, RelativePlaced
  <2>3. dest \in blocked \/ ~Wakeable(dest, m)
    BY <2>2 DEF Wakeable
  <2> HIDE DEF dest, m
  <2>4. /\ Once(r) /\ current_process \notin ToSet(r)
        /\ \E W \in SUBSET blocked : WokenBy(W, dest, m, r)
    BY <1>1, <2>1, <2>3, SentPlaces
  <2>5. PICK W \in SUBSET blocked : WokenBy(W, dest, m, r)
    BY <2>4
  <2>6. W \subseteq {dest} /\ blocked' = blocked \ W /\ Ready' = Ready \cup W
    BY <2>0, <2>5 DEF WokenBy, Ready
  <2>7. Places' /\ Unready'
    <3>1. W \cap Stack("ssi") = {} /\ {} \in SUBSET Pcb /\ blocked' = (blocked \ W) \cup {}
      BY <2>2, <2>6
    <3>2. \A x \in Pcb : x \in Ready' \/ x = current_process' <=>
             (x \in Ready \/ x = current_process \/ x \in W) /\ x \notin {}
      BY <1>3, <2>6
    <3>3. Once(ready_queue') /\ current_process' \notin Ready'
      BY <1>3, <2>0, <2>4 DEF Ready
    <3> QED BY <1>1, <1>2, <1>4, <3>1, <3>2, <3>3, CalmPlaces
  <2>8. /\ \A x \in Pcb : x # dest => call'[x] = call[x]
        /\ dest \notin W => call' = call
        /\ dest \in W => dest \in blocked /\ call[dest] = Receiving /\ call'[dest] = NoCall
    <3>1. Delivers(dest, p) <=> msgFree > 0 /\ Wakeable(dest, m)
      BY <1>7 DEF Delivers, Wakes, is_waiting_for_me, Wakeable, MessageOf, m
    <3>2. dest \in W <=> Handed(dest, m, r)
      BY <2>5 DEF WokenBy
    <3>3. Handed(dest, m, r) <=> Delivers(dest, p)
      BY <2>1, <3>1 DEF Sent, Handed, Queued, Dropped, Base, TypeOK
    <3>4. call' = IF Delivers(dest, p) THEN [call EXCEPT ![dest] = NoCall] ELSE call
      BY <1>2, <1>9 DEF EndsCall, dest
    <3>5. call \in [Pcb -> Request \cup {NoCall, Receiving}]
      BY <1>1 DEF Base, ServiceTypes
    <3>6. dest \in W => dest \in blocked /\ call[dest] = Receiving
      <4>1. SUFFICES ASSUME dest \in W PROVE dest \in blocked /\ call[dest] = Receiving
        OBVIOUS
      <4>2. dest \in blocked /\ dest # S /\ reg_a1[dest] \in {p, ANYMESSAGE}
        BY <1>5, <1>7, <3>1, <3>2, <3>3, <4>1 DEF Wakeable, dest
      <4>3. reg_a1[dest] # SSI_FAKE_ADDR
        BY <1>1, <4>2, Names DEF User
      <4> QED BY <1>1, <2>1, <4>2, <4>3 DEF Waiting, WaitsFor
    <3> QED BY <2>1, <3>2, <3>3, <3>4, <3>5, <3>6
  <2>9. Waiting'
    <3>1. ASSUME NEW x \in Pcb, x \notin W  PROVE WaitsFor(x)'
      <4>1. call'[x] = call[x] /\ (x \in blocked' <=> x \in blocked)
        BY <2>6, <2>8, <3>1
      <4> QED BY <1>1, <1>3, <1>4, <4>1, WaitsOn DEF Waiting
    <3>2. ASSUME NEW x \in W  PROVE WaitsFor(x)'
      <4>1. call'[x] = NoCall /\ x \notin blocked'
        BY <2>6, <2>8, <3>2
      <4> QED BY <4>1, CallOps DEF WaitsFor
    <3> QED BY <3>1, <3>2 DEF Waiting
  <2>10. received'[S] = received[S] /\ Asker' = Asker
    <3>1. dest # S
      BY <1>5 DEF dest
    <3>2. received'[S] = received[S]
      BY <1>1, <2>1, <3>1 DEF Sent, Handed, Queued, Dropped, msgVars, TypeOK
    <3> QED BY <3>2 DEF Asker
  <2>11. ASSUME NEW x \in User
         PROVE  /\ Requested(x)' = Requested(x) /\ AtMostOne(msg_inbox'[S], From(x))
                /\ Replied(x)' = Replied(x) /\ AtMostOne(msg_inbox'[x], From(SSI_FAKE_ADDR))
    <3>1. x \in Pcb /\ OneStage(x) /\ S # dest /\ m \notin From(SSI_FAKE_ADDR) /\ m \in Message
      BY <1>1, <1>5, <1>6 DEF User, Staged, dest, m
    <3>2. /\ Among(msg_inbox'[S], From(x)) = Among(msg_inbox[S], From(x))
          /\ AtMostOne(msg_inbox'[S], From(x))
      BY <1>1, <2>1, <3>1, SentInbox DEF OneStage
    <3>3. /\ Among(msg_inbox'[x], From(SSI_FAKE_ADDR)) = Among(msg_inbox[x], From(SSI_FAKE_ADDR))
          /\ AtMostOne(msg_inbox'[x], From(SSI_FAKE_ADDR))
      BY <1>1, <2>1, <3>1, SentInbox DEF OneStage
    <3> QED BY <3>2, <3>3 DEF Requested, Replied, From
  <2>12. \A x \in User : call'[x] = call[x] \/ (x \in Live /\ \A s \in Stage : ~At(s, x))
    <3>1. ASSUME dest \in W, dest \in User  PROVE \A s \in Stage : ~At(s, dest)
      BY <1>1, <2>1, <2>8, <3>1, CallOps, NoStage
    <3> QED BY <2>1, <2>8, <3>1 DEF User
  <2>13. \A x \in User : OneStage(x)'
    <3>1. ASSUME NEW x \in User  PROVE OneStage(x)'
      BY <1>1, <1>2, <1>4, <2>10, <2>11, <2>12, CalmStage DEF Staged
    <3> QED BY <3>1
  <2>14. \A x \in User : CallRoots(x)' = CallRoots(x) /\ (CallRoots(x) # {} => call'[x] = call[x])
    <3>1. ASSUME NEW x \in User
          PROVE  (Pending(x)' <=> Pending(x)) /\ (Pending(x) => call'[x] = call[x])
      <4>1. Pending(x)' <=> Pending(x)
        BY <1>2, <2>10, <2>11 DEF Pending, At, BeingServed
      <4>2. Pending(x) => \E s \in Stage : At(s, x)
        BY DEF Pending, At, Stage
      <4> QED BY <2>12, <4>1, <4>2
    <3>2. \A x : CallRoots(x) # {} => Pending(x)
      BY DEF CallRoots
    <3> QED BY <3>1, <3>2, CallRootsKept
  <2>15. Stack("ssi") = {} \/ call'[Asker] = call[Asker]
    <3>1. SUFFICES ASSUME Stack("ssi") # {} PROVE call'[Asker] = call[Asker]
      OBVIOUS
    <3>2. ssi.pc = "terminate"
      BY <1>1, <3>1, SsiAtWork
    <3>3. Asker \in User
      BY <1>1, <3>1, SsiAtWork
    <3>4. At("served", Asker) /\ "served" \in Stage
      BY <3>2 DEF At, BeingServed, Stage
    <3> QED BY <2>12, <3>3, <3>4
  <2>16. \A x \in Pcb : Condemned(x) => call'[x] = call[x] /\ (x \in blocked => x \in blocked')
    BY <2>2, <2>6, <2>8
  <2> QED BY <1>1, <1>2, <1>4, <2>7, <2>9, <2>10, <2>13, <2>14, <2>15, <2>16, CalmOrderly
<1> QED BY <1>8, <1>9
-----------------------------------------------------------------------------
(* Requests.                                                               *)

(* A request or a trap of p dooms r and what hangs from it.                *)
LEMMA NewDoom ==
    ASSUME NEW doom \in [Pcb -> Pcb \cup {NULL}], Doomed(doom), p_child' = p_child, pcbFree' = pcbFree,
           \A y \in Pcb : Children(y) \subseteq Pcb,
           NEW p \in User, NEW r \in Pcb, Roots(p) = {}, Roots(p)' = {r},
           \A q \in User \ {p} : Roots(q)' = Roots(q),
           \A x \in {r} \cup Progeny(r) :
              doom[x] = NULL /\ x \in Live /\ x # ssi_pcb_real /\ Meek(x, p)',
           \A x \in Pcb : doom[x] # NULL => Meek(x, doom[x])'
    PROVE  \E new \in [Pcb -> Pcb \cup {NULL}] : Doomed(new)'
<1>1. PICK A : A = {r} \cup Progeny(r)
  OBVIOUS
<1>2. /\ A \subseteq Pcb /\ r \in A /\ \A x \in A : Children(x) \subseteq A
      /\ \A T \in SUBSET Pcb : r \in T /\ Closed(T) => A \subseteq T
  <2>1. /\ Progeny(r) \subseteq Pcb
        /\ \A x \in Progeny(r) \cup {r} : Children(x) \subseteq Progeny(r)
        /\ \A T \in SUBSET Pcb : (\A x \in T \cup {r} : Children(x) \subseteq T) => Progeny(r) \subseteq T
    BY ProgenyCloses
  <2>2. ASSUME NEW T \in SUBSET Pcb, r \in T, Closed(T)  PROVE A \subseteq T
    <3>1. \A x \in T \cup {r} : Children(x) \subseteq T
      BY <2>2 DEF Closed
    <3> QED BY <1>1, <2>1, <2>2, <3>1
  <2> QED BY <1>1, <2>1, <2>2
<1>3. PICK new : new = [x \in Pcb |-> IF x \in A THEN p ELSE doom[x]]
  OBVIOUS
<1>4. /\ \A x \in Pcb : x \in A => new[x] = p
      /\ \A x \in Pcb : x \notin A => new[x] = doom[x]
      /\ p \in Pcb /\ p # NULL
      /\ \A x : ToSet(p_child'[x]) = Children(x)
      /\ \A T : Closed(T)' <=> Closed(T)
      /\ Live' = Live
  BY <1>3, Names DEF User, Children, Closed, Live
<1>5. \A x \in A : doom[x] = NULL /\ x \in Live /\ x # ssi_pcb_real /\ Meek(x, p)'
  BY <1>1
<1>6. \A q \in User : \A x \in Roots(q)' : x \in Pcb /\ new[x] = q
  <2>1. ASSUME NEW q \in User \ {p}, NEW x \in Roots(q)  PROVE x \in Pcb /\ new[x] = q
    <3>1. x \in Pcb /\ doom[x] = q /\ q # NULL
      BY <2>1, Names DEF Doomed, User
    <3> QED BY <1>4, <1>5, <3>1
  <2>2. new[r] = p
    BY <1>2, <1>4
  <2> QED BY <2>1, <2>2
<1>7. \A x \in Pcb : \A y \in ToSet(p_child'[x]) : new[x] # NULL => new[y] = new[x]
  <2>1. ASSUME NEW x \in Pcb, NEW y \in Children(x), new[x] # NULL  PROVE new[y] = new[x]
    <3>1. y \in Pcb
      BY <2>1
    <3>2. CASE x \in A
      BY <1>2, <1>4, <2>1, <3>1, <3>2
    <3>3. CASE x \notin A
      <4>1. doom[y] = doom[x] /\ doom[x] # NULL
        BY <1>4, <2>1, <3>3 DEF Doomed
      <4> QED BY <1>4, <1>5, <3>1, <3>3, <4>1
    <3> QED BY <3>2, <3>3
  <2> QED BY <1>4, <2>1
<1>8. ASSUME NEW x \in Pcb, new[x] # NULL
      PROVE  /\ new[x] \in User /\ x \in Live' /\ x # ssi_pcb_real
             /\ \A T \in SUBSET Pcb : Roots(new[x])' \subseteq T /\ Closed(T)' => x \in T
             /\ Meek(x, new[x])'
  <2>1. CASE x \in A
    <3>1. new[x] = p
      BY <1>4, <2>1
    <3>2. \A T \in SUBSET Pcb : Roots(p)' \subseteq T /\ Closed(T)' => x \in T
      BY <1>2, <1>4, <2>1
    <3> QED BY <1>4, <1>5, <2>1, <3>1, <3>2
  <2>2. CASE x \notin A
    <3>1. new[x] = doom[x] /\ doom[x] # NULL
      BY <1>4, <1>8, <2>2
    <3>2. doom[x] # p
      BY <1>4, <3>1, NoRootsNoDoom
    <3>3. PICK d : d = doom[x]
      OBVIOUS
    <3>4. d \in User /\ x \in Live /\ x # ssi_pcb_real /\ Meek(x, d)'
          /\ \A T \in SUBSET Pcb : Roots(d) \subseteq T /\ Closed(T) => x \in T
      BY <3>1, <3>3 DEF Doomed
    <3>5. Roots(d)' = Roots(d)
      BY <3>2, <3>3, <3>4
    <3> QED BY <1>4, <3>1, <3>3, <3>4, <3>5
  <2> QED BY <2>1, <2>2
<1>9. new \in [Pcb -> Pcb \cup {NULL}]
  BY <1>3, <1>4
<1>10. Doomed(new)'
  BY <1>6, <1>7, <1>8 DEF Doomed, Children
<1> QED BY <1>9, <1>10

(* A process at rest and its progeny can be doomed.                        *)
LEMMA RestFree ==
    ASSUME Orderly, NEW doom, Doomed(doom), NEW p \in User, cpu = "run", current_process = p,
           call[p] = NoCall, NEW q \in Children(p), AtRest(q)
    PROVE  \A x \in {q} \cup Progeny(q) :
              /\ x \in Pcb /\ doom[x] = NULL /\ AtPeace(x) /\ x \in Live /\ x # ssi_pcb_real
              /\ x # p
<1>1. Base /\ Places /\ Family /\ Stacks /\ p \in Pcb
  BY DEF Orderly, User
<1>2. \A x \in Pcb : Children(x) \subseteq Pcb
  BY <1>1, ChildrenArePcbs
<1>3. q \in Pcb /\ Progeny(q) \subseteq Pcb
  BY <1>1, <1>2, ProgenyCloses
<1>4. ASSUME NEW x \in {q} \cup Progeny(q)
      PROVE  /\ x \in Pcb /\ AtPeace(x) /\ x \in Live /\ x # ssi_pcb_real /\ x # p
             /\ ~Ending(x) /\ call[x].op # "TERM"
  <2>1. x \in blocked /\ call[x] = Receiving
    BY DEF AtRest
  <2>2. x \in Live /\ x # p
    BY <1>1, <2>1 DEF Places
  <2>3. x # ssi_pcb_real
    BY <1>1, <2>1, CallOps DEF Base, SsiApart
  <2> QED BY <1>3, <2>1, <2>2, <2>3, CallOps DEF AtPeace, SsiOp
<1>5. doom[q] = NULL
  BY <1>1, <1>3, <1>4, FreeRelative
<1>6. \A x \in Progeny(q) : doom[x] = NULL
  <2>1. cpu # "kernel"
    OBVIOUS
  <2> QED BY <1>1, <1>3, <1>4, <1>5, <2>1, FreeProgeny
<1> QED BY <1>4, <1>5, <1>6

LEMMA DieFree ==
    ASSUME Orderly, NEW doom, Doomed(doom), NEW p \in User, cpu = "run", current_process = p,
           call[p] = NoCall, MayDie(p)
    PROVE  \A x \in Progeny(p) :
              /\ x \in Pcb /\ doom[x] = NULL /\ AtPeace(x) /\ x \in Live /\ x # ssi_pcb_real
              /\ x # p
<1>1. ASSUME NEW x \in Progeny(p)
      PROVE  \E q \in Children(p) : x \in {q} \cup Progeny(q) /\ AtRest(q)
  <2>1. p \in Pcb /\ \A y \in Pcb : Children(y) \subseteq Pcb
    BY ChildrenArePcbs DEF Orderly, User
  <2> QED BY <2>1, ProgenySplits DEF MayDie
<1> QED BY <1>1, RestFree

(* Whom a request terminates.                                              *)
LEMMA RequestRoots ==
    ASSUME Base, Liberty = {}, NEW p \in User, NEW req, MayRequest(p, req), call'[p] = req
    PROVE  \/ CallRoots(p)' = {}
           \/ CallRoots(p)' = {p} /\ Ending(p)' /\ MayDie(p)
           \/ \E q \in Children(p) : CallRoots(p)' = {q} /\ AtRest(q)
<1> SUFFICES ASSUME Pending(p)' PROVE \/ CallRoots(p)' = {}
                                      \/ CallRoots(p)' = {p} /\ Ending(p)' /\ MayDie(p)
                                      \/ \E q \in Children(p) : CallRoots(p)' = {q} /\ AtRest(q)
  BY DEF CallRoots
<1>1. CallRoots(p)' = IF Ending(p)' THEN {p} ELSE IF req.op = "TERM" THEN {req.arg} \cap Pcb ELSE {}
  BY DEF CallRoots
<1>2. Ending(p)' <=> req.op = "BAD" \/ (req.op = "TERM" /\ req.arg = NULL)
  BY DEF Ending
<1>3. CASE req.op \in {"CREATE", "CLOCKWAIT", "GETTIME"} \/ req.op = "DOIO"
  BY <1>1, <1>2, <1>3
<1>4. CASE (req.op = "TERM" /\ req.arg = NULL /\ MayDie(p)) \/ (req.op = "BAD" /\ MayDie(p))
  BY <1>1, <1>2, <1>4
<1>5. CASE req.op = "TERM" /\ req.arg = SSI_FAKE_ADDR
  BY <1>1, <1>2, <1>5, Names
<1>6. CASE req.op = "TERM" /\ MayTerminate(p, req.arg)
  <2>1. req.arg \in Children(p) /\ AtRest(req.arg)
    BY <1>6 DEF MayTerminate
  <2>2. req.arg \in Pcb /\ req.arg # NULL
    BY <2>1, ChildrenArePcbs, Names DEF User
  <2>3. CallRoots(p)' = {req.arg}
    BY <1>1, <1>2, <1>6, <2>2
  <2> QED BY <2>1, <2>3
<1> QED BY <1>3, <1>4, <1>5, <1>6 DEF MayRequest

LEMMA MeekKept ==
    ASSUME NEW x, NEW q, Meek(x, q), cpu # "kernel", call'[x] = call[x],
           x \in blocked => x \in blocked'
    PROVE  Meek(x, q)'
BY DEF Meek, Trapped, AtPeace, Ending

LEMMA RequestsOrderly ==
    ASSUME Liberty = {}, Orderly, Base', NEW p \in Pcb,
           NEW req \in [op : Services \cap SsiOp, arg : Address \cup Device], Requests(p, req)
    PROVE  Orderly'
<1> DEFINE S == ssi_pcb_real
           m == MessageOf(p, req)
<1>1. /\ Base /\ Places /\ Unready /\ Family /\ Stacks /\ Waiting /\ Staged /\ TypeOK
      /\ S \in Pcb /\ S \notin User /\ S \in Live /\ p \in User /\ NULL \notin Pcb
  BY Names DEF Orderly, Base, User, Requests, Client, CpuWorks
<1>2. /\ call[p] = NoCall /\ MayRequest(p, req) /\ SysSend(p, SSI_FAKE_ADDR, req)
      /\ call' = [call EXCEPT ![p] = req] /\ UNCHANGED <<listVars, busy, ssi, frame>>
  BY DEF Requests, clientKeeps
<1>3. req \in Request /\ req.op \in SsiOp /\ req # NoCall /\ req # Receiving
  BY CallOps DEF Request
<1>4. /\ cpu = "run" /\ current_process = p /\ cpu' = "run" /\ current_process' = p
      /\ UNCHANGED <<procVars, reg_a1>> /\ Sent(S, m, ready_queue')
  <2>1. Destination(p, SSI_FAKE_ADDR) = S
    BY Names DEF Destination
  <2>2. isPcbValid(S)
    BY <1>1 DEF isPcbValid
  <2> QED BY <1>1, <1>2, <1>3, <2>1, <2>2, Loads, SysSendEffect
<1>5. /\ m \in Message /\ m.sender = p /\ m.payload = req /\ m \in From(p)
      /\ m \notin From(SSI_FAKE_ADDR) /\ \A x \in User : x # p => m \notin From(x)
  BY <1>1, <1>3, Names, Loads DEF MessageOf, Message, From, User
<1> HIDE DEF m
<1>6. /\ UNCHANGED <<pcbFree, p_parent, p_child>> /\ UnderConstruction' = UnderConstruction
      /\ cpu # "kernel" /\ cpu' # "kernel" /\ Live' = Live
      /\ Once(pcb_blocked_on_clock') /\ \A d \in Device : Once(pcb_blocked_on_device'[d])
      /\ \A x : At("device", x)' <=> At("device", x)
      /\ \A x : At("clock", x)' <=> At("clock", x)
  BY <1>1, <1>2, <1>4 DEF procVars, listVars, UnderConstruction, Staged, At, Live
<1>7. /\ p \in Live /\ p \notin UnderConstruction /\ p \notin blocked /\ p # S
      /\ \A s \in Stage : ~At(s, p)
  <2>1. p \in Live /\ p \notin UnderConstruction /\ p \notin blocked
    BY <1>1, <1>4 DEF Places
  <2> QED BY <1>1, <1>2, <2>1, CallOps, NoStage
<1>8. /\ \A x \in Pcb : x # p => call'[x] = call[x]
      /\ call'[p] = req
  BY <1>1, <1>2 DEF Base, ServiceTypes
<1>9. PICK r : r = ready_queue'
  OBVIOUS
<1>10. /\ Once(r) /\ current_process \notin ToSet(r)
       /\ \E W \in SUBSET blocked : WokenBy(W, S, m, r)
  BY <1>1, <1>4, <1>9, SsiWoken, SentPlaces
<1>11. PICK W \in SUBSET blocked : WokenBy(W, S, m, r)
  BY <1>10
<1>12. W \subseteq {S} /\ blocked' = blocked \ W /\ Ready' = Ready \cup W
  BY <1>9, <1>11 DEF WokenBy, Ready
<1>13. Places' /\ Unready'
  <2>1. W \cap Stack("ssi") = {} /\ {} \in SUBSET Pcb /\ blocked' = (blocked \ W) \cup {}
    BY <1>1, <1>12 DEF Base, Frames, Stack, Actor
  <2>2. \A x \in Pcb : x \in Ready' \/ x = current_process' <=>
           (x \in Ready \/ x = current_process \/ x \in W) /\ x \notin {}
    BY <1>4, <1>12
  <2>3. Once(ready_queue') /\ current_process' \notin Ready'
    BY <1>4, <1>9, <1>10 DEF Ready
  <2> QED BY <1>1, <1>2, <1>6, <2>1, <2>2, <2>3, CalmPlaces
<1>14. Waiting'
  <2>1. ASSUME NEW x \in Pcb, x # p, x # S  PROVE WaitsFor(x)'
    <3>1. x \in blocked' <=> x \in blocked
      BY <1>12, <2>1
    <3> QED BY <1>1, <1>4, <1>6, <1>8, <2>1, <3>1, WaitsOn DEF Waiting
  <2>2. WaitsFor(S)'
    <3>1. call'[S] = NoCall
      BY <1>1, <1>7, <1>8 DEF Base, SsiApart
    <3> QED BY <3>1, CallOps DEF WaitsFor
  <2>3. WaitsFor(p)'
    BY <1>3, <1>6, <1>7, <1>8, <1>12 DEF WaitsFor
  <2> QED BY <2>1, <2>2, <2>3 DEF Waiting
<1>15. ASSUME NEW x \in User
       PROVE  Replied(x)' = Replied(x) /\ AtMostOne(msg_inbox'[x], From(SSI_FAKE_ADDR))
  <2>1. x \in Pcb /\ OneStage(x)
    BY <1>1 DEF User, Staged
  <2>2. /\ Among(msg_inbox'[x], From(SSI_FAKE_ADDR)) = Among(msg_inbox[x], From(SSI_FAKE_ADDR))
        /\ AtMostOne(msg_inbox'[x], From(SSI_FAKE_ADDR))
    BY <1>1, <1>4, <1>5, <2>1, SentInbox DEF OneStage
  <2> QED BY <2>2 DEF Replied, From
<1>16. ASSUME NEW x \in User, x # p
       PROVE  Requested(x)' = Requested(x) /\ AtMostOne(msg_inbox'[S], From(x))
  <2>1. x \in Pcb /\ OneStage(x)
    BY <1>1 DEF User, Staged
  <2>2. /\ Among(msg_inbox'[S], From(x)) = Among(msg_inbox[S], From(x))
        /\ AtMostOne(msg_inbox'[S], From(x))
    BY <1>1, <1>4, <1>5, <1>16, <2>1, SentInbox DEF OneStage
  <2> QED BY <2>2 DEF Requested, From
<1>17. /\ Handed(S, m, r) => /\ Asker' = p /\ Asked' = req /\ ssi.pc = "dispatch" /\ Asker = NULL
                             /\ Stack("ssi") = {} /\ msg_inbox' = msg_inbox
       /\ ~Handed(S, m, r) => Asker' = Asker /\ Asked' = Asked
  <2>1. ASSUME Handed(S, m, r)
        PROVE  /\ Asker' = p /\ Asked' = req /\ ssi.pc = "dispatch" /\ Asker = NULL
               /\ Stack("ssi") = {} /\ msg_inbox' = msg_inbox
    <3>1. received'[S] = m /\ Wakeable(S, m) /\ msg_inbox' = msg_inbox
      BY <1>1, <2>1 DEF Handed, TypeOK
    <3> QED BY <1>1, <1>5, <3>1, SsiWoken DEF Asker, Asked
  <2>2. ASSUME ~Handed(S, m, r)  PROVE received' = received
    BY <1>4, <1>9, <2>2 DEF Sent, Queued, Dropped, msgVars
  <2> QED BY <2>1, <2>2 DEF Asker, Asked
<1>18. ASSUME NEW x \in User, x # p
       PROVE  OneStage(x)' /\ (Pending(x)' <=> Pending(x)) /\ CallRoots(x)' = CallRoots(x)
  <2>1. OneStage(x) /\ x \in Pcb
    BY <1>1 DEF Staged, User
  <2>2. BeingServed(x)' <=> BeingServed(x)
    BY <1>1, <1>2, <1>17, <1>18 DEF BeingServed, User
  <2>3. BeingAnswered(x)' <=> BeingAnswered(x)
    BY <1>2 DEF BeingAnswered
  <2>4. Asked' = Asked \/ (~BeingServed(x) /\ ~BeingAnswered(x))
    BY <1>1, <1>17 DEF BeingServed, BeingAnswered, User
  <2>5. BeingServed(x) => x \in Live \/ ssi.pc = "terminate"
    BY <1>1, ServedCalls
  <2>6. OneStage(x)'
    BY <1>2, <1>6, <1>8, <1>15, <1>16, <1>18, <2>1, <2>2, <2>3, <2>4, <2>5, StageKept DEF listVars
  <2>7. Pending(x)' <=> Pending(x)
    BY <1>2, <1>16, <1>18, <2>2 DEF Pending, At
  <2> QED BY <1>8, <1>18, <2>1, <2>6, <2>7, CallRootsKept
<1>19. OneStage(p)'
  <2>1. Requested(p) = {} /\ Replied(p) = {} /\ ~BeingServed(p) /\ ~BeingAnswered(p)
    BY <1>7 DEF At, Stage
  <2>2. OneStage(p)
    BY <1>1 DEF Staged
  <2>3. ~At("device", p)' /\ ~At("clock", p)' /\ ~At("answer", p)' /\ ~At("answered", p)'
        /\ AtMostOne(msg_inbox'[p], From(SSI_FAKE_ADDR))
    <3>1. ~BeingAnswered(p)'
      BY <1>2, <2>1 DEF BeingAnswered
    <3> QED BY <1>1, <1>6, <1>7, <1>15, <2>1, <3>1 DEF At, Stage
  <2>4. AtMostOne(msg_inbox'[S], From(p))
    <3>1. Among(msg_inbox[S], From(p)) = {} /\ AtMostOne(msg_inbox[S], From(p))
      BY <2>1, <2>2 DEF Requested, OneStage
    <3> QED BY <1>1, <1>4, <1>5, <3>1, SentInbox
  <2>5. CASE Handed(S, m, r)
    <3>1. ~At("inbox", p)'
      BY <1>17, <2>1, <2>5 DEF At, Requested, From
    <3>2. StagedAt("served", p)'
      BY <1>6, <1>7, <1>8, <1>17, <2>5 DEF StagedAt
    <3>3. \A s \in Stage : At(s, p)' => s = "served"
      BY <2>3, <3>1 DEF Stage
    <3> QED BY <2>3, <2>4, <3>2, <3>3, NewStage DEF Stage
  <2>6. CASE ~Handed(S, m, r)
    <3>1. ~BeingServed(p)'
      BY <1>2, <1>17, <2>1, <2>6 DEF BeingServed
    <3>2. \A s \in Stage : At(s, p)' => s = "inbox"
      BY <2>3, <3>1 DEF Stage, At
    <3>3. Requested(p)' \subseteq {m}
      <4>1. Among(msg_inbox[S], From(p)) = {}
        BY <2>1 DEF Requested
      <4>2. Among(msg_inbox'[S], From(p)) \subseteq {m}
        BY <1>1, <1>4, <1>5, <4>1, SentInbox
      <4> QED BY <4>2 DEF Requested, From
    <3>4. StagedAt("inbox", p)'
      BY <1>5, <1>6, <1>7, <1>8, <3>3 DEF StagedAt
    <3> QED BY <2>3, <2>4, <3>2, <3>4, NewStage DEF Stage
  <2> QED BY <2>5, <2>6
<1>20. Stack("ssi") = {} \/ (Asker' = Asker /\ call'[Asker] = call[Asker] /\ Asker # p)
  <2>1. SUFFICES ASSUME Stack("ssi") # {}
                 PROVE  Asker' = Asker /\ call'[Asker] = call[Asker] /\ Asker # p
    OBVIOUS
  <2>2. Asker \in User /\ BeingServed(Asker)
    BY <1>1, <2>1, SsiAtWork
  <2>3. Asker # p
    BY <1>7, <2>2 DEF At, Stage
  <2> QED BY <1>8, <1>17, <2>1, <2>2, <2>3 DEF User
<1>21. PICK doom \in [Pcb -> Pcb \cup {NULL}] : Doomed(doom)
  BY DEF Orderly
<1>22. \A x \in Pcb : doom[x] # NULL =>
          call'[x] = call[x] /\ (x \in blocked => x \in blocked') /\ Meek(x, doom[x])'
  <2>1. ASSUME NEW x \in Pcb, doom[x] # NULL
        PROVE  call'[x] = call[x] /\ (x \in blocked => x \in blocked')
    <3>1. doom[p] = NULL
      BY <1>1, <1>2, <1>4, <1>21, FreeClient
    <3>2. x # p /\ x # S
      BY <1>21, <2>1, <3>1 DEF Doomed
    <3> QED BY <1>8, <1>12, <2>1, <3>2
  <2>2. \A x \in Pcb : doom[x] # NULL => Meek(x, doom[x])
    BY <1>21 DEF Doomed
  <2> QED BY <1>6, <2>1, <2>2, MeekKept
<1>23. /\ CallRoots(p) = {} /\ SsiRoots(p) = {} /\ Roots(p) = {}
       /\ SsiRoots(p)' = {} /\ \A x : NucleusRoots(x) = {} /\ NucleusRoots(x)' = {}
  <2>1. ~Pending(p) /\ ~BeingServed(p)
    BY <1>7 DEF Pending, At, Stage
  <2>2. SsiRoots(p) = {} /\ CallRoots(p) = {}
    BY <2>1 DEF SsiRoots, CallRoots, BeingServed
  <2>3. SsiRoots(p)' = {}
    BY <1>2, <1>20, <2>2 DEF SsiRoots, Stack
  <2>4. \A x : NucleusRoots(x) = {} /\ NucleusRoots(x)' = {}
    BY <1>6 DEF NucleusRoots, Trapped
  <2> QED BY <2>2, <2>3, <2>4 DEF Roots
<1>24. Family' /\ Staged'
  <2>1. Family'
    <3>1. ssi.pc \in {"insertChild", "insertReady"} => Asker' = Asker
      BY <1>17
    <3> QED BY <1>1, <1>2, <1>6, <3>1, CalmFamily
  <2>2. Staged'
    BY <1>6, <1>18, <1>19 DEF Staged, Trapped
  <2> QED BY <2>1, <2>2
<1>25. \A q \in User : q # p => Roots(q)' = Roots(q)
  <2>1. ASSUME NEW q \in User, q # p  PROVE SsiRoots(q)' = SsiRoots(q)
    BY <1>2, <1>20 DEF SsiRoots, Stack
  <2> QED BY <1>18, <1>23, <2>1 DEF Roots
<1>26. \A q \in User : q # p => \A x \in CallRoots(q)' : (x = q /\ Ending(q)') \/ x \in Children(q)
  <2>1. \A q \in User : q # p => CallRoots(q)' = CallRoots(q) /\ call'[q] = call[q]
    BY <1>8, <1>18 DEF User
  <2> QED BY <1>1, <2>1, CalmCallRoots
<1>27. Stacks' \/ \E x \in CallRoots(p)' : ~((x = p /\ Ending(p)') \/ x \in Children(p))
  BY <1>1, <1>2, <1>6, <1>20, <1>26, CalmStacks
<1>28. CASE CallRoots(p)' = {}
  <2>1. Stacks'
    BY <1>27, <1>28
  <2>2. Doomed(doom)'
    <3>1. \A q \in User : CallRoots(q)' = CallRoots(q)
      BY <1>18, <1>23, <1>28
    <3> QED BY <1>1, <1>2, <1>6, <1>20, <1>21, <1>22, <3>1, CalmDoom
  <2> QED BY <1>13, <1>14, <1>21, <1>24, <2>1, <2>2 DEF Orderly
<1>29. ASSUME NEW t \in Pcb, CallRoots(p)' = {t}, (t = p /\ Ending(p)') \/ t \in Children(p),
              \A x \in {t} \cup Progeny(t) :
                 doom[x] = NULL /\ x \in Live /\ x # S /\ Meek(x, p)'
       PROVE  Orderly'
  <2>1. Stacks'
    BY <1>27, <1>29
  <2>2. Roots(p)' = {t}
    BY <1>23, <1>29 DEF Roots
  <2>3. \A y \in Pcb : Children(y) \subseteq Pcb
    BY <1>1, ChildrenArePcbs
  <2>4. \E new \in [Pcb -> Pcb \cup {NULL}] : Doomed(new)'
    BY <1>1, <1>6, <1>21, <1>22, <1>23, <1>25, <1>29, <2>2, <2>3, NewDoom
  <2> QED BY <1>13, <1>14, <1>24, <2>1, <2>4 DEF Orderly
<1>30. \A x \in Pcb : AtPeace(x) /\ x # p /\ x # S => Meek(x, p)'
  <2>1. \A x \in Pcb : AtPeace(x) /\ x # p /\ x # S => AtPeace(x)'
    BY <1>8, <1>12 DEF AtPeace
  <2> QED BY <2>1 DEF Meek
<1>31. CASE CallRoots(p)' = {p} /\ Ending(p)' /\ MayDie(p)
  <2>1. doom[p] = NULL
    BY <1>1, <1>2, <1>4, <1>21, FreeClient
  <2>2. \A x \in Progeny(p) : /\ x \in Pcb /\ doom[x] = NULL /\ AtPeace(x) /\ x \in Live
                              /\ x # S /\ x # p
    BY <1>1, <1>2, <1>4, <1>21, <1>31, DieFree
  <2>3. Meek(p, p)'
    BY <1>31 DEF Meek
  <2>4. \A x \in {p} \cup Progeny(p) : doom[x] = NULL /\ x \in Live /\ x # S /\ Meek(x, p)'
    BY <1>7, <1>30, <2>1, <2>2, <2>3
  <2> QED BY <1>29, <1>31, <2>4
<1>32. ASSUME NEW q \in Children(p), CallRoots(p)' = {q}, AtRest(q)
       PROVE  Orderly'
  <2>1. \A x \in {q} \cup Progeny(q) : /\ x \in Pcb /\ doom[x] = NULL /\ AtPeace(x) /\ x \in Live
                                       /\ x # S /\ x # p
    BY <1>1, <1>2, <1>4, <1>21, <1>32, RestFree
  <2>2. \A x \in {q} \cup Progeny(q) : doom[x] = NULL /\ x \in Live /\ x # S /\ Meek(x, p)'
    BY <1>30, <2>1
  <2> QED BY <1>29, <1>32, <2>1, <2>2
<1>33. \/ CallRoots(p)' = {} \/ (CallRoots(p)' = {p} /\ Ending(p)' /\ MayDie(p))
       \/ \E q \in Children(p) : CallRoots(p)' = {q} /\ AtRest(q)
  BY <1>1, <1>2, <1>8, RequestRoots
<1> QED BY <1>28, <1>31, <1>32, <1>33
-----------------------------------------------------------------------------
(* Programs receive.                                                       *)

(* A program blocks, for the answer to its request or for any message.     *)
LEMMA UserSuspends ==
    ASSUME Orderly, Base', NEW p \in User, NEW src, Suspended(p, src), cpu = "run",
           current_process = p, UNCHANGED <<procVars, listVars, ssi, frame>>,
           \/ src = SSI_FAKE_ADDR /\ call' = call /\ call[p].op \in SsiOp
           \/ src = ANYMESSAGE /\ call[p] = NoCall /\ call' = [call EXCEPT ![p] = Receiving]
    PROVE  Orderly'
<1> DEFINE S == ssi_pcb_real
<1>1. /\ Base /\ Places /\ Unready /\ Waiting /\ Staged /\ TypeOK
      /\ S \in Pcb /\ S \notin User /\ p \in Pcb /\ p # S
  BY Names DEF Orderly, Base, User
<1>2. /\ UNCHANGED <<pcbFree, p_parent, p_child>> /\ UnderConstruction' = UnderConstruction
      /\ cpu # "kernel" /\ Live' = Live
      /\ Once(pcb_blocked_on_clock') /\ \A d \in Device : Once(pcb_blocked_on_device'[d])
      /\ \A x : At("device", x)' <=> At("device", x)
  BY <1>1 DEF procVars, listVars, UnderConstruction, Staged, At, Live
<1>3. Places' /\ Unready' /\ cpu' # "kernel"
  BY <1>1, <1>2, SuspendedPlaces
<1>4. /\ blocked' = blocked \cup {p} /\ reg_a1'[p] = src /\ msg_inbox' = msg_inbox
      /\ \A x \in Pcb : x # p => reg_a1'[x] = reg_a1[x] /\ received'[x] = received[x]
  BY <1>1 DEF Suspended, TypeOK
<1>5. /\ \A x \in Pcb : x # p => call'[x] = call[x]
      /\ call'[p] # call[p] => call[p] = NoCall
      /\ src = ANYMESSAGE => call'[p] = Receiving
      /\ src = SSI_FAKE_ADDR => call'[p].op \in SsiOp
  BY <1>1, Names DEF Base, ServiceTypes
<1>6. /\ p \in Live /\ p \notin UnderConstruction /\ p \notin blocked
      /\ call'[p] # call[p] => \A s \in Stage : ~At(s, p)
  <2>1. p \in Live /\ p \notin UnderConstruction /\ p \notin blocked
    BY <1>1 DEF Places
  <2> QED BY <1>1, <1>5, <2>1, CallOps, NoStage
<1>7. Waiting'
  <2>1. ASSUME NEW x \in Pcb, x # p  PROVE WaitsFor(x)'
    BY <1>1, <1>2, <1>4, <1>5, <2>1, WaitsOn DEF Waiting
  <2>2. WaitsFor(p)'
    BY <1>2, <1>4, <1>5, <1>6 DEF WaitsFor
  <2> QED BY <2>1, <2>2 DEF Waiting
<1>8. received'[S] = received[S] /\ Asker' = Asker
  BY <1>1, <1>4 DEF Asker
<1>9. \A x \in User : call'[x] = call[x] \/ \A s \in Stage : ~At(s, x)
  BY <1>5, <1>6 DEF User
<1>10. ASSUME NEW x \in User
       PROVE  OneStage(x)' /\ CallRoots(x)' = CallRoots(x) /\ (CallRoots(x) # {} => call'[x] = call[x])
  <2>1. OneStage(x) /\ Requested(x)' = Requested(x) /\ Replied(x)' = Replied(x)
    BY <1>1, <1>4 DEF Staged, Requested, Replied, From
  <2>2. OneStage(x)'
    BY <1>2, <1>4, <1>8, <1>9, <2>1, CalmStage DEF OneStage
  <2>3. Pending(x)' <=> Pending(x)
    BY <1>8, <2>1 DEF Pending, At, BeingServed
  <2>4. Pending(x) => call'[x] = call[x]
    BY <1>9 DEF Pending, At, Stage
  <2>5. CallRoots(x) # {} => Pending(x)
    BY DEF CallRoots
  <2> QED BY <2>2, <2>3, <2>4, <2>5, CallRootsKept
<1>11. Stack("ssi") = {} \/ call'[Asker] = call[Asker]
  <2>1. SUFFICES ASSUME Stack("ssi") # {} PROVE call'[Asker] = call[Asker]
    OBVIOUS
  <2>2. Asker \in User /\ BeingServed(Asker)
    BY <1>1, <2>1, SsiAtWork
  <2> QED BY <1>9, <2>2 DEF At, Stage
<1>12. \A x \in Pcb : Condemned(x) => call'[x] = call[x] /\ (x \in blocked => x \in blocked')
  <2>1. call'[p] # call[p] => ~Condemned(p)
    BY <1>1, <1>2, <1>5, <1>6, CondemnedWait, CallOps DEF AtPeace
  <2> QED BY <1>4, <1>5, <2>1
<1> QED BY <1>1, <1>2, <1>3, <1>7, <1>8, <1>10, <1>11, <1>12, CalmOrderly

(* A program finds a message, and has no request any more.                 *)
LEMMA UserPops ==
    ASSUME Orderly, Base', NEW p \in User, NEW src, NEW i \in DOMAIN msg_inbox[p], Popped(p, src, i),
           cpu = "run", current_process = p, UNCHANGED <<procVars, listVars, ssi, frame>>,
           call' = [call EXCEPT ![p] = NoCall],
           src = SSI_FAKE_ADDR \/ call[p] = NoCall
    PROVE  Orderly'
<1> DEFINE S == ssi_pcb_real
<1>1. /\ Base /\ Places /\ Unready /\ Waiting /\ Staged /\ TypeOK
      /\ S \in Pcb /\ S \notin User /\ p \in Pcb /\ p # S
  BY Names DEF Orderly, Base, User
<1>2. /\ UNCHANGED <<pcbFree, p_parent, p_child>> /\ UnderConstruction' = UnderConstruction
      /\ cpu # "kernel" /\ Live' = Live
      /\ Once(pcb_blocked_on_clock') /\ \A d \in Device : Once(pcb_blocked_on_device'[d])
      /\ \A x : At("device", x)' <=> At("device", x)
  BY <1>1 DEF procVars, listVars, UnderConstruction, Staged, At, Live
<1>3. /\ UNCHANGED <<blocked, reg_a1, ready_queue, current_process, cpu>>
      /\ Matches(msg_inbox[p][i], src)
      /\ msg_inbox'[p] = RemoveAt(msg_inbox[p], i) /\ msg_inbox[p] \in Seq(Message)
      /\ \A x \in Pcb : x # p => msg_inbox'[x] = msg_inbox[x] /\ received'[x] = received[x]
  BY <1>1 DEF Popped, TypeOK
<1>4. Places' /\ Unready'
  BY <1>1, <1>2, <1>3, SamePlaces
<1>5. call'[p] = NoCall /\ \A x \in Pcb : x # p => call'[x] = call[x]
  BY <1>1 DEF Base, ServiceTypes
<1>6. /\ p \in Live /\ p \notin UnderConstruction /\ p \notin blocked
  BY <1>1 DEF Places
<1>7. Waiting'
  <2>1. ASSUME NEW x \in Pcb, x # p  PROVE WaitsFor(x)'
    BY <1>1, <1>2, <1>3, <1>5, <2>1, WaitsOn DEF Waiting
  <2>2. WaitsFor(p)'
    BY <1>3, <1>5, <1>6, CallOps DEF WaitsFor
  <2> QED BY <2>1, <2>2 DEF Waiting
<1>8. received'[S] = received[S] /\ Asker' = Asker /\ msg_inbox'[S] = msg_inbox[S]
  BY <1>1, <1>3 DEF Asker
<1>9. Replied(p)' = {} /\ AtMostOne(msg_inbox'[p], From(SSI_FAKE_ADDR))
      /\ \A s \in Stage : At(s, p) => s = "answered"
  <2>1. PICK q, m : q = msg_inbox[p] /\ m = q[i]
    OBVIOUS
  <2>2. OneStage(p) /\ AtMostOne(q, From(SSI_FAKE_ADDR)) /\ m \in Message /\ m \in ToSet(q)
    BY <1>1, <1>3, <2>1, LenProperties, ElementOfSeq DEF Staged, OneStage, ToSet
  <2>3. CASE m \in From(SSI_FAKE_ADDR)
    <3>1. AtMostOne(RemoveAt(q, i), From(SSI_FAKE_ADDR)) /\ Among(RemoveAt(q, i), From(SSI_FAKE_ADDR)) = {}
      BY <1>3, <2>1, <2>2, <2>3, AmongRemoved
    <3>2. m \in Replied(p)
      BY <2>1, <2>2, <2>3 DEF Replied, Among
    <3>3. \A s \in Stage : At(s, p) => s = "answered"
      BY <2>2, <3>2 DEF OneStage, At, Stage
    <3> QED BY <1>3, <2>1, <3>1, <3>3 DEF Replied, From
  <2>4. CASE m \notin From(SSI_FAKE_ADDR)
    <3>1. src # SSI_FAKE_ADDR
      BY <1>3, <2>1, <2>2, <2>4, Names DEF Matches, From
    <3>2. \A s \in Stage : ~At(s, p)
      BY <1>1, <1>6, <3>1, NoStage, CallOps
    <3>3. Among(q, From(SSI_FAKE_ADDR)) = {}
      BY <2>1, <3>2 DEF At, Stage, Replied
    <3>4. AtMostOne(RemoveAt(q, i), From(SSI_FAKE_ADDR)) /\ Among(RemoveAt(q, i), From(SSI_FAKE_ADDR)) = {}
      BY <1>3, <2>1, <2>2, <2>4, <3>3, AmongRemoved
    <3> QED BY <1>3, <2>1, <3>2, <3>4 DEF Replied, From
  <2> QED BY <2>3, <2>4
<1>10. ASSUME NEW x \in User, x # p
       PROVE  OneStage(x)' /\ CallRoots(x)' = CallRoots(x)
  <2>1. OneStage(x) /\ Requested(x)' = Requested(x) /\ Replied(x)' = Replied(x) /\ x \in Pcb
    BY <1>1, <1>3, <1>8, <1>10 DEF Staged, Requested, Replied, From, User
  <2>2. OneStage(x)'
    BY <1>2, <1>3, <1>5, <1>8, <1>10, <2>1, CalmStage DEF OneStage
  <2>3. Pending(x)' <=> Pending(x)
    BY <1>8, <2>1 DEF Pending, At, BeingServed
  <2> QED BY <1>5, <1>10, <2>1, <2>2, <2>3, CallRootsKept
<1>11. OneStage(p)' /\ CallRoots(p)' = CallRoots(p) /\ CallRoots(p) = {} /\ Roots(p) = {}
  <2>1. Requested(p)' = Requested(p) /\ OneStage(p)
    BY <1>1, <1>8 DEF Requested, From, Staged
  <2>2. \A s \in Stage : ~At(s, p)'
    <3>1. ASSUME NEW s \in Stage, At(s, p)', s # "answered"  PROVE At(s, p)
      BY <1>8, <2>1, <3>1 DEF At, BeingServed, BeingAnswered, listVars
    <3>2. ~At("answered", p)'
      BY <1>9 DEF At
    <3> QED BY <1>9, <3>1, <3>2
  <2>3. ~Pending(p) /\ ~Pending(p)' /\ ~BeingServed(p)
    <3>1. ~At("inbox", p) /\ ~BeingServed(p)
      BY <1>9 DEF At, Stage
    <3>2. ~At("inbox", p)' /\ ~BeingServed(p)'
      BY <2>2 DEF At, Stage
    <3> QED BY <3>1, <3>2 DEF Pending
  <2>4. CallRoots(p)' = {} /\ CallRoots(p) = {} /\ Roots(p) = {}
    BY <1>2, <2>3 DEF CallRoots, Roots, SsiRoots, NucleusRoots, Trapped, BeingServed
  <2>5. OneStage(p)'
    BY <1>8, <1>9, <2>1, <2>2, NewStage DEF OneStage, Stage
  <2> QED BY <2>4, <2>5
<1>12. Stack("ssi") = {} \/ call'[Asker] = call[Asker]
  <2>1. SUFFICES ASSUME Stack("ssi") # {} PROVE call'[Asker] = call[Asker]
    OBVIOUS
  <2>2. Asker \in User /\ BeingServed(Asker)
    BY <1>1, <2>1, SsiAtWork
  <2>3. Asker # p
    BY <1>9, <2>2 DEF At, Stage
  <2> QED BY <1>5, <2>2, <2>3 DEF User
<1>13. \A x \in Pcb : Condemned(x) => call'[x] = call[x] /\ (x \in blocked => x \in blocked')
  <2>1. ~Condemned(p)
    BY <1>1, <1>2, <1>6, <1>11, CondemnedWait DEF AtPeace
  <2> QED BY <1>3, <1>5, <2>1
<1>14. \A x \in User : OneStage(x)' /\ CallRoots(x)' = CallRoots(x) /\ (CallRoots(x) # {} => call'[x] = call[x])
  BY <1>5, <1>10, <1>11 DEF User
<1> QED BY <1>1, <1>2, <1>3, <1>4, <1>7, <1>8, <1>12, <1>13, <1>14, CalmOrderly

LEMMA ReceivingOrderly ==
    ASSUME Orderly, Base', NEW p \in Pcb, Awaits(p) \/ Receives(p)
    PROVE  Orderly'
<1>1. p \in User /\ UNCHANGED <<listVars, ssi, frame>> /\ TypeOK
      /\ call \in [Pcb -> Request \cup {NoCall, Receiving}]
  BY DEF Awaits, Receives, Client, User, clientKeeps, Orderly, Base, ServiceTypes
<1>2. CASE Awaits(p)
  <2>1. /\ call[p].op \in SsiOp /\ SysReceive(p, SSI_FAKE_ADDR)
        /\ call' = IF Matching(p, SSI_FAKE_ADDR) = {} THEN call ELSE [call EXCEPT ![p] = NoCall]
    BY <1>2 DEF Awaits
  <2>2. /\ UNCHANGED procVars /\ cpu = "run" /\ current_process = p
        /\ \/ Suspended(p, SSI_FAKE_ADDR)
           \/ Matching(p, SSI_FAKE_ADDR) # {} /\ \E i \in DOMAIN msg_inbox[p] : Popped(p, SSI_FAKE_ADDR, i)
    BY <1>1, <2>1, Names, SysReceiveEffect
  <2>3. CASE Suspended(p, SSI_FAKE_ADDR)
    BY <1>1, <2>1, <2>2, <2>3, UserSuspends DEF Suspended
  <2>4. CASE Matching(p, SSI_FAKE_ADDR) # {} /\ \E i \in DOMAIN msg_inbox[p] : Popped(p, SSI_FAKE_ADDR, i)
    BY <1>1, <2>1, <2>2, <2>4, UserPops
  <2> QED BY <2>2, <2>3, <2>4
<1>3. CASE Receives(p)
  <2>1. /\ call[p] = NoCall /\ SysReceive(p, ANYMESSAGE)
        /\ call' = [call EXCEPT ![p] = IF Matching(p, ANYMESSAGE) = {} THEN Receiving ELSE NoCall]
    BY <1>3 DEF Receives
  <2>2. /\ UNCHANGED procVars /\ cpu = "run" /\ current_process = p
        /\ \/ Suspended(p, ANYMESSAGE)
           \/ Matching(p, ANYMESSAGE) # {} /\ \E i \in DOMAIN msg_inbox[p] : Popped(p, ANYMESSAGE, i)
    BY <1>1, <2>1, Names, SysReceiveEffect
  <2>3. CASE Suspended(p, ANYMESSAGE)
    BY <1>1, <2>1, <2>2, <2>3, UserSuspends DEF Suspended
  <2>4. CASE Matching(p, ANYMESSAGE) # {} /\ \E i \in DOMAIN msg_inbox[p] : Popped(p, ANYMESSAGE, i)
    BY <1>1, <2>1, <2>2, <2>4, UserPops
  <2> QED BY <2>2, <2>3, <2>4
<1> QED BY <1>2, <1>3
-----------------------------------------------------------------------------
(* The SSI carries out requests.                                           *)

(* The SSI goes on, and nobody moves.                                      *)
LEMMA SsiWorksOrderly ==
    ASSUME Orderly, Base', Running(ssi_pcb_real), frame["ssi"] = NoFrame,
           UNCHANGED <<pcbFree, p_parent, p_child, frame, blocked, received, ready_queue,
                       current_process, cpu, reg_a1, call>>,
           UnderConstruction = {}, UnderConstruction' = {},
           \A x \in User : OneStage(x)' /\ CallRoots(x)' = CallRoots(x),
           \A d \in Device : Once(pcb_blocked_on_device'[d]), Once(pcb_blocked_on_clock')
    PROVE  Orderly'
<1>1. Base /\ Places /\ Unready /\ Waiting /\ cpu = "run"
  BY SsiRuns DEF Orderly
<1>2. Places' /\ Unready' /\ cpu # "kernel" /\ cpu' # "kernel"
  BY <1>1, SamePlaces
<1>3. Waiting'
  BY <1>1, WaitsOn DEF Waiting
<1>4. Stack("ssi") = {}
  BY NoQueue DEF Stack, NoFrame
<1>5. ssi'.pc \notin {"insertChild", "insertReady"}
  BY DEF UnderConstruction
<1>6. \A x \in Pcb : x \in blocked => x \in blocked'
  BY <1>1
<1> QED BY <1>1, <1>2, <1>3, <1>4, <1>5, <1>6, CalmOrderly

(* In particular where nobody's request changes its stage, except that it  *)
(* may end.                                                                *)
LEMMA SsiMovesOrderly ==
    ASSUME Orderly, Base', Running(ssi_pcb_real), frame["ssi"] = NoFrame,
           UNCHANGED <<pcbFree, p_parent, listVars, frame, blocked, received, ready_queue,
                       msg_inbox, current_process, cpu, reg_a1, call>>,
           UnderConstruction = {}, UnderConstruction' = {},
           \A x \in User : BeingServed(x)' => BeingServed(x) /\ x \in Live,
           \A x \in User : ~BeingAnswered(x)',
           ssi'.pc = "dispatch" => Asker \notin User,
           ssi.pc = "dispatch" => Asked.op \notin {"TERM", "BAD"}
    PROVE  Orderly'
<1>1. Base /\ Staged
  BY DEF Orderly
<1>2. Asker' = Asker /\ Asked' = Asked /\ Live' = Live
  BY DEF Asker, Asked, Live
<1>3. ASSUME NEW x \in User  PROVE OneStage(x)' /\ CallRoots(x)' = CallRoots(x)
  <2>1. OneStage(x) /\ Requested(x)' = Requested(x) /\ Replied(x)' = Replied(x)
    BY <1>1 DEF Staged, Requested, Replied, From
  <2>2. OneStage(x)'
    <3>1. AtMostOne(msg_inbox'[ssi_pcb_real], From(x)) /\ AtMostOne(msg_inbox'[x], From(SSI_FAKE_ADDR))
      BY <2>1 DEF OneStage
    <3> QED BY <1>2, <2>1, <3>1, StageKept DEF listVars
  <2>3. ~(BeingServed(x)' /\ ssi'.pc = "dispatch")
    BY <1>2 DEF BeingServed
  <2>4. At("inbox", x)' <=> At("inbox", x)
    BY <2>1 DEF At
  <2>5. CASE BeingServed(x) /\ ssi.pc = "dispatch"
    <3>1. At("served", x) /\ "served" \in Stage /\ "inbox" \in Stage
      BY <2>5 DEF At, Stage
    <3>2. ~At("inbox", x)
      BY <2>1, <3>1 DEF OneStage
    <3>3. call[x] = Asked
      BY <2>1, <2>5, <3>1 DEF OneStage, StagedAt
    <3>4. CallRoots(x) = {}
      BY <2>5, <3>3 DEF CallRoots, Ending
    <3> QED BY <2>2, <2>3, <2>4, <3>2, <3>4 DEF CallRoots, Pending
  <2>6. CASE ~(BeingServed(x) /\ ssi.pc = "dispatch")
    <3>1. Pending(x)' <=> Pending(x)
      BY <2>3, <2>4, <2>6 DEF Pending
    <3> QED BY <2>2, <3>1, CallRootsKept
  <2> QED BY <2>5, <2>6
<1>4. Once(pcb_blocked_on_clock') /\ \A d \in Device : Once(pcb_blocked_on_device'[d])
  BY <1>1 DEF Staged, listVars
<1>5. p_child' = p_child
  BY DEF listVars
<1> QED BY <1>3, <1>4, <1>5, SsiWorksOrderly

(* An answer for what has been asked.                                      *)
Answers(dest, op, arg) ==
    /\ call[dest].op \in SsiOp /\ op = Answer[call[dest].op]
    /\ op = "IOSTATUS" => arg = call[dest].arg

LEMMA AnswerOps ==
    /\ Answer["CREATE"] = "CREATED" /\ Answer["TERM"] = "TERMINATED" /\ Answer["DOIO"] = "IOSTATUS"
    /\ Answer["CLOCKWAIT"] = "TICKED" /\ Answer["GETTIME"] = "TIME"
BY DEF Answer

(* The SSI answers whom it serves.                                         *)
AnswerTo(dest, op, arg) ==
    /\ SsiSends(dest, op, arg)
    /\ BeingServed(dest) \/ BeingAnswered(dest)
    /\ dest \in Live => Answers(dest, op, arg) /\ (ssi.pc = "dispatch" => op = "TIME")
    /\ ssi.pc = "dispatch" => Asker = dest /\ Asked.op = "GETTIME"

LEMMA RepliesMatch ==
    ASSUME Base, Staged, CreateReplies \/ DoIoReplies \/ ClockReplies \/ GetTimeReplies \/ TermReplies
    PROVE  \/ \E dest \in User, op \in ReplyOp, arg \in Address \cup Device \cup {NOPROC} :
                 AnswerTo(dest, op, arg)
           \/ UNCHANGED <<ipcVars, listVars, busy, frame, call>> /\ ssi'.pc = "receive"
              /\ ssi.pc = "terminate" /\ Asked.op = "BAD"
<1>1. Running(ssi_pcb_real) /\ ssi.pc # "receive"
  BY DEF CreateReplies, DoIoReplies, ClockReplies, GetTimeReplies, TermReplies, SsiAt, Serving
<1>2. /\ Asked.op \in {"CREATE", "TERM", "GETTIME"} => Asker \in User
      /\ Asked.op = "IODONE" => Asked.arg \in Device
  BY <1>1, SsiRuns DEF SsiOp
<1>3. \A x \in User : BeingServed(x) /\ x \in Live => call[x] = Asked
  BY ServedCalls
<1>4. ASSUME NEW x \in User, BeingAnswered(x)
      PROVE  /\ ssi.pc = "answer" => call[x] = [op |-> "DOIO", arg |-> Asked.arg]
             /\ ssi.pc = "tick" => call[x].op = "CLOCKWAIT"
  <2>1. At("answer", x) /\ "answer" \in Stage
    BY <1>4 DEF At, Stage
  <2>2. StagedAt("answer", x)
    BY <2>1 DEF Staged, OneStage
  <2> QED BY <2>2 DEF StagedAt
<1>5. CASE CreateReplies
  <2>1. /\ Asker \in User /\ ssi.p \in Address \cup {NOPROC} /\ Asked.op = "CREATE" /\ ssi.pc = "reply"
        /\ SsiSends(Asker, "CREATED", ssi.p)
    BY <1>2, <1>5, Names DEF CreateReplies, SsiAt, Base, SsiWork, SsiType
  <2>2. BeingServed(Asker)
    BY <2>1 DEF BeingServed
  <2>3. AnswerTo(Asker, "CREATED", ssi.p)
    BY <1>3, <2>1, <2>2, AnswerOps DEF AnswerTo, Answers, SsiOp
  <2> QED BY <2>1, <2>3 DEF ReplyOp
<1>6. CASE DoIoReplies
  <2>1. /\ ssi.p \in User /\ Asked.arg \in Device /\ ssi.pc = "answer"
        /\ SsiSends(ssi.p, "IOSTATUS", Asked.arg)
    BY <1>2, <1>6 DEF DoIoReplies, SsiAt, Base, SsiWork
  <2>2. BeingAnswered(ssi.p)
    BY <2>1 DEF BeingAnswered
  <2>3. AnswerTo(ssi.p, "IOSTATUS", Asked.arg)
    BY <1>4, <2>1, <2>2, AnswerOps DEF AnswerTo, Answers, SsiOp
  <2> QED BY <2>1, <2>3 DEF ReplyOp
<1>7. CASE ClockReplies
  <2>1. ssi.p \in User /\ ssi.pc = "tick" /\ SsiSends(ssi.p, "TICKED", 0) /\ 0 \in Address
    BY <1>7, Names DEF ClockReplies, SsiAt, Base, SsiWork, NULL
  <2>2. BeingAnswered(ssi.p)
    BY <2>1 DEF BeingAnswered
  <2>3. AnswerTo(ssi.p, "TICKED", 0)
    BY <1>4, <2>1, <2>2, AnswerOps DEF AnswerTo, Answers, SsiOp
  <2> QED BY <2>1, <2>3 DEF ReplyOp
<1>8. CASE GetTimeReplies
  <2>1. /\ Asker \in User /\ Asked.op = "GETTIME" /\ ssi.pc = "dispatch" /\ SsiSends(Asker, "TIME", 0)
        /\ 0 \in Address
    BY <1>2, <1>8, Names DEF GetTimeReplies, Serving, SsiAt, NULL
  <2>2. BeingServed(Asker)
    BY <2>1 DEF BeingServed
  <2>3. AnswerTo(Asker, "TIME", 0)
    BY <1>3, <2>1, <2>2, AnswerOps DEF AnswerTo, Answers, SsiOp
  <2> QED BY <2>1, <2>3 DEF ReplyOp
<1>9. CASE TermReplies
  <2>1. ssi.pc = "terminate" /\ ssi'.pc = "receive"
    BY <1>9 DEF TermReplies, SsiAt, SsiGoes
  <2>2. CASE Asked.op = "TERM" /\ SsiSends(Asker, "TERMINATED", 0)
    <3>1. Asker \in User /\ BeingServed(Asker) /\ 0 \in Address
      BY <1>2, <2>1, <2>2, Names DEF BeingServed, NULL
    <3>2. AnswerTo(Asker, "TERMINATED", 0)
      BY <1>3, <2>1, <2>2, <3>1, AnswerOps DEF AnswerTo, Answers, SsiOp
    <3> QED BY <3>1, <3>2 DEF ReplyOp
  <2>3. CASE Asked.op = "BAD" /\ UNCHANGED <<ipcVars, listVars, busy, frame, call>>
    BY <2>1, <2>3
  <2> QED BY <1>9, <2>1, <2>2, <2>3 DEF TermReplies
<1> QED BY <1>5, <1>6, <1>7, <1>8, <1>9

(* Who is served asks, and nothing else terminates him.                    *)
LEMMA ServedFree ==
    ASSUME Orderly, cpu = "run", frame["ssi"] = NoFrame, NEW x \in User,
           x \in Live, call[x].op \in SsiOp, ~Pending(x) \/ call[x].op \notin {"TERM", "BAD"}
    PROVE  ~Condemned(x) /\ CallRoots(x) = {}
<1>1. CallRoots(x) = {}
  BY DEF CallRoots, Ending
<1>2. Roots(x) = {}
  BY <1>1, NoQueue DEF Roots, SsiRoots, NucleusRoots, Trapped, Stack, NoFrame
<1>3. ~AtPeace(x)
  BY CallOps DEF AtPeace
<1> QED BY <1>1, <1>2, <1>3, CondemnedWait DEF User

LEMMA AnswersOrderly ==
    ASSUME Orderly, Base', Running(ssi_pcb_real), frame["ssi"] = NoFrame, ssi.pc # "receive",
           NEW dest \in User, dest \in Live, NEW op \in ReplyOp,
           NEW arg \in Address \cup Device \cup {NOPROC}, AnswerTo(dest, op, arg),
           UnderConstruction = {}, UnderConstruction' = {},
           \A x \in User : ~BeingAnswered(x)',
           received'[ssi_pcb_real] = received[ssi_pcb_real] => \A x \in User : ~BeingServed(x)'
    PROVE  Orderly'
<1> DEFINE S == ssi_pcb_real
           load == [op |-> op, arg |-> arg]
           m == MessageOf(S, load)
<1>1. /\ Base /\ Places /\ Unready /\ Waiting /\ Staged /\ TypeOK /\ S \in Pcb /\ S \notin User
      /\ dest \in Pcb /\ dest # S /\ NULL \notin Pcb /\ Destination(S, dest) = dest
  BY Names DEF Orderly, Base, User, Destination
<1>2. /\ SysSend(S, dest, load) /\ EndsCall(dest, S) /\ UNCHANGED <<listVars, busy, frame>>
      /\ Answers(dest, op, arg) /\ load \in Load
  BY Loads DEF AnswerTo, SsiSends, Reply, ReplyOp
<1> HIDE DEF load
<1>3. /\ cpu = "run" /\ current_process = S /\ cpu' = "run" /\ current_process' = S
      /\ UNCHANGED <<procVars, reg_a1>> /\ Sent(dest, m, ready_queue')
  BY <1>1, <1>2, SysSendEffect DEF isPcbValid
<1>4. /\ UNCHANGED <<pcbFree, p_parent, p_child>> /\ UnderConstruction' = UnderConstruction
      /\ cpu # "kernel" /\ cpu' # "kernel" /\ Live' = Live
      /\ Once(pcb_blocked_on_clock') /\ \A d \in Device : Once(pcb_blocked_on_device'[d])
      /\ \A x : At("device", x)' <=> At("device", x)
      /\ \A x : At("clock", x)' <=> At("clock", x)
  BY <1>1, <1>2, <1>3 DEF procVars, listVars, Staged, At, Live
<1>5. /\ m \in Message /\ m.sender = SSI_FAKE_ADDR /\ m.payload = load /\ m \in From(SSI_FAKE_ADDR)
      /\ \A x \in User : m \notin From(x)
  BY <1>1, <1>2, Names, Loads DEF MessageOf, Message, From, User
<1>6. Stack("ssi") = {} /\ Stack("nucleus") = {}
  BY <1>3, NoQueue DEF Stack, NoFrame, Base, Frames, Orderly
<1>7. dest \in blocked \/ ~Wakeable(dest, m)
  <2>1. Dying = {}
    BY <1>6 DEF Dying, Actor, Stack
  <2>2. dest \in Ready \cup blocked \cup {current_process}
    BY <1>1, <2>1 DEF Places
  <2> QED BY <2>2 DEF Wakeable
<1>8. PICK r : r = ready_queue'
  OBVIOUS
<1> HIDE DEF m
<1>9. /\ Once(r) /\ current_process \notin ToSet(r)
      /\ \E W \in SUBSET blocked : WokenBy(W, dest, m, r)
  BY <1>1, <1>3, <1>7, <1>8, SentPlaces
<1>10. PICK W \in SUBSET blocked : WokenBy(W, dest, m, r)
  BY <1>9
<1>11. W \subseteq {dest} /\ blocked' = blocked \ W /\ Ready' = Ready \cup W
  BY <1>8, <1>10 DEF WokenBy, Ready
<1>12. Places' /\ Unready'
  <2>1. W \cap Stack("ssi") = {} /\ {} \in SUBSET Pcb /\ blocked' = (blocked \ W) \cup {}
    BY <1>6, <1>11
  <2>2. \A x \in Pcb : x \in Ready' \/ x = current_process' <=>
           (x \in Ready \/ x = current_process \/ x \in W) /\ x \notin {}
    BY <1>3, <1>11
  <2>3. Once(ready_queue') /\ current_process' \notin Ready'
    BY <1>3, <1>8, <1>9 DEF Ready
  <2> QED BY <1>1, <1>2, <1>4, <2>1, <2>2, <2>3, CalmPlaces
<1>13. /\ \A x \in Pcb : x # dest => call'[x] = call[x]
       /\ dest \notin W => call' = call
       /\ dest \in W => call'[dest] = NoCall /\ dest \notin blocked'
  <2>1. Delivers(dest, S) <=> msgFree > 0 /\ Wakeable(dest, m)
    BY <1>1, <1>5, Names DEF Delivers, Wakes, is_waiting_for_me, Wakeable, MessageOf
  <2>2. dest \in W <=> Handed(dest, m, r)
    BY <1>10 DEF WokenBy
  <2>3. Handed(dest, m, r) <=> Delivers(dest, S)
    BY <1>3, <1>8, <2>1 DEF Sent, Handed, Queued, Dropped, Base, TypeOK
  <2>4. call' = IF Delivers(dest, S) THEN [call EXCEPT ![dest] = NoCall] ELSE call
    BY <1>2 DEF EndsCall, isPcbValid
  <2>5. call \in [Pcb -> Request \cup {NoCall, Receiving}]
    BY <1>1 DEF Base, ServiceTypes
  <2> QED BY <1>1, <1>11, <2>2, <2>3, <2>4, <2>5
<1>14. Waiting'
  <2>1. ASSUME NEW x \in Pcb, x \notin W  PROVE WaitsFor(x)'
    <3>1. call'[x] = call[x] /\ (x \in blocked' <=> x \in blocked)
      BY <1>11, <1>13, <2>1
    <3> QED BY <1>1, <1>3, <1>4, <3>1, WaitsOn DEF Waiting
  <2>2. ASSUME NEW x \in W  PROVE WaitsFor(x)'
    <3>1. call'[x] = NoCall /\ x \notin blocked'
      BY <1>11, <1>13, <2>2
    <3> QED BY <3>1, CallOps DEF WaitsFor
  <2> QED BY <2>1, <2>2 DEF Waiting
<1>15. received'[S] = received[S] /\ Asker' = Asker /\ Asked' = Asked
  <2>1. received'[S] = received[S]
    BY <1>1, <1>3, <1>8 DEF Sent, Handed, Queued, Dropped, msgVars, TypeOK
  <2> QED BY <2>1 DEF Asker, Asked
<1>16. \A x \in User : ~BeingServed(x)' /\ ~BeingAnswered(x)'
  BY <1>15
<1>17. ASSUME NEW x \in User, x # dest
       PROVE  OneStage(x)' /\ CallRoots(x)' = CallRoots(x)
  <2>1. x \in Pcb /\ OneStage(x)
    BY <1>1, <1>17 DEF User, Staged
  <2>2. /\ Among(msg_inbox'[S], From(x)) = Among(msg_inbox[S], From(x))
        /\ AtMostOne(msg_inbox'[S], From(x))
    BY <1>1, <1>3, <1>5, <1>8, <2>1, SentInbox DEF OneStage
  <2>3. /\ Among(msg_inbox'[x], From(SSI_FAKE_ADDR)) = Among(msg_inbox[x], From(SSI_FAKE_ADDR))
        /\ AtMostOne(msg_inbox'[x], From(SSI_FAKE_ADDR))
    BY <1>1, <1>3, <1>5, <1>8, <1>17, <2>1, SentInbox DEF OneStage
  <2>4. Requested(x)' = Requested(x) /\ Replied(x)' = Replied(x)
    BY <2>2, <2>3 DEF Requested, Replied, From
  <2>5. OneStage(x)'
    BY <1>2, <1>4, <1>13, <1>16, <1>17, <2>1, <2>2, <2>3, <2>4, StageKept DEF listVars
  <2>6. ~(BeingServed(x) /\ ssi.pc = "dispatch")
    BY <1>17 DEF BeingServed, AnswerTo
  <2>7. Pending(x)' <=> Pending(x)
    BY <1>16, <2>4, <2>6 DEF Pending, At
  <2> QED BY <1>13, <1>17, <2>1, <2>5, <2>7, CallRootsKept
<1>18. /\ OneStage(dest) /\ Requested(dest) = {} /\ Replied(dest) = {}
       /\ ~At("device", dest) /\ ~At("clock", dest)
  <2>1. At("served", dest) \/ At("answer", dest)
    BY DEF AnswerTo, At
  <2>2. OneStage(dest)
    BY <1>1 DEF Staged
  <2>3. \A s \in Stage : At(s, dest) => s = "served" \/ s = "answer"
    BY <2>1, <2>2 DEF OneStage, Stage
  <2> QED BY <2>2, <2>3 DEF At, Stage
<1>19. /\ Requested(dest)' = {} /\ AtMostOne(msg_inbox'[S], From(dest))
       /\ AtMostOne(msg_inbox'[dest], From(SSI_FAKE_ADDR))
       /\ Replied(dest)' = {} \/ (Replied(dest)' = {m} /\ dest \notin W)
  <2>1. /\ Among(msg_inbox'[S], From(dest)) = Among(msg_inbox[S], From(dest))
        /\ AtMostOne(msg_inbox'[S], From(dest))
    BY <1>1, <1>3, <1>5, <1>8, <1>18, SentInbox DEF OneStage
  <2>2. CASE Queued(dest, m, r)
    <3>1. /\ Among(msg_inbox'[dest], From(SSI_FAKE_ADDR)) = Among(msg_inbox[dest], From(SSI_FAKE_ADDR)) \cup {m}
          /\ AtMostOne(msg_inbox'[dest], From(SSI_FAKE_ADDR))
      BY <1>1, <1>3, <1>5, <1>8, <1>18, <2>2, SentInbox DEF OneStage, Replied
    <3>2. dest \notin W
      BY <1>10, <2>2 DEF WokenBy, Handed, Queued
    <3> QED BY <1>18, <2>1, <3>1, <3>2 DEF Requested, Replied, From
  <2>3. CASE ~Queued(dest, m, r)
    <3>1. /\ Among(msg_inbox'[dest], From(SSI_FAKE_ADDR)) = Among(msg_inbox[dest], From(SSI_FAKE_ADDR))
          /\ AtMostOne(msg_inbox'[dest], From(SSI_FAKE_ADDR))
      BY <1>1, <1>3, <1>5, <1>8, <1>18, <2>3, SentInbox DEF OneStage
    <3> QED BY <1>18, <2>1, <3>1 DEF Requested, Replied, From
  <2> QED BY <2>2, <2>3
<1>20. OneStage(dest)'
  <2>1. \A s \in Stage : At(s, dest)' => s = "answered"
    <3>1. ~At("inbox", dest)' /\ ~At("served", dest)' /\ ~At("device", dest)' /\ ~At("clock", dest)'
          /\ ~At("answer", dest)'
      BY <1>4, <1>16, <1>18, <1>19 DEF At
    <3> QED BY <3>1 DEF Stage
  <2>2. At("answered", dest)' => StagedAt("answered", dest)'
    <3>1. SUFFICES ASSUME At("answered", dest)'  PROVE StagedAt("answered", dest)'
      OBVIOUS
    <3>2. Replied(dest)' = {m} /\ call' = call
      BY <1>13, <1>19, <3>1 DEF At
    <3>3. dest \in Live' /\ call'[dest].op \in SsiOp /\ m.payload.op = Answer[call'[dest].op]
          /\ (m.payload.op = "IOSTATUS" => m.payload.arg = call'[dest].arg)
      BY <1>2, <1>4, <1>5, <3>2 DEF Answers, load
    <3> QED BY <3>2, <3>3 DEF StagedAt
  <2> QED BY <1>19, <2>1, <2>2, NewStage DEF Stage
<1>21. ~Condemned(dest) /\ CallRoots(dest) = {} /\ CallRoots(dest)' = {}
  <2>1. ~Pending(dest)'
    BY <1>16, <1>19 DEF Pending, At
  <2>2. ~Pending(dest) \/ call[dest].op \notin {"TERM", "BAD"}
    <3>1. SUFFICES ASSUME Pending(dest)  PROVE call[dest].op \notin {"TERM", "BAD"}
      OBVIOUS
    <3>2. ssi.pc = "dispatch" /\ BeingServed(dest)
      BY <1>18, <3>1 DEF Pending, At
    <3>3. Asked.op = "GETTIME" /\ call[dest] = Asked
      BY <1>1, <3>2, ServedCalls DEF AnswerTo
    <3> QED BY <3>3
  <2>3. ~Condemned(dest) /\ CallRoots(dest) = {}
    BY <1>2, <1>3, <2>2, ServedFree DEF Answers
  <2> QED BY <2>1, <2>3 DEF CallRoots
<1>22. \A x \in User : OneStage(x)' /\ CallRoots(x)' = CallRoots(x) /\ (CallRoots(x) # {} => call'[x] = call[x])
  BY <1>13, <1>17, <1>20, <1>21 DEF User
<1>23. \A x \in Pcb : Condemned(x) => call'[x] = call[x] /\ (x \in blocked => x \in blocked')
  BY <1>11, <1>13, <1>21
<1>24. ssi'.pc \notin {"insertChild", "insertReady"}
  BY DEF UnderConstruction
<1> QED BY <1>1, <1>2, <1>4, <1>6, <1>12, <1>14, <1>22, <1>23, <1>24, CalmOrderly

LEMMA RepliesOrderly ==
    ASSUME Orderly, Base', CreateReplies \/ DoIoReplies \/ ClockReplies \/ GetTimeReplies \/ TermReplies
    PROVE  Orderly'
<1>1. /\ Base /\ Staged /\ Running(ssi_pcb_real) /\ ssi.pc # "receive" /\ frame["ssi"] = NoFrame
      /\ ssi'.pc \in {"receive", "dispatch"} /\ ssi_pcb_real \in Pcb
      /\ ssi'.pc = "dispatch" => ssi.pc = "tick"
      /\ ssi.pc \in {"reply", "answer", "tick", "dispatch", "terminate"}
  BY Replies, Names DEF Orderly, SsiGoes, CreateReplies, DoIoReplies, ClockReplies, GetTimeReplies, TermReplies,
                 SsiAt, Serving
<1>2. UnderConstruction = {} /\ UnderConstruction' = {}
  BY <1>1 DEF UnderConstruction
<1>3. ssi'.pc = "dispatch" => Asker \notin User
  <2>1. ssi.pc = "tick" => Asked.op = "TICK" /\ "TICK" \notin SsiOp
    BY <1>1 DEF Base, SsiWork, SsiOp
  <2> QED BY <1>1, <2>1, SsiRuns
<1>4. \A x \in User : ~BeingAnswered(x)'
  BY <1>1 DEF BeingAnswered
<1>5. received'[ssi_pcb_real] = received[ssi_pcb_real] => \A x \in User : ~BeingServed(x)'
  BY <1>1, <1>3 DEF BeingServed, Asker
<1>6. CASE UNCHANGED <<ipcVars, listVars, busy, frame, call>> /\ ssi'.pc = "receive" /\ ssi.pc = "terminate"
  BY <1>1, <1>2, <1>3, <1>4, <1>5, <1>6, SsiMovesOrderly DEF ipcVars, procVars, msgVars, cpuVars
<1>7. ASSUME NEW dest \in User, NEW op \in ReplyOp, NEW arg \in Address \cup Device \cup {NOPROC},
             AnswerTo(dest, op, arg)
      PROVE  Orderly'
  <2>1. CASE dest \in Live
    BY <1>1, <1>2, <1>4, <1>5, <1>7, <2>1, AnswersOrderly
  <2>2. CASE dest \notin Live
    <3>1. /\ SysSend(ssi_pcb_real, dest, [op |-> op, arg |-> arg]) /\ EndsCall(dest, ssi_pcb_real)
          /\ UNCHANGED <<listVars, busy, frame>> /\ TypeOK
          /\ Destination(ssi_pcb_real, dest) = dest /\ [op |-> op, arg |-> arg] \in Load
      BY <1>1, <1>7, Loads, Names DEF AnswerTo, SsiSends, Base, Destination, User, Reply, ReplyOp
    <3>2. /\ cpu = "run" /\ current_process = ssi_pcb_real /\ cpu' = "run" /\ current_process' = ssi_pcb_real
          /\ UNCHANGED <<procVars, reg_a1, msgVars, ready_queue>>
      BY <1>1, <2>2, <3>1, SysSendEffect DEF isPcbValid, Sent
    <3>3. call' = call
      BY <2>2, <3>1 DEF EndsCall, isPcbValid
    <3>4. ssi.pc = "dispatch" => Asked.op \notin {"TERM", "BAD"}
      BY <1>7 DEF AnswerTo
    <3> QED BY <1>1, <1>2, <1>3, <1>4, <1>5, <3>1, <3>2, <3>3, <3>4, SsiMovesOrderly DEF procVars, msgVars
  <2> QED BY <2>1, <2>2
<1> QED BY <1>1, <1>6, <1>7, RepliesMatch

LEMMA CountingOrderly ==
    ASSUME Orderly, Base', CreateReadsCount \/ CreateWritesCount
    PROVE  Orderly'
<1>1. /\ Base /\ Staged /\ Running(ssi_pcb_real) /\ frame["ssi"] = NoFrame
      /\ ssi.pc \in {"countRead", "countWrite"}
  BY DEF Orderly, CreateReadsCount, CreateWritesCount, SsiAt, Base, Frames
<1>2. UNCHANGED <<pcbFree, p_parent, listVars, frame, blocked, received, ready_queue,
                  msg_inbox, current_process, cpu, reg_a1, call>>
  BY DEF CreateReadsCount, CreateWritesCount, ipcVars, procVars, msgVars, cpuVars
<1>3. ssi'.pc \in {"countWrite", "reply"}
  <2>1. CASE CreateReadsCount
    <3>1. ssi' = [[ssi EXCEPT !.pc = "countWrite"] EXCEPT !.tmp = Inc(process_count)] /\ SsiType
      BY <1>1, <2>1 DEF CreateReadsCount, Base
    <3> QED BY <3>1 DEF SsiType
  <2>2. CASE CreateWritesCount
    BY <2>2 DEF CreateWritesCount, SsiGoes
  <2> QED BY <2>1, <2>2
<1>4. \A x \in User : BeingServed(x)' => BeingServed(x) /\ x \in Live
  <2>1. \A x \in User : BeingServed(x) => x \in Live
    BY <1>1, ServedCalls
  <2> QED BY <1>1, <1>2, <2>1 DEF BeingServed, Asker
<1>5. \A x \in User : ~BeingAnswered(x)'
  BY <1>3 DEF BeingAnswered
<1>6. UnderConstruction = {} /\ UnderConstruction' = {}
  BY <1>1, <1>3 DEF UnderConstruction
<1> QED BY <1>1, <1>2, <1>3, <1>4, <1>5, <1>6, SsiMovesOrderly

LEMMA DispatchedRoots ==
    ASSUME Base, Staged, NEW x \in User, call'[x] = call[x],
           msg_inbox'[ssi_pcb_real] = msg_inbox[ssi_pcb_real],
           received'[ssi_pcb_real] = received[ssi_pcb_real],
           ssi.pc = "dispatch", ssi'.pc # "dispatch", Asked.op \notin {"TERM", "BAD"}
    PROVE  CallRoots(x)' = CallRoots(x)
<1>1. OneStage(x) /\ (At("inbox", x)' <=> At("inbox", x))
  BY DEF Staged, At, Requested, From
<1>2. CASE BeingServed(x)
  <2>1. At("served", x) /\ "served" \in Stage /\ "inbox" \in Stage
    BY <1>2 DEF At, Stage
  <2>2. ~At("inbox", x)
    BY <1>1, <2>1 DEF OneStage
  <2>3. call[x] = Asked
    BY <1>2, ServedCalls
  <2> QED BY <1>1, <2>2, <2>3 DEF CallRoots, Ending, Pending
<1>3. CASE ~BeingServed(x)
  <2>1. Pending(x)' <=> Pending(x)
    BY <1>1, <1>3 DEF Pending
  <2> QED BY <2>1, CallRootsKept
<1> QED BY <1>2, <1>3

(* A request moves from one queue to another, or to the SSI.               *)
LEMMA QueueMovesOrderly ==
    ASSUME Orderly, Base', Running(ssi_pcb_real), ssi.pc = "dispatch",
           ssi'.pc \in {"receive", "command", "answer", "tick"}, Asked.op \notin {"TERM", "BAD"},
           UNCHANGED <<pcbFree, p_parent, p_child, frame, blocked, received, ready_queue,
                       msg_inbox, current_process, cpu, reg_a1, call>>,
           \A d \in Device : Once(pcb_blocked_on_device'[d]), Once(pcb_blocked_on_clock'),
           NEW p \in User, NEW s \in Stage, At(s, p), s \notin {"inbox", "answered"},
           NEW t \in {"device", "clock", "answer"}, StagedAt(t, p)',
           \A u \in {"device", "clock", "answer"} : At(u, p)' => u = t,
           \A x \in User \ {p} :
              /\ ~BeingAnswered(x)'
              /\ \A d \in Device : x \in ToSet(pcb_blocked_on_device'[d]) =>
                                      x \in ToSet(pcb_blocked_on_device[d])
              /\ x \in ToSet(pcb_blocked_on_clock') => x \in ToSet(pcb_blocked_on_clock)
    PROVE  Orderly'
<1>1. Base /\ Staged /\ frame["ssi"] = NoFrame
  BY DEF Orderly, Base, Frames
<1>2. Live' = Live /\ \A x : ~BeingServed(x)'
  BY DEF Live, BeingServed
<1>3. \A x \in User : CallRoots(x)' = CallRoots(x)
  BY <1>1, DispatchedRoots
<1>4. \A x \in User : OneStage(x) /\ Requested(x)' = Requested(x) /\ Replied(x)' = Replied(x)
  BY <1>1 DEF Staged, Requested, Replied, From
<1>5. \A x \in User : AtMostOne(msg_inbox'[ssi_pcb_real], From(x)) /\ AtMostOne(msg_inbox'[x], From(SSI_FAKE_ADDR))
  BY <1>4 DEF OneStage
<1>6. ASSUME NEW x \in User, x # p  PROVE OneStage(x)'
  <2>1. x \in User \ {p}
    BY <1>6
  <2> QED BY <1>2, <1>4, <1>5, <2>1, StageKept
<1>7. OneStage(p)'
  <2>1. ~At("inbox", p) /\ ~At("answered", p)
    BY <1>4 DEF OneStage, Stage
  <2>2. ~At("inbox", p)' /\ ~At("answered", p)' /\ ~At("served", p)'
    BY <1>2, <1>4, <2>1 DEF At
  <2>3. t \in Stage /\ \A u \in Stage : At(u, p)' => u = t
    BY <2>2 DEF Stage
  <2> QED BY <1>5, <2>3, NewStage
<1>8. UnderConstruction = {} /\ UnderConstruction' = {}
  BY DEF UnderConstruction
<1> QED BY <1>1, <1>3, <1>6, <1>7, <1>8, SsiWorksOrderly

LEMMA DoIoQueuesOrderly ==
    ASSUME Orderly, Base', DoIoQueues
    PROVE  Orderly'
<1> DEFINE dev == pcb_blocked_on_device
<1>0. PICK p, d0 : p = Asker /\ d0 = Asked.arg
  OBVIOUS
<1>1. /\ Base /\ Staged /\ Running(ssi_pcb_real) /\ ssi.pc = "dispatch" /\ Asked.op = "DOIO"
      /\ ssi'.pc = "command"
      /\ dev' = [dev EXCEPT ![d0] = Append(Without(@, p), p)]
      /\ UNCHANGED <<pcbFree, p_parent, p_child, frame, blocked, received, ready_queue,
                     msg_inbox, current_process, cpu, reg_a1, call, pcb_blocked_on_clock>>
  BY <1>0 DEF Orderly, DoIoQueues, Serving, SsiAt, SsiGoes, procVars, keepMsg, cpuVars
<1>2. p \in User /\ d0 \in Device /\ Asked \in Request
  BY <1>0, <1>1, SsiRuns DEF SsiOp
<1>3. BeingServed(p) /\ At("served", p) /\ "served" \in Stage
  BY <1>0, <1>1 DEF BeingServed, At, Stage
<1>4. p \in Live /\ call[p] = [op |-> "DOIO", arg |-> d0]
  <2>1. p \in Live /\ call[p] = Asked
    BY <1>1, <1>2, <1>3, ServedCalls
  <2>2. Asked = [op |-> "DOIO", arg |-> d0]
    BY <1>0, <1>1, <1>2 DEF Request
  <2> QED BY <2>1, <2>2
<1>5. ~At("device", p) /\ ~At("clock", p)
  BY <1>1, <1>2, <1>3 DEF Staged, OneStage, Stage
<1>6. dev \in [Device -> Seq(Pcb)] /\ \A d \in Device : Once(dev[d])
  BY <1>1 DEF Base, ServiceTypes, Staged
<1>7. PICK q : q = dev[d0]
  OBVIOUS
<1>8. q \in Seq(Pcb) /\ p \notin ToSet(q) /\ Once(q) /\ p \in Pcb
  BY <1>2, <1>5, <1>6, <1>7 DEF At, User
<1>9. PICK r : r = Append(q, p)
  OBVIOUS
<1>10. ToSet(r) = ToSet(q) \cup {p} /\ Once(r)
  BY <1>8, <1>9, AppendRange, AppendOnce
<1>11. dev' = [dev EXCEPT ![d0] = r]
  BY <1>1, <1>7, <1>8, <1>9, WithoutRange
<1>12. \A d \in Device : /\ Once(dev'[d])
                         /\ \A x : x # p => (x \in ToSet(dev'[d]) <=> x \in ToSet(dev[d]))
                         /\ p \in ToSet(dev'[d]) => d = d0
  BY <1>2, <1>5, <1>6, <1>7, <1>10, <1>11 DEF At
<1>13. StagedAt("device", p)'
  BY <1>1, <1>4, <1>12 DEF StagedAt, Live
<1>14. ~At("clock", p)' /\ \A x : ~BeingAnswered(x)'
  BY <1>1, <1>5 DEF At, BeingAnswered
<1>15. \A u \in {"device", "clock", "answer"} : At(u, p)' => u = "device"
  BY <1>14 DEF At
<1>16. Once(pcb_blocked_on_clock')
  BY <1>1 DEF Staged
<1> HIDE DEF dev
<1>17. \A d \in Device : Once(pcb_blocked_on_device'[d])
  BY <1>12 DEF dev
<1>18. \A x \in User \ {p} : \A d \in Device : x \in ToSet(pcb_blocked_on_device'[d]) =>
                                      x \in ToSet(pcb_blocked_on_device[d])
  BY <1>12 DEF dev
<1> QED BY <1>1, <1>2, <1>3, <1>13, <1>14, <1>15, <1>16, <1>17, <1>18, QueueMovesOrderly

LEMMA WaitForClockOrderly ==
    ASSUME Orderly, Base', WaitForClock
    PROVE  Orderly'
<1> DEFINE clk == pcb_blocked_on_clock
<1>0. PICK p : p = Asker
  OBVIOUS
<1>1. /\ Base /\ Staged /\ Running(ssi_pcb_real) /\ ssi.pc = "dispatch" /\ Asked.op = "CLOCKWAIT"
      /\ ssi'.pc = "receive" /\ clk' = Append(clk, p)
      /\ UNCHANGED <<pcbFree, p_parent, p_child, frame, blocked, received, ready_queue,
                     msg_inbox, current_process, cpu, reg_a1, call, pcb_blocked_on_device>>
  BY <1>0 DEF Orderly, WaitForClock, Serving, SsiAt, SsiGoes, ipcVars, procVars, msgVars, cpuVars
<1>2. p \in User /\ p \in Pcb
  BY <1>0, <1>1, SsiRuns DEF SsiOp, User
<1>3. BeingServed(p) /\ At("served", p) /\ "served" \in Stage
  BY <1>0, <1>1 DEF BeingServed, At, Stage
<1>4. p \in Live /\ call[p].op = "CLOCKWAIT"
  BY <1>1, <1>2, <1>3, ServedCalls
<1>5. ~At("device", p) /\ ~At("clock", p)
  BY <1>1, <1>2, <1>3 DEF Staged, OneStage, Stage
<1>6. clk \in Seq(Pcb) /\ Once(clk) /\ p \notin ToSet(clk)
  BY <1>1, <1>5 DEF Base, ServiceTypes, Staged, At
<1>7. PICK q, r : q = clk /\ r = Append(q, p)
  OBVIOUS
<1>8. ToSet(r) = ToSet(q) \cup {p} /\ Once(r) /\ clk' = r
  BY <1>1, <1>2, <1>6, <1>7, AppendRange, AppendOnce
<1>9. StagedAt("clock", p)'
  BY <1>1, <1>4 DEF StagedAt, Live
<1>10. ~At("device", p)' /\ \A x : ~BeingAnswered(x)'
  BY <1>1, <1>5 DEF At, BeingAnswered
<1>11. \A u \in {"device", "clock", "answer"} : At(u, p)' => u = "clock"
  BY <1>10 DEF At
<1>12. \A d \in Device : Once(pcb_blocked_on_device'[d])
  BY <1>1 DEF Staged
<1>13. Once(pcb_blocked_on_clock') /\ \A x \in User \ {p} :
          x \in ToSet(pcb_blocked_on_clock') => x \in ToSet(pcb_blocked_on_clock)
  BY <1>7, <1>8
<1> HIDE DEF clk
<1> QED BY <1>1, <1>2, <1>3, <1>9, <1>10, <1>11, <1>12, <1>13, QueueMovesOrderly

LEMMA DoIoAnswersOrderly ==
    ASSUME Orderly, Base', DoIoAnswers
    PROVE  Orderly'
<1> DEFINE dev == pcb_blocked_on_device
           d0 == Asked.arg
<1>1. /\ Base /\ Staged /\ Running(ssi_pcb_real) /\ ssi.pc = "dispatch" /\ Asked.op = "IODONE"
      /\ UNCHANGED <<pcbFree, p_parent, p_child, frame, blocked, received, ready_queue,
                     msg_inbox, current_process, cpu, reg_a1, call, pcb_blocked_on_clock>>
  BY DEF Orderly, DoIoAnswers, Serving, SsiAt, ipcVars, procVars, msgVars, cpuVars
<1>2. /\ d0 \in Device /\ Asker \notin User /\ frame["ssi"] = NoFrame
      /\ dev \in [Device -> Seq(Pcb)] /\ \A d \in Device : Once(dev[d])
  BY <1>1, SsiRuns DEF SsiOp, Base, Frames, ServiceTypes, Staged
<1>3. CASE SsiGoes("receive", NULL) /\ UNCHANGED pcb_blocked_on_device
  <2>1. ssi'.pc = "receive"
    BY <1>3 DEF SsiGoes
  <2>2. UnderConstruction = {} /\ UnderConstruction' = {}
    BY <1>1, <2>1 DEF UnderConstruction
  <2>3. \A x \in User : ~BeingServed(x)' /\ ~BeingAnswered(x)'
    BY <2>1 DEF BeingServed, BeingAnswered
  <2> QED BY <1>1, <1>2, <1>3, <2>1, <2>2, <2>3, SsiMovesOrderly DEF listVars
<1>4. CASE /\ dev[d0] # <<>> /\ SsiGoes("answer", Head(dev[d0]))
           /\ dev' = [dev EXCEPT ![d0] = Tail(@)]
  <2>1. PICK q, r, p : q = dev[d0] /\ r = Tail(q) /\ p = Head(q)
    OBVIOUS
  <2>2. /\ p \in Pcb /\ p \in ToSet(q) /\ ToSet(r) = ToSet(q) \ {p} /\ Once(r)
        /\ dev' = [dev EXCEPT ![d0] = r] /\ ssi'.pc = "answer" /\ ssi'.p = p
    BY <1>2, <1>4, <2>1, TailRange DEF SsiGoes
  <2>3. p \in User /\ p \in ToSet(dev[d0])
    BY <1>1, <1>2, <2>1, <2>2 DEF Base, SsiApart, User
  <2>4. At("device", p) /\ "device" \in Stage
    BY <1>2, <2>3 DEF At, Stage
  <2>5. /\ p \in Live /\ call[p] = [op |-> "DOIO", arg |-> d0]
        /\ \A d \in Device : p \in ToSet(dev[d]) => d = d0
        /\ ~At("clock", p)
    <3>1. OneStage(p)
      BY <1>1, <2>3 DEF Staged
    <3>2. ~At("clock", p)
      BY <2>4, <3>1 DEF OneStage, Stage
    <3>3. \A d \in Device : p \in ToSet(dev[d]) => p \in Live /\ call[p] = [op |-> "DOIO", arg |-> d]
      BY <2>4, <3>1 DEF OneStage, StagedAt
    <3>4. \A d \in Device : p \in ToSet(dev[d]) => p \in Live /\ call[p].arg = d
      <4>1. ASSUME NEW d \in Device, p \in ToSet(dev[d])  PROVE p \in Live /\ call[p].arg = d
        <5>1. p \in Live /\ call[p] = [op |-> "DOIO", arg |-> d]
          BY <3>3, <4>1
        <5>2. [op |-> "DOIO", arg |-> d].arg = d
          OBVIOUS
        <5> QED BY <5>1, <5>2
      <4> QED BY <4>1
    <3>5. p \in Live /\ call[p] = [op |-> "DOIO", arg |-> d0] /\ call[p].arg = d0
      BY <1>2, <2>3, <3>3
    <3> QED BY <3>2, <3>4, <3>5
  <2>6. \A d \in Device : Once(dev'[d]) /\ ToSet(dev'[d]) = ToSet(dev[d]) \ {p}
    BY <1>2, <2>1, <2>2, <2>5
  <2>7. StagedAt("answer", p)'
    <3>1. Asked' = Asked /\ Live' = Live
      BY <1>1 DEF Asked, Live
    <3>2. p \in Live' /\ call'[p] = [op |-> "DOIO", arg |-> Asked'.arg]
      BY <1>1, <2>5, <3>1
    <3> QED BY <2>2, <3>2 DEF StagedAt
  <2>8. ~At("device", p)' /\ ~At("clock", p)'
    <3>1. ~At("device", p)'
      BY <2>6 DEF At
    <3> QED BY <1>1, <2>5, <3>1 DEF At
  <2>9. \A u \in {"device", "clock", "answer"} : At(u, p)' => u = "answer"
    BY <2>8
  <2>10. Once(pcb_blocked_on_clock')
    BY <1>1 DEF Staged
  <2>11. \A x \in User \ {p} : ~BeingAnswered(x)'
    BY <2>2 DEF BeingAnswered
  <2> HIDE DEF dev
  <2>12. \A d \in Device : Once(pcb_blocked_on_device'[d])
    BY <2>6 DEF dev
  <2>13. \A x \in User \ {p} : \A d \in Device : x \in ToSet(pcb_blocked_on_device'[d]) =>
                                        x \in ToSet(pcb_blocked_on_device[d])
    BY <2>6 DEF dev
  <2> QED BY <1>1, <2>2, <2>3, <2>4, <2>7, <2>9, <2>10, <2>11, <2>12, <2>13, QueueMovesOrderly
<1> QED BY <1>3, <1>4 DEF DoIoAnswers

LEMMA ClockAnswersOrderly ==
    ASSUME Orderly, Base', ClockAnswers
    PROVE  Orderly'
<1> DEFINE clk == pcb_blocked_on_clock
<1>1. /\ Base /\ Staged /\ Running(ssi_pcb_real) /\ ssi.pc = "dispatch" /\ Asked.op = "TICK"
      /\ UNCHANGED <<pcbFree, p_parent, p_child, frame, blocked, received, ready_queue,
                     msg_inbox, current_process, cpu, reg_a1, call, pcb_blocked_on_device>>
  BY DEF Orderly, ClockAnswers, Serving, SsiAt, ipcVars, procVars, msgVars, cpuVars
<1>2. Asker \notin User /\ frame["ssi"] = NoFrame /\ clk \in Seq(Pcb) /\ Once(clk)
  BY <1>1, SsiRuns DEF SsiOp, Base, Frames, ServiceTypes, Staged
<1>3. CASE SsiGoes("receive", NULL) /\ UNCHANGED pcb_blocked_on_clock
  <2>1. ssi'.pc = "receive"
    BY <1>3 DEF SsiGoes
  <2>2. UnderConstruction = {} /\ UnderConstruction' = {}
    BY <1>1, <2>1 DEF UnderConstruction
  <2>3. \A x \in User : ~BeingServed(x)' /\ ~BeingAnswered(x)'
    BY <2>1 DEF BeingServed, BeingAnswered
  <2> QED BY <1>1, <1>2, <1>3, <2>1, <2>2, <2>3, SsiMovesOrderly DEF listVars
<1>4. CASE clk # <<>> /\ SsiGoes("tick", Head(clk)) /\ clk' = Tail(clk)
  <2>1. PICK q, r, p : q = clk /\ r = Tail(q) /\ p = Head(q)
    OBVIOUS
  <2>2. /\ p \in Pcb /\ p \in ToSet(q) /\ ToSet(r) = ToSet(q) \ {p} /\ Once(r)
        /\ clk' = r /\ ssi'.pc = "tick" /\ ssi'.p = p
    BY <1>2, <1>4, <2>1, TailRange DEF SsiGoes
  <2>3. p \in User /\ p \in ToSet(clk)
    BY <1>1, <2>1, <2>2 DEF Base, SsiApart, User
  <2>4. At("clock", p) /\ "clock" \in Stage
    BY <2>3 DEF At, Stage
  <2>5. p \in Live /\ call[p].op = "CLOCKWAIT" /\ ~At("device", p)
    <3>1. OneStage(p)
      BY <1>1, <2>3 DEF Staged
    <3> QED BY <2>4, <3>1 DEF OneStage, Stage, StagedAt
  <2>6. StagedAt("answer", p)'
    BY <1>1, <2>2, <2>5 DEF StagedAt, Live
  <2>7. ~At("device", p)' /\ ~At("clock", p)'
    BY <1>1, <2>2, <2>5 DEF At
  <2>8. \A u \in {"device", "clock", "answer"} : At(u, p)' => u = "answer"
    BY <2>7
  <2>9. \A d \in Device : Once(pcb_blocked_on_device'[d])
    BY <1>1 DEF Staged
  <2>10. \A x \in User \ {p} : ~BeingAnswered(x)'
    BY <2>2 DEF BeingAnswered
  <2>11. Once(pcb_blocked_on_clock') /\ \A x \in User \ {p} :
            x \in ToSet(pcb_blocked_on_clock') => x \in ToSet(pcb_blocked_on_clock)
    BY <2>1, <2>2
  <2> HIDE DEF clk
  <2> QED BY <1>1, <2>2, <2>3, <2>4, <2>6, <2>8, <2>9, <2>10, <2>11, QueueMovesOrderly
<1> QED BY <1>3, <1>4 DEF ClockAnswers

LEMMA DoIoCommandsOrderly ==
    ASSUME Orderly, Base', DoIoCommands
    PROVE  Orderly'
<1>1. /\ Base /\ Running(ssi_pcb_real) /\ frame["ssi"] = NoFrame
      /\ ssi.pc = "command" /\ ssi'.pc = "receive"
      /\ UNCHANGED <<pcbFree, p_parent, listVars, frame, blocked, received, ready_queue,
                     msg_inbox, current_process, cpu, reg_a1, call>>
  BY DEF Orderly, DoIoCommands, SsiAt, SsiGoes, ipcVars, procVars, msgVars, cpuVars, Base, Frames
<1>2. UnderConstruction = {} /\ UnderConstruction' = {}
  BY <1>1 DEF UnderConstruction
<1>3. \A x \in User : ~BeingServed(x)' /\ ~BeingAnswered(x)'
  BY <1>1 DEF BeingServed, BeingAnswered
<1> QED BY <1>1, <1>2, <1>3, SsiMovesOrderly
-----------------------------------------------------------------------------
(* A new process.                                                          *)

(* Families grow.                                                          *)
LEMMA GrowingDoom ==
    ASSUME NEW doom, Doomed(doom), Live \subseteq Live',
           \A x \in Pcb : Children(x) \subseteq ToSet(p_child'[x]),
           \A x \in Pcb : doom[x] # NULL => ToSet(p_child'[x]) = Children(x),
           \A p \in User : Roots(p)' = Roots(p),
           \A x \in Pcb : doom[x] # NULL => Meek(x, doom[x])'
    PROVE  Doomed(doom)'
<1>1. \A p \in User : \A x \in Roots(p)' : x \in Pcb /\ doom[x] = p
  BY DEF Doomed
<1>2. \A x \in Pcb : \A y \in ToSet(p_child'[x]) : doom[x] # NULL => doom[y] = doom[x]
  BY DEF Doomed
<1>3. \A T \in SUBSET Pcb : Closed(T)' => Closed(T)
  BY DEF Closed, Children
<1>4. ASSUME NEW x \in Pcb, doom[x] # NULL
      PROVE  /\ doom[x] \in User /\ x \in Live' /\ x # ssi_pcb_real
             /\ \A T \in SUBSET Pcb : Roots(doom[x])' \subseteq T /\ Closed(T)' => x \in T
             /\ Meek(x, doom[x])'
  <2>1. PICK d : d = doom[x]
    OBVIOUS
  <2>2. d \in User /\ x \in Live /\ x # ssi_pcb_real
        /\ \A T \in SUBSET Pcb : Roots(d) \subseteq T /\ Closed(T) => x \in T
    BY <1>4, <2>1 DEF Doomed
  <2>3. Roots(d)' = Roots(d)
    BY <2>2
  <2> QED BY <1>3, <1>4, <2>1, <2>2, <2>3
<1> QED BY <1>1, <1>2, <1>4 DEF Doomed, Children

(* No terminate_process is at work.                                        *)
LEMMA IdleStacks ==
    ASSUME frame["ssi"] = NoFrame, frame["nucleus"] = NoFrame
    PROVE  Stack("ssi") = {} /\ Stack("nucleus") = {} /\ Dying = {}
BY NoQueue DEF Stack, NoFrame, Dying, Actor

LEMMA CreatingOrderly ==
    ASSUME Orderly, Base', Running(ssi_pcb_real), Asked.op = "CREATE",
           ssi.pc \in {"dispatch", "insertChild", "insertReady"},
           ssi'.pc \in {"insertChild", "insertReady", "countRead"},
           UNCHANGED <<frame, current_process, cpu, call, blocked, pcb_blocked_on_device,
                       pcb_blocked_on_clock>>,
           msg_inbox'[ssi_pcb_real] = msg_inbox[ssi_pcb_real],
           received'[ssi_pcb_real] = received[ssi_pcb_real],
           Places', Family', Waiting', Live \subseteq Live',
           \A x \in User : \/ msg_inbox'[x] = msg_inbox[x]
                           \/ x \notin Live /\ msg_inbox'[x] = <<>>,
           \A x \in Pcb : Children(x) \subseteq ToSet(p_child'[x]),
           \A x \in Pcb : x # Asker => ToSet(p_child'[x]) = Children(x)
    PROVE  Orderly'
<1> DEFINE S == ssi_pcb_real
<1>1. /\ Base /\ Places /\ Staged /\ Stacks /\ Unready /\ cpu = "run" /\ Asker' = Asker /\ Asked' = Asked
      /\ frame["ssi"] = NoFrame /\ frame["nucleus"] = NoFrame
  BY SsiRuns DEF Orderly, Asker, Asked, Base, Frames
<1>2. /\ Stack("ssi") = {} /\ Stack("nucleus") = {} /\ Stack("ssi")' = {} /\ Stack("nucleus")' = {}
  BY <1>1, IdleStacks DEF Stack
<1>3. Unready'
  BY <1>1, <1>2 DEF Unready
<1>4. \A x : (BeingServed(x)' <=> BeingServed(x)) /\ ~BeingAnswered(x)'
  BY <1>1 DEF BeingServed, BeingAnswered
<1>5. \A x \in User : (\A s \in Stage : At(s, x)' => At(s, x))
                      /\ Requested(x)' = Requested(x) /\ Replied(x)' \subseteq Replied(x)
  <2>1. ASSUME NEW x \in User  PROVE Requested(x)' = Requested(x) /\ Replied(x)' \subseteq Replied(x)
    BY NoQueue DEF Requested, Replied, From, Among
  <2>2. ASSUME NEW x \in User, NEW s \in Stage, At(s, x)'  PROVE At(s, x)
    <3>1. Requested(x)' = Requested(x) /\ Replied(x)' \subseteq Replied(x)
      BY <2>1
    <3> QED BY <1>4, <2>2, <3>1 DEF At
  <2> QED BY <2>1, <2>2
<1>6. ASSUME NEW x \in User  PROVE OneStage(x)'
  <2>1. /\ OneStage(x) /\ x \in Pcb
        /\ AtMostOne(msg_inbox'[S], From(x)) /\ AtMostOne(msg_inbox'[x], From(SSI_FAKE_ADDR))
    <3>1. OneStage(x)
      BY <1>1 DEF Staged
    <3>2. AtMostOne(<<>>, From(SSI_FAKE_ADDR))
      BY NoQueue DEF AtMostOne
    <3> QED BY <3>1, <3>2 DEF OneStage, User
  <2>2. CASE x \in Live
    <3>1. BeingServed(x)' => BeingServed(x) /\ Asked' = Asked /\ (x \in Live \/ ssi'.pc = "terminate")
      BY <1>1, <1>4, <2>2
    <3>2. x \in Live' <=> x \in Live
      BY <2>2
    <3> QED BY <1>4, <1>5, <2>1, <3>1, <3>2, StageKept
  <2>3. CASE x \notin Live
    <3>1. \A s \in Stage : ~At(s, x)
      BY <1>1, <2>3, StageFacts
    <3>2. \A s \in Stage : ~At(s, x)'
      BY <1>5, <3>1
    <3> QED BY <2>1, <3>2, NewStage DEF Stage
  <2> QED BY <2>2, <2>3
<1>7. Staged'
  BY <1>1, <1>6 DEF Staged, Trapped
<1>8. ASSUME NEW x \in User  PROVE CallRoots(x)' = CallRoots(x)
  <2>1. CASE ssi.pc = "dispatch"
    BY <1>1, <2>1, DispatchedRoots
  <2>2. CASE ssi.pc # "dispatch"
    <3>1. At("inbox", x)' <=> At("inbox", x)
      BY <1>5 DEF At
    <3>2. Pending(x)' <=> Pending(x)
      BY <2>2, <3>1 DEF Pending
    <3> QED BY <3>2, CallRootsKept
  <2> QED BY <2>1, <2>2
<1>9. \A x \in User : Roots(x)' = Roots(x)
  BY <1>1, <1>2, <1>8 DEF Roots, SsiRoots, NucleusRoots, Trapped
<1>10. Stacks'
  <2>1. \A a \in Actor : Stack(a)' = {} /\ Once(frame'[a].stack)
    BY <1>1, <1>2 DEF Actor, Stacks
  <2>2. \A x \in User : \A r \in CallRoots(x)' : (r = x /\ Ending(x)') \/ r \in Children(x)'
    <3>1. \A x \in User : \A r \in CallRoots(x) : (r = x /\ Ending(x)) \/ r \in Children(x)
      BY <1>1 DEF Stacks
    <3>2. \A x \in User : Children(x) \subseteq Children(x)'
      BY DEF Children, User
    <3>3. \A x \in User : Ending(x)' <=> Ending(x)
      BY DEF Ending
    <3> QED BY <1>8, <3>1, <3>2, <3>3
  <2>3. frame'["ssi"].pc # "outChild"
    BY <1>1, GoodNoFrame
  <2> QED BY <2>1, <2>2, <2>3 DEF Stacks
<1>11. PICK doom \in [Pcb -> Pcb \cup {NULL}] : Doomed(doom)
  BY DEF Orderly
<1>12. BeingServed(Asker) /\ Asker \in User
  BY <1>1, SsiRuns DEF BeingServed, SsiOp
<1>13. doom[Asker] = NULL
  <2>1. Asker \in Live /\ call[Asker] = Asked
    BY <1>1, <1>12, ServedCalls
  <2>2. call[Asker].op = "CREATE"
    BY <2>1
  <2>3. ~Meek(Asker, doom[Asker])
    BY <1>1, <2>2, CallOps DEF Meek, AtPeace, Ending, Trapped, SsiOp
  <2> QED BY <1>11, <1>12, <2>3 DEF Doomed, User
<1>14. \A x \in Pcb : doom[x] # NULL => ToSet(p_child'[x]) = Children(x)
  BY <1>13
<1>15. \A x \in Pcb : doom[x] # NULL => Meek(x, doom[x])'
  <2>1. ASSUME NEW x \in Pcb, doom[x] # NULL  PROVE Meek(x, doom[x])'
    <3>1. Meek(x, doom[x]) /\ cpu # "kernel"
      BY <1>1, <1>11, <2>1 DEF Doomed
    <3> QED BY <3>1, MeekKept
  <2> QED BY <2>1
<1>16. Doomed(doom)'
  BY <1>9, <1>11, <1>14, <1>15, GrowingDoom
<1> QED BY <1>3, <1>7, <1>10, <1>16 DEF Orderly

LEMMA CreateAllocatesOrderly ==
    ASSUME Orderly, Base', CreateAllocates
    PROVE  Orderly'
<1>1. /\ Base /\ Places /\ Family /\ Waiting /\ Staged
      /\ Running(ssi_pcb_real) /\ ssi.pc = "dispatch" /\ Asked.op = "CREATE"
      /\ UNCHANGED <<ready_queue, blocked, current_process, cpu, frame, call,
                     pcb_blocked_on_device, pcb_blocked_on_clock>>
  BY DEF Orderly, CreateAllocates, Serving, SsiAt, keepCpu
<1>2. frame["ssi"] = NoFrame /\ frame["nucleus"] = NoFrame /\ cpu = "run"
  BY <1>1, SsiRuns DEF Base, Frames
<1>3. UnderConstruction = {} /\ Dying = {} /\ Dying' = {}
  BY <1>1, <1>2, IdleStacks DEF UnderConstruction, Dying, Actor
<1>4. CASE SsiGoes("reply", NOPROC) /\ UNCHANGED <<pcbFree, p_parent, p_child, reg_a1, msg_inbox, received>>
  <2>1. ssi'.pc = "reply"
    BY <1>4 DEF SsiGoes
  <2>2. UnderConstruction' = {}
    BY <2>1 DEF UnderConstruction
  <2>3. \A x \in User : BeingServed(x)' => BeingServed(x) /\ x \in Live
    <3>1. \A x \in User : BeingServed(x)' => BeingServed(x)
      BY <1>1, <1>4 DEF BeingServed, Asker
    <3>2. \A x \in User : BeingServed(x) => x \in Live
      BY <1>1, ServedCalls
    <3> QED BY <3>1, <3>2
  <2>4. \A x \in User : ~BeingAnswered(x)'
    BY <2>1 DEF BeingAnswered
  <2> QED BY <1>1, <1>2, <1>3, <1>4, <2>1, <2>2, <2>3, <2>4, SsiMovesOrderly DEF listVars
<1>5. ASSUME NEW p \in Pcb, allocPcb(p), SsiGoes("insertChild", p)  PROVE Orderly'
  <2>1. /\ pcbFree # <<>> /\ p = Head(pcbFree) /\ pcbFree' = Tail(pcbFree)
        /\ ssi'.pc = "insertChild" /\ ssi'.p = p
    BY <1>5 DEF allocPcb, SsiGoes
  <2>2. /\ p \in ToSet(pcbFree) /\ ToSet(pcbFree') = ToSet(pcbFree) \ {p} /\ Once(pcbFree')
    BY <1>1, <2>1, TailRange DEF Base, TypeOK, Places
  <2>3. p \notin Live /\ Live' = Live \cup {p} /\ ssi_pcb_real \in Live /\ UnderConstruction' = {p}
    BY <1>1, <2>1, <2>2 DEF Live, UnderConstruction, Base, CpuWorks
  <2>4. /\ p_parent \in [Pcb -> Pcb \cup {NULL}] /\ p_child \in [Pcb -> Seq(Pcb)]
        /\ reg_a1 \in [Pcb -> {SCRATCH, ANYMESSAGE} \cup Sender] /\ received \in [Pcb -> Message \cup {NoMessage}]
        /\ msg_inbox \in [Pcb -> Seq(Message)]
    BY <1>1 DEF Base, TypeOK, ServiceTypes
  <2>5. /\ p_parent'[p] = NULL /\ p_child'[p] = <<>> /\ msg_inbox'[p] = <<>>
        /\ \A x \in Pcb : x # p => /\ p_parent'[x] = p_parent[x] /\ p_child'[x] = p_child[x]
                                   /\ reg_a1'[x] = reg_a1[x] /\ received'[x] = received[x]
                                   /\ msg_inbox'[x] = msg_inbox[x]
    BY <1>5, <2>4 DEF allocPcb
  <2>6. Places'
    BY <1>1, <1>2, <1>3, <2>2, <2>3 DEF Places, Ready
  <2>7. /\ \A x \in Pcb : \A q \in Children(x) : x \in Live /\ q \in Live /\ p_parent[q] = x
        /\ Children(p) = {} /\ p \in Pcb
    BY <1>1, <2>3 DEF Family
  <2>8. /\ ToSet(p_child'[p]) = {} /\ Once(p_child'[p])
        /\ \A x \in Pcb : ToSet(p_child'[x]) = Children(x)
    BY <2>5, <2>7, NoQueue DEF Children
  <2>9. Family'
    <3>1. \A x \in Pcb : Once(p_child'[x])
      BY <1>1, <2>5, <2>8 DEF Family
    <3>2. ASSUME NEW x \in Pcb, NEW q \in Children(x)
          PROVE x \in Live' /\ q \in Live' /\ p_parent'[q] = x
      <4>1. x \in Live /\ q \in Live /\ p_parent[q] = x
        BY <2>7, <3>2
      <4>2. q \in Pcb /\ q # p
        BY <2>3, <4>1 DEF Live
      <4> QED BY <2>3, <2>5, <4>1, <4>2
    <3>3. ASSUME NEW q \in Live', q # p, p_parent'[q] # NULL
          PROVE q \in ToSet(p_child'[p_parent'[q]])
      <4>1. q \in Pcb /\ q \in Live
        BY <2>3, <3>3 DEF Live
      <4>2. PICK y : y = p_parent[q]
        OBVIOUS
      <4>3. p_parent'[q] = y /\ y \in Pcb
        BY <2>4, <2>5, <3>3, <4>1, <4>2
      <4>4. q \in Children(y)
        BY <1>1, <1>3, <3>3, <4>1, <4>2, <4>3 DEF Family
      <4> QED BY <2>8, <4>3, <4>4
    <3>4. UnderConstruction' = {p} /\ p_parent'[ssi'.p] = NULL /\ p_child'[p] = <<>>
          /\ ssi'.pc # "insertReady"
      BY <2>1, <2>3, <2>5
    <3>5. \A x \in Pcb : Children(x)' = ToSet(p_child'[x]) /\ Children(x)' = Children(x)
      BY <2>8 DEF Children
    <3>6. \A q \in Live' \ (UnderConstruction' \cup Dying') :
            p_parent'[q] # NULL => q \in ToSet(p_child'[p_parent'[q]])
      BY <3>3, <3>4
    <3>7. \A x \in Pcb : \A q \in ToSet(p_child'[x]) : x \in Live' /\ q \in Live' /\ p_parent'[q] = x
      BY <2>8, <3>2
    <3> HIDE DEF Dying
    <3> QED BY <3>1, <3>4, <3>6, <3>7 DEF Family, Children
  <2>10. Waiting'
    <3>1. ASSUME NEW x \in Pcb  PROVE WaitsFor(x)'
      <4>1. WaitsFor(x)
        BY <1>1 DEF Waiting
      <4>2. CASE x = p
        <5>1. x \notin Live /\ x \notin blocked
          BY <1>1, <2>3, <4>2 DEF Places
        <5>2. call[x] = NoCall
          BY <4>1, <5>1 DEF WaitsFor
        <5> QED BY <1>1, <5>1, <5>2, CallOps DEF WaitsFor
      <4>3. CASE x # p
        BY <1>1, <2>3, <2>5, <4>1, <4>3 DEF WaitsFor
      <4> QED BY <4>2, <4>3
    <3> QED BY <3>1 DEF Waiting
  <2>11. /\ msg_inbox'[ssi_pcb_real] = msg_inbox[ssi_pcb_real]
         /\ received'[ssi_pcb_real] = received[ssi_pcb_real]
    BY <2>3, <2>5, Names
  <2>12. \A x \in User : msg_inbox'[x] = msg_inbox[x] \/ (x \notin Live /\ msg_inbox'[x] = <<>>)
    BY <2>3, <2>5 DEF User
  <2> QED BY <1>1, <2>1, <2>3, <2>6, <2>8, <2>9, <2>10, <2>11, <2>12, CreatingOrderly
<1>6. \/ SsiGoes("reply", NOPROC) /\ UNCHANGED <<pcbFree, p_parent, p_child, reg_a1, msg_inbox, received>>
      \/ \E p \in Pcb : allocPcb(p) /\ SsiGoes("insertChild", p)
  BY DEF CreateAllocates
<1> QED BY <1>4, <1>5, <1>6

LEMMA CreateInsertsChildOrderly ==
    ASSUME Orderly, Base', CreateInsertsChild
    PROVE  Orderly'
<1>0. PICK c, p : c = ssi.p /\ p = Asker
  OBVIOUS
<1>1. /\ Base /\ Places /\ Family /\ Waiting /\ Staged
      /\ Running(ssi_pcb_real) /\ ssi.pc = "insertChild" /\ ssi'.pc = "insertReady" /\ ssi'.p = c
      /\ p_parent' = [p_parent EXCEPT ![c] = p]
      /\ p_child' = [p_child EXCEPT ![p] = Append(@, c)]
      /\ UNCHANGED <<pcbFree, msg_inbox, blocked, received, ready_queue, current_process, cpu,
                     reg_a1, frame, call, pcb_blocked_on_device, pcb_blocked_on_clock>>
  BY <1>0 DEF Orderly, CreateInsertsChild, SsiAt, SsiGoes, msgVars, cpuVars
<1>2. /\ frame["ssi"] = NoFrame /\ frame["nucleus"] = NoFrame /\ cpu = "run"
      /\ Asked.op = "CREATE" /\ p \in User /\ p \in Pcb /\ c \in Pcb /\ Asker' = p
  BY <1>0, <1>1, SsiRuns DEF Base, Frames, SsiWork, Creating, SsiOp, User, Asker
<1>3. /\ UnderConstruction = {c} /\ UnderConstruction' = {c} /\ Dying = {} /\ Dying' = {}
  BY <1>0, <1>1, <1>2, IdleStacks DEF UnderConstruction, Dying, Actor
<1>4. p \in Live /\ p # c /\ call[p] # NoCall
  <2>1. BeingServed(p)
    BY <1>0, <1>1 DEF BeingServed
  <2>2. p \in Live /\ call[p] = Asked
    BY <1>1, <1>2, <2>1, ServedCalls
  <2>3. call[p] # NoCall /\ WaitsFor(p)
    BY <1>1, <1>2, <2>2, CallOps DEF Waiting, SsiOp
  <2> QED BY <1>3, <2>2, <2>3 DEF WaitsFor
<1>5. /\ p_parent \in [Pcb -> Pcb \cup {NULL}] /\ p_child \in [Pcb -> Seq(Pcb)]
      /\ p_parent[c] = NULL /\ c \in Live /\ NULL \notin Pcb
  BY <1>0, <1>1, <1>3, Names DEF Base, TypeOK, ServiceTypes, Family, Places
<1>6. PICK q, r : q = p_child[p] /\ r = Append(q, c)
  OBVIOUS
<1>7. /\ \A x \in Pcb : Once(p_child[x])
      /\ \A x \in Pcb : \A y \in Children(x) : x \in Live /\ y \in Live /\ p_parent[y] = x
      /\ \A y \in Live \ {c} : p_parent[y] # NULL => y \in Children(p_parent[y])
      /\ p_child[c] = <<>>
  BY <1>1, <1>3 DEF Family
<1>8. q \in Seq(Pcb) /\ c \notin ToSet(q) /\ Once(q)
  BY <1>2, <1>5, <1>6, <1>7 DEF Children
<1>9. ToSet(r) = ToSet(q) \cup {c} /\ Once(r)
  BY <1>2, <1>6, <1>8, AppendRange, AppendOnce
<1>10. /\ p_parent'[c] = p /\ \A x \in Pcb : x # c => p_parent'[x] = p_parent[x]
       /\ p_child'[p] = r /\ \A x \in Pcb : x # p => p_child'[x] = p_child[x]
  BY <1>1, <1>2, <1>5, <1>6
<1>11. ToSet(p_child'[p]) = Children(p) \cup {c} /\ \A x \in Pcb : x # p => ToSet(p_child'[x]) = Children(x)
  BY <1>6, <1>9, <1>10 DEF Children
<1>12. Live' = Live
  BY <1>1 DEF Live
<1>13. Places'
  BY <1>1, <1>3, <1>12 DEF Places, Ready
<1>14. Family'
  <2>1. \A x \in Pcb : Once(p_child'[x])
    BY <1>7, <1>9, <1>10
  <2>2. ASSUME NEW x \in Pcb, NEW y \in ToSet(p_child'[x])
        PROVE  x \in Live' /\ y \in Live' /\ p_parent'[y] = x
    <3>1. CASE y \in Children(x)
      <4>1. x \in Live /\ y \in Live /\ p_parent[y] = x /\ y # c
        BY <1>5, <1>7, <2>2, <3>1
      <4> QED BY <1>10, <1>12, <4>1 DEF Live
    <3>2. CASE y \notin Children(x)
      <4>1. x = p /\ y = c
        BY <1>11, <2>2, <3>2
      <4> QED BY <1>4, <1>5, <1>10, <1>12, <4>1
    <3> QED BY <3>1, <3>2
  <2>3. ASSUME NEW y \in Live', y # c, p_parent'[y] # NULL
        PROVE  y \in ToSet(p_child'[p_parent'[y]])
    <3>1. PICK x : x = p_parent[y]
      OBVIOUS
    <3>2. y \in Pcb /\ y \in Live /\ p_parent'[y] = x /\ x \in Pcb /\ y \in Children(x)
      BY <1>5, <1>7, <1>10, <1>12, <2>3, <3>1 DEF Live
    <3> QED BY <1>11, <3>2
  <2>4. ssi'.pc # "insertChild" /\ p_parent'[ssi'.p] = Asker' /\ ssi'.p \in ToSet(p_child'[Asker'])
    BY <1>1, <1>2, <1>10, <1>11
  <2>5. \A y \in UnderConstruction' : p_child'[y] = <<>>
    BY <1>2, <1>3, <1>4, <1>7, <1>10
  <2>6. \A y \in Live' \ (UnderConstruction' \cup Dying') :
            p_parent'[y] # NULL => y \in ToSet(p_child'[p_parent'[y]])
    BY <1>3, <2>3
  <2> HIDE DEF Dying
  <2> QED BY <2>1, <2>2, <2>4, <2>5, <2>6 DEF Family, Children
<1>15. Waiting'
  <2>1. \A x \in Pcb : WaitsFor(x)
    BY <1>1 DEF Waiting
  <2>2. \A x \in Pcb : WaitsFor(x)'
    BY <1>1, <1>3, <2>1, WaitsOn
  <2> QED BY <2>2 DEF Waiting
<1>16. \A x \in Pcb : Children(x) \subseteq ToSet(p_child'[x])
  BY <1>11
<1>17. \A x \in Pcb : x # Asker => ToSet(p_child'[x]) = Children(x)
  BY <1>0, <1>11
<1> QED BY <1>1, <1>2, <1>12, <1>13, <1>14, <1>15, <1>16, <1>17, CreatingOrderly

LEMMA CreateInsertsReadyOrderly ==
    ASSUME Orderly, Base', CreateInsertsReady
    PROVE  Orderly'
<1>0. PICK c : c = ssi.p
  OBVIOUS
<1>1. /\ Base /\ Places /\ Family /\ Waiting /\ Staged
      /\ Running(ssi_pcb_real) /\ ssi.pc = "insertReady" /\ ssi'.pc = "countRead"
      /\ ready_queue' = Append(ready_queue, c)
      /\ UNCHANGED <<pcbFree, p_parent, p_child, msg_inbox, blocked, received, current_process, cpu,
                     reg_a1, frame, call, pcb_blocked_on_device, pcb_blocked_on_clock>>
  BY <1>0 DEF Orderly, CreateInsertsReady, SsiAt, SsiGoes, procVars, msgVars, keepCpu, listVars
<1>2. /\ frame["ssi"] = NoFrame /\ frame["nucleus"] = NoFrame /\ cpu = "run"
      /\ Asked.op = "CREATE" /\ c \in Pcb /\ Asker \in User
  BY <1>0, <1>1, SsiRuns DEF Base, Frames, SsiWork, Creating, SsiOp, User
<1>3. /\ UnderConstruction = {c} /\ UnderConstruction' = {} /\ Dying = {} /\ Dying' = {}
  BY <1>0, <1>1, <1>2, IdleStacks DEF UnderConstruction, Dying, Actor
<1>4. Live' = Live /\ c \in Live /\ c \notin Ready /\ c \notin blocked /\ c # current_process
  BY <1>1, <1>3 DEF Live, Places
<1>5. ready_queue \in Seq(Pcb) /\ Once(ready_queue) /\ c \notin ToSet(ready_queue)
  BY <1>1, <1>4 DEF Base, TypeOK, Places, Ready
<1>6. Ready' = Ready \cup {c} /\ Once(ready_queue')
  BY <1>1, <1>2, <1>5, AppendRange, AppendOnce DEF Ready
<1>7. Places'
  BY <1>1, <1>3, <1>4, <1>6 DEF Places
<1>8. Family'
  <2>1. p_parent[c] = Asker /\ c \in Children(Asker)
    BY <1>0, <1>1 DEF Family
  <2>2. \A q \in Live : p_parent[q] # NULL => q \in Children(p_parent[q])
    <3>1. \A q \in Live : q # c => (p_parent[q] # NULL => q \in Children(p_parent[q]))
      BY <1>1, <1>3 DEF Family
    <3> QED BY <2>1, <3>1
  <2>3. \A q \in Live' : p_parent'[q] # NULL => q \in ToSet(p_child'[p_parent'[q]])
    BY <1>1, <1>4, <2>2 DEF Children
  <2>4. /\ \A x \in Pcb : Once(p_child'[x])
        /\ \A x \in Pcb : \A q \in ToSet(p_child'[x]) : x \in Live' /\ q \in Live' /\ p_parent'[q] = x
    BY <1>1, <1>4 DEF Family, Children
  <2> QED BY <1>1, <1>3, <2>3, <2>4 DEF Family, Children
<1>9. Waiting'
  <2>1. \A x \in Pcb : WaitsFor(x)
    BY <1>1 DEF Waiting
  <2>2. \A x \in Pcb : WaitsFor(x)'
    BY <1>1, <1>3, <1>4, <2>1 DEF WaitsFor
  <2> QED BY <2>2 DEF Waiting
<1>10. \A x \in Pcb : ToSet(p_child'[x]) = Children(x)
  BY <1>1 DEF Children
<1> QED BY <1>1, <1>2, <1>4, <1>7, <1>8, <1>9, <1>10, CreatingOrderly
-----------------------------------------------------------------------------
(* terminate_process.                                                      *)
LEMMA SsiTerminatesOrderly ==
    ASSUME Orderly, Base', SsiTerminates
    PROVE  Orderly'
<1>0. PICK p, r : p = Asker /\ r = IF Asked.op = "BAD" \/ Asked.arg = NULL THEN Asker ELSE Asked.arg
  OBVIOUS
<1>1. /\ Base /\ Places /\ Unready /\ Family /\ Waiting /\ Staged /\ Stacks
      /\ Running(ssi_pcb_real) /\ ssi.pc = "dispatch" /\ Asked.op \in {"TERM", "BAD"}
      /\ ssi'.pc = "terminate" /\ Enter("ssi", r, <<>>)
      /\ UNCHANGED <<pcbFree, p_parent, p_child, msg_inbox, blocked, received, ready_queue,
                     current_process, reg_a1, call, pcb_blocked_on_device, pcb_blocked_on_clock>>
  BY <1>0 DEF Orderly, SsiTerminates, Serving, SsiAt, SsiGoes, procVars, msgVars, listVars
<1>2. /\ frame["ssi"] = NoFrame /\ frame["nucleus"] = NoFrame /\ cpu = "run"
      /\ p \in User /\ Asked \in Request /\ (Asked.op = "TERM" => Asked.arg # ssi_pcb_real)
  BY <1>0, <1>1, SsiRuns DEF Base, Frames, SsiOp
<1>3. BeingServed(p) /\ At("served", p) /\ "served" \in Stage /\ "inbox" \in Stage
  BY <1>0, <1>1 DEF BeingServed, At, Stage
<1>4. p \in Live /\ call[p] = Asked
  BY <1>1, <1>2, <1>3, ServedCalls
<1>5. r \in Pcb => r # ssi_pcb_real
  BY <1>0, <1>1, <1>2 DEF User
<1>6. CallRoots(p) = {r} \cap Pcb /\ (Ending(p) => r = p) /\ (~Ending(p) => call[p].op = "TERM")
  <2>1. Pending(p) /\ p \in Pcb
    BY <1>1, <1>2, <1>3 DEF Pending, User
  <2>2. CASE Ending(p)
    <3>1. r = p
      BY <1>0, <1>4, <2>2 DEF Ending
    <3> QED BY <2>1, <2>2, <3>1 DEF CallRoots
  <2>3. CASE ~Ending(p)
    <3>1. call[p].op = "TERM" /\ r = call[p].arg
      BY <1>0, <1>1, <1>4, <2>3 DEF Ending
    <3> QED BY <2>1, <2>3, <3>1 DEF CallRoots
  <2> QED BY <2>2, <2>3
<1>7. PICK doom \in [Pcb -> Pcb \cup {NULL}] : Doomed(doom)
  BY DEF Orderly
<1>8. r \in Pcb => r \in Live
  BY <1>2, <1>6, <1>7, Names DEF Doomed, Roots, User
<1>9. PICK f : f = Called(r, <<>>)
  OBVIOUS
<1>10. frame'["ssi"] = f /\ frame'["nucleus"] = NoFrame /\ cpu' = "run"
  <2>1. r # ssi_pcb_real
    BY <1>5, Names
  <2>2. frame' = [frame EXCEPT !["ssi"] = f] /\ cpu' = cpu
    BY <1>1, <1>9, <2>1 DEF Enter, Called
  <2>3. /\ "ssi" \in Actor /\ "nucleus" \in Actor /\ frame' = [frame EXCEPT !["ssi"] = f]
        /\ DOMAIN frame = Actor
    BY <1>1, <2>2 DEF Base, FrameType, Actor
  <2>4. frame'["ssi"] = f /\ frame'["nucleus"] = frame["nucleus"]
    BY <2>3
  <2> QED BY <1>2, <2>2, <2>4
<1>11. ToSet(f.stack) = {r} \cap Pcb /\ Once(f.stack) /\ (f.pc = "outChild" => r \in Pcb)
       /\ (r \in Pcb => Head(f.stack) = r /\ f.pc = "outChild")
  <2>1. <<>> \in Seq(Pcb) /\ ToSet(<<>>) = {} /\ Once(<<>>)
    BY NoQueue
  <2>2. CASE r \in Pcb
    <3>1. PICK q : q = <<>>
      OBVIOUS
    <3>2. f.stack = <<r>> \o q /\ f.pc = "outChild"
      BY <1>5, <1>8, <1>9, <2>1, <2>2, <3>1, GoodCalled DEF isPcbValid
    <3>3. q \in Seq(Pcb) /\ ToSet(q) = {} /\ Once(q) /\ r \notin ToSet(q)
      BY <2>1, <3>1
    <3>4. /\ Head(<<r>> \o q) = r /\ ToSet(<<r>> \o q) = {r} \cup ToSet(q) /\ Once(<<r>> \o q)
      BY <2>2, <3>3, Push
    <3> QED BY <2>2, <3>2, <3>3, <3>4
  <2>3. CASE r \notin Pcb
    <3>1. ~isPcbValid(r)
      BY <2>3 DEF isPcbValid, Live
    <3>2. f = Resume(<<>>)
      BY <1>5, <1>9, <2>1, <3>1, GoodCalled
    <3>3. f = NoFrame
      BY <3>2 DEF Resume
    <3> QED BY <2>1, <2>3, <3>3, GoodNoFrame
  <2> QED BY <2>2, <2>3
<1>12. /\ Stack("ssi")' = {r} \cap Pcb /\ Stack("nucleus")' = {} /\ Victim("ssi")' = Head(f.stack)
       /\ Stack("ssi") = {} /\ Stack("nucleus") = {}
  BY <1>2, <1>10, <1>11, IdleStacks, GoodNoFrame, NoQueue DEF Stack, Victim
<1>13. Live' = Live /\ Asker' = p /\ Asked' = Asked /\ UnderConstruction = {} /\ UnderConstruction' = {}
  BY <1>0, <1>1 DEF Live, Asker, Asked, UnderConstruction
<1>14. Dying = {} /\ Dying \subseteq Dying'
  BY <1>2, IdleStacks
<1>15. Places'
  BY <1>1, <1>2, <1>10, <1>13, <1>14 DEF Places, Ready
<1>16. Unready'
  BY <1>10, <1>11, <1>12 DEF Unready, Ready
<1>17. Family'
  <2>1. \A x : Children(x)' = Children(x)
    BY <1>1 DEF Children
  <2>2. \A q \in Live' \ (UnderConstruction' \cup Dying') : q \in Live \ (UnderConstruction \cup Dying)
    BY <1>13, <1>14
  <2>3. \A q \in Live' \ (UnderConstruction' \cup Dying') :
           p_parent'[q] # NULL => q \in ToSet(p_child'[p_parent'[q]])
    BY <1>1, <2>2 DEF Family, Children
  <2>4. /\ \A x \in Pcb : Once(p_child'[x])
        /\ \A x \in Pcb : \A q \in ToSet(p_child'[x]) : x \in Live' /\ q \in Live' /\ p_parent'[q] = x
    BY <1>1, <1>13 DEF Family, Children
  <2> HIDE DEF Dying
  <2> QED BY <1>1, <1>13, <2>3, <2>4 DEF Family, Children
<1>18. Waiting'
  <2>1. \A x \in Pcb : WaitsFor(x)
    BY <1>1 DEF Waiting
  <2>2. \A x \in Pcb : WaitsFor(x)'
    BY <1>1, <1>13, <2>1, WaitsOn
  <2> QED BY <2>2 DEF Waiting
<1>19. \A x : (BeingServed(x)' => BeingServed(x)) /\ ~BeingAnswered(x)'
  BY <1>0, <1>1, <1>13 DEF BeingServed, BeingAnswered
<1>20. \A x \in User : OneStage(x) /\ Requested(x)' = Requested(x) /\ Replied(x)' = Replied(x)
  BY <1>1 DEF Staged, Requested, Replied, From
<1>21. \A x \in User : AtMostOne(msg_inbox'[ssi_pcb_real], From(x)) /\ AtMostOne(msg_inbox'[x], From(SSI_FAKE_ADDR))
  BY <1>1, <1>20 DEF OneStage
<1>22. \A x \in User : OneStage(x)'
  BY <1>1, <1>13, <1>19, <1>20, <1>21, StageKept
<1>23. Staged'
  BY <1>1, <1>10, <1>22 DEF Staged, Trapped
<1>24. CallRoots(p)' = {}
  <2>1. ~At("inbox", p)
    BY <1>1, <1>2, <1>3 DEF Staged, OneStage
  <2>2. ~At("inbox", p)'
    BY <1>2, <1>20, <2>1 DEF At
  <2> QED BY <1>1, <2>2 DEF CallRoots, Pending
<1>25. ASSUME NEW x \in User, x # p  PROVE CallRoots(x)' = CallRoots(x)
  <2>1. ~BeingServed(x) /\ ~BeingServed(x)'
    BY <1>0, <1>19, <1>25 DEF BeingServed
  <2>2. At("inbox", x)' <=> At("inbox", x)
    BY <1>20 DEF At
  <2>3. Pending(x)' <=> Pending(x)
    BY <2>1, <2>2 DEF Pending
  <2> QED BY <1>1, <2>3, CallRootsKept
<1>26. \A x \in User : Roots(x)' = Roots(x)
  <2>1. \A x \in User : NucleusRoots(x) = {} /\ NucleusRoots(x)' = {} /\ SsiRoots(x) = {}
    BY <1>1, <1>2, <1>10, <1>12 DEF NucleusRoots, Trapped, SsiRoots
  <2>2. SsiRoots(p)' = CallRoots(p)
    BY <1>1, <1>6, <1>12, <1>13 DEF SsiRoots
  <2>3. \A x \in User : x # p => SsiRoots(x)' = {}
    BY <1>13 DEF SsiRoots
  <2>4. Roots(p)' = Roots(p)
    BY <1>2, <1>24, <2>1, <2>2 DEF Roots
  <2>5. \A x \in User : x # p => Roots(x)' = Roots(x)
    BY <1>25, <2>1, <2>3 DEF Roots
  <2> QED BY <2>4, <2>5
<1>27. Stacks'
  <2>1. \A b \in Actor : Once(frame'[b].stack)
    BY <1>10, <1>11, GoodNoFrame, NoQueue DEF Actor
  <2>2. \A b \in Actor : \A x \in Stack(b)' : x = Victim(b)' /\ frame'[b].pc = "outChild"
    BY <1>10, <1>11, <1>12 DEF Actor
  <2>3. \A x \in User : \A y \in CallRoots(x)' : (y = x /\ Ending(x)') \/ y \in Children(x)'
    <3>1. \A x \in User : \A y \in CallRoots(x) : (y = x /\ Ending(x)) \/ y \in Children(x)
      BY <1>1 DEF Stacks
    <3>2. \A x \in User : CallRoots(x)' \subseteq CallRoots(x)
      BY <1>24, <1>25
    <3> QED BY <1>1, <3>1, <3>2 DEF Ending, Children
  <2>4. frame'["ssi"].pc = "outChild" =>
           \/ Victim("ssi")' = Asker' /\ Ending(Asker)'
           \/ p_parent'[Victim("ssi")'] = Asker' /\ call'[Asker'].op = "TERM"
    <3>1. SUFFICES ASSUME r \in Pcb
                   PROVE  (r = p /\ Ending(p)) \/ (p_parent[r] = p /\ call[p].op = "TERM")
      BY <1>1, <1>10, <1>11, <1>12, <1>13 DEF Ending
    <3>2. (r = p /\ Ending(p)) \/ r \in Children(p)
      BY <1>1, <1>2, <1>6, <3>1 DEF Stacks
    <3>3. r \in Children(p) => p_parent[r] = p
      BY <1>1, <1>2 DEF Family, User
    <3> QED BY <1>6, <3>2, <3>3
  <2> QED BY <2>1, <2>2, <2>3, <2>4 DEF Stacks
<1>28. \A x \in Pcb : ToSet(p_child'[x]) = Children(x)
  BY <1>1 DEF Children
<1>29. \A x \in Pcb : doom[x] # NULL => Meek(x, doom[x])'
  <2>1. ASSUME NEW x \in Pcb, doom[x] # NULL  PROVE Meek(x, doom[x])'
    <3>1. Meek(x, doom[x]) /\ cpu # "kernel"
      BY <1>2, <1>7, <2>1 DEF Doomed
    <3> QED BY <1>1, <3>1, MeekKept
  <2> QED BY <2>1
<1>30. Doomed(doom)'
  BY <1>7, <1>13, <1>26, <1>28, <1>29, GrowingDoom
<1> QED BY <1>7, <1>15, <1>16, <1>17, <1>18, <1>23, <1>27, <1>30 DEF Orderly

(* Whose request or trap a terminate_process carries out.                  *)
Owns(doom, a, o) ==
    /\ o \in User /\ Roots(o) = Stack(a) /\ CallRoots(o) = {}
    /\ a = "ssi" => cpu = "run" /\ ssi.pc = "terminate" /\ Asker = o /\ Stack("nucleus") = {}
    /\ a = "nucleus" => Trapped(o) /\ ~BeingServed(o)
    /\ \A x \in Stack(a) : x \in User /\ x \in Live /\ x \notin UnderConstruction /\ doom[x] = o
    /\ \A b \in Actor : \A x \in Stack(b) : b # a => doom[x] # o

LEMMA TermOwner ==
    ASSUME Orderly, NEW doom, Doomed(doom), NEW a \in Actor, NEW pc \in FramePc \ {"idle"},
           TermAt(a, pc)
    PROVE  \E o : Owns(doom, a, o)
<1>1. /\ Base /\ Places /\ Waiting /\ Staged /\ Victim(a) \in Stack(a)
      /\ a = "ssi" => cpu = "run"
      /\ a = "nucleus" => cpu = "kernel"
  BY TermActs DEF Orderly, Stack
<1>2. \E o \in User :
         /\ Roots(o) = Stack(a) /\ CallRoots(o) = {}
         /\ a = "ssi" => cpu = "run" /\ ssi.pc = "terminate" /\ Asker = o /\ Stack("nucleus") = {}
         /\ a = "nucleus" => Trapped(o) /\ ~BeingServed(o)
  <2>1. CASE a = "ssi"
    <3>1. ssi.pc = "terminate" /\ Asker \in User /\ BeingServed(Asker) /\ cpu = "run"
      BY <1>1, <2>1, SsiAtWork
    <3>2. Stack("nucleus") = {}
      BY <1>1, <3>1, NoQueue DEF Base, Frames, Stack, NoFrame
    <3>3. PICK o : o = Asker
      OBVIOUS
    <3>4. ~At("inbox", o)
      BY <1>1, <3>1, <3>3 DEF Staged, OneStage, At, Stage
    <3>5. CallRoots(o) = {}
      BY <3>1, <3>4 DEF CallRoots, Pending
    <3>6. Roots(o) = Stack("ssi")
      BY <3>1, <3>3, <3>5 DEF Roots, SsiRoots, NucleusRoots, Trapped
    <3> QED BY <2>1, <3>1, <3>2, <3>3, <3>5, <3>6
  <2>2. CASE a = "nucleus"
    <3>1. PICK o : o = current_process
      OBVIOUS
    <3>2. o \in User /\ Trapped(o)
      BY <1>1, <2>2, <3>1 DEF Base, CpuWorks, TypeOK, User, Trapped
    <3>3. \A s \in Stage : ~At(s, o)
      BY <1>1, <3>2 DEF Staged
    <3>4. ~At("inbox", o) /\ ~At("served", o)
      BY <3>3 DEF Stage
    <3>5. ~BeingServed(o)
      BY <3>4 DEF At
    <3>6. CallRoots(o) = {}
      BY <3>4, <3>5 DEF CallRoots, Pending
    <3>7. SsiRoots(o) = {}
      BY <3>5 DEF SsiRoots, BeingServed
    <3>8. Roots(o) = Stack("nucleus")
      BY <3>2, <3>6, <3>7 DEF Roots, NucleusRoots
    <3> QED BY <2>2, <3>2, <3>5, <3>6, <3>8
  <2> QED BY <2>1, <2>2 DEF Actor
<1>3. PICK o \in User :
         /\ Roots(o) = Stack(a) /\ CallRoots(o) = {}
         /\ a = "ssi" => cpu = "run" /\ ssi.pc = "terminate" /\ Asker = o /\ Stack("nucleus") = {}
         /\ a = "nucleus" => Trapped(o) /\ ~BeingServed(o)
  BY <1>2
<1>4. ASSUME NEW x \in Stack(a)
      PROVE  x \in User /\ x \in Live /\ x \notin UnderConstruction /\ doom[x] = o
  <2>1. x \in Pcb /\ doom[x] = o /\ o # NULL
    BY <1>3, <1>4, Names DEF Doomed, User
  <2>2. x \in Live /\ x # ssi_pcb_real /\ Meek(x, o)
    BY <2>1 DEF Doomed
  <2>3. ASSUME x \in UnderConstruction  PROVE FALSE
    <3>1. x \notin blocked /\ x # current_process
      BY <1>1, <2>3 DEF Places
    <3>2. ~Ending(x)
      BY <1>1, <2>1, <2>3, CallOps DEF Waiting, WaitsFor
    <3> QED BY <2>2, <3>1, <3>2 DEF Meek, AtPeace, Trapped
  <2> QED BY <2>1, <2>2, <2>3 DEF User
<1>5. ASSUME NEW b \in Actor, NEW x \in Stack(b), b # a  PROVE doom[x] # o
  <2>1. a = "nucleus" /\ b = "ssi"
    BY <1>3, <1>5 DEF Actor
  <2>2. ssi.pc = "terminate" /\ Asker \in User /\ BeingServed(Asker)
    BY <1>1, <1>5, <2>1, SsiAtWork
  <2>3. PICK k : k = Asker
    OBVIOUS
  <2>4. x \in Roots(k) /\ k \in User
    BY <1>5, <2>1, <2>2, <2>3 DEF Roots, SsiRoots
  <2>5. doom[x] = k
    BY <2>4 DEF Doomed
  <2> QED BY <1>3, <2>1, <2>2, <2>3, <2>5
<1> QED BY <1>3, <1>4, <1>5 DEF Owns

(* A terminate_process takes its victim out of some lists.                 *)
TakesOut(a, v, f) ==
    /\ frame' = [frame EXCEPT ![a] = f]
    /\ f.stack = frame[a].stack /\ f.pc # "outChild"
    /\ \A x \in Pcb : p_child'[x] \in {p_child[x], Without(p_child[x], v)}
    /\ ready_queue' \in {ready_queue, Without(ready_queue, v)}
    /\ \A d \in Device : pcb_blocked_on_device'[d] \in
                            {pcb_blocked_on_device[d], Without(pcb_blocked_on_device[d], v)}
    /\ v \in Ready' => f.pc = "outReady"
    /\ At("device", v)' => f.pc \in {"outReady", "outIO"}
    /\ \A x \in Pcb : v \notin Children(x)'
    /\ UNCHANGED <<pcbFree, p_parent, msg_inbox, received, blocked, reg_a1, current_process, cpu,
                   call, ssi, pcb_blocked_on_clock>>

LEMMA TakenOut ==
    ASSUME NEW q \in Seq(Pcb), Once(q), NEW v, NEW r \in {q, Without(q, v)}
    PROVE  Once(r) /\ ToSet(r) \subseteq ToSet(q) /\ ToSet(q) \ {v} \subseteq ToSet(r)
           /\ (q = <<>> => r = <<>>)
<1>1. q = <<>> => v \notin ToSet(q)
  BY NoQueue
<1> QED BY <1>1, WithoutRange

(* Its victim hangs no more from its parent.                               *)
LEMMA TakenOutDoom ==
    ASSUME NEW doom, Doomed(doom), NEW o, o # NULL, NEW v, doom[v] = o, v \in Roots(o),
           \A x \in Pcb : Children(x) \subseteq Pcb,
           \A x \in Pcb : Children(x)' \subseteq Children(x) /\ Children(x) \ {v} \subseteq Children(x)',
           pcbFree' = pcbFree, \A p \in User : Roots(p)' = Roots(p),
           \A x \in Pcb : doom[x] # NULL => Meek(x, doom[x])'
    PROVE  Doomed(doom)'
<1>1. \A p \in User : \A x \in Roots(p)' : x \in Pcb /\ doom[x] = p
  BY DEF Doomed
<1>2. \A x \in Pcb : \A y \in Children(x)' : doom[x] # NULL => doom[y] = doom[x]
  BY DEF Doomed
<1>3. ASSUME NEW x \in Pcb, doom[x] # NULL
      PROVE  /\ doom[x] \in User /\ x \in Live' /\ x # ssi_pcb_real
             /\ \A T \in SUBSET Pcb : Roots(doom[x])' \subseteq T /\ Closed(T)' => x \in T
             /\ Meek(x, doom[x])'
  <2>1. PICK d : d = doom[x]
    OBVIOUS
  <2>2. d \in User /\ x \in Live /\ x # ssi_pcb_real /\ Live' = Live
        /\ \A T \in SUBSET Pcb : Roots(d) \subseteq T /\ Closed(T) => x \in T
    BY <1>3, <2>1 DEF Doomed, Live
  <2>3. Roots(d)' = Roots(d)
    BY <2>2
  <2>4. ASSUME NEW T \in SUBSET Pcb, Roots(d) \subseteq T,
               \A y \in T : Children(y)' \subseteq T
        PROVE  x \in T
    <3>1. CASE d = o
      <4>1. \A y \in T : Children(y) \subseteq T
        BY <2>4, <3>1
      <4> QED BY <2>2, <2>4, <4>1 DEF Closed
    <3>2. CASE d # o
      <4> DEFINE R == T \cup {y \in Pcb : doom[y] = o}
      <4>1. ASSUME NEW y \in R, NEW z \in Children(y)  PROVE z \in R
        <5>1. y \in Pcb /\ z \in Pcb
          BY <4>1
        <5>2. CASE z = v
          BY <5>1, <5>2
        <5>3. CASE z # v /\ y \in T
          BY <2>4, <4>1, <5>1, <5>3
        <5>4. CASE z # v /\ doom[y] = o /\ o # NULL
          BY <4>1, <5>1, <5>4 DEF Doomed
        <5> QED BY <4>1, <5>2, <5>3, <5>4
      <4>2. R \in SUBSET Pcb /\ Roots(d) \subseteq R
        BY <2>4
      <4> HIDE DEF R
      <4>3. x \in R
        BY <2>2, <4>1, <4>2 DEF Closed
      <4> QED BY <2>1, <3>2, <4>3 DEF R
    <3> QED BY <3>1, <3>2
  <2>5. \A T \in SUBSET Pcb : Roots(d)' \subseteq T /\ Closed(T)' => x \in T
    BY <2>3, <2>4 DEF Closed
  <2>6. Meek(x, d)'
    BY <1>3, <2>1
  <2> QED BY <2>1, <2>2, <2>5, <2>6
<1> QED BY <1>1, <1>2, <1>3 DEF Doomed

(* Who asked for the process under construction.                           *)
LEMMA CreatingAsker ==
    ASSUME Base, ssi.pc \in Creating
    PROVE  Asker \in User
<1>1. Asked.op = "CREATE" /\ ssi_pcb_real \notin blocked
  BY DEF Base, SsiWork, SsiServes, Creating
<1>2. received[ssi_pcb_real] \in SsiMessage
  BY <1>1 DEF Base, SsiServes, Creating
<1> QED BY <1>1, <1>2, SsiMessages DEF Asker, Asked, SsiOp

LEMMA TermOrderly ==
    ASSUME Orderly, Base', NEW a \in Actor, NEW pc \in FramePc \ {"idle"}, TermAt(a, pc),
           NEW v, v = Victim(a), NEW f, TakesOut(a, v, f)
    PROVE  Orderly'
<1>0. v = Victim(a)
  OBVIOUS
<1>1. PICK doom \in [Pcb -> Pcb \cup {NULL}] : Doomed(doom)
  BY DEF Orderly
<1>2. PICK o : Owns(doom, a, o)
  BY <1>1, TermOwner
<1>3. /\ Base /\ Places /\ Unready /\ Family /\ Waiting /\ Staged /\ Stacks
      /\ v \in Stack(a) /\ v \in User /\ frame[a].pc = pc
      /\ TakesOut(a, v, f)
  BY <1>0, TermActs DEF Orderly, Stack
<1>4. /\ UNCHANGED <<pcbFree, p_parent, msg_inbox, received, blocked, reg_a1, current_process, cpu,
                   call, ssi, pcb_blocked_on_clock>>
      /\ f.stack = frame[a].stack /\ f.pc # "outChild" /\ frame' = [frame EXCEPT ![a] = f]
      /\ v \in Ready' => f.pc = "outReady"
      /\ At("device", v)' => f.pc \in {"outReady", "outIO"}
      /\ \A x \in Pcb : v \notin Children(x)'
  BY <1>3 DEF TakesOut
<1>5. /\ p_child \in [Pcb -> Seq(Pcb)] /\ ready_queue \in Seq(Pcb)
      /\ pcb_blocked_on_device \in [Device -> Seq(Pcb)]
      /\ frame \in [Actor -> [pc : FramePc, stack : Seq(Pcb), was_blocked : BOOLEAN,
                                  tmp : 0..(CountMod - 1)]]
  BY <1>3 DEF Base, TypeOK, ServiceTypes, FrameType
<1>6. \A x \in Pcb : /\ Once(p_child'[x]) /\ Children(x)' \subseteq Children(x)
                     /\ Children(x) \ {v} \subseteq Children(x)'
                     /\ p_child[x] = <<>> => p_child'[x] = <<>>
  <2>1. ASSUME NEW x \in Pcb
        PROVE /\ Once(p_child'[x]) /\ ToSet(p_child'[x]) \subseteq ToSet(p_child[x])
              /\ ToSet(p_child[x]) \ {v} \subseteq ToSet(p_child'[x])
              /\ p_child[x] = <<>> => p_child'[x] = <<>>
    <3>1. PICK q, r : q = p_child[x] /\ r = p_child'[x]
      OBVIOUS
    <3>2. q \in Seq(Pcb) /\ Once(q) /\ r \in {q, Without(q, v)}
      BY <1>3, <1>5, <3>1 DEF Family, TakesOut
    <3> QED BY <3>1, <3>2, TakenOut
  <2> QED BY <2>1 DEF Children
<1>7. Once(ready_queue') /\ Ready' \subseteq Ready /\ Ready \ {v} \subseteq Ready'
  <2>1. PICK r : r = ready_queue'
    OBVIOUS
  <2>2. Once(ready_queue) /\ r \in {ready_queue, Without(ready_queue, v)}
    BY <1>3, <2>1 DEF Places, TakesOut
  <2>3. Once(r) /\ ToSet(r) \subseteq ToSet(ready_queue) /\ ToSet(ready_queue) \ {v} \subseteq ToSet(r)
    BY <1>5, <2>2, TakenOut
  <2> QED BY <2>1, <2>3 DEF Ready
<1>8. \A d \in Device : /\ Once(pcb_blocked_on_device'[d])
                        /\ ToSet(pcb_blocked_on_device'[d]) \subseteq ToSet(pcb_blocked_on_device[d])
  <2>1. ASSUME NEW d \in Device
        PROVE /\ Once(pcb_blocked_on_device'[d])
              /\ ToSet(pcb_blocked_on_device'[d]) \subseteq ToSet(pcb_blocked_on_device[d])
    <3>1. PICK q, r : q = pcb_blocked_on_device[d] /\ r = pcb_blocked_on_device'[d]
      OBVIOUS
    <3>2. q \in Seq(Pcb) /\ Once(q) /\ r \in {q, Without(q, v)}
      BY <1>3, <1>5, <3>1 DEF Staged, TakesOut
    <3> QED BY <3>1, <3>2, TakenOut
  <2> QED BY <2>1
<1>9. /\ frame'[a] = f /\ \A b \in Actor : frame'[b].stack = frame[b].stack
      /\ \A b \in Actor : b # a => frame'[b] = frame[b]
  BY <1>4, <1>5
<1>10. \A b \in Actor : Stack(b)' = Stack(b) /\ Victim(b)' = Victim(b)
  BY <1>9 DEF Stack, Victim
<1>11. Dying' = Dying /\ v \in Dying /\ Live' = Live /\ UnderConstruction' = UnderConstruction
       /\ Asker' = Asker /\ Asked' = Asked
  <2>1. Dying' = Dying
    BY <1>9 DEF Dying
  <2>2. v \in Dying
    BY <1>3 DEF Dying, Stack
  <2> QED BY <1>4, <2>1, <2>2 DEF Live, UnderConstruction, Asker, Asked
<1>12. v \in Live /\ v \notin UnderConstruction
  BY <1>2, <1>3 DEF Owns
<1>13. Places'
  BY <1>3, <1>4, <1>7, <1>11 DEF Places
<1>14. Unready'
  <2>1. ASSUME NEW x \in Stack("ssi"), x \in Ready \/ (cpu = "run" /\ x = current_process)
        PROVE  x = Victim("ssi") /\ frame["ssi"].pc \in {"outChild", "outReady"}
    BY <1>3, <2>1 DEF Unready
  <2>2. ASSUME NEW x \in Stack("ssi"), x \in Ready' \/ (cpu = "run" /\ x = current_process)
        PROVE  x = Victim("ssi") /\ frame'["ssi"].pc \in {"outChild", "outReady"}
    <3>1. x = Victim("ssi") /\ frame["ssi"].pc \in {"outChild", "outReady"}
      BY <1>7, <2>1, <2>2
    <3>2. CASE a = "ssi"
      <4>1. current_process = ssi_pcb_real
        BY <3>2, TermActs, SsiRuns, <1>3
      <4>2. x \in Ready'
        BY <1>0, <1>3, <2>2, <3>1, <3>2, <4>1 DEF User
      <4> QED BY <1>0, <1>4, <1>9, <3>1, <3>2, <4>2
    <3>3. CASE a # "ssi"
      BY <1>9, <3>1, <3>3 DEF Actor
    <3> QED BY <3>2, <3>3
  <2>3. Stack("nucleus")' \cap Ready' = {}
    BY <1>3, <1>7, <1>10 DEF Unready, Actor
  <2>4. cpu' = "kernel" => current_process' \in Stack("nucleus")' \/ current_process' \notin Live'
    BY <1>3, <1>4, <1>10, <1>11 DEF Unready, Actor
  <2>5. Stack("ssi")' = Stack("ssi") /\ Victim("ssi")' = Victim("ssi")
    BY <1>10 DEF Actor
  <2> QED BY <1>4, <2>2, <2>3, <2>4, <2>5 DEF Unready
<1>15. Family'
  <2>1. \A x \in Pcb : \A q \in Children(x)' : x \in Live' /\ q \in Live' /\ p_parent'[q] = x
    BY <1>3, <1>4, <1>6, <1>11 DEF Family
  <2>2. ASSUME NEW q \in Live' \ (UnderConstruction' \cup Dying'), p_parent'[q] # NULL
        PROVE  q \in ToSet(p_child'[p_parent'[q]])
    <3>1. PICK x : x = p_parent[q]
      OBVIOUS
    <3>2. q \in Children(x) /\ q # v /\ q \in Pcb
      BY <1>3, <1>4, <1>11, <2>2, <3>1 DEF Family, Live
    <3>3. x \in Pcb
      BY <1>3, <1>4, <2>2, <3>1, <3>2 DEF Base, TypeOK
    <3>4. q \in ToSet(p_child'[x])
      BY <1>6, <3>2, <3>3 DEF Children
    <3> QED BY <1>4, <3>1, <3>4
  <2>3. ssi'.pc = "insertChild" => p_parent'[ssi'.p] = NULL
    BY <1>3, <1>4 DEF Family
  <2>4. ASSUME ssi.pc = "insertReady"
        PROVE  p_parent[ssi.p] = Asker /\ ssi.p \in ToSet(p_child'[Asker])
    <3>1. p_parent[ssi.p] = Asker /\ ssi.p \in Children(Asker) /\ ssi.p # v
      BY <1>3, <1>12, <2>4 DEF Family, UnderConstruction
    <3>3. Asker \in Pcb
      BY <1>3, <2>4, CreatingAsker DEF Creating, User
    <3> QED BY <1>6, <3>1, <3>3 DEF Children
  <2>5. \A q \in UnderConstruction : q \in Pcb /\ p_child[q] = <<>>
    BY <1>3 DEF Family, Places, Live
  <2>6. \A q \in UnderConstruction' : p_child'[q] = <<>>
    BY <1>6, <1>11, <2>5
  <2>7. \A x \in Pcb : Once(p_child'[x])
    BY <1>6
  <2>8. \A q \in Live' \ (UnderConstruction' \cup Dying') :
           p_parent'[q] # NULL => q \in ToSet(p_child'[p_parent'[q]])
    BY <2>2
  <2>9. ssi'.pc = "insertReady" => p_parent'[ssi'.p] = Asker' /\ ssi'.p \in ToSet(p_child'[Asker'])
    BY <1>4, <1>11, <2>4
  <2> HIDE DEF Dying
  <2> QED BY <2>1, <2>3, <2>6, <2>7, <2>8, <2>9 DEF Family, Children
<1>16. Waiting'
  <2>1. \A x \in Pcb : WaitsFor(x)
    BY <1>3 DEF Waiting
  <2>2. \A x \in Pcb : WaitsFor(x)'
    BY <1>4, <1>11, <2>1, WaitsOn
  <2> QED BY <2>2 DEF Waiting
<1>17. ASSUME NEW x \in User  PROVE OneStage(x)' /\ \A s \in Stage : At(s, x)' => At(s, x)
  <2>1. /\ OneStage(x) /\ Requested(x)' = Requested(x) /\ Replied(x)' = Replied(x)
        /\ BeingServed(x)' <=> BeingServed(x)
        /\ BeingAnswered(x)' <=> BeingAnswered(x)
    BY <1>3, <1>4, <1>11 DEF Staged, Requested, Replied, From, BeingServed, BeingAnswered
  <2>2. AtMostOne(msg_inbox'[ssi_pcb_real], From(x)) /\ AtMostOne(msg_inbox'[x], From(SSI_FAKE_ADDR))
    BY <1>4, <2>1 DEF OneStage
  <2>3. BeingServed(x) => x \in Live \/ ssi'.pc = "terminate"
    BY <1>3, <1>4, ServedCalls
  <2> QED BY <1>4, <1>8, <1>11, <2>1, <2>2, <2>3, StageKept
<1>18. Staged'
  <2>1. \A p \in User : OneStage(p)' /\ \A s \in Stage : At(s, p)' => At(s, p)
    BY <1>17
  <2>2. \A p \in User : Trapped(p)' => call'[p] = NoCall /\ \A s \in Stage : ~At(s, p)'
    BY <1>3, <1>4, <2>1 DEF Staged, Trapped
  <2> QED BY <1>3, <1>4, <1>8, <2>1, <2>2 DEF Staged
<1>19. \A x \in User : CallRoots(x)' = CallRoots(x)
  <2>1. \A x \in User : (At("inbox", x)' <=> At("inbox", x)) /\ (BeingServed(x)' <=> BeingServed(x))
    BY <1>4, <1>11 DEF At, Requested, From, BeingServed
  <2>2. \A x \in User : Pending(x)' <=> Pending(x)
    BY <1>4, <2>1 DEF Pending
  <2> QED BY <1>4, <2>2, CallRootsKept
<1>20. Stacks'
  <2>1. \A b \in Actor : Once(frame'[b].stack)
    BY <1>3, <1>9 DEF Stacks
  <2>2. \A x : Listed(x)' => Listed(x)
    BY <1>6 DEF Listed
  <2>3. ~Listed(v)'
    BY <1>4 DEF Listed
  <2>4. ASSUME NEW b \in Actor, NEW x \in Stack(b), Listed(x)'
        PROVE  x = Victim(b) /\ frame'[b].pc = "outChild"
    <3>1. x = Victim(b) /\ frame[b].pc = "outChild"
      BY <1>3, <2>2, <2>4 DEF Stacks
    <3> QED BY <1>0, <1>9, <2>3, <2>4, <3>1
  <2>5. ASSUME NEW b \in Actor, NEW x \in Stack(b), At("device", x)'
        PROVE  x = Victim(b) /\ frame'[b].pc \in {"outChild", "outReady", "outIO"}
    <3>1. At("device", x)
      BY <1>8, <2>5 DEF At
    <3>2. x = Victim(b) /\ frame[b].pc \in {"outChild", "outReady", "outIO"}
      BY <1>3, <2>5, <3>1 DEF Stacks
    <3> QED BY <1>0, <1>4, <1>9, <2>5, <3>2
  <2>6. ASSUME NEW p \in User, NEW r \in CallRoots(p)'
        PROVE  (r = p /\ Ending(p)') \/ r \in Children(p)'
    <3>1. r \in CallRoots(p) /\ p # o
      BY <1>2, <1>19, <2>6 DEF Owns
    <3>2. doom[r] = p
      BY <1>1, <2>6, <3>1 DEF Doomed, Roots
    <3>3. r # v
      BY <1>2, <1>3, <3>1, <3>2 DEF Owns
    <3>4. (r = p /\ Ending(p)) \/ r \in Children(p)
      BY <1>3, <3>1 DEF Stacks
    <3> QED BY <1>4, <1>6, <3>3, <3>4 DEF Ending, User
  <2>7. ASSUME frame'["ssi"].pc = "outChild", Listed(Victim("ssi"))'
        PROVE  \/ Victim("ssi")' = Asker' /\ Ending(Asker)'
               \/ p_parent'[Victim("ssi")'] \in ToSet(Tail(frame'["ssi"].stack))
               \/ p_parent'[Victim("ssi")'] = Asker' /\ call'[Asker'].op = "TERM"
    <3>1. a # "ssi" /\ frame'["ssi"] = frame["ssi"] /\ Victim("ssi")' = Victim("ssi")
      BY <1>4, <1>9, <1>10, <2>7 DEF Actor
    <3>2. frame["ssi"].pc = "outChild" /\ Listed(Victim("ssi"))
      BY <2>2, <2>7, <3>1
    <3> QED BY <1>3, <1>4, <1>11, <3>1, <3>2 DEF Stacks, Ending
  <2>8. \A b \in Actor : Stack(b)' = Stack(b) /\ Victim(b)' = Victim(b)
    BY <1>10
  <2>9. \A b \in Actor : \A x \in Stack(b)' : Listed(x)' => x = Victim(b)' /\ frame'[b].pc = "outChild"
    BY <2>4, <2>8
  <2>10. \A b \in Actor : \A x \in Stack(b)' :
            At("device", x)' => x = Victim(b)' /\ frame'[b].pc \in {"outChild", "outReady", "outIO"}
    BY <2>5, <2>8
  <2> QED BY <2>1, <2>6, <2>7, <2>9, <2>10 DEF Stacks
<1>21. \A p \in User : Roots(p)' = Roots(p)
  BY <1>4, <1>10, <1>11, <1>19 DEF Roots, SsiRoots, NucleusRoots, Trapped, Actor
<1>22. ASSUME NEW x \in Pcb, doom[x] # NULL  PROVE Meek(x, doom[x])'
  <2>1. PICK d : d = doom[x]
    OBVIOUS
  <2>2. Meek(x, d) /\ x \in User
    BY <1>1, <1>22, <2>1 DEF Doomed, User
  <2>3. \A s \in Stage : At(s, x)' => At(s, x)
    BY <1>17, <2>2
  <2>4. Meek(x, d)'
    BY <1>4, <2>2, <2>3 DEF Meek, AtPeace, Ending, Trapped
  <2> QED BY <2>1, <2>4
<1>23. \A x \in Pcb : Children(x) \subseteq Pcb
  BY <1>3, ChildrenArePcbs
<1>24. doom[v] = o /\ v \in Roots(o) /\ o # NULL
  BY <1>2, <1>3, Names DEF Owns, User
<1>25. Doomed(doom)'
  BY <1>1, <1>4, <1>6, <1>21, <1>22, <1>23, <1>24, TakenOutDoom
<1> QED BY <1>1, <1>13, <1>14, <1>15, <1>16, <1>18, <1>20, <1>25 DEF Orderly

(* Where its victim is, step by step.                                      *)
LEMMA TermVictim ==
    ASSUME Orderly, NEW a \in Actor, NEW pc \in FramePc \ {"idle"}, TermAt(a, pc)
    PROVE  /\ pc # "outChild" => ~Listed(Victim(a))
           /\ pc \notin {"outChild", "outReady"} => Victim(a) \notin Ready
           /\ pc \notin {"outChild", "outReady", "outIO"} => ~At("device", Victim(a))
<1>1. /\ Unready /\ Stacks /\ Victim(a) \in Stack(a) /\ frame[a].pc = pc
  BY TermActs DEF Orderly, Stack
<1>2. pc \notin {"outChild", "outReady"} => Victim(a) \notin Ready
  BY <1>1 DEF Unready, Actor
<1> QED BY <1>1, <1>2 DEF Stacks

LEMMA TermOutChildOrderly ==
    ASSUME Orderly, Base', NEW a \in Actor, TermOutChild(a)
    PROVE  Orderly'
<1>0. PICK v : v = Victim(a)
  OBVIOUS
<1>1. PICK f : f = [frame[a] EXCEPT !.pc = "outReady"]
  OBVIOUS
<1>2. TermAt(a, "outChild") /\ "outChild" \in FramePc \ {"idle"} /\ "outReady" \in FramePc \ {"idle"}
  BY DEF TermOutChild, FramePc
<1>3. /\ Base /\ Family /\ GoodFrame(frame[a]) /\ frame[a].pc = "outChild" /\ v \in Pcb
      /\ frame \in [Actor -> FrameOf] /\ p_child \in [Pcb -> Seq(Pcb)]
      /\ p_parent \in [Pcb -> Pcb \cup {NULL}]
  BY <1>0, <1>2, TermActs DEF Orderly, Base, FrameType, FrameOf, ServiceTypes, TypeOK, User
<1>4. f.stack = frame[a].stack /\ f.pc = "outReady"
  BY <1>1, <1>3 DEF FrameOf
<1>5. /\ frame' = [frame EXCEPT ![a] = f]
      /\ p_child' = IF p_parent[v] = NULL THEN p_child
                    ELSE [p_child EXCEPT ![p_parent[v]] = Without(@, v)]
      /\ UNCHANGED <<ready_queue, pcb_blocked_on_device, pcbFree, p_parent, msg_inbox, received,
                     blocked, reg_a1, current_process, cpu, call, ssi, pcb_blocked_on_clock>>
  BY <1>0, <1>1 DEF TermOutChild, TermGoes, ipcVars, procVars, msgVars, cpuVars
<1>6. ASSUME NEW x \in Pcb
      PROVE  p_child'[x] \in {p_child[x], Without(p_child[x], v)} /\ v \notin ToSet(p_child'[x])
  <2>1. v \in Children(x) => p_parent[v] = x
    BY <1>3 DEF Family
  <2>2. Once(p_child[x]) /\ p_child[x] \in Seq(Pcb)
    BY <1>3 DEF Family
  <2>3. CASE p_parent[v] = x
    <3>1. p_child'[x] = Without(p_child[x], v)
      BY <1>3, <1>5, <2>3, Names
    <3> QED BY <2>2, <3>1, WithoutRange
  <2>4. CASE p_parent[v] # x
    <3>1. p_child'[x] = p_child[x]
      BY <1>3, <1>5, <2>4
    <3> QED BY <2>1, <2>4, <3>1 DEF Children
  <2> QED BY <2>3, <2>4
<1>7. TakesOut(a, v, f)
  BY <1>0, <1>4, <1>5, <1>6 DEF TakesOut, Children
<1> QED BY <1>0, <1>2, <1>7, TermOrderly

LEMMA TermOutReadyOrderly ==
    ASSUME Orderly, Base', NEW a \in Actor, TermOutReady(a)
    PROVE  Orderly'
<1>0. PICK v : v = Victim(a)
  OBVIOUS
<1>1. PICK f : f = [frame[a] EXCEPT !.pc = "outIO"]
  OBVIOUS
<1>2. TermAt(a, "outReady") /\ "outReady" \in FramePc \ {"idle"}
  BY DEF TermOutReady, FramePc
<1>3. /\ Base /\ Places /\ frame \in [Actor -> FrameOf] /\ ready_queue \in Seq(Pcb)
      /\ ~Listed(v)
  BY <1>0, <1>2, TermVictim DEF Orderly, Base, FrameType, FrameOf, TypeOK
<1>4. f.stack = frame[a].stack /\ f.pc = "outIO"
  BY <1>1, <1>3 DEF FrameOf
<1>5. /\ frame' = [frame EXCEPT ![a] = f] /\ ready_queue' = Without(ready_queue, v)
      /\ UNCHANGED <<p_child, pcb_blocked_on_device, pcbFree, p_parent, msg_inbox, received,
                     blocked, reg_a1, current_process, cpu, call, ssi, pcb_blocked_on_clock>>
  BY <1>0, <1>1 DEF TermOutReady, TermGoes, procVars, msgVars, keepCpu, listVars
<1>6. v \notin Ready'
  BY <1>3, <1>5, WithoutRange DEF Places, Ready
<1>7. \A x \in Pcb : v \notin Children(x)'
  BY <1>3, <1>5 DEF Listed, Children
<1>8. TakesOut(a, v, f)
  BY <1>0, <1>4, <1>5, <1>6, <1>7 DEF TakesOut
<1> QED BY <1>0, <1>2, <1>8, TermOrderly

LEMMA TermOutIOOrderly ==
    ASSUME Orderly, Base', NEW a \in Actor, TermOutIO(a)
    PROVE  Orderly'
<1> DEFINE dev == pcb_blocked_on_device
<1>0. PICK v, w : v = Victim(a) /\ w = (\E d \in Device : Victim(a) \in ToSet(dev[d]))
  OBVIOUS
<1>1. PICK g : g = [frame[a] EXCEPT !.pc = "countRead"]
  OBVIOUS
<1>2. PICK f : f = [g EXCEPT !.was_blocked = w]
  OBVIOUS
<1>3. TermAt(a, "outIO") /\ "outIO" \in FramePc \ {"idle"}
  BY DEF TermOutIO, FramePc
<1>4. /\ Base /\ Staged /\ frame \in [Actor -> FrameOf] /\ dev \in [Device -> Seq(Pcb)]
      /\ ~Listed(v) /\ v \notin Ready
  BY <1>0, <1>3, TermVictim DEF Orderly, Base, FrameType, FrameOf, ServiceTypes
<1>5. f.stack = frame[a].stack /\ f.pc = "countRead"
  BY <1>1, <1>2, <1>4 DEF FrameOf
<1>6. /\ dev' = [d \in Device |-> Without(dev[d], v)]
      /\ UNCHANGED <<p_child, ready_queue, pcbFree, p_parent, msg_inbox, received,
                     blocked, reg_a1, current_process, cpu, call, ssi, pcb_blocked_on_clock>>
  BY <1>0 DEF TermOutIO, ipcVars, procVars, msgVars, cpuVars
<1>7. frame' = [frame EXCEPT ![a] = f]
  <2>1. frame' = [frame EXCEPT ![a].pc = "countRead", ![a].was_blocked = w]
    BY <1>0 DEF TermOutIO
  <2> QED BY <1>1, <1>2, <1>4, <2>1
<1>8. \A d \in Device : dev'[d] = Without(dev[d], v) /\ v \notin ToSet(dev'[d])
  <2>1. ASSUME NEW d \in Device  PROVE dev'[d] = Without(dev[d], v) /\ v \notin ToSet(dev'[d])
    <3>1. dev'[d] = Without(dev[d], v)
      BY <1>6
    <3>2. dev[d] \in Seq(Pcb) /\ Once(dev[d])
      BY <1>4 DEF Staged
    <3> QED BY <3>1, <3>2, WithoutRange
  <2> QED BY <2>1
<1>9. ~At("device", v)'
  BY <1>8 DEF At
<1>10. \A x \in Pcb : v \notin Children(x)'
  BY <1>4, <1>6 DEF Listed, Children
<1>11. v \notin Ready'
  BY <1>4, <1>6 DEF Ready
<1> HIDE DEF dev
<1>12. \A d \in Device : pcb_blocked_on_device'[d] \in
                            {pcb_blocked_on_device[d], Without(pcb_blocked_on_device[d], v)}
  BY <1>8 DEF dev
<1>13. TakesOut(a, v, f)
  BY <1>0, <1>5, <1>6, <1>7, <1>9, <1>10, <1>11, <1>12 DEF TakesOut
<1> QED BY <1>0, <1>3, <1>13, TermOrderly

(* Between the lists and the children there are two counters.              *)
LEMMA TermCountsOrderly ==
    ASSUME Orderly, Base', NEW a \in Actor,
           \/ TermReadsCount(a) \/ TermWritesCount(a)
           \/ TermReadsSoftblock(a) \/ TermWritesSoftblock(a)
    PROVE  Orderly'
<1>0. PICK v : v = Victim(a)
  OBVIOUS
<1>1. PICK pc \in {"countRead", "countWrite", "softRead", "softWrite"} : TermAt(a, pc)
  BY DEF TermReadsCount, TermWritesCount, TermReadsSoftblock, TermWritesSoftblock
<1>2. pc \in FramePc \ {"idle"} /\ pc \notin {"outChild", "outReady", "outIO"}
  BY <1>1 DEF FramePc
<1>3. /\ frame \in [Actor -> FrameOf] /\ ~Listed(v) /\ v \notin Ready /\ ~At("device", v)
  BY <1>0, <1>1, <1>2, TermVictim DEF Orderly, Base, FrameType, FrameOf
<1>4. UNCHANGED <<p_child, pcb_blocked_on_device, ready_queue, pcbFree, p_parent, msg_inbox, received,
                  blocked, reg_a1, current_process, cpu, call, ssi, pcb_blocked_on_clock>>
  BY DEF TermReadsCount, TermWritesCount, TermReadsSoftblock, TermWritesSoftblock, TermGoes,
         ipcVars, procVars, msgVars, cpuVars, listVars, keepMsg
<1>5. \E f : /\ frame' = [frame EXCEPT ![a] = f] /\ f.stack = frame[a].stack
             /\ f.pc # "outChild"
  <2>1. ASSUME NEW qc \in {"countWrite", "softRead", "softWrite", "children"}, TermGoes(a, qc)
        PROVE  \E f : frame' = [frame EXCEPT ![a] = f] /\ f.stack = frame[a].stack /\ f.pc # "outChild"
    <3>1. PICK f : f = [frame[a] EXCEPT !.pc = qc]
      OBVIOUS
    <3>2. f.stack = frame[a].stack /\ f.pc = qc
      BY <1>3, <3>1 DEF FrameOf
    <3>3. frame' = [frame EXCEPT ![a] = f]
      BY <2>1, <3>1 DEF TermGoes
    <3> QED BY <2>1, <3>2, <3>3
  <2>2. ASSUME NEW qc \in {"countWrite", "softWrite"}, NEW n,
               frame' = [frame EXCEPT ![a].pc = qc, ![a].tmp = n]
        PROVE  \E f : frame' = [frame EXCEPT ![a] = f] /\ f.stack = frame[a].stack /\ f.pc # "outChild"
    <3>1. PICK g : g = [frame[a] EXCEPT !.pc = qc]
      OBVIOUS
    <3>2. PICK f : f = [g EXCEPT !.tmp = n]
      OBVIOUS
    <3>3. f.stack = frame[a].stack /\ f.pc = qc
      BY <1>3, <3>1, <3>2 DEF FrameOf
    <3>4. frame' = [frame EXCEPT ![a] = f]
      BY <1>3, <2>2, <3>1, <3>2
    <3> QED BY <2>2, <3>3, <3>4
  <2>3. CASE TermReadsCount(a)
    <3>1. frame' = [frame EXCEPT ![a].pc = "countWrite", ![a].tmp = Dec(process_count)]
      BY <2>3 DEF TermReadsCount
    <3> QED BY <2>2, <3>1
  <2>4. CASE TermWritesCount(a)
    <3>1. \E qc \in {"softRead", "children"} : TermGoes(a, qc)
      BY <2>4 DEF TermWritesCount
    <3> QED BY <2>1, <3>1
  <2>5. CASE TermReadsSoftblock(a)
    <3>1. \E n : frame' = [frame EXCEPT ![a].pc = "softWrite", ![a].tmp = n]
      BY <2>5 DEF TermReadsSoftblock
    <3> QED BY <2>2, <3>1
  <2>6. CASE TermWritesSoftblock(a)
    <3>1. TermGoes(a, "children")
      BY <2>6 DEF TermWritesSoftblock
    <3> QED BY <2>1, <3>1
  <2> QED BY <2>3, <2>4, <2>5, <2>6
<1>6. PICK f : frame' = [frame EXCEPT ![a] = f] /\ f.stack = frame[a].stack /\ f.pc # "outChild"
  BY <1>5
<1>7. /\ \A x \in Pcb : v \notin Children(x)'
      /\ v \notin Ready' /\ ~At("device", v)'
  BY <1>3, <1>4 DEF Listed, Children, Ready, At
<1>8. TakesOut(a, v, f)
  BY <1>0, <1>4, <1>6, <1>7 DEF TakesOut
<1> QED BY <1>0, <1>1, <1>2, <1>8, TermOrderly

(* The next child is taken on.                                             *)
LEMMA TermNextChildOrderly ==
    ASSUME Orderly, Base', NEW a \in Actor, TermNextChild(a)
    PROVE  Orderly'
<1>0. PICK v, c, st : v = Victim(a) /\ c = Head(p_child[Victim(a)]) /\ st = frame[a].stack
  OBVIOUS
<1>1. PICK doom \in [Pcb -> Pcb \cup {NULL}] : Doomed(doom)
  BY DEF Orderly
<1>2. TermAt(a, "children") /\ "children" \in FramePc \ {"idle"}
  BY DEF TermNextChild, FramePc
<1>3. PICK o : Owns(doom, a, o)
  BY <1>1, <1>2, TermOwner
<1>4. /\ Base /\ Places /\ Unready /\ Family /\ Waiting /\ Staged /\ Stacks
      /\ v \in Stack(a) /\ v \in User /\ v \in Pcb /\ frame[a].pc = "children"
      /\ GoodFrame(frame[a]) /\ st \in Seq(Pcb) /\ frame \in [Actor -> FrameOf]
  BY <1>0, <1>2, TermActs DEF Orderly, Stack, User, Base, FrameType, FrameOf
<1>5. /\ UNCHANGED <<pcbFree, p_parent, p_child, msg_inbox, received, blocked, reg_a1, ready_queue,
                     current_process, call, ssi, pcb_blocked_on_clock, pcb_blocked_on_device>>
      /\ p_child[v] # <<>> /\ Enter(a, c, st)
  BY <1>0 DEF TermNextChild, procVars, msgVars, listVars
<1>6. p_child[v] \in Seq(Pcb) /\ Once(p_child[v])
  BY <1>4 DEF Base, ServiceTypes, Family
<1>7. c \in Children(v) /\ c \in Pcb
  BY <1>0, <1>5, <1>6, TailRange DEF Children
<1>8. c \in Live /\ p_parent[c] = v /\ c # ssi_pcb_real /\ Listed(c) /\ doom[c] = o
  <2>1. doom[v] = o /\ o # NULL
    BY <1>3, <1>4, Names DEF Owns, User
  <2>2. doom[c] = o
    BY <1>1, <1>4, <1>7, <2>1 DEF Doomed
  <2> QED BY <1>4, <1>7, <2>2 DEF Family, Base, SsiApart, Listed
<1>9. c \notin Stack(a)
  BY <1>4, <1>8 DEF Stacks
<1>10. PICK f : f = Called(c, st)
  OBVIOUS
<1>11. /\ f.stack = <<c>> \o st /\ f.pc = "outChild" /\ frame' = [frame EXCEPT ![a] = f]
       /\ cpu' = IF a = "nucleus" THEN "kernel" ELSE cpu
  <2>1. ssi_pcb_real \notin ToSet(st)
    BY <1>0, <1>4 DEF GoodFrame
  <2>2. f.stack = <<c>> \o st /\ f.pc = "outChild"
    BY <1>4, <1>8, <1>10, <2>1, GoodCalled DEF isPcbValid
  <2>3. frame' = [frame EXCEPT ![a] = f] /\ cpu' = IF a = "nucleus" THEN "kernel" ELSE cpu
    BY <1>5, <1>8, <1>10 DEF Enter, Called
  <2> QED BY <2>2, <2>3
<1>12. cpu' = cpu
  BY <1>3, <1>11 DEF Owns, Trapped
<1>13. /\ frame'[a] = f /\ \A b \in Actor : b # a => frame'[b] = frame[b]
  BY <1>4, <1>11
<1>14. /\ Head(f.stack) = c /\ Tail(f.stack) = st /\ ToSet(f.stack) = {c} \cup ToSet(st) /\ Once(f.stack)
  <2>1. Once(st) /\ c \notin ToSet(st)
    BY <1>0, <1>4, <1>9 DEF Stacks, Stack
  <2> QED BY <1>4, <1>7, <1>11, <2>1, Push
<1>15. /\ Stack(a)' = Stack(a) \cup {c} /\ Victim(a)' = c
       /\ \A b \in Actor : b # a => Stack(b)' = Stack(b) /\ Victim(b)' = Victim(b)
  BY <1>0, <1>13, <1>14 DEF Stack, Victim
<1>16. Live' = Live /\ UnderConstruction' = UnderConstruction /\ Asker' = Asker /\ Asked' = Asked
       /\ Dying \subseteq Dying'
  <2>1. \A b \in Actor : ToSet(frame[b].stack) \subseteq ToSet(frame'[b].stack)
    BY <1>0, <1>13, <1>14
  <2> QED BY <1>5, <2>1 DEF Live, UnderConstruction, Asker, Asked, Dying
<1>17. Places'
  BY <1>4, <1>5, <1>12, <1>16 DEF Places, Ready
<1>18. Unready'
  <2>1. ASSUME NEW x \in Stack("ssi")', x \in Ready \/ (cpu = "run" /\ x = current_process)
        PROVE  x = Victim("ssi")' /\ frame'["ssi"].pc \in {"outChild", "outReady"}
    <3>1. CASE x \in Stack("ssi")
      <4>1. x = Victim("ssi") /\ frame["ssi"].pc \in {"outChild", "outReady"}
        BY <1>4, <2>1, <3>1 DEF Unready
      <4>2. a # "ssi"
        BY <1>4, <4>1
      <4> QED BY <1>13, <1>15, <4>1, <4>2 DEF Actor
    <3>2. CASE x \notin Stack("ssi")
      <4>1. a = "ssi" /\ x = c
        BY <1>15, <2>1, <3>2 DEF Actor
      <4> QED BY <1>11, <1>13, <1>15, <4>1
    <3> QED BY <3>1, <3>2
  <2>2. Stack("nucleus")' \cap Ready = {}
    <3>1. CASE a = "nucleus"
      <4>1. Meek(c, o) /\ Trapped(o)
        BY <1>1, <1>3, <1>7, <1>8, <3>1, Names DEF Doomed, Owns, User
      <4>2. c \in blocked \/ c = current_process
        BY <4>1 DEF Meek, AtPeace, Trapped
      <4>3. c \notin Ready
        BY <1>4, <4>2 DEF Places
      <4> QED BY <1>4, <1>15, <3>1, <4>3 DEF Unready
    <3>2. CASE a # "nucleus"
      BY <1>4, <1>15, <3>2 DEF Unready, Actor
    <3> QED BY <3>1, <3>2
  <2>3. cpu = "kernel" => current_process \in Stack("nucleus")' \/ current_process \notin Live
    <3>1. Stack("nucleus") \subseteq Stack("nucleus")'
      BY <1>15 DEF Actor
    <3> QED BY <1>4, <3>1 DEF Unready
  <2>4. Ready' = Ready
    BY <1>5 DEF Ready
  <2> QED BY <1>5, <1>12, <1>16, <2>1, <2>2, <2>3, <2>4 DEF Unready
<1>19. Family'
  <2>1. \A x : Children(x)' = Children(x)
    BY <1>5 DEF Children
  <2>2. \A q \in Live' \ (UnderConstruction' \cup Dying') : q \in Live \ (UnderConstruction \cup Dying)
    BY <1>16
  <2>3. \A q \in Live' \ (UnderConstruction' \cup Dying') :
           p_parent'[q] # NULL => q \in ToSet(p_child'[p_parent'[q]])
    BY <1>4, <1>5, <2>2 DEF Family, Children
  <2>4. /\ \A x \in Pcb : Once(p_child'[x])
        /\ \A x \in Pcb : \A q \in ToSet(p_child'[x]) : x \in Live' /\ q \in Live' /\ p_parent'[q] = x
        /\ \A q \in UnderConstruction' : p_child'[q] = <<>>
        /\ ssi'.pc = "insertChild" => p_parent'[ssi'.p] = NULL
        /\ ssi'.pc = "insertReady" => p_parent'[ssi'.p] = Asker' /\ ssi'.p \in ToSet(p_child'[Asker'])
    BY <1>4, <1>5, <1>16 DEF Family, Children
  <2> HIDE DEF Dying
  <2> QED BY <2>3, <2>4 DEF Family, Children
<1>20. Waiting'
  <2>1. \A x \in Pcb : WaitsFor(x)
    BY <1>4 DEF Waiting
  <2>2. \A x \in Pcb : WaitsFor(x)'
    BY <1>5, <1>16, <2>1, WaitsOn
  <2> QED BY <2>2 DEF Waiting
<1>21. \A x : \A s \in Stage : At(s, x)' <=> At(s, x)
  BY <1>5, <1>16 DEF At, Requested, Replied, From, BeingServed, BeingAnswered
<1>22. Staged'
  <2>1. ASSUME NEW x \in User  PROVE OneStage(x)'
    <3>1. /\ OneStage(x) /\ Requested(x)' = Requested(x) /\ Replied(x)' = Replied(x)
          /\ BeingServed(x)' <=> BeingServed(x)
          /\ BeingAnswered(x)' <=> BeingAnswered(x)
      BY <1>4, <1>5, <1>16 DEF Staged, Requested, Replied, From, BeingServed, BeingAnswered
    <3>2. AtMostOne(msg_inbox'[ssi_pcb_real], From(x)) /\ AtMostOne(msg_inbox'[x], From(SSI_FAKE_ADDR))
      BY <1>5, <3>1 DEF OneStage
    <3>3. BeingServed(x) => x \in Live \/ ssi'.pc = "terminate"
      BY <1>4, <1>5, ServedCalls
    <3> QED BY <1>5, <1>16, <3>1, <3>2, <3>3, StageKept
  <2>2. \A p \in User : Trapped(p)' => call'[p] = NoCall /\ \A s \in Stage : ~At(s, p)'
    BY <1>4, <1>5, <1>12, <1>21 DEF Staged, Trapped
  <2> QED BY <1>4, <1>5, <2>1, <2>2 DEF Staged
<1>23. \A x \in User : CallRoots(x)' = CallRoots(x)
  <2>1. \A x \in User : (At("inbox", x)' <=> At("inbox", x)) /\ (BeingServed(x)' <=> BeingServed(x))
    BY <1>5, <1>16, <1>21 DEF Stage, BeingServed
  <2>2. \A x \in User : Pending(x)' <=> Pending(x)
    BY <1>5, <2>1 DEF Pending
  <2> QED BY <1>5, <2>2, CallRootsKept
<1>24. \A x : Listed(x)' <=> Listed(x)
  BY <1>5 DEF Listed, Children
<1>25. Stacks'
  <2>1. \A b \in Actor : Once(frame'[b].stack)
    BY <1>4, <1>13, <1>14 DEF Stacks
  <2>2. ASSUME NEW b \in Actor, NEW x \in Stack(b)', Listed(x)
        PROVE  x = Victim(b)' /\ frame'[b].pc = "outChild"
    <3>1. CASE x \in Stack(b)
      <4>1. x = Victim(b) /\ frame[b].pc = "outChild"
        BY <1>4, <2>2, <3>1 DEF Stacks
      <4> QED BY <1>4, <1>13, <1>15, <4>1
    <3>2. CASE x \notin Stack(b)
      BY <1>11, <1>13, <1>15, <2>2, <3>2
    <3> QED BY <3>1, <3>2
  <2>3. ASSUME NEW b \in Actor, NEW x \in Stack(b)', At("device", x)
        PROVE  x = Victim(b)' /\ frame'[b].pc \in {"outChild", "outReady", "outIO"}
    <3>1. CASE x \in Stack(b)
      <4>1. x = Victim(b) /\ frame[b].pc \in {"outChild", "outReady", "outIO"}
        BY <1>4, <2>3, <3>1 DEF Stacks
      <4> QED BY <1>4, <1>13, <1>15, <4>1
    <3>2. CASE x \notin Stack(b)
      BY <1>11, <1>13, <1>15, <2>3, <3>2
    <3> QED BY <3>1, <3>2
  <2>4. \A p \in User : \A r \in CallRoots(p)' : (r = p /\ Ending(p)') \/ r \in Children(p)'
    BY <1>4, <1>5, <1>23 DEF Stacks, Ending, Children
  <2>5. ASSUME frame'["ssi"].pc = "outChild", Listed(Victim("ssi"))'
        PROVE  \/ Victim("ssi")' = Asker' /\ Ending(Asker)'
               \/ p_parent'[Victim("ssi")'] \in ToSet(Tail(frame'["ssi"].stack))
               \/ p_parent'[Victim("ssi")'] = Asker' /\ call'[Asker'].op = "TERM"
    <3>1. CASE a = "ssi"
      BY <1>0, <1>4, <1>5, <1>8, <1>13, <1>14, <1>15, <3>1 DEF Stack
    <3>2. CASE a # "ssi"
      <4>1. frame'["ssi"] = frame["ssi"] /\ Victim("ssi")' = Victim("ssi")
        BY <1>13, <1>15, <3>2 DEF Actor
      <4>2. frame["ssi"].pc = "outChild" /\ Listed(Victim("ssi"))
        BY <1>24, <2>5, <4>1
      <4> QED BY <1>4, <1>5, <1>16, <4>1, <4>2 DEF Stacks, Ending
    <3> QED BY <3>1, <3>2
  <2>6. \A b \in Actor : \A x \in Stack(b)' : Listed(x)' => x = Victim(b)' /\ frame'[b].pc = "outChild"
    BY <1>24, <2>2
  <2>7. \A b \in Actor : \A x \in Stack(b)' :
            At("device", x)' => x = Victim(b)' /\ frame'[b].pc \in {"outChild", "outReady", "outIO"}
    BY <1>21, <2>3 DEF Stage
  <2> QED BY <2>1, <2>4, <2>5, <2>6, <2>7 DEF Stacks
<1>26. /\ Roots(o)' = Roots(o) \cup {c} /\ \A p \in User : p # o => Roots(p)' = Roots(p)
  <2>1. CASE a = "ssi"
    <3>1. /\ ssi.pc = "terminate" /\ Asker = o /\ cpu = "run" /\ CallRoots(o) = {} /\ o \in User
      BY <1>3, <2>1 DEF Owns
    <3>2. \A p : NucleusRoots(p) = {} /\ NucleusRoots(p)' = {}
      BY <1>12, <3>1 DEF NucleusRoots, Trapped
    <3>3. SsiRoots(o)' = SsiRoots(o) \cup {c} /\ \A p : p # o => SsiRoots(p)' = SsiRoots(p)
      BY <1>5, <1>15, <1>16, <2>1, <3>1 DEF SsiRoots
    <3> QED BY <1>23, <3>1, <3>2, <3>3 DEF Roots
  <2>2. CASE a = "nucleus"
    <3>1. Trapped(o) /\ o \in User
      BY <1>3, <2>2 DEF Owns
    <3>2. \A p : SsiRoots(p)' = SsiRoots(p)
      BY <1>5, <1>15, <1>16, <2>2 DEF SsiRoots, Actor
    <3>3. NucleusRoots(o)' = NucleusRoots(o) \cup {c} /\ \A p : p # o => NucleusRoots(p)' = NucleusRoots(p)
      BY <1>5, <1>12, <1>15, <2>2, <3>1 DEF NucleusRoots, Trapped
    <3> QED BY <1>23, <3>1, <3>2, <3>3 DEF Roots
  <2> QED BY <2>1, <2>2 DEF Actor
<1>27. Doomed(doom)'
  <2>1. \A p \in User : \A x \in Roots(p)' : x \in Pcb /\ doom[x] = p
    BY <1>1, <1>7, <1>8, <1>26 DEF Doomed
  <2>2. \A x \in Pcb : \A y \in Children(x)' : doom[x] # NULL => doom[y] = doom[x]
    BY <1>1, <1>5 DEF Doomed, Children
  <2>3. ASSUME NEW x \in Pcb, doom[x] # NULL
        PROVE  /\ doom[x] \in User /\ x \in Live' /\ x # ssi_pcb_real
               /\ \A T \in SUBSET Pcb : Roots(doom[x])' \subseteq T /\ Closed(T)' => x \in T
               /\ Meek(x, doom[x])'
    <3>1. PICK d : d = doom[x]
      OBVIOUS
    <3>2. d \in User /\ x \in Live /\ x # ssi_pcb_real /\ Meek(x, d)
          /\ \A T \in SUBSET Pcb : Roots(d) \subseteq T /\ Closed(T) => x \in T
      BY <1>1, <2>3, <3>1 DEF Doomed
    <3>3. Roots(d) \subseteq Roots(d)'
      BY <1>26, <3>2
    <3>4. \A T : Closed(T)' <=> Closed(T)
      BY <1>5 DEF Closed, Children
    <3>5. \A T \in SUBSET Pcb : Roots(d)' \subseteq T /\ Closed(T)' => x \in T
      BY <3>2, <3>3, <3>4
    <3>6. Meek(x, d)'
      BY <1>5, <1>12, <1>21, <3>2 DEF Meek, AtPeace, Ending, Trapped
    <3> QED BY <1>16, <3>1, <3>2, <3>5, <3>6
  <2> QED BY <2>1, <2>2, <2>3 DEF Doomed
<1> QED BY <1>1, <1>17, <1>18, <1>19, <1>20, <1>22, <1>25, <1>27 DEF Orderly

(* What a victim is doing when it is freed.                                *)
LEMMA LastStage ==
    ASSUME Orderly, NEW doom, Doomed(doom), NEW a \in Actor, TermAt(a, "children"), NEW o,
           Owns(doom, a, o), NEW v, v = Victim(a), NEW s \in Stage, At(s, v)
    PROVE  s = "served" /\ ssi.pc = "terminate" /\ ~Trapped(v)
<1>1. "children" \in FramePc \ {"idle"}
  BY DEF FramePc
<1>2. /\ Base /\ Staged /\ v \in Stack(a) /\ v \in User /\ v \in Pcb /\ v \in Live /\ doom[v] = o /\ o # NULL
      /\ ~At("device", v)
  BY <1>1, TermActs, TermVictim, Names DEF Orderly, Owns, Stack, User
<1>3. Meek(v, o)
  BY <1>2 DEF Doomed
<1>4. ~Trapped(v)
  BY <1>2 DEF Staged
<1>5. CASE AtPeace(v)
  BY <1>2, <1>5, NoStage, CallOps DEF AtPeace
<1>6. CASE v = o /\ Ending(v)
  <2>1. a = "ssi"
    BY <1>4, <1>6 DEF Owns, Actor
  <2>2. ssi.pc = "terminate" /\ BeingServed(v)
    BY <1>6, <2>1 DEF Owns, BeingServed
  <2>3. At("served", v) /\ "served" \in Stage
    BY <2>2 DEF At, Stage
  <2> QED BY <1>2, <1>4, <2>2, <2>3 DEF Staged, OneStage
<1>7. CASE \A t \in Stage : At(t, v) => t = "device"
  BY <1>2, <1>7
<1> QED BY <1>3, <1>4, <1>5, <1>6, <1>7 DEF Meek

LEMMA TermFreesOrderly ==
    ASSUME Orderly, Base', NEW a \in Actor, TermFrees(a)
    PROVE  Orderly'
<1>0. PICK v, st : v = Victim(a) /\ st = frame[a].stack
  OBVIOUS
<1>1. PICK doom \in [Pcb -> Pcb \cup {NULL}] : Doomed(doom)
  BY DEF Orderly
<1>2. TermAt(a, "children") /\ "children" \in FramePc \ {"idle"}
  BY DEF TermFrees, FramePc
<1>3. PICK o : Owns(doom, a, o)
  BY <1>1, <1>2, TermOwner
<1>4. /\ Base /\ Places /\ Unready /\ Family /\ Waiting /\ Staged /\ Stacks
      /\ v \in Stack(a) /\ v \in User /\ v \in Pcb /\ frame[a].pc = "children"
      /\ GoodFrame(frame[a]) /\ st \in Seq(Pcb) /\ st # <<>> /\ frame \in [Actor -> FrameOf]
      /\ ~Listed(v) /\ v \notin Ready
  BY <1>0, <1>2, TermActs, TermVictim DEF Orderly, Stack, User, Base, FrameType, FrameOf
<1>5. /\ UNCHANGED <<p_parent, p_child, msg_inbox, received, reg_a1, ready_queue,
                     current_process, cpu, ssi, pcb_blocked_on_clock, pcb_blocked_on_device>>
      /\ p_child[v] = <<>> /\ pcbFree' = <<v>> \o pcbFree /\ blocked' = blocked \ {v}
      /\ call' = [call EXCEPT ![v] = NoCall]
      /\ frame' = [frame EXCEPT ![a] = Resume(Tail(st))]
  BY <1>0 DEF TermFrees, keepMsg, cpuVars, listVars
<1>6. v \in Live /\ v \notin UnderConstruction /\ doom[v] = o /\ o # NULL /\ o \in User
  BY <1>3, <1>4, Names DEF Owns, User
<1>7. Live' = Live \ {v} /\ Once(pcbFree')
  <2>1. pcbFree \in Seq(Pcb) /\ Once(pcbFree) /\ v \notin ToSet(pcbFree)
    BY <1>4, <1>6 DEF Base, TypeOK, Places, Live
  <2>2. ToSet(<<v>> \o pcbFree) = {v} \cup ToSet(pcbFree) /\ Once(<<v>> \o pcbFree)
    BY <1>4, <2>1, Push
  <2> QED BY <1>5, <2>2 DEF Live
<1>8. PICK rest, f : rest = Tail(st) /\ f = Resume(rest)
  OBVIOUS
<1>9. /\ rest \in Seq(Pcb) /\ ToSet(rest) = Stack(a) \ {v} /\ Once(rest)
  BY <1>0, <1>4, <1>8, TailRange DEF Stacks, Stack, Victim
<1>10. f.stack = rest /\ f.pc # "outChild" /\ frame' = [frame EXCEPT ![a] = f]
  <2>1. ssi_pcb_real \notin ToSet(rest)
    BY <1>0, <1>4, <1>9 DEF GoodFrame, Stack
  <2>2. f.stack = rest /\ (rest # <<>> => f.pc = "children") /\ (rest = <<>> => f = NoFrame)
    BY <1>8, <1>9, <2>1, GoodResume
  <2> QED BY <1>5, <1>8, <2>2, GoodNoFrame
<1>11. /\ frame'[a] = f /\ \A b \in Actor : b # a => frame'[b] = frame[b]
  BY <1>4, <1>10
<1>12. /\ Stack(a)' = Stack(a) \ {v}
       /\ \A b \in Actor : b # a => Stack(b)' = Stack(b) /\ Victim(b)' = Victim(b)
       /\ \A b \in Actor : Stack(b)' \subseteq Stack(b)
  BY <1>9, <1>10, <1>11 DEF Stack, Victim
<1>13. UnderConstruction' = UnderConstruction /\ Asker' = Asker /\ Asked' = Asked
       /\ Dying \ {v} \subseteq Dying'
  <2>1. \A b \in Actor : ToSet(frame[b].stack) \ {v} \subseteq ToSet(frame'[b].stack)
    BY <1>12 DEF Stack
  <2> QED BY <1>5, <2>1 DEF UnderConstruction, Asker, Asked, Dying
<1>14. \A b \in Actor : v \in Stack(b) => b = a
  BY <1>3, <1>6 DEF Owns
<1>15. Places'
  <2>1. cpu = "run" => current_process # v
    <3>1. a = "ssi" \/ cpu = "kernel"
      BY <1>3 DEF Owns, Trapped, Actor
    <3>2. a = "ssi" => current_process = ssi_pcb_real
      BY <1>2, <1>4, TermActs, SsiRuns
    <3> QED BY <1>4, <3>1, <3>2 DEF User
  <2> QED BY <1>4, <1>5, <1>6, <1>7, <1>13, <2>1 DEF Places, Ready
<1>16. Unready'
  <2>1. ASSUME NEW x \in Stack("ssi")', x \in Ready \/ (cpu = "run" /\ x = current_process)
        PROVE  x = Victim("ssi")' /\ frame'["ssi"].pc \in {"outChild", "outReady"}
    <3>1. x \in Stack("ssi")
      BY <1>12, <2>1 DEF Actor
    <3>2. x = Victim("ssi") /\ frame["ssi"].pc \in {"outChild", "outReady"}
      BY <1>4, <2>1, <3>1 DEF Unready
    <3>3. a # "ssi"
      BY <1>4, <3>2
    <3> QED BY <1>11, <1>12, <3>2, <3>3 DEF Actor
  <2>2. Stack("nucleus")' \cap Ready = {}
    BY <1>4, <1>12 DEF Unready, Actor
  <2>3. cpu = "kernel" => current_process \in Stack("nucleus")' \/ current_process \notin Live'
    <3>1. Stack("nucleus") \ {v} \subseteq Stack("nucleus")'
      BY <1>12 DEF Actor
    <3> QED BY <1>4, <1>7, <3>1 DEF Unready
  <2>4. Ready' = Ready
    BY <1>5 DEF Ready
  <2> QED BY <1>5, <2>1, <2>2, <2>3, <2>4 DEF Unready
<1>17. Family'
  <2>1. ASSUME NEW x \in Pcb, NEW q \in Children(x)
        PROVE  x \in Live' /\ q \in Live' /\ p_parent[q] = x
    <3>1. x # v
      BY <1>5, <2>1, NoQueue DEF Children
    <3>2. q # v
      BY <1>4, <2>1 DEF Listed
    <3> QED BY <1>4, <1>7, <2>1, <3>1, <3>2 DEF Family
  <2>2. \A q \in Live' \ (UnderConstruction' \cup Dying') : q \in Live \ (UnderConstruction \cup Dying)
    BY <1>7, <1>13
  <2>3. \A q \in Live' \ (UnderConstruction' \cup Dying') :
           p_parent'[q] # NULL => q \in ToSet(p_child'[p_parent'[q]])
    BY <1>4, <1>5, <2>2 DEF Family, Children
  <2>4. /\ \A x \in Pcb : Once(p_child'[x])
        /\ \A q \in UnderConstruction' : p_child'[q] = <<>>
        /\ ssi'.pc = "insertChild" => p_parent'[ssi'.p] = NULL
        /\ ssi'.pc = "insertReady" => p_parent'[ssi'.p] = Asker' /\ ssi'.p \in ToSet(p_child'[Asker'])
    BY <1>4, <1>5, <1>13 DEF Family, Children
  <2>5. \A x \in Pcb : \A q \in ToSet(p_child'[x]) : x \in Live' /\ q \in Live' /\ p_parent'[q] = x
    BY <1>5, <2>1 DEF Children
  <2> HIDE DEF Dying
  <2> QED BY <2>3, <2>4, <2>5 DEF Family, Children
<1>18. call \in [Pcb -> Request \cup {NoCall, Receiving}]
  BY <1>4 DEF Base, ServiceTypes
<1>19. /\ call'[v] = NoCall /\ \A x \in Pcb : x # v => call'[x] = call[x]
  BY <1>4, <1>5, <1>18
<1>20. Waiting'
  <2>1. ASSUME NEW x \in Pcb  PROVE WaitsFor(x)'
    <3>1. WaitsFor(x)
      BY <1>4 DEF Waiting
    <3>2. CASE x = v
      <4>1. x \notin blocked' /\ call'[x] = NoCall
        BY <1>5, <1>19, <3>2
      <4> QED BY <4>1, CallOps DEF WaitsFor
    <3>3. CASE x # v
      BY <1>5, <1>7, <1>13, <1>19, <3>1, <3>3 DEF WaitsFor
    <3> QED BY <3>2, <3>3
  <2> QED BY <2>1 DEF Waiting
<1>21. \A x : \A s \in Stage : At(s, x)' <=> At(s, x)
  BY <1>5, <1>13 DEF At, Requested, Replied, From, BeingServed, BeingAnswered
<1>22. \A s \in Stage : At(s, v) => s = "served" /\ ssi.pc = "terminate" /\ ~Trapped(v)
  BY <1>0, <1>1, <1>2, <1>3, LastStage
<1>23. Staged'
  <2>1. \A x \in User : /\ OneStage(x) /\ Requested(x)' = Requested(x) /\ Replied(x)' = Replied(x)
                        /\ BeingServed(x)' <=> BeingServed(x)
                        /\ BeingAnswered(x)' <=> BeingAnswered(x)
    BY <1>4, <1>5, <1>13 DEF Staged, Requested, Replied, From, BeingServed, BeingAnswered
  <2>2. \A x \in User : AtMostOne(msg_inbox'[ssi_pcb_real], From(x))
                        /\ AtMostOne(msg_inbox'[x], From(SSI_FAKE_ADDR))
    BY <1>5, <2>1 DEF OneStage
  <2>3. ASSUME NEW x \in User, x # v  PROVE OneStage(x)'
    <3>1. x \in Pcb /\ call'[x] = call[x] /\ (x \in Live' <=> x \in Live)
      BY <1>7, <1>19, <2>3 DEF User
    <3>2. BeingServed(x) => x \in Live \/ ssi'.pc = "terminate"
      BY <1>4, <1>5, ServedCalls
    <3> QED BY <1>5, <1>13, <2>1, <2>2, <3>1, <3>2, StageKept
  <2>4. OneStage(v)'
    <3>1. "served" \in Stage /\ \A s \in Stage : At(s, v)' => s = "served" /\ ssi'.pc = "terminate"
      BY <1>5, <1>21, <1>22 DEF Stage
    <3>2. At("served", v)' => StagedAt("served", v)'
      BY <1>7, <3>1 DEF StagedAt
    <3> QED BY <1>4, <2>2, <3>1, <3>2, NewStage
  <2>5. \A x \in User : Trapped(x)' => call'[x] = NoCall /\ \A s \in Stage : ~At(s, x)'
    <3>1. \A x \in User : Trapped(x)' => call[x] = NoCall /\ \A s \in Stage : ~At(s, x)
      BY <1>4, <1>5 DEF Staged, Trapped
    <3>2. \A x \in User : call[x] = NoCall => call'[x] = NoCall
      BY <1>19 DEF User
    <3> QED BY <1>21, <3>1, <3>2
  <2>6. \A x \in User : OneStage(x)'
    BY <2>3, <2>4
  <2> QED BY <1>4, <1>5, <2>5, <2>6 DEF Staged
<1>24. ASSUME NEW x \in User  PROVE CallRoots(x)' = CallRoots(x) /\ (CallRoots(x) # {} => call'[x] = call[x])
  <2>1. (At("inbox", x)' <=> At("inbox", x)) /\ (BeingServed(x)' <=> BeingServed(x))
    BY <1>5, <1>13, <1>21 DEF Stage, BeingServed
  <2>2. Pending(x)' <=> Pending(x)
    BY <1>5, <2>1 DEF Pending
  <2>3. CASE x = v
    <3>1. ~At("inbox", x)
      BY <1>22, <2>3 DEF Stage
    <3>2. BeingServed(x) => ssi.pc # "dispatch"
      BY <1>22, <2>3 DEF Stage, At
    <3>3. ~Pending(x)
      BY <3>1, <3>2 DEF Pending
    <3> QED BY <2>2, <3>3 DEF CallRoots
  <2>4. CASE x # v
    <3>1. call'[x] = call[x]
      BY <1>19, <2>4 DEF User
    <3> QED BY <2>2, <3>1, CallRootsKept
  <2> QED BY <2>3, <2>4
<1>25. \A x : Listed(x)' <=> Listed(x)
  BY <1>5 DEF Listed, Children
<1>26. Stacks'
  <2>1. \A b \in Actor : Once(frame'[b].stack)
    BY <1>4, <1>9, <1>10, <1>11 DEF Stacks
  <2>2. ASSUME NEW b \in Actor, NEW x \in Stack(b)', Listed(x)
        PROVE  x = Victim(b)' /\ frame'[b].pc = "outChild"
    <3>1. x = Victim(b) /\ frame[b].pc = "outChild"
      BY <1>4, <1>12, <2>2 DEF Stacks
    <3> QED BY <1>4, <1>11, <1>12, <3>1
  <2>3. ASSUME NEW b \in Actor, NEW x \in Stack(b)', At("device", x)
        PROVE  x = Victim(b)' /\ frame'[b].pc \in {"outChild", "outReady", "outIO"}
    <3>1. x = Victim(b) /\ frame[b].pc \in {"outChild", "outReady", "outIO"}
      BY <1>4, <1>12, <2>3 DEF Stacks
    <3> QED BY <1>4, <1>11, <1>12, <3>1
  <2>4. \A p \in User : \A r \in CallRoots(p)' : (r = p /\ Ending(p)') \/ r \in Children(p)'
    <3>1. \A p \in User : \A r \in CallRoots(p)' : (r = p /\ Ending(p)') \/ r \in Children(p)
      BY <1>4, <1>24, CalmCallRoots
    <3> QED BY <1>5, <3>1 DEF Children
  <2>5. ASSUME frame'["ssi"].pc = "outChild", Listed(Victim("ssi"))'
        PROVE  \/ Victim("ssi")' = Asker' /\ Ending(Asker)'
               \/ p_parent'[Victim("ssi")'] \in ToSet(Tail(frame'["ssi"].stack))
               \/ p_parent'[Victim("ssi")'] = Asker' /\ call'[Asker'].op = "TERM"
    <3>1. PICK w, k : w = Victim("ssi") /\ k = Asker
      OBVIOUS
    <3>2. a # "ssi" /\ frame'["ssi"] = frame["ssi"] /\ Victim("ssi")' = w
      BY <1>10, <1>11, <1>12, <2>5, <3>1 DEF Actor
    <3>3. frame["ssi"].pc = "outChild" /\ Listed(w)
      BY <1>25, <2>5, <3>1, <3>2
    <3>4. \/ w = k /\ Ending(k)
          \/ p_parent[w] \in ToSet(Tail(frame["ssi"].stack))
          \/ p_parent[w] = k /\ call[k].op = "TERM"
      BY <1>4, <3>1, <3>3 DEF Stacks
    <3>5. w # v
      BY <1>4, <3>3
    <3>6. p_parent[w] # v
      <4>1. PICK y \in Pcb : w \in Children(y)
        BY <3>3 DEF Listed
      <4>2. p_parent[w] = y /\ y # v
        BY <1>4, <1>5, <4>1, NoQueue DEF Family, Children
      <4> QED BY <4>2
    <3>7. k \in Pcb
      <4>1. frame["ssi"] # NoFrame
        BY <3>3, GoodNoFrame
      <4>2. frame["ssi"].stack \in Seq(Pcb) /\ frame["ssi"].stack # <<>>
        BY <1>4, <4>1 DEF Base, Frames, FrameOf, Actor
      <4>3. Once(frame["ssi"].stack)
        BY <1>4 DEF Stacks, Actor
      <4>4. Stack("ssi") # {}
        BY <4>2, <4>3, TailRange DEF Stack
      <4> QED BY <1>4, <3>1, <4>4, SsiAtWork DEF User
    <3>8. CASE k = v
      BY <1>5, <3>2, <3>4, <3>5, <3>6, <3>8
    <3>9. CASE k # v
      <4>1. call'[k] = call[k]
        BY <1>19, <3>7, <3>9
      <4> QED BY <1>5, <1>13, <3>1, <3>2, <3>4, <4>1 DEF Ending
    <3> QED BY <3>8, <3>9
  <2>6. \A b \in Actor : \A x \in Stack(b)' : Listed(x)' => x = Victim(b)' /\ frame'[b].pc = "outChild"
    BY <1>25, <2>2
  <2>7. \A b \in Actor : \A x \in Stack(b)' :
            At("device", x)' => x = Victim(b)' /\ frame'[b].pc \in {"outChild", "outReady", "outIO"}
    BY <1>21, <2>3 DEF Stage
  <2> QED BY <2>1, <2>4, <2>5, <2>6, <2>7 DEF Stacks
<1>27. /\ Roots(o)' = Roots(o) \ {v} /\ \A p \in User : p # o => Roots(p)' = Roots(p)
  <2>1. CASE a = "ssi"
    <3>1. /\ ssi.pc = "terminate" /\ Asker = o /\ cpu = "run" /\ CallRoots(o) = {} /\ o \in User
      BY <1>3, <2>1 DEF Owns
    <3>2. \A p : NucleusRoots(p) = {} /\ NucleusRoots(p)' = {}
      BY <1>5, <3>1 DEF NucleusRoots, Trapped
    <3>3. SsiRoots(o)' = SsiRoots(o) \ {v} /\ \A p : p # o => SsiRoots(p)' = SsiRoots(p)
      BY <1>5, <1>12, <1>13, <2>1, <3>1 DEF SsiRoots
    <3> QED BY <1>24, <3>1, <3>2, <3>3 DEF Roots
  <2>2. CASE a = "nucleus"
    <3>1. Trapped(o) /\ o \in User /\ Roots(o) = Stack("nucleus") /\ CallRoots(o) = {} /\ ~BeingServed(o)
      BY <1>3, <2>2 DEF Owns
    <3>2. \A p : SsiRoots(p)' = SsiRoots(p)
      BY <1>5, <1>12, <1>13, <2>2 DEF SsiRoots, Actor
    <3>3. NucleusRoots(o)' = NucleusRoots(o) \ {v} /\ \A p : p # o => NucleusRoots(p)' = NucleusRoots(p)
      BY <1>5, <1>12, <2>2, <3>1 DEF NucleusRoots, Trapped
    <3>4. SsiRoots(o) = {}
      BY <3>1 DEF SsiRoots, BeingServed
    <3> QED BY <1>24, <3>1, <3>2, <3>3, <3>4 DEF Roots
  <2> QED BY <2>1, <2>2 DEF Actor
<1>28. PICK new : new = [doom EXCEPT ![v] = NULL]
  OBVIOUS
<1>29. /\ new \in [Pcb -> Pcb \cup {NULL}] /\ new[v] = NULL
       /\ \A x \in Pcb : x # v => new[x] = doom[x]
  BY <1>4, <1>28
<1>30. Doomed(new)'
  <2>1. ASSUME NEW p \in User, NEW x \in Roots(p)'  PROVE x \in Pcb /\ new[x] = p
    <3>1. x \in Roots(p) /\ (p = o => x # v)
      BY <1>27, <2>1
    <3>2. x \in Pcb /\ doom[x] = p
      BY <1>1, <3>1 DEF Doomed
    <3> QED BY <1>6, <1>29, <3>1, <3>2
  <2>2. ASSUME NEW x \in Pcb, NEW y \in Children(x), new[x] # NULL  PROVE new[y] = new[x]
    <3>1. x # v /\ y # v /\ y \in Pcb
      BY <1>4, <1>29, <2>2, ChildrenArePcbs DEF Listed
    <3>2. doom[y] = doom[x]
      BY <1>1, <1>29, <2>2, <3>1 DEF Doomed
    <3> QED BY <1>29, <3>1, <3>2
  <2>3. ASSUME NEW x \in Pcb, new[x] # NULL
        PROVE  /\ new[x] \in User /\ x \in Live' /\ x # ssi_pcb_real
               /\ \A T \in SUBSET Pcb : Roots(new[x])' \subseteq T /\ Closed(T)' => x \in T
               /\ Meek(x, new[x])'
    <3>1. PICK d : d = new[x]
      OBVIOUS
    <3>2. x # v /\ doom[x] = d /\ d # NULL
      BY <1>29, <2>3, <3>1
    <3>3. d \in User /\ x \in Live /\ x # ssi_pcb_real /\ Meek(x, d)
          /\ \A T \in SUBSET Pcb : Roots(d) \subseteq T /\ Closed(T) => x \in T
      BY <1>1, <3>2 DEF Doomed
    <3>4. ASSUME NEW T \in SUBSET Pcb, Roots(d)' \subseteq T, \A y \in T : Children(y) \subseteq T
          PROVE  x \in T
      <4>1. PICK R : R = T \cup {v}
        OBVIOUS
      <4>2. Children(v) = {}
        BY <1>5, NoQueue DEF Children
      <4>3. Closed(R) /\ R \in SUBSET Pcb
        BY <1>4, <3>4, <4>1, <4>2 DEF Closed
      <4>4. Roots(d) \subseteq R
        BY <1>27, <3>3, <3>4, <4>1
      <4>5. x \in R
        BY <3>3, <4>3, <4>4
      <4> QED BY <3>2, <4>1, <4>5
    <3>5. \A T : Closed(T)' => \A y \in T : Children(y) \subseteq T
      BY <1>5 DEF Closed, Children
    <3>6. \A T \in SUBSET Pcb : Roots(d)' \subseteq T /\ Closed(T)' => x \in T
      BY <3>4, <3>5
    <3>7. call'[x] = call[x] /\ (x \in blocked => x \in blocked')
      BY <1>5, <1>19, <3>2
    <3>8. Meek(x, d)'
      BY <1>5, <1>21, <3>3, <3>7 DEF Meek, AtPeace, Ending, Trapped
    <3>9. x \in Live'
      BY <1>7, <3>2, <3>3
    <3> QED BY <3>1, <3>3, <3>6, <3>8, <3>9
  <2>4. \A x \in Pcb : \A y \in Children(x)' : new[x] # NULL => new[y] = new[x]
    BY <1>5, <2>2 DEF Children
  <2> QED BY <2>1, <2>3, <2>4 DEF Doomed
<1> QED BY <1>15, <1>16, <1>17, <1>20, <1>23, <1>26, <1>29, <1>30 DEF Orderly

LEMMA TerminateOrderly ==
    ASSUME Orderly, Base', NEW a \in Actor, Terminate(a)
    PROVE  Orderly'
BY TermOutChildOrderly, TermOutReadyOrderly, TermOutIOOrderly, TermCountsOrderly,
   TermNextChildOrderly, TermFreesOrderly DEF Terminate
-----------------------------------------------------------------------------
(* Traps.                                                                  *)

(* A trap may find descendants that wait for a device, and dooms them too. *)
LEMMA TrapFree ==
    ASSUME Orderly, NEW doom, Doomed(doom), NEW p \in User, cpu = "run", current_process = p,
           call[p] = NoCall, MayTrap(p)
    PROVE  \A x \in Progeny(p) :
              /\ x \in Pcb /\ doom[x] = NULL /\ x \in Live /\ x # ssi_pcb_real /\ x # p
              /\ AtPeace(x) \/ (x \in blocked /\ \A s \in Stage : At(s, x) => s = "device")
<1>1. /\ Base /\ Places /\ Family /\ Waiting /\ Staged /\ Stacks /\ p \in Pcb
  BY DEF Orderly, User
<1>2. \A x \in Pcb : Children(x) \subseteq Pcb
  BY <1>1, ChildrenArePcbs
<1>3. Progeny(p) \subseteq Pcb
  BY <1>1, <1>2, ProgenyCloses
<1>4. ASSUME NEW x \in Progeny(p)
      PROVE  /\ x \in blocked
             /\ \/ AtPeace(x)
                \/ x \in User /\ At("device", x) /\ call[x].op = "DOIO"
  <2>1. CASE AtRest(x)
    BY <2>1 DEF AtRest, AtPeace
  <2>2. CASE AwaitsDevice(x)
    <3>1. PICK d \in Device : x \in ToSet(pcb_blocked_on_device[d])
      BY <2>2 DEF AwaitsDevice
    <3>2. x \in User
      BY <1>1, <1>3, <1>4, <3>1 DEF Base, SsiApart, User
    <3>3. At("device", x) /\ "device" \in Stage
      BY <3>1 DEF At, Stage
    <3>4. call[x] = [op |-> "DOIO", arg |-> d]
      BY <1>1, <3>1, <3>2, <3>3 DEF Staged, OneStage, StagedAt
    <3>5. call[x].op = "DOIO"
      BY <3>4
    <3> QED BY <2>2, <3>2, <3>3, <3>5 DEF AwaitsDevice
  <2> QED BY <1>4, <2>1, <2>2 DEF MayTrap
<1>5. \A x \in Progeny(p) : call[x].op # "TERM" /\ ~Ending(x)
  BY <1>4, CallOps DEF AtPeace, Receiving, Ending
<1>6. doom[p] = NULL
  BY <1>1, FreeClient
<1>7. \A x \in Progeny(p) : doom[x] = NULL
  BY <1>1, <1>5, <1>6, CallOps, FreeProgeny DEF NoCall
<1>8. ASSUME NEW x \in Progeny(p)
      PROVE  x \in Live /\ x # ssi_pcb_real /\ x # p
  <2>1. x \in Live
    BY <1>1, <1>4 DEF Places
  <2>2. x # p
    BY <1>1, <1>4 DEF Places
  <2>3. call[x] # NoCall
    BY <1>4, CallOps DEF AtPeace, NoCall
  <2>4. x # ssi_pcb_real
    BY <1>1, <2>3 DEF Base, SsiApart
  <2> QED BY <2>1, <2>2, <2>4
<1>9. ASSUME NEW x \in Progeny(p)
      PROVE  AtPeace(x) \/ (x \in blocked /\ \A s \in Stage : At(s, x) => s = "device")
  <2>1. CASE AtPeace(x)
    BY <2>1
  <2>2. CASE x \in User /\ At("device", x)
    <3>1. \A s \in Stage : At(s, x) => s = "device"
      BY <1>1, <2>2 DEF Staged, OneStage, Stage
    <3> QED BY <1>4, <3>1
  <2> QED BY <1>4, <2>1, <2>2
<1> QED BY <1>3, <1>7, <1>8, <1>9

LEMMA TrapsOrderly ==
    ASSUME Orderly, Base', NEW p \in Pcb, Traps(p)
    PROVE  Orderly'
<1>1. PICK doom \in [Pcb -> Pcb \cup {NULL}] : Doomed(doom)
  BY DEF Orderly
<1>2. /\ Base /\ Places /\ Unready /\ Family /\ Waiting /\ Staged /\ Stacks /\ p \in User
      /\ cpu = "run" /\ current_process = p /\ call[p] = NoCall /\ MayTrap(p)
      /\ Enter("nucleus", p, <<>>)
      /\ UNCHANGED <<pcbFree, p_parent, p_child, msg_inbox, received, blocked, reg_a1, ready_queue,
                     current_process, call, ssi, pcb_blocked_on_clock, pcb_blocked_on_device>>
  BY DEF Orderly, Traps, Client, Running, User, procVars, msgVars, listVars
<1>3. p \in Live /\ p # ssi_pcb_real /\ p \notin Ready \cup blocked /\ p \notin UnderConstruction
  BY <1>2 DEF Places, User
<1>4. frame["nucleus"] = NoFrame /\ Stack("nucleus") = {}
  BY <1>2, GoodNoFrame, NoQueue DEF Base, Frames, Stack
<1>5. PICK f : f = Called(p, <<>>)
  OBVIOUS
<1>6. frame'["nucleus"] = f /\ frame'["ssi"] = frame["ssi"] /\ cpu' = "kernel"
  <2>1. frame' = [frame EXCEPT !["nucleus"] = f] /\ cpu' = "kernel"
    BY <1>2, <1>3, <1>5 DEF Enter, Called
  <2>2. "ssi" \in Actor /\ "nucleus" \in Actor /\ DOMAIN frame = Actor
    BY <1>2 DEF Base, FrameType, Actor
  <2>3. frame'["nucleus"] = f /\ frame'["ssi"] = frame["ssi"]
    BY <2>1, <2>2
  <2> QED BY <2>1, <2>3
<1>7. ToSet(f.stack) = {p} /\ Once(f.stack) /\ Head(f.stack) = p /\ f.pc = "outChild"
  <2>1. PICK q : q = <<>>
    OBVIOUS
  <2>2. q \in Seq(Pcb) /\ ToSet(q) = {} /\ Once(q) /\ p \notin ToSet(q)
    BY <2>1, NoQueue
  <2>3. f.stack = <<p>> \o q /\ f.pc = "outChild"
    BY <1>3, <1>5, <2>1, <2>2, GoodCalled DEF isPcbValid
  <2>4. /\ Head(<<p>> \o q) = p /\ ToSet(<<p>> \o q) = {p} \cup ToSet(q) /\ Once(<<p>> \o q)
    BY <2>2, Push
  <2> QED BY <2>2, <2>3, <2>4
<1>8. /\ Stack("nucleus")' = {p} /\ Victim("nucleus")' = p
      /\ Stack("ssi")' = Stack("ssi") /\ Victim("ssi")' = Victim("ssi")
  BY <1>6, <1>7 DEF Stack, Victim
<1>9. Live' = Live /\ UnderConstruction' = UnderConstruction /\ Asker' = Asker /\ Asked' = Asked
      /\ Dying \subseteq Dying' /\ \A x : Children(x)' = Children(x)
  <2>1. \A b \in Actor : ToSet(frame[b].stack) \subseteq ToSet(frame'[b].stack)
    BY <1>4, <1>6 DEF Actor, Stack
  <2> QED BY <1>2, <2>1 DEF Live, UnderConstruction, Asker, Asked, Dying, Children
<1>10. Places'
  BY <1>2, <1>6, <1>9 DEF Places, Ready
<1>11. Unready'
  <2>1. \A x \in Stack("ssi") : x \in Ready =>
           x = Victim("ssi") /\ frame["ssi"].pc \in {"outChild", "outReady"}
    BY <1>2 DEF Unready
  <2>2. Ready' = Ready
    BY <1>2 DEF Ready
  <2> QED BY <1>2, <1>3, <1>6, <1>8, <2>1, <2>2 DEF Unready
<1>12. Family'
  <2>1. \A q \in Live' \ (UnderConstruction' \cup Dying') : q \in Live \ (UnderConstruction \cup Dying)
    BY <1>9
  <2>2. \A q \in Live' \ (UnderConstruction' \cup Dying') :
           p_parent'[q] # NULL => q \in ToSet(p_child'[p_parent'[q]])
    BY <1>2, <2>1 DEF Family, Children
  <2>3. /\ \A x \in Pcb : Once(p_child'[x])
        /\ \A x \in Pcb : \A q \in ToSet(p_child'[x]) : x \in Live' /\ q \in Live' /\ p_parent'[q] = x
        /\ \A q \in UnderConstruction' : p_child'[q] = <<>>
        /\ ssi'.pc = "insertChild" => p_parent'[ssi'.p] = NULL
        /\ ssi'.pc = "insertReady" => p_parent'[ssi'.p] = Asker' /\ ssi'.p \in ToSet(p_child'[Asker'])
    BY <1>2, <1>9 DEF Family, Children
  <2> HIDE DEF Dying
  <2> QED BY <2>2, <2>3 DEF Family, Children
<1>13. Waiting'
  <2>1. \A x \in Pcb : WaitsFor(x)
    BY <1>2 DEF Waiting
  <2>2. \A x \in Pcb : WaitsFor(x)'
    BY <1>2, <1>9, <2>1, WaitsOn
  <2> QED BY <2>2 DEF Waiting
<1>14. \A x : \A s \in Stage : At(s, x)' <=> At(s, x)
  BY <1>2, <1>9 DEF At, Requested, Replied, From, BeingServed, BeingAnswered
<1>15. \A s \in Stage : ~At(s, p)
  BY <1>2, <1>3, CallOps, NoStage
<1>16. Staged'
  <2>1. ASSUME NEW x \in User  PROVE OneStage(x)'
    <3>1. /\ OneStage(x) /\ Requested(x)' = Requested(x) /\ Replied(x)' = Replied(x)
          /\ BeingServed(x)' <=> BeingServed(x)
          /\ BeingAnswered(x)' <=> BeingAnswered(x)
      BY <1>2, <1>9 DEF Staged, Requested, Replied, From, BeingServed, BeingAnswered
    <3>2. AtMostOne(msg_inbox'[ssi_pcb_real], From(x)) /\ AtMostOne(msg_inbox'[x], From(SSI_FAKE_ADDR))
      BY <1>2, <3>1 DEF OneStage
    <3>3. BeingServed(x) => x \in Live \/ ssi'.pc = "terminate"
      BY <1>2, ServedCalls
    <3> QED BY <1>2, <1>9, <3>1, <3>2, <3>3, StageKept
  <2>2. \A x \in User : Trapped(x)' => call'[x] = NoCall /\ \A s \in Stage : ~At(s, x)'
    BY <1>2, <1>14, <1>15 DEF Trapped
  <2> QED BY <1>2, <2>1, <2>2 DEF Staged
<1>17. \A x \in User : CallRoots(x)' = CallRoots(x)
  <2>1. \A x \in User : (At("inbox", x)' <=> At("inbox", x)) /\ (BeingServed(x)' <=> BeingServed(x))
    BY <1>2, <1>9, <1>14 DEF Stage, BeingServed
  <2>2. \A x \in User : Pending(x)' <=> Pending(x)
    BY <1>2, <2>1 DEF Pending
  <2> QED BY <1>2, <2>2, CallRootsKept
<1>18. \A x : Listed(x)' <=> Listed(x)
  BY <1>9 DEF Listed
<1>19. Stacks'
  <2>1. \A b \in Actor : Once(frame'[b].stack)
    BY <1>2, <1>6, <1>7 DEF Stacks, Actor
  <2>2. \A b \in Actor : \A x \in Stack(b)' : Listed(x)' => x = Victim(b)' /\ frame'[b].pc = "outChild"
    BY <1>2, <1>6, <1>7, <1>8, <1>18 DEF Stacks, Actor
  <2>3. \A b \in Actor : \A x \in Stack(b)' :
            At("device", x)' => x = Victim(b)' /\ frame'[b].pc \in {"outChild", "outReady", "outIO"}
    BY <1>2, <1>6, <1>7, <1>8, <1>14 DEF Stacks, Actor, Stage
  <2>4. \A x \in User : \A r \in CallRoots(x)' : (r = x /\ Ending(x)') \/ r \in Children(x)'
    BY <1>2, <1>9, <1>17 DEF Stacks, Ending
  <2>5. frame'["ssi"].pc = "outChild" /\ Listed(Victim("ssi"))' =>
          \/ Victim("ssi")' = Asker' /\ Ending(Asker)'
          \/ p_parent'[Victim("ssi")'] \in ToSet(Tail(frame'["ssi"].stack))
          \/ p_parent'[Victim("ssi")'] = Asker' /\ call'[Asker'].op = "TERM"
    BY <1>2, <1>6, <1>8, <1>9, <1>18 DEF Stacks, Ending
  <2> QED BY <2>1, <2>2, <2>3, <2>4, <2>5 DEF Stacks
<1>20. Roots(p) = {} /\ Roots(p)' = {p} /\ \A q \in User \ {p} : Roots(q)' = Roots(q)
  <2>1. ~At("inbox", p) /\ ~At("served", p)
    BY <1>15 DEF Stage
  <2>2. ~BeingServed(p) /\ CallRoots(p) = {}
    BY <2>1 DEF CallRoots, Pending, At
  <2>3. SsiRoots(p) = {}
    BY <2>2 DEF SsiRoots, BeingServed
  <2>4. \A q : SsiRoots(q)' = SsiRoots(q) /\ NucleusRoots(q) = {}
    BY <1>2, <1>8, <1>9 DEF SsiRoots, NucleusRoots, Trapped
  <2>5. NucleusRoots(p)' = {p} /\ \A q : q # p => NucleusRoots(q)' = {}
    BY <1>2, <1>6, <1>8 DEF NucleusRoots, Trapped
  <2> QED BY <1>2, <1>17, <2>2, <2>3, <2>4, <2>5 DEF Roots
<1>21. \A x \in {p} \cup Progeny(p) : doom[x] = NULL /\ x \in Live /\ x # ssi_pcb_real /\ Meek(x, p)'
  <2>1. doom[p] = NULL
    BY <1>1, <1>2, FreeClient
  <2>2. Trapped(p)'
    BY <1>2, <1>6 DEF Trapped
  <2>3. Meek(p, p)'
    BY <2>2 DEF Meek
  <2>4. ASSUME NEW x \in Progeny(p)
        PROVE  doom[x] = NULL /\ x \in Live /\ x # ssi_pcb_real /\ Meek(x, p)'
    <3>1. /\ doom[x] = NULL /\ x \in Live /\ x # ssi_pcb_real
          /\ AtPeace(x) \/ (x \in blocked /\ \A s \in Stage : At(s, x) => s = "device")
      BY <1>1, <1>2, <2>4, TrapFree
    <3>2. AtPeace(x)' \/ (x \in blocked' /\ \A s \in Stage : At(s, x)' => s = "device")
      BY <1>2, <1>14, <3>1 DEF AtPeace
    <3> QED BY <2>2, <3>1, <3>2 DEF Meek
  <2> QED BY <1>3, <2>1, <2>3, <2>4
<1>22. ASSUME NEW x \in Pcb, doom[x] # NULL  PROVE Meek(x, doom[x])'
  <2>1. PICK d : d = doom[x]
    OBVIOUS
  <2>2. Meek(x, d) /\ (d = p => FALSE)
    <3>1. Meek(x, d)
      BY <1>1, <1>22, <2>1 DEF Doomed
    <3>2. \A y \in Pcb : doom[y] # p
      BY <1>1, <1>3, <1>20, Names, NoRootsNoDoom DEF Live
    <3> QED BY <1>22, <2>1, <3>1, <3>2
  <2>3. Meek(x, d)'
    BY <1>2, <2>2 DEF Meek, AtPeace, Ending, Trapped
  <2> QED BY <2>1, <2>3
<1>23. p_child' = p_child /\ pcbFree' = pcbFree /\ p \in Pcb /\ \A y \in Pcb : Children(y) \subseteq Pcb
  BY <1>2, ChildrenArePcbs
<1>24. \E new \in [Pcb -> Pcb \cup {NULL}] : Doomed(new)'
  BY <1>1, <1>2, <1>20, <1>21, <1>22, <1>23, NewDoom
<1> QED BY <1>10, <1>11, <1>12, <1>13, <1>16, <1>19, <1>24 DEF Orderly
-----------------------------------------------------------------------------
(* The end of a trap, and steps that change nothing.                       *)
LEMMA QuietOrderly ==
    ASSUME Orderly, Base', Places', Unready',
           UNCHANGED <<procVars, msgVars, reg_a1, listVars, ssi, frame, call>>,
           \A p \in User : Trapped(p)' => Trapped(p),
           \A p \in User : Trapped(p) => Trapped(p)' \/ Roots(p) = {}
    PROVE  Orderly'
<1>1. PICK doom \in [Pcb -> Pcb \cup {NULL}] : Doomed(doom)
  BY DEF Orderly
<1>2. /\ Base /\ Family /\ Waiting /\ Staged /\ Stacks
      /\ UNCHANGED <<pcbFree, p_parent, p_child, msg_inbox, received, blocked, reg_a1,
                     call, ssi, frame, pcb_blocked_on_clock, pcb_blocked_on_device>>
  BY DEF Orderly, procVars, msgVars, listVars
<1>3. /\ Live' = Live /\ UnderConstruction' = UnderConstruction /\ Asker' = Asker
      /\ Asked' = Asked /\ Dying' = Dying
      /\ \A x : Children(x)' = Children(x) /\ ToSet(p_child'[x]) = Children(x)
      /\ \A a : Stack(a)' = Stack(a) /\ Victim(a)' = Victim(a)
  BY <1>2 DEF Live, UnderConstruction, Asker, Asked, Dying, Children, Stack, Victim
<1>4. Family'
  <2>1. \A q \in Live' \ (UnderConstruction' \cup Dying') :
           p_parent'[q] # NULL => q \in ToSet(p_child'[p_parent'[q]])
    BY <1>2, <1>3 DEF Family
  <2>2. /\ \A x \in Pcb : Once(p_child'[x])
        /\ \A x \in Pcb : \A q \in ToSet(p_child'[x]) : x \in Live' /\ q \in Live' /\ p_parent'[q] = x
        /\ \A q \in UnderConstruction' : p_child'[q] = <<>>
        /\ ssi'.pc = "insertChild" => p_parent'[ssi'.p] = NULL
        /\ ssi'.pc = "insertReady" => p_parent'[ssi'.p] = Asker' /\ ssi'.p \in ToSet(p_child'[Asker'])
    BY <1>2, <1>3 DEF Family
  <2> HIDE DEF Dying
  <2> QED BY <2>1, <2>2 DEF Family, Children
<1>5. Waiting'
  <2>1. \A x \in Pcb : WaitsFor(x)
    BY <1>2 DEF Waiting
  <2>2. \A x \in Pcb : WaitsFor(x)'
    BY <1>2, <1>3, <2>1, WaitsOn
  <2> QED BY <2>2 DEF Waiting
<1>6. \A x : \A s \in Stage : At(s, x)' <=> At(s, x)
  BY <1>2, <1>3 DEF At, Requested, Replied, From, BeingServed, BeingAnswered
<1>7. Staged'
  <2>1. ASSUME NEW x \in User  PROVE OneStage(x)'
    <3>1. /\ OneStage(x) /\ Requested(x)' = Requested(x) /\ Replied(x)' = Replied(x)
          /\ BeingServed(x)' <=> BeingServed(x)
          /\ BeingAnswered(x)' <=> BeingAnswered(x)
      BY <1>2, <1>3 DEF Staged, Requested, Replied, From, BeingServed, BeingAnswered
    <3>2. AtMostOne(msg_inbox'[ssi_pcb_real], From(x)) /\ AtMostOne(msg_inbox'[x], From(SSI_FAKE_ADDR))
      BY <1>2, <3>1 DEF OneStage
    <3>3. BeingServed(x) => x \in Live \/ ssi'.pc = "terminate"
      BY <1>2, ServedCalls
    <3> QED BY <1>2, <1>3, <3>1, <3>2, <3>3, StageKept
  <2>2. \A x \in User : Trapped(x)' => call'[x] = NoCall /\ \A s \in Stage : ~At(s, x)'
    BY <1>2, <1>6 DEF Staged
  <2> QED BY <1>2, <2>1, <2>2 DEF Staged
<1>8. \A x \in User : CallRoots(x)' = CallRoots(x)
  <2>1. \A x \in User : (At("inbox", x)' <=> At("inbox", x)) /\ (BeingServed(x)' <=> BeingServed(x))
    BY <1>2, <1>3, <1>6 DEF Stage, BeingServed
  <2>2. \A x \in User : Pending(x)' <=> Pending(x)
    BY <1>2, <2>1 DEF Pending
  <2> QED BY <1>2, <2>2, CallRootsKept
<1>9. \A x : Listed(x)' <=> Listed(x)
  BY <1>3 DEF Listed
<1>10. Stacks'
  <2>1. \A b \in Actor : Once(frame'[b].stack)
    BY <1>2 DEF Stacks
  <2>2. \A b \in Actor : \A x \in Stack(b)' : Listed(x)' => x = Victim(b)' /\ frame'[b].pc = "outChild"
    BY <1>2, <1>3, <1>9 DEF Stacks
  <2>3. \A b \in Actor : \A x \in Stack(b)' :
            At("device", x)' => x = Victim(b)' /\ frame'[b].pc \in {"outChild", "outReady", "outIO"}
    BY <1>2, <1>3, <1>6 DEF Stacks, Stage
  <2>4. \A x \in User : \A r \in CallRoots(x)' : (r = x /\ Ending(x)') \/ r \in Children(x)'
    BY <1>2, <1>3, <1>8 DEF Stacks, Ending
  <2>5. frame'["ssi"].pc = "outChild" /\ Listed(Victim("ssi"))' =>
          \/ Victim("ssi")' = Asker' /\ Ending(Asker)'
          \/ p_parent'[Victim("ssi")'] \in ToSet(Tail(frame'["ssi"].stack))
          \/ p_parent'[Victim("ssi")'] = Asker' /\ call'[Asker'].op = "TERM"
    BY <1>2, <1>3, <1>9 DEF Stacks, Ending
  <2> QED BY <2>1, <2>2, <2>3, <2>4, <2>5 DEF Stacks
<1>11. \A p \in User : Roots(p)' = Roots(p)
  <2>1. ASSUME NEW p \in User  PROVE NucleusRoots(p)' = NucleusRoots(p)
    <3>1. CASE Trapped(p)'
      BY <1>3, <3>1 DEF NucleusRoots
    <3>2. CASE ~Trapped(p)'
      BY <3>2 DEF NucleusRoots, Roots
    <3> QED BY <3>1, <3>2
  <2>2. \A p \in User : SsiRoots(p)' = SsiRoots(p)
    BY <1>2, <1>3 DEF SsiRoots
  <2> QED BY <1>8, <2>1, <2>2 DEF Roots
<1>12. ASSUME NEW x \in Pcb, doom[x] # NULL
       PROVE  /\ doom[x] \in User /\ x \in Live' /\ x # ssi_pcb_real
              /\ \A T \in SUBSET Pcb : Roots(doom[x])' \subseteq T /\ Closed(T)' => x \in T
              /\ Meek(x, doom[x])'
  <2>1. PICK d : d = doom[x]
    OBVIOUS
  <2>2. /\ d \in User /\ x \in Live /\ x # ssi_pcb_real /\ Meek(x, d)
        /\ \A T \in SUBSET Pcb : Roots(d) \subseteq T /\ Closed(T) => x \in T
    BY <1>1, <1>12, <2>1 DEF Doomed
  <2>3. \A T : Closed(T)' <=> Closed(T)
    BY <1>3 DEF Closed
  <2>4. Trapped(d) => Trapped(d)'
    <3>1. d # NULL
      BY <2>2, Names DEF User
    <3> QED BY <1>1, <2>1, <2>2, <3>1, NoRootsNoDoom
  <2>5. Meek(x, d)'
    BY <1>2, <1>6, <2>2, <2>4 DEF Meek, AtPeace, Ending
  <2> QED BY <1>3, <1>11, <2>1, <2>2, <2>3, <2>5
<1>13. Doomed(doom)'
  <2>1. \A p \in User : \A x \in Roots(p)' : x \in Pcb /\ doom[x] = p
    BY <1>1, <1>11 DEF Doomed
  <2>2. \A x \in Pcb : \A y \in Children(x)' : doom[x] # NULL => doom[y] = doom[x]
    BY <1>1, <1>3 DEF Doomed
  <2> QED BY <1>12, <2>1, <2>2 DEF Doomed
<1> QED BY <1>4, <1>5, <1>7, <1>10, <1>13 DEF Orderly

LEMMA TrapEndsOrderly ==
    ASSUME Orderly, Base', TrapEnds
    PROVE  Orderly'
<1>1. /\ cpu = "kernel" /\ frame["nucleus"] = NoFrame
      /\ UNCHANGED <<procVars, msgVars, reg_a1, listVars, ssi, frame, call>>
      /\ UNCHANGED <<pcbFree, blocked>>
      /\ Scheduler(NULL, ready_queue)
  BY DEF TrapEnds, procVars, msgVars
<1>2. Base /\ Places /\ Unready /\ Waiting /\ Staged
  BY DEF Orderly
<1>3. current_process \in Pcb /\ ready_queue \in Seq(Pcb)
  BY <1>1, <1>2 DEF Base, TypeOK, CpuWorks
<1>4. Stack("nucleus") = {} /\ current_process \notin Live
  <2>1. Stack("nucleus") = {}
    BY <1>1, GoodNoFrame, NoQueue DEF Stack
  <2> QED BY <1>1, <1>2, <2>1 DEF Unready
<1>5. /\ cpu' \in {"run", "wait", "halt", "panic"} /\ cpu' # "kernel"
      /\ cpu' = "run" <=> current_process' # NULL
      /\ Once(ready_queue') /\ current_process' \notin Ready'
      /\ \A x \in Pcb : x \in Ready' \/ x = current_process' <=> x \in Ready
      /\ current_process' \in Pcb \cup {NULL} /\ Ready' \subseteq Pcb
  <2>1. NULL \notin ToSet(ready_queue) /\ NULL \notin Pcb
    BY <1>3, Names, LenProperties, ElementOfSeq DEF ToSet
  <2>2. ready_queue' \in Seq(Pcb)
    BY <1>1, <1>3, SchedulerTypes
  <2>3. Ready' \subseteq Pcb
    BY <2>2, LenProperties, ElementOfSeq DEF Ready, ToSet
  <2> QED BY <1>1, <1>2, <1>3, <2>1, <2>3, SchedulerTypes, ScheduledPlaces DEF Places, Ready
<1>6. /\ Live' = Live /\ UnderConstruction' = UnderConstruction /\ Dying' = Dying
      /\ \A a : Stack(a)' = Stack(a) /\ Victim(a)' = Victim(a)
      /\ NULL \notin Live /\ Live \subseteq Pcb /\ UnderConstruction \subseteq Live
  BY <1>1, <1>2, Names DEF Live, UnderConstruction, Dying, Stack, Victim, Places
<1>7. Places'
  <2>1. Once(pcbFree')
    BY <1>1, <1>2 DEF Places
  <2>2. current_process' \notin Ready' \cup blocked' /\ blocked' \cap Ready' = {}
    BY <1>1, <1>2, <1>5, Names DEF Places, Base, TypeOK
  <2>3. Ready' \cup blocked' \cup UnderConstruction' \subseteq Live'
    BY <1>1, <1>2, <1>5, <1>6 DEF Places
  <2>4. cpu' = "run" => current_process' \in Live'
    BY <1>2, <1>5, <1>6 DEF Places
  <2>5. UnderConstruction' \cap (Ready' \cup blocked' \cup {current_process'}) = {}
    BY <1>1, <1>2, <1>5, <1>6 DEF Places
  <2>6. Live' \ (UnderConstruction' \cup Dying') \subseteq Ready' \cup blocked' \cup {current_process'}
    <3> HIDE DEF Dying
    <3> QED BY <1>1, <1>2, <1>4, <1>5, <1>6 DEF Places
  <2> QED BY <1>5, <2>1, <2>2, <2>3, <2>4, <2>5, <2>6 DEF Places
<1>8. Unready'
  <2>1. ASSUME NEW x \in Stack("ssi")', x \in Ready' \/ (cpu' = "run" /\ x = current_process')
        PROVE  x = Victim("ssi")' /\ frame'["ssi"].pc \in {"outChild", "outReady"}
    <3>1. x \in Ready
      BY <1>5, <2>1
    <3> QED BY <1>1, <1>2, <1>6, <2>1, <3>1 DEF Unready
  <2> QED BY <1>4, <1>5, <1>6, <2>1 DEF Unready
<1>9. \A p : ~Trapped(p)'
  BY <1>5 DEF Trapped
<1>10. ASSUME NEW p \in User, Trapped(p)  PROVE Roots(p) = {}
  <2>1. ~At("inbox", p) /\ ~At("served", p)
    BY <1>2, <1>10 DEF Staged, Stage
  <2>2. ~BeingServed(p) /\ CallRoots(p) = {}
    BY <2>1 DEF CallRoots, Pending, At
  <2>3. SsiRoots(p) = {}
    BY <2>2 DEF SsiRoots, BeingServed
  <2> QED BY <1>4, <2>2, <2>3 DEF Roots, NucleusRoots
<1> QED BY <1>1, <1>7, <1>8, <1>9, <1>10, QuietOrderly

LEMMA StutterOrderly ==
    ASSUME Orderly, Base', UNCHANGED vars
    PROVE  Orderly'
<1>1. UNCHANGED <<procVars, msgVars, reg_a1, listVars, ssi, frame, call, cpu, current_process>>
  BY DEF vars, ipcVars, cpuVars
<1>2. Places'
  BY <1>1 DEF vars, ipcVars, cpuVars, procVars, msgVars, Orderly, Places, Ready, Live,
              UnderConstruction, Dying
<1>3. Unready'
  BY <1>1 DEF vars, ipcVars, cpuVars, procVars, Orderly, Unready, Ready, Live, Stack, Victim
<1>4. \A p : Trapped(p)' <=> Trapped(p)
  BY <1>1 DEF Trapped
<1> QED BY <1>1, <1>2, <1>3, <1>4, QuietOrderly

LEMMA NextOrderly ==
    ASSUME Liberty = {}, Orderly, [Next]_vars
    PROVE  Orderly'
<1>0. Base'
  BY NextBase DEF Orderly
<1>1. CASE SsiReceives
  BY <1>0, <1>1, SsiReceivesOrderly
<1>2. CASE Create
  <2>1. CASE CreateAllocates
    BY <1>0, <2>1, CreateAllocatesOrderly
  <2>2. CASE CreateInsertsChild \/ CreateInsertsReady
    BY <1>0, <2>2, CreateInsertsChildOrderly, CreateInsertsReadyOrderly
  <2>3. CASE CreateReadsCount \/ CreateWritesCount
    BY <1>0, <2>3, CountingOrderly
  <2>4. CASE CreateReplies
    BY <1>0, <2>4, RepliesOrderly
  <2> QED BY <1>2, <2>1, <2>2, <2>3, <2>4 DEF Create
<1>3. CASE SsiTerminates
  BY <1>0, <1>3, SsiTerminatesOrderly
<1>4. ASSUME NEW a \in Actor, Terminate(a)  PROVE Orderly'
  BY <1>0, <1>4, TerminateOrderly
<1>5. CASE TermReplies \/ DoIoReplies \/ ClockReplies \/ GetTimeReplies
  BY <1>0, <1>5, RepliesOrderly
<1>6. CASE DoIoQueues \/ DoIoCommands \/ DoIoAnswers \/ WaitForClock \/ ClockAnswers
  BY <1>0, <1>6, DoIoQueuesOrderly, DoIoCommandsOrderly, DoIoAnswersOrderly, WaitForClockOrderly,
     ClockAnswersOrderly
<1>7. ASSUME NEW p \in Pcb, ClientStep(p)  PROVE Orderly'
  <2>1. ASSUME NEW req \in [op : Services \cap SsiOp, arg : Address \cup Device], Requests(p, req)
        PROVE  Orderly'
    BY <1>0, <2>1, RequestsOrderly
  <2>2. CASE Awaits(p) \/ Receives(p)
    BY <1>0, <2>2, ReceivingOrderly
  <2>3. CASE Traps(p)
    BY <1>0, <2>3, TrapsOrderly
  <2>4. ASSUME NEW to, Sends(p, to)  PROVE Orderly'
    BY <1>0, <2>4, SendsOrderly
  <2> QED BY <1>7, <2>1, <2>2, <2>3, <2>4 DEF ClientStep
<1>8. CASE TrapEnds
  BY <1>0, <1>8, TrapEndsOrderly
<1>9. ASSUME NEW d \in Device, DeviceInterrupt(d)  PROVE Orderly'
  <2>1. [op |-> "IODONE", arg |-> d] \in Event
    BY DEF Event
  <2> QED BY <1>0, <1>9, <2>1, InterruptsOrderly DEF DeviceInterrupt
<1>10. CASE ClockInterrupt
  <2>1. [op |-> "TICK", arg |-> 0] \in Event
    BY DEF Event
  <2> QED BY <1>0, <1>10, <2>1, InterruptsOrderly DEF ClockInterrupt
<1>11. CASE SliceEnds
  BY <1>0, <1>11, SliceEndsOrderly
<1>12. CASE Halted \/ UNCHANGED vars
  <2>1. UNCHANGED vars
    BY <1>12 DEF Halted, Stopped, vars
  <2> QED BY <1>0, <2>1, StutterOrderly
<1> QED BY <1>1, <1>2, <1>3, <1>4, <1>5, <1>6, <1>7, <1>8, <1>9, <1>10, <1>11, <1>12
        DEF Next, SsiStep, Actor
-----------------------------------------------------------------------------
(* What programs that keep the discipline rely on.                         *)

(* Orderly is an inductive invariant of programs that keep the discipline. *)
THEOREM OrderlyInvariance == ASSUME Liberty = {} PROVE Spec => []Orderly
<1>1. Init => Orderly
  BY InitOrderly
<1>2. Orderly /\ [Next]_vars => Orderly'
  BY NextOrderly
<1> QED BY <1>1, <1>2, PTL DEF Spec

(* Every PCB is free, under construction, dying, or exactly one of ready,  *)
(* blocked and running.                                                    *)
THEOREM EveryPcbPlacedInvariance ==
    ASSUME Liberty = {} PROVE Spec => []EveryPcbPlaced
<1>1. ASSUME Orderly  PROVE EveryPcbPlaced
  <2>1. Base /\ Places /\ Unready
    BY <1>1 DEF Orderly
  <2>2. ReadyOnce /\ IsInjective(pcbFree)
    BY <2>1 DEF Places, Once, ReadyOnce, IsInjective
  <2>3. blocked \subseteq Pcb /\ current_process \in Pcb \cup {NULL} /\ NULL \notin Pcb
    BY <2>1, Names DEF Base, TypeOK
  <2>4. PlacedOnce
    BY <2>1, <2>2 DEF Places, PlacedOnce
  <2>5. Placed \ KilledByTrap \subseteq Live
    BY <2>1 DEF Places, Placed, KilledByTrap, Base, CpuWorks
  <2>6. UnderConstruction \cap Placed = {}
    BY <2>1 DEF Places, Placed
  <2>7. Live \ (UnderConstruction \cup Dying) \subseteq Placed
    <3> HIDE DEF Dying
    <3> QED BY <2>1, <2>3 DEF Places, Placed, Live
  <2> HIDE DEF Dying
  <2> QED BY <2>2, <2>4, <2>5, <2>6, <2>7 DEF EveryPcbPlaced
<1> QED BY <1>1, OrderlyInvariance, PTL

(* Parent and child links agree, and whoever is neither on his way in nor  *)
(* out is listed by his parent.                                            *)
THEOREM FamilyTreeInvariance ==
    ASSUME Liberty = {} PROVE Spec => []FamilyTree
<1>1. ASSUME Orderly  PROVE FamilyTree
  <2>1. Base /\ Family
    BY <1>1 DEF Orderly
  <2>2. Live \subseteq Pcb /\ \A q \in Live : p_parent[q] \in Pcb \cup {NULL}
    BY <2>1 DEF Base, TypeOK, Live
  <2>3. \A p \in Live : \A q \in Children(p) : isPcbValid(q) /\ p_parent[q] = p
    BY <2>1, <2>2 DEF Family, isPcbValid
  <2>4. \A p \in Live : IsInjective(p_child[p])
    BY <2>1, <2>2 DEF Family, Once, IsInjective
  <2>5. ASSUME NEW q \in Live \ (UnderConstruction \cup Dying), p_parent[q] # NULL
        PROVE  isPcbValid(p_parent[q]) /\ q \in Children(p_parent[q])
    <3> HIDE DEF Dying
    <3>1. q \in Children(p_parent[q]) /\ p_parent[q] \in Pcb
      BY <2>1, <2>2, <2>5 DEF Family
    <3> QED BY <2>1, <3>1 DEF Family, isPcbValid
  <2> QED BY <2>3, <2>4, <2>5 DEF FamilyTree
<1> QED BY <1>1, OrderlyInvariance, PTL

(* No device queue holds a terminated process.                             *)
THEOREM DeviceQueuesLiveInvariance ==
    ASSUME Liberty = {} PROVE Spec => []DeviceQueuesLive
<1>1. ASSUME Orderly  PROVE DeviceQueuesLive
  <2>1. Base /\ Staged
    BY <1>1 DEF Orderly
  <2>2. ASSUME NEW d \in Device, NEW x \in ToSet(pcb_blocked_on_device[d])
        PROVE  x \notin ToSet(pcbFree)
    <3>1. pcb_blocked_on_device[d] \in Seq(Pcb)
      BY <2>1 DEF Base, ServiceTypes
    <3>2. x \in Pcb
      BY <3>1, LenProperties, ElementOfSeq DEF ToSet
    <3>3. x \in User
      BY <2>1, <3>2 DEF Base, SsiApart, User
    <3>4. At("device", x) /\ "device" \in Stage
      BY DEF At, Stage
    <3>5. x \in Live
      BY <2>1, <3>3, <3>4 DEF Staged, OneStage, StagedAt
    <3> QED BY <3>5 DEF Live
  <2> QED BY <2>2 DEF DeviceQueuesLive
<1> QED BY <1>1, OrderlyInvariance, PTL
-----------------------------------------------------------------------------
(* What processes receive from the SSI.                                    *)
RightAnswer(p) ==
    received'[p] # received[p] /\ received'[p].sender = SSI_FAKE_ADDR =>
        Answers(p, received'[p].payload.op, received'[p].payload.arg)

LEMMA NoAnswer ==
    ASSUME TypeOK, NEW p \in User, NEW dest, NEW m, NEW ready, Sent(dest, m, ready),
           dest # p \/ m.sender # SSI_FAKE_ADDR
    PROVE  RightAnswer(p)
<1>1. p \in Pcb /\ received \in [Pcb -> Message \cup {NoMessage}]
  BY DEF TypeOK, User
<1>2. CASE received' = received
  BY <1>2 DEF RightAnswer
<1>3. CASE received' = [received EXCEPT ![dest] = m]
  BY <1>1, <1>3 DEF RightAnswer
<1> QED BY <1>2, <1>3 DEF Sent, Handed, Queued, Dropped, msgVars

LEMMA SsiSendsAnswer ==
    ASSUME Base, NEW p \in User, NEW dest \in User, NEW op \in ReplyOp,
           NEW arg \in Address \cup Device \cup {NOPROC}, AnswerTo(dest, op, arg)
    PROVE  RightAnswer(p)
<1>1. /\ [op |-> op, arg |-> arg] \in Load /\ SysSend(ssi_pcb_real, dest, [op |-> op, arg |-> arg])
      /\ TypeOK /\ ssi_pcb_real \in Pcb /\ p \in Pcb
  BY Loads, Names DEF AnswerTo, SsiSends, Reply, ReplyOp, Base, User
<1>2. Destination(ssi_pcb_real, dest) = dest
  BY Names DEF Destination, User
<1>3. \/ ~isPcbValid(dest) /\ UNCHANGED msgVars
      \/ isPcbValid(dest) /\ Sent(dest, MessageOf(ssi_pcb_real, [op |-> op, arg |-> arg]), ready_queue')
  BY <1>1, <1>2, SysSendEffect
<1>4. CASE UNCHANGED msgVars
  BY <1>4 DEF msgVars, RightAnswer
<1>5. CASE isPcbValid(dest) /\ Sent(dest, MessageOf(ssi_pcb_real, [op |-> op, arg |-> arg]), ready_queue')
  <2>1. Answers(dest, op, arg)
    BY <1>5 DEF AnswerTo, isPcbValid
  <2>2. CASE received' = received
    BY <2>2 DEF RightAnswer
  <2>3. CASE received' = [received EXCEPT ![dest] = MessageOf(ssi_pcb_real, [op |-> op, arg |-> arg])]
    <3>1. p # dest => received'[p] = received[p]
      BY <1>1, <2>3 DEF TypeOK
    <3>2. p = dest => received'[p].payload = [op |-> op, arg |-> arg]
      BY <1>1, <2>3 DEF TypeOK, MessageOf
    <3> QED BY <2>1, <3>1, <3>2 DEF RightAnswer
  <2> QED BY <1>5, <2>2, <2>3 DEF Sent, Handed, Queued, Dropped, msgVars
<1> QED BY <1>3, <1>4, <1>5

LEMMA ReceivedAnswer ==
    ASSUME Base, Staged, NEW p \in User, NEW q \in User, Awaits(q) \/ Receives(q)
    PROVE  RightAnswer(p)
<1>1. TypeOK /\ q \in Pcb /\ p \in Pcb /\ received \in [Pcb -> Message \cup {NoMessage}]
  BY DEF Base, TypeOK, User
<1>2. \E src \in Sender \cup {ANYMESSAGE} : SysReceive(q, src)
  BY Names DEF Awaits, Receives
<1>3. \E src : Suspended(q, src) \/ \E i \in DOMAIN msg_inbox[q] : Popped(q, src, i)
  BY <1>1, <1>2, SysReceiveEffect
<1>4. CASE received' = [received EXCEPT ![q] = NoMessage]
  <2>1. SSI_FAKE_ADDR # NULL
    BY Names
  <2> QED BY <1>1, <1>4, <2>1 DEF RightAnswer, NoMessage
<1>5. ASSUME NEW i \in DOMAIN msg_inbox[q], received' = [received EXCEPT ![q] = msg_inbox[q][i]]
      PROVE  RightAnswer(p)
  <2>1. PICK m : m = msg_inbox[q][i]
    OBVIOUS
  <2>2. CASE p # q
    BY <1>1, <1>5, <2>2 DEF RightAnswer
  <2>3. CASE p = q /\ m.sender # SSI_FAKE_ADDR
    BY <1>1, <1>5, <2>1, <2>3 DEF RightAnswer
  <2>4. CASE p = q /\ m.sender = SSI_FAKE_ADDR
    <3>1. m \in Message
      BY <1>1, <1>5, <2>1, LenProperties, ElementOfSeq DEF TypeOK
    <3>2. m \in Replied(p)
      BY <1>5, <2>1, <2>4, <3>1 DEF Replied, Among, From, ToSet
    <3>3. StagedAt("answered", p)
      BY <3>2 DEF Staged, OneStage, At, Stage
    <3>4. Answers(p, m.payload.op, m.payload.arg)
      BY <3>2, <3>3 DEF StagedAt, Answers
    <3>5. received'[p] = m
      BY <1>1, <1>5, <2>1, <2>4
    <3> QED BY <3>4, <3>5 DEF RightAnswer
  <2> QED BY <2>2, <2>3, <2>4
<1> QED BY <1>3, <1>4, <1>5 DEF Suspended, Popped

LEMMA NextAnswer ==
    ASSUME Base, Staged, Next, NEW p \in User
    PROVE  RightAnswer(p)
<1>0. TypeOK /\ p \in Pcb /\ p # ssi_pcb_real /\ ssi_pcb_real \in Pcb
      /\ received \in [Pcb -> Message \cup {NoMessage}]
  BY Names DEF Base, TypeOK, User
<1>1. CASE UNCHANGED received
  BY <1>1 DEF RightAnswer
<1>2. CASE SsiReceives
  <2>1. SysReceive(ssi_pcb_real, ANYMESSAGE)
    BY <1>2 DEF SsiReceives
  <2>2. \/ Suspended(ssi_pcb_real, ANYMESSAGE)
        \/ \E i \in DOMAIN msg_inbox[ssi_pcb_real] : Popped(ssi_pcb_real, ANYMESSAGE, i)
    BY <1>0, <2>1, SysReceiveEffect
  <2>3. \E m : received' = [received EXCEPT ![ssi_pcb_real] = m]
    BY <2>2 DEF Suspended, Popped
  <2> QED BY <1>0, <2>3 DEF RightAnswer
<1>3. CASE CreateAllocates
  <2>1. UNCHANGED received \/ \E q \in Pcb : received' = [received EXCEPT ![q] = NoMessage]
    BY <1>3 DEF CreateAllocates, allocPcb
  <2>2. NoMessage.sender # SSI_FAKE_ADDR
    BY Names DEF NoMessage
  <2> QED BY <1>0, <1>1, <2>1, <2>2 DEF RightAnswer
<1>4. CASE CreateReplies \/ DoIoReplies \/ ClockReplies \/ GetTimeReplies \/ TermReplies
  <2>1. CASE UNCHANGED <<ipcVars, listVars, busy, frame, call>>
    BY <1>1, <2>1 DEF ipcVars, msgVars
  <2> QED BY <1>4, <2>1, RepliesMatch, SsiSendsAnswer
<1>5. ASSUME NEW q \in Pcb, ClientStep(q)  PROVE RightAnswer(p)
  <2>1. q \in User
    BY <1>5 DEF ClientStep, Requests, Awaits, Receives, Traps, Sends, Client, User
  <2>2. ASSUME NEW req \in [op : Services \cap SsiOp, arg : Address \cup Device], Requests(q, req)
        PROVE  RightAnswer(p)
    <3>1. req \in Load /\ SysSend(q, SSI_FAKE_ADDR, req)
      BY <2>2, Loads DEF Requests, Request
    <3>2. Destination(q, SSI_FAKE_ADDR) = ssi_pcb_real
      BY Names DEF Destination
    <3>3. \/ UNCHANGED msgVars
          \/ Sent(ssi_pcb_real, MessageOf(q, req), ready_queue')
      BY <1>0, <1>5, <3>1, <3>2, SysSendEffect
    <3> QED BY <1>0, <1>1, <3>3, NoAnswer DEF msgVars
  <2>3. CASE Awaits(q) \/ Receives(q)
    BY <2>1, <2>3, ReceivedAnswer
  <2>4. CASE Traps(q)
    BY <1>1, <2>4 DEF Traps, msgVars
  <2>5. ASSUME NEW to, Sends(q, to)  PROVE RightAnswer(p)
    <3>1. SysSend(q, to, Data)
      BY <2>5 DEF Sends
    <3>2. \/ UNCHANGED msgVars
          \/ Sent(Destination(q, to), MessageOf(q, Data), ready_queue')
      BY <1>0, <1>5, <3>1, Loads, SysSendEffect
    <3>3. MessageOf(q, Data).sender # SSI_FAKE_ADDR
      BY <2>1, Names DEF MessageOf, User
    <3> QED BY <1>0, <1>1, <3>2, <3>3, NoAnswer DEF msgVars
  <2> QED BY <1>5, <2>2, <2>3, <2>4, <2>5 DEF ClientStep
<1>6. ASSUME NEW e \in Event, Interrupt(e)  PROVE RightAnswer(p)
  <2>1. \E ready : Sent(ssi_pcb_real, MessageOf(INTERRUPT_HANDLER_MSG, e), ready)
    BY <1>0, <1>6, Loads, InterruptEffect DEF Base, CpuWorks
  <2> QED BY <1>0, <2>1, NoAnswer
<1>7. ASSUME NEW d \in Device, DeviceInterrupt(d)  PROVE RightAnswer(p)
  BY <1>6, <1>7 DEF DeviceInterrupt, Event
<1>8. CASE ClockInterrupt
  BY <1>6, <1>8 DEF ClockInterrupt, Event
<1>9. CASE CreateInsertsChild \/ CreateInsertsReady \/ CreateReadsCount \/ CreateWritesCount
  BY <1>1, <1>9 DEF CreateInsertsChild, CreateInsertsReady, CreateReadsCount, CreateWritesCount,
                    msgVars, ipcVars
<1>10. CASE \/ DoIoQueues \/ DoIoCommands \/ DoIoAnswers \/ WaitForClock \/ ClockAnswers
            \/ SsiTerminates \/ TrapEnds \/ SliceEnds \/ Halted
  BY <1>1, <1>10 DEF DoIoQueues, DoIoCommands, DoIoAnswers, WaitForClock, ClockAnswers,
                     SsiTerminates, TrapEnds, SliceEnds, Halted, PltInterrupt, Stopped,
                     keepMsg, msgVars, ipcVars
<1>11. ASSUME NEW a \in Actor, Terminate(a)  PROVE RightAnswer(p)
  BY <1>1, <1>11
     DEF Terminate, TermOutChild, TermOutReady, TermOutIO, TermReadsCount, TermWritesCount,
         TermReadsSoftblock, TermWritesSoftblock, TermNextChild, TermFrees, keepMsg, msgVars, ipcVars
<1> QED BY <1>2, <1>3, <1>4, <1>5, <1>7, <1>8, <1>9, <1>10, <1>11 DEF Next, SsiStep, Create, Actor

(* What a process receives from the SSI answers the request it has         *)
(* outstanding.                                                            *)
THEOREM AnswersMatchInvariance ==
    ASSUME Liberty = {} PROVE Spec => AnswersMatch
<1>1. ASSUME Orderly, [Next]_vars
      PROVE  [\A p \in Pcb \ {ssi_pcb_real} :
                 LET answer == received'[p].payload IN
                 received'[p] # received[p] /\ received'[p].sender = SSI_FAKE_ADDR =>
                     /\ call[p].op \in SsiOp /\ answer.op = Answer[call[p].op]
                     /\ answer.op = "IOSTATUS" => answer.arg = call[p].arg]_vars
  <2>1. CASE Next
    <3>1. \A p \in User : RightAnswer(p)
      BY <1>1, <2>1, NextAnswer DEF Orderly
    <3> QED BY <3>1 DEF RightAnswer, Answers, User
  <2>2. CASE UNCHANGED vars
    BY <2>2
  <2> QED BY <1>1, <2>1, <2>2
<1> QED BY <1>1, OrderlyInvariance, PTL DEF Spec, AnswersMatch
=============================================================================
