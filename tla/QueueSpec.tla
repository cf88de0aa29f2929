----------------------------- MODULE QueueSpec ------------------------------
(***************************************************************************)
(* What the queues of phase1 promise, and what the modules Ipc and Nucleus *)
(* take them for: each list is a sequence, changed at its ends or by       *)
(* taking one element out, and no other list changes with it.              *)
(***************************************************************************)
EXTENDS Lists

VARIABLE line       (* line[h]: the entries of list h, as their links       *)

(* main(): the SSI and test have taken the first two PCBs, and the SSI     *)
(* runs.                                                                   *)
FreePcbs == [i \in 1..(MaxProc - 2) |-> p_list(MaxProc - 1 - i)]
FreeMsgs == [i \in 1..MaxMsg |-> m_list(MaxMsg + 1 - i)]
Lines ==
    [h \in ListHead |->
        CASE h = pcbFree_h -> FreePcbs
          [] h = msgFree_h -> FreeMsgs
          [] h = ready_queue -> <<p_list(MaxProc - 1)>>
          [] OTHER -> <<>>]

(* r is q with one more member at the end, one more in front, or one less. *)
Enqueued(q, r) == r # <<>> /\ q = Front(r) /\ Last(r) \notin ToSet(q)
Pushed(q, r) == r # <<>> /\ q = Tail(r) /\ Head(r) \notin ToSet(q)
Dequeued(q, r) == \E i \in DOMAIN q : r = RemoveAt(q, i)

(* The steps below take the lists a before and b after, which differ in    *)
(* the lists of C.                                                         *)

(* allocPcb(): a new PCB is the first free one; it has no children and no  *)
(* mail.                                                                   *)
NewPcb(C, a, b) ==
    /\ C = {pcbFree_h}
    /\ Pushed(b[pcbFree_h], a[pcbFree_h])
    /\ \A h \in PcbHead(container_of(Head(a[pcbFree_h]))) : b[h] = <<>>

(* freePcb(): a PCB is freed without children; its mail is lost.           *)
OldPcb(C, a, b) ==
    /\ pcbFree_h \in C
    /\ Pushed(a[pcbFree_h], b[pcbFree_h])
    /\ LET p == container_of(Head(b[pcbFree_h])) IN
       /\ C \subseteq {pcbFree_h, msg_inbox(p)}
       /\ a[p_child(p)] = <<>> /\ b[msg_inbox(p)] = <<>>

(* The first free message becomes the last of an inbox.                    *)
Post(C, a, b) ==
    \E h \in C \ {msgFree_h} :
        /\ C = {msgFree_h, h} /\ h \in {msg_inbox(p) : p \in Pcb}
        /\ Enqueued(a[h], b[h])
        /\ a[msgFree_h] = <<Last(b[h])>> \o b[msgFree_h]

(* A message taken out of an inbox becomes the first free one.             *)
Take(C, a, b) ==
    \E h \in C \ {msgFree_h} :
        /\ C = {msgFree_h, h} /\ h \in {msg_inbox(p) : p \in Pcb}
        /\ Dequeued(a[h], b[h])
        /\ Pushed(a[msgFree_h], b[msgFree_h])
        /\ Head(b[msgFree_h]) \in ToSet(a[h])

(* A PCB enters a queue, or a child list, at the end, or leaves it.        *)
InOrOut(C, a, b) ==
    \E h \in C :
        /\ C = {h} /\ h \notin {pcbFree_h, msgFree_h} /\ h \notin {msg_inbox(p) : p \in Pcb}
        /\ Enqueued(a[h], b[h]) \/ Dequeued(a[h], b[h])

(* The running process goes to the end of the ready queue, the first comes *)
(* off.                                                                    *)
Turn(C, a, b) ==
    /\ C = {ready_queue}
    /\ a[ready_queue] # <<>> /\ Enqueued(Tail(a[ready_queue]), b[ready_queue])

QueueStep(C, a, b) ==
    NewPcb(C, a, b) \/ OldPcb(C, a, b) \/ Post(C, a, b) \/ Take(C, a, b)
        \/ InOrOut(C, a, b) \/ Turn(C, a, b)

QueueInit == line = Lines
QueueNext ==
    \E before \in {line}, after \in {line'} :
        QueueStep({h \in DOMAIN after : before[h] # after[h]}, before, after)

QueueBehaviour == QueueInit /\ [][QueueNext]_line
=============================================================================
