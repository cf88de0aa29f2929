------------------------------- MODULE Lists --------------------------------
(***************************************************************************)
(* The intrusive circular lists of listx.h, and the list_heads phase1 has. *)
(* A node is the address of a list_head: that of the structure it is a     *)
(* field of, plus the field's offset.  Memory is a function links from     *)
(* nodes to their two pointers.  A list is a ring of nodes of which one,   *)
(* the head, belongs to no entry.  An operation maps the memory before it  *)
(* to the memory after it.                                                 *)
(***************************************************************************)
EXTENDS Naturals, FiniteSets, Sequences, SequencesExt, Functions

CONSTANTS
    MaxProc,    (* MAXPROC, the PCBs in pcbTable                            *)
    MaxMsg,     (* MAXMESSAGES, the messages in msgTable                    *)
    MaxDevice   (* MAXDEVICE, the queues in pcb_blocked_on_device           *)

ASSUME ListsAssumption ==
    MaxProc \in Nat /\ MaxProc >= 2 /\ MaxMsg \in Nat /\ MaxDevice \in Nat

Pcb == 1..MaxProc
Msg == 1..MaxMsg
Device == 1..MaxDevice

(* The kernel's variables.                                                 *)
NULL == 0
pcbFree_h == 1
msgFree_h == 2
ready_queue == 3
pcb_blocked_on_clock == 4

(* pcb_t has five list_heads, in this order.                               *)
Offset == [p_list |-> 0, p_child |-> 1, p_sib |-> 2, msg_inbox |-> 3, p_io |-> 4]
Stride == 5
p_list(p) == Stride * p + Offset.p_list
p_child(p) == Stride * p + Offset.p_child
p_sib(p) == Stride * p + Offset.p_sib
msg_inbox(p) == Stride * p + Offset.msg_inbox
p_io(p) == Stride * p + Offset.p_io

(* msg_t has one; then comes the array of the device queues.               *)
msgTable == Stride * (MaxProc + 1)
m_list(m) == msgTable + m - 1
pcb_blocked_on_device(d) == msgTable + MaxMsg + d - 1

Node == 0..(msgTable + MaxMsg + MaxDevice - 1)

container_of(n) == n \div Stride
message_of(n) == n - msgTable + 1

(* The heads, and the entries each list may have.                          *)
DeviceHead == {pcb_blocked_on_device(d) : d \in Device}
KernelHead == {pcbFree_h, msgFree_h, ready_queue, pcb_blocked_on_clock} \cup DeviceHead
PcbHead(p) == {p_child(p), msg_inbox(p)}
ListHead == KernelHead \cup UNION {PcbHead(p) : p \in Pcb}
IoHead == DeviceHead \cup {pcb_blocked_on_clock}

EntryOf(h) ==
    CASE h \in {pcbFree_h, ready_queue} -> {p_list(p) : p \in Pcb}
      [] h \in IoHead -> {p_io(p) : p \in Pcb}
      [] h \in {p_child(p) : p \in Pcb} -> {p_sib(p) : p \in Pcb}
      [] OTHER -> {m_list(m) : m \in Msg}

(* Pointers of the static arrays before anything has been stored.          *)
NullLinks == [next |-> NULL, prev |-> NULL]

INIT_LIST_HEAD(links, n) == [links EXCEPT ![n] = [next |-> n, prev |-> n]]

(* __list_add: the assignments in the order of the code, which matters if  *)
(* new, prev and next are not three nodes.                                 *)
insert(links, new, prev, next) ==
    [links EXCEPT ![next].prev = new,
                  ![new] = [next |-> next, prev |-> prev],
                  ![prev].next = new]

list_add(links, new, head) == insert(links, new, head, links[head].next)
list_add_tail(links, new, head) == insert(links, new, links[head].prev, head)

(* The pointers of the entry itself stay as they are.                      *)
list_del(links, entry) ==
    [links EXCEPT ![links[entry].next].prev = links[entry].prev,
                  ![links[entry].prev].next = links[entry].next]

list_empty(links, head) == links[head].next = head

(* list_for_each: the i-th node a walk meets.  No list holds more entries  *)
(* than there are PCBs and messages: a walk that is not back at the head   *)
(* by then never is.                                                       *)
Most == MaxProc + MaxMsg

Walk(links, head) ==
    LET at[i \in 0..(Most + 1)] == IF i = 0 THEN head ELSE links[at[i - 1]].next
    IN  at

Closes(links, head) ==
    LET at == Walk(links, head) IN \E i \in 1..(Most + 1) : at[i] = head

(* The entries of a list, first to last, if the walk ends.                 *)
Entries(links, head) ==
    LET at == Walk(links, head)
        from[i \in 1..(Most + 1)] ==
            IF i > Most \/ at[i] = head THEN <<>> ELSE <<at[i]>> \o from[i + 1]
    IN  from[1]

(* The walk ends, and each node on it is its neighbours' neighbour.        *)
Ring(links, head) ==
    /\ Closes(links, head)
    /\ \A n \in {head} \cup Range(Entries(links, head)) :
           /\ links[links[n].next].prev = n
           /\ links[links[n].prev].next = n
=============================================================================
