---------------------------- MODULE QueuesProofs -----------------------------
(***************************************************************************)
(* Proofs about Lists and Queues: the rings of pointers hold the sequences *)
(* that Ipc and Nucleus take them for, whatever is done between two calls  *)
(* by processes that keep the discipline (Liberty = {}).                   *)
(***************************************************************************)
EXTENDS Queues, DataLemmas

(* Nodes: the entries of the four kinds of lists, and the heads.           *)
PList == {p_list(p) : p \in Pcb}
Sib == {p_sib(p) : p \in Pcb}
Io == {p_io(p) : p \in Pcb}
Mail == {m_list(m) : m \in Msg}

LEMMA Division ==
    ASSUME NEW p \in Nat, NEW k \in 0..4
    PROVE  (5 * p + k) \div 5 = p
OBVIOUS

LEMMA PcbNodes ==
    ASSUME NEW p \in Pcb
    PROVE  /\ p \in Nat /\ p # NOBODY
           /\ {p_list(p), p_child(p), p_sib(p), msg_inbox(p), p_io(p)} \subseteq Node
           /\ container_of(p_list(p)) = p /\ container_of(p_child(p)) = p
           /\ container_of(p_sib(p)) = p /\ container_of(msg_inbox(p)) = p
           /\ container_of(p_io(p)) = p
<1>1. MaxProc \in Nat /\ MaxMsg \in Nat /\ MaxDevice \in Nat /\ p \in 1..MaxProc
  BY ListsAssumption DEF Pcb
<1>2. /\ p_list(p) = 5 * p + 0 /\ p_child(p) = 5 * p + 1 /\ p_sib(p) = 5 * p + 2
      /\ msg_inbox(p) = 5 * p + 3 /\ p_io(p) = 5 * p + 4
  BY <1>1 DEF p_list, p_child, p_sib, msg_inbox, p_io, Offset, Stride
<1>3. \A k \in 0..4 : (5 * p + k) \div 5 = p /\ 5 * p + k \in Node
  <2>1. \A k \in 0..4 : (5 * p + k) \div 5 = p
    BY <1>1, Division
  <2>2. 5 * p <= 5 * MaxProc
    BY <1>1
  <2>3. \A k \in 0..4 : 5 * p + k \in Node
    BY <1>1, <2>2 DEF Node, msgTable, Stride
  <2> QED BY <2>1, <2>3
<1> QED BY <1>1, <1>2, <1>3 DEF container_of, Stride, NOBODY

LEMMA MsgNodes ==
    ASSUME NEW m \in Msg
    PROVE  m_list(m) \in Node /\ message_of(m_list(m)) = m
BY ListsAssumption DEF Msg, m_list, message_of, Node, msgTable, Stride

LEMMA DeviceNodes ==
    ASSUME NEW d \in Device
    PROVE  pcb_blocked_on_device(d) \in Node
BY ListsAssumption DEF Device, pcb_blocked_on_device, Node, msgTable, Stride

(* No node has two uses.                                                   *)
LEMMA Uses ==
    /\ PList \cap Sib = {} /\ PList \cap Io = {} /\ PList \cap Mail = {}
    /\ Sib \cap Io = {} /\ Sib \cap Mail = {} /\ Io \cap Mail = {}
    /\ (PList \cup Sib \cup Io \cup Mail) \cap ListHead = {}
    /\ PList \cup Sib \cup Io \cup Mail \cup ListHead \subseteq Node
<1> DEFINE Top == 5 * (MaxProc + 1)
<1>0. MaxProc \in Nat /\ MaxMsg \in Nat /\ MaxDevice \in Nat
  BY ListsAssumption
<1>1. ASSUME NEW p \in Pcb, NEW q \in Pcb
      PROVE  /\ p_list(p) \notin {p_child(q), p_sib(q), msg_inbox(q), p_io(q)}
             /\ p_sib(p) \notin {p_child(q), msg_inbox(q), p_io(q)}
             /\ p_io(p) \notin {p_child(q), msg_inbox(q)}
  BY <1>0 DEF Pcb, p_list, p_child, p_sib, msg_inbox, p_io, Offset, Stride
<1>2. ASSUME NEW p \in Pcb
      PROVE  {p_list(p), p_child(p), p_sib(p), msg_inbox(p), p_io(p)} \subseteq 5..(Top - 1)
  BY <1>0 DEF Pcb, p_list, p_child, p_sib, msg_inbox, p_io, Offset, Stride
<1>3. ASSUME NEW m \in Msg  PROVE m_list(m) \in Top..(Top + MaxMsg - 1)
  BY <1>0 DEF Msg, m_list, msgTable, Stride
<1>4. ASSUME NEW d \in Device
      PROVE  pcb_blocked_on_device(d) \in (Top + MaxMsg)..(Top + MaxMsg + MaxDevice - 1)
  BY <1>0 DEF Device, pcb_blocked_on_device, msgTable, Stride
<1>5. {pcbFree_h, msgFree_h, ready_queue, pcb_blocked_on_clock} \subseteq 1..4
  BY DEF pcbFree_h, msgFree_h, ready_queue, pcb_blocked_on_clock
<1>6. PList \cup Sib \cup Io \subseteq 5..(Top - 1) /\ Mail \subseteq Top..(Top + MaxMsg - 1)
  BY <1>2, <1>3 DEF PList, Sib, Io, Mail
<1>7. DeviceHead \subseteq (Top + MaxMsg)..(Top + MaxMsg + MaxDevice - 1)
  BY <1>4 DEF DeviceHead
<1>8. \A h \in ListHead : \/ h \in 1..4
                          \/ h \in (Top + MaxMsg)..(Top + MaxMsg + MaxDevice - 1)
                          \/ \E p \in Pcb : h \in {p_child(p), msg_inbox(p)}
  BY <1>5, <1>7 DEF ListHead, KernelHead, PcbHead
<1>9. /\ 5..(Top - 1) \cap Top..(Top + MaxMsg - 1) = {}
      /\ (5..(Top + MaxMsg - 1)) \cap (1..4) = {}
      /\ (5..(Top + MaxMsg - 1)) \cap ((Top + MaxMsg)..(Top + MaxMsg + MaxDevice - 1)) = {}
      /\ 5..(Top - 1) \subseteq 5..(Top + MaxMsg - 1)
      /\ Top..(Top + MaxMsg - 1) \subseteq 5..(Top + MaxMsg - 1)
      /\ Top \in Nat
  BY <1>0
<1>10. PList \cap Mail = {} /\ Sib \cap Mail = {} /\ Io \cap Mail = {}
  BY <1>6, <1>9
<1>11. PList \cap Sib = {} /\ PList \cap Io = {} /\ Sib \cap Io = {}
  BY <1>1 DEF PList, Sib, Io
<1>12. ASSUME NEW e \in PList \cup Sib \cup Io \cup Mail, e \in ListHead  PROVE FALSE
  <2>1. e \in 5..(Top + MaxMsg - 1)
    BY <1>6, <1>9
  <2>2. PICK p \in Pcb : e \in {p_child(p), msg_inbox(p)}
    BY <1>8, <1>9, <1>12, <2>1
  <2>3. e \notin Mail
    BY <1>2, <1>6, <1>9, <2>2
  <2> QED BY <1>1, <2>2, <2>3 DEF PList, Sib, Io
<1>13. PList \cup Sib \cup Io \cup Mail \subseteq Node
  BY PcbNodes, MsgNodes DEF PList, Sib, Io, Mail
<1>14. ListHead \subseteq Node
  <2>1. {pcbFree_h, msgFree_h, ready_queue, pcb_blocked_on_clock} \subseteq Node
    BY <1>0, <1>5 DEF Node, msgTable, Stride
  <2> QED BY <2>1, PcbNodes, DeviceNodes DEF ListHead, KernelHead, PcbHead, DeviceHead
<1> QED BY <1>10, <1>11, <1>12, <1>13, <1>14

(* The heads are different from each other.                                *)
LEMMA Heads ==
    /\ {pcbFree_h, msgFree_h, ready_queue} \subseteq KernelHead /\ KernelHead \subseteq ListHead
    /\ IoHead \subseteq KernelHead /\ {pcbFree_h, msgFree_h, ready_queue} \cap IoHead = {}
    /\ pcb_blocked_on_clock \in IoHead /\ \A d \in Device : pcb_blocked_on_device(d) \in IoHead
    /\ pcbFree_h # msgFree_h /\ pcbFree_h # ready_queue /\ msgFree_h # ready_queue
    /\ \A p \in Pcb : /\ p_child(p) \in ListHead \ KernelHead /\ msg_inbox(p) \in ListHead \ KernelHead
                      /\ PcbHead(p) = {p_child(p), msg_inbox(p)}
    /\ \A p, q \in Pcb : /\ p_child(p) # msg_inbox(q)
                         /\ p_child(p) = p_child(q) => p = q
                         /\ msg_inbox(p) = msg_inbox(q) => p = q
    /\ \A d, e \in Device : pcb_blocked_on_device(d) = pcb_blocked_on_device(e) => d = e
    /\ \A d \in Device : pcb_blocked_on_device(d) # pcb_blocked_on_clock
    /\ IoHead = {pcb_blocked_on_device(d) : d \in Device} \cup {pcb_blocked_on_clock}
    /\ \A h \in ListHead : h \in KernelHead \/ \E p \in Pcb : h \in PcbHead(p)
<1> DEFINE Top == 5 * (MaxProc + 1)
<1>0. MaxProc \in Nat /\ MaxMsg \in Nat /\ MaxDevice \in Nat
  BY ListsAssumption
<1>1. pcbFree_h = 1 /\ msgFree_h = 2 /\ ready_queue = 3 /\ pcb_blocked_on_clock = 4
  BY DEF pcbFree_h, msgFree_h, ready_queue, pcb_blocked_on_clock
<1>2. ASSUME NEW p \in Pcb
      PROVE  {p_child(p), msg_inbox(p)} \subseteq 5..(Top - 1)
  BY <1>0 DEF Pcb, p_child, msg_inbox, Offset, Stride
<1>3. ASSUME NEW d \in Device
      PROVE  /\ pcb_blocked_on_device(d) \in Nat /\ pcb_blocked_on_device(d) >= Top
             /\ pcb_blocked_on_device(d) = Top + MaxMsg + d - 1
  BY <1>0 DEF Device, pcb_blocked_on_device, msgTable, Stride
<1>4. \A p, q \in Pcb : /\ p_child(p) # msg_inbox(q)
                        /\ p_child(p) = p_child(q) => p = q
                        /\ msg_inbox(p) = msg_inbox(q) => p = q
  BY <1>0 DEF Pcb, p_child, msg_inbox, Offset, Stride
<1>5. \A d, e \in Device : pcb_blocked_on_device(d) = pcb_blocked_on_device(e) => d = e
  BY <1>0, <1>3 DEF Device
<1>6. \A d \in Device : pcb_blocked_on_device(d) > 4
  BY <1>0, <1>3
<1>7. \A p \in Pcb : p_child(p) \notin KernelHead /\ msg_inbox(p) \notin KernelHead
  <2>1. \A x \in 5..(Top - 1) : x \notin KernelHead
    <3>1. \A x \in 5..(Top - 1), d \in Device : x # pcb_blocked_on_device(d)
      BY <1>0, <1>3
    <3>2. \A x \in 5..(Top - 1) : x \notin {1, 2, 3, 4}
      BY <1>0
    <3> QED BY <1>1, <3>1, <3>2 DEF KernelHead, DeviceHead
  <2> QED BY <1>2, <2>1
<1>8. \A p \in Pcb : /\ p_child(p) \in ListHead /\ msg_inbox(p) \in ListHead
                     /\ PcbHead(p) = {p_child(p), msg_inbox(p)}
  BY DEF ListHead, PcbHead
<1>9. IoHead = {pcb_blocked_on_device(d) : d \in Device} \cup {pcb_blocked_on_clock}
  BY DEF IoHead, DeviceHead
<1>10. {pcbFree_h, msgFree_h, ready_queue} \cap IoHead = {}
  BY <1>1, <1>6, <1>9
<1>11. IoHead \subseteq KernelHead /\ KernelHead \subseteq ListHead
  BY <1>9 DEF KernelHead, DeviceHead, ListHead
<1>12. \A h \in ListHead : h \in KernelHead \/ \E p \in Pcb : h \in PcbHead(p)
  BY DEF ListHead
<1>13. {pcbFree_h, msgFree_h, ready_queue} \subseteq KernelHead
  BY DEF KernelHead
<1>14. \A d \in Device : pcb_blocked_on_device(d) # pcb_blocked_on_clock
  BY <1>1, <1>6
<1> QED BY <1>1, <1>4, <1>5, <1>7, <1>8, <1>9, <1>10, <1>11, <1>12, <1>13, <1>14

LEMMA EntriesOf ==
    /\ EntryOf(pcbFree_h) = PList /\ EntryOf(ready_queue) = PList
    /\ EntryOf(msgFree_h) = Mail
    /\ \A h \in IoHead : EntryOf(h) = Io
    /\ \A p \in Pcb : EntryOf(p_child(p)) = Sib /\ EntryOf(msg_inbox(p)) = Mail
<1>1. /\ pcbFree_h \notin IoHead /\ ready_queue \notin IoHead /\ msgFree_h \notin IoHead
      /\ msgFree_h \notin {pcbFree_h, ready_queue}
      /\ \A h \in IoHead : h \notin {pcbFree_h, ready_queue}
      /\ \A p \in Pcb : /\ p_child(p) \notin IoHead \cup {pcbFree_h, ready_queue}
                        /\ msg_inbox(p) \notin IoHead \cup {pcbFree_h, ready_queue}
      /\ \A p \in Pcb : msg_inbox(p) \notin {p_child(q) : q \in Pcb}
      /\ msgFree_h \notin {p_child(q) : q \in Pcb}
  BY Heads
<1>2. EntryOf(pcbFree_h) = PList /\ EntryOf(ready_queue) = PList
  BY <1>1 DEF EntryOf, PList
<1>3. EntryOf(msgFree_h) = Mail
  BY <1>1 DEF EntryOf, Mail
<1>4. \A h \in IoHead : EntryOf(h) = Io
  BY <1>1 DEF EntryOf, Io
<1>5. \A p \in Pcb : EntryOf(p_child(p)) = Sib
  BY <1>1 DEF EntryOf, Sib
<1>6. \A p \in Pcb : EntryOf(msg_inbox(p)) = Mail
  BY <1>1 DEF EntryOf, Mail
<1> QED BY <1>2, <1>3, <1>4, <1>5, <1>6
-----------------------------------------------------------------------------
(* What the operations store.                                              *)
Memory == [Node -> [next : Node, prev : Node]]

LEMMA InsertEffect ==
    ASSUME NEW l \in Memory, NEW e \in Node, NEW a \in Node, NEW b \in Node, e # a, e # b
    PROVE  /\ insert(l, e, a, b) \in Memory
           /\ \A n \in Node :
                 /\ insert(l, e, a, b)[n].next = IF n = a THEN e ELSE IF n = e THEN b ELSE l[n].next
                 /\ insert(l, e, a, b)[n].prev = IF n = b THEN e ELSE IF n = e THEN a ELSE l[n].prev
<1>1. PICK f : f = [l EXCEPT ![b].prev = e]
  OBVIOUS
<1>2. PICK g : g = [f EXCEPT ![e] = [next |-> b, prev |-> a]]
  OBVIOUS
<1>3. PICK k : k = [g EXCEPT ![a].next = e]
  OBVIOUS
<1>4. insert(l, e, a, b) = k
  BY <1>1, <1>2, <1>3 DEF insert
<1>5. /\ f \in Memory
      /\ \A n \in Node : f[n].next = l[n].next /\ f[n].prev = IF n = b THEN e ELSE l[n].prev
  BY <1>1 DEF Memory
<1>6. /\ g \in Memory
      /\ \A n \in Node : /\ g[n].next = IF n = e THEN b ELSE f[n].next
                         /\ g[n].prev = IF n = e THEN a ELSE f[n].prev
  BY <1>2, <1>5 DEF Memory
<1>7. /\ k \in Memory
      /\ \A n \in Node : k[n].next = (IF n = a THEN e ELSE g[n].next) /\ k[n].prev = g[n].prev
  <2>0. PICK c : c = g[a]
    OBVIOUS
  <2>1. PICK r : r = [c EXCEPT !.next = e]
    OBVIOUS
  <2>2. k = [g EXCEPT ![a] = r]
    BY <1>3, <2>0, <2>1
  <2>3. r \in [next : Node, prev : Node] /\ r.next = e /\ r.prev = c.prev
    <3>1. c \in [next : Node, prev : Node]
      BY <1>6, <2>0 DEF Memory
    <3> QED BY <2>1, <3>1
  <2> QED BY <1>6, <2>0, <2>2, <2>3 DEF Memory
<1> QED BY <1>4, <1>5, <1>6, <1>7

LEMMA DeleteEffect ==
    ASSUME NEW l \in Memory, NEW e \in Node
    PROVE  /\ l[e].next \in Node /\ l[e].prev \in Node
           /\ list_del(l, e) \in Memory
           /\ \A n \in Node :
                 /\ list_del(l, e)[n].next = IF n = l[e].prev THEN l[e].next ELSE l[n].next
                 /\ list_del(l, e)[n].prev = IF n = l[e].next THEN l[e].prev ELSE l[n].prev
<1>1. PICK a, b : a = l[e].prev /\ b = l[e].next
  OBVIOUS
<1>2. a \in Node /\ b \in Node
  BY <1>1 DEF Memory
<1>3. PICK f : f = [l EXCEPT ![b].prev = a]
  OBVIOUS
<1>4. PICK k : k = [f EXCEPT ![a].next = b]
  OBVIOUS
<1>5. list_del(l, e) = k
  BY <1>1, <1>3, <1>4 DEF list_del
<1>6. /\ f \in Memory
      /\ \A n \in Node : f[n].next = l[n].next /\ f[n].prev = IF n = b THEN a ELSE l[n].prev
  BY <1>2, <1>3 DEF Memory
<1>7. /\ k \in Memory
      /\ \A n \in Node : k[n].next = (IF n = a THEN b ELSE f[n].next) /\ k[n].prev = f[n].prev
  <2>0. PICK c : c = f[a]
    OBVIOUS
  <2>1. PICK r : r = [c EXCEPT !.next = b]
    OBVIOUS
  <2>2. k = [f EXCEPT ![a] = r]
    BY <1>4, <2>0, <2>1
  <2>3. r \in [next : Node, prev : Node] /\ r.next = b /\ r.prev = c.prev
    <3>1. c \in [next : Node, prev : Node]
      BY <1>2, <1>6, <2>0 DEF Memory
    <3> QED BY <1>2, <2>1, <3>1
  <2> QED BY <1>2, <1>6, <2>0, <2>2, <2>3 DEF Memory
<1> QED BY <1>1, <1>2, <1>5, <1>6, <1>7

LEMMA ClearEffect ==
    ASSUME NEW l \in Memory, NEW e \in Node
    PROVE  /\ INIT_LIST_HEAD(l, e) \in Memory
           /\ INIT_LIST_HEAD(l, e)[e].next = e /\ INIT_LIST_HEAD(l, e)[e].prev = e
           /\ \A n \in Node \ {e} : INIT_LIST_HEAD(l, e)[n] = l[n]
BY DEF INIT_LIST_HEAD, Memory
-----------------------------------------------------------------------------
(* A ring of memory l holds the entries s behind the head h: the i-th node *)
(* and the one after it point at each other, the last one and the head     *)
(* too.                                                                    *)
Nth(h, s, i) == IF i \in DOMAIN s THEN s[i] ELSE h
Holds(l, h, s) ==
    \A i \in 0..Len(s) : /\ l[Nth(h, s, i)].next = Nth(h, s, i + 1)
                         /\ l[Nth(h, s, i + 1)].prev = Nth(h, s, i)

(* A list of nodes without its head, each in it once.                      *)
Listed(h, s) == h \in Node /\ s \in Seq(Node) /\ Once(s) /\ h \notin ToSet(s)

LEMMA NthFacts ==
    ASSUME NEW h, NEW s, Listed(h, s)
    PROVE  /\ Len(s) \in Nat /\ DOMAIN s = 1..Len(s)
           /\ \A i \in Int : Nth(h, s, i) \in Node /\ Nth(h, s, i) \in {h} \cup ToSet(s)
           /\ Nth(h, s, 0) = h /\ Nth(h, s, Len(s) + 1) = h
           /\ \A i, j \in 0..Len(s) : Nth(h, s, i) = Nth(h, s, j) => i = j
           /\ \A i, j \in 1..(Len(s) + 1) : Nth(h, s, i) = Nth(h, s, j) => i = j
<1>1. Len(s) \in Nat /\ DOMAIN s = 1..Len(s) /\ \A i \in DOMAIN s : s[i] \in Node /\ s[i] \in ToSet(s)
  <2>1. Len(s) \in Nat /\ DOMAIN s = 1..Len(s) /\ \A i \in 1..Len(s) : s[i] \in Node
    BY LenProperties, ElementOfSeq DEF Listed
  <2> QED BY <2>1 DEF ToSet
<1>2. \A i \in DOMAIN s : s[i] # h
  BY <1>1 DEF Listed
<1>3. \A i, j \in DOMAIN s : s[i] = s[j] => i = j
  BY DEF Listed, Once
<1>4. \A i \in Int : Nth(h, s, i) \in Node /\ Nth(h, s, i) \in {h} \cup ToSet(s)
  BY <1>1 DEF Nth, Listed
<1>5. Nth(h, s, 0) = h /\ Nth(h, s, Len(s) + 1) = h
  BY <1>1 DEF Nth
<1>6. ASSUME NEW i \in 0..Len(s), NEW j \in 0..Len(s), Nth(h, s, i) = Nth(h, s, j)  PROVE i = j
  <2>1. \A x \in 0..Len(s) : x \in DOMAIN s \/ x = 0
    BY <1>1
  <2> QED BY <1>2, <1>3, <1>6, <2>1 DEF Nth
<1>7. ASSUME NEW i \in 1..(Len(s) + 1), NEW j \in 1..(Len(s) + 1), Nth(h, s, i) = Nth(h, s, j)
      PROVE  i = j
  <2>1. \A x \in 1..(Len(s) + 1) : x \in DOMAIN s \/ x = Len(s) + 1
    BY <1>1
  <2> QED BY <1>2, <1>3, <1>7, <2>1 DEF Nth
<1> QED BY <1>1, <1>4, <1>5, <1>6, <1>7

(* Who is left alone is held.                                              *)
Alike(k, l, n) == k[n].next = l[n].next /\ k[n].prev = l[n].prev

LEMMA HoldsKept ==
    ASSUME NEW h, NEW s, Listed(h, s), NEW l, NEW k, Holds(l, h, s),
           \A n \in {h} \cup ToSet(s) : Alike(k, l, n)
    PROVE  Holds(k, h, s)
<1>1. Len(s) \in Nat /\ \A i \in Int : Nth(h, s, i) \in {h} \cup ToSet(s)
  BY NthFacts
<1>2. \A i \in 0..Len(s) : Alike(k, l, Nth(h, s, i)) /\ Alike(k, l, Nth(h, s, i + 1))
  BY <1>1
<1> QED BY <1>2 DEF Holds, Alike

LEMMA HoldsNothing ==
    ASSUME NEW h \in Node, NEW l, l[h].next = h, l[h].prev = h
    PROVE  Holds(l, h, <<>>) /\ Listed(h, <<>>)
<1>1. Len(<<>>) = 0 /\ DOMAIN <<>> = {}
  OBVIOUS
<1>2. \A i : Nth(h, <<>>, i) = h
  BY <1>1 DEF Nth
<1>3. Holds(l, h, <<>>)
  BY <1>2 DEF Holds
<1>4. Listed(h, <<>>)
  BY <1>1 DEF Listed, Once, ToSet
<1> QED BY <1>3, <1>4

LEMMA HoldsEnds ==
    ASSUME NEW h, NEW s, Listed(h, s), NEW l, Holds(l, h, s)
    PROVE  /\ l[h].next = Nth(h, s, 1) /\ l[h].prev = Nth(h, s, Len(s))
           /\ s = <<>> <=> l[h].next = h
           /\ s # <<>> => l[h].next = Head(s)
<1>1. Len(s) \in Nat /\ DOMAIN s = 1..Len(s) /\ Nth(h, s, 0) = h /\ Nth(h, s, Len(s) + 1) = h
  BY NthFacts
<1>2. 0 \in 0..Len(s) /\ Len(s) \in 0..Len(s) /\ 0 + 1 = 1
  BY <1>1
<1>3. l[h].next = Nth(h, s, 1) /\ l[h].prev = Nth(h, s, Len(s))
  BY <1>1, <1>2 DEF Holds
<1>4. CASE s = <<>>
  <2>1. Nth(h, s, 1) = h
    BY <1>4 DEF Nth
  <2> QED BY <1>3, <1>4, <2>1
<1>5. CASE s # <<>>
  <2>1. s \in Seq(Node) /\ h \notin ToSet(s)
    BY DEF Listed
  <2>2. 1 \in DOMAIN s /\ Head(s) = s[1]
    BY <1>5, <2>1, TailElements
  <2>3. Nth(h, s, 1) = Head(s) /\ Head(s) \in ToSet(s)
    BY <2>2 DEF Nth, ToSet
  <2> QED BY <1>3, <1>5, <2>1, <2>3
<1> QED BY <1>4, <1>5, <1>3

(* list_add_tail(), list_add() and list_del() on a ring.                   *)
LEMMA HoldsTail ==
    ASSUME NEW h, NEW s, Listed(h, s), NEW l \in Memory, Holds(l, h, s),
           NEW e \in Node, e \notin {h} \cup ToSet(s)
    PROVE  /\ list_add_tail(l, e, h) \in Memory
           /\ Holds(list_add_tail(l, e, h), h, Append(s, e)) /\ Listed(h, Append(s, e))
           /\ \A x \in Node : x \notin {h, e} \cup ToSet(s) => Alike(list_add_tail(l, e, h), l, x)
<1> DEFINE n == Len(s)
           a == Nth(h, s, n)
           r == Append(s, e)
<1>1. PICK k : k = list_add_tail(l, e, h)
  OBVIOUS
<1>2. /\ n \in Nat /\ DOMAIN s = 1..n
      /\ \A i \in Int : Nth(h, s, i) \in Node /\ Nth(h, s, i) \in {h} \cup ToSet(s)
      /\ Nth(h, s, 0) = h /\ Nth(h, s, n + 1) = h
      /\ \A i, j \in 0..n : Nth(h, s, i) = Nth(h, s, j) => i = j
      /\ \A i, j \in 1..(n + 1) : Nth(h, s, i) = Nth(h, s, j) => i = j
  BY NthFacts
<1>3. a \in Node /\ a \in {h} \cup ToSet(s) /\ h \in Node /\ l[h].prev = a
  BY <1>2, HoldsEnds DEF Listed
<1>4. k = insert(l, e, a, h) /\ e # a /\ e # h
  BY <1>1, <1>3 DEF list_add_tail
<1> HIDE DEF a
<1>5. /\ k \in Memory
      /\ \A x \in Node :
            /\ k[x].next = IF x = a THEN e ELSE IF x = e THEN h ELSE l[x].next
            /\ k[x].prev = IF x = h THEN e ELSE IF x = e THEN a ELSE l[x].prev
  <2>1. /\ insert(l, e, a, h) \in Memory
        /\ \A x \in Node :
              /\ insert(l, e, a, h)[x].next = IF x = a THEN e ELSE IF x = e THEN h ELSE l[x].next
              /\ insert(l, e, a, h)[x].prev = IF x = h THEN e ELSE IF x = e THEN a ELSE l[x].prev
    <3>1. a \in Node /\ h \in Node /\ e # a /\ e # h
      BY <1>3, <1>4
    <3> QED BY <3>1, InsertEffect, SMTT(30)
  <2> QED BY <1>4, <2>1
<1>6. /\ r \in Seq(Node) /\ DOMAIN r = 1..(n + 1) /\ Len(r) = n + 1
      /\ \A j \in DOMAIN s : r[j] = s[j]
      /\ r[n + 1] = e /\ ToSet(r) = ToSet(s) \cup {e} /\ Once(r)
  BY AppendElements, AppendRange, AppendOnce, AppendProperties DEF Listed
<1>7. Listed(h, r)
  BY <1>3, <1>6 DEF Listed
<1>8. \A i \in 0..n : Nth(h, r, i) = Nth(h, s, i)
  <2>1. \A i \in 0..n : i \in DOMAIN r <=> i \in DOMAIN s
    BY <1>2, <1>6
  <2> QED BY <1>2, <1>6, <2>1 DEF Nth
<1>9. Nth(h, r, n + 1) = e /\ Nth(h, r, n + 2) = h
  BY <1>2, <1>6 DEF Nth
<1> HIDE DEF r, a, n
<1>10. ASSUME NEW i \in 0..Len(r)
       PROVE  k[Nth(h, r, i)].next = Nth(h, r, i + 1) /\ k[Nth(h, r, i + 1)].prev = Nth(h, r, i)
  <2>1. CASE i < n
    <3>1. i \in 0..n /\ i + 1 \in 0..n /\ i + 1 \in 1..(n + 1) /\ i # n /\ i + 1 # n + 1
      BY <1>2, <1>6, <1>10, <2>1
    <3>2. Nth(h, s, i) # a /\ Nth(h, s, i + 1) # h
      <4>1. n \in 0..n /\ n + 1 \in 1..(n + 1)
        BY <1>2
      <4>2. Nth(h, s, i) # Nth(h, s, n)
        BY <1>2, <3>1, <4>1
      <4>3. Nth(h, s, i + 1) # Nth(h, s, n + 1)
        BY <1>2, <3>1, <4>1
      <4> QED BY <1>2, <4>2, <4>3 DEF a
    <3>3. Nth(h, s, i) \in Node \ {e} /\ Nth(h, s, i + 1) \in Node \ {e}
      BY <1>2, <3>1
    <3>4. l[Nth(h, s, i)].next = Nth(h, s, i + 1) /\ l[Nth(h, s, i + 1)].prev = Nth(h, s, i)
      BY <3>1 DEF Holds, n
    <3> QED BY <1>5, <1>8, <3>1, <3>2, <3>3, <3>4
  <2>2. CASE i = n
    <3>1. Nth(h, r, i) = a /\ Nth(h, r, i + 1) = e
      BY <1>2, <1>8, <1>9, <2>2 DEF a
    <3> QED BY <1>3, <1>5, <3>1
  <2>3. CASE i = n + 1
    <3>1. Nth(h, r, i) = e /\ Nth(h, r, i + 1) = h
      BY <1>2, <1>9, <2>3
    <3> QED BY <1>3, <1>5, <3>1
  <2> QED BY <1>2, <1>6, <2>1, <2>2, <2>3
<1>11. Holds(k, h, r)
  BY <1>10 DEF Holds
<1>12. \A x \in Node : x \notin {h, e} \cup ToSet(s) => Alike(k, l, x)
  BY <1>3, <1>5 DEF Alike
<1> QED BY <1>1, <1>5, <1>7, <1>11, <1>12 DEF r

LEMMA HoldsFront ==
    ASSUME NEW h, NEW s, Listed(h, s), NEW l \in Memory, Holds(l, h, s),
           NEW e \in Node, e \notin {h} \cup ToSet(s)
    PROVE  /\ list_add(l, e, h) \in Memory
           /\ Holds(list_add(l, e, h), h, <<e>> \o s) /\ Listed(h, <<e>> \o s)
           /\ ToSet(<<e>> \o s) = ToSet(s) \cup {e}
           /\ \A x \in Node : x \notin {h, e} \cup ToSet(s) => Alike(list_add(l, e, h), l, x)
<1> DEFINE n == Len(s)
           b == Nth(h, s, 1)
           r == <<e>> \o s
<1>1. PICK k : k = list_add(l, e, h)
  OBVIOUS
<1>2. /\ n \in Nat /\ DOMAIN s = 1..n
      /\ \A i \in Int : Nth(h, s, i) \in Node /\ Nth(h, s, i) \in {h} \cup ToSet(s)
      /\ Nth(h, s, 0) = h /\ Nth(h, s, n + 1) = h
      /\ \A i, j \in 0..n : Nth(h, s, i) = Nth(h, s, j) => i = j
      /\ \A i, j \in 1..(n + 1) : Nth(h, s, i) = Nth(h, s, j) => i = j
  BY NthFacts
<1>3. b \in Node /\ b \in {h} \cup ToSet(s) /\ h \in Node /\ l[h].next = b
  BY <1>2, HoldsEnds DEF Listed
<1>4. k = insert(l, e, h, b) /\ e # b /\ e # h
  BY <1>1, <1>3 DEF list_add
<1> HIDE DEF b
<1>5. /\ k \in Memory
      /\ \A x \in Node :
            /\ k[x].next = IF x = h THEN e ELSE IF x = e THEN b ELSE l[x].next
            /\ k[x].prev = IF x = b THEN e ELSE IF x = e THEN h ELSE l[x].prev
  <2>1. /\ insert(l, e, h, b) \in Memory
        /\ \A x \in Node :
              /\ insert(l, e, h, b)[x].next = IF x = h THEN e ELSE IF x = e THEN b ELSE l[x].next
              /\ insert(l, e, h, b)[x].prev = IF x = b THEN e ELSE IF x = e THEN h ELSE l[x].prev
    <3>1. h \in Node /\ b \in Node /\ e # h /\ e # b
      BY <1>3, <1>4
    <3> QED BY <3>1, InsertEffect, SMTT(30)
  <2> QED BY <1>4, <2>1
<1>6. /\ r \in Seq(Node) /\ DOMAIN r = 1..(n + 1) /\ Len(r) = n + 1
      /\ r[1] = e /\ \A j \in DOMAIN s : r[j + 1] = s[j]
  <2>1. <<e>> \in Seq(Node) /\ Len(<<e>>) = 1 /\ <<e>>[1] = e /\ s \in Seq(Node)
    BY DEF Listed
  <2>2. /\ r \in Seq(Node) /\ Len(r) = 1 + n
        /\ \A i \in 1..(1 + n) : r[i] = IF i <= 1 THEN <<e>>[i] ELSE s[i - 1]
    BY <2>1, ConcatProperties
  <2>3. DOMAIN r = 1..(n + 1)
    BY <1>2, <2>2, LenProperties
  <2>4. r[1] = e
    BY <1>2, <2>1, <2>2
  <2>5. ASSUME NEW j \in DOMAIN s  PROVE r[j + 1] = s[j]
    <3>1. j + 1 \in 1..(1 + n) /\ ~ (j + 1 <= 1) /\ (j + 1) - 1 = j
      BY <1>2
    <3> QED BY <2>2, <3>1
  <2> QED BY <1>2, <2>2, <2>3, <2>4, <2>5
<1>7. ToSet(r) = ToSet(s) \cup {e} /\ Once(r)
  <2>1. \A i \in DOMAIN r : i = 1 \/ i - 1 \in DOMAIN s
    BY <1>2, <1>6
  <2>2. \A i \in DOMAIN r : i # 1 => i - 1 \in DOMAIN s /\ r[i] = s[i - 1]
    <3>1. \A i \in DOMAIN r : i \in Int /\ (i - 1) + 1 = i
      BY <1>2, <1>6
    <3> QED BY <1>6, <2>1, <3>1
  <2>3. \A j \in DOMAIN s : j + 1 \in DOMAIN r
    BY <1>2, <1>6
  <2>4. 1 \in DOMAIN r
    BY <1>2, <1>6
  <2>5. ToSet(r) = ToSet(s) \cup {e}
    <3> HIDE DEF r
    <3>1. ASSUME NEW x \in ToSet(r)  PROVE x \in ToSet(s) \cup {e}
      <4>1. PICK i \in DOMAIN r : x = r[i]
        BY DEF ToSet
      <4> QED BY <1>6, <2>2, <4>1 DEF ToSet
    <3>2. e \in ToSet(r)
      BY <1>6, <2>4 DEF ToSet
    <3>3. ASSUME NEW x \in ToSet(s)  PROVE x \in ToSet(r)
      <4>1. PICK j \in DOMAIN s : x = s[j]
        BY DEF ToSet
      <4> QED BY <1>6, <2>3, <4>1 DEF ToSet
    <3> QED BY <3>1, <3>2, <3>3
  <2>6. ASSUME NEW i \in DOMAIN r, NEW j \in DOMAIN r, r[i] = r[j]  PROVE i = j
    <3>1. \A x \in DOMAIN s : s[x] # e
      BY DEF ToSet
    <3>2. \A x, y \in DOMAIN s : s[x] = s[y] => x = y
      BY DEF Listed, Once
    <3>3. i = 1 <=> j = 1
      BY <1>6, <2>2, <2>6, <3>1
    <3>4. CASE i # 1 /\ j # 1
      <4>1. i - 1 = j - 1
        BY <2>2, <2>6, <3>2, <3>4
      <4>2. i \in Int /\ j \in Int
        BY <1>6
      <4> QED BY <4>1, <4>2
    <3> QED BY <3>3, <3>4
  <2> QED BY <2>5, <2>6 DEF Once
<1>8. Listed(h, r)
  BY <1>3, <1>6, <1>7 DEF Listed
<1>9. Nth(h, r, 0) = h /\ Nth(h, r, 1) = e /\ \A i \in 1..(n + 1) : Nth(h, r, i + 1) = Nth(h, s, i)
  <2>1. 0 \notin DOMAIN r /\ 1 \in DOMAIN r
    BY <1>2, <1>6
  <2>2. \A i \in 1..(n + 1) : i + 1 \in DOMAIN r <=> i \in DOMAIN s
    BY <1>2, <1>6
  <2> QED BY <1>6, <2>1, <2>2 DEF Nth
<1> HIDE DEF r, b, n
<1>10. ASSUME NEW i \in 0..Len(r)
       PROVE  k[Nth(h, r, i)].next = Nth(h, r, i + 1) /\ k[Nth(h, r, i + 1)].prev = Nth(h, r, i)
  <2>1. CASE i = 0
    <3>1. Nth(h, r, i) = h /\ Nth(h, r, i + 1) = e
      BY <1>9, <2>1
    <3> QED BY <1>3, <1>5, <3>1
  <2>2. CASE i = 1
    <3>1. 1 \in 1..(n + 1) /\ 1 + 1 = 2
      BY <1>2
    <3>2. Nth(h, r, i) = e /\ Nth(h, r, i + 1) = b
      BY <1>9, <2>2, <3>1 DEF b
    <3> QED BY <1>3, <1>5, <3>2
  <2>3. CASE i > 1
    <3>1. PICK j \in 1..n : i = j + 1
      <4>1. i - 1 \in 1..n /\ i = (i - 1) + 1
        BY <1>2, <1>6, <1>10, <2>3
      <4> QED BY <4>1
    <3>2. j \in 1..(n + 1) /\ j + 1 \in 1..(n + 1) /\ j # n + 1 /\ j + 1 # 1 /\ j \in 0..n
      BY <1>2, <3>1
    <3>3. Nth(h, s, j) # h /\ Nth(h, s, j + 1) # b
      <4>1. n + 1 \in 1..(n + 1) /\ 1 \in 1..(n + 1)
        BY <1>2
      <4>2. Nth(h, s, j) # Nth(h, s, n + 1)
        BY <1>2, <3>2, <4>1
      <4>3. Nth(h, s, j + 1) # Nth(h, s, 1)
        BY <1>2, <3>2, <4>1
      <4> QED BY <1>2, <4>2, <4>3 DEF b
    <3>4. Nth(h, s, j) \in Node \ {e} /\ Nth(h, s, j + 1) \in Node \ {e}
      BY <1>2, <3>2
    <3>5. l[Nth(h, s, j)].next = Nth(h, s, j + 1) /\ l[Nth(h, s, j + 1)].prev = Nth(h, s, j)
      BY <3>2 DEF Holds, n
    <3>6. Nth(h, r, i) = Nth(h, s, j) /\ Nth(h, r, i + 1) = Nth(h, s, j + 1)
      BY <1>9, <3>1, <3>2
    <3> QED BY <1>5, <3>3, <3>4, <3>5, <3>6
  <2> QED BY <1>2, <1>6, <2>1, <2>2, <2>3
<1>11. Holds(k, h, r)
  BY <1>10 DEF Holds
<1>12. \A x \in Node : x \notin {h, e} \cup ToSet(s) => Alike(k, l, x)
  BY <1>3, <1>5 DEF Alike
<1> QED BY <1>1, <1>5, <1>7, <1>8, <1>11, <1>12 DEF r

LEMMA HoldsDelete ==
    ASSUME NEW h, NEW s, Listed(h, s), NEW l \in Memory, Holds(l, h, s), NEW i \in DOMAIN s
    PROVE  /\ list_del(l, s[i]) \in Memory
           /\ Holds(list_del(l, s[i]), h, RemoveAt(s, i)) /\ Listed(h, RemoveAt(s, i))
           /\ ToSet(RemoveAt(s, i)) = ToSet(s) \ {s[i]}
           /\ \A x \in Node : x \notin {h} \cup ToSet(s) => Alike(list_del(l, s[i]), l, x)
<1> DEFINE n == Len(s)
           e == s[i]
           a == Nth(h, s, i - 1)
           b == Nth(h, s, i + 1)
           r == RemoveAt(s, i)
<1>1. PICK k : k = list_del(l, e)
  OBVIOUS
<1>2. /\ n \in Nat /\ DOMAIN s = 1..n
      /\ \A j \in Int : Nth(h, s, j) \in Node /\ Nth(h, s, j) \in {h} \cup ToSet(s)
      /\ Nth(h, s, 0) = h /\ Nth(h, s, n + 1) = h
      /\ \A x, y \in 0..n : Nth(h, s, x) = Nth(h, s, y) => x = y
      /\ \A x, y \in 1..(n + 1) : Nth(h, s, x) = Nth(h, s, y) => x = y
  BY NthFacts
<1>3. i \in 1..n /\ i - 1 \in 0..n /\ i \in 0..n /\ i + 1 \in 1..(n + 1) /\ (i - 1) + 1 = i
  BY <1>2
<1>4. e = Nth(h, s, i) /\ e \in Node
  BY <1>2, <1>3 DEF Nth
<1>5. /\ a \in Node /\ b \in Node /\ a \in {h} \cup ToSet(s) /\ b \in {h} \cup ToSet(s)
      /\ l[e].prev = a /\ l[e].next = b
  <2>1. a \in Node /\ b \in Node /\ a \in {h} \cup ToSet(s) /\ b \in {h} \cup ToSet(s)
    BY <1>2, <1>3
  <2>2. l[Nth(h, s, i)].next = Nth(h, s, i + 1)
    BY <1>3 DEF Holds
  <2>3. l[Nth(h, s, (i - 1) + 1)].prev = Nth(h, s, i - 1)
    BY <1>3 DEF Holds
  <2> QED BY <1>3, <1>4, <2>1, <2>2, <2>3
<1> HIDE DEF a, b, e
<1>6. /\ k \in Memory
      /\ \A x \in Node :
            /\ k[x].next = IF x = a THEN b ELSE l[x].next
            /\ k[x].prev = IF x = b THEN a ELSE l[x].prev
  <2>1. /\ list_del(l, e) \in Memory
        /\ \A x \in Node :
              /\ list_del(l, e)[x].next = IF x = l[e].prev THEN l[e].next ELSE l[x].next
              /\ list_del(l, e)[x].prev = IF x = l[e].next THEN l[e].prev ELSE l[x].prev
    <3>1. e \in Node
      BY <1>4
    <3> QED BY <3>1, DeleteEffect, SMTT(30)
  <2> QED BY <1>1, <1>5, <2>1
<1>7. /\ r \in Seq(Node) /\ Len(r) = n - 1 /\ DOMAIN r = 1..(n - 1)
      /\ \A j \in DOMAIN r : Skip(i, j) \in DOMAIN s /\ r[j] = s[Skip(i, j)]
      /\ ToSet(r) = ToSet(s) \ {e} /\ Once(r)
  BY RemoveAtType, RemoveAtLength, RemoveAtElements, RemoveAtRange DEF Listed, e
<1>8. Listed(h, r)
  BY <1>7 DEF Listed
<1>9. ASSUME NEW j \in 0..n  PROVE Nth(h, r, j) = Nth(h, s, Skip(i, j))
  <2>1. CASE j \in DOMAIN r
    BY <1>7, <2>1 DEF Nth
  <2>2. CASE j = 0
    <3>1. Skip(i, j) = 0 /\ j \notin DOMAIN r
      BY <1>3, <1>7, <2>2 DEF Skip
    <3> QED BY <1>2, <3>1 DEF Nth
  <2>3. CASE j = n
    <3>1. Skip(i, j) = n + 1 /\ j \notin DOMAIN r
      BY <1>2, <1>3, <1>7, <2>3 DEF Skip
    <3> QED BY <1>2, <3>1 DEF Nth
  <2>4. j \in DOMAIN r \/ j = 0 \/ j = n
    <3>1. 0..n = {0, n} \cup 1..(n - 1)
      BY <1>2
    <3> QED BY <1>7, <1>9, <3>1
  <2> QED BY <2>1, <2>2, <2>3, <2>4
<1> HIDE DEF r, a, b, n, e
<1>10. ASSUME NEW j \in 0..Len(r)
       PROVE  k[Nth(h, r, j)].next = Nth(h, r, j + 1) /\ k[Nth(h, r, j + 1)].prev = Nth(h, r, j)
  <2>0. j \in 0..n /\ j + 1 \in 0..n
    BY <1>2, <1>3, <1>7, <1>10
  <2>1. CASE j = i - 1
    <3>1. Skip(i, j) = i - 1 /\ Skip(i, j + 1) = i + 1
      BY <1>3, <2>1 DEF Skip
    <3>2. Nth(h, r, j) = a /\ Nth(h, r, j + 1) = b
      BY <1>9, <2>0, <3>1 DEF a, b
    <3> QED BY <1>5, <1>6, <3>2
  <2>2. CASE j # i - 1
    <3>1. PICK x \in 0..n : /\ Skip(i, j) = x /\ Skip(i, j + 1) = x + 1
                            /\ x # i - 1 /\ x + 1 # i + 1 /\ x + 1 \in 1..(n + 1)
      <4>1. CASE j < i - 1
        <5>1. Skip(i, j) = j /\ Skip(i, j + 1) = j + 1 /\ j + 1 # i + 1 /\ j + 1 \in 1..(n + 1)
          BY <1>2, <1>3, <2>0, <4>1 DEF Skip
        <5> QED BY <2>0, <2>2, <5>1
      <4>2. CASE j >= i
        <5>1. /\ Skip(i, j) = j + 1 /\ Skip(i, j + 1) = (j + 1) + 1
              /\ j + 1 # i - 1 /\ (j + 1) + 1 # i + 1 /\ (j + 1) + 1 \in 1..(n + 1)
          BY <1>2, <1>3, <2>0, <4>2 DEF Skip
        <5> QED BY <2>0, <5>1
      <4> QED BY <1>2, <1>3, <2>0, <2>2, <4>1, <4>2
    <3>2. Nth(h, r, j) = Nth(h, s, x) /\ Nth(h, r, j + 1) = Nth(h, s, x + 1)
      BY <1>9, <2>0, <3>1
    <3>3. Nth(h, s, x) # a /\ Nth(h, s, x + 1) # b
      <4>1. Nth(h, s, x) # Nth(h, s, i - 1)
        BY <1>2, <1>3, <3>1
      <4>2. Nth(h, s, x + 1) # Nth(h, s, i + 1)
        BY <1>2, <1>3, <3>1
      <4> QED BY <4>1, <4>2 DEF a, b
    <3>4. l[Nth(h, s, x)].next = Nth(h, s, x + 1) /\ l[Nth(h, s, x + 1)].prev = Nth(h, s, x)
      BY <3>1 DEF Holds, n
    <3>5. Nth(h, s, x) \in Node /\ Nth(h, s, x + 1) \in Node
      BY <1>2, <3>1
    <3> QED BY <1>6, <3>2, <3>3, <3>4, <3>5
  <2> QED BY <2>1, <2>2
<1>11. Holds(k, h, r)
  BY <1>10 DEF Holds
<1>12. \A x \in Node : x \notin {h} \cup ToSet(s) => Alike(k, l, x)
  BY <1>5, <1>6 DEF Alike
<1> QED BY <1>1, <1>6, <1>7, <1>8, <1>11, <1>12 DEF r, e
-----------------------------------------------------------------------------
(* A walk along a ring meets its entries, one after the other.             *)
LEMMA WalkSteps ==
    ASSUME NEW l \in Memory, NEW h \in Node
    PROVE  /\ Walk(l, h) \in [0..(Most + 1) -> Node] /\ Walk(l, h)[0] = h
           /\ \A i \in 1..(Most + 1) : Walk(l, h)[i] = l[Walk(l, h)[i - 1]].next
<1> DEFINE N == Most + 1
           walk == CHOOSE f : f = [i \in 0..N |-> IF i = 0 THEN h ELSE l[f[i - 1]].next]
<1>1. N \in Nat
  BY ListsAssumption DEF Most
<1>2. PICK step \in [(1..N) \X Node -> Node] : \A i \in 1..N, n \in Node : step[<<i, n>>] = l[n].next
  <2> DEFINE f == [k \in (1..N) \X Node |-> l[k[2]].next]
  <2>1. f \in [(1..N) \X Node -> Node]
    BY DEF Memory
  <2>2. \A i \in 1..N, n \in Node : f[<<i, n>>] = l[n].next
    OBVIOUS
  <2> QED BY <2>1, <2>2
<1> HIDE DEF N
<1>3. PICK g \in [0..N -> Node] : g[0] = h /\ \A i \in 1..N : g[i] = step[<<i, g[i - 1]>>]
  <2>1. Passes(N, Node, h, step) # {}
    BY <1>1, Repeated
  <2> QED BY <2>1 DEF Passes
<1>4. \A i \in 1..N : i - 1 \in 0..N
  BY <1>1
<1>5. \A i \in 1..N : g[i] = l[g[i - 1]].next
  BY <1>2, <1>3, <1>4
<1>6. g = [i \in 0..N |-> IF i = 0 THEN h ELSE l[g[i - 1]].next]
  <2>1. \A i \in 0..N : i = 0 \/ i \in 1..N
    BY <1>1
  <2> QED BY <1>3, <1>5, <2>1
<1>7. walk = [i \in 0..N |-> IF i = 0 THEN h ELSE l[walk[i - 1]].next]
  BY <1>6
<1>8. Walk(l, h) = walk
  BY DEF Walk, N
<1> HIDE DEF walk
<1>9. 0 \in 0..N /\ \A i \in 1..N : i \in 0..N /\ i # 0
  BY <1>1
<1>10. walk[0] = h /\ \A i \in 1..N : walk[i] = l[walk[i - 1]].next
  BY <1>7, <1>9
<1>11. walk \in [0..N -> Node]
  <2> DEFINE P == {i \in 0..N : walk[i] \in Node}
  <2>1. 0 \in P
    BY <1>9, <1>10
  <2>2. ASSUME NEW i \in 1..N, i - 1 \in P  PROVE i \in P
    BY <1>9, <1>10, <2>2 DEF Memory
  <2>3. 0..N \subseteq P
    <3> HIDE DEF P
    <3> QED BY <1>1, <2>1, <2>2, Upwards
  <2> QED BY <1>7, <2>3
<1> QED BY <1>8, <1>10, <1>11 DEF N

LEMMA WalkAlong ==
    ASSUME NEW l \in Memory, NEW h, NEW s, Listed(h, s), Holds(l, h, s), Len(s) <= Most
    PROVE  /\ \A i \in 0..(Len(s) + 1) : Walk(l, h)[i] = Nth(h, s, i)
           /\ Closes(l, h)
<1> DEFINE n == Len(s)
           P == {i \in 0..(n + 1) : Walk(l, h)[i] = Nth(h, s, i)}
<1>1. h \in Node /\ n \in Nat /\ Most \in Nat /\ n <= Most
  BY ListsAssumption, NthFacts DEF Listed, Most
<1>2. /\ Walk(l, h)[0] = h
      /\ \A i \in 1..(Most + 1) : Walk(l, h)[i] = l[Walk(l, h)[i - 1]].next
  BY <1>1, WalkSteps
<1>3. 0 \in P
  <2>1. Nth(h, s, 0) = h
    BY NthFacts
  <2> QED BY <1>1, <1>2, <2>1
<1>4. ASSUME NEW i \in 1..(n + 1), i - 1 \in P  PROVE i \in P
  <2>1. i \in 1..(Most + 1) /\ i - 1 \in 0..n /\ i \in 0..(n + 1) /\ (i - 1) + 1 = i
    BY <1>1
  <2>2. l[Nth(h, s, i - 1)].next = Nth(h, s, (i - 1) + 1)
    BY <2>1 DEF Holds
  <2>3. Walk(l, h)[i - 1] = Nth(h, s, i - 1)
    BY <1>4
  <2>4. Walk(l, h)[i] = Nth(h, s, i)
    BY <1>2, <2>1, <2>2, <2>3
  <2> QED BY <2>1, <2>4
<1>5. 0..(n + 1) \subseteq P
  <2>1. n + 1 \in Nat
    BY <1>1
  <2> HIDE DEF P
  <2> QED BY <1>3, <1>4, <2>1, Upwards
<1>6. \A i \in 0..(n + 1) : Walk(l, h)[i] = Nth(h, s, i)
  BY <1>5
<1>7. Closes(l, h)
  <2>1. Nth(h, s, n + 1) = h
    BY NthFacts
  <2>2. n + 1 \in 0..(n + 1) /\ n + 1 \in 1..(Most + 1)
    BY <1>1
  <2>3. Walk(l, h)[n + 1] = h
    BY <1>6, <2>1, <2>2
  <2> QED BY <2>2, <2>3 DEF Closes
<1> QED BY <1>6, <1>7

LEMMA EntriesAlong ==
    ASSUME NEW l \in Memory, NEW h, NEW s, Listed(h, s), Holds(l, h, s), Len(s) <= Most
    PROVE  Entries(l, h) = s
<1> DEFINE n == Len(s)
           N == Most + 1
           rest == CHOOSE f : f = [i \in 1..N |->
                                      IF i > Most \/ Walk(l, h)[i] = h THEN <<>>
                                      ELSE <<Walk(l, h)[i]>> \o f[i + 1]]
<1>1. h \in Node /\ n \in Nat /\ Most \in Nat /\ n <= Most /\ s \in Seq(Node) /\ N = Most + 1
  BY ListsAssumption, NthFacts DEF Listed, Most
<1>2. PICK at \in [0..N -> Node] : at = Walk(l, h)
  BY <1>1, WalkSteps
<1>3. PICK step \in [(1..Most) \X Seq(Node) -> Seq(Node)] :
         \A j \in 1..Most, q \in Seq(Node) :
             step[<<j, q>>] = IF at[N - j] = h THEN <<>> ELSE <<at[N - j]>> \o q
  <2> DEFINE f == [k \in (1..Most) \X Seq(Node) |->
                      IF at[N - k[1]] = h THEN <<>> ELSE <<at[N - k[1]]>> \o k[2]]
  <2>1. \A j \in 1..Most, q \in Seq(Node) :
           (IF at[N - j] = h THEN <<>> ELSE <<at[N - j]>> \o q) \in Seq(Node)
    <3>1. \A j \in 1..Most : N - j \in 0..N
      BY <1>1
    <3>2. \A x \in Node : <<x>> \in Seq(Node)
      OBVIOUS
    <3> QED BY <3>1, <3>2, ConcatProperties, EmptySeq
  <2>2. f \in [(1..Most) \X Seq(Node) -> Seq(Node)]
    BY <2>1
  <2>3. \A j \in 1..Most, q \in Seq(Node) :
           f[<<j, q>>] = IF at[N - j] = h THEN <<>> ELSE <<at[N - j]>> \o q
    OBVIOUS
  <2> QED BY <2>2, <2>3
<1>4. PICK g \in [0..Most -> Seq(Node)] :
         g[0] = <<>> /\ \A j \in 1..Most : g[j] = step[<<j, g[j - 1]>>]
  <2>1. Passes(Most, Seq(Node), <<>>, step) # {}
    BY <1>1, EmptySeq, Repeated
  <2> QED BY <2>1 DEF Passes
<1>5. \A j \in 1..Most : g[j] = IF at[N - j] = h THEN <<>> ELSE <<at[N - j]>> \o g[j - 1]
  <2>1. \A j \in 1..Most : j - 1 \in 0..Most
    BY <1>1
  <2> QED BY <1>3, <1>4, <2>1
<1> DEFINE d == [i \in 1..N |-> g[N - i]]
<1>6. d = [i \in 1..N |-> IF i > Most \/ at[i] = h THEN <<>> ELSE <<at[i]>> \o d[i + 1]]
  <2> SUFFICES ASSUME NEW i \in 1..N
               PROVE  d[i] = IF i > Most \/ at[i] = h THEN <<>> ELSE <<at[i]>> \o d[i + 1]
    OBVIOUS
  <2>1. CASE i > Most
    <3>1. N - i = 0
      BY <1>1, <2>1
    <3> QED BY <1>4, <2>1, <3>1
  <2>2. CASE i <= Most
    <3>1. N - i \in 1..Most /\ N - (N - i) = i /\ i + 1 \in 1..N /\ N - (i + 1) = (N - i) - 1
      BY <1>1, <2>2
    <3>2. d[i] = g[N - i] /\ d[i + 1] = g[(N - i) - 1]
      BY <3>1
    <3>3. g[N - i] = IF at[i] = h THEN <<>> ELSE <<at[i]>> \o g[(N - i) - 1]
      BY <1>5, <3>1
    <3>4. ~ (i > Most)
      BY <1>1, <2>2
    <3> QED BY <3>2, <3>3, <3>4
  <2> QED BY <1>1, <2>1, <2>2
<1> HIDE DEF d
<1>7. rest = [i \in 1..N |-> IF i > Most \/ at[i] = h THEN <<>> ELSE <<at[i]>> \o rest[i + 1]]
  BY <1>2, <1>6
<1>8. Entries(l, h) = rest[1]
  BY DEF Entries
<1> HIDE DEF rest, N
<1> DEFINE P == {j \in 0..n : rest[n + 1 - j] = SubSeq(s, n + 1 - j, n)}
<1>9. \A i \in 0..(n + 1) : at[i] = Nth(h, s, i)
  BY <1>2, WalkAlong
<1>10. 0 \in P
  <2>1. n + 1 \in 1..N /\ n + 1 \in 0..(n + 1) /\ n + 1 - 0 = n + 1
    BY <1>1
  <2>2. at[n + 1] = h
    BY <1>9, <2>1, NthFacts
  <2>3. rest[n + 1] = <<>>
    BY <1>7, <2>1, <2>2
  <2>4. SubSeq(s, n + 1, n) = <<>>
    BY <1>1, SubSeqEmpty
  <2>5. 0 \in 0..n
    BY <1>1
  <2>6. rest[n + 1 - 0] = SubSeq(s, n + 1 - 0, n)
    BY <2>1, <2>3, <2>4
  <2> QED BY <2>5, <2>6
<1>11. ASSUME NEW j \in 1..n, j - 1 \in P  PROVE j \in P
  <2>1. PICK i \in 1..n : i = n + 1 - j
    <3>1. n + 1 - j \in 1..n
      BY <1>1
    <3> QED BY <3>1
  <2>2. n + 1 - (j - 1) = i + 1 /\ i \in 1..N /\ ~ (i > Most) /\ i \in 0..(n + 1) /\ j \in 0..n
    BY <1>1, <2>1
  <2>3. DOMAIN s = 1..n /\ s[i] # h
    <3>1. DOMAIN s = 1..n
      BY NthFacts
    <3> QED BY <3>1 DEF Listed, ToSet
  <2>4. at[i] = s[i]
    BY <1>9, <2>2, <2>3 DEF Nth
  <2>5. rest[i] = <<s[i]>> \o rest[i + 1]
    BY <1>7, <2>2, <2>3, <2>4
  <2>6. rest[i + 1] = SubSeq(s, i + 1, n)
    BY <1>11, <2>2
  <2>7. SubSeq(s, i, n) = <<s[i]>> \o SubSeq(s, i + 1, n)
    <3>1. i \in 1..Len(s) /\ n \in i..Len(s)
      BY <1>1
    <3> QED BY <1>1, <3>1, SubSeqRecursiveFirst
  <2> QED BY <2>1, <2>2, <2>5, <2>6, <2>7
<1>12. 0..n \subseteq P
  <2> HIDE DEF P
  <2> QED BY <1>1, <1>10, <1>11, Upwards
<1>13. rest[1] = SubSeq(s, 1, n)
  <2>1. n \in 0..n /\ n + 1 - n = 1
    BY <1>1
  <2>2. n \in P
    BY <1>12, <2>1
  <2> QED BY <2>1, <2>2
<1> QED BY <1>1, <1>8, <1>13, SubSeqFull
-----------------------------------------------------------------------------
(* A list of the kernel fits into a walk: it is not longer than its table. *)
LEMMA EntryNodes ==
    ASSUME NEW h \in ListHead
    PROVE  /\ EntryOf(h) \in {PList, Sib, Io, Mail}
           /\ EntryOf(h) \subseteq Node /\ EntryOf(h) \cap ListHead = {}
           /\ h \in Node
<1>1. EntryOf(h) \in {PList, Sib, Io, Mail}
  <2>1. CASE h \in KernelHead
    BY <2>1, EntriesOf, Heads DEF KernelHead, IoHead
  <2>2. CASE \E p \in Pcb : h \in PcbHead(p)
    BY <2>2, EntriesOf, Heads
  <2> QED BY <2>1, <2>2, Heads
<1> QED BY <1>1, Uses

LEMMA NoRoomForMore ==
    ASSUME NEW N \in Nat, NEW n \in Nat, NEW f \in [1..n -> 1..N],
           \A i, j \in 1..n : f[i] = f[j] => i = j
    PROVE  n <= N
<1>1. IsFiniteSet(1..n) /\ Cardinality(1..n) = n /\ IsFiniteSet(1..N) /\ Cardinality(1..N) = N
  BY CountTo
<1>2. SUFFICES ASSUME N < n  PROVE FALSE
  OBVIOUS
<1>3. \E x, y \in 1..n : x # y /\ f[x] = f[y]
  BY <1>1, <1>2, FS_PigeonHole
<1> QED BY <1>3

LEMMA Fits ==
    ASSUME NEW h \in ListHead, NEW s, Listed(h, s), ToSet(s) \subseteq EntryOf(h)
    PROVE  Len(s) <= Most
<1>1. Len(s) \in Nat /\ DOMAIN s = 1..Len(s) /\ \A i \in 1..Len(s) : s[i] \in ToSet(s)
  BY NthFacts DEF ToSet
<1>2. \A i, j \in 1..Len(s) : s[i] = s[j] => i = j
  BY <1>1 DEF Listed, Once
<1>3. MaxProc \in Nat /\ MaxMsg \in Nat
  BY ListsAssumption
<1>4. CASE EntryOf(h) \in {PList, Sib, Io}
  <2> DEFINE f == [i \in 1..Len(s) |-> container_of(s[i])]
  <2>1. \A x \in EntryOf(h) : container_of(x) \in 1..MaxProc
    BY <1>4, PcbNodes DEF PList, Sib, Io, Pcb
  <2>2. \A x, y \in EntryOf(h) : container_of(x) = container_of(y) => x = y
    <3>1. CASE EntryOf(h) = PList
      BY <3>1, PcbNodes DEF PList
    <3>2. CASE EntryOf(h) = Sib
      BY <3>2, PcbNodes DEF Sib
    <3>3. CASE EntryOf(h) = Io
      BY <3>3, PcbNodes DEF Io
    <3> QED BY <1>4, <3>1, <3>2, <3>3
  <2>3. f \in [1..Len(s) -> 1..MaxProc]
    BY <1>1, <2>1
  <2>4. \A i, j \in 1..Len(s) : f[i] = f[j] => i = j
    BY <1>1, <1>2, <2>2
  <2>5. Len(s) <= MaxProc
    <3> HIDE DEF f
    <3> QED BY <1>1, <1>3, <2>3, <2>4, NoRoomForMore
  <2> QED BY <1>1, <1>3, <2>5 DEF Most
<1>5. CASE EntryOf(h) = Mail
  <2> DEFINE f == [i \in 1..Len(s) |-> message_of(s[i])]
  <2>1. \A x \in Mail : message_of(x) \in 1..MaxMsg
    BY MsgNodes DEF Mail, Msg
  <2>2. \A x, y \in Mail : message_of(x) = message_of(y) => x = y
    BY MsgNodes DEF Mail
  <2>3. f \in [1..Len(s) -> 1..MaxMsg]
    BY <1>1, <1>5, <2>1
  <2>4. \A i, j \in 1..Len(s) : f[i] = f[j] => i = j
    BY <1>1, <1>2, <1>5, <2>2
  <2>5. Len(s) <= MaxMsg
    <3> HIDE DEF f
    <3> QED BY <1>1, <1>3, <2>3, <2>4, NoRoomForMore
  <2> QED BY <1>1, <1>3, <2>5 DEF Most
<1> QED BY <1>4, <1>5, EntryNodes
-----------------------------------------------------------------------------
(* The lists of the heads H are rings, with different entries, and those   *)
(* that belong there.                                                      *)
Filled(l, h) ==
    /\ Listed(h, Entries(l, h)) /\ ToSet(Entries(l, h)) \subseteq EntryOf(h)
    /\ Holds(l, h, Entries(l, h))
Sound(l, H) ==
    /\ l \in Memory /\ H \subseteq ListHead
    /\ \A h \in H : Filled(l, h)
    /\ \A g, h \in H : g # h => ToSet(Entries(l, g)) \cap ToSet(Entries(l, h)) = {}

HeldBy(l, H) == UNION {ToSet(Entries(l, h)) : h \in H}

LEMMA FilledBy ==
    ASSUME NEW l \in Memory, NEW h \in ListHead, NEW s, Listed(h, s), Holds(l, h, s),
           ToSet(s) \subseteq EntryOf(h)
    PROVE  Entries(l, h) = s /\ Filled(l, h)
<1>1. Entries(l, h) = s
  BY Fits, EntriesAlong
<1> QED BY <1>1 DEF Filled

(* One list changes, and no other.                                         *)
LEMMA SoundChange ==
    ASSUME NEW l, NEW H, Sound(l, H), NEW h \in H, NEW k \in Memory,
           NEW s, Listed(h, s), Holds(k, h, s), ToSet(s) \subseteq EntryOf(h),
           \A g \in H \ {h} : /\ ToSet(s) \cap ToSet(Entries(l, g)) = {}
                              /\ \A x \in {g} \cup ToSet(Entries(l, g)) : Alike(k, l, x)
    PROVE  /\ Sound(k, H) /\ Entries(k, h) = s
           /\ \A g \in H \ {h} : Entries(k, g) = Entries(l, g)
<1>1. H \subseteq ListHead /\ h \in ListHead
  BY DEF Sound
<1>2. Entries(k, h) = s /\ Filled(k, h)
  BY <1>1, FilledBy
<1>3. ASSUME NEW g \in H \ {h}  PROVE Entries(k, g) = Entries(l, g) /\ Filled(k, g)
  <2>1. PICK q : q = Entries(l, g)
    OBVIOUS
  <2>2. Listed(g, q) /\ ToSet(q) \subseteq EntryOf(g) /\ Holds(l, g, q)
    BY <2>1 DEF Sound, Filled
  <2>3. Holds(k, g, q)
    BY <2>1, <2>2, HoldsKept
  <2> QED BY <1>1, <2>1, <2>2, <2>3, FilledBy
<1>4. \A g \in H : Filled(k, g)
  BY <1>2, <1>3
<1>5. \A f, g \in H : f # g => ToSet(Entries(k, f)) \cap ToSet(Entries(k, g)) = {}
  <2>1. \A f, g \in H \ {h} : f # g => ToSet(Entries(k, f)) \cap ToSet(Entries(k, g)) = {}
    BY <1>3 DEF Sound
  <2>2. \A g \in H \ {h} : ToSet(Entries(k, h)) \cap ToSet(Entries(k, g)) = {}
    BY <1>2, <1>3
  <2> QED BY <2>1, <2>2
<1> QED BY <1>1, <1>2, <1>3, <1>4, <1>5 DEF Sound

(* Nodes outside the lists may be written.                                 *)
LEMMA SoundElsewhere ==
    ASSUME NEW l, NEW H, Sound(l, H), NEW k \in Memory,
           \A x \in H \cup HeldBy(l, H) : Alike(k, l, x)
    PROVE  /\ Sound(k, H) /\ HeldBy(k, H) = HeldBy(l, H)
           /\ \A g \in H : Entries(k, g) = Entries(l, g)
<1>1. H \subseteq ListHead
  BY DEF Sound
<1>2. ASSUME NEW g \in H  PROVE Entries(k, g) = Entries(l, g) /\ Filled(k, g)
  <2>1. PICK q : q = Entries(l, g)
    OBVIOUS
  <2>2. Listed(g, q) /\ ToSet(q) \subseteq EntryOf(g) /\ Holds(l, g, q)
    BY <2>1 DEF Sound, Filled
  <2>3. Holds(k, g, q)
    <3>1. \A x \in {g} \cup ToSet(q) : Alike(k, l, x)
      BY <2>1 DEF HeldBy
    <3> QED BY <2>2, <3>1, HoldsKept
  <2> QED BY <1>1, <2>1, <2>2, <2>3, FilledBy
<1>3. Sound(k, H)
  BY <1>1, <1>2 DEF Sound
<1> QED BY <1>2, <1>3 DEF HeldBy

(* The nodes a change of list h does not touch.                            *)
LEMMA Apart ==
    ASSUME NEW l, NEW H, Sound(l, H), NEW h \in H, NEW g \in H \ {h},
           NEW x \in {g} \cup ToSet(Entries(l, g))
    PROVE  x \in Node /\ x # h /\ x \notin ToSet(Entries(l, h))
<1>1. h \in ListHead /\ g \in ListHead /\ Filled(l, h) /\ Filled(l, g)
  BY DEF Sound
<1>2. ToSet(Entries(l, h)) \cap ListHead = {} /\ ToSet(Entries(l, g)) \cap ListHead = {}
  BY <1>1, EntryNodes DEF Filled
<1>3. ToSet(Entries(l, g)) \cap ToSet(Entries(l, h)) = {}
  BY DEF Sound
<1>4. g \in Node /\ ToSet(Entries(l, g)) \subseteq Node
  BY <1>1, EntryNodes DEF Filled
<1> QED BY <1>1, <1>2, <1>3, <1>4

LEMMA SoundTail ==
    ASSUME NEW l, NEW H, Sound(l, H), NEW h \in H, NEW e \in EntryOf(h), e \notin HeldBy(l, H)
    PROVE  /\ Sound(list_add_tail(l, e, h), H)
           /\ Entries(list_add_tail(l, e, h), h) = Append(Entries(l, h), e)
           /\ \A g \in H \ {h} : Entries(list_add_tail(l, e, h), g) = Entries(l, g)
           /\ HeldBy(list_add_tail(l, e, h), H) = HeldBy(l, H) \cup {e}
<1>1. PICK q, k : q = Entries(l, h) /\ k = list_add_tail(l, e, h)
  OBVIOUS
<1>2. l \in Memory /\ h \in ListHead /\ H \subseteq ListHead
  BY DEF Sound
<1>3. Listed(h, q) /\ ToSet(q) \subseteq EntryOf(h) /\ Holds(l, h, q)
  BY <1>1 DEF Sound, Filled
<1>4. e \in Node /\ e \notin ListHead /\ e \notin ToSet(q) /\ e # h
  BY <1>1, <1>2, EntryNodes DEF HeldBy
<1>5. PICK s : s = Append(q, e)
  OBVIOUS
<1>6. /\ k \in Memory /\ Holds(k, h, s) /\ Listed(h, s) /\ ToSet(s) = ToSet(q) \cup {e}
      /\ \A x \in Node : x \notin {h, e} \cup ToSet(q) => Alike(k, l, x)
  <2>1. ToSet(Append(q, e)) = ToSet(q) \cup {e}
    BY <1>3, <1>4, AppendRange DEF Listed
  <2> QED BY <1>1, <1>2, <1>3, <1>4, <1>5, <2>1, HoldsTail
<1>7. ASSUME NEW g \in H \ {h}
      PROVE  /\ ToSet(s) \cap ToSet(Entries(l, g)) = {}
             /\ \A x \in {g} \cup ToSet(Entries(l, g)) : Alike(k, l, x)
  <2>1. \A x \in {g} \cup ToSet(Entries(l, g)) : x \in Node /\ x # h /\ x \notin ToSet(q)
    BY <1>1, Apart
  <2>2. \A x \in {g} \cup ToSet(Entries(l, g)) : x # e
    BY <1>2, <1>4 DEF HeldBy
  <2> QED BY <1>6, <2>1, <2>2
<1>8. /\ Sound(k, H) /\ Entries(k, h) = s
      /\ \A g \in H \ {h} : Entries(k, g) = Entries(l, g)
  <2>1. ToSet(s) \subseteq EntryOf(h)
    BY <1>3, <1>6
  <2> QED BY <1>6, <1>7, <2>1, SoundChange
<1>9. HeldBy(k, H) = HeldBy(l, H) \cup {e}
  BY <1>1, <1>6, <1>8 DEF HeldBy
<1> QED BY <1>1, <1>5, <1>6, <1>8, <1>9

LEMMA SoundFront ==
    ASSUME NEW l, NEW H, Sound(l, H), NEW h \in H, NEW e \in EntryOf(h), e \notin HeldBy(l, H)
    PROVE  /\ Sound(list_add(l, e, h), H)
           /\ Entries(list_add(l, e, h), h) = <<e>> \o Entries(l, h)
           /\ ToSet(Entries(list_add(l, e, h), h)) = ToSet(Entries(l, h)) \cup {e}
           /\ \A g \in H \ {h} : Entries(list_add(l, e, h), g) = Entries(l, g)
           /\ HeldBy(list_add(l, e, h), H) = HeldBy(l, H) \cup {e}
<1>1. PICK q, k : q = Entries(l, h) /\ k = list_add(l, e, h)
  OBVIOUS
<1>2. l \in Memory /\ h \in ListHead /\ H \subseteq ListHead
  BY DEF Sound
<1>3. Listed(h, q) /\ ToSet(q) \subseteq EntryOf(h) /\ Holds(l, h, q)
  BY <1>1 DEF Sound, Filled
<1>4. e \in Node /\ e \notin ListHead /\ e \notin ToSet(q) /\ e # h
  BY <1>1, <1>2, EntryNodes DEF HeldBy
<1>5. PICK s : s = <<e>> \o q
  OBVIOUS
<1>6. /\ k \in Memory /\ Holds(k, h, s) /\ Listed(h, s) /\ ToSet(s) = ToSet(q) \cup {e}
      /\ \A x \in Node : x \notin {h, e} \cup ToSet(q) => Alike(k, l, x)
  BY <1>1, <1>2, <1>3, <1>4, <1>5, HoldsFront
<1>7. ASSUME NEW g \in H \ {h}
      PROVE  /\ ToSet(s) \cap ToSet(Entries(l, g)) = {}
             /\ \A x \in {g} \cup ToSet(Entries(l, g)) : Alike(k, l, x)
  <2>1. \A x \in {g} \cup ToSet(Entries(l, g)) : x \in Node /\ x # h /\ x \notin ToSet(q)
    BY <1>1, Apart
  <2>2. \A x \in {g} \cup ToSet(Entries(l, g)) : x # e
    BY <1>2, <1>4 DEF HeldBy
  <2> QED BY <1>6, <2>1, <2>2
<1>8. /\ Sound(k, H) /\ Entries(k, h) = s
      /\ \A g \in H \ {h} : Entries(k, g) = Entries(l, g)
  <2>1. ToSet(s) \subseteq EntryOf(h)
    BY <1>3, <1>6
  <2> QED BY <1>6, <1>7, <2>1, SoundChange
<1>9. HeldBy(k, H) = HeldBy(l, H) \cup {e}
  BY <1>1, <1>6, <1>8 DEF HeldBy
<1> QED BY <1>1, <1>5, <1>6, <1>8, <1>9

LEMMA SoundDelete ==
    ASSUME NEW l, NEW H, Sound(l, H), NEW h \in H, NEW i \in DOMAIN Entries(l, h)
    PROVE  /\ Sound(list_del(l, Entries(l, h)[i]), H)
           /\ Entries(list_del(l, Entries(l, h)[i]), h) = RemoveAt(Entries(l, h), i)
           /\ ToSet(RemoveAt(Entries(l, h), i)) = ToSet(Entries(l, h)) \ {Entries(l, h)[i]}
           /\ \A g \in H \ {h} : Entries(list_del(l, Entries(l, h)[i]), g) = Entries(l, g)
           /\ HeldBy(list_del(l, Entries(l, h)[i]), H) = HeldBy(l, H) \ {Entries(l, h)[i]}
<1>1. PICK q : q = Entries(l, h)
  OBVIOUS
<1>2. PICK e, k : e = q[i] /\ k = list_del(l, e)
  OBVIOUS
<1>3. l \in Memory /\ h \in ListHead /\ H \subseteq ListHead /\ i \in DOMAIN q
  BY <1>1 DEF Sound
<1>4. Listed(h, q) /\ ToSet(q) \subseteq EntryOf(h) /\ Holds(l, h, q)
  BY <1>1 DEF Sound, Filled
<1>5. PICK s : s = RemoveAt(q, i)
  OBVIOUS
<1>6. /\ k \in Memory /\ Holds(k, h, s) /\ Listed(h, s) /\ ToSet(s) = ToSet(q) \ {e}
      /\ \A x \in Node : x \notin {h} \cup ToSet(q) => Alike(k, l, x)
  BY <1>2, <1>3, <1>4, <1>5, HoldsDelete
<1>7. ASSUME NEW g \in H \ {h}
      PROVE  /\ ToSet(s) \cap ToSet(Entries(l, g)) = {}
             /\ \A x \in {g} \cup ToSet(Entries(l, g)) : Alike(k, l, x)
  <2>1. \A x \in {g} \cup ToSet(Entries(l, g)) : x \in Node /\ x # h /\ x \notin ToSet(q)
    BY <1>1, Apart
  <2> QED BY <1>6, <2>1
<1>8. /\ Sound(k, H) /\ Entries(k, h) = s
      /\ \A g \in H \ {h} : Entries(k, g) = Entries(l, g)
  <2>1. ToSet(s) \subseteq EntryOf(h)
    BY <1>4, <1>6
  <2> QED BY <1>6, <1>7, <2>1, SoundChange
<1>9. HeldBy(k, H) = HeldBy(l, H) \ {e}
  <2>1. e \in ToSet(q)
    BY <1>2, <1>3 DEF ToSet
  <2>2. \A g \in H \ {h} : e \notin ToSet(Entries(l, g))
    BY <1>1, <2>1 DEF Sound
  <2> QED BY <1>1, <1>6, <1>8, <2>2 DEF HeldBy
<1> QED BY <1>1, <1>2, <1>5, <1>6, <1>8, <1>9

(* Every walk closes.                                                      *)
LEMMA SoundRings ==
    ASSUME NEW l, NEW H, Sound(l, H), NEW h \in H
    PROVE  Ring(l, h) /\ ToSet(Entries(l, h)) \subseteq EntryOf(h)
<1>1. PICK s : s = Entries(l, h)
  OBVIOUS
<1>2. l \in Memory /\ h \in ListHead /\ Listed(h, s) /\ ToSet(s) \subseteq EntryOf(h) /\ Holds(l, h, s)
  BY <1>1 DEF Sound, Filled
<1>3. Closes(l, h)
  BY <1>2, Fits, WalkAlong
<1>4. /\ Len(s) \in Nat /\ DOMAIN s = 1..Len(s) /\ Nth(h, s, 0) = h /\ Nth(h, s, Len(s) + 1) = h
  BY <1>2, NthFacts
<1>5. ASSUME NEW n \in {h} \cup ToSet(s)  PROVE l[l[n].next].prev = n /\ l[l[n].prev].next = n
  <2>1. PICK i \in 0..Len(s) : n = Nth(h, s, i)
    <3>1. CASE n = h
      BY <1>4, <3>1
    <3>2. CASE n \in ToSet(s)
      <4>1. PICK i \in DOMAIN s : n = s[i]
        BY <3>2 DEF ToSet
      <4> QED BY <1>4, <4>1 DEF Nth
    <3> QED BY <3>1, <3>2
  <2>2. PICK j \in 1..(Len(s) + 1) : n = Nth(h, s, j)
    <3>1. CASE i = 0
      BY <1>4, <2>1, <3>1
    <3>2. CASE i # 0
      BY <1>4, <2>1, <3>2
    <3> QED BY <3>1, <3>2
  <2>3. l[Nth(h, s, i)].next = Nth(h, s, i + 1) /\ l[Nth(h, s, i + 1)].prev = Nth(h, s, i)
    BY <1>2 DEF Holds
  <2>4. /\ l[Nth(h, s, j - 1)].next = Nth(h, s, (j - 1) + 1)
        /\ l[Nth(h, s, (j - 1) + 1)].prev = Nth(h, s, j - 1)
    <3>1. j - 1 \in 0..Len(s)
      BY <1>4
    <3> QED BY <1>2, <3>1 DEF Holds
  <2>5. (j - 1) + 1 = j
    BY <1>4
  <2> QED BY <2>1, <2>2, <2>3, <2>4, <2>5
<1>6. Range(s) = ToSet(s)
  BY DEF Range, ToSet
<1> QED BY <1>1, <1>2, <1>3, <1>5, <1>6 DEF Ring
-----------------------------------------------------------------------------
(* The lists of the PCBs in use and of the kernel, in any memory.          *)
InUse(l) == Pcb \ {container_of(n) : n \in ToSet(Entries(l, pcbFree_h))}
HeadsOf(l) == KernelHead \cup UNION {PcbHead(p) : p \in InUse(l)}
Intact(l) == Sound(l, HeadsOf(l))
Held(l) == HeldBy(l, HeadsOf(l))

Same(l, k) == Intact(k) /\ InUse(k) = InUse(l) /\ HeadsOf(k) = HeadsOf(l)
InFront(e, s) == <<e>> \o s
Only(l, k, h) == \A g \in HeadsOf(l) : g # h => Entries(k, g) = Entries(l, g)
Besides(l, k, a, b) == \A g \in HeadsOf(l) : g # a /\ g # b => Entries(k, g) = Entries(l, g)
BesidesPcb(l, k, p) ==
    \A g \in HeadsOf(l) : g # pcbFree_h /\ g \notin PcbHead(p) => Entries(k, g) = Entries(l, g)

LEMMA InUseFacts ==
    ASSUME NEW l, Intact(l)
    PROVE  /\ l \in Memory /\ HeadsOf(l) \subseteq ListHead /\ KernelHead \subseteq HeadsOf(l)
           /\ InUse(l) \subseteq Pcb
           /\ \A p \in Pcb : p \in InUse(l) <=> p_list(p) \notin ToSet(Entries(l, pcbFree_h))
           /\ \A p \in Pcb : p \in InUse(l) <=> p_child(p) \in HeadsOf(l)
           /\ \A p \in Pcb : p \in InUse(l) <=> msg_inbox(p) \in HeadsOf(l)
<1>1. l \in Memory /\ HeadsOf(l) \subseteq ListHead /\ KernelHead \subseteq HeadsOf(l)
  BY DEF Intact, Sound, HeadsOf
<1>2. ToSet(Entries(l, pcbFree_h)) \subseteq PList
  <2>1. pcbFree_h \in HeadsOf(l)
    BY <1>1, Heads
  <2> QED BY <2>1, EntriesOf DEF Intact, Sound, Filled
<1>3. \A p \in Pcb : p \in InUse(l) <=> p_list(p) \notin ToSet(Entries(l, pcbFree_h))
  BY <1>2, PcbNodes DEF InUse, PList
<1>4. InUse(l) \subseteq Pcb
  BY DEF InUse
<1>5. ASSUME NEW p \in Pcb
      PROVE  (p \in InUse(l) <=> p_child(p) \in HeadsOf(l)) /\ (p \in InUse(l) <=> msg_inbox(p) \in HeadsOf(l))
  BY <1>4, Heads DEF HeadsOf
<1> QED BY <1>1, <1>3, <1>4, <1>5

LEMMA SameUse ==
    ASSUME NEW l, NEW k, Intact(l), Sound(k, HeadsOf(l)),
           ToSet(Entries(k, pcbFree_h)) = ToSet(Entries(l, pcbFree_h))
    PROVE  Same(l, k)
BY DEF Same, Intact, HeadsOf, InUse

LEMMA ListFacts ==
    ASSUME NEW l, Intact(l), NEW h \in HeadsOf(l)
    PROVE  /\ Entries(l, h) \in Seq(Node) /\ Once(Entries(l, h)) /\ ToSet(Entries(l, h)) \subseteq EntryOf(h)
           /\ ToSet(Entries(l, h)) \subseteq Held(l)
           /\ list_empty(l, h) <=> Entries(l, h) = <<>>
           /\ Entries(l, h) # <<>> => l[h].next = Head(Entries(l, h))
           /\ \A g \in HeadsOf(l) \ {h} : ToSet(Entries(l, g)) \cap ToSet(Entries(l, h)) = {}
<1>1. PICK q : q = Entries(l, h)
  OBVIOUS
<1>2. Listed(h, q) /\ ToSet(q) \subseteq EntryOf(h) /\ Holds(l, h, q)
  BY <1>1 DEF Intact, Sound, Filled
<1>3. (q = <<>> <=> l[h].next = h) /\ (q # <<>> => l[h].next = Head(q))
  BY <1>2, HoldsEnds
<1>4. \A g \in HeadsOf(l) \ {h} : ToSet(Entries(l, g)) \cap ToSet(Entries(l, h)) = {}
  BY DEF Intact, Sound
<1>5. ToSet(q) \subseteq Held(l)
  BY <1>1 DEF Held, HeldBy
<1> QED BY <1>1, <1>2, <1>3, <1>4, <1>5 DEF Listed, list_empty

(* An entry goes to the end of a list other than the free one; an entry    *)
(* leaves it.                                                              *)
LEMMA TailIn ==
    ASSUME NEW l, Intact(l), NEW h \in HeadsOf(l), h # pcbFree_h, NEW e \in EntryOf(h), e \notin Held(l)
    PROVE  /\ Same(l, list_add_tail(l, e, h)) /\ Only(l, list_add_tail(l, e, h), h)
           /\ Entries(list_add_tail(l, e, h), h) = Append(Entries(l, h), e)
           /\ ToSet(Entries(list_add_tail(l, e, h), h)) = ToSet(Entries(l, h)) \cup {e}
           /\ Held(list_add_tail(l, e, h)) = Held(l) \cup {e}
<1>1. PICK k : k = list_add_tail(l, e, h)
  OBVIOUS
<1>2. pcbFree_h \in HeadsOf(l)
  BY InUseFacts, Heads
<1>3. /\ Sound(k, HeadsOf(l)) /\ Entries(k, h) = Append(Entries(l, h), e)
      /\ \A g \in HeadsOf(l) \ {h} : Entries(k, g) = Entries(l, g)
      /\ HeldBy(k, HeadsOf(l)) = HeldBy(l, HeadsOf(l)) \cup {e}
  BY <1>1, SoundTail DEF Intact, Held
<1>4. Same(l, k)
  BY <1>2, <1>3, SameUse
<1>5. ToSet(Append(Entries(l, h), e)) = ToSet(Entries(l, h)) \cup {e}
  <2>1. e \in Node
    BY InUseFacts, EntryNodes
  <2> QED BY <2>1, ListFacts, AppendRange
<1> QED BY <1>1, <1>3, <1>4, <1>5 DEF Held, Only, Same

LEMMA TakenOut ==
    ASSUME NEW l, Intact(l), NEW h \in HeadsOf(l), h # pcbFree_h, NEW i \in DOMAIN Entries(l, h),
           NEW e, e = Entries(l, h)[i]
    PROVE  /\ Same(l, list_del(l, e)) /\ Only(l, list_del(l, e), h)
           /\ Entries(list_del(l, e), h) = RemoveAt(Entries(l, h), i)
           /\ ToSet(Entries(list_del(l, e), h)) = ToSet(Entries(l, h)) \ {e}
           /\ Held(list_del(l, e)) = Held(l) \ {e}
<1>1. PICK k : k = list_del(l, e)
  OBVIOUS
<1>2. pcbFree_h \in HeadsOf(l)
  BY InUseFacts, Heads
<1>3. /\ Sound(k, HeadsOf(l)) /\ Entries(k, h) = RemoveAt(Entries(l, h), i)
      /\ ToSet(RemoveAt(Entries(l, h), i)) = ToSet(Entries(l, h)) \ {e}
      /\ \A g \in HeadsOf(l) \ {h} : Entries(k, g) = Entries(l, g)
      /\ HeldBy(k, HeadsOf(l)) = HeldBy(l, HeadsOf(l)) \ {e}
  BY <1>1, SoundDelete DEF Intact
<1>4. Same(l, k)
  BY <1>2, <1>3, SameUse
<1> QED BY <1>1, <1>3, <1>4 DEF Held, Only, Same

(* An entry that is in no list is initialised.                             *)
LEMMA ClearedNode ==
    ASSUME NEW l, NEW H, Sound(l, H), NEW e \in Node, e \notin ListHead, e \notin HeldBy(l, H)
    PROVE  /\ Sound(INIT_LIST_HEAD(l, e), H) /\ HeldBy(INIT_LIST_HEAD(l, e), H) = HeldBy(l, H)
           /\ \A g \in H : Entries(INIT_LIST_HEAD(l, e), g) = Entries(l, g)
<1>1. PICK k : k = INIT_LIST_HEAD(l, e)
  OBVIOUS
<1>2. l \in Memory /\ H \subseteq ListHead
  BY DEF Sound
<1>3. k \in Memory /\ \A n \in Node \ {e} : k[n] = l[n]
  BY <1>1, <1>2, ClearEffect
<1>4. H \cup HeldBy(l, H) \subseteq Node \ {e}
  <2>1. \A h \in H : ToSet(Entries(l, h)) \subseteq Node /\ h \in Node /\ h # e
    BY <1>2, EntryNodes DEF Sound, Filled
  <2> QED BY <2>1 DEF HeldBy
<1>5. \A x \in H \cup HeldBy(l, H) : Alike(k, l, x)
  BY <1>3, <1>4 DEF Alike
<1> QED BY <1>1, <1>3, <1>5, SoundElsewhere

LEMMA RemoveAtOne ==
    ASSUME NEW S, NEW q \in Seq(S), q # <<>>
    PROVE  1 \in DOMAIN q /\ q[1] = Head(q) /\ RemoveAt(q, 1) = Tail(q)
<1>1. 1 \in DOMAIN q /\ q[1] = Head(q) /\ Len(q) \in Nat
  BY TailElements
<1>2. SubSeq(q, 1, 1 - 1) = <<>>
  BY SubSeqEmpty
<1>3. SubSeq(q, 1 + 1, Len(q)) = Tail(q)
  BY TailIsSubSeq
<1>4. Tail(q) \in Seq(S)
  BY TailElements
<1>5. <<>> \o Tail(q) = Tail(q)
  BY <1>4, ConcatEmptySeq
<1> QED BY <1>1, <1>2, <1>3, <1>5 DEF RemoveAt

LEMMA TakenFirst ==
    ASSUME NEW l, Intact(l), NEW h \in HeadsOf(l), h # pcbFree_h, 1 \in DOMAIN Entries(l, h)
    PROVE  LET e == Entries(l, h)[1] IN
           /\ Same(l, list_del(l, e)) /\ Only(l, list_del(l, e), h)
           /\ Entries(list_del(l, e), h) = RemoveAt(Entries(l, h), 1)
           /\ ToSet(Entries(list_del(l, e), h)) = ToSet(Entries(l, h)) \ {e}
           /\ Held(list_del(l, e)) = Held(l) \ {e}
<1>1. PICK e : e = Entries(l, h)[1]
  OBVIOUS
<1>2. PICK i \in DOMAIN Entries(l, h) : i = 1
  OBVIOUS
<1>3. e = Entries(l, h)[i]
  BY <1>1, <1>2
<1>4. /\ Same(l, list_del(l, e)) /\ Only(l, list_del(l, e), h)
      /\ Entries(list_del(l, e), h) = RemoveAt(Entries(l, h), i)
      /\ ToSet(Entries(list_del(l, e), h)) = ToSet(Entries(l, h)) \ {e}
      /\ Held(list_del(l, e)) = Held(l) \ {e}
  BY <1>2, <1>3, TakenOut
<1> QED BY <1>1, <1>2, <1>4

(* removeProcQ() takes the first entry.                                    *)
LEMMA FirstOut ==
    ASSUME NEW l, Intact(l), NEW h \in HeadsOf(l), h # pcbFree_h, Entries(l, h) # <<>>
    PROVE  /\ Same(l, removeProcQ(l, h)) /\ Only(l, removeProcQ(l, h), h)
           /\ l[h].next = Head(Entries(l, h)) /\ Head(Entries(l, h)) \in ToSet(Entries(l, h))
           /\ Entries(removeProcQ(l, h), h) = Tail(Entries(l, h))
           /\ ToSet(Entries(removeProcQ(l, h), h)) = ToSet(Entries(l, h)) \ {l[h].next}
           /\ Held(removeProcQ(l, h)) = Held(l) \ {l[h].next}
<1>1. PICK q : q = Entries(l, h)
  OBVIOUS
<1>2. q \in Seq(Node) /\ q # <<>> /\ l[h].next = Head(q) /\ Once(q) /\ ToSet(q) \subseteq EntryOf(h)
  BY <1>1, ListFacts
<1>3. PICK e : e = Head(q)
  OBVIOUS
<1>4. 1 \in DOMAIN q /\ q[1] = e /\ RemoveAt(q, 1) = Tail(q)
  BY <1>2, <1>3, RemoveAtOne
<1>5. PICK f : f = list_del(l, e)
  OBVIOUS
<1>6. /\ Same(l, f) /\ Only(l, f, h) /\ Entries(f, h) = Tail(q)
      /\ ToSet(Entries(f, h)) = ToSet(q) \ {e} /\ Held(f) = Held(l) \ {e}
  <2>1. 1 \in DOMAIN Entries(l, h) /\ e = Entries(l, h)[1] /\ RemoveAt(Entries(l, h), 1) = Tail(q)
    BY <1>1, <1>4
  <2>2. /\ Same(l, list_del(l, e)) /\ Only(l, list_del(l, e), h)
        /\ Entries(list_del(l, e), h) = RemoveAt(Entries(l, h), 1)
        /\ ToSet(Entries(list_del(l, e), h)) = ToSet(Entries(l, h)) \ {e}
        /\ Held(list_del(l, e)) = Held(l) \ {e}
    BY <2>1, TakenFirst
  <2> QED BY <1>1, <1>5, <2>1, <2>2
<1>7. PICK k : k = INIT_LIST_HEAD(f, e)
  OBVIOUS
<1>8. removeProcQ(l, h) = k
  BY <1>2, <1>3, <1>5, <1>7 DEF removeProcQ
<1>9. e \in ToSet(q) /\ e \in Node /\ e \notin ListHead
  <2>1. e \in ToSet(q)
    BY <1>4 DEF ToSet
  <2> QED BY <1>2, <2>1, InUseFacts, EntryNodes
<1>10. /\ Sound(k, HeadsOf(l)) /\ HeldBy(k, HeadsOf(l)) = HeldBy(f, HeadsOf(l))
       /\ \A g \in HeadsOf(l) : Entries(k, g) = Entries(f, g)
  <2>1. Sound(f, HeadsOf(l)) /\ e \notin HeldBy(f, HeadsOf(l))
    BY <1>6 DEF Same, Intact, Held
  <2> QED BY <1>7, <1>9, <2>1, ClearedNode
<1>11. Same(l, k)
  <2>1. pcbFree_h \in HeadsOf(l)
    BY InUseFacts, Heads
  <2>2. Entries(k, pcbFree_h) = Entries(l, pcbFree_h)
    BY <1>6, <1>10, <2>1 DEF Only
  <2> QED BY <1>10, <2>2, SameUse
<1>12. Only(l, k, h) /\ Held(k) = Held(l) \ {e}
  BY <1>6, <1>10, <1>11 DEF Only, Held, Same
<1> QED BY <1>1, <1>2, <1>3, <1>6, <1>8, <1>9, <1>10, <1>11, <1>12

(* outProcQ() takes the entry, wherever it is.                             *)
LEMMA Searched ==
    ASSUME NEW l, Intact(l), NEW h \in HeadsOf(l), h # pcbFree_h, NEW e
    PROVE  /\ Same(l, outProcQ(l, h, e)) /\ Only(l, outProcQ(l, h, e), h)
           /\ ToSet(Entries(outProcQ(l, h, e), h)) = ToSet(Entries(l, h)) \ {e}
           /\ Held(outProcQ(l, h, e)) = Held(l) \ (ToSet(Entries(l, h)) \cap {e})
           /\ \/ outProcQ(l, h, e) = l
              \/ \E i \in DOMAIN Entries(l, h) :
                    Entries(outProcQ(l, h, e), h) = RemoveAt(Entries(l, h), i)
<1>1. CASE Meets(l, h, e)
  <2>1. PICK i \in DOMAIN Entries(l, h) : e = Entries(l, h)[i]
    BY <1>1 DEF Meets, ToSet
  <2>2. e \in ToSet(Entries(l, h))
    BY <1>1 DEF Meets
  <2>3. outProcQ(l, h, e) = list_del(l, e)
    BY <1>1 DEF outProcQ
  <2>4. PICK k : k = list_del(l, e)
    OBVIOUS
  <2>5. /\ Same(l, k) /\ Only(l, k, h) /\ Entries(k, h) = RemoveAt(Entries(l, h), i)
        /\ ToSet(Entries(k, h)) = ToSet(Entries(l, h)) \ {e} /\ Held(k) = Held(l) \ {e}
    BY <2>1, <2>4, TakenOut
  <2> QED BY <2>2, <2>3, <2>4, <2>5
<1>2. CASE ~ Meets(l, h, e)
  <2>1. outProcQ(l, h, e) = l /\ e \notin ToSet(Entries(l, h))
    BY <1>2 DEF outProcQ, Meets
  <2>2. Same(l, l) /\ Only(l, l, h)
    BY DEF Same, Only
  <2> QED BY <2>1, <2>2
<1> QED BY <1>1, <1>2
-----------------------------------------------------------------------------
(* pcb.c                                                                   *)

LEMMA InReady ==
    ASSUME NEW l, Intact(l), NEW p \in InUse(l), p_list(p) \notin Held(l)
    PROVE  /\ Same(l, MakeReady(l, p)) /\ Only(l, MakeReady(l, p), ready_queue)
           /\ Entries(MakeReady(l, p), ready_queue) = Append(Entries(l, ready_queue), p_list(p))
           /\ ToSet(Entries(MakeReady(l, p), ready_queue)) = ToSet(Entries(l, ready_queue)) \cup {p_list(p)}
           /\ Held(MakeReady(l, p)) = Held(l) \cup {p_list(p)}
<1>1. ready_queue \in HeadsOf(l) /\ ready_queue # pcbFree_h
  BY InUseFacts, Heads
<1>2. p_list(p) \in EntryOf(ready_queue)
  BY InUseFacts, EntriesOf DEF PList
<1>3. MakeReady(l, p) = list_add_tail(l, p_list(p), ready_queue)
  BY DEF MakeReady
<1>4. PICK e \in EntryOf(ready_queue) : e = p_list(p)
  BY <1>2
<1>5. PICK h \in HeadsOf(l) : h = ready_queue
  BY <1>1
<1>6. h # pcbFree_h /\ e \notin Held(l) /\ e \in EntryOf(h)
  BY <1>1, <1>4, <1>5
<1>7. /\ Same(l, list_add_tail(l, e, h)) /\ Only(l, list_add_tail(l, e, h), h)
      /\ Entries(list_add_tail(l, e, h), h) = Append(Entries(l, h), e)
      /\ ToSet(Entries(list_add_tail(l, e, h), h)) = ToSet(Entries(l, h)) \cup {e}
      /\ Held(list_add_tail(l, e, h)) = Held(l) \cup {e}
  BY <1>6, TailIn
<1> QED BY <1>3, <1>4, <1>5, <1>7

LEMMA OffReady ==
    ASSUME NEW l, Intact(l), Entries(l, ready_queue) # <<>>
    PROVE  /\ First(l) \in InUse(l) /\ p_list(First(l)) = Head(Entries(l, ready_queue))
           /\ p_list(First(l)) \in ToSet(Entries(l, ready_queue)) /\ p_list(First(l)) \in Held(l)
           /\ Same(l, WithoutFirst(l)) /\ Only(l, WithoutFirst(l), ready_queue)
           /\ Entries(WithoutFirst(l), ready_queue) = Tail(Entries(l, ready_queue))
           /\ ToSet(Entries(WithoutFirst(l), ready_queue)) =
                  ToSet(Entries(l, ready_queue)) \ {p_list(First(l))}
           /\ Held(WithoutFirst(l)) = Held(l) \ {p_list(First(l))}
<1>1. ready_queue \in HeadsOf(l) /\ pcbFree_h \in HeadsOf(l) /\ ready_queue # pcbFree_h
  BY InUseFacts, Heads
<1>2. ~ list_empty(l, ready_queue)
  BY <1>1, ListFacts
<1>3. PICK k : k = removeProcQ(l, ready_queue)
  OBVIOUS
<1>4. WithoutFirst(l) = k /\ First(l) = container_of(l[ready_queue].next)
  BY <1>2, <1>3 DEF WithoutFirst, First
<1>5. PICK e : e = l[ready_queue].next
  OBVIOUS
<1>6. /\ Same(l, k) /\ Only(l, k, ready_queue)
      /\ e = Head(Entries(l, ready_queue)) /\ Head(Entries(l, ready_queue)) \in ToSet(Entries(l, ready_queue))
      /\ Entries(k, ready_queue) = Tail(Entries(l, ready_queue))
      /\ ToSet(Entries(k, ready_queue)) = ToSet(Entries(l, ready_queue)) \ {e}
      /\ Held(k) = Held(l) \ {e}
  BY <1>1, <1>3, <1>5, FirstOut
<1>7. e \in PList /\ e \in Held(l) /\ e \notin ToSet(Entries(l, pcbFree_h))
  <2>1. ToSet(Entries(l, ready_queue)) \subseteq EntryOf(ready_queue)
    BY <1>1, ListFacts
  <2>2. ToSet(Entries(l, ready_queue)) \subseteq Held(l)
    BY <1>1, ListFacts
  <2>3. ToSet(Entries(l, pcbFree_h)) \cap ToSet(Entries(l, ready_queue)) = {}
    BY <1>1, ListFacts
  <2> QED BY <1>6, <2>1, <2>2, <2>3, EntriesOf
<1>8. PICK p \in Pcb : e = p_list(p)
  BY <1>7 DEF PList
<1>9. First(l) = p /\ p \in InUse(l)
  BY <1>4, <1>5, <1>7, <1>8, PcbNodes, InUseFacts
<1> QED BY <1>4, <1>6, <1>7, <1>8, <1>9

LEMMA NoneReady ==
    ASSUME NEW l, Intact(l), Entries(l, ready_queue) = <<>>
    PROVE  First(l) = NOBODY /\ WithoutFirst(l) = l
<1>1. ready_queue \in HeadsOf(l)
  BY InUseFacts, Heads
<1>2. list_empty(l, ready_queue)
  BY <1>1, ListFacts
<1> QED BY <1>2 DEF First, WithoutFirst

LEMMA Allocated ==
    ASSUME NEW l, Intact(l), ~ list_empty(l, pcbFree_h),
           NEW p, p = container_of(l[pcbFree_h].next),
           p_sib(p) \notin Held(l), p_io(p) \notin Held(l)
    PROVE  /\ p \in Pcb \ InUse(l) /\ p_list(p) = Head(Entries(l, pcbFree_h))
           /\ Intact(allocPcb(l)) /\ InUse(allocPcb(l)) = InUse(l) \cup {p}
           /\ HeadsOf(allocPcb(l)) = HeadsOf(l) \cup PcbHead(p)
           /\ Entries(allocPcb(l), pcbFree_h) = Tail(Entries(l, pcbFree_h))
           /\ Only(l, allocPcb(l), pcbFree_h)
           /\ \A h \in PcbHead(p) : Entries(allocPcb(l), h) = <<>>
           /\ Held(allocPcb(l)) = Held(l) \ {p_list(p)}
<1> DEFINE H == HeadsOf(l)
<1>1. PICK q : q = Entries(l, pcbFree_h)
  OBVIOUS
<1>2. PICK e : e = l[pcbFree_h].next
  OBVIOUS
<1>3. /\ pcbFree_h \in H /\ H \subseteq ListHead /\ l \in Memory
      /\ q \in Seq(Node) /\ q # <<>> /\ Once(q) /\ ToSet(q) \subseteq PList /\ e = Head(q)
  <2>1. pcbFree_h \in H /\ H \subseteq ListHead /\ l \in Memory
    BY InUseFacts, Heads
  <2>2. q \in Seq(Node) /\ q # <<>> /\ Once(q) /\ ToSet(q) \subseteq EntryOf(pcbFree_h) /\ e = Head(q)
    BY <1>1, <1>2, <2>1, ListFacts
  <2> QED BY <2>1, <2>2, EntriesOf
<1>4. 1 \in DOMAIN q /\ q[1] = e /\ RemoveAt(q, 1) = Tail(q) /\ e \in ToSet(q)
  <2>1. 1 \in DOMAIN q /\ q[1] = e /\ RemoveAt(q, 1) = Tail(q)
    BY <1>3, RemoveAtOne
  <2> QED BY <2>1 DEF ToSet
<1>5. p \in Pcb /\ e = p_list(p) /\ p \notin InUse(l)
  <2>1. PICK r \in Pcb : e = p_list(r)
    BY <1>3, <1>4 DEF PList
  <2>2. p = r
    BY <1>2, <2>1, PcbNodes
  <2> QED BY <1>1, <1>4, <2>1, <2>2, InUseFacts
<1>6. PICK f : f = list_del(l, e)
  OBVIOUS
<1>7. /\ Sound(f, H) /\ Entries(f, pcbFree_h) = Tail(q) /\ ToSet(Entries(f, pcbFree_h)) = ToSet(q) \ {e}
      /\ \A g \in H \ {pcbFree_h} : Entries(f, g) = Entries(l, g)
      /\ HeldBy(f, H) = HeldBy(l, H) \ {e}
  <2>1. PICK i \in DOMAIN Entries(l, pcbFree_h) : i = 1
    BY <1>1, <1>4
  <2>2. e = Entries(l, pcbFree_h)[i] /\ RemoveAt(Entries(l, pcbFree_h), i) = Tail(q)
    BY <1>1, <1>4, <2>1
  <2>3. Sound(l, H)
    BY DEF Intact
  <2> HIDE DEF H
  <2>4. /\ Sound(f, H) /\ Entries(f, pcbFree_h) = RemoveAt(Entries(l, pcbFree_h), i)
        /\ ToSet(RemoveAt(Entries(l, pcbFree_h), i)) = ToSet(Entries(l, pcbFree_h)) \ {e}
        /\ \A g \in H \ {pcbFree_h} : Entries(f, g) = Entries(l, g)
        /\ HeldBy(f, H) = HeldBy(l, H) \ {e}
    BY <1>3, <1>6, <2>1, <2>2, <2>3, SoundDelete
  <2> QED BY <1>1, <2>2, <2>4
<1>8. PICK k : k = Renewed(f, p)
  OBVIOUS
<1>9. allocPcb(l) = k
  BY <1>2, <1>6, <1>8 DEF allocPcb
<1> DEFINE X == {p_list(p), p_sib(p), p_io(p)} \cup PcbHead(p)
<1>10. f \in Memory /\ X \subseteq Node
  BY <1>5, <1>7, PcbNodes DEF Sound, PcbHead
<1>11. /\ k \in Memory
       /\ \A n \in X : k[n].next = n /\ k[n].prev = n
       /\ \A n \in Node \ X : k[n] = f[n]
  <2>1. k = [n \in Node |-> IF n \in X THEN [next |-> n, prev |-> n] ELSE f[n]]
    BY <1>8 DEF Renewed
  <2> HIDE DEF X
  <2> QED BY <1>10, <2>1 DEF Memory
<1>12. X \cap (H \cup HeldBy(f, H)) = {}
  <2>1. /\ p_list(p) \in PList /\ p_sib(p) \in Sib /\ p_io(p) \in Io
        /\ p_list(p) \notin ListHead /\ p_sib(p) \notin ListHead /\ p_io(p) \notin ListHead
    BY <1>5, Uses DEF PList, Sib, Io
  <2>2. \A h \in PcbHead(p) : h \notin H
    BY <1>5, InUseFacts, Heads
  <2>3. HeldBy(f, H) \cap ListHead = {}
    <3>1. \A h \in H : ToSet(Entries(f, h)) \cap ListHead = {}
      BY <1>3, <1>7, EntryNodes DEF Sound, Filled
    <3> QED BY <3>1 DEF HeldBy
  <2>4. PcbHead(p) \subseteq ListHead
    BY <1>5, Heads
  <2>5. p_sib(p) \notin HeldBy(l, H) /\ p_io(p) \notin HeldBy(l, H)
    BY DEF Held
  <2>6. p_list(p) \notin HeldBy(f, H) /\ p_sib(p) \notin HeldBy(f, H) /\ p_io(p) \notin HeldBy(f, H)
    BY <1>5, <1>7, <2>5
  <2> HIDE DEF H
  <2> QED BY <1>3, <2>1, <2>2, <2>3, <2>4, <2>6
<1>13. /\ Sound(k, H) /\ HeldBy(k, H) = HeldBy(f, H)
       /\ \A g \in H : Entries(k, g) = Entries(f, g)
  <2>1. H \cup HeldBy(f, H) \subseteq Node
    <3>1. \A h \in H : ToSet(Entries(f, h)) \subseteq Node /\ h \in Node
      BY <1>3, <1>7, EntryNodes DEF Sound, Filled
    <3> QED BY <3>1 DEF HeldBy
  <2> HIDE DEF H, X
  <2>2. \A x \in H \cup HeldBy(f, H) : Alike(k, f, x)
    BY <1>11, <1>12, <2>1 DEF Alike
  <2> QED BY <1>7, <1>11, <2>2, SoundElsewhere
<1>14. ASSUME NEW h \in PcbHead(p)  PROVE h \in ListHead /\ Entries(k, h) = <<>> /\ Filled(k, h)
  <2>1. h \in ListHead /\ h \in Node /\ h \in X
    BY <1>5, <1>10, Heads
  <2>2. Listed(h, <<>>) /\ Holds(k, h, <<>>)
    BY <1>11, <2>1, HoldsNothing
  <2>3. ToSet(<<>>) \subseteq EntryOf(h)
    BY DEF ToSet
  <2> QED BY <1>11, <2>1, <2>2, <2>3, FilledBy
<1>15. Sound(k, H \cup PcbHead(p)) /\ HeldBy(k, H \cup PcbHead(p)) = HeldBy(k, H)
  <2>1. ToSet(<<>>) = {}
    BY DEF ToSet
  <2>2. \A h \in PcbHead(p) : ToSet(Entries(k, h)) = {}
    BY <1>14, <2>1
  <2> HIDE DEF H, X
  <2>3. Sound(k, H \cup PcbHead(p))
    BY <1>13, <1>14, <2>2 DEF Sound
  <2>4. HeldBy(k, H \cup PcbHead(p)) = HeldBy(k, H)
    BY <2>2 DEF HeldBy
  <2> QED BY <2>3, <2>4
<1>16. InUse(k) = InUse(l) \cup {p}
  <2>1. ToSet(Entries(k, pcbFree_h)) = ToSet(q) \ {e}
    BY <1>3, <1>7, <1>13
  <2>2. \A r \in Pcb : container_of(p_list(r)) = r
    BY PcbNodes
  <2>3. \A n \in ToSet(q) : \E r \in Pcb : n = p_list(r)
    BY <1>3 DEF PList
  <2> QED BY <1>1, <1>4, <1>5, <2>1, <2>2, <2>3 DEF InUse
<1>17. HeadsOf(k) = H \cup PcbHead(p)
  BY <1>16 DEF HeadsOf
<1>18. Intact(k) /\ Held(k) = Held(l) \ {e}
  BY <1>7, <1>13, <1>15, <1>17 DEF Intact, Held
<1>19. Entries(k, pcbFree_h) = Tail(q) /\ Only(l, k, pcbFree_h)
  BY <1>3, <1>7, <1>13 DEF Only
<1> QED BY <1>1, <1>3, <1>5, <1>9, <1>14, <1>16, <1>17, <1>18, <1>19

LEMMA Freed ==
    ASSUME NEW l, Intact(l), NEW p \in InUse(l), p_list(p) \notin Held(l)
    PROVE  /\ Intact(freePcb(l, p)) /\ InUse(freePcb(l, p)) = InUse(l) \ {p}
           /\ HeadsOf(freePcb(l, p)) = HeadsOf(l) \ PcbHead(p)
           /\ Entries(freePcb(l, p), pcbFree_h) = InFront(p_list(p), Entries(l, pcbFree_h))
           /\ BesidesPcb(l, freePcb(l, p), p)
           /\ Held(freePcb(l, p)) \subseteq Held(l) \cup {p_list(p)}
<1> DEFINE H == HeadsOf(l) \ PcbHead(p)
<1>1. PICK k : k = freePcb(l, p)
  OBVIOUS
<1>2. p \in Pcb /\ pcbFree_h \in H
  <2>1. pcbFree_h \in HeadsOf(l) /\ p \in Pcb /\ pcbFree_h \in KernelHead
    BY InUseFacts, Heads
  <2> QED BY <2>1, Heads
<1>3. Sound(l, H) /\ HeldBy(l, H) \subseteq Held(l)
  BY DEF Intact, Sound, HeldBy, Held
<1>4. PICK e : e = p_list(p)
  OBVIOUS
<1>5. e \in EntryOf(pcbFree_h) /\ e \notin HeldBy(l, H)
  BY <1>2, <1>3, <1>4, EntriesOf DEF PList
<1>6. k = list_add(l, e, pcbFree_h)
  BY <1>1, <1>4 DEF freePcb
<1>7. /\ Sound(k, H) /\ Entries(k, pcbFree_h) = <<e>> \o Entries(l, pcbFree_h)
      /\ ToSet(Entries(k, pcbFree_h)) = ToSet(Entries(l, pcbFree_h)) \cup {e}
      /\ \A g \in H \ {pcbFree_h} : Entries(k, g) = Entries(l, g)
      /\ HeldBy(k, H) = HeldBy(l, H) \cup {e}
  <2> HIDE DEF H
  <2> QED BY <1>2, <1>3, <1>5, <1>6, SoundFront
<1>8. InUse(k) = InUse(l) \ {p}
  <2>1. container_of(e) = p
    BY <1>2, <1>4, PcbNodes
  <2> QED BY <1>7, <2>1 DEF InUse
<1>9. HeadsOf(k) = H
  <2>1. \A r \in InUse(l) \ {p} : PcbHead(r) \cap PcbHead(p) = {}
    BY <1>2, InUseFacts, Heads
  <2>2. KernelHead \cap PcbHead(p) = {}
    BY <1>2, Heads
  <2> QED BY <1>8, <2>1, <2>2 DEF HeadsOf
<1>10. Intact(k) /\ Held(k) \subseteq Held(l) \cup {e}
  BY <1>3, <1>7, <1>9 DEF Intact, Held
<1>11. BesidesPcb(l, k, p)
  BY <1>7 DEF BesidesPcb
<1> QED BY <1>1, <1>4, <1>7, <1>8, <1>9, <1>10, <1>11 DEF InFront
-----------------------------------------------------------------------------
(* msg.c                                                                   *)

LEMMA FrontIn ==
    ASSUME NEW l, Intact(l), NEW h \in HeadsOf(l), h # pcbFree_h, NEW e \in EntryOf(h), e \notin Held(l)
    PROVE  /\ Same(l, list_add(l, e, h)) /\ Only(l, list_add(l, e, h), h)
           /\ Entries(list_add(l, e, h), h) = InFront(e, Entries(l, h))
           /\ Held(list_add(l, e, h)) = Held(l) \cup {e}
<1>1. PICK k : k = list_add(l, e, h)
  OBVIOUS
<1>2. pcbFree_h \in HeadsOf(l)
  BY InUseFacts, Heads
<1>3. /\ Sound(k, HeadsOf(l)) /\ Entries(k, h) = <<e>> \o Entries(l, h)
      /\ \A g \in HeadsOf(l) \ {h} : Entries(k, g) = Entries(l, g)
      /\ HeldBy(k, HeadsOf(l)) = HeldBy(l, HeadsOf(l)) \cup {e}
  BY <1>1, SoundFront DEF Intact, Held
<1>4. Same(l, k)
  BY <1>2, <1>3, SameUse
<1> QED BY <1>1, <1>3, <1>4 DEF Held, Only, Same, InFront

LEMMA PostedMail ==
    ASSUME NEW l, Intact(l), ~ list_empty(l, msgFree_h), NEW to \in InUse(l),
           NEW k, k = insertMessage(allocMsg(l), to, message_of(l[msgFree_h].next))
    PROVE  /\ message_of(l[msgFree_h].next) \in Msg /\ l[msgFree_h].next = Head(Entries(l, msgFree_h))
           /\ Entries(l, msgFree_h) # <<>> /\ l[msgFree_h].next \in Mail
           /\ Same(l, k) /\ Besides(l, k, msgFree_h, msg_inbox(to)) /\ Held(k) = Held(l)
           /\ Entries(k, msgFree_h) = Tail(Entries(l, msgFree_h))
           /\ Entries(k, msg_inbox(to)) = Append(Entries(l, msg_inbox(to)), l[msgFree_h].next)
<1>1. /\ msgFree_h \in HeadsOf(l) /\ msgFree_h # pcbFree_h /\ msg_inbox(to) \in HeadsOf(l)
      /\ msg_inbox(to) # msgFree_h /\ msg_inbox(to) # pcbFree_h /\ to \in Pcb
  <2>1. to \in Pcb /\ msgFree_h \in HeadsOf(l) /\ msg_inbox(to) \in HeadsOf(l)
    BY InUseFacts, Heads
  <2>2. msg_inbox(to) \notin KernelHead /\ pcbFree_h \in KernelHead /\ msgFree_h \in KernelHead
    BY <2>1, Heads
  <2>3. msgFree_h # pcbFree_h
    BY Heads
  <2> QED BY <2>1, <2>2, <2>3
<1>2. Entries(l, msgFree_h) # <<>>
  BY <1>1, ListFacts
<1>3. PICK e : e = l[msgFree_h].next
  OBVIOUS
<1>4. PICK f : f = removeProcQ(l, msgFree_h)
  OBVIOUS
<1>5. /\ Same(l, f) /\ Only(l, f, msgFree_h)
      /\ e = Head(Entries(l, msgFree_h)) /\ Head(Entries(l, msgFree_h)) \in ToSet(Entries(l, msgFree_h))
      /\ Entries(f, msgFree_h) = Tail(Entries(l, msgFree_h)) /\ Held(f) = Held(l) \ {e}
  BY <1>1, <1>2, <1>3, <1>4, FirstOut
<1>6. e \in Mail /\ e \in Held(l)
  <2>1. ToSet(Entries(l, msgFree_h)) \subseteq EntryOf(msgFree_h) /\ ToSet(Entries(l, msgFree_h)) \subseteq Held(l)
    BY <1>1, ListFacts
  <2> QED BY <1>5, <2>1, EntriesOf
<1>7. message_of(e) \in Msg /\ m_list(message_of(e)) = e
  BY <1>6, MsgNodes DEF Mail
<1>8. k = list_add_tail(f, e, msg_inbox(to))
  BY <1>3, <1>4, <1>7 DEF insertMessage, allocMsg, removeProcQ
<1>9. Intact(f) /\ HeadsOf(f) = HeadsOf(l) /\ InUse(f) = InUse(l)
  BY <1>5 DEF Same
<1>10. Entries(f, msg_inbox(to)) = Entries(l, msg_inbox(to))
  BY <1>1, <1>5 DEF Only, Besides
<1>11. PICK h \in HeadsOf(f) : h = msg_inbox(to)
  BY <1>1, <1>9
<1>12. h # pcbFree_h /\ e \in EntryOf(h) /\ e \notin Held(f)
  BY <1>1, <1>5, <1>6, <1>11, EntriesOf
<1>13. /\ Same(f, k) /\ Only(f, k, h) /\ Entries(k, h) = Append(Entries(f, h), e)
       /\ Held(k) = Held(f) \cup {e}
  <2>1. /\ Same(f, list_add_tail(f, e, h)) /\ Only(f, list_add_tail(f, e, h), h)
        /\ Entries(list_add_tail(f, e, h), h) = Append(Entries(f, h), e)
        /\ ToSet(Entries(list_add_tail(f, e, h), h)) = ToSet(Entries(f, h)) \cup {e}
        /\ Held(list_add_tail(f, e, h)) = Held(f) \cup {e}
    <3>1. Intact(f) /\ h \in HeadsOf(f) /\ h # pcbFree_h /\ e \in EntryOf(h) /\ e \notin Held(f)
      BY <1>9, <1>11, <1>12
    <3> QED BY <3>1, TailIn
  <2> QED BY <1>8, <1>11, <2>1
<1>14. Same(l, k) /\ Held(k) = Held(l)
  BY <1>5, <1>6, <1>13 DEF Same
<1>15. Besides(l, k, msgFree_h, msg_inbox(to)) /\ Entries(k, msgFree_h) = Tail(Entries(l, msgFree_h))
  BY <1>1, <1>5, <1>9, <1>11, <1>13 DEF Only, Besides
<1> QED BY <1>2, <1>3, <1>5, <1>6, <1>7, <1>10, <1>11, <1>13, <1>14, <1>15

LEMMA TakenMail ==
    ASSUME NEW l, Intact(l), NEW p \in InUse(l), NEW h \in HeadsOf(l), h = msg_inbox(p),
           NEW i \in DOMAIN Entries(l, h), NEW e, e = Entries(l, h)[i],
           NEW k, k = freeMsg(list_del(l, e), message_of(e))
    PROVE  /\ message_of(e) \in Msg /\ e \in Mail /\ e \in ToSet(Entries(l, h))
           /\ Same(l, k) /\ Besides(l, k, msgFree_h, h) /\ Held(k) = Held(l)
           /\ Entries(k, msgFree_h) = InFront(e, Entries(l, msgFree_h))
           /\ Entries(k, h) = RemoveAt(Entries(l, h), i)
<1>1. /\ msgFree_h \in HeadsOf(l) /\ msgFree_h # pcbFree_h /\ msg_inbox(p) \in HeadsOf(l)
      /\ msg_inbox(p) # msgFree_h /\ msg_inbox(p) # pcbFree_h /\ p \in Pcb
  <2>1. p \in Pcb /\ msgFree_h \in HeadsOf(l) /\ msg_inbox(p) \in HeadsOf(l)
    BY InUseFacts, Heads
  <2>2. msg_inbox(p) \notin KernelHead /\ pcbFree_h \in KernelHead /\ msgFree_h \in KernelHead
    BY <2>1, Heads
  <2>3. msgFree_h # pcbFree_h
    BY Heads
  <2> QED BY <2>1, <2>2, <2>3
<1>2. h \in HeadsOf(l) /\ h = msg_inbox(p)
  OBVIOUS
<1>3. PICK f : f = list_del(l, e)
  OBVIOUS
<1>4. /\ Same(l, f) /\ Only(l, f, h) /\ Entries(f, h) = RemoveAt(Entries(l, h), i)
      /\ Held(f) = Held(l) \ {e}
  <2>1. h # pcbFree_h /\ i \in DOMAIN Entries(l, h) /\ e = Entries(l, h)[i]
    BY <1>1, <1>2
  <2> QED BY <1>3, <2>1, TakenOut
<1>5. e \in ToSet(Entries(l, h)) /\ e \in Mail /\ e \in Held(l)
  <2>1. e \in ToSet(Entries(l, h))
    BY <1>2 DEF ToSet
  <2>2. ToSet(Entries(l, h)) \subseteq EntryOf(h) /\ ToSet(Entries(l, h)) \subseteq Held(l)
    BY <1>2, ListFacts
  <2> QED BY <1>1, <1>2, <2>1, <2>2, EntriesOf
<1>6. message_of(e) \in Msg /\ m_list(message_of(e)) = e
  BY <1>5, MsgNodes DEF Mail
<1>7. k = list_add(f, e, msgFree_h)
  BY <1>3, <1>6 DEF freeMsg
<1>8. Intact(f) /\ HeadsOf(f) = HeadsOf(l) /\ InUse(f) = InUse(l)
  BY <1>4 DEF Same
<1>9. Entries(f, msgFree_h) = Entries(l, msgFree_h)
  BY <1>1, <1>2, <1>4 DEF Only, Besides
<1>10. PICK g \in HeadsOf(f) : g = msgFree_h
  BY <1>1, <1>8
<1>11. g # pcbFree_h /\ e \in EntryOf(g) /\ e \notin Held(f)
  BY <1>1, <1>4, <1>5, <1>10, EntriesOf
<1>12. /\ Same(f, k) /\ Only(f, k, g) /\ Entries(k, g) = InFront(e, Entries(f, g))
       /\ Held(k) = Held(f) \cup {e}
  <2>1. /\ Same(f, list_add(f, e, g)) /\ Only(f, list_add(f, e, g), g)
        /\ Entries(list_add(f, e, g), g) = InFront(e, Entries(f, g))
        /\ Held(list_add(f, e, g)) = Held(f) \cup {e}
    BY <1>8, <1>11, FrontIn
  <2> QED BY <1>7, <1>10, <2>1
<1>13. Same(l, k) /\ Held(k) = Held(l)
  BY <1>4, <1>5, <1>12 DEF Same
<1>14. Besides(l, k, msgFree_h, h) /\ Entries(k, h) = RemoveAt(Entries(l, h), i)
  BY <1>1, <1>2, <1>4, <1>8, <1>10, <1>12 DEF Only, Besides
<1> QED BY <1>2, <1>5, <1>6, <1>9, <1>10, <1>12, <1>13, <1>14
-----------------------------------------------------------------------------
(* The inductive invariant                                                 *)

(* No list but the free one holds a free PCB.  The SSI lives and has no    *)
(* parent.  Who runs is not ready.                                         *)
FreeAlone(l) == \A p \in Pcb \ InUse(l) : p_sib(p) \notin Held(l) /\ p_io(p) \notin Held(l)
SsiLives(l) == ssi_pcb_real \in InUse(l) /\ p_sib(ssi_pcb_real) \notin Held(l)
Runs(l, c) == c = NOBODY \/ (c \in InUse(l) /\ p_list(c) \notin Held(l))

(* Between two calls the SSI has PCBs in hand that lack an entry.          *)
Creating(l, c, s) ==
    /\ s.pc \in {"insertChild", "insertReady"} /\ s.asker \in Pcb
    /\ s.p \in InUse(l) /\ s.p # ssi_pcb_real /\ s.p # c /\ p_list(s.p) \notin Held(l)
    /\ s.pc = "insertChild" => s.asker \in InUse(l) /\ p_sib(s.p) \notin Held(l)
DoingIo(l, s) ==
    s.pc = "insertIo" /\ s.asker \in Device /\ s.p \in InUse(l) /\ p_io(s.p) \notin Held(l)
InService(l, c, s) == s = SsiIdle \/ Creating(l, c, s) \/ DoingIo(l, s)
ServedBy(s) == {s.p, IF s.pc = "insertIo" THEN NOBODY ELSE s.asker} \ {NOBODY}

(* Of the PCBs on the stack of terminate_process, those that have passed   *)
(* the stages Of.                                                          *)
Past(x, Of) == IF x.pc \in Of THEN ToSet(Tail(x.stack)) ELSE ToSet(x.stack)
PastChild(x) == Past(x, {"outChild"})
PastReady(x) == Past(x, {"outChild", "outReady"})
PastIO(x) == Past(x, {"outChild", "outReady", "outIO"})

Idle == {"idle", "scheduler"}
Stage == {"outChild", "outReady", "outIO", "children"}
Frame == [pc : Idle \cup Stage, stack : Seq(Pcb)]
FrameType(x) == x.pc \in IF x.stack = <<>> THEN Idle ELSE Stage
OutOf(l, x) ==
    /\ Once(x.stack) /\ ToSet(x.stack) \subseteq InUse(l) \ {ssi_pcb_real}
    /\ \A q \in PastChild(x) : p_sib(q) \notin Held(l)
    /\ \A q \in PastReady(x) : p_list(q) \notin Held(l)
    /\ \A q \in PastIO(x) : p_io(q) \notin Held(l)

(* Who is going to die: with the stack all children, nobody on the clock,  *)
(* and nobody of K.                                                        *)
Kids(l, q) == {container_of(n) : n \in ToSet(Entries(l, p_child(q)))}
Doomed(l, x, K) ==
    {D \in SUBSET Pcb :
        /\ ToSet(x.stack) \subseteq D /\ D \cap K = {}
        /\ \A q \in D : q \in InUse(l) => Kids(l, q) \subseteq D
        /\ \A q \in D : p_io(q) \notin ToSet(Entries(l, pcb_blocked_on_clock))}

(* A PCB is in the child list of its parent.                               *)
Tied(l, par, q) ==
    \/ par[q] = NOBODY /\ p_sib(q) \notin Held(l)
    \/ par[q] \in InUse(l) /\ p_sib(q) \in ToSet(Entries(l, p_child(par[q])))

Dies(l, s, f) ==
    /\ f \in [Actor -> Frame]
    /\ \A a \in Actor : FrameType(f[a]) /\ OutOf(l, f[a])
    /\ Doomed(l, f["ssi"], {}) # {}
    /\ Doomed(l, f["nucleus"], ServedBy(s) \cup ToSet(f["ssi"].stack)) # {}
    /\ f["ssi"].stack # <<>> => s = SsiIdle
AllTied(l, par, f) ==
    \A q \in InUse(l) : (\A a \in Actor : q \notin PastChild(f[a])) => Tied(l, par, q)

Good(l, par, c, s, f) ==
    /\ Intact(l) /\ par \in [Pcb -> Pcb \cup {NOBODY}] /\ c \in Pcb \cup {NOBODY}
    /\ FreeAlone(l) /\ SsiLives(l)
    /\ f["nucleus"] = NoFrame => Runs(l, c)
    /\ c \notin PastReady(f["ssi"])
    /\ InService(l, c, s)
    /\ Dies(l, s, f) /\ AllTied(l, par, f)

QueuesInvariant ==
    /\ Good(links, p_parent, current_process, ssi, frame)
    /\ m_sender \in [Msg -> Pcb \cup {NOBODY}]
-----------------------------------------------------------------------------
(* What the invariant does not depend on.                                  *)

LEMMA PastFacts ==
    ASSUME NEW x \in Frame, FrameType(x)
    PROVE  /\ PastChild(x) \subseteq ToSet(x.stack) /\ PastReady(x) \subseteq PastChild(x)
           /\ PastIO(x) \subseteq PastReady(x) /\ ToSet(x.stack) \subseteq Pcb
           /\ x.stack = <<>> => ToSet(x.stack) = {} /\ PastChild(x) = {}
<1>1. x.stack \in Seq(Pcb)
  BY DEF Frame
<1>2. ToSet(x.stack) \subseteq Pcb
  BY <1>1, LenProperties, ElementOfSeq DEF ToSet
<1>3. CASE x.stack = <<>>
  <2>1. ToSet(x.stack) = {} /\ x.pc \in Idle
    BY <1>3 DEF ToSet, FrameType
  <2> QED BY <1>2, <2>1 DEF Idle, Past, PastChild, PastReady, PastIO
<1>4. CASE x.stack # <<>>
  <2>1. ToSet(Tail(x.stack)) \subseteq ToSet(x.stack)
    <3>1. \A j \in DOMAIN Tail(x.stack) : Tail(x.stack)[j] = x.stack[j + 1] /\ j + 1 \in DOMAIN x.stack
      BY <1>1, <1>4, TailElements
    <3> QED BY <3>1 DEF ToSet
  <2> QED BY <1>2, <1>4, <2>1 DEF Past, PastChild, PastReady, PastIO
<1> QED BY <1>3, <1>4

LEMMA ServedFacts ==
    ASSUME NEW l, NEW c, NEW s, InService(l, c, s), Intact(l)
    PROVE  /\ ServedBy(s) \subseteq Pcb /\ ServedBy(SsiIdle) = {}
           /\ s # SsiIdle => s.p \in ServedBy(s)
           /\ s.pc \in {"insertChild", "insertReady"} => s.asker \in ServedBy(s)
<1>1. ServedBy(SsiIdle) = {}
  BY DEF ServedBy, SsiIdle
<1>2. CASE s = SsiIdle
  BY <1>1, <1>2 DEF SsiIdle
<1>3. CASE Creating(l, c, s)
  BY <1>1, <1>3, PcbNodes, InUseFacts DEF Creating, ServedBy
<1>4. CASE DoingIo(l, s)
  BY <1>1, <1>4, PcbNodes, InUseFacts DEF DoingIo, ServedBy
<1> QED BY <1>2, <1>3, <1>4 DEF InService

(* Nobody runs.                                                            *)
LEMMA GoodNobody ==
    ASSUME NEW l, NEW par, NEW c, NEW s, NEW f, Good(l, par, c, s, f)
    PROVE  Good(l, par, NOBODY, s, f)
<1>1. Runs(l, NOBODY)
  BY DEF Runs
<1>2. NOBODY \notin PastReady(f["ssi"])
  <2>1. PastReady(f["ssi"]) \subseteq Pcb
    BY PastFacts DEF Good, Dies, Actor
  <2> QED BY <2>1, PcbNodes
<1>3. InService(l, NOBODY, s)
  BY InUseFacts, PcbNodes DEF Good, InService, Creating
<1> QED BY <1>1, <1>2, <1>3 DEF Good

(* Nothing of p_sib is written, and nothing enters a list.                 *)
LEMMA GoodLess ==
    ASSUME NEW l, NEW par, NEW c, NEW s, NEW f, Good(l, par, c, s, f),
           NEW k, Same(l, k), Held(k) \subseteq Held(l),
           \A q \in InUse(l) : ToSet(Entries(k, p_child(q))) = ToSet(Entries(l, p_child(q))),
           ToSet(Entries(k, pcb_blocked_on_clock)) \subseteq ToSet(Entries(l, pcb_blocked_on_clock))
    PROVE  Good(k, par, c, s, f)
<1>1. Intact(k) /\ InUse(k) = InUse(l)
  BY DEF Same
<1>2. FreeAlone(k) /\ SsiLives(k)
  BY <1>1 DEF Good, FreeAlone, SsiLives
<1>3. f["nucleus"] = NoFrame => Runs(k, c)
  BY <1>1 DEF Good, Runs
<1>4. InService(k, c, s)
  BY <1>1 DEF Good, InService, Creating, DoingIo
<1>5. \A a \in Actor : FrameType(f[a]) /\ OutOf(k, f[a])
  BY <1>1 DEF Good, Dies, OutOf
<1>6. \A q \in InUse(l) : Kids(k, q) = Kids(l, q)
  BY DEF Kids
<1>7. \A x, K : Doomed(l, x, K) \subseteq Doomed(k, x, K)
  BY <1>1, <1>6 DEF Doomed
<1>8. Dies(k, s, f)
  BY <1>5, <1>7 DEF Good, Dies
<1>9. AllTied(k, par, f)
  BY <1>1 DEF Good, AllTied, Tied
<1> QED BY <1>1, <1>2, <1>3, <1>4, <1>8, <1>9 DEF Good

(* A process is made ready.                                                *)
LEMMA GoodReady ==
    ASSUME NEW l, NEW par, NEW c, NEW s, NEW f, Good(l, par, c, s, f),
           NEW p \in InUse(l), p_list(p) \notin Held(l), p # c,
           s.pc \in {"insertChild", "insertReady"} => p # s.p,
           \A a \in Actor : p \notin PastReady(f[a])
    PROVE  Good(MakeReady(l, p), par, c, s, f)
<1>1. PICK k : k = MakeReady(l, p)
  OBVIOUS
<1>2. /\ Same(l, k) /\ Only(l, k, ready_queue) /\ Held(k) = Held(l) \cup {p_list(p)}
      /\ Intact(l) /\ p \in Pcb
  BY <1>1, InReady, InUseFacts DEF Good
<1>3. Intact(k) /\ InUse(k) = InUse(l)
  BY <1>2 DEF Same
<1>4. \A q \in Pcb : /\ p_sib(q) # p_list(p) /\ p_io(q) # p_list(p)
                     /\ q # p => p_list(q) # p_list(p)
  BY <1>2, Uses, PcbNodes DEF PList, Sib, Io
<1>5. \A q \in InUse(l) : Entries(k, p_child(q)) = Entries(l, p_child(q))
  <2>1. \A q \in InUse(l) : p_child(q) \in HeadsOf(l) /\ p_child(q) # ready_queue
    BY <1>2, InUseFacts, Heads
  <2> QED BY <1>2, <2>1 DEF Only
<1>6. Entries(k, pcb_blocked_on_clock) = Entries(l, pcb_blocked_on_clock)
  <2>1. pcb_blocked_on_clock \in HeadsOf(l) /\ pcb_blocked_on_clock # ready_queue
    BY <1>2, InUseFacts, Heads
  <2> QED BY <1>2, <2>1 DEF Only
<1>7. InUse(l) \subseteq Pcb /\ ssi_pcb_real \in Pcb
  BY <1>2, InUseFacts DEF Good, SsiLives
<1>8. FreeAlone(k) /\ SsiLives(k)
  BY <1>2, <1>3, <1>4, <1>7 DEF Good, FreeAlone, SsiLives
<1>9. f["nucleus"] = NoFrame => Runs(k, c)
  BY <1>2, <1>3, <1>4, <1>7 DEF Good, Runs
<1>10. InService(k, c, s)
  BY <1>2, <1>3, <1>4, <1>7 DEF Good, InService, Creating, DoingIo
<1>11. \A a \in Actor : FrameType(f[a]) /\ OutOf(k, f[a])
  <2> SUFFICES ASSUME NEW a \in Actor  PROVE FrameType(f[a]) /\ OutOf(k, f[a])
    OBVIOUS
  <2>1. FrameType(f[a]) /\ OutOf(l, f[a]) /\ f[a] \in Frame
    BY DEF Good, Dies
  <2>2. /\ PastChild(f[a]) \subseteq Pcb /\ PastReady(f[a]) \subseteq Pcb /\ PastIO(f[a]) \subseteq Pcb
    BY <2>1, PastFacts
  <2> QED BY <1>2, <1>3, <1>4, <2>1, <2>2 DEF OutOf
<1>12. \A x, K : Doomed(l, x, K) \subseteq Doomed(k, x, K)
  BY <1>3, <1>5, <1>6 DEF Doomed, Kids
<1>13. Dies(k, s, f)
  BY <1>11, <1>12 DEF Good, Dies
<1>14. AllTied(k, par, f)
  BY <1>2, <1>3, <1>4, <1>5, <1>7 DEF Good, AllTied, Tied
<1> QED BY <1>1, <1>3, <1>8, <1>9, <1>10, <1>13, <1>14 DEF Good

(* The scheduler takes the first ready process.                            *)
LEMMA GoodSchedules ==
    ASSUME NEW l, NEW par, NEW c, NEW s, NEW f, Good(l, par, c, s, f)
    PROVE  Good(WithoutFirst(l), par, First(l), s, f) /\ Runs(WithoutFirst(l), First(l))
<1>0. Intact(l)
  BY DEF Good
<1>1. CASE Entries(l, ready_queue) = <<>>
  <2>1. First(l) = NOBODY /\ WithoutFirst(l) = l
    BY <1>0, <1>1, NoneReady
  <2>2. Good(l, par, NOBODY, s, f)
    BY GoodNobody
  <2> QED BY <2>1, <2>2 DEF Runs
<1>2. CASE Entries(l, ready_queue) # <<>>
  <2>1. PICK k, p : k = WithoutFirst(l) /\ p = First(l)
    OBVIOUS
  <2>2. /\ p \in InUse(l) /\ p_list(p) \in Held(l) /\ Same(l, k) /\ Only(l, k, ready_queue)
        /\ Held(k) = Held(l) \ {p_list(p)}
    BY <1>0, <1>2, <2>1, OffReady
  <2>3. Good(k, par, c, s, f)
    <3>1. \A q \in InUse(l) : p_child(q) \in HeadsOf(l) /\ p_child(q) # ready_queue
      BY <1>0, InUseFacts, Heads
    <3>2. pcb_blocked_on_clock \in HeadsOf(l) /\ pcb_blocked_on_clock # ready_queue
      BY <1>0, InUseFacts, Heads
    <3>3. /\ \A q \in InUse(l) : ToSet(Entries(k, p_child(q))) = ToSet(Entries(l, p_child(q)))
          /\ ToSet(Entries(k, pcb_blocked_on_clock)) \subseteq ToSet(Entries(l, pcb_blocked_on_clock))
      BY <2>2, <3>1, <3>2 DEF Only
    <3>4. Held(k) \subseteq Held(l)
      BY <2>2
    <3> QED BY <2>2, <3>3, <3>4, GoodLess
  <2>4. Runs(k, p) /\ p \in Pcb
    BY <1>0, <2>2, InUseFacts DEF Runs, Same
  <2>5. p \notin PastReady(f["ssi"])
    BY <2>2 DEF Good, Dies, OutOf, Actor
  <2>6. InService(k, p, s)
    <3>1. s.pc \in {"insertChild", "insertReady"} /\ InService(l, c, s) => p_list(s.p) \notin Held(l)
      BY DEF InService, Creating, DoingIo, SsiIdle
    <3>2. InService(l, c, s) /\ InService(k, c, s)
      BY <2>3 DEF Good
    <3> QED BY <2>2, <3>1, <3>2 DEF InService, Creating
  <2> QED BY <2>1, <2>3, <2>4, <2>5, <2>6 DEF Good
<1> QED BY <1>1, <1>2
-----------------------------------------------------------------------------
(* The names of Queues, and where an entry can be.                         *)

LEMMA SameNames ==
    /\ Live = InUse(links) /\ Walked = HeadsOf(links) /\ Served = ServedBy(ssi)
    /\ Dying = ToSet(frame["ssi"].stack) \cup ToSet(frame["nucleus"].stack)
    /\ \A p : Children(p) = Kids(links, p)
    /\ \A p : OnClock(p) <=> p_io(p) \in ToSet(Entries(links, pcb_blocked_on_clock))
    /\ \A p : Ready(p) <=> p_list(p) \in ToSet(Entries(links, ready_queue))
    /\ Intact(links) => \A p \in Pcb : isPcbValid(p) <=> p \in InUse(links)
<1>1. Live = InUse(links) /\ Served = ServedBy(ssi)
  BY DEF Live, InUse, Served, ServedBy
<1>2. Walked = HeadsOf(links)
  BY <1>1 DEF Walked, HeadsOf
<1>3. Dying = ToSet(frame["ssi"].stack) \cup ToSet(frame["nucleus"].stack)
  BY DEF Dying, Actor
<1>4. \A p : Children(p) = Kids(links, p)
  BY DEF Children, Kids
<1>5. /\ \A p : OnClock(p) <=> p_io(p) \in ToSet(Entries(links, pcb_blocked_on_clock))
      /\ \A p : Ready(p) <=> p_list(p) \in ToSet(Entries(links, ready_queue))
  BY DEF OnClock, Ready, Meets
<1>6. ASSUME Intact(links), NEW p \in Pcb  PROVE isPcbValid(p) <=> p \in InUse(links)
  BY <1>6, InUseFacts DEF isPcbValid, Meets
<1> QED BY <1>1, <1>2, <1>3, <1>4, <1>5, <1>6

LEMMA WhereHeld ==
    ASSUME NEW l, Intact(l), NEW p \in Pcb
    PROVE  /\ p_list(p) \in Held(l) => \/ p_list(p) \in ToSet(Entries(l, pcbFree_h))
                                       \/ p_list(p) \in ToSet(Entries(l, ready_queue))
           /\ p_io(p) \in Held(l) => \E h \in IoHead : p_io(p) \in ToSet(Entries(l, h))
           /\ p_sib(p) \in Held(l) => \E q \in InUse(l) : p_sib(p) \in ToSet(Entries(l, p_child(q)))
<1>1. p_list(p) \in PList /\ p_io(p) \in Io /\ p_sib(p) \in Sib
  BY DEF PList, Io, Sib
<1>2. ASSUME NEW e \in Held(l)
      PROVE  \/ e \in ToSet(Entries(l, pcbFree_h)) /\ e \in PList
             \/ e \in ToSet(Entries(l, ready_queue)) /\ e \in PList
             \/ e \in ToSet(Entries(l, msgFree_h)) /\ e \in Mail
             \/ \E h \in IoHead : e \in ToSet(Entries(l, h)) /\ e \in Io
             \/ \E q \in InUse(l) : e \in ToSet(Entries(l, p_child(q))) /\ e \in Sib
             \/ \E q \in InUse(l) : e \in ToSet(Entries(l, msg_inbox(q))) /\ e \in Mail
  <2>1. PICK h \in HeadsOf(l) : e \in ToSet(Entries(l, h))
    BY DEF Held, HeldBy
  <2>2. e \in EntryOf(h)
    BY <2>1, ListFacts
  <2>3. CASE h \in KernelHead
    <3>1. h \in {pcbFree_h, msgFree_h, ready_queue} \/ h \in IoHead
      BY <2>3 DEF KernelHead, IoHead
    <3> QED BY <2>1, <2>2, <3>1, EntriesOf
  <2>4. CASE \E q \in InUse(l) : h \in PcbHead(q)
    <3>1. PICK q \in InUse(l) : h \in PcbHead(q)
      BY <2>4
    <3>2. q \in Pcb /\ PcbHead(q) = {p_child(q), msg_inbox(q)}
      BY InUseFacts, Heads
    <3> QED BY <2>1, <2>2, <3>1, <3>2, EntriesOf
  <2> QED BY <2>3, <2>4 DEF HeadsOf
<1>3. p_list(p) \in Held(l) => \/ p_list(p) \in ToSet(Entries(l, pcbFree_h))
                               \/ p_list(p) \in ToSet(Entries(l, ready_queue))
  BY <1>1, <1>2, Uses
<1>4. p_io(p) \in Held(l) => \E h \in IoHead : p_io(p) \in ToSet(Entries(l, h))
  BY <1>1, <1>2, Uses
<1>5. p_sib(p) \in Held(l) => \E q \in InUse(l) : p_sib(p) \in ToSet(Entries(l, p_child(q)))
  BY <1>1, <1>2, Uses
<1> QED BY <1>3, <1>4, <1>5

LEMMA LiveHeads ==
    ASSUME NEW l, Intact(l)
    PROVE  /\ {pcbFree_h, msgFree_h, ready_queue, pcb_blocked_on_clock} \subseteq HeadsOf(l)
           /\ IoHead \subseteq HeadsOf(l)
           /\ \A q \in InUse(l) : /\ q \in Pcb /\ p_child(q) \in HeadsOf(l) /\ msg_inbox(q) \in HeadsOf(l)
                                  /\ p_child(q) \notin KernelHead /\ msg_inbox(q) \notin KernelHead
                                  /\ \A r \in InUse(l) : p_child(q) # msg_inbox(r)
                                  /\ \A r \in InUse(l) : p_child(q) = p_child(r) => q = r
BY InUseFacts, Heads

(* Messages move.                                                          *)
LEMMA GoodMail ==
    ASSUME NEW l, NEW par, NEW c, NEW s, NEW f, Good(l, par, c, s, f), NEW p \in InUse(l),
           NEW k, Same(l, k), Besides(l, k, msgFree_h, msg_inbox(p)), Held(k) = Held(l)
    PROVE  Good(k, par, c, s, f)
<1>1. Intact(l)
  BY DEF Good
<1>2. \A q \in InUse(l) : Entries(k, p_child(q)) = Entries(l, p_child(q))
  <2>1. msgFree_h \in KernelHead
    BY Heads
  <2> QED BY <1>1, <2>1, LiveHeads DEF Besides
<1>3. Entries(k, pcb_blocked_on_clock) = Entries(l, pcb_blocked_on_clock)
  <2>1. pcb_blocked_on_clock # msgFree_h /\ pcb_blocked_on_clock \in KernelHead
    BY Heads
  <2> QED BY <1>1, <2>1, LiveHeads DEF Besides
<1> QED BY <1>2, <1>3, GoodLess

(* send_message()                                                          *)
LEMMA GoodSend ==
    ASSUME QueuesInvariant, User, NEW to \in InUse(links),
           ssi.pc \in {"insertChild", "insertReady"} => to # ssi.p,
           \A a \in Actor : to \notin ToSet(frame[a].stack),
           NEW k \in Wakes(to) \cup Posted(to)
    PROVE  Good(k, p_parent, current_process, ssi, frame)
<1>0. Good(links, p_parent, current_process, ssi, frame) /\ Intact(links) /\ to \in Pcb
  BY InUseFacts DEF QueuesInvariant, Good
<1>1. CASE k \in Wakes(to)
  <2>1. to # current_process /\ ~ Ready(to) /\ k = MakeReady(links, to)
    BY <1>1 DEF Wakes
  <2>2. p_list(to) \notin Held(links)
    BY <1>0, <2>1, WhereHeld, InUseFacts, SameNames
  <2>3. \A a \in Actor : to \notin PastReady(frame[a])
    <3>1. \A a \in Actor : PastReady(frame[a]) \subseteq ToSet(frame[a].stack)
      BY <1>0, PastFacts DEF Good, Dies
    <3> QED BY <3>1
  <2> QED BY <1>0, <2>1, <2>2, <2>3, GoodReady
<1>2. CASE k \in Posted(to)
  <2>1. /\ ~ list_empty(links, msgFree_h)
        /\ k = insertMessage(allocMsg(links), to, message_of(links[msgFree_h].next))
    BY <1>2 DEF Posted
  <2>2. Same(links, k) /\ Besides(links, k, msgFree_h, msg_inbox(to)) /\ Held(k) = Held(links)
    BY <1>0, <2>1, PostedMail
  <2> QED BY <1>0, <2>2, GoodMail
<1> QED BY <1>1, <1>2

LEMMA SenderStored ==
    ASSUME QueuesInvariant, NEW to, NEW sender \in Pcb \cup {NOBODY}, NEW k, SendMessage(to, sender, k)
    PROVE  m_sender' \in [Msg -> Pcb \cup {NOBODY}] /\ k \in Wakes(to) \cup Posted(to)
BY DEF QueuesInvariant, SendMessage
-----------------------------------------------------------------------------
(* The nucleus                                                             *)

LEMMA PreemptKeeps ==
    ASSUME QueuesInvariant, Preempt
    PROVE  QueuesInvariant'
<1>1. PICK c, k : c = current_process /\ k = MakeReady(links, c)
  OBVIOUS
<1>2. /\ User /\ c # NOBODY /\ current_process' = First(k) /\ links' = WithoutFirst(k)
      /\ p_parent' = p_parent /\ m_sender' = m_sender /\ ssi' = ssi /\ frame' = frame
  BY <1>1 DEF Preempt, Schedules
<1>3. Good(links, p_parent, c, ssi, frame)
  BY <1>1 DEF QueuesInvariant
<1>4. c \in InUse(links) /\ p_list(c) \notin Held(links)
  BY <1>2, <1>3 DEF Good, Runs, User
<1>5. \A a \in Actor : c \notin PastReady(frame[a])
  <2>1. c \notin PastReady(frame["ssi"])
    BY <1>3 DEF Good
  <2>2. PastReady(frame["nucleus"]) = {}
    <3>1. frame["nucleus"] \in Frame /\ FrameType(frame["nucleus"]) /\ frame["nucleus"].stack = <<>>
      BY <1>2, <1>3 DEF Good, Dies, Actor, User, NoFrame
    <3> QED BY <3>1, PastFacts
  <2> QED BY <2>1, <2>2 DEF Actor
<1>6. ssi.pc \in {"insertChild", "insertReady"} => c # ssi.p
  BY <1>3 DEF Good, InService, Creating, DoingIo, SsiIdle
<1>7. Good(k, p_parent, NOBODY, ssi, frame)
  <2>1. Good(links, p_parent, NOBODY, ssi, frame)
    BY <1>3, GoodNobody
  <2> QED BY <1>1, <1>2, <1>4, <1>5, <1>6, <2>1, GoodReady
<1>8. Good(WithoutFirst(k), p_parent, First(k), ssi, frame)
  BY <1>7, GoodSchedules
<1> QED BY <1>2, <1>8 DEF QueuesInvariant

LEMMA SendsKeeps ==
    ASSUME QueuesInvariant, NEW to \in Pcb, Sends(to)
    PROVE  QueuesInvariant'
<1>1. /\ User /\ current_process \in Pcb /\ to \notin InHand /\ isPcbValid(to)
      /\ SendMessage(to, current_process, links')
      /\ UNCHANGED <<p_parent, current_process, ssi, frame>>
  BY DEF Sends, QueuesInvariant, Good
<1>2. PICK k : k = links'
  OBVIOUS
<1>3. m_sender' \in [Msg -> Pcb \cup {NOBODY}] /\ k \in Wakes(to) \cup Posted(to)
  BY <1>1, <1>2, SenderStored
<1>4. to \in InUse(links) /\ to \notin ServedBy(ssi) /\ \A a \in Actor : to \notin ToSet(frame[a].stack)
  BY <1>1, SameNames DEF InHand, Actor, QueuesInvariant, Good
<1>5. Good(k, p_parent, current_process, ssi, frame)
  <2>1. ssi # SsiIdle => ssi.p \in ServedBy(ssi)
    BY ServedFacts DEF QueuesInvariant, Good
  <2>2. ssi.pc \in {"insertChild", "insertReady"} => ssi # SsiIdle
    BY DEF SsiIdle
  <2> QED BY <1>1, <1>3, <1>4, <2>1, <2>2, GoodSend
<1> QED BY <1>1, <1>2, <1>3, <1>5 DEF QueuesInvariant

LEMMA InterruptSends ==
    ASSUME QueuesInvariant, Interrupt
    PROVE  \E k \in Wakes(ssi_pcb_real) \cup Posted(ssi_pcb_real) :
              /\ Good(k, p_parent, current_process, ssi, frame)
              /\ m_sender' \in [Msg -> Pcb \cup {NOBODY}]
              /\ IF current_process = NOBODY THEN Schedules(k)
                 ELSE links' = k /\ UNCHANGED current_process
<1>1. PICK k : /\ SendMessage(ssi_pcb_real, NOBODY, k)
               /\ IF current_process = NOBODY THEN Schedules(k)
                  ELSE links' = k /\ UNCHANGED current_process
  BY DEF Interrupt
<1>2. User
  BY DEF Interrupt
<1>3. m_sender' \in [Msg -> Pcb \cup {NOBODY}] /\ k \in Wakes(ssi_pcb_real) \cup Posted(ssi_pcb_real)
  BY <1>1, SenderStored
<1>4. /\ ssi_pcb_real \in InUse(links)
      /\ \A a \in Actor : ssi_pcb_real \notin ToSet(frame[a].stack)
  BY DEF QueuesInvariant, Good, Dies, OutOf, SsiLives
<1>5. ssi.pc \in {"insertChild", "insertReady"} => ssi_pcb_real # ssi.p
  BY DEF QueuesInvariant, Good, InService, Creating, DoingIo, SsiIdle
<1>6. Good(k, p_parent, current_process, ssi, frame)
  BY <1>2, <1>3, <1>4, <1>5, GoodSend
<1> QED BY <1>1, <1>3, <1>6

LEMMA InterruptKeeps ==
    ASSUME QueuesInvariant, Interrupt
    PROVE  QueuesInvariant'
<1>1. PICK k : /\ Good(k, p_parent, current_process, ssi, frame)
               /\ m_sender' \in [Msg -> Pcb \cup {NOBODY}]
               /\ IF current_process = NOBODY THEN Schedules(k)
                  ELSE links' = k /\ UNCHANGED current_process
  BY InterruptSends
<1>2. UNCHANGED <<p_parent, ssi, frame>>
  BY DEF Interrupt
<1>3. CASE current_process = NOBODY
  <2>1. links' = WithoutFirst(k) /\ current_process' = First(k)
    BY <1>1, <1>3 DEF Schedules
  <2>2. Good(WithoutFirst(k), p_parent, First(k), ssi, frame)
    BY <1>1, GoodSchedules
  <2> QED BY <1>1, <1>2, <2>1, <2>2 DEF QueuesInvariant
<1>4. CASE current_process # NOBODY
  BY <1>1, <1>2, <1>4 DEF QueuesInvariant
<1> QED BY <1>3, <1>4

LEMMA ReceivesKeeps ==
    ASSUME QueuesInvariant, NEW s, Receives(s)
    PROVE  QueuesInvariant'
<1>0. PICK c, found : c = current_process /\ found = From(c, s)
  OBVIOUS
<1>1. /\ User /\ c # NOBODY /\ UNCHANGED <<p_parent, ssi, frame>>
      /\ \/ \E i \in found :
               LET msg == Inbox(c)[i] IN
               /\ links' = freeMsg(list_del(links, msg), message_of(msg))
               /\ m_sender' = [m_sender EXCEPT ![message_of(msg)] = NOBODY]
               /\ UNCHANGED current_process
         \/ Schedules(links) /\ UNCHANGED m_sender
  BY <1>0 DEF Receives
<1>2. /\ Good(links, p_parent, c, ssi, frame) /\ Intact(links) /\ c \in InUse(links)
      /\ m_sender \in [Msg -> Pcb \cup {NOBODY}]
  BY <1>0, <1>1 DEF QueuesInvariant, Good, Runs, User
<1>3. CASE Schedules(links) /\ UNCHANGED m_sender
  <2>1. Good(WithoutFirst(links), p_parent, First(links), ssi, frame)
    BY <1>2, GoodSchedules
  <2> QED BY <1>1, <1>2, <1>3, <2>1 DEF QueuesInvariant, Schedules
<1>4. CASE \E i \in found :
               LET msg == Inbox(c)[i] IN
               /\ links' = freeMsg(list_del(links, msg), message_of(msg))
               /\ m_sender' = [m_sender EXCEPT ![message_of(msg)] = NOBODY]
               /\ UNCHANGED current_process
  <2>1. PICK i \in found :
            LET msg == Inbox(c)[i] IN
            /\ links' = freeMsg(list_del(links, msg), message_of(msg))
            /\ m_sender' = [m_sender EXCEPT ![message_of(msg)] = NOBODY]
            /\ UNCHANGED current_process
    BY <1>4
  <2>2. i \in DOMAIN Entries(links, msg_inbox(c)) /\ Inbox(c) = Entries(links, msg_inbox(c))
    BY <1>0 DEF From, Inbox
  <2>0. PICK h \in HeadsOf(links) : h = msg_inbox(c)
    BY <1>2, InUseFacts
  <2>8. PICK j \in DOMAIN Entries(links, h) : j = i
    BY <2>0, <2>2
  <2>9. PICK e : e = Entries(links, h)[j]
    OBVIOUS
  <2>3. PICK k : k = freeMsg(list_del(links, e), message_of(e))
    OBVIOUS
  <2>4. /\ links' = k /\ m_sender' = [m_sender EXCEPT ![message_of(e)] = NOBODY]
        /\ current_process' = current_process
    BY <2>0, <2>1, <2>2, <2>3, <2>8, <2>9
  <2>5. Same(links, k) /\ Besides(links, k, msgFree_h, msg_inbox(c)) /\ Held(k) = Held(links)
    <3>2. Same(links, k) /\ Besides(links, k, msgFree_h, h) /\ Held(k) = Held(links)
      BY <1>2, <2>0, <2>3, <2>9, TakenMail
    <3> QED BY <2>0, <3>2
  <2>6. Good(k, p_parent, c, ssi, frame)
    BY <1>2, <2>5, GoodMail
  <2>7. m_sender' \in [Msg -> Pcb \cup {NOBODY}]
    BY <1>2, <2>4
  <2> QED BY <1>0, <1>1, <2>4, <2>6, <2>7 DEF QueuesInvariant
<1> QED BY <1>1, <1>3, <1>4
-----------------------------------------------------------------------------
(* The SSI                                                                 *)

(* While no process dies, nobody is on a stack.                            *)
Quiet(f) == f \in [Actor -> Frame] /\ \A a \in Actor : f[a] = NoFrame

LEMMA QuietFacts ==
    ASSUME NEW f, Quiet(f)
    PROVE  /\ \A a \in Actor : /\ ToSet(f[a].stack) = {} /\ PastChild(f[a]) = {}
                               /\ PastReady(f[a]) = {} /\ PastIO(f[a]) = {}
           /\ \A l, K : Doomed(l, NoFrame, K) # {}
           /\ \A l, s : Dies(l, s, f)
<1>1. NoFrame.stack = <<>> /\ NoFrame.pc = "idle" /\ ToSet(<<>>) = {}
  BY DEF NoFrame, ToSet
<1>2. \A a \in Actor : /\ ToSet(f[a].stack) = {} /\ PastChild(f[a]) = {}
                       /\ PastReady(f[a]) = {} /\ PastIO(f[a]) = {}
  BY <1>1 DEF Quiet, Past, PastChild, PastReady, PastIO
<1>3. ASSUME NEW l, NEW K  PROVE {} \in Doomed(l, NoFrame, K)
  BY <1>1 DEF Doomed
<1>4. \A a \in Actor : FrameType(f[a])
  BY <1>1 DEF Quiet, FrameType, Idle
<1>5. ASSUME NEW l  PROVE \A a \in Actor : OutOf(l, f[a])
  <2>1. Once(<<>>)
    BY DEF Once
  <2>2. \A a \in Actor : f[a].stack = <<>>
    BY <1>1 DEF Quiet
  <2> QED BY <1>2, <2>1, <2>2 DEF OutOf
<1>6. ASSUME NEW l, NEW s  PROVE Dies(l, s, f)
  <2>1. f["ssi"] = NoFrame /\ f["nucleus"] = NoFrame /\ "ssi" \in Actor /\ "nucleus" \in Actor
    BY DEF Quiet, Actor
  <2>2. f["ssi"].stack = <<>>
    BY <1>1, <2>1
  <2>3. /\ Doomed(l, f["ssi"], {}) # {}
        /\ Doomed(l, f["nucleus"], ServedBy(s) \cup ToSet(f["ssi"].stack)) # {}
    BY <1>3, <2>1
  <2> QED BY <1>4, <1>5, <2>2, <2>3 DEF Quiet, Dies
<1> QED BY <1>2, <1>3, <1>6

(* Then it is enough that who runs is not ready, that the SSI has what it  *)
(* needs, and that everybody is with the parent.                           *)
LEMMA GoodQuiet ==
    ASSUME NEW l, NEW par, NEW c, NEW s, NEW f, Quiet(f),
           Intact(l), par \in [Pcb -> Pcb \cup {NOBODY}], c \in Pcb \cup {NOBODY},
           FreeAlone(l), SsiLives(l), Runs(l, c), InService(l, c, s),
           \A q \in InUse(l) : Tied(l, par, q)
    PROVE  Good(l, par, c, s, f)
<1>1. \A a \in Actor : PastReady(f[a]) = {}
  BY QuietFacts
<1>2. Dies(l, s, f) /\ "ssi" \in Actor
  BY QuietFacts DEF Actor
<1> QED BY <1>1, <1>2 DEF Good, AllTied

LEMMA QuietGood ==
    ASSUME NEW l, NEW par, NEW c, NEW s, NEW f, Good(l, par, c, s, f), Quiet(f)
    PROVE  /\ Intact(l) /\ par \in [Pcb -> Pcb \cup {NOBODY}] /\ c \in Pcb \cup {NOBODY}
           /\ FreeAlone(l) /\ SsiLives(l) /\ Runs(l, c) /\ InService(l, c, s)
           /\ \A q \in InUse(l) : Tied(l, par, q)
<1>1. \A a \in Actor : PastChild(f[a]) = {}
  BY QuietFacts
<1>2. f["nucleus"] = NoFrame
  BY DEF Quiet, Actor
<1> QED BY <1>1, <1>2 DEF Good, AllTied

(* What the SSI finds.                                                     *)
LEMMA AtSsi ==
    ASSUME QueuesInvariant, NEW pc, SsiAt(pc)
    PROVE  /\ Good(links, p_parent, ssi_pcb_real, ssi, frame) /\ Quiet(frame)
           /\ current_process = ssi_pcb_real /\ ssi_pcb_real \in InUse(links) /\ User
           /\ m_sender \in [Msg -> Pcb \cup {NOBODY}]
           /\ pc = "idle" => ssi = SsiIdle
           /\ pc \in {"insertChild", "insertReady"} => Creating(links, ssi_pcb_real, ssi)
           /\ pc = "insertIo" => DoingIo(links, ssi)
<1>1. User /\ current_process = ssi_pcb_real /\ frame["ssi"] = NoFrame /\ ssi.pc = pc
  BY DEF SsiAt, SsiRuns
<1>2. /\ Good(links, p_parent, ssi_pcb_real, ssi, frame)
      /\ m_sender \in [Msg -> Pcb \cup {NOBODY}]
  BY <1>1 DEF QueuesInvariant
<1>3. Quiet(frame)
  BY <1>1, <1>2 DEF Good, Dies, Quiet, User, Actor
<1>4. InService(links, ssi_pcb_real, ssi) /\ ssi_pcb_real \in InUse(links)
  BY <1>2 DEF Good, SsiLives
<1>5. /\ ssi = SsiIdle => pc = "idle"
      /\ Creating(links, ssi_pcb_real, ssi) => pc \in {"insertChild", "insertReady"}
      /\ DoingIo(links, ssi) => pc = "insertIo"
  BY <1>1 DEF SsiIdle, Creating, DoingIo
<1> QED BY <1>1, <1>2, <1>3, <1>4, <1>5 DEF InService

LEMMA QuietIdle ==
    ASSUME NEW l, NEW par, NEW c, NEW s, NEW f, Good(l, par, c, s, f), Quiet(f)
    PROVE  Good(l, par, c, SsiIdle, f)
<1>1. InService(l, c, SsiIdle)
  BY DEF InService
<1> QED BY <1>1, QuietGood, GoodQuiet


(* create_process()                                                        *)
LEMMA CreateAllocatesKeeps ==
    ASSUME QueuesInvariant, NEW asker \in Pcb, CreateAllocates(asker)
    PROVE  QueuesInvariant'
<1>1. PICK l, p, k : l = links /\ p = container_of(l[pcbFree_h].next) /\ k = allocPcb(l)
  OBVIOUS
<1>2. PICK c, f, par : c = ssi_pcb_real /\ f = frame /\ par = p_parent
  OBVIOUS
<1>3. PICK s, new : s = [pc |-> "insertChild", p |-> p, asker |-> asker]
                    /\ new = [par EXCEPT ![p] = NOBODY]
  OBVIOUS
<1>4. /\ SsiAt("idle") /\ asker # c /\ isPcbValid(asker) /\ ~ list_empty(l, pcbFree_h)
      /\ links' = k /\ ssi' = s /\ p_parent' = new
      /\ current_process' = current_process /\ frame' = f /\ m_sender' = m_sender
  BY <1>1, <1>2, <1>3 DEF CreateAllocates, SsiGoes
<1>5. /\ Good(l, par, c, ssi, f) /\ Quiet(f) /\ current_process = c /\ c \in InUse(l)
      /\ m_sender \in [Msg -> Pcb \cup {NOBODY}]
  BY <1>1, <1>2, <1>4, AtSsi
<1>6. /\ Intact(l) /\ par \in [Pcb -> Pcb \cup {NOBODY}] /\ c \in Pcb \cup {NOBODY}
      /\ FreeAlone(l) /\ SsiLives(l) /\ Runs(l, c) /\ \A q \in InUse(l) : Tied(l, par, q)
  BY <1>5, QuietGood
<1>7. p \in Pcb \ InUse(l)
  <2>1. pcbFree_h \in HeadsOf(l)
    BY <1>6, LiveHeads
  <2>2. Entries(l, pcbFree_h) # <<>> /\ l[pcbFree_h].next = Head(Entries(l, pcbFree_h))
        /\ ToSet(Entries(l, pcbFree_h)) \subseteq PList /\ Entries(l, pcbFree_h) \in Seq(Node)
        /\ Once(Entries(l, pcbFree_h))
    BY <1>4, <1>6, <2>1, ListFacts, EntriesOf
  <2>3. l[pcbFree_h].next \in ToSet(Entries(l, pcbFree_h))
    BY <2>2, TailRange
  <2>4. PICK q \in Pcb : p_list(q) = l[pcbFree_h].next
    BY <2>2, <2>3 DEF PList
  <2>5. p = q
    BY <1>1, <2>4, PcbNodes
  <2> QED BY <2>3, <2>4, <2>5, <1>6, InUseFacts
<1>8. p_sib(p) \notin Held(l) /\ p_io(p) \notin Held(l)
  BY <1>6, <1>7 DEF FreeAlone
<1>9. /\ Intact(k) /\ InUse(k) = InUse(l) \cup {p} /\ Only(l, k, pcbFree_h)
      /\ Held(k) = Held(l) \ {p_list(p)}
  BY <1>1, <1>4, <1>6, <1>8, Allocated
<1>10. new \in [Pcb -> Pcb \cup {NOBODY}] /\ new[p] = NOBODY /\ \A q \in Pcb \ {p} : new[q] = par[q]
  BY <1>3, <1>6, <1>7
<1>11. FreeAlone(k) /\ SsiLives(k) /\ Runs(k, c)
  BY <1>6, <1>9 DEF FreeAlone, SsiLives, Runs
<1>12. InService(k, c, s)
  <2>1. asker \in InUse(l)
    BY <1>1, <1>4, <1>6, SameNames
  <2>2. p # c /\ c = ssi_pcb_real
    BY <1>2, <1>5, <1>7
  <2>3. /\ s.pc = "insertChild" /\ s.p = p /\ s.asker = asker
    BY <1>3
  <2>4. Creating(k, c, s)
    BY <1>8, <1>9, <2>1, <2>2, <2>3 DEF Creating
  <2> QED BY <2>4 DEF InService
<1>13. \A q \in InUse(k) : Tied(k, new, q)
  <2> SUFFICES ASSUME NEW q \in InUse(k)  PROVE Tied(k, new, q)
    OBVIOUS
  <2>1. CASE q = p
    BY <1>8, <1>9, <1>10, <2>1 DEF Tied
  <2>2. CASE q # p
    <3>1. q \in InUse(l) /\ q \in Pcb /\ Tied(l, par, q) /\ new[q] = par[q]
      BY <1>6, <1>9, <1>10, <2>2, InUseFacts
    <3>2. \A r \in InUse(l) : Entries(k, p_child(r)) = Entries(l, p_child(r))
      <4>1. \A r \in InUse(l) : p_child(r) \in HeadsOf(l) /\ p_child(r) # pcbFree_h
        BY <1>6, LiveHeads, Heads
      <4> QED BY <1>9, <4>1 DEF Only
    <3> QED BY <1>9, <3>1, <3>2 DEF Tied
  <2> QED BY <2>1, <2>2
<1>14. Good(k, new, c, s, f)
  BY <1>5, <1>6, <1>9, <1>10, <1>11, <1>12, <1>13, GoodQuiet
<1> QED BY <1>4, <1>5, <1>14 DEF QueuesInvariant

LEMMA CreateInsertsChildKeeps ==
    ASSUME QueuesInvariant, CreateInsertsChild
    PROVE  QueuesInvariant'
<1>1. PICK l, p, asker, par, c, f :
         l = links /\ p = ssi.p /\ asker = ssi.asker /\ par = p_parent
         /\ c = ssi_pcb_real /\ f = frame
  OBVIOUS
<1>2. PICK e, h, k : e = p_sib(p) /\ h = p_child(asker) /\ k = list_add_tail(l, e, h)
  OBVIOUS
<1>3. PICK s, new : s = [pc |-> "insertReady", p |-> p, asker |-> asker]
                    /\ new = [par EXCEPT ![p] = asker]
  OBVIOUS
<1>4. /\ SsiAt("insertChild") /\ links' = k /\ ssi' = s /\ p_parent' = new
      /\ current_process' = current_process /\ frame' = f /\ m_sender' = m_sender
  BY <1>1, <1>2, <1>3 DEF CreateInsertsChild, SsiGoes
<1>5. /\ Good(l, par, c, ssi, f) /\ Quiet(f) /\ current_process = c
      /\ m_sender \in [Msg -> Pcb \cup {NOBODY}] /\ Creating(l, c, ssi)
  BY <1>1, <1>4, AtSsi
<1>6. /\ Intact(l) /\ par \in [Pcb -> Pcb \cup {NOBODY}] /\ c \in Pcb \cup {NOBODY}
      /\ FreeAlone(l) /\ SsiLives(l) /\ Runs(l, c) /\ \A q \in InUse(l) : Tied(l, par, q)
  BY <1>5, QuietGood
<1>7. /\ p \in InUse(l) /\ asker \in InUse(l) /\ p \in Pcb /\ asker \in Pcb /\ p # ssi_pcb_real /\ p # c
      /\ p_list(p) \notin Held(l) /\ e \notin Held(l)
  BY <1>1, <1>2, <1>4, <1>5, <1>6, InUseFacts DEF Creating, SsiAt
<1>8. h \in HeadsOf(l) /\ h # pcbFree_h /\ e \in EntryOf(h)
  <2>1. h \in HeadsOf(l) /\ h \notin KernelHead
    BY <1>2, <1>6, <1>7, LiveHeads
  <2>2. pcbFree_h \in KernelHead
    BY Heads
  <2>3. e \in EntryOf(h)
    BY <1>2, <1>7, EntriesOf DEF Sib
  <2> QED BY <2>1, <2>2, <2>3
<1>9. /\ Same(l, k) /\ Only(l, k, h) /\ ToSet(Entries(k, h)) = ToSet(Entries(l, h)) \cup {e}
      /\ Held(k) = Held(l) \cup {e}
  <2>1. Intact(l) /\ h \in HeadsOf(l) /\ h # pcbFree_h /\ e \in EntryOf(h) /\ e \notin Held(l)
    BY <1>6, <1>7, <1>8
  <2> QED BY <1>2, <2>1, TailIn
<1>10. Intact(k) /\ InUse(k) = InUse(l)
  BY <1>9 DEF Same
<1>11. new \in [Pcb -> Pcb \cup {NOBODY}] /\ new[p] = asker /\ \A q \in Pcb \ {p} : new[q] = par[q]
  BY <1>3, <1>6, <1>7
<1>12. \A q \in Pcb : p_list(q) # e /\ p_io(q) # e /\ (q # p => p_sib(q) # e)
  BY <1>2, <1>7, Uses, PcbNodes DEF PList, Sib, Io
<1>13. FreeAlone(k) /\ SsiLives(k) /\ Runs(k, c)
  <2>1. ssi_pcb_real \in Pcb /\ c \in Pcb
    BY <1>1, <1>6, InUseFacts DEF SsiLives
  <2> QED BY <1>6, <1>7, <1>9, <1>10, <1>12, <2>1 DEF FreeAlone, SsiLives, Runs
<1>14. InService(k, c, s)
  <2>1. s.pc = "insertReady" /\ s.p = p /\ s.asker = asker
    BY <1>3
  <2>2. Creating(k, c, s)
    BY <1>7, <1>9, <1>10, <1>12, <2>1 DEF Creating
  <2> QED BY <2>2 DEF InService
<1>15. \A q \in InUse(k) : Tied(k, new, q)
  <2> SUFFICES ASSUME NEW q \in InUse(k)  PROVE Tied(k, new, q)
    OBVIOUS
  <2>1. CASE q = p
    BY <1>2, <1>7, <1>9, <1>10, <1>11, <2>1 DEF Tied
  <2>2. CASE q # p
    <3>1. q \in InUse(l) /\ q \in Pcb /\ Tied(l, par, q) /\ new[q] = par[q] /\ p_sib(q) # e
      BY <1>6, <1>10, <1>11, <1>12, <2>2, InUseFacts
    <3>2. \A r \in InUse(l) : ToSet(Entries(l, p_child(r))) \subseteq ToSet(Entries(k, p_child(r)))
      <4>1. \A r \in InUse(l) : p_child(r) \in HeadsOf(l)
        BY <1>6, LiveHeads
      <4> QED BY <1>9, <4>1 DEF Only
    <3> QED BY <1>9, <1>10, <3>1, <3>2 DEF Tied
  <2> QED BY <2>1, <2>2
<1>16. Good(k, new, c, s, f)
  BY <1>5, <1>6, <1>10, <1>11, <1>13, <1>14, <1>15, GoodQuiet
<1> QED BY <1>4, <1>5, <1>16 DEF QueuesInvariant

LEMMA CreateInsertsReadyKeeps ==
    ASSUME QueuesInvariant, CreateInsertsReady
    PROVE  QueuesInvariant'
<1>1. PICK l, p, par, c, f : l = links /\ p = ssi.p /\ par = p_parent /\ c = ssi_pcb_real /\ f = frame
  OBVIOUS
<1>2. /\ SsiAt("insertReady") /\ links' = MakeReady(l, p) /\ ssi' = SsiIdle /\ p_parent' = par
      /\ current_process' = current_process /\ frame' = f /\ m_sender' = m_sender
  BY <1>1 DEF CreateInsertsReady
<1>3. /\ Good(l, par, c, ssi, f) /\ Quiet(f) /\ current_process = c
      /\ m_sender \in [Msg -> Pcb \cup {NOBODY}] /\ Creating(l, c, ssi)
  BY <1>1, <1>2, AtSsi
<1>4. Good(l, par, c, SsiIdle, f)
  BY <1>3, QuietIdle
<1>5. p \in InUse(l) /\ p_list(p) \notin Held(l) /\ p # c /\ \A a \in Actor : p \notin PastReady(f[a])
  BY <1>1, <1>3, QuietFacts DEF Creating
<1>6. ~ SsiIdle.pc \in {"insertChild", "insertReady"}
  BY DEF SsiIdle
<1>7. Good(MakeReady(l, p), par, c, SsiIdle, f)
  BY <1>4, <1>5, <1>6, GoodReady
<1> QED BY <1>2, <1>3, <1>7 DEF QueuesInvariant

(* do_io(), wait_for_clock()                                               *)
LEMMA DoIoRemovesKeeps ==
    ASSUME QueuesInvariant, NEW p \in Pcb, NEW d \in Device, DoIoRemoves(p, d)
    PROVE  QueuesInvariant'
<1>1. PICK l, par, c, f, h, e :
         /\ l = links /\ par = p_parent /\ c = ssi_pcb_real /\ f = frame
         /\ h = pcb_blocked_on_device(d) /\ e = p_io(p)
  OBVIOUS
<1>2. PICK k, s : k = outProcQ(l, h, e) /\ s = [pc |-> "insertIo", p |-> p, asker |-> d]
  OBVIOUS
<1>3. /\ SsiAt("idle") /\ MayQueue(p, h) /\ links' = k /\ ssi' = s /\ p_parent' = par
      /\ current_process' = current_process /\ frame' = f /\ m_sender' = m_sender
  BY <1>1, <1>2 DEF DoIoRemoves
<1>4. /\ Good(l, par, c, ssi, f) /\ Quiet(f) /\ current_process = c
      /\ m_sender \in [Msg -> Pcb \cup {NOBODY}]
  BY <1>1, <1>3, AtSsi
<1>5. Intact(l)
  BY <1>4, QuietGood
<1>6. p \in InUse(l) /\ \A g \in IoHead : e \in ToSet(Entries(l, g)) => g = h
  BY <1>1, <1>3, <1>5, SameNames DEF MayQueue, Meets
<1>7. h \in HeadsOf(l) /\ h # pcbFree_h /\ h \in IoHead
  BY <1>1, <1>5, Heads, LiveHeads
<1>8. /\ Same(l, k) /\ Only(l, k, h) /\ ToSet(Entries(k, h)) = ToSet(Entries(l, h)) \ {e}
      /\ Held(k) \subseteq Held(l)
  <2>1. Intact(l) /\ h \in HeadsOf(l) /\ h # pcbFree_h
    BY <1>5, <1>7
  <2> QED BY <1>2, <2>1, Searched
<1>9. Good(k, par, c, ssi, f)
  <2>1. \A q \in InUse(l) : Entries(k, p_child(q)) = Entries(l, p_child(q))
    <3>1. \A q \in InUse(l) : p_child(q) \in HeadsOf(l) /\ p_child(q) # h
      BY <1>5, <1>7, Heads, LiveHeads
    <3> QED BY <1>8, <3>1 DEF Only
  <2>2. Entries(k, pcb_blocked_on_clock) = Entries(l, pcb_blocked_on_clock)
    <3>1. pcb_blocked_on_clock \in HeadsOf(l) /\ pcb_blocked_on_clock # h
      BY <1>1, <1>5, Heads, LiveHeads
    <3> QED BY <1>8, <3>1 DEF Only
  <2> QED BY <1>4, <1>8, <2>1, <2>2, GoodLess
<1>10. e \notin Held(k)
  <2>1. Intact(k) /\ p \in Pcb
    BY <1>8 DEF Same
  <2>2. e \in Held(k) => \E g \in IoHead : e \in ToSet(Entries(k, g))
    BY <1>1, <2>1, WhereHeld
  <2>3. e \notin ToSet(Entries(k, h))
    BY <1>8
  <2>4. \A g \in IoHead : g # h => Entries(k, g) = Entries(l, g)
    <3>1. IoHead \subseteq HeadsOf(l)
      BY <1>5, LiveHeads
    <3> QED BY <1>8, <3>1 DEF Only
  <2> QED BY <1>6, <2>2, <2>3, <2>4
<1>11. InService(k, c, s)
  <2>1. s.pc = "insertIo" /\ s.p = p /\ s.asker = d
    BY <1>2
  <2>2. p \in InUse(k)
    BY <1>6, <1>8 DEF Same
  <2> QED BY <1>1, <1>10, <2>1, <2>2 DEF InService, DoingIo
<1>12. Good(k, par, c, s, f)
  BY <1>4, <1>9, <1>11, QuietGood, GoodQuiet
<1> QED BY <1>3, <1>4, <1>12 DEF QueuesInvariant

(* A PCB enters the queue of a device or of the clock.                     *)
LEMMA IoIn ==
    ASSUME NEW l, NEW par, NEW c, NEW s, NEW f, Good(l, par, c, s, f), Quiet(f),
           NEW h \in IoHead, NEW p \in InUse(l), p_io(p) \notin Held(l)
    PROVE  Good(list_add_tail(l, p_io(p), h), par, c, SsiIdle, f)
<1>1. PICK e, k : e = p_io(p) /\ k = list_add_tail(l, e, h)
  OBVIOUS
<1>2. /\ Intact(l) /\ par \in [Pcb -> Pcb \cup {NOBODY}] /\ c \in Pcb \cup {NOBODY}
      /\ FreeAlone(l) /\ SsiLives(l) /\ Runs(l, c) /\ \A q \in InUse(l) : Tied(l, par, q)
  BY QuietGood
<1>3. h \in HeadsOf(l) /\ h # pcbFree_h /\ e \in EntryOf(h) /\ e \notin Held(l) /\ p \in Pcb
  BY <1>1, <1>2, Heads, LiveHeads, EntriesOf DEF Io
<1>4. Same(l, k) /\ Only(l, k, h) /\ Held(k) = Held(l) \cup {e}
  BY <1>1, <1>2, <1>3, TailIn
<1>5. Intact(k) /\ InUse(k) = InUse(l)
  BY <1>4 DEF Same
<1>6. \A q \in Pcb : p_list(q) # e /\ p_sib(q) # e /\ (q # p => p_io(q) # e)
  BY <1>1, <1>3, Uses, PcbNodes DEF PList, Sib, Io
<1>7. FreeAlone(k) /\ SsiLives(k) /\ Runs(k, c)
  <2>1. InUse(l) \subseteq Pcb
    BY <1>2, InUseFacts
  <2> QED BY <1>2, <1>4, <1>5, <1>6, <2>1 DEF FreeAlone, SsiLives, Runs
<1>8. \A q \in InUse(k) : Tied(k, par, q)
  <2>1. \A q \in InUse(l) : Entries(k, p_child(q)) = Entries(l, p_child(q))
    <3>1. \A q \in InUse(l) : p_child(q) \in HeadsOf(l) /\ p_child(q) # h
      BY <1>2, Heads, LiveHeads
    <3> QED BY <1>4, <3>1 DEF Only
  <2>2. InUse(l) \subseteq Pcb
    BY <1>2, InUseFacts
  <2> QED BY <1>2, <1>4, <1>5, <1>6, <2>1, <2>2 DEF Tied
<1>9. InService(k, c, SsiIdle)
  BY DEF InService
<1>10. Good(k, par, c, SsiIdle, f)
  BY <1>2, <1>5, <1>7, <1>8, <1>9, GoodQuiet
<1> QED BY <1>1, <1>10

LEMMA DoIoInsertsKeeps ==
    ASSUME QueuesInvariant, DoIoInserts
    PROVE  QueuesInvariant'
<1>1. PICK l, par, c, f, p, h :
         /\ l = links /\ par = p_parent /\ c = ssi_pcb_real /\ f = frame
         /\ p = ssi.p /\ h = pcb_blocked_on_device(ssi.asker)
  OBVIOUS
<1>2. /\ SsiAt("insertIo") /\ links' = list_add_tail(l, p_io(p), h) /\ ssi' = SsiIdle /\ p_parent' = par
      /\ current_process' = current_process /\ frame' = f /\ m_sender' = m_sender
  BY <1>1 DEF DoIoInserts
<1>3. /\ Good(l, par, c, ssi, f) /\ Quiet(f) /\ current_process = c /\ DoingIo(l, ssi)
      /\ m_sender \in [Msg -> Pcb \cup {NOBODY}]
  BY <1>1, <1>2, AtSsi
<1>4. p \in InUse(l) /\ p_io(p) \notin Held(l) /\ h \in IoHead
  BY <1>1, <1>3, Heads DEF DoingIo
<1>5. Good(list_add_tail(l, p_io(p), h), par, c, SsiIdle, f)
  BY <1>3, <1>4, IoIn
<1> QED BY <1>2, <1>3, <1>5 DEF QueuesInvariant

LEMMA WaitForClockKeeps ==
    ASSUME QueuesInvariant, NEW p \in Pcb, WaitForClock(p)
    PROVE  QueuesInvariant'
<1>1. PICK l, par, c, f, h :
         /\ l = links /\ par = p_parent /\ c = ssi_pcb_real /\ f = frame /\ h = pcb_blocked_on_clock
  OBVIOUS
<1>2. /\ SsiAt("idle") /\ MayQueue(p, h) /\ links' = list_add_tail(l, p_io(p), h) /\ ssi' = ssi
      /\ p_parent' = par /\ current_process' = current_process /\ frame' = f /\ m_sender' = m_sender
  BY <1>1 DEF WaitForClock
<1>3. /\ Good(l, par, c, ssi, f) /\ Quiet(f) /\ current_process = c /\ ssi = SsiIdle
      /\ m_sender \in [Msg -> Pcb \cup {NOBODY}]
  BY <1>1, <1>2, AtSsi
<1>4. Intact(l) /\ h \in IoHead
  BY <1>1, <1>3, QuietGood, Heads
<1>5. p \in InUse(l) /\ \A g \in IoHead : p_io(p) \notin ToSet(Entries(l, g))
  BY <1>1, <1>2, <1>4, SameNames DEF MayQueue, Meets
<1>6. p_io(p) \notin Held(l)
  BY <1>4, <1>5, WhereHeld
<1>7. Good(list_add_tail(l, p_io(p), h), par, c, SsiIdle, f)
  BY <1>3, <1>4, <1>5, <1>6, IoIn
<1> QED BY <1>2, <1>3, <1>7 DEF QueuesInvariant

(* answer_do_io(), answer_wait_for_clock()                                 *)
LEMMA AnswersKeeps ==
    ASSUME QueuesInvariant, NEW h \in IoHead, Answers(h)
    PROVE  QueuesInvariant'
<1>1. PICK l, par, c, s, f, k :
         /\ l = links /\ par = p_parent /\ c = current_process /\ s = ssi /\ f = frame
         /\ k = removeProcQ(l, h)
  OBVIOUS
<1>2. /\ ~ list_empty(l, h) /\ links' = k /\ ssi' = s /\ p_parent' = par
      /\ current_process' = c /\ frame' = f /\ m_sender' = m_sender
  BY <1>1 DEF Answers
<1>3. Good(l, par, c, s, f) /\ Intact(l) /\ m_sender \in [Msg -> Pcb \cup {NOBODY}]
  BY <1>1 DEF QueuesInvariant, Good
<1>4. h \in HeadsOf(l) /\ h # pcbFree_h
  BY <1>3, Heads, LiveHeads
<1>5. Entries(l, h) # <<>>
  BY <1>2, <1>3, <1>4, ListFacts
<1>6. /\ Same(l, k) /\ Only(l, k, h) /\ Held(k) \subseteq Held(l)
      /\ ToSet(Entries(k, h)) \subseteq ToSet(Entries(l, h))
  BY <1>1, <1>3, <1>4, <1>5, FirstOut
<1>7. \A q \in InUse(l) : Entries(k, p_child(q)) = Entries(l, p_child(q))
  <2>1. \A q \in InUse(l) : p_child(q) \in HeadsOf(l) /\ p_child(q) # h
    BY <1>3, Heads, LiveHeads
  <2> QED BY <1>6, <2>1 DEF Only
<1>8. ToSet(Entries(k, pcb_blocked_on_clock)) \subseteq ToSet(Entries(l, pcb_blocked_on_clock))
  <2>1. pcb_blocked_on_clock \in HeadsOf(l)
    BY <1>3, LiveHeads
  <2> QED BY <1>6, <2>1 DEF Only
<1>9. Good(k, par, c, s, f)
  BY <1>3, <1>6, <1>7, <1>8, GoodLess
<1> QED BY <1>2, <1>3, <1>9 DEF QueuesInvariant
-----------------------------------------------------------------------------
(* terminate_process()                                                     *)

LEMMA KidsFacts ==
    ASSUME NEW l, Intact(l), NEW q \in InUse(l)
    PROVE  /\ Kids(l, q) \subseteq Pcb
           /\ \A r \in Pcb : r \in Kids(l, q) <=> p_sib(r) \in ToSet(Entries(l, p_child(q)))
<1>1. q \in Pcb /\ p_child(q) \in HeadsOf(l)
  BY LiveHeads
<1>2. ToSet(Entries(l, p_child(q))) \subseteq Sib
  BY <1>1, ListFacts, EntriesOf
<1>3. \A r \in Pcb : container_of(p_sib(r)) = r
  BY PcbNodes
<1>4. ASSUME NEW n \in ToSet(Entries(l, p_child(q)))
      PROVE  \E r \in Pcb : n = p_sib(r) /\ container_of(n) = r
  BY <1>2, <1>3 DEF Sib
<1> QED BY <1>3, <1>4 DEF Kids

(* N rounds of adding the children reach everybody among at most N: each   *)
(* round adds somebody, or nobody is left to add.                          *)
Closed(X, kids) == \A q \in X : kids[q] \subseteq X
Generations(N, U, p, kids) ==
    {g \in [0..N -> SUBSET U] :
        g[0] = {p} /\ \A i \in 1..N : g[i] = UNION {{q} \cup kids[q] : q \in g[i - 1]}}

LEMMA Reached ==
    ASSUME NEW N \in Nat, NEW U, IsFiniteSet(U), Cardinality(U) <= N,
           NEW kids \in [U -> SUBSET U], NEW p \in U, NEW g \in Generations(N, U, p, kids)
    PROVE  p \in g[N] /\ g[N] \subseteq U /\ Closed(g[N], kids)
<1> DEFINE Far(i) == Closed(g[i], kids) \/ Cardinality(g[i]) >= i + 1
           P == {i \in 0..N : p \in g[i] /\ Far(i)}
<1>1. /\ g \in [0..N -> SUBSET U] /\ g[0] = {p}
      /\ \A i \in 1..N : g[i] = UNION {{q} \cup kids[q] : q \in g[i - 1]}
  BY DEF Generations
<1>2. \A i \in 0..N : IsFiniteSet(g[i]) /\ Cardinality(g[i]) \in Nat /\ Cardinality(g[i]) <= Cardinality(U)
  <2>1. \A i \in 0..N : g[i] \subseteq U
    BY <1>1
  <2> QED BY <2>1, FS_Subset, FS_CardinalityType
<1>3. 0 \in P
  <2>1. Cardinality({p}) = 1
    BY FS_Singleton
  <2>2. 0 \in 0..N /\ p \in g[0] /\ Cardinality(g[0]) = 1
    BY <1>1, <2>1
  <2>3. Far(0)
    BY <2>2
  <2> QED BY <2>2, <2>3
<1>4. ASSUME NEW i \in 1..N, i - 1 \in P  PROVE i \in P
  <2>1. PICK A, B : A = g[i - 1] /\ B = g[i]
    OBVIOUS
  <2>2. i - 1 \in 0..N /\ i \in 0..N
    OBVIOUS
  <2>3. p \in A /\ A \subseteq U /\ B = UNION {{q} \cup kids[q] : q \in A}
    BY <1>1, <1>4, <2>1, <2>2
  <2>4. A \subseteq B
    BY <2>3
  <2>5. CASE Closed(A, kids)
    <3>1. B = A
      BY <2>3, <2>5 DEF Closed
    <3> QED BY <2>1, <2>2, <2>3, <2>5, <3>1
  <2>6. CASE ~ Closed(A, kids)
    <3>1. A # B
      BY <2>3, <2>6 DEF Closed
    <3>2. IsFiniteSet(B) /\ Cardinality(A) \in Nat /\ Cardinality(B) \in Nat
      BY <1>2, <2>1, <2>2
    <3>3. Cardinality(A) < Cardinality(B)
      BY <2>4, <3>1, <3>2, FS_Subset
    <3>4. Cardinality(A) >= (i - 1) + 1
      BY <1>4, <2>1, <2>6
    <3>5. Cardinality(B) >= i + 1
      BY <3>2, <3>3, <3>4
    <3> QED BY <2>1, <2>2, <2>3, <2>4, <3>5
  <2> QED BY <2>5, <2>6
<1>5. N \in P
  <2>1. 0..N \subseteq P
    <3> HIDE DEF P
    <3> QED BY <1>3, <1>4, Upwards
  <2> HIDE DEF P
  <2> QED BY <2>1
<1>6. N \in 0..N /\ Cardinality(g[N]) <= Cardinality(U) /\ Cardinality(g[N]) \in Nat /\ Cardinality(U) \in Nat
  BY <1>2, FS_CardinalityType
<1>7. ~ Cardinality(g[N]) >= N + 1
  BY <1>6
<1> QED BY <1>1, <1>5, <1>6, <1>7

LEMMA FamilyFacts ==
    ASSUME Intact(links), FreeAlone(links), NEW p \in InUse(links)
    PROVE  /\ p \in Family(p) /\ Family(p) \subseteq InUse(links)
           /\ \A q \in Family(p) : Kids(links, q) \subseteq Family(p)
<1> DEFINE N == MaxProc
           known == CHOOSE f : f = [i \in 0..N |-> IF i = 0 THEN {p}
                                      ELSE UNION {{q} \cup Children(q) : q \in f[i - 1]}]
<1>1. N \in Nat
  BY ListsAssumption
<1>2. PICK U : U = InUse(links)
  OBVIOUS
<1>3. p \in U /\ U \subseteq Pcb
  BY <1>2, InUseFacts
<1>4. IsFiniteSet(U) /\ Cardinality(U) <= N
  <2>1. Pcb = 1..N /\ IsFiniteSet(1..N) /\ Cardinality(1..N) = N
    BY <1>1, CountTo DEF Pcb
  <2> QED BY <1>3, <2>1, FS_Subset
<1>5. \A q \in U : Kids(links, q) \in SUBSET U
  <2> SUFFICES ASSUME NEW q \in U, NEW r \in Kids(links, q)  PROVE r \in U
    OBVIOUS
  <2>1. r \in Pcb /\ p_sib(r) \in ToSet(Entries(links, p_child(q)))
    BY <1>2, KidsFacts
  <2>2. p_child(q) \in HeadsOf(links)
    BY <1>2, LiveHeads
  <2>3. p_sib(r) \in Held(links)
    BY <2>1, <2>2, ListFacts
  <2> QED BY <1>2, <2>1, <2>3 DEF FreeAlone
<1>6. PICK kids \in [U -> SUBSET U] : \A q \in U : kids[q] = Kids(links, q)
  <2> DEFINE f == [q \in U |-> Kids(links, q)]
  <2>1. f \in [U -> SUBSET U] /\ \A q \in U : f[q] = Kids(links, q)
    BY <1>5
  <2> QED BY <2>1
<1>7. PICK step \in [(1..N) \X SUBSET U -> SUBSET U] :
         \A i \in 1..N, X \in SUBSET U : step[<<i, X>>] = UNION {{q} \cup kids[q] : q \in X}
  <2> DEFINE f == [a \in (1..N) \X SUBSET U |-> UNION {{q} \cup kids[q] : q \in a[2]}]
  <2>1. \A X \in SUBSET U : UNION {{q} \cup kids[q] : q \in X} \in SUBSET U
    OBVIOUS
  <2>2. f \in [(1..N) \X SUBSET U -> SUBSET U]
    BY <2>1
  <2>3. \A i \in 1..N, X \in SUBSET U : f[<<i, X>>] = UNION {{q} \cup kids[q] : q \in X}
    OBVIOUS
  <2> QED BY <2>2, <2>3
<1> HIDE DEF N
<1>8. PICK g \in [0..N -> SUBSET U] : g[0] = {p} /\ \A i \in 1..N : g[i] = step[<<i, g[i - 1]>>]
  <2>1. {p} \in SUBSET U
    BY <1>3
  <2>2. Passes(N, SUBSET U, {p}, step) # {}
    BY <1>1, <2>1, Repeated
  <2> QED BY <2>2 DEF Passes
<1>9. \A i \in 1..N : g[i - 1] \in SUBSET U /\ g[i] = UNION {{q} \cup kids[q] : q \in g[i - 1]}
  <2> SUFFICES ASSUME NEW i \in 1..N
               PROVE  g[i - 1] \in SUBSET U /\ g[i] = UNION {{q} \cup kids[q] : q \in g[i - 1]}
    OBVIOUS
  <2>1. i - 1 \in 0..N
    BY <1>1
  <2>2. PICK X \in SUBSET U : X = g[i - 1]
    BY <2>1
  <2>3. step[<<i, X>>] = UNION {{q} \cup kids[q] : q \in X}
    BY <1>7
  <2> QED BY <1>8, <2>2, <2>3
<1>12. \A X \in SUBSET U : UNION {{q} \cup kids[q] : q \in X} = UNION {{q} \cup Children(q) : q \in X}
  <2>1. \A q \in U : kids[q] = Children(q)
    BY <1>6, SameNames
  <2> QED BY <2>1
<1>13. g = [i \in 0..N |-> IF i = 0 THEN {p} ELSE UNION {{q} \cup Children(q) : q \in g[i - 1]}]
  <2>1. \A i \in 0..N : i = 0 \/ i \in 1..N
    BY <1>1
  <2> QED BY <1>8, <1>9, <1>12, <2>1
<1>14. known = [i \in 0..N |-> IF i = 0 THEN {p} ELSE UNION {{q} \cup Children(q) : q \in known[i - 1]}]
  BY <1>13
<1>15. Family(p) = known[N]
  BY DEF Family, N
<1> HIDE DEF known
<1>16. \A i \in 1..N : i \in 0..N /\ i # 0 /\ i - 1 \in 0..N
  BY <1>1
<1>17. known[0] = {p} /\ \A i \in 1..N : known[i] = UNION {{q} \cup Children(q) : q \in known[i - 1]}
  <2>1. \A i \in 0..N : known[i] = IF i = 0 THEN {p} ELSE UNION {{q} \cup Children(q) : q \in known[i - 1]}
    BY <1>14, Zenon
  <2>2. 0 \in 0..N
    BY <1>1
  <2>3. known[0] = {p}
    BY <2>1, <2>2
  <2>4. ASSUME NEW i \in 1..N
        PROVE  known[i] = UNION {{q} \cup Children(q) : q \in known[i - 1]}
    <3>1. i \in 0..N /\ i # 0
      BY <1>16
    <3> QED BY <2>1, <3>1, Zenon
  <2> QED BY <2>3, <2>4, Zenon
<1>18. \A i \in 0..N : known[i] \in SUBSET U
  <2> DEFINE P == {i \in 0..N : known[i] \in SUBSET U}
  <2>1. 0 \in P
    BY <1>1, <1>3, <1>17
  <2>2. ASSUME NEW i \in 1..N, i - 1 \in P  PROVE i \in P
    <3>1. PICK X \in SUBSET U : X = known[i - 1]
      BY <2>2
    <3>2. UNION {{q} \cup kids[q] : q \in X} \in SUBSET U
      OBVIOUS
    <3>3. known[i] = UNION {{q} \cup Children(q) : q \in X}
      BY <1>17, <3>1
    <3>4. known[i] \in SUBSET U
      BY <1>12, <3>2, <3>3
    <3> QED BY <1>16, <3>4
  <2>3. 0..N \subseteq P
    <3> HIDE DEF P
    <3> QED BY <1>1, <2>1, <2>2, Upwards
  <2> QED BY <2>3
<1>19. known \in Generations(N, U, p, kids)
  <2>1. known \in [0..N -> SUBSET U]
    BY <1>14, <1>18
  <2>2. ASSUME NEW i \in 1..N
        PROVE  known[i] = UNION {{q} \cup kids[q] : q \in known[i - 1]}
    <3>1. PICK X \in SUBSET U : X = known[i - 1]
      BY <1>16, <1>18
    <3>2. UNION {{q} \cup kids[q] : q \in X} = UNION {{q} \cup Children(q) : q \in X}
      BY <1>12
    <3>3. known[i] = UNION {{q} \cup Children(q) : q \in X}
      BY <1>17, <3>1
    <3> QED BY <3>1, <3>2, <3>3
  <2> QED BY <1>17, <2>1, <2>2 DEF Generations
<1>20. p \in known[N] /\ known[N] \subseteq U /\ Closed(known[N], kids)
  BY <1>1, <1>3, <1>4, <1>19, Reached
<1> QED BY <1>2, <1>6, <1>15, <1>20 DEF Closed

(* A frame with one PCB on its stack.                                      *)
Condemned(p) == [pc |-> "outChild", stack |-> <<p>>]

LEMMA FirstFrame ==
    ASSUME NEW l, NEW p \in InUse(l), p \in Pcb, p # ssi_pcb_real
    PROVE  /\ Condemned(p) \in Frame /\ FrameType(Condemned(p)) /\ OutOf(l, Condemned(p))
           /\ Condemned(p) # NoFrame /\ Condemned(p).stack = <<p>> /\ ToSet(<<p>>) = {p}
           /\ PastChild(Condemned(p)) = {} /\ PastReady(Condemned(p)) = {} /\ PastIO(Condemned(p)) = {}
<1>1. Condemned(p).pc = "outChild" /\ Condemned(p).stack = <<p>>
  BY DEF Condemned
<1>2. <<p>> \in Seq(Pcb) /\ <<p>> # <<>> /\ Tail(<<p>>) = <<>> /\ ToSet(<<p>>) = {p}
  BY DEF ToSet
<1>3. Condemned(p) \in Frame
  BY <1>2 DEF Condemned, Frame, Stage
<1>4. FrameType(Condemned(p))
  BY <1>1, <1>2 DEF FrameType, Stage
<1>5. ToSet(<<>>) = {}
  BY DEF ToSet
<1>6. PastChild(Condemned(p)) = {} /\ PastReady(Condemned(p)) = {} /\ PastIO(Condemned(p)) = {}
  BY <1>1, <1>2, <1>5 DEF Past, PastChild, PastReady, PastIO
<1>7. Once(<<p>>)
  BY DEF Once
<1>8. OutOf(l, Condemned(p))
  BY <1>1, <1>2, <1>6, <1>7 DEF OutOf
<1>9. Condemned(p) # NoFrame
  <2>1. Condemned(p).pc # NoFrame.pc
    BY <1>1 DEF NoFrame
  <2> QED BY <2>1
<1> QED BY <1>1, <1>2, <1>3, <1>4, <1>6, <1>8, <1>9

(* Who begins to die, with everybody who will.                             *)
LEMMA FamilyDoomed ==
    ASSUME Liberty = {}, Intact(links), FreeAlone(links), NEW p \in InUse(links), Untouched(p),
           NEW K, K \subseteq InHand
    PROVE  Doomed(links, Condemned(p), K) # {}
<1>1. /\ p \in Family(p) /\ Family(p) \subseteq InUse(links) /\ InUse(links) \subseteq Pcb
      /\ \A q \in Family(p) : Kids(links, q) \subseteq Family(p)
  BY FamilyFacts, InUseFacts
<1>2. /\ Family(p) \cap InHand = {}
      /\ \A q \in Family(p) : p_io(q) \notin ToSet(Entries(links, pcb_blocked_on_clock))
  BY SameNames DEF Untouched
<1>3. ToSet(Condemned(p).stack) \subseteq Family(p)
  BY <1>1 DEF Condemned, ToSet
<1>4. Family(p) \in SUBSET Pcb /\ Family(p) \cap K = {}
  BY <1>1, <1>2
<1>5. Family(p) \in Doomed(links, Condemned(p), K)
  BY <1>1, <1>2, <1>3, <1>4 DEF Doomed
<1> QED BY <1>5

LEMMA SsiTerminatesKeeps ==
    ASSUME Liberty = {}, QueuesInvariant, NEW p \in Pcb, SsiTerminates(p)
    PROVE  QueuesInvariant'
<1>1. PICK l, par, c, s, f, g :
         /\ l = links /\ par = p_parent /\ c = ssi_pcb_real /\ s = ssi /\ f = frame
         /\ g = [f EXCEPT !["ssi"] = Condemned(p)]
  OBVIOUS
<1>2. /\ SsiAt("idle") /\ p # ssi_pcb_real /\ isPcbValid(p) /\ Untouched(p)
      /\ links' = l /\ p_parent' = par /\ current_process' = current_process /\ ssi' = s
      /\ frame' = g /\ m_sender' = m_sender
  BY <1>1 DEF SsiTerminates, Condemned
<1>3. /\ Good(l, par, c, s, f) /\ Quiet(f) /\ current_process = c /\ s = SsiIdle
      /\ m_sender \in [Msg -> Pcb \cup {NOBODY}]
  BY <1>1, <1>2, AtSsi
<1>4. Intact(l) /\ FreeAlone(l) /\ Runs(l, c)
  BY <1>3, QuietGood
<1>5. p \in InUse(l)
  BY <1>1, <1>2, <1>4, SameNames
<1>6. /\ Condemned(p) \in Frame /\ FrameType(Condemned(p)) /\ OutOf(l, Condemned(p))
      /\ Condemned(p).stack = <<p>> /\ PastChild(Condemned(p)) = {} /\ PastReady(Condemned(p)) = {}
  BY <1>2, <1>5, FirstFrame
<1>7. /\ g \in [Actor -> Frame] /\ g["ssi"] = Condemned(p) /\ g["nucleus"] = NoFrame
      /\ f["nucleus"] = NoFrame /\ \A a \in Actor : a = "ssi" \/ a = "nucleus"
  BY <1>1, <1>3, <1>6 DEF Quiet, Actor
<1>8. \A a \in Actor : FrameType(g[a]) /\ OutOf(l, g[a])
  <2>1. FrameType(f["nucleus"]) /\ OutOf(l, f["nucleus"])
    BY <1>3 DEF Good, Dies, Actor
  <2> QED BY <1>6, <1>7, <2>1
<1>9. Doomed(l, Condemned(p), {}) # {} /\ \A K : Doomed(l, NoFrame, K) # {}
  BY <1>1, <1>2, <1>3, <1>4, <1>5, FamilyDoomed, QuietFacts
<1>10. Dies(l, s, g)
  BY <1>3, <1>7, <1>8, <1>9 DEF Dies
<1>11. AllTied(l, par, g)
  BY <1>3, QuietGood DEF AllTied
<1>12. c \notin PastReady(g["ssi"])
  BY <1>6, <1>7
<1>13. Good(l, par, c, s, g)
  BY <1>3, <1>4, <1>10, <1>11, <1>12 DEF Good
<1> QED BY <1>2, <1>3, <1>13 DEF QueuesInvariant

LEMMA TrapsKeeps ==
    ASSUME Liberty = {}, QueuesInvariant, Traps
    PROVE  QueuesInvariant'
<1>1. PICK l, par, c, s, f, g :
         /\ l = links /\ par = p_parent /\ c = current_process /\ s = ssi /\ f = frame
         /\ g = [f EXCEPT !["nucleus"] = Condemned(c)]
  OBVIOUS
<1>2. /\ User /\ c # NOBODY /\ c # ssi_pcb_real /\ Untouched(c)
      /\ links' = l /\ p_parent' = par /\ current_process' = c /\ ssi' = s
      /\ frame' = g /\ m_sender' = m_sender
  BY <1>1 DEF Traps, Condemned
<1>3. /\ Good(l, par, c, s, f) /\ f["nucleus"] = NoFrame
      /\ m_sender \in [Msg -> Pcb \cup {NOBODY}]
  BY <1>1, <1>2 DEF QueuesInvariant, User
<1>4. Intact(l) /\ FreeAlone(l) /\ c \in InUse(l) /\ f \in [Actor -> Frame]
  BY <1>2, <1>3 DEF Good, Runs, Dies
<1>5. c \in Pcb
  BY <1>4, InUseFacts
<1>6. /\ Condemned(c) \in Frame /\ FrameType(Condemned(c)) /\ OutOf(l, Condemned(c))
      /\ Condemned(c) # NoFrame /\ PastChild(Condemned(c)) = {} /\ PastReady(Condemned(c)) = {}
  BY <1>2, <1>4, <1>5, FirstFrame
<1>7. /\ g \in [Actor -> Frame] /\ g["nucleus"] = Condemned(c) /\ g["ssi"] = f["ssi"]
      /\ \A a \in Actor : a = "ssi" \/ a = "nucleus"
  BY <1>1, <1>4, <1>6 DEF Actor
<1>8. \A a \in Actor : FrameType(g[a]) /\ OutOf(l, g[a])
  <2>1. FrameType(f["ssi"]) /\ OutOf(l, f["ssi"])
    BY <1>3 DEF Good, Dies, Actor
  <2> QED BY <1>6, <1>7, <2>1
<1>9. Doomed(l, Condemned(c), ServedBy(s) \cup ToSet(f["ssi"].stack)) # {}
  <2>1. ServedBy(s) \cup ToSet(f["ssi"].stack) \subseteq InHand
    BY <1>1, SameNames DEF InHand
  <2> QED BY <1>1, <1>2, <1>4, <2>1, FamilyDoomed
<1>10. Dies(l, s, g)
  BY <1>3, <1>7, <1>8, <1>9 DEF Dies, Good
<1>11. AllTied(l, par, g)
  <2>1. PastChild(f["nucleus"]) = {}
    <3>1. NoFrame.stack = <<>> /\ NoFrame.pc = "idle" /\ ToSet(<<>>) = {}
      BY DEF NoFrame, ToSet
    <3> QED BY <1>3, <3>1 DEF PastChild, Past
  <2>2. \A q \in InUse(l) : (\A a \in Actor : q \notin PastChild(f[a])) => Tied(l, par, q)
    BY <1>3 DEF Good, AllTied
  <2>3. \A q \in InUse(l) : (\A a \in Actor : q \notin PastChild(g[a]))
                            => \A a \in Actor : q \notin PastChild(f[a])
    BY <1>7, <2>1 DEF Actor
  <2> QED BY <2>2, <2>3 DEF AllTied
<1>12. g["nucleus"] # NoFrame /\ c \notin PastReady(g["ssi"])
  BY <1>3, <1>6, <1>7 DEF Good
<1>13. Good(l, par, c, s, g)
  BY <1>3, <1>10, <1>11, <1>12 DEF Good
<1> QED BY <1>2, <1>3, <1>13 DEF QueuesInvariant

(* What terminate_process finds: nobody is on two stacks.                  *)
LEMMA AtTerm ==
    ASSUME QueuesInvariant, NEW a \in Actor, NEW pc \in Stage, TermAt(a, pc)
    PROVE  LET x == frame[a]
               v == Victim(a)
           IN
           /\ Good(links, p_parent, current_process, ssi, frame) /\ Intact(links)
           /\ m_sender \in [Msg -> Pcb \cup {NOBODY}]
           /\ x \in Frame /\ FrameType(x) /\ OutOf(links, x) /\ x.pc = pc
           /\ x.stack \in Seq(Pcb) /\ x.stack # <<>> /\ Once(x.stack)
           /\ v \in Pcb /\ v \in InUse(links) /\ v # ssi_pcb_real /\ v \in ToSet(x.stack)
           /\ ToSet(Tail(x.stack)) = ToSet(x.stack) \ {v}
           /\ \A b \in Actor \ {a} : ToSet(frame[b].stack) \cap ToSet(x.stack) = {}
           /\ a = "ssi" => /\ frame["nucleus"] = NoFrame /\ current_process = ssi_pcb_real
                           /\ ssi = SsiIdle
           /\ a = "nucleus" => /\ frame["nucleus"] # NoFrame
                               /\ ToSet(x.stack) \cap ServedBy(ssi) = {}
<1>1. PICK x : x = frame[a]
  OBVIOUS
<1>2. /\ Good(links, p_parent, current_process, ssi, frame) /\ Intact(links)
      /\ m_sender \in [Msg -> Pcb \cup {NOBODY}] /\ Dies(links, ssi, frame)
  BY DEF QueuesInvariant, Good
<1>3. x.pc = pc /\ (a = "ssi" => frame["nucleus"] = NoFrame /\ current_process = ssi_pcb_real)
  BY <1>1 DEF TermAt, User
<1>4. x \in Frame /\ FrameType(x) /\ OutOf(links, x)
  BY <1>1, <1>2 DEF Dies
<1>5. x.stack \in Seq(Pcb) /\ x.stack # <<>> /\ Once(x.stack)
  BY <1>3, <1>4 DEF Frame, FrameType, OutOf, Idle, Stage
<1>6. PICK v : v = Head(x.stack)
  OBVIOUS
<1>7. v \in Pcb /\ v \in ToSet(x.stack) /\ ToSet(Tail(x.stack)) = ToSet(x.stack) \ {v}
  BY <1>5, <1>6, TailRange
<1>8. v \in InUse(links) /\ v # ssi_pcb_real
  BY <1>4, <1>7 DEF OutOf
<1>9. PICK D \in Doomed(links, frame["nucleus"], ServedBy(ssi) \cup ToSet(frame["ssi"].stack)) : TRUE
  BY <1>2 DEF Dies
<1>10. /\ ToSet(frame["nucleus"].stack) \cap ServedBy(ssi) = {}
       /\ ToSet(frame["nucleus"].stack) \cap ToSet(frame["ssi"].stack) = {}
  BY <1>9 DEF Doomed
<1>11. \A b \in Actor \ {a} : ToSet(frame[b].stack) \cap ToSet(x.stack) = {}
  BY <1>1, <1>10 DEF Actor
<1>12. a = "ssi" => ssi = SsiIdle
  BY <1>1, <1>2, <1>5 DEF Dies
<1>13. a = "nucleus" => frame["nucleus"] # NoFrame /\ ToSet(x.stack) \cap ServedBy(ssi) = {}
  BY <1>1, <1>5, <1>10 DEF NoFrame
<1>14. v = Victim(a)
  BY <1>1, <1>6 DEF Victim
<1> QED BY <1>1, <1>2, <1>3, <1>4, <1>5, <1>7, <1>8, <1>11, <1>12, <1>13, <1>14

(* One of its calls: an entry of the victim is out.                        *)
LEMMA GoodPass ==
    ASSUME NEW l, NEW par, NEW c, NEW s, NEW f, Good(l, par, c, s, f),
           NEW a \in Actor, f[a].pc \in Stage, f[a].stack # <<>>,
           NEW k, Same(l, k), Held(k) \subseteq Held(l),
           \A q \in InUse(l) : Kids(k, q) \subseteq Kids(l, q),
           ToSet(Entries(k, pcb_blocked_on_clock)) \subseteq ToSet(Entries(l, pcb_blocked_on_clock)),
           NEW g, NEW y \in Frame, g = [f EXCEPT ![a] = y], y.pc \in Stage, y.stack = f[a].stack,
           OutOf(k, y), AllTied(k, par, g), a = "ssi" => c \notin PastReady(y)
    PROVE  Good(k, par, c, s, g)
<1>1. Intact(k) /\ InUse(k) = InUse(l)
  BY DEF Same
<1>2. FreeAlone(k) /\ SsiLives(k)
  BY <1>1 DEF Good, FreeAlone, SsiLives
<1>3. InService(k, c, s)
  BY <1>1 DEF Good, InService, Creating, DoingIo
<1>4. /\ f \in [Actor -> Frame] /\ g \in [Actor -> Frame] /\ g[a] = y
      /\ \A b \in Actor \ {a} : g[b] = f[b]
  BY DEF Good, Dies
<1>5. "ssi" \in Actor /\ "nucleus" \in Actor /\ \A b \in Actor : b = "ssi" \/ b = "nucleus"
  BY DEF Actor
<1>6. FrameType(y)
  BY DEF FrameType
<1>7. \A b \in Actor : FrameType(g[b]) /\ OutOf(k, g[b])
  <2>1. \A b \in Actor : FrameType(f[b]) /\ OutOf(l, f[b])
    BY DEF Good, Dies
  <2>2. \A b \in Actor : OutOf(k, f[b]) \/ b = a
    BY <1>1, <2>1 DEF OutOf
  <2> QED BY <1>4, <1>6, <2>1, <2>2
<1>8. \A b \in Actor : g[b].stack = f[b].stack
  BY <1>4
<1>9. \A b \in Actor : \A K : Doomed(l, f[b], K) \subseteq Doomed(k, g[b], K)
  BY <1>1, <1>8 DEF Doomed
<1>10. Dies(k, s, g)
  <2>1. /\ Doomed(l, f["ssi"], {}) # {}
        /\ f["ssi"].stack # <<>> => s = SsiIdle
        /\ Doomed(l, f["nucleus"], ServedBy(s) \cup ToSet(f["ssi"].stack)) # {}
    BY DEF Good, Dies
  <2>2. Doomed(k, g["ssi"], {}) # {}
    <3>1. Doomed(l, f["ssi"], {}) \subseteq Doomed(k, g["ssi"], {})
      BY <1>5, <1>9, Zenon
    <3> QED BY <2>1, <3>1
  <2>3. Doomed(k, g["nucleus"], ServedBy(s) \cup ToSet(g["ssi"].stack)) # {}
    BY <1>5, <1>8, <1>9, <2>1
  <2> QED BY <1>4, <1>5, <1>7, <1>8, <2>1, <2>2, <2>3 DEF Dies
<1>11. g["nucleus"] = NoFrame => Runs(k, c)
  <2>1. CASE a = "nucleus"
    BY <1>4, <2>1 DEF NoFrame, Stage
  <2>2. CASE a = "ssi"
    BY <1>1, <1>4, <1>5, <2>2 DEF Good, Runs
  <2> QED BY <1>5, <2>1, <2>2
<1>12. c \notin PastReady(g["ssi"])
  BY <1>4, <1>5 DEF Good
<1> QED BY <1>1, <1>2, <1>3, <1>10, <1>11, <1>12 DEF Good

(* A frame at its next stage.                                              *)
LEMMA Advance ==
    ASSUME NEW x \in Frame, NEW pc \in Stage
    PROVE  \E y \in Frame : y = [x EXCEPT !.pc = pc] /\ y.pc = pc /\ y.stack = x.stack
<1>1. [x EXCEPT !.pc = pc] \in Frame
  BY DEF Frame
<1> QED BY <1>1 DEF Frame

LEMMA TermOutChildKeeps ==
    ASSUME QueuesInvariant, NEW a \in Actor, TermOutChild(a)
    PROVE  QueuesInvariant'
<1>1. PICK l, par, c, s, f, v, k :
         /\ l = links /\ par = p_parent /\ c = current_process /\ s = ssi /\ f = frame
         /\ v = Victim(a) /\ k = outChild(l, v)
  OBVIOUS
<1>2. TermAt(a, "outChild") /\ "outChild" \in Stage /\ "outReady" \in Stage
  BY DEF TermOutChild, Stage
<1>3. /\ Good(l, par, c, s, f) /\ Intact(l) /\ m_sender \in [Msg -> Pcb \cup {NOBODY}]
      /\ f[a] \in Frame /\ FrameType(f[a]) /\ OutOf(l, f[a]) /\ f[a].pc = "outChild"
      /\ f[a].stack # <<>> /\ v \in Pcb /\ v \in InUse(l) /\ v \in ToSet(f[a].stack)
      /\ ToSet(Tail(f[a].stack)) = ToSet(f[a].stack) \ {v}
      /\ \A b \in Actor \ {a} : ToSet(f[b].stack) \cap ToSet(f[a].stack) = {}
      /\ a = "ssi" => c = ssi_pcb_real
  BY <1>1, <1>2, AtTerm
<1>4. PICK y \in Frame : /\ y = [f[a] EXCEPT !.pc = "outReady"]
                         /\ y.pc = "outReady" /\ y.stack = f[a].stack
  BY <1>2, <1>3, Advance
<1>5. PICK g : g = [f EXCEPT ![a] = y]
  OBVIOUS
<1>6. /\ links' = k /\ p_parent' = par /\ current_process' = c /\ ssi' = s
      /\ frame' = g /\ m_sender' = m_sender
  BY <1>1, <1>4, <1>5 DEF TermOutChild, TermGoes
<1>7. /\ PastChild(f[a]) = ToSet(f[a].stack) \ {v} /\ PastChild(y) = ToSet(f[a].stack)
      /\ PastReady(y) = PastReady(f[a]) /\ PastIO(y) = PastIO(f[a])
  BY <1>3, <1>4 DEF Past, PastChild, PastReady, PastIO
<1>8. \A b \in Actor : FrameType(f[b]) /\ f[b] \in Frame
  BY <1>3 DEF Good, Dies
<1>9. \A b \in Actor : v \notin PastChild(f[b])
  BY <1>3, <1>7, <1>8, PastFacts
<1>10. Tied(l, par, v)
  BY <1>3, <1>9 DEF Good, AllTied
<1>11. /\ Same(l, k) /\ Held(k) \subseteq Held(l) /\ p_sib(v) \notin Held(k)
       /\ \A h \in HeadsOf(l) : ToSet(Entries(l, h)) \ {p_sib(v)} \subseteq ToSet(Entries(k, h))
                                /\ ToSet(Entries(k, h)) \subseteq ToSet(Entries(l, h))
  <2>1. k = IF par[v] = NOBODY THEN l ELSE list_del(l, p_sib(v))
    BY <1>1 DEF outChild
  <2>2. CASE par[v] = NOBODY
    <3>1. p_sib(v) \notin Held(l)
      BY <1>10, <2>2, <1>3, InUseFacts, PcbNodes DEF Tied
    <3>2. Same(l, l)
      BY <1>3 DEF Same
    <3> QED BY <2>1, <2>2, <3>1, <3>2
  <2>3. CASE par[v] # NOBODY
    <3>1. par[v] \in InUse(l) /\ p_sib(v) \in ToSet(Entries(l, p_child(par[v])))
      BY <1>10, <2>3 DEF Tied
    <3>2. PICK h \in HeadsOf(l) : h = p_child(par[v]) /\ h # pcbFree_h
      <4>1. p_child(par[v]) \in HeadsOf(l) /\ p_child(par[v]) \notin KernelHead
        BY <1>3, <3>1, LiveHeads
      <4> QED BY <4>1, Heads
    <3>3. PICK i \in DOMAIN Entries(l, h) : p_sib(v) = Entries(l, h)[i]
      BY <3>1, <3>2 DEF ToSet
    <3>4. PICK e : e = p_sib(v)
      OBVIOUS
    <3>5. /\ Same(l, list_del(l, e)) /\ Only(l, list_del(l, e), h)
          /\ ToSet(Entries(list_del(l, e), h)) = ToSet(Entries(l, h)) \ {e}
          /\ Held(list_del(l, e)) = Held(l) \ {e}
      BY <1>3, <3>2, <3>3, <3>4, TakenOut
    <3>6. k = list_del(l, e)
      BY <2>1, <2>3, <3>4
    <3> QED BY <3>4, <3>5, <3>6 DEF Only
  <2> QED BY <2>2, <2>3
<1>12. InUse(k) = InUse(l) /\ Intact(k)
  BY <1>11 DEF Same
<1>13. \A q \in InUse(l) : Kids(k, q) \subseteq Kids(l, q)
  <2>1. \A q \in InUse(l) : p_child(q) \in HeadsOf(l)
    BY <1>3, LiveHeads
  <2> QED BY <1>11, <2>1 DEF Kids
<1>14. ToSet(Entries(k, pcb_blocked_on_clock)) \subseteq ToSet(Entries(l, pcb_blocked_on_clock))
  BY <1>3, <1>11, LiveHeads
<1>15. OutOf(k, y)
  <2>1. /\ Once(y.stack) /\ ToSet(y.stack) \subseteq InUse(k) \ {ssi_pcb_real}
    BY <1>3, <1>4, <1>12 DEF OutOf
  <2>2. \A q \in PastChild(y) : p_sib(q) \notin Held(k)
    BY <1>3, <1>7, <1>11 DEF OutOf
  <2>3. /\ \A q \in PastReady(y) : p_list(q) \notin Held(k)
        /\ \A q \in PastIO(y) : p_io(q) \notin Held(k)
    BY <1>3, <1>7, <1>11 DEF OutOf
  <2> QED BY <2>1, <2>2, <2>3 DEF OutOf
<1>16. g[a] = y /\ \A b \in Actor \ {a} : g[b] = f[b]
  BY <1>3, <1>5 DEF Good, Dies
<1>17. AllTied(k, par, g)
  <2> SUFFICES ASSUME NEW q \in InUse(k), \A b \in Actor : q \notin PastChild(g[b])
               PROVE  Tied(k, par, q)
    BY DEF AllTied
  <2>1. q \notin ToSet(f[a].stack) /\ q # v /\ q \in InUse(l) /\ q \in Pcb
    BY <1>3, <1>7, <1>12, <1>16, InUseFacts
  <2>2. \A b \in Actor : q \notin PastChild(f[b])
    BY <1>7, <1>16, <2>1
  <2>3. Tied(l, par, q)
    BY <1>3, <2>1, <2>2 DEF Good, AllTied
  <2>4. p_sib(q) # p_sib(v)
    BY <1>3, <2>1, PcbNodes
  <2>5. \A r \in InUse(l) : p_child(r) \in HeadsOf(l)
    BY <1>3, LiveHeads
  <2> QED BY <1>11, <1>12, <2>3, <2>4, <2>5 DEF Tied
<1>18. a = "ssi" => c \notin PastReady(y)
  BY <1>3, <1>7 DEF Good
<1>19. f[a].pc \in Stage /\ y.pc \in Stage
  BY <1>2, <1>3, <1>4
<1>20. Good(k, par, c, s, g)
  BY <1>3, <1>4, <1>5, <1>11, <1>13, <1>14, <1>15, <1>17, <1>18, <1>19, GoodPass
<1> QED BY <1>3, <1>6, <1>20 DEF QueuesInvariant

LEMMA TermOutReadyKeeps ==
    ASSUME QueuesInvariant, NEW a \in Actor, TermOutReady(a)
    PROVE  QueuesInvariant'
<1>1. PICK l, par, c, s, f, v, k :
         /\ l = links /\ par = p_parent /\ c = current_process /\ s = ssi /\ f = frame
         /\ v = Victim(a) /\ k = outProcQ(l, ready_queue, p_list(v))
  OBVIOUS
<1>2. TermAt(a, "outReady") /\ "outReady" \in Stage /\ "outIO" \in Stage
  BY DEF TermOutReady, Stage
<1>3. /\ Good(l, par, c, s, f) /\ Intact(l) /\ m_sender \in [Msg -> Pcb \cup {NOBODY}]
      /\ f[a] \in Frame /\ FrameType(f[a]) /\ OutOf(l, f[a]) /\ f[a].pc = "outReady"
      /\ f[a].stack # <<>> /\ v \in Pcb /\ v \in InUse(l) /\ v \in ToSet(f[a].stack)
      /\ ToSet(Tail(f[a].stack)) = ToSet(f[a].stack) \ {v}
      /\ a = "ssi" => c = ssi_pcb_real
  BY <1>1, <1>2, AtTerm
<1>4. PICK y \in Frame : /\ y = [f[a] EXCEPT !.pc = "outIO"]
                         /\ y.pc = "outIO" /\ y.stack = f[a].stack
  BY <1>2, <1>3, Advance
<1>5. PICK g : g = [f EXCEPT ![a] = y]
  OBVIOUS
<1>6. /\ links' = k /\ p_parent' = par /\ current_process' = c /\ ssi' = s
      /\ frame' = g /\ m_sender' = m_sender
  BY <1>1, <1>4, <1>5 DEF TermOutReady, TermGoes
<1>7. /\ PastReady(f[a]) = ToSet(f[a].stack) \ {v} /\ PastReady(y) = ToSet(f[a].stack)
      /\ PastChild(y) = PastChild(f[a]) /\ PastIO(y) = PastIO(f[a])
  BY <1>3, <1>4 DEF Past, PastChild, PastReady, PastIO
<1>8. ready_queue \in HeadsOf(l) /\ ready_queue # pcbFree_h /\ ready_queue \notin IoHead
  BY <1>3, LiveHeads, Heads
<1>9. PICK e : e = p_list(v)
  OBVIOUS
<1>10. /\ Same(l, k) /\ Only(l, k, ready_queue)
       /\ ToSet(Entries(k, ready_queue)) = ToSet(Entries(l, ready_queue)) \ {e}
       /\ Held(k) = Held(l) \ (ToSet(Entries(l, ready_queue)) \cap {e})
  BY <1>1, <1>3, <1>8, <1>9, Searched
<1>11. p_list(v) \notin Held(k) /\ Held(k) \subseteq Held(l)
  <2>1. p_list(v) \notin ToSet(Entries(l, pcbFree_h))
    BY <1>3, InUseFacts
  <2> QED BY <1>3, <1>9, <1>10, <2>1, WhereHeld
<1>12. InUse(k) = InUse(l) /\ Intact(k)
  BY <1>10 DEF Same
<1>13. \A q \in InUse(l) : Entries(k, p_child(q)) = Entries(l, p_child(q))
  <2>1. \A q \in InUse(l) : p_child(q) \in HeadsOf(l) /\ p_child(q) # ready_queue
    BY <1>3, LiveHeads, Heads
  <2> QED BY <1>10, <2>1 DEF Only
<1>14. ToSet(Entries(k, pcb_blocked_on_clock)) \subseteq ToSet(Entries(l, pcb_blocked_on_clock))
  BY <1>3, <1>8, <1>10, LiveHeads, Heads DEF Only
<1>15. OutOf(k, y)
  <2>1. /\ Once(y.stack) /\ ToSet(y.stack) \subseteq InUse(k) \ {ssi_pcb_real}
    BY <1>3, <1>4, <1>12 DEF OutOf
  <2>2. \A q \in PastReady(y) : p_list(q) \notin Held(k)
    BY <1>3, <1>7, <1>11 DEF OutOf
  <2>3. /\ \A q \in PastChild(y) : p_sib(q) \notin Held(k)
        /\ \A q \in PastIO(y) : p_io(q) \notin Held(k)
    BY <1>3, <1>7, <1>11 DEF OutOf
  <2> QED BY <2>1, <2>2, <2>3 DEF OutOf
<1>16. g[a] = y /\ \A b \in Actor \ {a} : g[b] = f[b]
  BY <1>3, <1>5 DEF Good, Dies
<1>17. AllTied(k, par, g)
  BY <1>3, <1>7, <1>11, <1>12, <1>13, <1>16 DEF Good, AllTied, Tied
<1>18. a = "ssi" => c \notin PastReady(y)
  BY <1>3, <1>7 DEF OutOf
<1>19. f[a].pc \in Stage /\ y.pc \in Stage /\ \A q \in InUse(l) : Kids(k, q) \subseteq Kids(l, q)
  BY <1>2, <1>3, <1>4, <1>13 DEF Kids
<1>20. Good(k, par, c, s, g)
  BY <1>3, <1>4, <1>5, <1>10, <1>11, <1>14, <1>15, <1>17, <1>18, <1>19, GoodPass
<1> QED BY <1>3, <1>6, <1>20 DEF QueuesInvariant

(* The device queues are searched, and then the clock's for the wrong      *)
(* entry.                                                                  *)
LEMMA OutOfIO ==
    ASSUME NEW l, Intact(l), NEW v \in InUse(l), NEW k,
           p_io(v) \notin ToSet(Entries(l, pcb_blocked_on_clock)),
           k = outProcQ(OutOfDevices(l, v), pcb_blocked_on_clock, p_list(v))
    PROVE  \/ k = l /\ p_io(v) \notin Held(l)
           \/ \E h \in IoHead :
                 /\ Same(l, k) /\ Only(l, k, h)
                 /\ \E i \in DOMAIN Entries(l, h) : Entries(k, h) = RemoveAt(Entries(l, h), i)
                 /\ ToSet(Entries(k, h)) = ToSet(Entries(l, h)) \ {p_io(v)}
                 /\ Held(k) = Held(l) \ {p_io(v)}
<1>1. PICK e, k0 : e = p_io(v) /\ k0 = OutOfDevices(l, v)
  OBVIOUS
<1>2. v \in Pcb /\ IoHead \subseteq HeadsOf(l) /\ pcbFree_h \notin IoHead /\ pcb_blocked_on_clock \in IoHead
  BY LiveHeads, Heads
<1>3. PICK used : /\ used = {d \in Device : e \in ToSet(Entries(l, pcb_blocked_on_device(d)))}
                  /\ k0 = IF used = {} THEN l ELSE list_del(l, e)
  BY <1>1 DEF OutOfDevices, Meets
<1>4. ASSUME Intact(k0)  PROVE k = k0
  <2>1. ToSet(Entries(k0, pcb_blocked_on_clock)) \subseteq Io
    <3>1. pcb_blocked_on_clock \in HeadsOf(k0)
      BY <1>4, LiveHeads
    <3> QED BY <1>2, <1>4, <3>1, ListFacts, EntriesOf
  <2>2. p_list(v) \notin Io
    BY <1>2, Uses DEF PList
  <2> QED BY <1>1, <2>1, <2>2 DEF outProcQ, Meets
<1>5. CASE used = {}
  <2>1. k0 = l /\ k = l
    BY <1>3, <1>4, <1>5
  <2>2. \A h \in IoHead : e \notin ToSet(Entries(l, h))
    BY <1>1, <1>3, <1>5, Heads
  <2> QED BY <1>1, <1>2, <2>1, <2>2, WhereHeld
<1>6. CASE used # {}
  <2>1. PICK d \in Device : e \in ToSet(Entries(l, pcb_blocked_on_device(d)))
    BY <1>3, <1>6
  <2>2. PICK h \in IoHead : h = pcb_blocked_on_device(d)
    BY Heads
  <2>3. PICK i \in DOMAIN Entries(l, h) : e = Entries(l, h)[i]
    BY <2>1, <2>2 DEF ToSet
  <2>4. h \in HeadsOf(l) /\ h # pcbFree_h /\ k0 = list_del(l, e)
    BY <1>2, <1>3, <1>6
  <2>5. /\ Same(l, k0) /\ Only(l, k0, h) /\ Entries(k0, h) = RemoveAt(Entries(l, h), i)
        /\ ToSet(Entries(k0, h)) = ToSet(Entries(l, h)) \ {e}
        /\ Held(k0) = Held(l) \ {e}
    BY <2>3, <2>4, TakenOut
  <2>6. k = k0
    BY <1>4, <2>5 DEF Same
  <2> QED BY <1>1, <2>5, <2>6
<1> QED BY <1>5, <1>6

LEMMA TermOutIOKeeps ==
    ASSUME QueuesInvariant, NEW a \in Actor, TermOutIO(a)
    PROVE  QueuesInvariant'
<1>1. PICK l, par, c, s, f, v, k :
         /\ l = links /\ par = p_parent /\ c = current_process /\ s = ssi /\ f = frame
         /\ v = Victim(a) /\ k = outProcQ(OutOfDevices(l, v), pcb_blocked_on_clock, p_list(v))
  OBVIOUS
<1>2. TermAt(a, "outIO") /\ "outIO" \in Stage /\ "children" \in Stage
  BY DEF TermOutIO, Stage
<1>3. /\ Good(l, par, c, s, f) /\ Intact(l) /\ m_sender \in [Msg -> Pcb \cup {NOBODY}]
      /\ f[a] \in Frame /\ FrameType(f[a]) /\ OutOf(l, f[a]) /\ f[a].pc = "outIO"
      /\ f[a].stack # <<>> /\ v \in Pcb /\ v \in InUse(l) /\ v \in ToSet(f[a].stack)
      /\ ToSet(Tail(f[a].stack)) = ToSet(f[a].stack) \ {v}
      /\ a = "ssi" => c = ssi_pcb_real
  BY <1>1, <1>2, AtTerm
<1>4. PICK y \in Frame : /\ y = [f[a] EXCEPT !.pc = "children"]
                         /\ y.pc = "children" /\ y.stack = f[a].stack
  BY <1>2, <1>3, Advance
<1>5. PICK g : g = [f EXCEPT ![a] = y]
  OBVIOUS
<1>6. /\ links' = k /\ p_parent' = par /\ current_process' = c /\ ssi' = s
      /\ frame' = g /\ m_sender' = m_sender
  BY <1>1, <1>4, <1>5 DEF TermOutIO, TermGoes
<1>7. /\ PastIO(f[a]) = ToSet(f[a].stack) \ {v} /\ PastIO(y) = ToSet(f[a].stack)
      /\ PastChild(y) = PastChild(f[a]) /\ PastReady(y) = PastReady(f[a])
  BY <1>3, <1>4 DEF Past, PastChild, PastReady, PastIO
<1>8. p_io(v) \notin ToSet(Entries(l, pcb_blocked_on_clock))
  <2>1. \E K : Doomed(l, f[a], K) # {}
    BY <1>3 DEF Good, Dies, Actor
  <2>2. PICK D \in SUBSET Pcb : /\ ToSet(f[a].stack) \subseteq D
                                /\ \A q \in D : p_io(q) \notin ToSet(Entries(l, pcb_blocked_on_clock))
    BY <2>1 DEF Doomed
  <2> QED BY <1>3, <2>2
<1>9. /\ Same(l, k) /\ Held(k) \subseteq Held(l) /\ p_io(v) \notin Held(k)
      /\ \A q \in InUse(l) : Entries(k, p_child(q)) = Entries(l, p_child(q))
      /\ ToSet(Entries(k, pcb_blocked_on_clock)) \subseteq ToSet(Entries(l, pcb_blocked_on_clock))
  <2>1. \/ k = l /\ p_io(v) \notin Held(l)
        \/ \E h \in IoHead : /\ Same(l, k) /\ Only(l, k, h)
                             /\ ToSet(Entries(k, h)) = ToSet(Entries(l, h)) \ {p_io(v)}
                             /\ Held(k) = Held(l) \ {p_io(v)}
    BY <1>1, <1>3, <1>8, OutOfIO
  <2>2. CASE k = l /\ p_io(v) \notin Held(l)
    BY <1>3, <2>2 DEF Same
  <2>3. CASE \E h \in IoHead : /\ Same(l, k) /\ Only(l, k, h)
                               /\ ToSet(Entries(k, h)) = ToSet(Entries(l, h)) \ {p_io(v)}
                               /\ Held(k) = Held(l) \ {p_io(v)}
    <3>1. PICK h \in IoHead : /\ Same(l, k) /\ Only(l, k, h)
                              /\ ToSet(Entries(k, h)) = ToSet(Entries(l, h)) \ {p_io(v)}
                              /\ Held(k) = Held(l) \ {p_io(v)}
      BY <2>3
    <3>2. \A q \in InUse(l) : p_child(q) \in HeadsOf(l) /\ p_child(q) # h
      BY <1>3, LiveHeads, Heads
    <3>3. pcb_blocked_on_clock \in HeadsOf(l)
      BY <1>3, LiveHeads
    <3> QED BY <3>1, <3>2, <3>3 DEF Only
  <2> QED BY <2>1, <2>2, <2>3
<1>12. InUse(k) = InUse(l) /\ Intact(k)
  BY <1>9 DEF Same
<1>15. OutOf(k, y)
  <2>1. /\ Once(y.stack) /\ ToSet(y.stack) \subseteq InUse(k) \ {ssi_pcb_real}
    BY <1>3, <1>4, <1>12 DEF OutOf
  <2>2. \A q \in PastIO(y) : p_io(q) \notin Held(k)
    BY <1>3, <1>7, <1>9 DEF OutOf
  <2>3. /\ \A q \in PastChild(y) : p_sib(q) \notin Held(k)
        /\ \A q \in PastReady(y) : p_list(q) \notin Held(k)
    BY <1>3, <1>7, <1>9 DEF OutOf
  <2> QED BY <2>1, <2>2, <2>3 DEF OutOf
<1>16. g[a] = y /\ \A b \in Actor \ {a} : g[b] = f[b]
  BY <1>3, <1>5 DEF Good, Dies
<1>17. AllTied(k, par, g)
  BY <1>3, <1>7, <1>9, <1>12, <1>16 DEF Good, AllTied, Tied
<1>18. a = "ssi" => c \notin PastReady(y)
  BY <1>3, <1>7 DEF Good
<1>19. f[a].pc \in Stage /\ y.pc \in Stage /\ \A q \in InUse(l) : Kids(k, q) \subseteq Kids(l, q)
  BY <1>2, <1>3, <1>4, <1>9 DEF Kids
<1>20. Good(k, par, c, s, g)
  BY <1>3, <1>4, <1>5, <1>9, <1>15, <1>17, <1>18, <1>19, GoodPass
<1> QED BY <1>3, <1>6, <1>20 DEF QueuesInvariant

(* Only a frame changes, between two stages.                               *)
LEMMA GoodFrame ==
    ASSUME NEW l, NEW par, NEW c, NEW s, NEW f, Good(l, par, c, s, f),
           NEW a \in Actor, f[a].stack # <<>>, a = "ssi" => f["nucleus"] = NoFrame,
           NEW y \in Frame, NEW g, g = [f EXCEPT ![a] = y], y.pc \in Stage, y.stack # <<>>,
           OutOf(l, y), PastChild(y) = PastChild(f[a]), PastReady(y) = PastReady(f[a]),
           \A K : Doomed(l, f[a], K) \subseteq Doomed(l, y, K)
    PROVE  Good(l, par, c, s, g)
<1>1. /\ f \in [Actor -> Frame] /\ g \in [Actor -> Frame] /\ g[a] = y
      /\ \A b \in Actor \ {a} : g[b] = f[b]
  BY DEF Good, Dies
<1>2. "ssi" \in Actor /\ "nucleus" \in Actor /\ \A b \in Actor : b = "ssi" \/ b = "nucleus"
  BY DEF Actor
<1>3. FrameType(y)
  BY DEF FrameType
<1>4. \A b \in Actor : FrameType(g[b]) /\ OutOf(l, g[b])
  <2>1. \A b \in Actor : FrameType(f[b]) /\ OutOf(l, f[b])
    BY DEF Good, Dies
  <2> QED BY <1>1, <1>3, <2>1
<1>5. \A K : Doomed(l, NoFrame, K) # {}
  <2>1. NoFrame.stack = <<>> /\ ToSet(<<>>) = {}
    BY DEF NoFrame, ToSet
  <2>2. \A K : {} \in Doomed(l, NoFrame, K)
    BY <2>1 DEF Doomed
  <2> QED BY <2>2
<1>6. /\ Doomed(l, f["ssi"], {}) # {}
      /\ f["ssi"].stack # <<>> => s = SsiIdle
      /\ Doomed(l, f["nucleus"], ServedBy(s) \cup ToSet(f["ssi"].stack)) # {}
  BY DEF Good, Dies
<1>7. Doomed(l, g["ssi"], {}) # {}
  <2>1. CASE a = "ssi"
    <3>1. Doomed(l, f[a], {}) \subseteq Doomed(l, y, {})
      OBVIOUS
    <3> QED BY <1>1, <1>6, <2>1, <3>1
  <2>2. CASE a # "ssi"
    BY <1>1, <1>2, <1>6, <2>2
  <2> QED BY <2>1, <2>2
<1>8. Doomed(l, g["nucleus"], ServedBy(s) \cup ToSet(g["ssi"].stack)) # {}
  <2>1. CASE a = "ssi"
    BY <1>1, <1>2, <1>5, <2>1
  <2>2. CASE a = "nucleus"
    <3>1. PICK K : K = ServedBy(s) \cup ToSet(f["ssi"].stack)
      OBVIOUS
    <3>2. Doomed(l, f[a], K) \subseteq Doomed(l, y, K) /\ Doomed(l, f[a], K) # {}
      BY <1>6, <2>2, <3>1
    <3>3. g["ssi"] = f["ssi"] /\ g["nucleus"] = y
      BY <1>1, <1>2, <2>2
    <3> QED BY <3>1, <3>2, <3>3
  <2> QED BY <1>2, <2>1, <2>2
<1>9. g["ssi"].stack # <<>> => s = SsiIdle
  BY <1>1, <1>2, <1>6
<1>10. Dies(l, s, g)
  BY <1>1, <1>4, <1>7, <1>8, <1>9 DEF Dies
<1>11. \A b \in Actor : PastChild(g[b]) = PastChild(f[b]) /\ PastReady(g[b]) = PastReady(f[b])
  BY <1>1
<1>12. AllTied(l, par, g) /\ c \notin PastReady(g["ssi"])
  BY <1>2, <1>11 DEF Good, AllTied
<1>13. g["nucleus"] = NoFrame => Runs(l, c)
  <2>1. CASE a = "nucleus"
    BY <1>1, <2>1 DEF NoFrame, Stage
  <2>2. CASE a = "ssi"
    BY <1>1, <1>2, <2>2 DEF Good
  <2> QED BY <1>2, <2>1, <2>2
<1> QED BY <1>10, <1>12, <1>13 DEF Good

(* A frame with one more argument.                                         *)
Called(p, x) == [pc |-> "outChild", stack |-> <<p>> \o x.stack]

LEMMA CalledFrame ==
    ASSUME NEW x \in Frame, NEW p \in Pcb, Once(x.stack), p \notin ToSet(x.stack), x.pc = "children"
    PROVE  /\ Called(p, x) \in Frame /\ Called(p, x).pc = "outChild" /\ Called(p, x).stack # <<>>
           /\ ToSet(Called(p, x).stack) = ToSet(x.stack) \cup {p} /\ Once(Called(p, x).stack)
           /\ PastChild(Called(p, x)) = ToSet(x.stack) /\ PastReady(Called(p, x)) = ToSet(x.stack)
           /\ PastIO(Called(p, x)) = ToSet(x.stack)
           /\ PastChild(x) = ToSet(x.stack) /\ PastReady(x) = ToSet(x.stack) /\ PastIO(x) = ToSet(x.stack)
<1>1. PICK q \in Seq(Pcb) : q = x.stack
  BY DEF Frame
<1>2. PICK y : y = Called(p, x)
  OBVIOUS
<1>3. PICK r : r = <<p>> \o q
  OBVIOUS
<1>4. y.pc = "outChild" /\ y.stack = r
  BY <1>1, <1>2, <1>3 DEF Called
<1>5. /\ r \in Seq(Pcb) /\ r # <<>> /\ Head(r) = p /\ Tail(r) = q
  BY <1>1, <1>3
<1>6. /\ Len(q) \in Nat /\ DOMAIN q = 1..Len(q) /\ DOMAIN r = 1..(Len(q) + 1)
      /\ r[1] = p /\ \A i \in DOMAIN q : r[i + 1] = q[i]
  BY <1>1, <1>3
<1>7. \A j \in DOMAIN r : j = 1 \/ (j - 1 \in DOMAIN q /\ r[j] = q[j - 1])
  BY <1>6
<1>8. ToSet(r) = ToSet(q) \cup {p}
  <2>1. ToSet(r) \subseteq ToSet(q) \cup {p}
    BY <1>6, <1>7 DEF ToSet
  <2>2. ToSet(q) \cup {p} \subseteq ToSet(r)
    BY <1>6 DEF ToSet
  <2> QED BY <2>1, <2>2
<1>9. Once(r)
  <2>1. \A j \in DOMAIN q : q[j] # p
    BY <1>1 DEF ToSet
  <2>2. \A i, j \in DOMAIN q : q[i] = q[j] => i = j
    BY <1>1 DEF Once
  <2> SUFFICES ASSUME NEW i \in DOMAIN r, NEW j \in DOMAIN r, r[i] = r[j]  PROVE i = j
    BY DEF Once
  <2>3. CASE i = 1 \/ j = 1
    BY <1>6, <1>7, <2>1, <2>3
  <2>4. CASE i # 1 /\ j # 1
    <3>1. /\ i - 1 \in DOMAIN q /\ r[i] = q[i - 1] /\ j - 1 \in DOMAIN q /\ r[j] = q[j - 1]
      BY <1>7, <2>4
    <3>2. i - 1 = j - 1
      BY <2>2, <3>1
    <3> QED BY <1>6, <3>2
  <2> QED BY <2>3, <2>4
<1>10. y \in Frame
  BY <1>1, <1>2, <1>3, <1>5 DEF Called, Frame, Stage
<1>11. PastChild(y) = ToSet(q) /\ PastReady(y) = ToSet(q) /\ PastIO(y) = ToSet(q)
  BY <1>4, <1>5 DEF Past, PastChild, PastReady, PastIO
<1>12. PastChild(x) = ToSet(q) /\ PastReady(x) = ToSet(q) /\ PastIO(x) = ToSet(q)
  BY <1>1 DEF Past, PastChild, PastReady, PastIO
<1> QED BY <1>1, <1>2, <1>4, <1>5, <1>8, <1>9, <1>10, <1>11, <1>12

LEMMA TermNextChildKeeps ==
    ASSUME QueuesInvariant, NEW a \in Actor, TermNextChild(a)
    PROVE  QueuesInvariant'
<1>1. PICK l, par, c, s, f, v, x, h, p :
         /\ l = links /\ par = p_parent /\ c = current_process /\ s = ssi /\ f = frame
         /\ v = Victim(a) /\ x = f[a] /\ h = p_child(v) /\ p = container_of(l[h].next)
  OBVIOUS
<1>2. TermAt(a, "children") /\ "children" \in Stage
  BY DEF TermNextChild, Stage
<1>3. /\ Good(l, par, c, s, f) /\ Intact(l) /\ m_sender \in [Msg -> Pcb \cup {NOBODY}]
      /\ x \in Frame /\ OutOf(l, x) /\ x.pc = "children" /\ x.stack # <<>> /\ Once(x.stack)
      /\ v \in Pcb /\ v \in InUse(l) /\ v \in ToSet(x.stack)
      /\ a = "ssi" => f["nucleus"] = NoFrame
  BY <1>1, <1>2, AtTerm
<1>4. /\ ~ list_empty(l, h) /\ links' = l /\ p_parent' = par /\ current_process' = c /\ ssi' = s
      /\ m_sender' = m_sender
      /\ frame' = [f EXCEPT ![a] = IF isPcbValid(p) THEN Called(p, x) ELSE x]
  BY <1>1 DEF TermNextChild, Called
<1>5. h \in HeadsOf(l)
  BY <1>1, <1>3, LiveHeads
<1>6. PICK n : n = l[h].next
  OBVIOUS
<1>7. n \in ToSet(Entries(l, h)) /\ n \in Held(l)
  <2>1. /\ Entries(l, h) \in Seq(Node) /\ Once(Entries(l, h)) /\ Entries(l, h) # <<>>
        /\ n = Head(Entries(l, h))
    BY <1>3, <1>4, <1>5, <1>6, ListFacts
  <2>2. n \in ToSet(Entries(l, h))
    BY <2>1, TailRange
  <2> QED BY <1>3, <1>5, <2>2, ListFacts
<1>8. p \in Kids(l, v) /\ p \in Pcb /\ p_sib(p) \in Held(l)
  <2>1. p \in Kids(l, v)
    BY <1>1, <1>6, <1>7 DEF Kids
  <2>2. p \in Pcb /\ p_sib(p) \in ToSet(Entries(l, h))
    BY <1>1, <1>3, <2>1, KidsFacts
  <2> QED BY <1>3, <1>5, <2>1, <2>2, ListFacts
<1>9. p \in InUse(l) /\ p # ssi_pcb_real
  BY <1>3, <1>8 DEF Good, FreeAlone, SsiLives
<1>10. isPcbValid(p)
  BY <1>1, <1>3, <1>8, <1>9, SameNames
<1>11. PastChild(x) = ToSet(x.stack)
  BY <1>3 DEF PastChild, Past
<1>12. p \notin ToSet(x.stack)
  BY <1>3, <1>8, <1>11 DEF OutOf
<1>13. PICK y : y = Called(p, x)
  OBVIOUS
<1>14. /\ y \in Frame /\ y.pc = "outChild" /\ y.stack # <<>>
       /\ ToSet(y.stack) = ToSet(x.stack) \cup {p} /\ Once(y.stack)
       /\ PastChild(y) = PastChild(x) /\ PastReady(y) = PastReady(x) /\ PastIO(y) = PastIO(x)
  BY <1>3, <1>8, <1>12, <1>13, CalledFrame
<1>15. OutOf(l, y)
  BY <1>3, <1>9, <1>14 DEF OutOf
<1>16. ASSUME NEW K  PROVE Doomed(l, x, K) \subseteq Doomed(l, y, K)
  <2> SUFFICES ASSUME NEW D \in Doomed(l, x, K)  PROVE D \in Doomed(l, y, K)
    OBVIOUS
  <2>1. v \in D /\ Kids(l, v) \subseteq D
    BY <1>3 DEF Doomed
  <2>2. ToSet(y.stack) \subseteq D
    BY <1>8, <1>14, <2>1 DEF Doomed
  <2> QED BY <2>2 DEF Doomed
<1>17. PICK g : g = [f EXCEPT ![a] = y]
  OBVIOUS
<1>18. "outChild" \in Stage /\ frame' = g
  BY <1>4, <1>10, <1>13, <1>17 DEF Stage
<1>19. Good(l, par, c, s, g)
  BY <1>1, <1>3, <1>14, <1>15, <1>16, <1>17, <1>18, GoodFrame
<1> QED BY <1>3, <1>4, <1>18, <1>19 DEF QueuesInvariant

(* freePcb(): nothing of v is left in a list but the mail it never read.   *)
LEMMA TermFreesKeeps ==
    ASSUME QueuesInvariant, NEW a \in Actor, TermFrees(a)
    PROVE  QueuesInvariant'
<1>1. PICK l, par, c, s, f, v, x, k, rest :
         /\ l = links /\ par = p_parent /\ c = current_process /\ s = ssi /\ f = frame
         /\ v = Victim(a) /\ x = f[a] /\ k = freePcb(l, v) /\ rest = Tail(x.stack)
  OBVIOUS
<1>2. TermAt(a, "children") /\ "children" \in Stage
  BY DEF TermFrees, Stage
<1>3. /\ Good(l, par, c, s, f) /\ Intact(l) /\ m_sender \in [Msg -> Pcb \cup {NOBODY}]
      /\ x \in Frame /\ OutOf(l, x) /\ x.pc = "children" /\ x.stack \in Seq(Pcb)
      /\ x.stack # <<>> /\ Once(x.stack)
      /\ v \in Pcb /\ v \in InUse(l) /\ v # ssi_pcb_real /\ v \in ToSet(x.stack)
      /\ ToSet(rest) = ToSet(x.stack) \ {v}
      /\ \A b \in Actor \ {a} : ToSet(f[b].stack) \cap ToSet(x.stack) = {}
      /\ a = "ssi" => f["nucleus"] = NoFrame /\ c = ssi_pcb_real /\ s = SsiIdle
      /\ a = "nucleus" => ToSet(x.stack) \cap ServedBy(s) = {}
  BY <1>1, <1>2, AtTerm
<1>4. PICK y : y = [pc |-> IF rest # <<>> THEN "children"
                           ELSE IF a = "ssi" THEN "idle" ELSE "scheduler",
                    stack |-> rest]
  OBVIOUS
<1>5. PICK g : g = [f EXCEPT ![a] = y]
  OBVIOUS
<1>6. /\ list_empty(l, p_child(v)) /\ links' = k /\ p_parent' = par /\ current_process' = c
      /\ ssi' = s /\ frame' = g /\ m_sender' = m_sender
  BY <1>1, <1>4, <1>5 DEF TermFrees
<1>7. /\ PastChild(x) = ToSet(x.stack) /\ PastReady(x) = ToSet(x.stack) /\ PastIO(x) = ToSet(x.stack)
  BY <1>3 DEF Past, PastChild, PastReady, PastIO
<1>8. p_sib(v) \notin Held(l) /\ p_list(v) \notin Held(l) /\ p_io(v) \notin Held(l)
  BY <1>3, <1>7 DEF OutOf
<1>9. Entries(l, p_child(v)) = <<>>
  BY <1>3, <1>6, LiveHeads, ListFacts
<1>10. /\ Intact(k) /\ InUse(k) = InUse(l) \ {v} /\ BesidesPcb(l, k, v)
       /\ Held(k) \subseteq Held(l) \cup {p_list(v)}
  BY <1>1, <1>3, <1>8, Freed
<1>11. InUse(l) \subseteq Pcb /\ Pcb \subseteq Pcb
  BY <1>3, InUseFacts
<1>12. \A q \in Pcb : /\ p_sib(q) # p_list(v) /\ p_io(q) # p_list(v)
                      /\ q # v => p_list(q) # p_list(v)
  <2>1. v \in Pcb
    BY <1>3
  <2> QED BY <2>1, Uses, PcbNodes DEF PList, Sib, Io
<1>13. \A q \in Pcb : /\ p_sib(q) \notin Held(l) => p_sib(q) \notin Held(k)
                      /\ p_io(q) \notin Held(l) => p_io(q) \notin Held(k)
                      /\ q # v /\ p_list(q) \notin Held(l) => p_list(q) \notin Held(k)
  BY <1>10, <1>12
<1>14. \A q \in InUse(k) : Entries(k, p_child(q)) = Entries(l, p_child(q))
  <2>1. \A q \in InUse(k) : /\ p_child(q) \in HeadsOf(l) /\ p_child(q) # pcbFree_h
                            /\ p_child(q) \notin PcbHead(v)
    BY <1>3, <1>10, <1>11, LiveHeads, Heads
  <2> QED BY <1>10, <2>1 DEF BesidesPcb
<1>15. Entries(k, pcb_blocked_on_clock) = Entries(l, pcb_blocked_on_clock)
  <2>1. /\ pcb_blocked_on_clock \in HeadsOf(l) /\ pcb_blocked_on_clock # pcbFree_h
        /\ pcb_blocked_on_clock \notin PcbHead(v)
    BY <1>3, LiveHeads, Heads
  <2> QED BY <1>10, <2>1 DEF BesidesPcb
<1>16. FreeAlone(k) /\ SsiLives(k)
  <2>1. ssi_pcb_real \in Pcb /\ ssi_pcb_real \in InUse(l) /\ p_sib(ssi_pcb_real) \notin Held(l)
    BY <1>3, <1>11 DEF Good, SsiLives
  <2>2. SsiLives(k)
    BY <1>3, <1>10, <1>13, <2>1 DEF SsiLives
  <2>3. FreeAlone(k)
    BY <1>3, <1>8, <1>10, <1>13 DEF Good, FreeAlone
  <2> QED BY <2>2, <2>3
<1>17. /\ rest \in Seq(Pcb) /\ Once(rest) /\ (rest = <<>> => ToSet(rest) = {})
  <2>1. rest \in Seq(Pcb) /\ Once(rest)
    BY <1>1, <1>3, TailRange
  <2> QED BY <2>1 DEF ToSet
<1>18. /\ y \in Frame /\ FrameType(y) /\ y.stack = rest
       /\ PastChild(y) = ToSet(rest) /\ PastReady(y) = ToSet(rest) /\ PastIO(y) = ToSet(rest)
       /\ a = "nucleus" => y # NoFrame
  <2>1. y.stack = rest /\ y.pc \in {"children", "idle", "scheduler"}
    BY <1>4
  <2>2. y \in Frame
    BY <1>4, <1>17 DEF Frame, Stage, Idle
  <2>3. FrameType(y)
    BY <1>4 DEF FrameType, Stage, Idle
  <2>4. PastChild(y) = ToSet(rest) /\ PastReady(y) = ToSet(rest) /\ PastIO(y) = ToSet(rest)
    BY <2>1 DEF Past, PastChild, PastReady, PastIO
  <2>5. a = "nucleus" => y # NoFrame
    <3>1. a = "nucleus" => y.pc # "idle"
      BY <1>4
    <3> QED BY <3>1 DEF NoFrame
  <2> QED BY <2>1, <2>2, <2>3, <2>4, <2>5
<1>19. OutOf(k, y)
  <2>1. ToSet(rest) \subseteq InUse(k) \ {ssi_pcb_real}
    BY <1>3, <1>10 DEF OutOf
  <2>2. \A q \in ToSet(rest) : p_sib(q) \notin Held(k) /\ p_list(q) \notin Held(k) /\ p_io(q) \notin Held(k)
    <3>1. \A q \in ToSet(rest) : /\ q \in Pcb /\ q # v /\ p_sib(q) \notin Held(l)
                                 /\ p_list(q) \notin Held(l) /\ p_io(q) \notin Held(l)
      BY <1>3, <1>7, <1>11 DEF OutOf
    <3> QED BY <1>13, <3>1
  <2> QED BY <1>17, <1>18, <2>1, <2>2 DEF OutOf
<1>20. /\ f \in [Actor -> Frame] /\ g \in [Actor -> Frame] /\ g[a] = y
       /\ \A b \in Actor \ {a} : g[b] = f[b]
  BY <1>5, <1>18, <1>3 DEF Good, Dies
<1>21. "ssi" \in Actor /\ "nucleus" \in Actor /\ \A b \in Actor : b = "ssi" \/ b = "nucleus"
  BY DEF Actor
<1>22. \A b \in Actor : f[b] \in Frame /\ FrameType(f[b]) /\ OutOf(l, f[b])
  BY <1>3 DEF Good, Dies
<1>23. \A b \in Actor : FrameType(g[b]) /\ OutOf(k, g[b])
  <2> SUFFICES ASSUME NEW b \in Actor \ {a}  PROVE FrameType(f[b]) /\ OutOf(k, f[b])
    BY <1>18, <1>19, <1>20
  <2>1. /\ PastChild(f[b]) \subseteq ToSet(f[b].stack) /\ PastReady(f[b]) \subseteq ToSet(f[b].stack)
        /\ PastIO(f[b]) \subseteq ToSet(f[b].stack) /\ ToSet(f[b].stack) \subseteq Pcb
    BY <1>22, PastFacts
  <2>2. v \notin ToSet(f[b].stack)
    BY <1>3
  <2>3. ToSet(f[b].stack) \subseteq InUse(k) \ {ssi_pcb_real}
    BY <1>10, <1>22, <2>2 DEF OutOf
  <2> QED BY <1>13, <1>22, <2>1, <2>2, <2>3 DEF OutOf
<1>24. \A b \in Actor : ToSet(g[b].stack) \subseteq ToSet(f[b].stack)
  BY <1>1, <1>3, <1>18, <1>20
<1>25. \A b \in Actor : \A K, M : M \subseteq K => Doomed(l, f[b], K) \subseteq Doomed(k, g[b], M)
  BY <1>10, <1>14, <1>15, <1>24 DEF Doomed, Kids
<1>26. Dies(k, s, g)
  <2>1. /\ Doomed(l, f["ssi"], {}) # {}
        /\ f["ssi"].stack # <<>> => s = SsiIdle
        /\ Doomed(l, f["nucleus"], ServedBy(s) \cup ToSet(f["ssi"].stack)) # {}
    BY <1>3 DEF Good, Dies
  <2>2. Doomed(k, g["ssi"], {}) # {}
    <3>1. Doomed(l, f["ssi"], {}) \subseteq Doomed(k, g["ssi"], {})
      BY <1>21, <1>25
    <3> QED BY <2>1, <3>1
  <2>3. Doomed(k, g["nucleus"], ServedBy(s) \cup ToSet(g["ssi"].stack)) # {}
    <3>1. PICK K, M : K = ServedBy(s) \cup ToSet(f["ssi"].stack) /\ M = ServedBy(s) \cup ToSet(g["ssi"].stack)
      OBVIOUS
    <3>2. M \subseteq K
      BY <1>21, <1>24, <3>1
    <3>3. Doomed(l, f["nucleus"], K) \subseteq Doomed(k, g["nucleus"], M)
      BY <1>21, <1>25, <3>2
    <3> QED BY <2>1, <3>1, <3>3
  <2>4. g["ssi"].stack # <<>> => s = SsiIdle
    BY <1>1, <1>3, <1>20, <1>21, <2>1
  <2> QED BY <1>20, <1>23, <2>2, <2>3, <2>4 DEF Dies
<1>27. AllTied(k, par, g)
  <2> SUFFICES ASSUME NEW q \in InUse(k), \A b \in Actor : q \notin PastChild(g[b])
               PROVE  Tied(k, par, q)
    BY DEF AllTied
  <2>1. q \in InUse(l) /\ q # v /\ q \in Pcb
    BY <1>10, <1>11
  <2>2. \A b \in Actor : q \notin PastChild(f[b])
    BY <1>1, <1>3, <1>7, <1>18, <1>20, <2>1
  <2>3. Tied(l, par, q)
    BY <1>3, <2>1, <2>2 DEF Good, AllTied
  <2>4. CASE par[q] = NOBODY /\ p_sib(q) \notin Held(l)
    BY <1>13, <2>1, <2>4 DEF Tied
  <2>5. CASE par[q] \in InUse(l) /\ p_sib(q) \in ToSet(Entries(l, p_child(par[q])))
    <3>1. par[q] # v
      BY <1>9, <2>5 DEF ToSet
    <3>2. par[q] \in InUse(k)
      BY <1>10, <2>5, <3>1
    <3> QED BY <1>14, <2>5, <3>2 DEF Tied
  <2> QED BY <2>3, <2>4, <2>5 DEF Tied
<1>28. g["nucleus"] = NoFrame => Runs(k, c)
  <2>1. CASE a = "nucleus"
    BY <1>18, <1>20, <2>1
  <2>2. CASE a = "ssi"
    BY <1>3, <1>10, <1>11, <1>13, <2>2 DEF Good, Runs
  <2> QED BY <1>21, <2>1, <2>2
<1>29. c \notin PastReady(g["ssi"])
  <2>1. PastReady(y) \subseteq PastReady(x)
    BY <1>3, <1>7, <1>18
  <2>2. c \notin PastReady(f["ssi"])
    BY <1>3 DEF Good
  <2> QED BY <1>1, <1>20, <1>21, <2>1, <2>2
<1>30. InService(k, c, s)
  <2>1. CASE a = "ssi"
    BY <1>3, <2>1 DEF InService
  <2>2. CASE a = "nucleus"
    <3>1. InService(l, c, s) /\ v \notin ServedBy(s)
      BY <1>3, <2>2 DEF Good
    <3>2. s # SsiIdle => s.p # v
      BY <1>3, <3>1, ServedFacts
    <3>3. s.pc \in {"insertChild", "insertReady"} => s.asker # v
      BY <1>3, <3>1, ServedFacts
    <3>4. CASE s = SsiIdle
      BY <3>4 DEF InService
    <3>5. CASE s # SsiIdle /\ Creating(l, c, s)
      BY <1>10, <1>11, <1>13, <3>2, <3>3, <3>5 DEF InService, Creating
    <3>6. CASE s # SsiIdle /\ DoingIo(l, s)
      BY <1>10, <1>11, <1>13, <3>2, <3>6 DEF InService, DoingIo
    <3> QED BY <3>1, <3>4, <3>5, <3>6 DEF InService
  <2> QED BY <1>21, <2>1, <2>2
<1>31. Good(k, par, c, s, g)
  <2>1. par \in [Pcb -> Pcb \cup {NOBODY}] /\ c \in Pcb \cup {NOBODY}
    BY <1>3 DEF Good
  <2> QED BY <1>10, <1>16, <1>26, <1>27, <1>28, <1>29, <1>30, <2>1 DEF Good
<1> QED BY <1>3, <1>6, <1>31 DEF QueuesInvariant

LEMMA TrapEndsKeeps ==
    ASSUME QueuesInvariant, TrapEnds
    PROVE  QueuesInvariant'
<1>1. PICK l, par, s, f, k, c, g :
         /\ l = links /\ par = p_parent /\ s = ssi /\ f = frame
         /\ k = WithoutFirst(l) /\ c = First(l) /\ g = [f EXCEPT !["nucleus"] = NoFrame]
  OBVIOUS
<1>2. /\ f["nucleus"].pc = "scheduler" /\ links' = k /\ current_process' = c
      /\ frame' = g /\ p_parent' = par /\ m_sender' = m_sender /\ ssi' = s
  BY <1>1 DEF TrapEnds, TermAt, Schedules
<1>3. Good(l, par, current_process, s, f) /\ m_sender \in [Msg -> Pcb \cup {NOBODY}]
  BY <1>1 DEF QueuesInvariant
<1>4. Good(k, par, c, s, f) /\ Runs(k, c)
  BY <1>1, <1>3, GoodSchedules
<1>5. "ssi" \in Actor /\ "nucleus" \in Actor /\ \A b \in Actor : b = "ssi" \/ b = "nucleus"
  BY DEF Actor
<1>6. /\ f \in [Actor -> Frame] /\ \A b \in Actor : f[b] \in Frame /\ FrameType(f[b]) /\ OutOf(k, f[b])
      /\ Doomed(k, f["ssi"], {}) # {} /\ (f["ssi"].stack # <<>> => s = SsiIdle)
  BY <1>4 DEF Good, Dies
<1>7. f["nucleus"].stack = <<>> /\ ToSet(<<>>) = {}
  BY <1>2, <1>5, <1>6 DEF FrameType, Stage, ToSet
<1>8. /\ NoFrame \in Frame /\ FrameType(NoFrame) /\ OutOf(k, NoFrame) /\ PastChild(NoFrame) = {}
      /\ \A K : {} \in Doomed(k, NoFrame, K)
  <2>1. NoFrame.pc = "idle" /\ NoFrame.stack = <<>> /\ NoFrame \in Frame
    BY DEF NoFrame, Frame, Idle
  <2>2. PastChild(NoFrame) = {} /\ PastReady(NoFrame) = {} /\ PastIO(NoFrame) = {}
    BY <1>7, <2>1 DEF Past, PastChild, PastReady, PastIO
  <2>3. Once(<<>>)
    BY DEF Once
  <2> QED BY <1>7, <2>1, <2>2, <2>3 DEF FrameType, Idle, OutOf, Doomed
<1>9. g \in [Actor -> Frame] /\ g["nucleus"] = NoFrame /\ g["ssi"] = f["ssi"]
  BY <1>1, <1>5, <1>6, <1>8
<1>10. Dies(k, s, g)
  BY <1>5, <1>6, <1>8, <1>9 DEF Dies
<1>11. AllTied(k, par, g)
  <2>1. PastChild(f["nucleus"]) = {}
    BY <1>5, <1>6, <1>7, PastFacts
  <2> QED BY <1>4, <1>5, <1>9, <2>1 DEF Good, AllTied
<1>12. Good(k, par, c, s, g)
  BY <1>4, <1>9, <1>10, <1>11 DEF Good
<1> QED BY <1>2, <1>3, <1>12 DEF QueuesInvariant
-----------------------------------------------------------------------------
(* main(): entries are added in front of an empty list, one by one.        *)

Reversed(N, e) == [j \in 1..N |-> e[N + 1 - j]]
Adds(N, l, e, h) ==
    {a \in [0..N -> Memory] : a[0] = l /\ \A i \in 1..N : a[i] = list_add(a[i - 1], e[i], h)}

LEMMA AddType ==
    ASSUME NEW l \in Memory, NEW e \in Node, NEW h \in Node
    PROVE  list_add(l, e, h) \in Memory
<1>1. PICK b \in Node : b = l[h].next
  BY DEF Memory
<1>2. PICK r \in [next : Node, prev : Node] : r = [next |-> b, prev |-> h]
  OBVIOUS
<1>3. PICK k1 \in Memory : k1 = [l EXCEPT ![b].prev = e]
  BY DEF Memory
<1>4. PICK k2 \in Memory : k2 = [k1 EXCEPT ![e] = r]
  BY DEF Memory
<1>5. PICK k3 \in Memory : k3 = [k2 EXCEPT ![h].next = e]
  BY DEF Memory
<1>6. list_add(l, e, h) = k3
  BY <1>1, <1>2, <1>3, <1>4, <1>5 DEF list_add, insert
<1> QED BY <1>6

LEMMA Adding ==
    ASSUME NEW N \in Nat, NEW l \in Memory, NEW h \in Node, NEW e \in [1..N -> Node]
    PROVE  Adds(N, l, e, h) # {}
<1>1. PICK step \in [(1..N) \X Memory -> Memory] :
         \A i \in 1..N, m \in Memory : step[<<i, m>>] = list_add(m, e[i], h)
  <2> DEFINE f == [k \in (1..N) \X Memory |-> list_add(k[2], e[k[1]], h)]
  <2>1. \A i \in 1..N, m \in Memory : list_add(m, e[i], h) \in Memory
    BY AddType
  <2>2. f \in [(1..N) \X Memory -> Memory]
    BY <2>1
  <2>3. \A i \in 1..N, m \in Memory : f[<<i, m>>] = list_add(m, e[i], h)
    OBVIOUS
  <2> QED BY <2>2, <2>3
<1>2. PICK g \in [0..N -> Memory] : g[0] = l /\ \A i \in 1..N : g[i] = step[<<i, g[i - 1]>>]
  <2>1. Passes(N, Memory, l, step) # {}
    BY Repeated
  <2> QED BY <2>1 DEF Passes
<1>3. ASSUME NEW i \in 1..N  PROVE g[i] = list_add(g[i - 1], e[i], h)
  <2>1. PICK m \in Memory : m = g[i - 1]
    OBVIOUS
  <2>2. step[<<i, m>>] = list_add(m, e[i], h)
    BY <1>1
  <2> QED BY <1>2, <2>1, <2>2
<1>4. g \in Adds(N, l, e, h)
  BY <1>2, <1>3 DEF Adds
<1> QED BY <1>4

LEMMA Added ==
    ASSUME NEW N \in Nat, NEW l, NEW H, Sound(l, H), NEW h \in H, Entries(l, h) = <<>>,
           NEW e \in [1..N -> EntryOf(h)], \A i, j \in 1..N : e[i] = e[j] => i = j,
           \A i \in 1..N : e[i] \notin HeldBy(l, H),
           NEW a \in Adds(N, l, e, h)
    PROVE  /\ Sound(a[N], H) /\ Entries(a[N], h) = Reversed(N, e)
           /\ \A g \in H : g # h => Entries(a[N], g) = Entries(l, g)
           /\ \A x \in HeldBy(a[N], H) : x \in HeldBy(l, H) \/ \E i \in 1..N : x = e[i]
<1> DEFINE Upto(i) == {e[j] : j \in 1..i}
           P == {i \in 0..N : /\ Sound(a[i], H) /\ Entries(a[i], h) = Reversed(i, e)
                              /\ \A g \in H : g # h => Entries(a[i], g) = Entries(l, g)
                              /\ HeldBy(a[i], H) = HeldBy(l, H) \cup Upto(i)}
<1>1. a[0] = l /\ \A i \in 1..N : a[i] = list_add(a[i - 1], e[i], h)
  BY DEF Adds
<1>2. 0 \in P
  <2>1. Reversed(0, e) = <<>> /\ Upto(0) = {}
    BY DEF Reversed
  <2> QED BY <1>1, <2>1
<1>3. ASSUME NEW i \in 1..N, i - 1 \in P  PROVE i \in P
  <2>1. PICK m, k, n : m = a[i - 1] /\ k = a[i] /\ n = e[i]
    OBVIOUS
  <2>2. /\ Sound(m, H) /\ Entries(m, h) = Reversed(i - 1, e)
        /\ \A g \in H : g # h => Entries(m, g) = Entries(l, g)
        /\ HeldBy(m, H) = HeldBy(l, H) \cup Upto(i - 1)
    BY <1>3, <2>1
  <2>3. k = list_add(m, n, h) /\ n \in EntryOf(h)
    BY <1>1, <2>1
  <2>4. n \notin HeldBy(m, H)
    <3>1. n \notin Upto(i - 1)
      BY <2>1
    <3> QED BY <2>1, <2>2, <3>1
  <2> HIDE DEF Upto
  <2>5. /\ Sound(k, H) /\ Entries(k, h) = <<n>> \o Entries(m, h)
        /\ \A g \in H \ {h} : Entries(k, g) = Entries(m, g)
        /\ HeldBy(k, H) = HeldBy(m, H) \cup {n}
    BY <2>2, <2>3, <2>4, SoundFront
  <2>6. <<n>> \o Reversed(i - 1, e) = Reversed(i, e)
    <3>1. PICK q : q = Reversed(i - 1, e)
      OBVIOUS
    <3>2. /\ q \in Seq(EntryOf(h)) /\ Len(q) = i - 1
          /\ \A j \in 1..(i - 1) : q[j] = e[i - j]
      BY <3>1 DEF Reversed
    <3>3. PICK r : r = <<n>> \o q
      OBVIOUS
    <3>4. /\ r \in Seq(EntryOf(h)) /\ Len(r) = i /\ r[1] = n
          /\ \A j \in 2..i : r[j] = q[j - 1]
      BY <2>3, <3>2, <3>3
    <3>5. \A j \in 1..i : r[j] = e[i + 1 - j]
      BY <2>1, <3>2, <3>4
    <3>6. r = [j \in 1..i |-> e[i + 1 - j]]
      BY <3>4, <3>5
    <3> QED BY <3>1, <3>3, <3>6 DEF Reversed
  <2>7. Upto(i) = Upto(i - 1) \cup {n}
    BY <2>1 DEF Upto
  <2>8. i \in 0..N /\ a[i] = k
    BY <2>1
  <2> QED BY <2>2, <2>5, <2>6, <2>7, <2>8
<1>4. 0..N \subseteq P
  <2> HIDE DEF P
  <2> QED BY <1>2, <1>3, Upwards
<1>5. N \in P
  BY <1>4
<1> QED BY <1>5

PcbNode == [i \in 1..MaxProc |-> p_list(i)]
MsgNode == [i \in 1..MaxMsg |-> m_list(i)]

LEMMA PoolNodes ==
    /\ MaxProc \in Nat /\ MaxMsg \in Nat
    /\ PcbNode \in [1..MaxProc -> PList] /\ \A i, j \in 1..MaxProc : PcbNode[i] = PcbNode[j] => i = j
    /\ MsgNode \in [1..MaxMsg -> Mail] /\ \A i, j \in 1..MaxMsg : MsgNode[i] = MsgNode[j] => i = j
    /\ PcbNode \in [1..MaxProc -> Node] /\ MsgNode \in [1..MaxMsg -> Node]
    /\ \A i \in 1..MaxProc : PcbNode[i] = p_list(i)
    /\ \A i \in 1..MaxMsg : MsgNode[i] = m_list(i)
<1>1. MaxProc \in Nat /\ MaxMsg \in Nat /\ Pcb = 1..MaxProc /\ Msg = 1..MaxMsg
  BY ListsAssumption DEF Pcb, Msg
<1>2. \A i, j \in 1..MaxProc : p_list(i) = p_list(j) => i = j
  BY <1>1, PcbNodes
<1>3. \A i, j \in 1..MaxMsg : m_list(i) = m_list(j) => i = j
  BY <1>1, MsgNodes
<1>4. \A i \in 1..MaxProc : p_list(i) \in PList /\ p_list(i) \in Node
  BY <1>1, PcbNodes DEF PList
<1>5. \A i \in 1..MaxMsg : m_list(i) \in Mail /\ m_list(i) \in Node
  BY <1>1, MsgNodes DEF Mail
<1> QED BY <1>1, <1>2, <1>3, <1>4, <1>5 DEF PcbNode, MsgNode

LEMMA PcbsAdded ==
    ASSUME NEW l \in Memory
    PROVE  \E a \in Adds(MaxProc, l, PcbNode, pcbFree_h) : initPcbs(l) = a[MaxProc]
<1> DEFINE N == MaxProc
           added == CHOOSE f : f = [i \in 0..N |-> IF i = 0 THEN l ELSE freePcb(f[i - 1], i)]
<1>1. N \in Nat /\ pcbFree_h \in Node /\ \A i \in 1..N : i \in 0..N /\ i # 0
  BY ListsAssumption, Heads, EntryNodes
<1>2. initPcbs(l) = added[N]
  BY DEF initPcbs, N
<1> HIDE DEF N
<1>3. PICK g \in Adds(N, l, PcbNode, pcbFree_h) : TRUE
  BY <1>1, PoolNodes, Adding DEF N
<1>4. g = [i \in 0..N |-> IF i = 0 THEN l ELSE freePcb(g[i - 1], i)]
  <2>1. g \in [0..N -> Memory] /\ g[0] = l
    BY DEF Adds
  <2>2. \A i \in 1..N : g[i] = freePcb(g[i - 1], i)
    BY PoolNodes DEF Adds, freePcb, N
  <2>3. \A i \in 0..N : i = 0 \/ i \in 1..N
    BY <1>1
  <2> QED BY <2>1, <2>2, <2>3
<1>5. added = [i \in 0..N |-> IF i = 0 THEN l ELSE freePcb(added[i - 1], i)]
  BY <1>4
<1> HIDE DEF added
<1>6. added[0] = l /\ \A i \in 1..N : added[i] = list_add(added[i - 1], PcbNode[i], pcbFree_h)
  <2>1. \A i \in 0..N : added[i] = IF i = 0 THEN l ELSE freePcb(added[i - 1], i)
    BY <1>5, Zenon
  <2>2. 0 \in 0..N
    BY <1>1
  <2>3. added[0] = l
    BY <2>1, <2>2
  <2>4. \A i \in 1..N : added[i] = freePcb(added[i - 1], i)
    BY <1>1, <2>1, Zenon
  <2> QED BY <2>3, <2>4, PoolNodes DEF freePcb, N
<1>7. added \in [0..N -> Memory]
  <2> DEFINE P == {i \in 0..N : added[i] \in Memory}
  <2>1. 0 \in P
    BY <1>1, <1>6
  <2>2. ASSUME NEW i \in 1..N, i - 1 \in P  PROVE i \in P
    <3>1. PICK m \in Memory : m = added[i - 1]
      BY <2>2
    <3>2. PcbNode[i] \in Node
      BY PoolNodes DEF N
    <3>3. list_add(m, PcbNode[i], pcbFree_h) \in Memory
      BY <1>1, <3>2, AddType
    <3> QED BY <1>1, <1>6, <3>1, <3>3
  <2>3. 0..N \subseteq P
    <3> HIDE DEF P
    <3> QED BY <1>1, <2>1, <2>2, Upwards
  <2> QED BY <1>5, <2>3
<1>8. added \in Adds(N, l, PcbNode, pcbFree_h)
  BY <1>6, <1>7 DEF Adds
<1> QED BY <1>2, <1>8 DEF N

LEMMA MsgsAdded ==
    ASSUME NEW l \in Memory
    PROVE  \E a \in Adds(MaxMsg, l, MsgNode, msgFree_h) : initMsgs(l) = a[MaxMsg]
<1> DEFINE N == MaxMsg
           added == CHOOSE f : f = [i \in 0..N |-> IF i = 0 THEN l ELSE freeMsg(f[i - 1], i)]
<1>1. N \in Nat /\ msgFree_h \in Node /\ \A i \in 1..N : i \in 0..N /\ i # 0
  BY ListsAssumption, Heads, EntryNodes
<1>2. initMsgs(l) = added[N]
  BY DEF initMsgs, N
<1> HIDE DEF N
<1>3. PICK g \in Adds(N, l, MsgNode, msgFree_h) : TRUE
  BY <1>1, PoolNodes, Adding DEF N
<1>4. g = [i \in 0..N |-> IF i = 0 THEN l ELSE freeMsg(g[i - 1], i)]
  <2>1. g \in [0..N -> Memory] /\ g[0] = l
    BY DEF Adds
  <2>2. \A i \in 1..N : g[i] = freeMsg(g[i - 1], i)
    BY PoolNodes DEF Adds, freeMsg, N
  <2>3. \A i \in 0..N : i = 0 \/ i \in 1..N
    BY <1>1
  <2> QED BY <2>1, <2>2, <2>3
<1>5. added = [i \in 0..N |-> IF i = 0 THEN l ELSE freeMsg(added[i - 1], i)]
  BY <1>4
<1> HIDE DEF added
<1>6. added[0] = l /\ \A i \in 1..N : added[i] = list_add(added[i - 1], MsgNode[i], msgFree_h)
  <2>1. \A i \in 0..N : added[i] = IF i = 0 THEN l ELSE freeMsg(added[i - 1], i)
    BY <1>5, Zenon
  <2>2. 0 \in 0..N
    BY <1>1
  <2>3. added[0] = l
    BY <2>1, <2>2
  <2>4. \A i \in 1..N : added[i] = freeMsg(added[i - 1], i)
    BY <1>1, <2>1, Zenon
  <2> QED BY <2>3, <2>4, PoolNodes DEF freeMsg, N
<1>7. added \in [0..N -> Memory]
  <2> DEFINE P == {i \in 0..N : added[i] \in Memory}
  <2>1. 0 \in P
    BY <1>1, <1>6
  <2>2. ASSUME NEW i \in 1..N, i - 1 \in P  PROVE i \in P
    <3>1. PICK m \in Memory : m = added[i - 1]
      BY <2>2
    <3>2. MsgNode[i] \in Node
      BY PoolNodes DEF N
    <3>3. list_add(m, MsgNode[i], msgFree_h) \in Memory
      BY <1>1, <3>2, AddType
    <3> QED BY <1>1, <1>6, <3>1, <3>3
  <2>3. 0..N \subseteq P
    <3> HIDE DEF P
    <3> QED BY <1>1, <2>1, <2>2, Upwards
  <2> QED BY <1>5, <2>3
<1>8. added \in Adds(N, l, MsgNode, msgFree_h)
  BY <1>6, <1>7 DEF Adds
<1> QED BY <1>2, <1>8 DEF N

(* The pools of main().                                                    *)
Static == [n \in Node |-> IF n \in KernelHead THEN [next |-> n, prev |-> n] ELSE NullLinks]
FreePcbs == Reversed(MaxProc, PcbNode)
FreeMsgs == Reversed(MaxMsg, MsgNode)

LEMMA StaticLists ==
    Sound(Static, KernelHead) /\ \A h \in KernelHead : Entries(Static, h) = <<>>
<1>1. KernelHead \subseteq ListHead /\ \A h \in KernelHead : h \in Node
  BY Heads, EntryNodes
<1>2. Static \in Memory
  <2>1. NULL \in Node
    BY ListsAssumption DEF NULL, Node, msgTable, Stride
  <2> QED BY <2>1 DEF Static, Memory, NullLinks
<1>3. ASSUME NEW h \in KernelHead  PROVE Entries(Static, h) = <<>> /\ Filled(Static, h)
  <2>1. Static[h].next = h /\ Static[h].prev = h
    BY <1>1 DEF Static
  <2>2. Holds(Static, h, <<>>) /\ Listed(h, <<>>)
    BY <1>1, <2>1, HoldsNothing
  <2>3. ToSet(<<>>) = {}
    BY DEF ToSet
  <2>4. ToSet(<<>>) \subseteq EntryOf(h)
    BY <2>3
  <2> QED BY <1>1, <1>2, <2>2, <2>4, FilledBy
<1>4. \A h \in KernelHead : ToSet(Entries(Static, h)) = {}
  BY <1>3 DEF ToSet
<1> QED BY <1>1, <1>2, <1>3, <1>4 DEF Sound

LEMMA PoolLists ==
    ASSUME NEW l, l = initMsgs(initPcbs(Static))
    PROVE  /\ Intact(l) /\ HeadsOf(l) = KernelHead /\ InUse(l) = {}
           /\ Entries(l, pcbFree_h) = FreePcbs /\ Entries(l, msgFree_h) = FreeMsgs
           /\ \A h \in KernelHead : h # pcbFree_h /\ h # msgFree_h => Entries(l, h) = <<>>
           /\ Held(l) \subseteq PList \cup Mail
<1>1. PICK m : m = initPcbs(Static)
  OBVIOUS
<1>2. /\ Sound(Static, KernelHead) /\ Static \in Memory
      /\ \A h \in KernelHead : Entries(Static, h) = <<>>
  BY StaticLists DEF Sound
<1>3. HeldBy(Static, KernelHead) = {}
  BY <1>2 DEF HeldBy, ToSet
<1>4. /\ pcbFree_h \in KernelHead /\ msgFree_h \in KernelHead /\ pcbFree_h # msgFree_h
      /\ EntryOf(pcbFree_h) = PList /\ EntryOf(msgFree_h) = Mail
  BY Heads, EntriesOf
<1>5. PICK a \in Adds(MaxProc, Static, PcbNode, pcbFree_h) : m = a[MaxProc]
  BY <1>1, <1>2, PcbsAdded
<1>6. /\ Sound(m, KernelHead) /\ Entries(m, pcbFree_h) = FreePcbs
      /\ \A h \in KernelHead : h # pcbFree_h => Entries(m, h) = <<>>
      /\ HeldBy(m, KernelHead) \subseteq PList
  <2>1. /\ MaxProc \in Nat /\ PcbNode \in [1..MaxProc -> EntryOf(pcbFree_h)]
        /\ \A i, j \in 1..MaxProc : PcbNode[i] = PcbNode[j] => i = j
        /\ \A i \in 1..MaxProc : PcbNode[i] \notin HeldBy(Static, KernelHead)
        /\ Entries(Static, pcbFree_h) = <<>>
    BY <1>2, <1>3, <1>4, PoolNodes
  <2>2. /\ Sound(m, KernelHead) /\ Entries(m, pcbFree_h) = FreePcbs
        /\ \A h \in KernelHead : h # pcbFree_h => Entries(m, h) = Entries(Static, h)
        /\ \A x \in HeldBy(m, KernelHead) : x \in HeldBy(Static, KernelHead) \/ \E i \in 1..MaxProc : x = PcbNode[i]
    BY <1>2, <1>4, <1>5, <2>1, Added DEF FreePcbs
  <2> QED BY <1>2, <1>3, <2>2, PoolNodes
<1>7. m \in Memory
  BY <1>6 DEF Sound
<1>8. PICK b \in Adds(MaxMsg, m, MsgNode, msgFree_h) : l = b[MaxMsg]
  BY <1>1, <1>7, MsgsAdded
<1>9. /\ Sound(l, KernelHead) /\ Entries(l, msgFree_h) = FreeMsgs
      /\ \A h \in KernelHead : h # msgFree_h => Entries(l, h) = Entries(m, h)
      /\ HeldBy(l, KernelHead) \subseteq PList \cup Mail
  <2>1. /\ MaxMsg \in Nat /\ MsgNode \in [1..MaxMsg -> EntryOf(msgFree_h)]
        /\ \A i, j \in 1..MaxMsg : MsgNode[i] = MsgNode[j] => i = j
        /\ \A i \in 1..MaxMsg : MsgNode[i] \notin HeldBy(m, KernelHead)
        /\ Entries(m, msgFree_h) = <<>>
    BY <1>4, <1>6, PoolNodes, Uses
  <2>2. /\ Sound(l, KernelHead) /\ Entries(l, msgFree_h) = FreeMsgs
        /\ \A h \in KernelHead : h # msgFree_h => Entries(l, h) = Entries(m, h)
        /\ \A x \in HeldBy(l, KernelHead) : x \in HeldBy(m, KernelHead) \/ \E i \in 1..MaxMsg : x = MsgNode[i]
    BY <1>4, <1>6, <1>8, <2>1, Added DEF FreeMsgs
  <2> QED BY <1>6, <2>2, PoolNodes
<1>10. Entries(l, pcbFree_h) = FreePcbs
  BY <1>4, <1>6, <1>9
<1>11. InUse(l) = {}
  <2>1. \A p \in Pcb : \E j \in 1..MaxProc : MaxProc + 1 - j = p
    <3> SUFFICES ASSUME NEW p \in Pcb  PROVE \E j \in 1..MaxProc : MaxProc + 1 - j = p
      OBVIOUS
    <3>1. MaxProc + 1 - p \in 1..MaxProc /\ MaxProc + 1 - (MaxProc + 1 - p) = p
      BY ListsAssumption DEF Pcb
    <3> QED BY <3>1
  <2>2. \A p \in Pcb : p_list(p) \in ToSet(FreePcbs)
    <3> SUFFICES ASSUME NEW p \in Pcb  PROVE p_list(p) \in ToSet(FreePcbs)
      OBVIOUS
    <3>1. PICK j \in 1..MaxProc : MaxProc + 1 - j = p
      BY <2>1
    <3>2. PcbNode[p] = p_list(p)
      BY PoolNodes DEF Pcb
    <3>3. FreePcbs[j] = p_list(p) /\ j \in DOMAIN FreePcbs
      BY <3>1, <3>2 DEF FreePcbs, Reversed
    <3> QED BY <3>3 DEF ToSet
  <2>3. \A p \in Pcb : container_of(p_list(p)) = p
    BY PcbNodes
  <2> QED BY <1>10, <2>2, <2>3 DEF InUse
<1>12. HeadsOf(l) = KernelHead
  BY <1>11 DEF HeadsOf
<1> QED BY <1>6, <1>9, <1>10, <1>11, <1>12 DEF Intact, Held

(* A process of main(): allocated, and made ready.                         *)
LEMMA BootProcess ==
    ASSUME NEW l, Intact(l), NEW p \in Pcb, NEW q, q = Entries(l, pcbFree_h), q # <<>>,
           Head(q) = p_list(p), Held(l) \subseteq PList \cup Mail,
           NEW k, k = MakeReady(allocPcb(l), p)
    PROVE  /\ Intact(k) /\ InUse(k) = InUse(l) \cup {p} /\ HeadsOf(k) = HeadsOf(l) \cup PcbHead(p)
           /\ container_of(l[pcbFree_h].next) = p
           /\ Entries(k, pcbFree_h) = Tail(q)
           /\ Entries(k, ready_queue) = Append(Entries(l, ready_queue), p_list(p))
           /\ \A h \in HeadsOf(l) : h # pcbFree_h /\ h # ready_queue => Entries(k, h) = Entries(l, h)
           /\ \A h \in PcbHead(p) : Entries(k, h) = <<>>
           /\ Held(k) \subseteq PList \cup Mail
<1>1. PICK m : m = allocPcb(l)
  OBVIOUS
<1>2. pcbFree_h \in HeadsOf(l) /\ ready_queue \in HeadsOf(l) /\ ready_queue # pcbFree_h
  BY LiveHeads, Heads
<1>3. ~ list_empty(l, pcbFree_h) /\ l[pcbFree_h].next = p_list(p)
  BY <1>2, ListFacts
<1>4. p = container_of(l[pcbFree_h].next) /\ p_list(p) \in PList
  BY <1>3, PcbNodes DEF PList
<1>5. p_sib(p) \notin Held(l) /\ p_io(p) \notin Held(l)
  BY Uses DEF Sib, Io
<1>6. /\ p \in Pcb \ InUse(l) /\ Intact(m) /\ InUse(m) = InUse(l) \cup {p}
      /\ HeadsOf(m) = HeadsOf(l) \cup PcbHead(p)
      /\ Entries(m, pcbFree_h) = Tail(Entries(l, pcbFree_h)) /\ Only(l, m, pcbFree_h)
      /\ \A h \in PcbHead(p) : Entries(m, h) = <<>>
      /\ Held(m) = Held(l) \ {p_list(p)}
  BY <1>1, <1>3, <1>4, <1>5, Allocated
<1>7. p \in InUse(m) /\ p_list(p) \notin Held(m)
  BY <1>6
<1>8. /\ Same(m, k) /\ Only(m, k, ready_queue)
      /\ Entries(k, ready_queue) = Append(Entries(m, ready_queue), p_list(p))
      /\ Held(k) = Held(m) \cup {p_list(p)}
  BY <1>1, <1>6, <1>7, InReady
<1>9. Entries(m, ready_queue) = Entries(l, ready_queue)
  BY <1>2, <1>6 DEF Only
<1>10. Entries(k, pcbFree_h) = Tail(q)
  BY <1>2, <1>6, <1>8 DEF Only
<1>11. \A h \in HeadsOf(l) : h # pcbFree_h /\ h # ready_queue => Entries(k, h) = Entries(l, h)
  BY <1>6, <1>8 DEF Only
<1>12. \A h \in PcbHead(p) : Entries(k, h) = <<>>
  <2>1. \A h \in PcbHead(p) : h \in HeadsOf(m) /\ h # ready_queue
    BY <1>6, Heads
  <2> QED BY <1>6, <1>8, <2>1 DEF Only
<1>13. Held(k) \subseteq PList \cup Mail
  BY <1>4, <1>6, <1>8
<1> QED BY <1>4, <1>6, <1>8, <1>9, <1>10, <1>11, <1>12, <1>13 DEF Same

LEMMA BootFacts ==
    ASSUME NEW l, l = BootLinks
    PROVE  /\ Intact(l) /\ InUse(l) = {ssi_pcb_real, test_pcb}
           /\ Entries(l, pcbFree_h) = Tail(Tail(FreePcbs)) /\ Entries(l, msgFree_h) = FreeMsgs
           /\ Entries(l, ready_queue) = Append(Append(<<>>, p_list(ssi_pcb_real)), p_list(test_pcb))
           /\ \A h \in HeadsOf(l) : h \notin {pcbFree_h, msgFree_h, ready_queue} => Entries(l, h) = <<>>
           /\ Held(l) \subseteq PList \cup Mail
<1>1. PICK m, k, a, b :
         /\ m = initMsgs(initPcbs(Static)) /\ k = MakeReady(allocPcb(m), ssi_pcb_real)
         /\ a = ssi_pcb_real /\ b = test_pcb
  OBVIOUS
<1>2. l = MakeReady(allocPcb(k), b)
  BY <1>1 DEF BootLinks, Static
<1>3. /\ MaxProc \in Nat /\ MaxProc >= 2 /\ a = MaxProc /\ b = MaxProc - 1
      /\ a \in Pcb /\ b \in Pcb /\ a # b
  BY <1>1, ListsAssumption DEF ssi_pcb_real, test_pcb, Pcb
<1>4. /\ FreePcbs # <<>> /\ Head(FreePcbs) = p_list(a) /\ Tail(FreePcbs) # <<>>
      /\ Head(Tail(FreePcbs)) = p_list(b)
  <2>1. FreePcbs \in Seq(PList) /\ Len(FreePcbs) = MaxProc
    BY <1>3, PoolNodes DEF FreePcbs, Reversed
  <2>2. FreePcbs[1] = p_list(a) /\ FreePcbs[2] = p_list(b)
    BY <1>3, PoolNodes DEF FreePcbs, Reversed
  <2>3. FreePcbs # <<>> /\ Head(FreePcbs) = FreePcbs[1]
    BY <1>3, <2>1
  <2>4. /\ Tail(FreePcbs) \in Seq(PList) /\ Len(Tail(FreePcbs)) = MaxProc - 1
        /\ Tail(FreePcbs)[1] = FreePcbs[2]
    BY <1>3, <2>1, <2>3
  <2>5. Tail(FreePcbs) # <<>> /\ Head(Tail(FreePcbs)) = FreePcbs[2]
    <3>1. PICK t \in Seq(PList) : t = Tail(FreePcbs)
      BY <2>4
    <3>2. Len(t) \in Nat /\ Len(t) >= 1 /\ t[1] = FreePcbs[2]
      BY <1>3, <2>4, <3>1
    <3>3. t # <<>> /\ Head(t) = t[1]
      BY <3>2
    <3> QED BY <3>1, <3>2, <3>3
  <2> QED BY <2>2, <2>3, <2>5
<1>5. /\ Intact(m) /\ HeadsOf(m) = KernelHead /\ InUse(m) = {}
      /\ Entries(m, pcbFree_h) = FreePcbs /\ Entries(m, msgFree_h) = FreeMsgs
      /\ \A h \in KernelHead : h # pcbFree_h /\ h # msgFree_h => Entries(m, h) = <<>>
      /\ Held(m) \subseteq PList \cup Mail
  BY <1>1, PoolLists
<1>6. /\ Intact(k) /\ InUse(k) = {a} /\ HeadsOf(k) = KernelHead \cup PcbHead(a)
      /\ Entries(k, pcbFree_h) = Tail(FreePcbs)
      /\ Entries(k, ready_queue) = Append(Entries(m, ready_queue), p_list(a))
      /\ \A h \in KernelHead : h # pcbFree_h /\ h # ready_queue => Entries(k, h) = Entries(m, h)
      /\ \A h \in PcbHead(a) : Entries(k, h) = <<>>
      /\ Held(k) \subseteq PList \cup Mail
  <2>1. PICK q : q = Entries(m, pcbFree_h) /\ q # <<>> /\ Head(q) = p_list(a)
    BY <1>4, <1>5
  <2>2. k = MakeReady(allocPcb(m), a)
    BY <1>1
  <2> QED BY <1>3, <1>5, <2>1, <2>2, BootProcess
<1>7. /\ Intact(l) /\ InUse(l) = {a} \cup {b} /\ HeadsOf(l) = HeadsOf(k) \cup PcbHead(b)
      /\ Entries(l, pcbFree_h) = Tail(Tail(FreePcbs))
      /\ Entries(l, ready_queue) = Append(Entries(k, ready_queue), p_list(b))
      /\ \A h \in HeadsOf(k) : h # pcbFree_h /\ h # ready_queue => Entries(l, h) = Entries(k, h)
      /\ \A h \in PcbHead(b) : Entries(l, h) = <<>>
      /\ Held(l) \subseteq PList \cup Mail
  <2>1. PICK q : q = Entries(k, pcbFree_h) /\ q # <<>> /\ Head(q) = p_list(b)
    BY <1>4, <1>6
  <2>2. Tail(q) = Tail(Tail(FreePcbs))
    BY <1>6, <2>1
  <2>3. Intact(k) /\ b \in Pcb /\ Held(k) \subseteq PList \cup Mail /\ l = MakeReady(allocPcb(k), b)
    BY <1>2, <1>3, <1>6
  <2>4. /\ Intact(l) /\ InUse(l) = InUse(k) \cup {b} /\ HeadsOf(l) = HeadsOf(k) \cup PcbHead(b)
        /\ Entries(l, pcbFree_h) = Tail(q)
        /\ Entries(l, ready_queue) = Append(Entries(k, ready_queue), p_list(b))
        /\ \A h \in HeadsOf(k) : h # pcbFree_h /\ h # ready_queue => Entries(l, h) = Entries(k, h)
        /\ \A h \in PcbHead(b) : Entries(l, h) = <<>>
        /\ Held(l) \subseteq PList \cup Mail
    BY <2>1, <2>3, BootProcess
  <2> QED BY <1>6, <2>2, <2>4
<1>8. /\ msgFree_h \in KernelHead /\ msgFree_h # pcbFree_h /\ msgFree_h # ready_queue
      /\ ready_queue \in KernelHead /\ ready_queue # pcbFree_h
  BY Heads
<1>9. Entries(l, msgFree_h) = FreeMsgs
  BY <1>5, <1>6, <1>7, <1>8
<1>10. Entries(m, ready_queue) = <<>>
  BY <1>5, <1>8
<1>11. \A h \in HeadsOf(l) : h \notin {pcbFree_h, msgFree_h, ready_queue} => Entries(l, h) = <<>>
  BY <1>5, <1>6, <1>7
<1> QED BY <1>1, <1>6, <1>7, <1>9, <1>10, <1>11

LEMMA InitGood ==
    ASSUME Init
    PROVE  QueuesInvariant
<1>1. PICK l, k, c, par, s, f : /\ l = BootLinks /\ k = WithoutFirst(l) /\ c = First(l)
                                /\ par = p_parent /\ s = ssi /\ f = frame
  OBVIOUS
<1>2. /\ links = k /\ current_process = c /\ s = SsiIdle
      /\ par = [p \in Pcb |-> NOBODY] /\ f = [a \in Actor |-> NoFrame]
      /\ m_sender = [m \in Msg |-> NOBODY]
  BY <1>1 DEF Init
<1>3. Quiet(f)
  <2>1. NoFrame \in Frame
    BY DEF NoFrame, Frame, Idle
  <2> QED BY <1>2, <2>1 DEF Quiet
<1>4. /\ Intact(l) /\ InUse(l) = {ssi_pcb_real, test_pcb}
      /\ Held(l) \subseteq PList \cup Mail
  BY <1>1, BootFacts
<1>5. \A p \in Pcb : p_sib(p) \notin Held(l) /\ p_io(p) \notin Held(l)
  BY <1>4, Uses DEF Sib, Io
<1>6. InUse(l) \subseteq Pcb
  BY <1>4, InUseFacts
<1>7. FreeAlone(l) /\ SsiLives(l) /\ Runs(l, NOBODY) /\ InService(l, NOBODY, s)
  BY <1>2, <1>4, <1>5, <1>6 DEF FreeAlone, SsiLives, Runs, InService
<1>8. par \in [Pcb -> Pcb \cup {NOBODY}] /\ \A q \in InUse(l) : Tied(l, par, q)
  BY <1>2, <1>5, <1>6 DEF Tied
<1>9. Good(l, par, NOBODY, s, f)
  BY <1>3, <1>4, <1>7, <1>8, GoodQuiet
<1>10. Good(k, par, c, s, f)
  BY <1>1, <1>9, GoodSchedules
<1> QED BY <1>1, <1>2, <1>10 DEF QueuesInvariant
-----------------------------------------------------------------------------
(* The properties.                                                         *)

LEMMA StepKeeps ==
    ASSUME Liberty = {}, QueuesInvariant, [Next]_vars
    PROVE  QueuesInvariant'
<1>1. CASE UNCHANGED vars
  BY <1>1 DEF vars, QueuesInvariant
<1>2. CASE Preempt
  BY <1>2, PreemptKeeps
<1>3. CASE Interrupt
  BY <1>3, InterruptKeeps
<1>4. CASE Traps
  BY <1>4, TrapsKeeps
<1>5. CASE TrapEnds
  BY <1>5, TrapEndsKeeps
<1>6. ASSUME NEW p \in Pcb, Sends(p) \/ CreateAllocates(p) \/ WaitForClock(p) \/ SsiTerminates(p)
      PROVE  QueuesInvariant'
  BY <1>6, SendsKeeps, CreateAllocatesKeeps, WaitForClockKeeps, SsiTerminatesKeeps
<1>7. ASSUME NEW p \in Pcb, NEW d \in Device, DoIoRemoves(p, d)  PROVE QueuesInvariant'
  BY <1>7, DoIoRemovesKeeps
<1>8. ASSUME NEW s \in Pcb \cup {NOBODY}, Receives(s)  PROVE QueuesInvariant'
  BY <1>8, ReceivesKeeps
<1>9. CASE CreateInsertsChild
  BY <1>9, CreateInsertsChildKeeps
<1>10. CASE CreateInsertsReady
  BY <1>10, CreateInsertsReadyKeeps
<1>11. CASE DoIoInserts
  BY <1>11, DoIoInsertsKeeps
<1>12. ASSUME NEW h \in IoHead, Answers(h)  PROVE QueuesInvariant'
  BY <1>12, AnswersKeeps
<1>13. ASSUME NEW a \in Actor, Terminate(a)  PROVE QueuesInvariant'
  BY <1>13, TermOutChildKeeps, TermOutReadyKeeps, TermOutIOKeeps, TermNextChildKeeps,
     TermFreesKeeps DEF Terminate
<1> QED BY <1>1, <1>2, <1>3, <1>4, <1>5, <1>6, <1>7, <1>8, <1>9, <1>10, <1>11, <1>12, <1>13
    DEF Next

LEMMA TypeFollows ==
    ASSUME QueuesInvariant
    PROVE  QueuesTypeOK
<1>1. /\ Good(links, p_parent, current_process, ssi, frame)
      /\ m_sender \in [Msg -> Pcb \cup {NOBODY}]
  BY DEF QueuesInvariant
<1>2. /\ links \in [Node -> [next : Node, prev : Node]]
      /\ p_parent \in [Pcb -> Pcb \cup {NOBODY}] /\ current_process \in Pcb \cup {NOBODY}
  BY <1>1, InUseFacts DEF Good, Memory
<1>3. \/ ssi = SsiIdle
      \/ /\ ssi.pc \in {"insertChild", "insertReady", "insertIo"}
         /\ ssi.p \in Pcb /\ ssi.asker \in Pcb \cup Device
  BY <1>1, InUseFacts DEF Good, InService, Creating, DoingIo
<1>4. \A a \in Actor : frame[a] \in Frame /\ FrameType(frame[a])
  BY <1>1 DEF Good, Dies
<1>5. \A a \in Actor :
          /\ frame[a].stack \in Seq(Pcb)
          /\ frame[a].pc \in IF frame[a].stack = <<>> THEN {"idle", "scheduler"}
                            ELSE {"outChild", "outReady", "outIO", "children"}
  BY <1>4 DEF Frame, FrameType, Idle, Stage
<1> QED BY <1>1, <1>2, <1>3, <1>5 DEF QueuesTypeOK

LEMMA RingsFollow ==
    ASSUME QueuesInvariant
    PROVE  RingsClose
<1>1. Intact(links) /\ Walked = HeadsOf(links)
  BY SameNames DEF QueuesInvariant, Good
<1> QED BY <1>1, SoundRings DEF RingsClose, Intact

LEMMA FreeFollows ==
    ASSUME QueuesInvariant
    PROVE  FreeIsNowhereElse
<1> DEFINE used == UNION {ToSet(Entries(links, h)) : h \in Walked \ {pcbFree_h}}
<1>1. Good(links, p_parent, current_process, ssi, frame) /\ Intact(links)
  BY DEF QueuesInvariant, Good
<1>2. /\ Walked = HeadsOf(links) /\ Live = InUse(links) /\ pcbFree_h \in HeadsOf(links)
      /\ \A p \in Pcb : isPcbValid(p) <=> p \in InUse(links)
      /\ \A p : Ready(p) <=> p_list(p) \in ToSet(Entries(links, ready_queue))
  BY <1>1, SameNames, LiveHeads
<1>3. \A p \in Pcb \ Live : {p_list(p), p_io(p), p_sib(p)} \cap used = {}
  <2> SUFFICES ASSUME NEW p \in Pcb \ Live
               PROVE  p_list(p) \notin used /\ p_io(p) \notin used /\ p_sib(p) \notin used
    OBVIOUS
  <2>1. \A h \in HeadsOf(links) : ToSet(Entries(links, h)) \subseteq Held(links)
    BY <1>1, ListFacts
  <2>2. p_io(p) \notin used /\ p_sib(p) \notin used
    BY <1>1, <1>2, <2>1 DEF Good, FreeAlone
  <2>3. p_list(p) \in ToSet(Entries(links, pcbFree_h))
    BY <1>1, <1>2, InUseFacts
  <2>4. \A h \in HeadsOf(links) \ {pcbFree_h} : p_list(p) \notin ToSet(Entries(links, h))
    BY <1>1, <1>2, <2>3, ListFacts
  <2>5. p_list(p) \notin used
    BY <1>2, <2>4
  <2> QED BY <2>2, <2>5
<1>4. User /\ current_process # NOBODY =>
          isPcbValid(current_process) /\ ~ Ready(current_process)
  <2> SUFFICES ASSUME User, current_process # NOBODY
               PROVE  isPcbValid(current_process) /\ ~ Ready(current_process)
    OBVIOUS
  <2>1. current_process \in InUse(links) /\ p_list(current_process) \notin Held(links)
    BY <1>1 DEF Good, User, Runs
  <2>2. current_process \in Pcb /\ ready_queue \in HeadsOf(links)
    BY <1>1, <2>1, LiveHeads
  <2>3. ToSet(Entries(links, ready_queue)) \subseteq Held(links)
    BY <1>1, <2>2, ListFacts
  <2> QED BY <1>2, <2>1, <2>2, <2>3
<1> QED BY <1>3, <1>4 DEF FreeIsNowhereElse

(* In every reachable state the lists are what the inductive invariant     *)
(* says.                                                                   *)
LEMMA Inductive ==
    ASSUME Liberty = {}
    PROVE  Spec => []QueuesInvariant
<1>1. Init => QueuesInvariant
  BY InitGood
<1>2. QueuesInvariant /\ [Next]_vars => QueuesInvariant'
  BY StepKeeps
<1> QED BY <1>1, <1>2, PTL DEF Spec

(* While processes keep the discipline, every pointer of phase1 points to  *)
(* a list_head of the kernel, and the SSI and terminate_process have PCBs  *)
(* in hand, never a list head taken for one.                               *)
THEOREM QueuesTypes ==
    ASSUME Liberty = {}
    PROVE  Spec => []QueuesTypeOK
<1>1. QueuesInvariant => QueuesTypeOK
  BY TypeFollows
<1> QED BY <1>1, Inductive, PTL

(* While processes keep the discipline, every walk of list_for_each() over *)
(* a list of the kernel, or of a PCB in use, comes back to its head and    *)
(* meets only entries of the field container_of expects, forwards and      *)
(* backwards, whatever calls of phase1 trap handlers and other processes   *)
(* have made between two of the SSI.                                       *)
THEOREM RingsInvariance ==
    ASSUME Liberty = {}
    PROVE  Spec => []RingsClose
<1>1. QueuesInvariant => RingsClose
  BY RingsFollow
<1> QED BY <1>1, Inductive, PTL

(* While processes keep the discipline, freePcb() frees no PCB that is in  *)
(* a queue or in the child list of another, and the running process is not *)
(* ready as well.                                                          *)
THEOREM FreeInvariance ==
    ASSUME Liberty = {}
    PROVE  Spec => []FreeIsNowhereElse
<1>1. QueuesInvariant => FreeIsNowhereElse
  BY FreeFollows
<1> QED BY <1>1, Inductive, PTL
-----------------------------------------------------------------------------
(* Waiting for an interrupt: only while no trap is handled and nobody is   *)
(* ready.                                                                  *)
Waiting == current_process = NOBODY => User /\ Entries(links, ready_queue) = <<>>

LEMMA NoneLeft ==
    ASSUME NEW l, Intact(l), First(l) = NOBODY
    PROVE  Entries(WithoutFirst(l), ready_queue) = <<>>
<1>1. CASE Entries(l, ready_queue) = <<>>
  BY <1>1, NoneReady
<1>2. CASE Entries(l, ready_queue) # <<>>
  <2>1. First(l) \in InUse(l)
    BY <1>2, OffReady
  <2>2. First(l) # NOBODY
    BY <2>1, InUseFacts, PcbNodes
  <2> QED BY <2>2
<1> QED BY <1>1, <1>2

LEMMA WaitingKept ==
    ASSUME QueuesInvariant, Waiting, [Next]_vars
    PROVE  Waiting'
<1>0. Good(links, p_parent, current_process, ssi, frame) /\ Intact(links) /\ ssi_pcb_real # NOBODY
  <2>1. Intact(links) /\ ssi_pcb_real \in InUse(links)
    BY DEF QueuesInvariant, Good, SsiLives
  <2> QED BY <2>1, InUseFacts, PcbNodes DEF QueuesInvariant
<1>1. CASE UNCHANGED vars
  BY <1>1 DEF vars, Waiting, User
<1>2. ASSUME current_process # NOBODY, UNCHANGED current_process  PROVE Waiting'
  BY <1>2 DEF Waiting
<1>3. ASSUME NEW k, Intact(k), Schedules(k), User'  PROVE Waiting'
  BY <1>3, NoneLeft DEF Schedules, Waiting
<1>4. CASE Preempt
  <2>1. /\ current_process # NOBODY /\ Schedules(MakeReady(links, current_process)) /\ User'
        /\ Runs(links, current_process)
    BY <1>0, <1>4 DEF Preempt, User, Good
  <2>2. Intact(MakeReady(links, current_process))
    BY <1>0, <2>1, InReady DEF Runs, Same
  <2> QED BY <1>3, <2>1, <2>2
<1>5. CASE Interrupt
  <2>1. PICK k : /\ Good(k, p_parent, current_process, ssi, frame)
                 /\ IF current_process = NOBODY THEN Schedules(k)
                    ELSE links' = k /\ UNCHANGED current_process
    BY <1>5, InterruptSends
  <2>2. User' /\ Intact(k)
    BY <1>5, <2>1 DEF Interrupt, User, Good
  <2> QED BY <1>2, <1>3, <2>1, <2>2
<1>6. CASE TrapEnds
  <2>1. Schedules(links)
    BY <1>6 DEF TrapEnds
  <2>2. "nucleus" \in Actor /\ frame \in [Actor -> Frame] /\ frame' = [frame EXCEPT !["nucleus"] = NoFrame]
    BY <1>0, <1>6 DEF TrapEnds, Good, Dies, Actor
  <2>3. User'
    BY <2>2 DEF User
  <2> QED BY <1>0, <1>3, <2>1, <2>3
<1>7. ASSUME NEW s, Receives(s)  PROVE Waiting'
  <2>1. /\ User /\ User' /\ current_process # NOBODY
        /\ Schedules(links) \/ UNCHANGED current_process
    BY <1>7 DEF Receives, User
  <2> QED BY <1>0, <1>2, <1>3, <2>1
<1>8. CASE Traps
  BY <1>2, <1>8 DEF Traps
<1>9. ASSUME NEW p \in Pcb, Sends(p) \/ CreateAllocates(p) \/ WaitForClock(p) \/ SsiTerminates(p)
      PROVE  Waiting'
  BY <1>0, <1>2, <1>9 DEF Sends, CreateAllocates, WaitForClock, SsiTerminates, SsiAt, SsiRuns
<1>10. ASSUME NEW p \in Pcb, NEW d \in Device, DoIoRemoves(p, d)  PROVE Waiting'
  BY <1>0, <1>2, <1>10 DEF DoIoRemoves, SsiAt, SsiRuns
<1>11. CASE CreateInsertsChild \/ CreateInsertsReady \/ DoIoInserts
  BY <1>0, <1>2, <1>11 DEF CreateInsertsChild, CreateInsertsReady, DoIoInserts, SsiAt, SsiRuns
<1>12. ASSUME NEW h \in IoHead, Answers(h)  PROVE Waiting'
  BY <1>0, <1>2, <1>12 DEF Answers, SsiAt, SsiRuns
<1>13. ASSUME NEW a \in Actor, Terminate(a)  PROVE Waiting'
  <2>1. UNCHANGED current_process /\ \E pc \in Stage : TermAt(a, pc)
    BY <1>13 DEF Terminate, TermOutChild, TermOutReady, TermOutIO, TermNextChild, TermFrees, Stage
  <2>2. current_process # NOBODY
    <3>1. CASE a = "ssi"
      BY <1>0, <2>1, <3>1 DEF TermAt
    <3>2. CASE a = "nucleus"
      BY <2>1, <3>2 DEF Waiting, User, TermAt, NoFrame, Stage
    <3> QED BY <3>1, <3>2 DEF Actor
  <2> QED BY <1>2, <2>1, <2>2
<1> QED BY <1>1, <1>4, <1>5, <1>6, <1>7, <1>8, <1>9, <1>10, <1>11, <1>12, <1>13 DEF Next

LEMMA WaitingAtFirst ==
    ASSUME Init
    PROVE  Waiting
<1>1. PICK l : l = BootLinks
  OBVIOUS
<1>2. current_process = First(l) /\ links = WithoutFirst(l) /\ frame["nucleus"] = NoFrame
  BY <1>1 DEF Init, Actor
<1>3. Intact(l)
  BY <1>1, BootFacts
<1> QED BY <1>2, <1>3, NoneLeft DEF Waiting, User
-----------------------------------------------------------------------------
(* The refinement.  QueueSpec has its own names for what Lists defines.    *)

LEMMA Words ==
    /\ Abstract!pcbFree_h = pcbFree_h /\ Abstract!msgFree_h = msgFree_h
    /\ Abstract!ready_queue = ready_queue /\ Abstract!Pcb = Pcb
    /\ \A p : Abstract!p_list(p) = p_list(p) /\ Abstract!p_child(p) = p_child(p)
    /\ \A p : Abstract!msg_inbox(p) = msg_inbox(p) /\ Abstract!PcbHead(p) = PcbHead(p)
    /\ \A n : Abstract!container_of(n) = container_of(n)
    /\ \A m : Abstract!m_list(m) = m_list(m)
    /\ Abstract!ListHead = ListHead
    /\ \A q : Abstract!ToSet(q) = ToSet(q) /\ Abstract!Front(q) = Front(q) /\ Abstract!Last(q) = Last(q)
    /\ \A q, i : Abstract!RemoveAt(q, i) = RemoveAt(q, i)
<1>1. /\ Abstract!pcbFree_h = pcbFree_h /\ Abstract!msgFree_h = msgFree_h
      /\ Abstract!ready_queue = ready_queue /\ Abstract!Pcb = Pcb
      /\ Abstract!pcb_blocked_on_clock = pcb_blocked_on_clock /\ Abstract!Device = Device
      /\ Abstract!Stride = Stride /\ Abstract!Offset = Offset
  BY DEF Abstract!pcbFree_h, pcbFree_h, Abstract!msgFree_h, msgFree_h, Abstract!ready_queue,
     ready_queue, Abstract!pcb_blocked_on_clock, pcb_blocked_on_clock, Abstract!Pcb, Pcb,
     Abstract!Device, Device, Abstract!Stride, Stride, Abstract!Offset, Offset
<1>2. /\ \A p : Abstract!p_list(p) = p_list(p) /\ Abstract!p_child(p) = p_child(p)
      /\ \A p : Abstract!msg_inbox(p) = msg_inbox(p)
      /\ \A n : Abstract!container_of(n) = container_of(n)
  BY <1>1 DEF Abstract!p_list, p_list, Abstract!p_child, p_child, Abstract!msg_inbox, msg_inbox,
     Abstract!container_of, container_of
<1>3. Abstract!msgTable = msgTable
  BY <1>1 DEF Abstract!msgTable, msgTable
<1>4. /\ \A m : Abstract!m_list(m) = m_list(m)
      /\ \A d : Abstract!pcb_blocked_on_device(d) = pcb_blocked_on_device(d)
  BY <1>3 DEF Abstract!m_list, m_list, Abstract!pcb_blocked_on_device, pcb_blocked_on_device
<1>5. \A p : Abstract!PcbHead(p) = PcbHead(p)
  BY <1>2 DEF Abstract!PcbHead, PcbHead
<1>6. Abstract!DeviceHead = DeviceHead
  BY <1>1, <1>4 DEF Abstract!DeviceHead, DeviceHead
<1>7. Abstract!KernelHead = KernelHead
  BY <1>1, <1>6 DEF Abstract!KernelHead, KernelHead
<1>8. Abstract!ListHead = ListHead
  BY <1>1, <1>5, <1>7 DEF Abstract!ListHead, ListHead
<1>9. /\ \A q : Abstract!ToSet(q) = ToSet(q) /\ Abstract!Front(q) = Front(q) /\ Abstract!Last(q) = Last(q)
      /\ \A q, i : Abstract!RemoveAt(q, i) = RemoveAt(q, i)
  BY DEF Abstract!ToSet, ToSet, Abstract!Front, Front, Abstract!Last, Last, Abstract!RemoveAt, RemoveAt
<1> QED BY <1>1, <1>2, <1>4, <1>5, <1>8, <1>9

(* The lists of a memory.                                                  *)
LinesOf(l) == [h \in ListHead |-> IF h \in HeadsOf(l) THEN Entries(l, h) ELSE <<>>]
Changed(a, b) == {h \in ListHead : a[h] # b[h]}
Allowed(a, b) == a = b \/ Abstract!QueueStep(Changed(a, b), a, b)

LEMMA LineIs == line = LinesOf(links) /\ line' = LinesOf(links')
BY DEF line, LinesOf, Walked, Live, InUse, HeadsOf

LEMMA AllowedNext ==
    ASSUME Allowed(LinesOf(links), LinesOf(links'))
    PROVE  [Abstract!QueueNext]_line
<1>1. PICK a, b : a = line /\ b = line'
  OBVIOUS
<1>2. DOMAIN b = ListHead
  BY <1>1, LineIs DEF LinesOf
<1>3. Allowed(a, b)
  BY <1>1, LineIs
<1>4. CASE a = b
  BY <1>1, <1>4
<1>5. CASE Abstract!QueueStep(Changed(a, b), a, b)
  <2>1. Changed(a, b) = {h \in DOMAIN b : a[h] # b[h]}
    BY <1>2 DEF Changed
  <2>2. Abstract!QueueStep({h \in DOMAIN b : a[h] # b[h]}, a, b)
    BY <1>5, <2>1
  <2> QED BY <1>1, <2>2 DEF Abstract!QueueNext
<1> QED BY <1>3, <1>4, <1>5 DEF Allowed

LEMMA EnqueuedBy ==
    ASSUME NEW S, NEW q \in Seq(S), NEW e \in S, e \notin ToSet(q), NEW r, r = Append(q, e)
    PROVE  Abstract!Enqueued(q, r) /\ r # q /\ Last(r) = e
<1>1. r \in Seq(S) /\ Len(r) = Len(q) + 1 /\ r[Len(q) + 1] = e /\ \A i \in 1..Len(q) : r[i] = q[i]
  OBVIOUS
<1>2. Last(r) = e
  BY <1>1 DEF Last
<1>3. Front(r) = q
  <2>1. Len(r) - 1 = Len(q) /\ Front(r) = SubSeq(r, 1, Len(q))
    BY <1>1 DEF Front
  <2>2. SubSeq(r, 1, Len(q)) = q
    BY <1>1
  <2> QED BY <2>1, <2>2
<1>4. r # <<>> /\ r # q
  BY <1>1
<1> QED BY <1>2, <1>3, <1>4, Words DEF Abstract!Enqueued

LEMMA PushedBy ==
    ASSUME NEW S, NEW q \in Seq(S), NEW e \in S, e \notin ToSet(q), NEW r, r = InFront(e, q)
    PROVE  Abstract!Pushed(q, r) /\ Head(r) = e /\ r # q
<1>1. r = <<e>> \o q
  BY DEF InFront
<1>2. r \in Seq(S) /\ Len(r) = Len(q) + 1 /\ Head(r) = e /\ Tail(r) = q
  BY <1>1
<1>3. r # <<>> /\ r # q
  BY <1>2
<1> QED BY <1>2, <1>3, Words DEF Abstract!Pushed

LEMMA LinesFacts ==
    ASSUME NEW l, Intact(l)
    PROVE  \A h \in HeadsOf(l) : h \in ListHead /\ LinesOf(l)[h] = Entries(l, h)
BY InUseFacts DEF LinesOf

(* One queue or child list changes.                                        *)
LEMMA OneMoves ==
    ASSUME NEW l, Intact(l), NEW k, Same(l, k), NEW h \in HeadsOf(l), Only(l, k, h),
           h # pcbFree_h, h # msgFree_h, \A p \in Pcb : h # msg_inbox(p),
           \/ Abstract!Enqueued(Entries(l, h), Entries(k, h))
           \/ Abstract!Dequeued(Entries(l, h), Entries(k, h))
    PROVE  Allowed(LinesOf(l), LinesOf(k))
<1>1. PICK a, b : a = LinesOf(l) /\ b = LinesOf(k)
  OBVIOUS
<1>2. \A g \in ListHead : g # h => a[g] = b[g]
  BY <1>1 DEF LinesOf, Same, Only
<1>3. a[h] = Entries(l, h) /\ b[h] = Entries(k, h) /\ h \in ListHead
  BY <1>1, LinesFacts DEF Same
<1>4. CASE a[h] = b[h]
  <2>1. a = b
    BY <1>1, <1>2, <1>4 DEF LinesOf
  <2> QED BY <1>1, <2>1 DEF Allowed
<1>5. CASE a[h] # b[h]
  <2>1. Changed(a, b) = {h}
    BY <1>2, <1>3, <1>5 DEF Changed
  <2>2. Abstract!Enqueued(a[h], b[h]) \/ Abstract!Dequeued(a[h], b[h])
    BY <1>3
  <2>3. \A C : C = {h} => Abstract!InOrOut(C, a, b)
    BY <2>2, Words DEF Abstract!InOrOut
  <2> QED BY <1>1, <2>1, <2>3 DEF Allowed, Abstract!QueueStep
<1> QED BY <1>4, <1>5

LEMMA OneEnters ==
    ASSUME NEW l, Intact(l), NEW k, Same(l, k), NEW h \in HeadsOf(l), Only(l, k, h),
           h # pcbFree_h, h # msgFree_h, \A p \in Pcb : h # msg_inbox(p),
           NEW e \in EntryOf(h), e \notin Held(l), Entries(k, h) = Append(Entries(l, h), e)
    PROVE  Allowed(LinesOf(l), LinesOf(k))
<1>1. h \in ListHead /\ Entries(l, h) \in Seq(Node) /\ e \in Node /\ e \notin ToSet(Entries(l, h))
  <2>1. h \in ListHead
    BY InUseFacts
  <2> QED BY <2>1, ListFacts, EntryNodes
<1>2. Abstract!Enqueued(Entries(l, h), Entries(k, h))
  BY <1>1, EnqueuedBy
<1> QED BY <1>2, OneMoves

LEMMA OneLeaves ==
    ASSUME NEW l, Intact(l), NEW k, Same(l, k), NEW h \in HeadsOf(l), Only(l, k, h),
           h # pcbFree_h, h # msgFree_h, \A p \in Pcb : h # msg_inbox(p),
           NEW i \in DOMAIN Entries(l, h), Entries(k, h) = RemoveAt(Entries(l, h), i)
    PROVE  Allowed(LinesOf(l), LinesOf(k))
<1>1. Abstract!Dequeued(Entries(l, h), Entries(k, h))
  BY Words DEF Abstract!Dequeued
<1> QED BY <1>1, OneMoves

(* The heads of queues, and of child lists.                                *)
LEMMA Queue ==
    ASSUME NEW l, Intact(l), NEW h, h = ready_queue \/ h \in IoHead \/ \E p \in InUse(l) : h = p_child(p)
    PROVE  h \in HeadsOf(l) /\ h # pcbFree_h /\ h # msgFree_h /\ \A p \in Pcb : h # msg_inbox(p)
BY LiveHeads, Heads

(* The first of a queue leaves it.                                         *)
LEMMA FirstLeaves ==
    ASSUME NEW l, Intact(l), NEW k, Same(l, k), NEW h, h = ready_queue \/ h \in IoHead,
           Only(l, k, h), Entries(l, h) # <<>>, Entries(k, h) = Tail(Entries(l, h))
    PROVE  Allowed(LinesOf(l), LinesOf(k))
<1>1. h \in HeadsOf(l) /\ h # pcbFree_h /\ h # msgFree_h /\ \A p \in Pcb : h # msg_inbox(p)
  BY Queue
<1>2. PICK q \in Seq(Node) : q = Entries(l, h) /\ q # <<>>
  BY <1>1, ListFacts
<1>3. 1 \in DOMAIN q /\ RemoveAt(q, 1) = Tail(q)
  BY <1>2, RemoveAtOne
<1>4. 1 \in DOMAIN Entries(l, h) /\ Entries(k, h) = RemoveAt(Entries(l, h), 1)
  BY <1>2, <1>3
<1> QED BY <1>1, <1>4, OneLeaves

LEMMA Unchanged ==
    ASSUME NEW l, NEW k, k = l
    PROVE  Allowed(LinesOf(l), LinesOf(k))
BY DEF Allowed

(* The scheduler.                                                          *)
LEMMA ScheduleSteps ==
    ASSUME NEW l, Intact(l)
    PROVE  Allowed(LinesOf(l), LinesOf(WithoutFirst(l)))
<1>1. CASE Entries(l, ready_queue) = <<>>
  BY <1>1, NoneReady, Unchanged
<1>2. CASE Entries(l, ready_queue) # <<>>
  <2>1. PICK k : k = WithoutFirst(l)
    OBVIOUS
  <2>2. /\ Same(l, k) /\ Only(l, k, ready_queue)
        /\ Entries(k, ready_queue) = Tail(Entries(l, ready_queue))
    BY <1>2, <2>1, OffReady
  <2>3. Allowed(LinesOf(l), LinesOf(k))
    BY <1>2, <2>2, FirstLeaves
  <2> QED BY <2>1, <2>3
<1> QED BY <1>1, <1>2

LEMMA ReadySteps ==
    ASSUME NEW l, Intact(l), NEW p \in InUse(l), p_list(p) \notin Held(l)
    PROVE  Allowed(LinesOf(l), LinesOf(MakeReady(l, p)))
<1>1. PICK k, e : k = MakeReady(l, p) /\ e = p_list(p)
  OBVIOUS
<1>2. /\ Same(l, k) /\ Only(l, k, ready_queue)
      /\ Entries(k, ready_queue) = Append(Entries(l, ready_queue), e)
  BY <1>1, InReady
<1>3. PICK h : h = ready_queue
  OBVIOUS
<1>4. /\ h \in HeadsOf(l) /\ h # pcbFree_h /\ h # msgFree_h /\ \A q \in Pcb : h # msg_inbox(q)
      /\ e \in EntryOf(h) /\ e \notin Held(l)
  <2>1. h \in HeadsOf(l) /\ h # pcbFree_h /\ h # msgFree_h /\ \A q \in Pcb : h # msg_inbox(q)
    BY <1>3, Queue
  <2>2. e \in PList
    BY <1>1, InUseFacts DEF PList
  <2> QED BY <1>1, <1>3, <2>1, <2>2, EntriesOf
<1>5. Allowed(LinesOf(l), LinesOf(k))
  BY <1>2, <1>3, <1>4, OneEnters
<1> QED BY <1>1, <1>5

(* A process goes to the end of the ready queue and the first comes off.   *)
LEMMA TurnSteps ==
    ASSUME NEW l, Intact(l), NEW p \in InUse(l), p_list(p) \notin Held(l)
    PROVE  Allowed(LinesOf(l), LinesOf(WithoutFirst(MakeReady(l, p))))
<1>1. PICK m, k, e, h : /\ m = MakeReady(l, p) /\ k = WithoutFirst(m) /\ e = p_list(p)
                        /\ h = ready_queue
  OBVIOUS
<1>2. Same(l, m) /\ Only(l, m, h) /\ Entries(m, h) = Append(Entries(l, h), e)
  BY <1>1, InReady
<1>3. h \in HeadsOf(l) /\ Intact(m)
  BY <1>1, <1>2, Queue DEF Same
<1>4. PICK q \in Seq(Node) : q = Entries(l, h) /\ e \notin ToSet(q) /\ Once(q)
  BY <1>1, <1>3, ListFacts
<1>5. e \in Node
  BY <1>1, InUseFacts, PcbNodes
<1>6. PICK r \in Seq(Node) : r = Append(q, e) /\ r # <<>> /\ r = Entries(m, h)
  BY <1>2, <1>4, <1>5
<1>7. Same(m, k) /\ Only(m, k, h) /\ Entries(k, h) = Tail(r)
  BY <1>1, <1>3, <1>6, OffReady
<1>8. PICK a, b : a = LinesOf(l) /\ b = LinesOf(k)
  OBVIOUS
<1>9. HeadsOf(k) = HeadsOf(l)
  BY <1>2, <1>7 DEF Same
<1>10. \A g \in ListHead : g # h => a[g] = b[g]
  BY <1>2, <1>7, <1>8, <1>9 DEF LinesOf, Same, Only
<1>11. a[h] = q /\ b[h] = Tail(r) /\ h \in ListHead
  BY <1>3, <1>4, <1>7, <1>8, <1>9, InUseFacts DEF LinesOf
<1>12. CASE q = <<>>
  <2>1. Tail(r) = <<>>
    <3>1. r = Append(<<>>, e)
      BY <1>6, <1>12
    <3> QED BY <3>1
  <2>2. a = b
    BY <1>8, <1>10, <1>11, <1>12, <2>1 DEF LinesOf
  <2> QED BY <1>1, <1>8, <2>2 DEF Allowed
<1>13. CASE q # <<>>
  <2>1. PICK t \in Seq(Node) : t = Tail(q) /\ e \notin ToSet(t)
    BY <1>4, <1>13, TailRange
  <2>2. Tail(r) = Append(t, e)
    BY <1>4, <1>5, <1>6, <1>13, <2>1, HeadTailOfAppend
  <2>3. Abstract!Enqueued(t, b[h])
    BY <1>5, <1>11, <2>1, <2>2, EnqueuedBy
  <2>4. b[h] # a[h]
    <3>1. PICK u : u = Append(t, e)
      OBVIOUS
    <3>2. Len(t) + 1 \in DOMAIN u /\ u[Len(t) + 1] = e
      BY <1>5, <2>1, <3>1
    <3>3. e \in ToSet(u)
      BY <3>2 DEF ToSet
    <3> QED BY <1>4, <1>11, <2>2, <3>1, <3>3
  <2>5. Changed(a, b) = {h}
    BY <1>10, <1>11, <2>4 DEF Changed
  <2>6. \A C : C = {h} => Abstract!Turn(C, a, b)
    BY <1>1, <1>11, <1>13, <2>1, <2>3, Words DEF Abstract!Turn
  <2> QED BY <1>1, <1>8, <2>5, <2>6 DEF Allowed, Abstract!QueueStep
<1> QED BY <1>12, <1>13

(* Messages, and PCBs.                                                     *)
LEMMA PostSteps ==
    ASSUME NEW l, Intact(l), ~ list_empty(l, msgFree_h), NEW p \in InUse(l),
           NEW k, k = insertMessage(allocMsg(l), p, message_of(l[msgFree_h].next))
    PROVE  Allowed(LinesOf(l), LinesOf(k))
<1>1. PICK e, f, h : e = l[msgFree_h].next /\ f = msgFree_h /\ h = msg_inbox(p)
  OBVIOUS
<1>2. /\ e = Head(Entries(l, f)) /\ Entries(l, f) # <<>> /\ e \in Mail
      /\ Same(l, k) /\ Besides(l, k, f, h)
      /\ Entries(k, f) = Tail(Entries(l, f)) /\ Entries(k, h) = Append(Entries(l, h), e)
  BY <1>1, PostedMail
<1>3. f \in HeadsOf(l) /\ h \in HeadsOf(l) /\ f # h /\ p \in Pcb
  BY <1>1, LiveHeads, Heads
<1>4. PICK q \in Seq(Node), r \in Seq(Node) : q = Entries(l, f) /\ r = Entries(l, h) /\ Once(q) /\ q # <<>>
  BY <1>2, <1>3, ListFacts
<1>5. e \in ToSet(q) /\ e \in Node /\ e = Head(q)
  BY <1>2, <1>4, TailRange
<1>6. e \notin ToSet(r)
  BY <1>3, <1>4, <1>5, ListFacts
<1>7. PICK a, b : a = LinesOf(l) /\ b = LinesOf(k)
  OBVIOUS
<1>8. /\ a[f] = q /\ b[f] = Tail(q) /\ a[h] = r /\ b[h] = Append(r, e)
      /\ f \in ListHead /\ h \in ListHead
  BY <1>2, <1>3, <1>4, <1>7, LinesFacts DEF Same
<1>9. \A g \in ListHead : g # f /\ g # h => a[g] = b[g]
  BY <1>2, <1>7 DEF LinesOf, Same, Besides
<1>10. Abstract!Enqueued(a[h], b[h]) /\ b[h] # a[h] /\ Last(b[h]) = e
  <2>1. PICK r2 : r2 = Append(r, e)
    OBVIOUS
  <2>2. r \in Seq(Node) /\ e \in Node /\ e \notin ToSet(r) /\ r2 = Append(r, e)
    BY <1>4, <1>5, <1>6, <2>1
  <2>3. Abstract!Enqueued(r, r2) /\ r2 # r /\ Last(r2) = e
    BY <2>2, EnqueuedBy
  <2> QED BY <1>8, <2>1, <2>3
<1>11. a[f] # b[f] /\ a[f] = <<e>> \o b[f]
  BY <1>4, <1>5, <1>8
<1>12. Changed(a, b) = {f, h}
  BY <1>8, <1>9, <1>10, <1>11 DEF Changed
<1>13. \A C : C = {f, h} => Abstract!Post(C, a, b)
  <2> SUFFICES ASSUME NEW C, C = {f, h}  PROVE Abstract!Post(C, a, b)
    OBVIOUS
  <2>1. h \in C \ {f} /\ h \in {msg_inbox(x) : x \in Pcb}
    BY <1>1, <1>3
  <2>2. Abstract!Last(b[h]) = e
    BY <1>10, Words
  <2> QED BY <1>1, <1>10, <1>11, <2>1, <2>2, Words DEF Abstract!Post
<1> QED BY <1>7, <1>12, <1>13 DEF Allowed, Abstract!QueueStep

LEMMA TakeSteps ==
    ASSUME NEW l, Intact(l), NEW p \in InUse(l), NEW h \in HeadsOf(l), h = msg_inbox(p),
           NEW i \in DOMAIN Entries(l, h), NEW e, e = Entries(l, h)[i],
           NEW k, k = freeMsg(list_del(l, e), message_of(e))
    PROVE  Allowed(LinesOf(l), LinesOf(k))
<1>1. PICK f : f = msgFree_h
  OBVIOUS
<1>2. /\ e \in ToSet(Entries(l, h)) /\ Same(l, k) /\ Besides(l, k, f, h)
      /\ Entries(k, f) = InFront(e, Entries(l, f))
      /\ Entries(k, h) = RemoveAt(Entries(l, h), i)
  BY <1>1, TakenMail
<1>3. f \in HeadsOf(l) /\ f # h /\ p \in Pcb
  BY <1>1, LiveHeads, Heads
<1>4. PICK q \in Seq(Node), r \in Seq(Node) : q = Entries(l, f) /\ r = Entries(l, h) /\ i \in DOMAIN r
  BY <1>3, ListFacts
<1>5. e = r[i] /\ e \in Node /\ e \in ToSet(r)
  BY <1>2, <1>4
<1>6. e \notin ToSet(q)
  BY <1>3, <1>4, <1>5, ListFacts
<1>7. PICK a, b : a = LinesOf(l) /\ b = LinesOf(k)
  OBVIOUS
<1>8. /\ a[f] = q /\ b[f] = InFront(e, q) /\ a[h] = r /\ b[h] = RemoveAt(r, i)
      /\ f \in ListHead /\ h \in ListHead
  BY <1>2, <1>3, <1>4, <1>7, LinesFacts DEF Same
<1>9. \A g \in ListHead : g # f /\ g # h => a[g] = b[g]
  BY <1>2, <1>7 DEF LinesOf, Same, Besides
<1>10. Abstract!Pushed(a[f], b[f]) /\ b[f] # a[f] /\ Head(b[f]) = e
  BY <1>4, <1>5, <1>6, <1>8, PushedBy
<1>11. a[h] # b[h]
  <2>1. Len(RemoveAt(r, i)) = Len(r) - 1 /\ Len(r) \in Nat
    BY <1>4, RemoveAtLength
  <2> QED BY <1>8, <2>1
<1>12. Abstract!Dequeued(a[h], b[h])
  BY <1>4, <1>8, Words DEF Abstract!Dequeued
<1>13. Changed(a, b) = {f, h}
  BY <1>8, <1>9, <1>10, <1>11 DEF Changed
<1>14. \A C : C = {f, h} => Abstract!Take(C, a, b)
  <2> SUFFICES ASSUME NEW C, C = {f, h}  PROVE Abstract!Take(C, a, b)
    OBVIOUS
  <2>1. h \in C \ {f} /\ h \in {msg_inbox(x) : x \in Pcb}
    BY <1>3
  <2> QED BY <1>1, <1>5, <1>8, <1>10, <1>12, <2>1, Words DEF Abstract!Take
<1> QED BY <1>7, <1>13, <1>14 DEF Allowed, Abstract!QueueStep

LEMMA NewSteps ==
    ASSUME NEW l, Intact(l), FreeAlone(l), ~ list_empty(l, pcbFree_h)
    PROVE  Allowed(LinesOf(l), LinesOf(allocPcb(l)))
<1>1. PICK k, p, f : k = allocPcb(l) /\ p = container_of(l[pcbFree_h].next) /\ f = pcbFree_h
  OBVIOUS
<1>2. f \in HeadsOf(l)
  BY <1>1, LiveHeads
<1>3. PICK q \in Seq(Node) : /\ q = Entries(l, f) /\ q # <<>> /\ Once(q) /\ ToSet(q) \subseteq PList
                             /\ l[f].next = Head(q)
  BY <1>1, <1>2, ListFacts, EntriesOf
<1>4. Head(q) \in ToSet(q) /\ ToSet(Tail(q)) = ToSet(q) \ {Head(q)}
  BY <1>3, TailRange
<1>5. p \in Pcb \ InUse(l)
  <2>1. PICK x \in Pcb : p_list(x) = Head(q)
    BY <1>3, <1>4 DEF PList
  <2>2. p = x
    BY <1>1, <1>3, <2>1, PcbNodes
  <2>3. p_list(p) \in ToSet(Entries(l, pcbFree_h))
    BY <1>1, <1>3, <1>4, <2>1, <2>2
  <2> QED BY <2>2, <2>3, InUseFacts
<1>6. p_sib(p) \notin Held(l) /\ p_io(p) \notin Held(l)
  BY <1>5 DEF FreeAlone
<1>7. /\ HeadsOf(k) = HeadsOf(l) \cup PcbHead(p)
      /\ Entries(k, f) = Tail(q) /\ Only(l, k, f)
      /\ \A h \in PcbHead(p) : Entries(k, h) = <<>>
  BY <1>1, <1>3, <1>6, Allocated
<1>8. \A h \in PcbHead(p) : h \notin HeadsOf(l) /\ h \in ListHead
  <2>1. PcbHead(p) = {p_child(p), msg_inbox(p)} /\ p_child(p) \in ListHead /\ msg_inbox(p) \in ListHead
    BY <1>5, Heads
  <2>2. p_child(p) \notin HeadsOf(l) /\ msg_inbox(p) \notin HeadsOf(l)
    BY <1>5, InUseFacts
  <2> QED BY <2>1, <2>2
<1>9. PICK a, b : a = LinesOf(l) /\ b = LinesOf(k)
  OBVIOUS
<1>10. a[f] = q /\ b[f] = Tail(q) /\ f \in ListHead
  BY <1>2, <1>3, <1>7, <1>9, InUseFacts DEF LinesOf
<1>11. \A h \in PcbHead(p) : a[h] = <<>> /\ b[h] = <<>>
  BY <1>7, <1>8, <1>9 DEF LinesOf
<1>12. \A g \in ListHead : g # f => a[g] = b[g]
  <2>1. \A g \in ListHead : g # f /\ g \notin PcbHead(p) => a[g] = b[g]
    BY <1>7, <1>9 DEF LinesOf, Only
  <2> QED BY <1>11, <2>1
<1>13. a[f] # b[f]
  BY <1>4, <1>10
<1>14. Changed(a, b) = {f}
  BY <1>10, <1>12, <1>13 DEF Changed
<1>15. Abstract!Pushed(b[f], a[f])
  BY <1>3, <1>4, <1>10, Words DEF Abstract!Pushed
<1>16. container_of(Head(a[f])) = p
  BY <1>1, <1>3, <1>10
<1>17. \A C : C = {f} => Abstract!NewPcb(C, a, b)
  BY <1>1, <1>11, <1>15, <1>16, Words DEF Abstract!NewPcb
<1> QED BY <1>1, <1>9, <1>14, <1>17 DEF Allowed, Abstract!QueueStep

LEMMA OldSteps ==
    ASSUME NEW l, Intact(l), NEW p \in InUse(l), p_list(p) \notin Held(l),
           Entries(l, p_child(p)) = <<>>
    PROVE  Allowed(LinesOf(l), LinesOf(freePcb(l, p)))
<1>1. PICK k, e, f : k = freePcb(l, p) /\ e = p_list(p) /\ f = pcbFree_h
  OBVIOUS
<1>2. f \in HeadsOf(l) /\ p \in Pcb /\ f \notin PcbHead(p) /\ e \in Node /\ e \notin ToSet(Entries(l, f))
  BY <1>1, LiveHeads, Heads, PcbNodes, InUseFacts
<1>3. /\ HeadsOf(k) = HeadsOf(l) \ PcbHead(p)
      /\ Entries(k, f) = InFront(e, Entries(l, f)) /\ BesidesPcb(l, k, p)
  BY <1>1, Freed
<1>4. PICK q \in Seq(Node) : q = Entries(l, f)
  BY <1>2, ListFacts
<1>5. PICK a, b : a = LinesOf(l) /\ b = LinesOf(k)
  OBVIOUS
<1>6. a[f] = q /\ b[f] = InFront(e, q) /\ f \in ListHead
  BY <1>2, <1>3, <1>4, <1>5, InUseFacts DEF LinesOf
<1>7. /\ PcbHead(p) = {p_child(p), msg_inbox(p)} /\ PcbHead(p) \subseteq ListHead
      /\ p_child(p) \in HeadsOf(l)
  BY <1>2, Heads, LiveHeads
<1>8. a[p_child(p)] = <<>> /\ b[p_child(p)] = <<>> /\ b[msg_inbox(p)] = <<>>
  BY <1>3, <1>5, <1>7 DEF LinesOf
<1>9. \A g \in ListHead : g # f /\ g \notin PcbHead(p) => a[g] = b[g]
  BY <1>1, <1>3, <1>5 DEF LinesOf, BesidesPcb
<1>10. Abstract!Pushed(a[f], b[f]) /\ b[f] # a[f] /\ Head(b[f]) = e
  BY <1>2, <1>4, <1>6, PushedBy
<1>11. f \in Changed(a, b) /\ \A h \in Changed(a, b) : h = f \/ h = msg_inbox(p)
  <2>1. \A h \in ListHead : a[h] # b[h] => h = f \/ h = p_child(p) \/ h = msg_inbox(p)
    BY <1>7, <1>9
  <2> QED BY <1>6, <1>8, <1>10, <2>1 DEF Changed
<1>12. container_of(Head(b[f])) = p
  BY <1>1, <1>2, <1>10, PcbNodes
<1>13. Abstract!OldPcb(Changed(a, b), a, b)
  <2>1. PICK C : C = Changed(a, b)
    OBVIOUS
  <2>2. f \in C /\ C \subseteq {f, msg_inbox(p)}
    BY <1>11, <2>1
  <2>3. Abstract!OldPcb(C, a, b)
    BY <1>1, <1>8, <1>10, <1>12, <2>2, Words DEF Abstract!OldPcb
  <2> QED BY <2>1, <2>3
<1> QED BY <1>1, <1>5, <1>13 DEF Allowed, Abstract!QueueStep
-----------------------------------------------------------------------------
(* Every action is a step of QueueSpec, or none.  First the nucleus.       *)
Moves == Allowed(LinesOf(links), LinesOf(links'))

LEMMA NotReady ==
    ASSUME QueuesInvariant, NEW to \in InUse(links), NEW k \in Wakes(to)
    PROVE  k = MakeReady(links, to) /\ p_list(to) \notin Held(links)
<1>1. Intact(links) /\ to \in Pcb
  BY InUseFacts DEF QueuesInvariant, Good
<1>2. to # current_process /\ ~ Ready(to) /\ k = MakeReady(links, to)
  BY DEF Wakes
<1> QED BY <1>1, <1>2, WhereHeld, InUseFacts, SameNames

LEMMA SentMoves ==
    ASSUME QueuesInvariant, NEW to \in InUse(links), NEW k \in Wakes(to) \cup Posted(to)
    PROVE  Allowed(LinesOf(links), LinesOf(k))
<1>0. Intact(links)
  BY DEF QueuesInvariant, Good
<1>1. CASE k \in Wakes(to)
  BY <1>0, <1>1, NotReady, ReadySteps
<1>2. CASE k \in Posted(to)
  <2>1. /\ ~ list_empty(links, msgFree_h)
        /\ k = insertMessage(allocMsg(links), to, message_of(links[msgFree_h].next))
    BY <1>2 DEF Posted
  <2> QED BY <1>0, <2>1, PostSteps
<1> QED BY <1>1, <1>2

LEMMA PreemptMoves ==
    ASSUME QueuesInvariant, Preempt
    PROVE  Moves
<1>1. PICK c : c = current_process
  OBVIOUS
<1>2. c \in InUse(links) /\ p_list(c) \notin Held(links) /\ Intact(links)
  BY <1>1 DEF Preempt, QueuesInvariant, Good, Runs, User
<1>3. links' = WithoutFirst(MakeReady(links, c))
  BY <1>1 DEF Preempt, Schedules
<1> QED BY <1>2, <1>3, TurnSteps DEF Moves

LEMMA SendsMoves ==
    ASSUME QueuesInvariant, NEW to \in Pcb, Sends(to)
    PROVE  Moves
<1>1. PICK k : k = links'
  OBVIOUS
<1>2. k \in Wakes(to) \cup Posted(to) /\ isPcbValid(to)
  BY <1>1 DEF Sends, SendMessage
<1>3. to \in InUse(links)
  BY <1>2, SameNames DEF QueuesInvariant, Good
<1> QED BY <1>1, <1>2, <1>3, SentMoves DEF Moves

LEMMA InterruptMoves ==
    ASSUME QueuesInvariant, Waiting, Interrupt
    PROVE  Moves
<1>1. PICK k \in Wakes(ssi_pcb_real) \cup Posted(ssi_pcb_real) :
          /\ Good(k, p_parent, current_process, ssi, frame)
          /\ IF current_process = NOBODY THEN Schedules(k)
             ELSE links' = k /\ UNCHANGED current_process
  BY InterruptSends
<1>2. Intact(links) /\ ssi_pcb_real \in InUse(links)
  BY DEF QueuesInvariant, Good, SsiLives
<1>3. CASE current_process # NOBODY
  <2>1. links' = k
    BY <1>1, <1>3
  <2> QED BY <1>2, <2>1, SentMoves DEF Moves
<1>4. CASE current_process = NOBODY /\ k \in Wakes(ssi_pcb_real)
  <2>1. k = MakeReady(links, ssi_pcb_real) /\ p_list(ssi_pcb_real) \notin Held(links)
    BY <1>2, <1>4, NotReady
  <2>2. links' = WithoutFirst(MakeReady(links, ssi_pcb_real))
    BY <1>1, <1>4, <2>1 DEF Schedules
  <2> QED BY <1>2, <2>1, <2>2, TurnSteps DEF Moves
<1>5. CASE current_process = NOBODY /\ k \in Posted(ssi_pcb_real)
  <2>1. /\ ~ list_empty(links, msgFree_h)
        /\ k = insertMessage(allocMsg(links), ssi_pcb_real, message_of(links[msgFree_h].next))
    BY <1>5 DEF Posted
  <2>2. Same(links, k) /\ Besides(links, k, msgFree_h, msg_inbox(ssi_pcb_real))
    BY <1>2, <2>1, PostedMail
  <2>3. /\ ready_queue \in HeadsOf(links) /\ ready_queue # msgFree_h
        /\ ready_queue # msg_inbox(ssi_pcb_real)
    BY <1>2, LiveHeads, Heads
  <2>4. Entries(k, ready_queue) = <<>>
    BY <1>5, <2>2, <2>3 DEF Besides, Waiting
  <2>5. links' = k
    BY <1>1, <1>5, <2>2, <2>4, NoneReady DEF Schedules, Same
  <2> QED BY <1>2, <2>5, SentMoves DEF Moves
<1> QED BY <1>3, <1>4, <1>5

LEMMA ReceivesMoves ==
    ASSUME QueuesInvariant, NEW s, Receives(s)
    PROVE  Moves
<1>0. PICK c, found : c = current_process /\ found = From(c, s)
  OBVIOUS
<1>1. /\ User /\ c # NOBODY
      /\ \/ \E i \in found :
               LET msg == Inbox(c)[i] IN links' = freeMsg(list_del(links, msg), message_of(msg))
         \/ Schedules(links)
  BY <1>0 DEF Receives
<1>2. Intact(links) /\ c \in InUse(links)
  BY <1>0, <1>1 DEF QueuesInvariant, Good, Runs, User
<1>3. CASE Schedules(links)
  BY <1>2, <1>3, ScheduleSteps DEF Moves, Schedules
<1>4. CASE \E i \in found :
               LET msg == Inbox(c)[i] IN links' = freeMsg(list_del(links, msg), message_of(msg))
  <2>1. PICK i \in found :
            LET msg == Inbox(c)[i] IN links' = freeMsg(list_del(links, msg), message_of(msg))
    BY <1>4
  <2>2. i \in DOMAIN Entries(links, msg_inbox(c)) /\ Inbox(c) = Entries(links, msg_inbox(c))
    BY <1>0 DEF From, Inbox
  <2>3. PICK h \in HeadsOf(links) : h = msg_inbox(c)
    BY <1>2, InUseFacts
  <2>4. PICK j \in DOMAIN Entries(links, h) : j = i
    BY <2>2, <2>3
  <2>5. PICK e : e = Entries(links, h)[j]
    OBVIOUS
  <2>6. PICK k : k = freeMsg(list_del(links, e), message_of(e))
    OBVIOUS
  <2>7. links' = k
    BY <2>1, <2>2, <2>3, <2>4, <2>5, <2>6
  <2>8. Allowed(LinesOf(links), LinesOf(k))
    BY <1>2, <2>3, <2>5, <2>6, TakeSteps
  <2> QED BY <2>7, <2>8 DEF Moves
<1> QED BY <1>1, <1>3, <1>4

LEMMA TrapEndsMoves ==
    ASSUME QueuesInvariant, TrapEnds
    PROVE  Moves
<1>1. Intact(links)
  BY DEF QueuesInvariant, Good
<1> QED BY <1>1, ScheduleSteps DEF Moves, TrapEnds, Schedules
-----------------------------------------------------------------------------
(* The SSI.                                                                *)

LEMMA EnterSteps ==
    ASSUME NEW l, Intact(l), NEW h, h = ready_queue \/ h \in IoHead \/ \E p \in InUse(l) : h = p_child(p),
           NEW e \in EntryOf(h), e \notin Held(l)
    PROVE  Allowed(LinesOf(l), LinesOf(list_add_tail(l, e, h)))
<1>1. PICK k : k = list_add_tail(l, e, h)
  OBVIOUS
<1>2. h \in HeadsOf(l) /\ h # pcbFree_h /\ h # msgFree_h /\ \A p \in Pcb : h # msg_inbox(p)
  BY Queue
<1>3. Same(l, k) /\ Only(l, k, h) /\ Entries(k, h) = Append(Entries(l, h), e)
  BY <1>1, <1>2, TailIn
<1>4. Allowed(LinesOf(l), LinesOf(k))
  BY <1>2, <1>3, OneEnters
<1> QED BY <1>1, <1>4

LEMMA SearchSteps ==
    ASSUME NEW l, Intact(l), NEW h, h = ready_queue \/ h \in IoHead, NEW e
    PROVE  Allowed(LinesOf(l), LinesOf(outProcQ(l, h, e)))
<1>1. PICK k : k = outProcQ(l, h, e)
  OBVIOUS
<1>2. h \in HeadsOf(l) /\ h # pcbFree_h /\ h # msgFree_h /\ \A p \in Pcb : h # msg_inbox(p)
  BY Queue
<1>3. /\ Same(l, k) /\ Only(l, k, h)
      /\ k = l \/ \E i \in DOMAIN Entries(l, h) : Entries(k, h) = RemoveAt(Entries(l, h), i)
  BY <1>1, <1>2, Searched
<1>4. CASE k = l
  BY <1>1, <1>4, Unchanged
<1>5. CASE k # l
  <2>1. PICK i \in DOMAIN Entries(l, h) : Entries(k, h) = RemoveAt(Entries(l, h), i)
    BY <1>3, <1>5
  <2>2. Allowed(LinesOf(l), LinesOf(k))
    BY <1>2, <1>3, <2>1, OneLeaves
  <2> QED BY <1>1, <2>2
<1> QED BY <1>4, <1>5

LEMMA CreateAllocatesMoves ==
    ASSUME QueuesInvariant, NEW asker, CreateAllocates(asker)
    PROVE  Moves
<1>1. Intact(links) /\ FreeAlone(links)
  BY DEF QueuesInvariant, Good
<1>2. ~ list_empty(links, pcbFree_h) /\ links' = allocPcb(links)
  BY DEF CreateAllocates
<1> QED BY <1>1, <1>2, NewSteps DEF Moves

LEMMA CreateInsertsChildMoves ==
    ASSUME QueuesInvariant, CreateInsertsChild
    PROVE  Moves
<1>1. PICK l, p, e, h, q : /\ l = links /\ p = ssi.p /\ q = ssi.asker
                           /\ e = p_sib(p) /\ h = p_child(q)
  OBVIOUS
<1>2. SsiAt("insertChild") /\ links' = list_add_tail(l, e, h)
  BY <1>1 DEF CreateInsertsChild
<1>3. Creating(l, ssi_pcb_real, ssi) /\ Intact(l)
  BY <1>1, <1>2, AtSsi DEF Good
<1>4. q \in InUse(l) /\ p \in InUse(l) /\ e \notin Held(l)
  BY <1>1, <1>2, <1>3 DEF Creating, SsiAt
<1>5. e \in EntryOf(h)
  <2>1. q \in Pcb /\ p \in Pcb
    BY <1>3, <1>4, InUseFacts
  <2> QED BY <1>1, <2>1, EntriesOf DEF Sib
<1>6. Allowed(LinesOf(l), LinesOf(list_add_tail(l, e, h)))
  BY <1>1, <1>3, <1>4, <1>5, EnterSteps
<1> QED BY <1>1, <1>2, <1>6 DEF Moves

LEMMA CreateInsertsReadyMoves ==
    ASSUME QueuesInvariant, CreateInsertsReady
    PROVE  Moves
<1>1. PICK l, p : l = links /\ p = ssi.p
  OBVIOUS
<1>2. SsiAt("insertReady") /\ links' = MakeReady(l, p)
  BY <1>1 DEF CreateInsertsReady
<1>3. Creating(l, ssi_pcb_real, ssi) /\ Intact(l)
  BY <1>1, <1>2, AtSsi DEF Good
<1>4. p \in InUse(l) /\ p_list(p) \notin Held(l)
  BY <1>1, <1>3 DEF Creating
<1> QED BY <1>1, <1>2, <1>3, <1>4, ReadySteps DEF Moves

LEMMA DoIoRemovesMoves ==
    ASSUME QueuesInvariant, NEW p \in Pcb, NEW d \in Device, DoIoRemoves(p, d)
    PROVE  Moves
<1>1. PICK h, e : h = pcb_blocked_on_device(d) /\ e = p_io(p)
  OBVIOUS
<1>2. Intact(links) /\ h \in IoHead
  BY <1>1, Heads DEF QueuesInvariant, Good
<1>3. links' = outProcQ(links, h, e)
  BY <1>1 DEF DoIoRemoves
<1> QED BY <1>2, <1>3, SearchSteps DEF Moves

LEMMA IoEntry ==
    ASSUME NEW h \in IoHead, NEW p \in Pcb
    PROVE  p_io(p) \in EntryOf(h)
<1>1. p_io(p) \in Io
  BY DEF Io
<1> QED BY <1>1, EntriesOf

LEMMA DoIoInsertsMoves ==
    ASSUME QueuesInvariant, DoIoInserts
    PROVE  Moves
<1>1. PICK l, p, e, h : /\ l = links /\ p = ssi.p /\ e = p_io(p)
                        /\ h = pcb_blocked_on_device(ssi.asker)
  OBVIOUS
<1>2. SsiAt("insertIo") /\ links' = list_add_tail(l, e, h)
  BY <1>1 DEF DoIoInserts
<1>3. DoingIo(l, ssi) /\ Intact(l)
  BY <1>1, <1>2, AtSsi DEF Good
<1>4. h \in IoHead /\ p \in Pcb /\ e \notin Held(l)
  BY <1>1, <1>3, Heads, InUseFacts DEF DoingIo
<1>5. e \in EntryOf(h)
  BY <1>1, <1>4, IoEntry
<1>6. Allowed(LinesOf(l), LinesOf(list_add_tail(l, e, h)))
  BY <1>3, <1>4, <1>5, EnterSteps
<1> QED BY <1>1, <1>2, <1>6 DEF Moves

LEMMA WaitForClockMoves ==
    ASSUME QueuesInvariant, NEW p \in Pcb, WaitForClock(p)
    PROVE  Moves
<1>1. PICK l, e, h : l = links /\ e = p_io(p) /\ h = pcb_blocked_on_clock
  OBVIOUS
<1>2. MayQueue(p, h) /\ links' = list_add_tail(l, e, h)
  BY <1>1 DEF WaitForClock
<1>3. Intact(l) /\ h \in IoHead
  BY <1>1, Heads DEF QueuesInvariant, Good
<1>4. \A g \in IoHead : e \notin ToSet(Entries(l, g))
  BY <1>1, <1>2 DEF MayQueue, Meets
<1>5. e \notin Held(l)
  BY <1>1, <1>3, <1>4, WhereHeld
<1>6. e \in EntryOf(h)
  BY <1>1, <1>3, IoEntry
<1>7. Allowed(LinesOf(l), LinesOf(list_add_tail(l, e, h)))
  BY <1>3, <1>5, <1>6, EnterSteps
<1> QED BY <1>1, <1>2, <1>7 DEF Moves

LEMMA AnswersMoves ==
    ASSUME QueuesInvariant, NEW h \in IoHead, Answers(h)
    PROVE  Moves
<1>1. PICK l, k : l = links /\ k = removeProcQ(l, h)
  OBVIOUS
<1>2. ~ list_empty(l, h) /\ links' = k /\ Intact(l)
  BY <1>1 DEF Answers, QueuesInvariant, Good
<1>3. h \in HeadsOf(l) /\ h # pcbFree_h
  BY <1>2, Heads, LiveHeads
<1>4. Entries(l, h) # <<>>
  BY <1>2, <1>3, ListFacts
<1>5. Same(l, k) /\ Only(l, k, h) /\ Entries(k, h) = Tail(Entries(l, h))
  BY <1>1, <1>2, <1>3, <1>4, FirstOut
<1>6. Allowed(LinesOf(l), LinesOf(k))
  BY <1>2, <1>4, <1>5, FirstLeaves
<1> QED BY <1>1, <1>2, <1>6 DEF Moves
-----------------------------------------------------------------------------
(* terminate_process().                                                    *)

(* An entry leaves one queue or child list, or nothing changes.            *)
LEMMA LeaveSteps ==
    ASSUME NEW l, Intact(l), NEW h, h = ready_queue \/ h \in IoHead \/ \E p \in InUse(l) : h = p_child(p),
           NEW i \in DOMAIN Entries(l, h), NEW e, e = Entries(l, h)[i]
    PROVE  Allowed(LinesOf(l), LinesOf(list_del(l, e)))
<1>1. PICK k : k = list_del(l, e)
  OBVIOUS
<1>2. h \in HeadsOf(l) /\ h # pcbFree_h /\ h # msgFree_h /\ \A p \in Pcb : h # msg_inbox(p)
  BY Queue
<1>3. Same(l, k) /\ Only(l, k, h) /\ Entries(k, h) = RemoveAt(Entries(l, h), i)
  BY <1>1, <1>2, TakenOut
<1>4. Allowed(LinesOf(l), LinesOf(k))
  BY <1>2, <1>3, OneLeaves
<1> QED BY <1>1, <1>4

LEMMA TermOutChildMoves ==
    ASSUME QueuesInvariant, NEW a \in Actor, TermOutChild(a)
    PROVE  Moves
<1>1. PICK l, par, f, v, e : /\ l = links /\ par = p_parent /\ f = frame /\ v = Victim(a)
                             /\ e = p_sib(v)
  OBVIOUS
<1>2. TermAt(a, "outChild") /\ "outChild" \in Stage
  BY DEF TermOutChild, Stage
<1>3. /\ Good(l, par, current_process, ssi, f) /\ Intact(l)
      /\ f[a].pc = "outChild" /\ v \in InUse(l) /\ v \in ToSet(f[a].stack)
      /\ ToSet(Tail(f[a].stack)) = ToSet(f[a].stack) \ {v}
      /\ \A b \in Actor \ {a} : ToSet(f[b].stack) \cap ToSet(f[a].stack) = {}
  BY <1>1, <1>2, AtTerm
<1>4. \A b \in Actor : v \notin PastChild(f[b])
  <2>1. \A b \in Actor : f[b] \in Frame /\ FrameType(f[b])
    BY <1>3 DEF Good, Dies
  <2>2. v \notin PastChild(f[a])
    BY <1>3 DEF PastChild, Past
  <2> QED BY <1>3, <2>1, <2>2, PastFacts
<1>5. Tied(l, par, v)
  BY <1>3, <1>4 DEF Good, AllTied
<1>6. links' = IF par[v] = NOBODY THEN l ELSE list_del(l, e)
  BY <1>1 DEF TermOutChild, outChild
<1>7. CASE par[v] = NOBODY
  BY <1>1, <1>6, <1>7, Unchanged DEF Moves
<1>8. CASE par[v] # NOBODY
  <2>1. PICK h : h = p_child(par[v])
    OBVIOUS
  <2>2. par[v] \in InUse(l) /\ e \in ToSet(Entries(l, h))
    BY <1>1, <1>5, <1>8, <2>1 DEF Tied
  <2>3. PICK i \in DOMAIN Entries(l, h) : e = Entries(l, h)[i]
    BY <2>2 DEF ToSet
  <2>4. Allowed(LinesOf(l), LinesOf(list_del(l, e)))
    BY <1>3, <2>1, <2>2, <2>3, LeaveSteps
  <2> QED BY <1>1, <1>6, <1>8, <2>4 DEF Moves
<1> QED BY <1>7, <1>8

LEMMA TermOutReadyMoves ==
    ASSUME QueuesInvariant, NEW a \in Actor, TermOutReady(a)
    PROVE  Moves
<1>1. PICK e : e = p_list(Victim(a))
  OBVIOUS
<1>2. Intact(links) /\ links' = outProcQ(links, ready_queue, e)
  BY <1>1 DEF QueuesInvariant, Good, TermOutReady
<1> QED BY <1>2, SearchSteps DEF Moves

LEMMA TermOutIOMoves ==
    ASSUME QueuesInvariant, NEW a \in Actor, TermOutIO(a)
    PROVE  Moves
<1>1. PICK l, f, v, k :
         /\ l = links /\ f = frame /\ v = Victim(a)
         /\ k = outProcQ(OutOfDevices(l, v), pcb_blocked_on_clock, p_list(v))
  OBVIOUS
<1>2. TermAt(a, "outIO") /\ "outIO" \in Stage /\ links' = k
  BY <1>1 DEF TermOutIO, Stage
<1>3. /\ Good(l, p_parent, current_process, ssi, f) /\ Intact(l)
      /\ v \in InUse(l) /\ v \in ToSet(f[a].stack)
  BY <1>1, <1>2, AtTerm
<1>4. p_io(v) \notin ToSet(Entries(l, pcb_blocked_on_clock))
  <2>1. \E K : Doomed(l, f[a], K) # {}
    BY <1>3 DEF Good, Dies, Actor
  <2>2. PICK D \in SUBSET Pcb : /\ ToSet(f[a].stack) \subseteq D
                                /\ \A q \in D : p_io(q) \notin ToSet(Entries(l, pcb_blocked_on_clock))
    BY <2>1 DEF Doomed
  <2> QED BY <1>3, <2>2
<1>5. \/ k = l
      \/ \E h \in IoHead :
            /\ Same(l, k) /\ Only(l, k, h)
            /\ \E i \in DOMAIN Entries(l, h) : Entries(k, h) = RemoveAt(Entries(l, h), i)
  BY <1>1, <1>3, <1>4, OutOfIO
<1>6. CASE k = l
  BY <1>1, <1>2, <1>6, Unchanged DEF Moves
<1>7. CASE k # l
  <2>1. PICK h \in IoHead :
            /\ Same(l, k) /\ Only(l, k, h)
            /\ \E i \in DOMAIN Entries(l, h) : Entries(k, h) = RemoveAt(Entries(l, h), i)
    BY <1>5, <1>7
  <2>2. PICK i \in DOMAIN Entries(l, h) : Entries(k, h) = RemoveAt(Entries(l, h), i)
    BY <2>1
  <2>3. h \in HeadsOf(l) /\ h # pcbFree_h /\ h # msgFree_h /\ \A p \in Pcb : h # msg_inbox(p)
    BY <1>3, Queue
  <2>4. Allowed(LinesOf(l), LinesOf(k))
    BY <1>3, <2>1, <2>2, <2>3, OneLeaves
  <2> QED BY <1>1, <1>2, <2>4 DEF Moves
<1> QED BY <1>6, <1>7

LEMMA TermFreesMoves ==
    ASSUME QueuesInvariant, NEW a \in Actor, TermFrees(a)
    PROVE  Moves
<1>1. PICK l, v, x : l = links /\ v = Victim(a) /\ x = frame[a]
  OBVIOUS
<1>2. TermAt(a, "children") /\ "children" \in Stage /\ list_empty(l, p_child(v)) /\ links' = freePcb(l, v)
  BY <1>1 DEF TermFrees, Stage
<1>3. Intact(l) /\ OutOf(l, x) /\ x.pc = "children" /\ v \in InUse(l) /\ v \in ToSet(x.stack)
  BY <1>1, <1>2, AtTerm
<1>4. p_list(v) \notin Held(l)
  <2>1. PastReady(x) = ToSet(x.stack)
    BY <1>3 DEF Past, PastReady
  <2> QED BY <1>3, <2>1 DEF OutOf
<1>5. Entries(l, p_child(v)) = <<>>
  BY <1>2, <1>3, LiveHeads, ListFacts
<1> QED BY <1>1, <1>2, <1>3, <1>4, <1>5, OldSteps DEF Moves

(* One step of Queues.                                                     *)
LEMMA StepMoves ==
    ASSUME QueuesInvariant, Waiting, [Next]_vars
    PROVE  Moves
<1>1. ASSUME UNCHANGED links  PROVE Moves
  BY <1>1, Unchanged DEF Moves
<1>2. CASE UNCHANGED vars
  BY <1>1, <1>2 DEF vars
<1>3. CASE Preempt \/ Interrupt \/ TrapEnds
  BY <1>3, PreemptMoves, InterruptMoves, TrapEndsMoves
<1>4. CASE Traps
  BY <1>1, <1>4 DEF Traps
<1>5. ASSUME NEW p \in Pcb, Sends(p) \/ CreateAllocates(p) \/ WaitForClock(p)  PROVE Moves
  BY <1>5, SendsMoves, CreateAllocatesMoves, WaitForClockMoves
<1>6. ASSUME NEW p \in Pcb, SsiTerminates(p)  PROVE Moves
  BY <1>1, <1>6 DEF SsiTerminates
<1>7. ASSUME NEW p \in Pcb, NEW d \in Device, DoIoRemoves(p, d)  PROVE Moves
  BY <1>7, DoIoRemovesMoves
<1>8. ASSUME NEW s \in Pcb \cup {NOBODY}, Receives(s)  PROVE Moves
  BY <1>8, ReceivesMoves
<1>9. CASE CreateInsertsChild \/ CreateInsertsReady \/ DoIoInserts
  BY <1>9, CreateInsertsChildMoves, CreateInsertsReadyMoves, DoIoInsertsMoves
<1>10. ASSUME NEW h \in IoHead, Answers(h)  PROVE Moves
  BY <1>10, AnswersMoves
<1>11. ASSUME NEW a \in Actor, Terminate(a)  PROVE Moves
  <2>1. CASE TermNextChild(a)
    BY <1>1, <2>1 DEF TermNextChild
  <2> QED BY <1>11, <2>1, TermOutChildMoves, TermOutReadyMoves, TermOutIOMoves, TermFreesMoves
          DEF Terminate
<1> QED BY <1>2, <1>3, <1>4, <1>5, <1>6, <1>7, <1>8, <1>9, <1>10, <1>11 DEF Next
-----------------------------------------------------------------------------
(* The lists main() leaves.                                                *)

LEMMA SameSequences ==
    ASSUME NEW S, NEW q \in Seq(S), NEW n \in Nat, Len(q) = n, NEW r, DOMAIN r = 1..n,
           r = [i \in 1..n |-> r[i]], \A i \in 1..n : q[i] = r[i]
    PROVE  q = r
<1>1. q = [i \in 1..n |-> q[i]]
  OBVIOUS
<1> QED BY <1>1

LEMMA FreeAtFirst ==
    /\ Tail(Tail(FreePcbs)) = [i \in 1..(MaxProc - 2) |-> p_list(MaxProc - 1 - i)]
    /\ FreeMsgs = [i \in 1..MaxMsg |-> m_list(MaxMsg + 1 - i)]
<1>1. MaxProc \in Nat /\ MaxProc >= 2 /\ MaxMsg \in Nat
  BY ListsAssumption
<1>2. FreeMsgs = [i \in 1..MaxMsg |-> m_list(MaxMsg + 1 - i)]
  BY <1>1, PoolNodes DEF FreeMsgs, Reversed
<1>3. PICK q \in Seq(PList) : /\ q = FreePcbs /\ Len(q) = MaxProc
                              /\ \A i \in 1..MaxProc : q[i] = p_list(MaxProc + 1 - i)
  <2>1. FreePcbs \in Seq(PList) /\ Len(FreePcbs) = MaxProc
    BY <1>1, PoolNodes DEF FreePcbs, Reversed
  <2>2. \A i \in 1..MaxProc : FreePcbs[i] = p_list(MaxProc + 1 - i)
    BY <1>1, PoolNodes DEF FreePcbs, Reversed
  <2> QED BY <2>1, <2>2
<1>4. PICK t \in Seq(PList) : /\ t = Tail(q) /\ Len(t) = MaxProc - 1
                              /\ \A i \in 1..(MaxProc - 1) : t[i] = q[i + 1]
  <2>1. q \in Seq(PList) /\ q # <<>>
    BY <1>1, <1>3
  <2>2. /\ Tail(q) \in Seq(PList) /\ Len(Tail(q)) = Len(q) - 1
        /\ \A i \in 1..(Len(q) - 1) : Tail(q)[i] = q[i + 1]
    BY <2>1
  <2> QED BY <1>3, <2>2
<1>5. PICK u \in Seq(PList) : /\ u = Tail(t) /\ Len(u) = MaxProc - 2
                              /\ \A i \in 1..(MaxProc - 2) : u[i] = t[i + 1]
  <2>2. Len(t) # 0
    BY <1>1, <1>4
  <2>3. t # <<>>
    BY <2>2
  <2>4. /\ Tail(t) \in Seq(PList) /\ Len(Tail(t)) = Len(t) - 1
        /\ \A i \in 1..(Len(t) - 1) : Tail(t)[i] = t[i + 1]
    BY <1>4, <2>3
  <2>5. Len(t) - 1 = MaxProc - 2
    BY <1>1, <1>4
  <2> QED BY <2>4, <2>5
<1>6. PICK r : r = [i \in 1..(MaxProc - 2) |-> p_list(MaxProc - 1 - i)]
  OBVIOUS
<1>7. \A i \in 1..(MaxProc - 2) : u[i] = p_list(MaxProc - 1 - i)
  <2> SUFFICES ASSUME NEW i \in 1..(MaxProc - 2)  PROVE u[i] = p_list(MaxProc - 1 - i)
    OBVIOUS
  <2>1. PICK j, k : j = i + 1 /\ k = i + 2
    OBVIOUS
  <2>4. j \in 1..(MaxProc - 1) /\ k \in 1..MaxProc /\ k = j + 1
    BY <1>1, <2>1
  <2>5. u[i] = t[j]
    BY <1>5, <2>1
  <2>6. t[j] = q[k]
    BY <1>4, <2>4
  <2>7. q[k] = p_list(MaxProc + 1 - k)
    BY <1>3, <2>4
  <2>2. u[i] = t[j] /\ t[j] = q[k] /\ q[k] = p_list(MaxProc + 1 - k)
    BY <2>5, <2>6, <2>7
  <2>3. MaxProc + 1 - k = MaxProc - 1 - i
    BY <1>1, <2>1
  <2> QED BY <2>2, <2>3
<1>8. PICK n \in Nat : n = MaxProc - 2
  BY <1>1
<1>9. /\ Len(u) = n /\ DOMAIN r = 1..n /\ r = [i \in 1..n |-> r[i]]
      /\ \A i \in 1..n : u[i] = r[i]
  BY <1>5, <1>6, <1>7, <1>8
<1>10. u = r
  BY <1>9, SameSequences
<1> QED BY <1>2, <1>3, <1>4, <1>5, <1>6, <1>10

LEMMA LinesAtFirst ==
    ASSUME Init
    PROVE  Abstract!QueueInit
<1>1. PICK l, k, a, b : /\ l = BootLinks /\ k = WithoutFirst(l)
                        /\ a = p_list(ssi_pcb_real) /\ b = p_list(test_pcb)
  OBVIOUS
<1>2. links = k
  BY <1>1 DEF Init
<1>3. /\ Intact(l) /\ Entries(l, pcbFree_h) = Tail(Tail(FreePcbs)) /\ Entries(l, msgFree_h) = FreeMsgs
      /\ Entries(l, ready_queue) = Append(Append(<<>>, a), b)
      /\ \A h \in HeadsOf(l) : h \notin {pcbFree_h, msgFree_h, ready_queue} => Entries(l, h) = <<>>
  BY <1>1, BootFacts
<1>4. Append(Append(<<>>, a), b) # <<>> /\ Tail(Append(Append(<<>>, a), b)) = <<b>>
  <2>1. PICK S : a \in S /\ b \in S
    <3>1. a \in {a, b} /\ b \in {a, b}
      OBVIOUS
    <3> QED BY <3>1
  <2>2. PICK q \in Seq(S) : q = Append(<<>>, a) /\ q # <<>> /\ Tail(q) = <<>>
    <3>1. Append(<<>>, a) = <<a>>
      OBVIOUS
    <3>2. <<a>> \in Seq(S) /\ <<a>> # <<>> /\ Tail(<<a>>) = <<>>
      BY <2>1
    <3> QED BY <3>1, <3>2
  <2>3. Append(q, b) # <<>> /\ Tail(Append(q, b)) = Append(Tail(q), b)
    BY <2>1, <2>2, HeadTailOfAppend
  <2>4. Append(<<>>, b) = <<b>>
    OBVIOUS
  <2> QED BY <2>2, <2>3, <2>4
<1>5. Same(l, k) /\ Only(l, k, ready_queue) /\ Entries(k, ready_queue) = <<b>>
  BY <1>1, <1>3, <1>4, OffReady
<1>6. /\ {pcbFree_h, msgFree_h, ready_queue} \subseteq HeadsOf(l)
      /\ pcbFree_h # msgFree_h /\ pcbFree_h # ready_queue /\ msgFree_h # ready_queue
      /\ HeadsOf(l) \subseteq ListHead
  BY <1>3, LiveHeads, Heads, InUseFacts
<1>7. HeadsOf(k) = HeadsOf(l)
  BY <1>5 DEF Same
<1>8. /\ LinesOf(k)[pcbFree_h] = [i \in 1..(MaxProc - 2) |-> p_list(MaxProc - 1 - i)]
      /\ LinesOf(k)[msgFree_h] = [i \in 1..MaxMsg |-> m_list(MaxMsg + 1 - i)]
      /\ LinesOf(k)[ready_queue] = <<p_list(MaxProc - 1)>>
      /\ \A h \in ListHead : h \notin {pcbFree_h, msgFree_h, ready_queue} => LinesOf(k)[h] = <<>>
  <2>1. /\ LinesOf(k)[pcbFree_h] = Entries(l, pcbFree_h)
        /\ LinesOf(k)[msgFree_h] = Entries(l, msgFree_h)
        /\ LinesOf(k)[ready_queue] = <<b>>
    BY <1>5, <1>6, <1>7 DEF LinesOf, Only
  <2>2. \A h \in ListHead : h \notin {pcbFree_h, msgFree_h, ready_queue} => LinesOf(k)[h] = <<>>
    BY <1>3, <1>5, <1>6, <1>7 DEF LinesOf, Only
  <2> QED BY <1>1, <1>3, <2>1, <2>2, FreeAtFirst DEF test_pcb
<1>9. LinesOf(k) = Abstract!Lines
  <2>1. Abstract!FreePcbs = [i \in 1..(MaxProc - 2) |-> p_list(MaxProc - 1 - i)]
    BY Words DEF Abstract!FreePcbs
  <2>2. Abstract!FreeMsgs = [i \in 1..MaxMsg |-> m_list(MaxMsg + 1 - i)]
    BY Words DEF Abstract!FreeMsgs
  <2>3. Abstract!Lines = [h \in ListHead |->
                             CASE h = pcbFree_h -> Abstract!FreePcbs
                               [] h = msgFree_h -> Abstract!FreeMsgs
                               [] h = ready_queue -> <<p_list(MaxProc - 1)>> [] OTHER -> <<>>]
    BY Words DEF Abstract!Lines
  <2>4. /\ LinesOf(k)[pcbFree_h] = Abstract!FreePcbs /\ LinesOf(k)[msgFree_h] = Abstract!FreeMsgs
        /\ LinesOf(k)[ready_queue] = <<p_list(MaxProc - 1)>>
        /\ \A h \in ListHead : h \notin {pcbFree_h, msgFree_h, ready_queue} => LinesOf(k)[h] = <<>>
    BY <1>8, <2>1, <2>2
  <2>5. PICK x : x = LinesOf(k) /\ x = [h \in ListHead |-> x[h]]
    BY DEF LinesOf
  <2> QED BY <1>6, <2>3, <2>4, <2>5
<1> QED BY <1>2, <1>9, LineIs DEF Abstract!QueueInit

(* While processes keep the discipline, every list of phase1 is a sequence *)
(* of QueueSpec for its callers: each call of the nucleus, of the SSI and  *)
(* of terminate_process() changes one queue at its ends or takes one entry *)
(* out of it, moves one message or one PCB between two lists, and leaves   *)
(* every other list as it was.                                             *)
THEOREM QueuesRefine ==
    ASSUME Liberty = {}
    PROVE  Spec => ImplementsQueues
<1>1. Init => Abstract!QueueInit /\ Waiting
  BY LinesAtFirst, WaitingAtFirst
<1>2. QueuesInvariant /\ Waiting /\ [Next]_vars => Waiting'
  BY WaitingKept
<1>3. QueuesInvariant /\ Waiting /\ [Next]_vars => [Abstract!QueueNext]_line
  BY StepMoves, AllowedNext DEF Moves
<1> QED BY <1>1, <1>2, <1>3, Inductive, PTL DEF Spec, ImplementsQueues, Abstract!QueueBehaviour
=============================================================================
