-------------------------- MODULE InterruptsProofs --------------------------
(***************************************************************************)
(* Proofs about Interrupts for every set of attached devices and every set *)
(* of processes: the numberings of a unit agree, the handler always has    *)
(* something to serve, and a process is answered by its own command.       *)
(***************************************************************************)
EXTENDS Interrupts, DataLemmas

(* The queue of a unit in pcb_blocked_on_device, as do_io() computes it.   *)
QueueOf(u) == comm_add_to_number(CommandAddr(u))

(* The same from the line, the number and the sub-terminal.                *)
SubNumber(u) == IF u.sub = "transm" THEN 1 ELSE 0
Number(u) == (u.iln - DEV_IL_START + SubNumber(u)) * N_DEV_PER_IL + u.dev

USE DEF DEV_IL_START, N_EXT_IL, N_DEV_PER_IL, IL_TERMINAL, DEV_REG_SIZE, MAXDEVICE

(* All that the proofs need of the first register's address.               *)
LEMMA RegistersStart == DEV_REG_START \in Nat
BY SMT DEF DEV_REG_START

LEMMA UnitFields ==
    ASSUME NEW u \in Unit
    PROVE  /\ u = [iln |-> u.iln, dev |-> u.dev, sub |-> u.sub]
           /\ <<u.iln, u.dev>> \in Attached
           /\ u.iln \in 17..21 /\ u.dev \in 0..7 /\ u.sub \in Sub(u.iln)
           /\ u.sub = "transm" => u.iln = 21
           /\ u.sub \in {"recv", "transm", "dtp"}
           /\ u # NoUnit
<1>1. PICK a \in Attached : u \in {[iln |-> a[1], dev |-> a[2], sub |-> s] : s \in Sub(a[1])}
  BY DEF Unit
<1>2. PICK s \in Sub(a[1]) : u = [iln |-> a[1], dev |-> a[2], sub |-> s]
  BY <1>1
<1>3. a \in (17..21) \X (0..7) /\ a = <<a[1], a[2]>> /\ a[1] \in 17..21 /\ a[2] \in 0..7
  BY InterruptsAssumption
<1>4. u.iln = a[1] /\ u.dev = a[2] /\ u.sub = s
  BY <1>2
<1>5. s \in {"recv", "transm", "dtp"} /\ (s = "transm" => a[1] = 21)
  BY <1>2 DEF Sub
<1> QED BY <1>2, <1>3, <1>4, <1>5 DEF NoUnit

(* Integer division, as the address of a command register needs it.       *)
LEMMA Division ==
    ASSUME NEW k \in Nat, NEW r \in Nat
    PROVE  /\ r < 16 => (k * 16 + r) \div 16 = k
           /\ r < 8 => (k * 8 + r) \div 8 = k
OBVIOUS

LEMMA Numbers ==
    ASSUME NEW u \in Unit
    PROVE  QueueOf(u) = Number(u) /\ Number(u) \in 0..(MAXDEVICE - 1)
<1> DEFINE il == u.iln - 17
           off == IF u.sub = "transm" THEN 12 ELSE 4
           k == il * 8 + u.dev
<1>1. /\ il \in 0..4 /\ u.dev \in 0..7 /\ off \in {4, 12} /\ k \in Nat /\ u.iln = il + 17
      /\ u.sub = "transm" => il = 4
  <2>1. u.iln \in 17..21 /\ u.dev \in 0..7 /\ (u.sub = "transm" => u.iln = 21)
    BY UnitFields
  <2> QED BY <2>1
<1>2. CommandAddr(u) = DEV_REG_START + k * 16 + off
  BY <1>1, RegistersStart DEF CommandAddr, DEV_REG_ADDR
<1>3. (CommandAddr(u) - DEV_REG_START) \div DEV_REG_SIZE = k
  <2> HIDE DEF k
  <2>1. CommandAddr(u) - DEV_REG_START = k * 16 + off /\ off \in Nat /\ off < 16
    BY <1>1, <1>2, RegistersStart
  <2> QED BY <1>1, <2>1, Division
<1>4. k \div N_DEV_PER_IL = il
  BY <1>1, Division
<1>5. k - il * N_DEV_PER_IL = u.dev
  BY <1>1
<1>6. DEV_REG_ADDR(il + 17, u.dev) + 4 = DEV_REG_START + k * 16 + 4
  BY <1>1, RegistersStart DEF DEV_REG_ADDR
<1>7. CommandAddr(u) # DEV_REG_ADDR(il + 17, u.dev) + 4 <=> u.sub = "transm"
  BY <1>1, <1>2, <1>6, RegistersStart
<1>8. QueueOf(u) = hash_from_device_type_number(il, u.dev, SubNumber(u))
  BY <1>3, <1>4, <1>5, <1>7 DEF QueueOf, comm_add_to_number, SubNumber
<1> QED BY <1>1, <1>8 DEF Number, SubNumber, hash_from_device_type_number

(* No two units share a queue.                                             *)
THEOREM NumbersDistinct ==
    ASSUME NEW u \in Unit, NEW v \in Unit, QueueOf(u) = QueueOf(v)
    PROVE  u = v
<1>1. Number(u) = Number(v)
  BY Numbers
<1>2. /\ u = [iln |-> u.iln, dev |-> u.dev, sub |-> u.sub]
      /\ u.iln \in 17..21 /\ u.dev \in 0..7 /\ u.sub \in Sub(u.iln)
      /\ u.sub = "transm" => u.iln = 21
  BY UnitFields
<1>3. /\ v = [iln |-> v.iln, dev |-> v.dev, sub |-> v.sub]
      /\ v.iln \in 17..21 /\ v.dev \in 0..7 /\ v.sub \in Sub(v.iln)
      /\ v.sub = "transm" => v.iln = 21
  BY UnitFields
<1>4. u.dev = v.dev /\ u.iln + SubNumber(u) = v.iln + SubNumber(v)
  BY <1>1, <1>2, <1>3 DEF Number, SubNumber
<1>5. u.iln = v.iln /\ SubNumber(u) = SubNumber(v)
  BY <1>2, <1>3, <1>4 DEF SubNumber
<1>6. u.sub = v.sub
  BY <1>2, <1>3, <1>5 DEF Sub, SubNumber
<1> QED BY <1>2, <1>3, <1>4, <1>5, <1>6
-----------------------------------------------------------------------------
(* The inductive invariant.  At any time a unit has no command and nobody  *)
(* waits for it, or it has been given one by a process that is alone in    *)
(* its queue, and the command is executing, ended, or reported to the SSI. *)

Waiting(u) == pcb_blocked_on_device[QueueOf(u)]

IsReport(load, u) ==
    /\ load.service = 0
    /\ load.device_type = u.iln - DEV_IL_START
    /\ load.device_number = u.dev + 128 * SubNumber(u)

Idle(u) ==
    /\ Asker(u) = {} /\ Waiting(u) = <<>>
    /\ status[u] = READY /\ Reports(u) = {} /\ outcome[u] = NONE

GivenBy(u, p) == Asker(u) = {p} /\ Waiting(u) = <<p>>
Executing(u) == status[u] = BUSY /\ Reports(u) = {} /\ outcome[u] = NONE
HasEnded(u) == Pending(u) /\ Reports(u) = {} /\ outcome[u] = status[u] % 256
Reported(u) ==
    /\ status[u] = READY
    /\ \E i \in DOMAIN inbox : Reports(u) = {i} /\ inbox[i].status = outcome[u]

Stage(u) ==
    \/ Idle(u)
    \/ \E p \in Process : GivenBy(u, p) /\ (Executing(u) \/ HasEnded(u) \/ Reported(u))

OnlyReports == \A i \in DOMAIN inbox :
    inbox[i].service = 0 => \E u \in Unit : IsReport(inbox[i], u)

LinesServed == \A iln \in mip \ {3} : CDEV_BITMAP(iln) # {}

InterruptsInv ==
    /\ InterruptsTypeOK
    /\ \A u \in Unit : Stage(u)
    /\ OnlyReports
    /\ LinesServed
    /\ NoPanic
-----------------------------------------------------------------------------
(* Facts about the operators of the actions.                               *)

LEMMA LeastIn ==
    ASSUME NEW S \in SUBSET Nat, S # {}
    PROVE  Lowest(S) \in S
BY LeastNumber DEF Lowest

(* The SSI looks a report up in the queue do_io() has used.                *)
LEMMA ReportIndex ==
    ASSUME NEW u \in Unit, NEW load \in Payload, IsReport(load, u)
    PROVE  Index(load) = QueueOf(u)
<1>1. /\ u.iln \in 17..21 /\ u.dev \in 0..7 /\ (u.sub = "transm" => u.iln = 21)
      /\ QueueOf(u) = Number(u)
  BY UnitFields, Numbers
<1>2. load.device_type = u.iln - 17 /\ load.device_number = u.dev + 128 * SubNumber(u)
  BY DEF IsReport
<1>3. DeviceNumber(load) = u.dev
  BY <1>1, <1>2 DEF DeviceNumber, SubNumber
<1>4. Transm(load) = 128 * SubNumber(u)
  BY <1>1, <1>2, <1>3 DEF Transm, SubNumber
<1>5. Index(load) = hash_from_device_type_number(u.iln - 17, u.dev, 128 * SubNumber(u))
  BY <1>2, <1>3, <1>4 DEF Index
<1>6. CASE u.sub = "transm"
  <2>1. Index(load) = (u.iln - 17 + 1) * 8 + u.dev
    BY <1>1, <1>5, <1>6 DEF hash_from_device_type_number, SubNumber
  <2> QED BY <1>1, <1>6, <2>1 DEF Number, SubNumber
<1>7. CASE u.sub # "transm"
  <2>1. Index(load) = (u.iln - 17 + 0) * 8 + u.dev
    BY <1>1, <1>5, <1>7 DEF hash_from_device_type_number, SubNumber
  <2> QED BY <1>1, <1>7, <2>1 DEF Number, SubNumber
<1> QED BY <1>6, <1>7

LEMMA ReportPayload ==
    ASSUME NEW u \in Unit, NEW code \in Nat
    PROVE  LET load == payload(0, code, u.iln - DEV_IL_START, u.dev,
                               IF u.sub = "transm" THEN 1 ELSE 0)
           IN  load \in Payload /\ IsReport(load, u) /\ load.status = code % 256
<1> DEFINE transm == IF u.sub = "transm" THEN 1 ELSE 0
<1>1. u.iln \in 17..21 /\ u.dev \in 0..7
  BY UnitFields
<1>2. code % 256 \in 0..255 /\ u.iln - 17 \in 0..4 /\ u.dev + 128 * transm \in 0..255
  BY <1>1
<1>3. SubNumber(u) = transm
  BY DEF SubNumber
<1> HIDE DEF transm
<1>4. payload(0, code, u.iln - 17, u.dev, transm) \in Payload
  BY <1>2 DEF payload, Payload
<1>5. IsReport(payload(0, code, u.iln - 17, u.dev, transm), u)
  BY <1>3 DEF payload, IsReport
<1>6. payload(0, code, u.iln - 17, u.dev, transm).status = code % 256
  BY DEF payload
<1> QED BY <1>4, <1>5, <1>6 DEF transm

(* A message is the report of one unit.                                    *)
LEMMA ReportOfOne ==
    ASSUME NEW u \in Unit, NEW v \in Unit, NEW load,
           IsReport(load, u), IsReport(load, v)
    PROVE  u = v
<1>1. /\ u = [iln |-> u.iln, dev |-> u.dev, sub |-> u.sub]
      /\ u.iln \in 17..21 /\ u.dev \in 0..7 /\ u.sub \in Sub(u.iln)
      /\ u.sub = "transm" => u.iln = 21
  BY UnitFields
<1>2. /\ v = [iln |-> v.iln, dev |-> v.dev, sub |-> v.sub]
      /\ v.iln \in 17..21 /\ v.dev \in 0..7 /\ v.sub \in Sub(v.iln)
      /\ v.sub = "transm" => v.iln = 21
  BY UnitFields
<1>3. u.iln = v.iln /\ u.dev = v.dev /\ SubNumber(u) = SubNumber(v)
  BY <1>1, <1>2 DEF IsReport, SubNumber
<1>4. u.sub = v.sub
  BY <1>1, <1>2, <1>3 DEF Sub, SubNumber
<1> QED BY <1>1, <1>2, <1>3, <1>4

LEMMA ReportsAre ==
    ASSUME NEW u \in Unit
    PROVE  Reports(u) = {i \in DOMAIN inbox : IsReport(inbox[i], u)}
<1>1. u.dev + (IF u.sub = "transm" THEN 128 ELSE 0) = u.dev + 128 * SubNumber(u)
  BY UnitFields DEF SubNumber
<1> QED BY <1>1 DEF Reports, IsReport

LEMMA ReportsAreNext ==
    ASSUME NEW u \in Unit
    PROVE  Reports(u)' = {i \in DOMAIN inbox' : IsReport(inbox'[i], u)}
<1>1. u.dev + (IF u.sub = "transm" THEN 128 ELSE 0) = u.dev + 128 * SubNumber(u)
  BY UnitFields DEF SubNumber
<1> QED BY <1>1 DEF Reports, IsReport

LEMMA ReportsAppend ==
    ASSUME NEW u \in Unit, NEW load \in Payload, inbox \in Seq(Payload),
           inbox' = Append(inbox, load)
    PROVE  /\ inbox' \in Seq(Payload)
           /\ DOMAIN inbox' = DOMAIN inbox \cup {Len(inbox) + 1}
           /\ Len(inbox) + 1 \notin DOMAIN inbox
           /\ \A i \in DOMAIN inbox : inbox'[i] = inbox[i]
           /\ inbox'[Len(inbox) + 1] = load
           /\ IsReport(load, u) => Reports(u)' = Reports(u) \cup {Len(inbox) + 1}
           /\ ~ IsReport(load, u) => Reports(u)' = Reports(u)
<1>1. /\ inbox' \in Seq(Payload) /\ Len(inbox') = Len(inbox) + 1
      /\ \A i \in 1..Len(inbox) : inbox'[i] = inbox[i]
      /\ inbox'[Len(inbox) + 1] = load
  BY AppendProperties
<1>2. /\ Len(inbox) \in Nat /\ DOMAIN inbox = 1..Len(inbox)
      /\ DOMAIN inbox' = 1..(Len(inbox) + 1)
  BY <1>1, LenProperties
<1>3. DOMAIN inbox' = DOMAIN inbox \cup {Len(inbox) + 1} /\ Len(inbox) + 1 \notin DOMAIN inbox
  BY <1>2
<1>4. \A i \in DOMAIN inbox : inbox'[i] = inbox[i]
  BY <1>1, <1>2
<1>5. /\ Reports(u) = {i \in DOMAIN inbox : IsReport(inbox[i], u)}
      /\ Reports(u)' = {i \in DOMAIN inbox' : IsReport(inbox'[i], u)}
  BY ReportsAre, ReportsAreNext
<1>6. ASSUME IsReport(load, u)  PROVE Reports(u)' = Reports(u) \cup {Len(inbox) + 1}
  BY <1>1, <1>3, <1>4, <1>5, <1>6
<1>7. ASSUME ~ IsReport(load, u)  PROVE Reports(u)' = Reports(u)
  BY <1>1, <1>3, <1>4, <1>5, <1>7
<1> QED BY <1>1, <1>3, <1>4, <1>6, <1>7

LEMMA ReportsTail ==
    ASSUME NEW u \in Unit, inbox \in Seq(Payload), inbox # <<>>, inbox' = Tail(inbox)
    PROVE  /\ inbox' \in Seq(Payload) /\ Head(inbox) = inbox[1] /\ Head(inbox) \in Payload
           /\ 1 \in DOMAIN inbox
           /\ \A i \in DOMAIN inbox' : i + 1 \in DOMAIN inbox /\ inbox'[i] = inbox[i + 1]
           /\ \A i \in DOMAIN inbox : i # 1 => i - 1 \in DOMAIN inbox'
           /\ \A i \in DOMAIN inbox : i \in Nat /\ i >= 1
           /\ \A i \in DOMAIN inbox' : i \in Nat /\ i >= 1
           /\ Reports(u)' = {i \in DOMAIN inbox' : i + 1 \in Reports(u)}
<1>1. /\ inbox' \in Seq(Payload) /\ Len(inbox') = Len(inbox) - 1
      /\ Head(inbox) = inbox[1] /\ Head(inbox) \in Payload
      /\ \A i \in 1..Len(inbox') : inbox'[i] = inbox[i + 1]
  BY HeadTailProperties
<1>2. /\ Len(inbox) \in Nat \ {0} /\ DOMAIN inbox = 1..Len(inbox)
      /\ DOMAIN inbox' = 1..(Len(inbox) - 1)
  BY <1>1, LenProperties, EmptySeq
<1>3. \A i \in DOMAIN inbox' : i + 1 \in DOMAIN inbox /\ inbox'[i] = inbox[i + 1]
  BY <1>1, <1>2
<1>4. Reports(u)' = {i \in DOMAIN inbox' : i + 1 \in Reports(u)}
  BY <1>3, ReportsAre, ReportsAreNext
<1> QED BY <1>1, <1>2, <1>3, <1>4
-----------------------------------------------------------------------------
(* What a step that does not concern a unit leaves of its stage.           *)

LEMMA StageKept ==
    ASSUME NEW u \in Unit, Stage(u),
           Asker(u)' = Asker(u), Waiting(u)' = Waiting(u), Reports(u)' = Reports(u),
           status'[u] = status[u], outcome'[u] = outcome[u],
           \A i \in DOMAIN inbox : i \in DOMAIN inbox' /\ inbox'[i] = inbox[i]
    PROVE  Stage(u)'
<1>1. CASE Idle(u)
  BY <1>1 DEF Stage, Idle
<1>2. CASE \E p \in Process : GivenBy(u, p) /\ (Executing(u) \/ HasEnded(u) \/ Reported(u))
  <2>1. PICK p \in Process : GivenBy(u, p) /\ (Executing(u) \/ HasEnded(u) \/ Reported(u))
    BY <1>2
  <2>2. GivenBy(u, p)'
    BY <2>1 DEF GivenBy
  <2>3. CASE Executing(u)
    BY <2>2, <2>3 DEF Stage, Executing
  <2>4. CASE HasEnded(u)
    BY <2>2, <2>4 DEF Stage, HasEnded, Pending
  <2>5. CASE Reported(u)
    <3>1. Reported(u)'
      BY <2>5 DEF Reported
    <3> QED BY <2>2, <3>1 DEF Stage
  <2> QED BY <2>1, <2>3, <2>4, <2>5
<1> QED BY <1>1, <1>2 DEF Stage

LEMMA StageTail ==
    ASSUME NEW u \in Unit, Stage(u), inbox \in Seq(Payload), inbox # <<>>,
           inbox' = Tail(inbox), 1 \notin Reports(u),
           Asker(u)' = Asker(u), Waiting(u)' = Waiting(u),
           status'[u] = status[u], outcome'[u] = outcome[u]
    PROVE  Stage(u)'
<1>1. /\ \A i \in DOMAIN inbox' : i + 1 \in DOMAIN inbox /\ inbox'[i] = inbox[i + 1]
      /\ \A i \in DOMAIN inbox : i # 1 => i - 1 \in DOMAIN inbox'
      /\ \A i \in DOMAIN inbox : i \in Nat
      /\ \A i \in DOMAIN inbox' : i \in Nat
      /\ Reports(u)' = {i \in DOMAIN inbox' : i + 1 \in Reports(u)}
  BY ReportsTail
<1>2. Reports(u) = {} => Reports(u)' = {}
  BY <1>1
<1>3. CASE Idle(u)
  BY <1>2, <1>3 DEF Stage, Idle
<1>4. CASE \E p \in Process : GivenBy(u, p) /\ (Executing(u) \/ HasEnded(u) \/ Reported(u))
  <2>1. PICK p \in Process : GivenBy(u, p) /\ (Executing(u) \/ HasEnded(u) \/ Reported(u))
    BY <1>4
  <2>2. GivenBy(u, p)'
    BY <2>1 DEF GivenBy
  <2>3. CASE Executing(u)
    BY <1>2, <2>2, <2>3 DEF Stage, Executing
  <2>4. CASE HasEnded(u)
    BY <1>2, <2>2, <2>4 DEF Stage, HasEnded, Pending
  <2>5. CASE Reported(u)
    <3>1. PICK i \in DOMAIN inbox : Reports(u) = {i} /\ inbox[i].status = outcome[u]
      BY <2>5 DEF Reported
    <3>2. i # 1 /\ i - 1 \in DOMAIN inbox' /\ inbox'[i - 1] = inbox[i]
      BY <1>1, <3>1
    <3>3. Reports(u)' = {i - 1}
      BY <1>1, <3>1, <3>2
    <3>4. Reported(u)'
      BY <2>5, <3>1, <3>2, <3>3 DEF Reported
    <3> QED BY <2>2, <3>4 DEF Stage
  <2> QED BY <2>1, <2>3, <2>4, <2>5
<1> QED BY <1>3, <1>4 DEF Stage

(* The unit that the handler serves is one whose command has ended.        *)
LEMMA ServedUnit ==
    ASSUME NEW iln \in Line, CDEV_BITMAP(iln) # {}
    PROVE  LET u == Served(iln, Lowest(CDEV_BITMAP(iln)))
           IN  u \in Unit /\ u.iln = iln /\ Pending(u)
<1> DEFINE dev == Lowest(CDEV_BITMAP(iln))
<1>1. CDEV_BITMAP(iln) \in SUBSET Nat
  <2>1. ASSUME NEW u \in Unit  PROVE u.dev \in 0..7
    BY UnitFields
  <2> QED BY <2>1 DEF CDEV_BITMAP
<1>2. dev \in CDEV_BITMAP(iln)
  BY <1>1, LeastIn
<1>3. PICK v \in Unit : v.iln = iln /\ Pending(v) /\ v.dev = dev
  BY <1>2 DEF CDEV_BITMAP
<1> HIDE DEF dev
<1>4. /\ <<iln, dev>> \in Attached /\ v.sub \in Sub(iln)
      /\ v = [iln |-> iln, dev |-> dev, sub |-> v.sub]
  BY <1>3, UnitFields
<1>5. \A s \in Sub(iln) : [iln |-> iln, dev |-> dev, sub |-> s] \in Unit
  BY <1>4 DEF Unit
<1>6. CASE iln # 21
  <2>1. v.sub = "dtp" /\ Served(iln, dev) = [iln |-> iln, dev |-> dev, sub |-> "dtp"]
    BY <1>4, <1>6 DEF Sub, Served
  <2> QED BY <1>3, <1>4, <2>1 DEF dev
<1>7. CASE iln = 21
  <2> DEFINE t == [iln |-> iln, dev |-> dev, sub |-> "transm"]
             r == [iln |-> iln, dev |-> dev, sub |-> "recv"]
  <2>1. v = t \/ v = r
    BY <1>4, <1>7 DEF Sub
  <2>2. t \in Unit /\ r \in Unit /\ t.iln = iln /\ r.iln = iln
    BY <1>5, <1>7 DEF Sub
  <2>3. Served(iln, dev) = IF Pending(t) THEN t ELSE r
    BY <1>7 DEF Served, Sub, Pending
  <2> HIDE DEF t, r
  <2>4. CASE Pending(t)
    BY <2>2, <2>3, <2>4 DEF dev
  <2>5. CASE ~ Pending(t)
    BY <1>3, <2>1, <2>2, <2>3, <2>5 DEF dev
  <2> QED BY <2>4, <2>5
<1> QED BY <1>6, <1>7
-----------------------------------------------------------------------------
LEMMA InterruptsInit == Init => InterruptsInv
<1> SUFFICES ASSUME Init PROVE InterruptsInv
  OBVIOUS
<1>1. InterruptsTypeOK
  <2>1. <<>> \in Seq(Payload) /\ <<>> \in Seq(Process)
    BY EmptySeq
  <2> QED BY <2>1 DEF Init, InterruptsTypeOK, READY, NONE, NoUnit
<1>2. ASSUME NEW u \in Unit  PROVE Idle(u)
  <2>1. Asker(u) = {}
    BY UnitFields DEF Init, Asker
  <2>2. Waiting(u) = <<>>
    BY Numbers DEF Init, Waiting, MAXDEVICE
  <2>3. Reports(u) = {}
    BY DEF Init, Reports
  <2> QED BY <2>1, <2>2, <2>3 DEF Init, Idle
<1>3. OnlyReports /\ LinesServed /\ NoPanic
  BY DEF Init, OnlyReports, LinesServed, NoPanic
<1> QED BY <1>1, <1>2, <1>3 DEF InterruptsInv, Stage

(* What a step has to keep when no unit is concerned by it.                *)
LEMMA Untouched ==
    ASSUME InterruptsInv, UNCHANGED <<devices, pcb_blocked_on_device, asked, inbox>>
    PROVE  /\ \A u \in Unit : Stage(u)'
           /\ OnlyReports'
           /\ \A iln : CDEV_BITMAP(iln)' = CDEV_BITMAP(iln)
<1>1. ASSUME NEW u \in Unit  PROVE Stage(u)'
  <2>1. /\ Asker(u)' = Asker(u) /\ Waiting(u)' = Waiting(u) /\ Reports(u)' = Reports(u)
    BY DEF Asker, Waiting, Reports
  <2> QED BY <2>1, StageKept DEF devices, InterruptsInv
<1>2. OnlyReports'
  BY DEF InterruptsInv, OnlyReports
<1>3. \A iln : CDEV_BITMAP(iln)' = CDEV_BITMAP(iln)
  BY DEF CDEV_BITMAP, Pending, devices
<1> QED BY <1>1, <1>2, <1>3

LEMMA StepCompletes ==
    ASSUME InterruptsInv, NEW u \in Unit, Completes(u)
    PROVE  InterruptsInv'
<1>1. PICK code \in Ended : /\ status' = [status EXCEPT ![u] = InRegister(u, code)]
                            /\ outcome' = [outcome EXCEPT ![u] = code]
  BY DEF Completes
<1>2. /\ InRegister(u, code) \in {4, 5, 5 + 256 * 90}
      /\ InRegister(u, code) % 256 = code
      /\ code \in {4, 5}
  BY DEF InRegister, Ended, Char
<1>3. /\ status[u] = 3
      /\ UNCHANGED <<timer, mip, inbox, pcb_blocked_on_device, pcb_blocked_on_clock,
                     asked, panic>>
  BY DEF Completes, BUSY
<1>4. InterruptsTypeOK'
  BY <1>1, <1>2, <1>3 DEF InterruptsInv, InterruptsTypeOK, READY, BUSY, Ended, Char, NONE
<1>5. \A v \in Unit : /\ Asker(v)' = Asker(v) /\ Waiting(v)' = Waiting(v)
                      /\ Reports(v)' = Reports(v)
                      /\ v # u => status'[v] = status[v] /\ outcome'[v] = outcome[v]
  BY <1>1, <1>3 DEF Asker, Waiting, Reports, InterruptsInv, InterruptsTypeOK
<1>6. Stage(u)'
  <2>1. Stage(u) /\ ~ Idle(u) /\ ~ HasEnded(u) /\ ~ Reported(u)
    BY <1>3 DEF InterruptsInv, Idle, HasEnded, Reported, READY, BUSY, Pending
  <2>2. PICK p \in Process : GivenBy(u, p) /\ Executing(u)
    BY <2>1 DEF Stage
  <2>3. status'[u] = InRegister(u, code) /\ outcome'[u] = code
    BY <1>1 DEF InterruptsInv, InterruptsTypeOK
  <2>4. HasEnded(u)'
    BY <1>2, <1>5, <2>2, <2>3 DEF HasEnded, Executing, Pending, READY, BUSY
  <2> QED BY <1>5, <2>2, <2>4 DEF Stage, GivenBy
<1>7. ASSUME NEW v \in Unit, v # u  PROVE Stage(v)'
  BY <1>3, <1>5, <1>7, StageKept DEF InterruptsInv
<1>8. OnlyReports' /\ NoPanic'
  BY <1>3 DEF InterruptsInv, OnlyReports, NoPanic
<1>9. LinesServed'
  <2>1. \A v \in Unit : Pending(v) => Pending(v)'
    BY <1>2, <1>1, <1>3, <1>5 DEF Pending, BUSY
  <2>2. \A iln : CDEV_BITMAP(iln) # {} => CDEV_BITMAP(iln)' # {}
    BY <2>1 DEF CDEV_BITMAP
  <2> QED BY <1>3, <2>2 DEF InterruptsInv, LinesServed
<1> QED BY <1>4, <1>6, <1>7, <1>8, <1>9 DEF InterruptsInv

LEMMA StepTimers ==
    ASSUME InterruptsInv, TimerFires \/ EntersHandler
    PROVE  InterruptsInv'
<1>1. UNCHANGED <<devices, inbox, pcb_blocked_on_device, pcb_blocked_on_clock, asked, panic>>
  BY DEF TimerFires, EntersHandler
<1>2. timer' \in BOOLEAN /\ mip' \subseteq Line \cup {3}
  BY DEF TimerFires, EntersHandler, MIP, InterruptsInv, InterruptsTypeOK
<1>3. InterruptsTypeOK'
  BY <1>1, <1>2 DEF InterruptsInv, InterruptsTypeOK, devices
<1>4. \A iln \in mip' \ {3} : CDEV_BITMAP(iln) # {}
  BY DEF TimerFires, EntersHandler, MIP, InterruptsInv, LinesServed
<1>5. LinesServed' /\ NoPanic'
  BY <1>1, <1>4, Untouched DEF LinesServed, NoPanic, InterruptsInv
<1> QED BY <1>1, <1>3, <1>5, Untouched DEF InterruptsInv

LEMMA StepItInterruptHandler ==
    ASSUME InterruptsInv, it_interrupt_handler
    PROVE  InterruptsInv'
<1> DEFINE tick == payload(1, 0, 0, 0, 0)
<1>1. tick \in Payload /\ tick.service = 1
  BY DEF payload, Payload
<1> HIDE DEF tick
<1>2. /\ inbox' = Append(inbox, tick) /\ inbox \in Seq(Payload) /\ mip' = mip \ {3}
      /\ timer' = FALSE
      /\ UNCHANGED <<devices, pcb_blocked_on_device, pcb_blocked_on_clock, asked, panic>>
  BY DEF it_interrupt_handler, InterruptsInv, InterruptsTypeOK, tick
<1>3. /\ inbox' \in Seq(Payload)
      /\ DOMAIN inbox' = DOMAIN inbox \cup {Len(inbox) + 1}
      /\ \A i \in DOMAIN inbox : inbox'[i] = inbox[i]
      /\ inbox'[Len(inbox) + 1] = tick
  <2>1. /\ inbox' \in Seq(Payload) /\ Len(inbox') = Len(inbox) + 1
        /\ \A i \in 1..Len(inbox) : inbox'[i] = inbox[i]
        /\ inbox'[Len(inbox) + 1] = tick
    BY <1>1, <1>2, AppendProperties
  <2> QED BY <1>2, <2>1, LenProperties
<1>4. InterruptsTypeOK'
  BY <1>2, <1>3 DEF InterruptsInv, InterruptsTypeOK, devices
<1>5. ASSUME NEW u \in Unit  PROVE Stage(u)'
  <2>1. Reports(u)' = Reports(u)
    BY <1>1, <1>2, ReportsAppend DEF IsReport
  <2>2. Asker(u)' = Asker(u) /\ Waiting(u)' = Waiting(u)
    BY <1>2 DEF Asker, Waiting
  <2> QED BY <1>2, <1>3, <2>1, <2>2, StageKept DEF InterruptsInv, devices
<1>6. OnlyReports'
  BY <1>1, <1>3 DEF InterruptsInv, OnlyReports
<1>7. LinesServed' /\ NoPanic'
  BY <1>2 DEF InterruptsInv, LinesServed, NoPanic, CDEV_BITMAP, Pending, devices
<1> QED BY <1>4, <1>5, <1>6, <1>7 DEF InterruptsInv

LEMMA StepDeviceInterruptHandler ==
    ASSUME InterruptsInv, device_interrupt_handler
    PROVE  InterruptsInv'
<1>1. PICK iln \in mip : iln = Lowest(mip) /\ iln \in Line /\ iln \in 17..21
  <2>1. ASSUME NEW x \in mip  PROVE x \in Line /\ x \in 17..21
    <3>1. x \in Line
      BY DEF device_interrupt_handler, InterruptsInv, InterruptsTypeOK
    <3>2. PICK a \in Attached : x = a[1]
      BY <3>1 DEF Line
    <3>3. x \in 17..21
      BY <3>2, InterruptsAssumption
    <3> QED BY <3>1, <3>3
  <2>2. mip \in SUBSET Nat /\ mip # {}
    BY <2>1 DEF device_interrupt_handler
  <2>3. Lowest(mip) \in mip
    BY <2>2, LeastIn
  <2> QED BY <2>1, <2>3
<1>2. CDEV_BITMAP(iln) # {}
  BY <1>1 DEF InterruptsInv, LinesServed, device_interrupt_handler
<1>3. PICK u \in Unit :
         u = Served(iln, Lowest(CDEV_BITMAP(iln))) /\ u.iln = iln /\ Pending(u)
  BY <1>1, <1>2, ServedUnit
<1>4. PICK load \in Payload :
         /\ load = payload(0, status[u], iln - DEV_IL_START, u.dev,
                           IF u.sub = "transm" THEN 1 ELSE 0)
         /\ IsReport(load, u) /\ load.status = status[u] % 256
  <2>1. status[u] \in {1, 3, 4, 5, 5 + 256 * 90}
    BY DEF InterruptsInv, InterruptsTypeOK, READY, BUSY, Ended, Char
  <2>2. status[u] \in Nat
    BY <2>1
  <2> QED BY <1>3, <2>2, ReportPayload
<1>5. /\ mip' = mip \ {iln} /\ panic' = panic
      /\ status' = [status EXCEPT ![u] = READY]
      /\ inbox' = Append(inbox, load) /\ inbox \in Seq(Payload)
      /\ UNCHANGED <<timer, outcome, pcb_blocked_on_device, pcb_blocked_on_clock, asked>>
  BY <1>1, <1>2, <1>3, <1>4
     DEF device_interrupt_handler, HandledLine, InterruptsInv, InterruptsTypeOK
<1>6. /\ inbox' \in Seq(Payload)
      /\ DOMAIN inbox' = DOMAIN inbox \cup {Len(inbox) + 1}
      /\ \A i \in DOMAIN inbox : inbox'[i] = inbox[i]
      /\ inbox'[Len(inbox) + 1] = load
      /\ Reports(u)' = Reports(u) \cup {Len(inbox) + 1}
  BY <1>4, <1>5, ReportsAppend
<1>7. InterruptsTypeOK'
  BY <1>5, <1>6 DEF InterruptsInv, InterruptsTypeOK
<1>8. \A v \in Unit : Asker(v)' = Asker(v) /\ Waiting(v)' = Waiting(v)
  BY <1>5 DEF Asker, Waiting
<1>9. Stage(u)'
  <2>1. Stage(u) /\ ~ Idle(u) /\ ~ Executing(u) /\ ~ Reported(u)
    BY <1>3 DEF InterruptsInv, Idle, Executing, Reported, Pending, READY, BUSY
  <2>2. PICK p \in Process : GivenBy(u, p) /\ HasEnded(u)
    BY <2>1 DEF Stage
  <2>3. status'[u] = READY
    BY <1>5 DEF InterruptsInv, InterruptsTypeOK
  <2>4. Reports(u)' = {Len(inbox) + 1} /\ inbox'[Len(inbox) + 1].status = outcome'[u]
    BY <1>4, <1>5, <1>6, <2>2 DEF HasEnded
  <2>5. Reported(u)'
    BY <1>6, <2>3, <2>4 DEF Reported
  <2> QED BY <1>3, <1>8, <2>2, <2>5 DEF Stage, GivenBy
<1>10. ASSUME NEW v \in Unit, v # u  PROVE Stage(v)'
  <2>1. ~ IsReport(load, v)
    BY <1>4, <1>10, ReportOfOne
  <2>2. Reports(v)' = Reports(v)
    BY <1>4, <1>5, <2>1, ReportsAppend
  <2>3. status'[v] = status[v] /\ outcome'[v] = outcome[v]
    BY <1>5, <1>10 DEF InterruptsInv, InterruptsTypeOK
  <2> QED BY <1>6, <1>8, <2>2, <2>3, StageKept DEF InterruptsInv
<1>11. OnlyReports'
  BY <1>4, <1>6 DEF InterruptsInv, OnlyReports
<1>12. LinesServed'
  <2>1. \A v \in Unit : v.iln # iln => status'[v] = status[v]
    BY <1>3, <1>5 DEF InterruptsInv, InterruptsTypeOK
  <2>2. \A l : l # iln => CDEV_BITMAP(l)' = CDEV_BITMAP(l)
    BY <2>1 DEF CDEV_BITMAP, Pending
  <2> QED BY <1>5, <2>2 DEF InterruptsInv, LinesServed
<1>13. NoPanic'
  BY <1>5 DEF InterruptsInv, NoPanic
<1> QED BY <1>7, <1>9, <1>10, <1>11, <1>12, <1>13 DEF InterruptsInv

LEMMA StepDoIo ==
    ASSUME InterruptsInv, NEW u \in Unit, NEW p \in Process, do_io(p, u)
    PROVE  InterruptsInv'
<1>1. /\ pcb_blocked_on_device' =
             [pcb_blocked_on_device EXCEPT ![QueueOf(u)] = Append(RemoveFirst(@, p), p)]
      /\ status' = [status EXCEPT ![u] = BUSY]
      /\ asked' = [asked EXCEPT ![p] = u]
      /\ UNCHANGED <<timer, mip, inbox, pcb_blocked_on_clock, outcome, panic>>
      /\ mip = {} /\ asked[p] = NoUnit /\ \A q \in Process : asked[q] # u
  BY DEF do_io, SsiRuns, QueueOf
<1>2. /\ status \in [Unit -> {1, 3, 4, 5, 5 + 256 * 90}]
      /\ asked \in [Process -> Unit \cup {NoUnit}]
      /\ pcb_blocked_on_device \in [0..(MAXDEVICE - 1) -> Seq(Process)]
  BY DEF InterruptsInv, InterruptsTypeOK, READY, BUSY, Ended, Char
<1>3. Idle(u)
  <2>1. Asker(u) = {}
    BY <1>1 DEF Asker
  <2> QED BY <2>1 DEF InterruptsInv, Stage, GivenBy
<1>4. QueueOf(u) \in 0..(MAXDEVICE - 1)
  BY Numbers
<1>5. Append(RemoveFirst(pcb_blocked_on_device[QueueOf(u)], p), p) = <<p>>
  <2>1. RemoveFirst(<<>>, p) = <<>>
    BY DEF RemoveFirst
  <2>2. pcb_blocked_on_device[QueueOf(u)] = <<>>
    BY <1>3 DEF Idle, Waiting
  <2>3. Append(<<>>, p) = <<p>>
    OBVIOUS
  <2> QED BY <2>1, <2>2, <2>3
<1>6. pcb_blocked_on_device' = [pcb_blocked_on_device EXCEPT ![QueueOf(u)] = <<p>>]
  BY <1>1, <1>5
<1>7. InterruptsTypeOK'
  <2>1. <<p>> \in Seq(Process)
    OBVIOUS
  <2>2. pcb_blocked_on_device' \in [0..(MAXDEVICE - 1) -> Seq(Process)]
    BY <1>2, <1>4, <1>6, <2>1
  <2> QED BY <1>1, <1>2, <2>2
         DEF InterruptsInv, InterruptsTypeOK, READY, BUSY, Ended, Char
<1>8. Stage(u)'
  <2>1. Asker(u)' = {p}
    BY <1>1, <1>2 DEF Asker
  <2>2. Waiting(u)' = <<p>>
    BY <1>2, <1>4, <1>6 DEF Waiting
  <2>3. Reports(u)' = {} /\ outcome'[u] = NONE /\ status'[u] = BUSY
    BY <1>1, <1>2, <1>3 DEF Idle, Reports
  <2> QED BY <2>1, <2>2, <2>3 DEF Stage, GivenBy, Executing
<1>9. ASSUME NEW v \in Unit, v # u  PROVE Stage(v)'
  <2>1. Asker(v)' = Asker(v)
    <3>1. v # NoUnit
      BY UnitFields
    <3> QED BY <1>1, <1>2, <1>9, <3>1 DEF Asker
  <2>2. Waiting(v)' = Waiting(v)
    <3>1. QueueOf(v) # QueueOf(u) /\ QueueOf(v) \in 0..(MAXDEVICE - 1)
      BY <1>9, NumbersDistinct, Numbers
    <3> QED BY <1>2, <1>6, <3>1 DEF Waiting
  <2>3. Reports(v)' = Reports(v) /\ status'[v] = status[v] /\ outcome'[v] = outcome[v]
    BY <1>1, <1>2, <1>9 DEF Reports
  <2> QED BY <1>1, <2>1, <2>2, <2>3, StageKept DEF InterruptsInv
<1>10. OnlyReports' /\ LinesServed' /\ NoPanic'
  BY <1>1 DEF InterruptsInv, OnlyReports, LinesServed, NoPanic
<1> QED BY <1>7, <1>8, <1>9, <1>10 DEF InterruptsInv

LEMMA StepWaitForClock ==
    ASSUME InterruptsInv, NEW p \in Process, wait_for_clock(p)
    PROVE  InterruptsInv'
<1>1. pcb_blocked_on_clock' \in Seq(Process)
  BY DEF wait_for_clock, InterruptsInv, InterruptsTypeOK
<1>2. UNCHANGED <<devices, timer, mip, inbox, pcb_blocked_on_device, asked, panic>>
  BY DEF wait_for_clock
<1>3. InterruptsTypeOK' /\ LinesServed' /\ NoPanic'
  BY <1>1, <1>2, Untouched DEF InterruptsInv, InterruptsTypeOK, LinesServed, NoPanic, devices
<1> QED BY <1>2, <1>3, Untouched DEF InterruptsInv

(* The report at the head of the SSI's inbox is that of a unit whose       *)
(* process is alone in the queue it is looked up in.                       *)
LEMMA AnsweredUnit ==
    ASSUME InterruptsInv, inbox # <<>>, Head(inbox).service = 0
    PROVE  \E u \in Unit : \E p \in Process :
              /\ Reports(u) = {1} /\ Head(inbox).status = outcome[u]
              /\ Reported(u) /\ GivenBy(u, p) /\ Index(Head(inbox)) = QueueOf(u)
              /\ \A v \in Unit : v # u => 1 \notin Reports(v)
<1>1. inbox \in Seq(Payload)
  BY DEF InterruptsInv, InterruptsTypeOK
<1>2. 1 \in DOMAIN inbox /\ Head(inbox) = inbox[1] /\ inbox[1] \in Payload
  BY <1>1, HeadTailProperties, LenProperties, EmptySeq
<1>3. PICK u \in Unit : IsReport(inbox[1], u)
  BY <1>2 DEF InterruptsInv, OnlyReports
<1>4. 1 \in Reports(u)
  BY <1>2, <1>3, ReportsAre
<1>5. ~ Idle(u) /\ ~ Executing(u) /\ ~ HasEnded(u) /\ Stage(u)
  BY <1>4 DEF InterruptsInv, Idle, Executing, HasEnded
<1>6. PICK p \in Process : GivenBy(u, p) /\ Reported(u)
  BY <1>5 DEF Stage
<1>7. Reports(u) = {1} /\ inbox[1].status = outcome[u]
  BY <1>4, <1>6 DEF Reported
<1>8. ASSUME NEW v \in Unit, v # u  PROVE 1 \notin Reports(v)
  BY <1>3, <1>8, ReportOfOne, ReportsAre
<1>9. Index(inbox[1]) = QueueOf(u)
  BY <1>2, <1>3, ReportIndex
<1> QED BY <1>2, <1>6, <1>7, <1>8, <1>9

LEMMA StepAnswerDoIo ==
    ASSUME InterruptsInv, answer_do_io
    PROVE  InterruptsInv'
<1>1. /\ inbox # <<>> /\ Head(inbox).service = 0 /\ inbox' = Tail(inbox) /\ mip = {}
      /\ UNCHANGED <<status, timer, mip, pcb_blocked_on_clock, panic>>
  BY DEF answer_do_io, SsiRuns
<1>2. /\ inbox \in Seq(Payload)
      /\ asked \in [Process -> Unit \cup {NoUnit}]
      /\ outcome \in [Unit -> Ended \cup {NONE}]
      /\ pcb_blocked_on_device \in [0..(MAXDEVICE - 1) -> Seq(Process)]
  BY DEF InterruptsInv, InterruptsTypeOK
<1>3. PICK u \in Unit, p \in Process :
         /\ Reports(u) = {1} /\ Head(inbox).status = outcome[u]
         /\ Reported(u) /\ GivenBy(u, p) /\ Index(Head(inbox)) = QueueOf(u)
         /\ \A v \in Unit : v # u => 1 \notin Reports(v)
  BY <1>1, AnsweredUnit
<1>4. QueueOf(u) \in 0..(MAXDEVICE - 1)
  BY Numbers
<1>5. pcb_blocked_on_device[QueueOf(u)] = <<p>> /\ asked[p] = u
  BY <1>3 DEF GivenBy, Waiting, Asker
<1>6. <<p>> # <<>> /\ Tail(<<p>>) = <<>> /\ Head(<<p>>) = p
  OBVIOUS
<1>7. /\ pcb_blocked_on_device' = [pcb_blocked_on_device EXCEPT ![QueueOf(u)] = <<>>]
      /\ asked' = [asked EXCEPT ![p] = NoUnit]
      /\ outcome' = [v \in Unit |-> IF \E q \in Process : asked'[q] = v
                                    THEN outcome[v] ELSE NONE]
  BY <1>3, <1>5, <1>6 DEF answer_do_io
<1>8. \A v \in Unit : v # NoUnit
  BY UnitFields
<1>9. ASSUME NEW v \in Unit
      PROVE  /\ v # u => Asker(v)' = Asker(v)
             /\ v = u => Asker(v)' = {}
             /\ Asker(v)' # {} => outcome'[v] = outcome[v]
             /\ Asker(v)' = {} => outcome'[v] = NONE
  <2>1. \A q \in Process : asked'[q] = v <=> asked[q] = v /\ q # p
    BY <1>2, <1>7, <1>8
  <2>2. Asker(v)' = Asker(v) \ {p}
    BY <2>1 DEF Asker
  <2>3. v = u => Asker(v) = {p}
    BY <1>3 DEF GivenBy
  <2>4. v # u => p \notin Asker(v)
    BY <1>5 DEF Asker
  <2>5. outcome'[v] = IF Asker(v)' # {} THEN outcome[v] ELSE NONE
    BY <1>7 DEF Asker
  <2> QED BY <2>2, <2>3, <2>4, <2>5
<1>10. inbox' \in Seq(Payload)
  BY <1>1, <1>2, ReportsTail
<1>11. InterruptsTypeOK'
  <2>1. <<>> \in Seq(Process)
    BY EmptySeq
  <2>2. pcb_blocked_on_device' \in [0..(MAXDEVICE - 1) -> Seq(Process)]
    BY <1>2, <1>4, <1>7, <2>1
  <2>3. asked' \in [Process -> Unit \cup {NoUnit}]
    BY <1>2, <1>7
  <2>4. outcome' \in [Unit -> Ended \cup {NONE}]
    BY <1>2, <1>7
  <2> QED BY <1>1, <1>10, <2>2, <2>3, <2>4 DEF InterruptsInv, InterruptsTypeOK
<1>12. Stage(u)'
  <2>1. Waiting(u)' = <<>>
    BY <1>2, <1>4, <1>7 DEF Waiting
  <2>2. Reports(u)' = {}
    <3>1. /\ Reports(u)' = {i \in DOMAIN inbox' : i + 1 \in Reports(u)}
          /\ \A i \in DOMAIN inbox' : i \in Nat /\ i >= 1
      BY <1>1, <1>2, ReportsTail
    <3>2. \A i \in DOMAIN inbox' : i + 1 # 1
      BY <3>1
    <3> QED BY <1>3, <3>1, <3>2
  <2>3. status'[u] = READY
    BY <1>1, <1>3 DEF Reported
  <2> QED BY <1>9, <2>1, <2>2, <2>3 DEF Stage, Idle
<1>13. ASSUME NEW v \in Unit, v # u  PROVE Stage(v)'
  <2>1. Asker(v)' = Asker(v)
    BY <1>9, <1>13
  <2>2. Waiting(v)' = Waiting(v)
    <3>1. QueueOf(v) # QueueOf(u) /\ QueueOf(v) \in 0..(MAXDEVICE - 1)
      BY <1>13, NumbersDistinct, Numbers
    <3> QED BY <1>2, <1>7, <3>1 DEF Waiting
  <2>3. outcome'[v] = outcome[v]
    <3>1. Stage(v)
      BY DEF InterruptsInv
    <3>2. CASE Idle(v)
      BY <1>9, <2>1, <3>2 DEF Idle
    <3>3. CASE ~ Idle(v)
      BY <1>9, <2>1, <3>1, <3>3 DEF Stage, GivenBy
    <3> QED BY <3>2, <3>3
  <2>4. 1 \notin Reports(v) /\ Stage(v)
    BY <1>3, <1>13 DEF InterruptsInv
  <2> QED BY <1>1, <1>2, <2>1, <2>2, <2>3, <2>4, StageTail
<1>14. OnlyReports'
  BY <1>1, <1>2, ReportsTail DEF InterruptsInv, OnlyReports
<1>15. LinesServed' /\ NoPanic'
  BY <1>1 DEF InterruptsInv, LinesServed, NoPanic
<1> QED BY <1>11, <1>12, <1>13, <1>14, <1>15 DEF InterruptsInv

LEMMA StepAnswerWaitForClock ==
    ASSUME InterruptsInv, answer_wait_for_clock
    PROVE  InterruptsInv'
<1>1. /\ inbox # <<>> /\ Head(inbox).service = 1 /\ inbox' = Tail(inbox) /\ mip = {}
      /\ pcb_blocked_on_clock' = <<>>
      /\ UNCHANGED <<devices, timer, mip, pcb_blocked_on_device, asked, panic>>
  BY DEF answer_wait_for_clock, SsiRuns
<1>2. inbox \in Seq(Payload)
  BY DEF InterruptsInv, InterruptsTypeOK
<1>3. Head(inbox) = inbox[1] /\ inbox' \in Seq(Payload)
  BY <1>1, <1>2, HeadTailProperties
<1>4. InterruptsTypeOK'
  <2>1. <<>> \in Seq(Process)
    BY EmptySeq
  <2> QED BY <1>1, <1>3, <2>1 DEF InterruptsInv, InterruptsTypeOK, devices
<1>5. ASSUME NEW v \in Unit  PROVE Stage(v)'
  <2>1. 1 \notin Reports(v)
    BY <1>1, <1>3 DEF Reports
  <2>2. Asker(v)' = Asker(v) /\ Waiting(v)' = Waiting(v)
    BY <1>1 DEF Asker, Waiting
  <2> QED BY <1>1, <1>2, <2>1, <2>2, StageTail DEF InterruptsInv, devices
<1>6. OnlyReports'
  <2>1. /\ \A i \in DOMAIN inbox : i # 1 => i - 1 \in DOMAIN inbox'
        /\ \A i \in DOMAIN inbox' : i + 1 \in DOMAIN inbox /\ inbox'[i] = inbox[i + 1]
    <3>1. /\ Len(inbox') = Len(inbox) - 1
          /\ \A i \in 1..Len(inbox') : inbox'[i] = inbox[i + 1]
      BY <1>1, <1>2, HeadTailProperties
    <3> QED BY <1>2, <1>3, <3>1, LenProperties
  <2> QED BY <2>1 DEF InterruptsInv, OnlyReports
<1>7. LinesServed' /\ NoPanic'
  BY <1>1 DEF InterruptsInv, LinesServed, NoPanic
<1> QED BY <1>4, <1>5, <1>6, <1>7 DEF InterruptsInv

LEMMA InterruptsStep == InterruptsInv /\ [Next]_vars => InterruptsInv'
<1> SUFFICES ASSUME InterruptsInv, [Next]_vars PROVE InterruptsInv'
  OBVIOUS
<1>1. ASSUME NEW u \in Unit, Completes(u)  PROVE InterruptsInv'
  BY <1>1, StepCompletes
<1>2. ASSUME NEW u \in Unit, NEW p \in Process, do_io(p, u)  PROVE InterruptsInv'
  BY <1>2, StepDoIo
<1>3. ASSUME NEW p \in Process, wait_for_clock(p)  PROVE InterruptsInv'
  BY <1>3, StepWaitForClock
<1>4. CASE TimerFires \/ EntersHandler
  BY <1>4, StepTimers
<1>5. CASE it_interrupt_handler
  BY <1>5, StepItInterruptHandler
<1>6. CASE device_interrupt_handler
  BY <1>6, StepDeviceInterruptHandler
<1>7. CASE answer_do_io
  BY <1>7, StepAnswerDoIo
<1>8. CASE answer_wait_for_clock
  BY <1>8, StepAnswerWaitForClock
<1>9. CASE UNCHANGED vars
  <2>1. UNCHANGED <<devices, timer, mip, inbox, pcb_blocked_on_device,
                    pcb_blocked_on_clock, asked, panic>>
    BY <1>9 DEF vars, devices
  <2>2. InterruptsTypeOK' /\ LinesServed' /\ NoPanic'
    BY <2>1, Untouched DEF InterruptsInv, InterruptsTypeOK, LinesServed, NoPanic, devices
  <2> QED BY <2>1, <2>2, Untouched DEF InterruptsInv
<1> QED BY <1>1, <1>2, <1>3, <1>4, <1>5, <1>6, <1>7, <1>8, <1>9 DEF Next

(* The invariant holds in every reachable state.                           *)
THEOREM InterruptsInvariance == Spec => []InterruptsInv
BY InterruptsInit, InterruptsStep, PTL DEF Spec
-----------------------------------------------------------------------------
(* Type correctness: the numbers computed from addresses and payloads stay *)
(* inside pcb_blocked_on_device, and the chars of a message are chars.     *)
THEOREM InterruptsTypeInvariance == Spec => []InterruptsTypeOK
<1>1. InterruptsInv => InterruptsTypeOK
  BY DEF InterruptsInv
<1> QED BY <1>1, InterruptsInvariance, PTL

(* interrupt_handler() never PANICs: a line of its copy of MIP has a device *)
(* to serve however many devices end their commands meanwhile.             *)
THEOREM HandlerNeverPanics == Spec => []NoPanic
<1>1. InterruptsInv => NoPanic
  BY DEF InterruptsInv
<1> QED BY <1>1, InterruptsInvariance, PTL

(* From the command register to the answer, a command is at one stage, and *)
(* only the process that gave it is in the queue its report is looked up in. *)
THEOREM CommandsUnderWay == Spec => []CommandUnderWay
<1>1. InterruptsInv => CommandUnderWay
  <2> SUFFICES ASSUME InterruptsInv, NEW u \in Unit
               PROVE  /\ Cardinality(Reports(u)) + (IF status[u] = READY THEN 0 ELSE 1)
                             = Cardinality(Asker(u))
                      /\ ToSet(Waiting(u)) = Asker(u)
    BY DEF CommandUnderWay, Waiting, QueueOf
  <2>1. Cardinality({}) = 0 /\ \A x : Cardinality({x}) = 1
    BY FS_EmptySet, FS_Singleton
  <2>2. ToSet(<<>>) = {} /\ \A p : ToSet(<<p>>) = {p}
    BY DEF ToSet
  <2>3. CASE Idle(u)
    BY <2>1, <2>2, <2>3 DEF Idle
  <2>4. CASE ~ Idle(u)
    <3>1. PICK p \in Process : GivenBy(u, p) /\ (Executing(u) \/ HasEnded(u) \/ Reported(u))
      BY <2>4 DEF InterruptsInv, Stage
    <3>2. CASE Executing(u) \/ HasEnded(u)
      <4>1. Asker(u) = {p} /\ Waiting(u) = <<p>> /\ Reports(u) = {} /\ status[u] # READY
        BY <3>1, <3>2 DEF GivenBy, Executing, HasEnded, Pending, READY, BUSY
      <4>2. Cardinality(Reports(u)) = 0 /\ Cardinality(Asker(u)) = 1
        BY <2>1, <4>1
      <4> QED BY <2>2, <4>1, <4>2
    <3>3. CASE Reported(u)
      <4>1. PICK i : Asker(u) = {p} /\ Waiting(u) = <<p>> /\ Reports(u) = {i} /\ status[u] = READY
        BY <3>1, <3>3 DEF GivenBy, Reported
      <4>2. Cardinality(Reports(u)) = 1 /\ Cardinality(Asker(u)) = 1
        BY <2>1, <4>1
      <4> QED BY <2>2, <4>1, <4>2
    <3> QED BY <3>1, <3>2, <3>3
  <2> QED BY <2>3, <2>4
<1> QED BY <1>1, InterruptsInvariance, PTL

(* The answer to an I/O request carries the status with which the command  *)
(* of that very request ended, whatever other commands end meanwhile.      *)
THEOREM AnswersOwnStatus == Spec => OwnStatus
<1> DEFINE Own == \A p \in Process :
                     asked[p] # NoUnit /\ asked'[p] # asked[p] =>
                         /\ asked'[p] = NoUnit
                         /\ Head(inbox).status = outcome[asked[p]]
                         /\ Reports(asked[p]) # {}
<1>1. InterruptsInv /\ [Next]_vars => [Own]_vars
  <2> SUFFICES ASSUME InterruptsInv, Next, NEW p \in Process,
                      asked[p] # NoUnit, asked'[p] # asked[p]
               PROVE  /\ asked'[p] = NoUnit
                      /\ Head(inbox).status = outcome[asked[p]]
                      /\ Reports(asked[p]) # {}
    OBVIOUS
  <2>1. asked \in [Process -> Unit \cup {NoUnit}]
    BY DEF InterruptsInv, InterruptsTypeOK
  <2>2. answer_do_io
    BY <2>1 DEF Next, Completes, do_io, wait_for_clock, TimerFires, EntersHandler,
                it_interrupt_handler, device_interrupt_handler, answer_wait_for_clock
  <2>3. PICK u \in Unit, q \in Process :
           /\ Reports(u) = {1} /\ Head(inbox).status = outcome[u]
           /\ GivenBy(u, q) /\ Index(Head(inbox)) = QueueOf(u)
    BY <2>2, AnsweredUnit DEF answer_do_io
  <2>4. pcb_blocked_on_device[QueueOf(u)] = <<q>> /\ asked[q] = u
    BY <2>3 DEF GivenBy, Waiting, Asker
  <2>5. <<q>> # <<>> /\ Head(<<q>>) = q
    OBVIOUS
  <2>6. asked' = [asked EXCEPT ![q] = NoUnit]
    BY <2>2, <2>3, <2>4, <2>5 DEF answer_do_io
  <2>7. p = q
    BY <2>1, <2>6
  <2> QED BY <2>1, <2>3, <2>4, <2>6, <2>7
<1> QED BY <1>1, InterruptsInvariance, PTL DEF Spec, OwnStatus
=============================================================================
