---------------------------- MODULE ServicesProofs ---------------------------
(***************************************************************************)
(* What becomes of requests, and what the counters of processes say, in    *)
(* Spec of module Nucleus when programs keep the discipline: no request is *)
(* lost, HALT comes at the end, and WAIT ends.                             *)
(***************************************************************************)
EXTENDS NucleusProofs

(* Requests are not lost, while the message pool is not exhausted.         *)
Asking(p) == p \in Live \ Dying /\ call[p].op \in SsiOp
Underway(p) == \E s \in Stage : At(s, p)

(* Who asks is at a stage; the sender of an unknown service code, to whom  *)
(* nobody answers, does not outlive it.                                    *)
Ends == ssi.pc = "terminate" /\ Asked.op = "BAD" => Asker \notin Live \/ Asker \in Stack("ssi")
Heeded == (\A p \in User : Asking(p) => Underway(p)) /\ Ends

LEMMA UnderwayAs ==
    ASSUME NEW p
    PROVE  Underway(p) <=> \/ Requested(p) # {} \/ BeingServed(p)
                           \/ \E d \in Device : p \in ToSet(pcb_blocked_on_device[d])
                           \/ p \in ToSet(pcb_blocked_on_clock)
                           \/ BeingAnswered(p) \/ Replied(p) # {}
BY DEF Underway, At, Stage

LEMMA UnderwayKept ==
    ASSUME NEW p, Underway(p), Requested(p) \subseteq Requested(p)', Replied(p) \subseteq Replied(p)',
           BeingServed(p) \/ BeingAnswered(p) => Underway(p)',
           At("device", p) \/ At("clock", p) => Underway(p)'
    PROVE  Underway(p)'
<1>1. Requested(p)' # {} \/ Replied(p)' # {} => Underway(p)'
  BY DEF Underway, At, Stage
<1> QED BY <1>1, UnderwayAs DEF At

LEMMA NowUnderway ==
    ASSUME NEW p, \/ BeingServed(p)' \/ BeingAnswered(p)'
                  \/ At("device", p)' \/ At("clock", p)'
                  \/ Requested(p)' # {} \/ Replied(p)' # {}
    PROVE  Underway(p)'
<1>1. \E s \in Stage : At(s, p)'
  BY DEF At, Stage
<1> QED BY <1>1 DEF Underway

LEMMA AskingKept ==
    ASSUME NEW p, UNCHANGED <<pcbFree, frame>>, call'[p] = call[p] \/ call'[p].op \notin SsiOp
    PROVE  Asking(p)' => Asking(p)
BY DEF Asking, Live, Dying

(* Only terminate_process makes the SSI wait for the end of its asker.     *)
LEMMA EndsKept ==
    ASSUME Base, Ends, UNCHANGED <<pcbFree, frame>>,
           ssi'.pc = "terminate" => ssi' = ssi,
           ssi_pcb_real \in blocked \/ received'[ssi_pcb_real] = received[ssi_pcb_real]
    PROVE  Ends'
<1>1. ssi.pc = "terminate" => ssi_pcb_real \notin blocked
  BY DEF Base, SsiServes
<1> QED BY <1>1 DEF Ends, Asked, Asker, Live, Stack

LEMMA QuietHeeds ==
    ASSUME Base, Heeded, UNCHANGED <<msg_inbox, received, ssi, pcb_blocked_on_clock>>,
           \A p \in User : Asking(p)' => Asking(p),
           \A p \in User : \A d \in Device :
              p \in ToSet(pcb_blocked_on_device[d]) =>
                  p \in ToSet(pcb_blocked_on_device'[d]) \/ ~Asking(p)',
           Live' \subseteq Live, Asker \in Stack("ssi") => Asker \in Stack("ssi")' \/ Asker \notin Live'
    PROVE  Heeded'
<1>1. ASSUME NEW p \in User, Asking(p)'  PROVE Underway(p)'
  <2>1. Underway(p)
    BY <1>1 DEF Heeded
  <2>2. Requested(p) \subseteq Requested(p)' /\ Replied(p) \subseteq Replied(p)'
    BY DEF Requested, Replied, From
  <2>3. BeingServed(p)' <=> BeingServed(p)
    BY DEF BeingServed, Asker
  <2>4. BeingAnswered(p)' <=> BeingAnswered(p)
    BY DEF BeingAnswered
  <2>5. At("device", p) \/ At("clock", p) => Underway(p)'
    <3>1. At("device", p) \/ At("clock", p) => At("device", p)' \/ At("clock", p)'
      BY <1>1 DEF At
    <3> QED BY <3>1, NowUnderway
  <2>6. BeingServed(p) \/ BeingAnswered(p) => Underway(p)'
    BY <2>3, <2>4, NowUnderway
  <2> QED BY <2>1, <2>2, <2>5, <2>6, UnderwayKept
<1>2. Ends'
  BY DEF Heeded, Ends, Asked, Asker
<1> QED BY <1>1, <1>2 DEF Heeded

(* terminate_process: nobody leaves its stack but a process that is freed, *)
(* and nobody else leaves the device queues.                               *)
LEMMA TermStacks ==
    ASSUME Orderly, NEW a \in Actor, Terminate(a)
    PROVE  \A b \in Actor : \A x \in Stack(b) : x \in Stack(b)' \/ x \notin Live'
<1>0. PICK v, st : v = Victim(a) /\ st = frame[a].stack
  OBVIOUS
<1>1. PICK pc \in FramePc \ {"idle"} : TermAt(a, pc)
  <2>1. {"outChild", "outReady", "outIO", "countRead", "countWrite", "softRead", "softWrite",
         "children"} \subseteq FramePc \ {"idle"}
    BY DEF FramePc
  <2> QED BY <2>1 DEF Terminate, TermOutChild, TermOutReady, TermOutIO, TermReadsCount,
                      TermWritesCount, TermReadsSoftblock, TermWritesSoftblock, TermNextChild, TermFrees
<1>2. /\ Base /\ Stacks /\ frame \in [Actor -> FrameOf] /\ GoodFrame(frame[a])
      /\ st \in Seq(Pcb) /\ st # <<>> /\ v \in User /\ v \in Pcb /\ ssi_pcb_real \notin ToSet(st)
  BY <1>0, <1>1, TermActs DEF Orderly, Base, FrameType, FrameOf, User, GoodFrame
<1>3. ASSUME NEW f, frame' = [frame EXCEPT ![a] = f], \A x \in Stack(a) : x \in ToSet(f.stack) \/ x \notin Live'
      PROVE  \A b \in Actor : \A x \in Stack(b) : x \in Stack(b)' \/ x \notin Live'
  <2>1. \A b \in Actor : frame'[b] = IF b = a THEN f ELSE frame[b]
    BY <1>2, <1>3
  <2> QED BY <1>3, <2>1 DEF Stack
<1>4. ASSUME NEW qc, TermGoes(a, qc)
      PROVE  \A b \in Actor : \A x \in Stack(b) : x \in Stack(b)' \/ x \notin Live'
  <2>1. PICK f : f = [frame[a] EXCEPT !.pc = qc]
    OBVIOUS
  <2>2. f.stack = frame[a].stack /\ frame' = [frame EXCEPT ![a] = f]
    BY <1>2, <1>4, <2>1 DEF FrameOf, TermGoes
  <2> QED BY <1>3, <2>2 DEF Stack
<1>5. CASE TermOutChild(a) \/ TermOutReady(a) \/ TermWritesCount(a) \/ TermWritesSoftblock(a)
  BY <1>4, <1>5 DEF TermOutChild, TermOutReady, TermWritesCount, TermWritesSoftblock
<1>6. CASE TermOutIO(a)
  <2>1. PICK w : frame' = [frame EXCEPT ![a].pc = "countRead", ![a].was_blocked = w]
    BY <1>6 DEF TermOutIO
  <2>2. PICK g : g = [frame[a] EXCEPT !.pc = "countRead"]
    OBVIOUS
  <2>3. PICK f : f = [g EXCEPT !.was_blocked = w]
    OBVIOUS
  <2>4. f.stack = frame[a].stack
    BY <1>2, <2>2, <2>3 DEF FrameOf
  <2>5. frame' = [frame EXCEPT ![a] = f]
    BY <1>2, <2>1, <2>2, <2>3
  <2> QED BY <1>3, <2>4, <2>5 DEF Stack
<1>7. ASSUME NEW qc, NEW n, frame' = [frame EXCEPT ![a].pc = qc, ![a].tmp = n]
      PROVE  \A b \in Actor : \A x \in Stack(b) : x \in Stack(b)' \/ x \notin Live'
  <2>2. PICK g : g = [frame[a] EXCEPT !.pc = qc]
    OBVIOUS
  <2>3. PICK f : f = [g EXCEPT !.tmp = n]
    OBVIOUS
  <2>4. f.stack = frame[a].stack
    BY <1>2, <2>2, <2>3 DEF FrameOf
  <2>5. frame' = [frame EXCEPT ![a] = f]
    BY <1>2, <1>7, <2>2, <2>3
  <2> QED BY <1>3, <2>4, <2>5 DEF Stack
<1>8. CASE TermReadsCount(a) \/ TermReadsSoftblock(a)
  BY <1>7, <1>8 DEF TermReadsCount, TermReadsSoftblock
<1>9. CASE TermNextChild(a)
  <2>1. PICK c : c = Head(p_child[Victim(a)])
    OBVIOUS
  <2>2. Enter(a, c, st) /\ p_child[v] # <<>> /\ p_child[v] \in Seq(Pcb) /\ Once(p_child[v])
    BY <1>0, <1>2, <1>9, <2>1 DEF TermNextChild, Base, ServiceTypes, Orderly, Family
  <2>3. c \in Children(v)
    BY <1>0, <2>1, <2>2, TailRange DEF Children
  <2>4. c # ssi_pcb_real
    BY <1>2, <2>3 DEF Base, SsiApart
  <2>5. PICK f : f = Called(c, st)
    OBVIOUS
  <2>6. frame' = [frame EXCEPT ![a] = f]
    BY <2>2, <2>4, <2>5 DEF Enter, Called
  <2>7. f.stack = <<c>> \o st \/ f = Resume(st)
    BY <1>2, <2>4, <2>5, GoodCalled
  <2>8. ToSet(<<c>> \o st) = {c} \cup ToSet(st) /\ Resume(st).stack = st
    <3>1. c \in Pcb
      BY <1>2, <2>3, ChildrenArePcbs
    <3> QED BY <1>2, <3>1, Push, GoodResume
  <2> QED BY <1>0, <1>3, <2>6, <2>7, <2>8 DEF Stack
<1>10. CASE TermFrees(a)
  <2>1. PICK rest, f : rest = Tail(st) /\ f = Resume(rest)
    OBVIOUS
  <2>2. rest \in Seq(Pcb) /\ ToSet(rest) = ToSet(st) \ {v}
    BY <1>0, <1>2, <2>1, TailRange DEF Stacks, Victim
  <2>3. f.stack = rest
    BY <1>2, <2>1, <2>2, GoodResume
  <2>4. frame' = [frame EXCEPT ![a] = f] /\ pcbFree' = <<v>> \o pcbFree
    BY <1>0, <1>10, <2>1 DEF TermFrees
  <2>5. v \notin Live'
    <3>1. pcbFree \in Seq(Pcb)
      BY <1>2 DEF Base, TypeOK
    <3>2. ToSet(<<v>> \o pcbFree) = {v} \cup ToSet(pcbFree)
      BY <1>2, <3>1, Push
    <3> QED BY <2>4, <3>2 DEF Live
  <2> QED BY <1>0, <1>3, <2>2, <2>3, <2>4, <2>5 DEF Stack
<1> QED BY <1>5, <1>6, <1>8, <1>9, <1>10 DEF Terminate

LEMMA TerminateHeeds ==
    ASSUME Orderly, Heeded, NEW a \in Actor, Terminate(a)
    PROVE  Heeded'
<1>1. /\ Base /\ \A b \in Actor : \A x \in Stack(b) : x \in Stack(b)' \/ x \notin Live'
      /\ pcb_blocked_on_device \in [Device -> Seq(Pcb)] /\ pcbFree \in Seq(Pcb)
      /\ call \in [Pcb -> Request \cup {NoCall, Receiving}]
  BY TermStacks DEF Orderly, Base, ServiceTypes, TypeOK
<1>2. UNCHANGED <<msg_inbox, received, ssi, pcb_blocked_on_clock>>
  BY DEF Terminate, TermOutChild, TermOutReady, TermOutIO, TermReadsCount, TermWritesCount,
         TermReadsSoftblock, TermWritesSoftblock, TermNextChild, TermFrees,
         ipcVars, msgVars, listVars, keepMsg
<1>3. PICK v : v = Victim(a)
  OBVIOUS
<1>4. /\ call' = call \/ call' = [call EXCEPT ![v] = NoCall]
      /\ pcbFree' = pcbFree \/ pcbFree' = <<v>> \o pcbFree
  BY <1>3 DEF Terminate, TermOutChild, TermOutReady, TermOutIO, TermReadsCount, TermWritesCount,
         TermReadsSoftblock, TermWritesSoftblock, TermNextChild, TermFrees,
         ipcVars, procVars
<1>5. v \in Stack(a) /\ v \in Pcb
  <2>1. {"outChild", "outReady", "outIO", "countRead", "countWrite", "softRead", "softWrite",
         "children"} \subseteq FramePc \ {"idle"}
    BY DEF FramePc
  <2>2. PICK pc \in FramePc \ {"idle"} : TermAt(a, pc)
    BY <2>1 DEF Terminate, TermOutChild, TermOutReady, TermOutIO, TermReadsCount,
                TermWritesCount, TermReadsSoftblock, TermWritesSoftblock, TermNextChild, TermFrees
  <2> QED BY <1>1, <1>3, <2>2, TermActs DEF Stack, User
<1>6. Live' \subseteq Live
  <2>1. ToSet(<<v>> \o pcbFree) = {v} \cup ToSet(pcbFree)
    BY <1>1, <1>5, Push
  <2> QED BY <1>4, <2>1 DEF Live
<1>7. \A x \in Live' : x \in Dying => x \in Dying'
  BY <1>1 DEF Dying, Stack
<1>8. ASSUME NEW p \in User, Asking(p)'  PROVE Asking(p) /\ p # v
  <2>1. p \in Live' /\ p \notin Dying' /\ call'[p].op \in SsiOp
    BY <1>8 DEF Asking
  <2>2. p \in Live /\ p \notin Dying
    <3> HIDE DEF Dying
    <3> QED BY <1>6, <1>7, <2>1
  <2>3. p # v
    BY <1>5, <2>2 DEF Dying, Stack
  <2>4. call'[p] = call[p]
    BY <1>1, <1>4, <2>3 DEF User
  <2> QED BY <2>1, <2>2, <2>3, <2>4 DEF Asking
<1>9. pcb_blocked_on_device' \in {pcb_blocked_on_device,
                                 [d \in Device |-> Without(pcb_blocked_on_device[d], v)]}
  BY <1>3 DEF Terminate, TermOutChild, TermOutReady, TermOutIO, TermReadsCount, TermWritesCount,
         TermReadsSoftblock, TermWritesSoftblock, TermNextChild, TermFrees, listVars
<1>10. ASSUME NEW p \in User, NEW d \in Device, p \in ToSet(pcb_blocked_on_device[d])
       PROVE  p \in ToSet(pcb_blocked_on_device'[d]) \/ ~Asking(p)'
  <2>1. PICK q : q = pcb_blocked_on_device[d]
    OBVIOUS
  <2>2. q \in Seq(Pcb) /\ pcb_blocked_on_device'[d] \in {q, Without(q, v)}
    BY <1>1, <1>9, <2>1
  <2>3. ToSet(q) \ {v} \subseteq ToSet(Without(q, v))
    BY <2>2, WithoutRange
  <2> QED BY <1>8, <1>10, <2>1, <2>2, <2>3
<1> QED BY <1>1, <1>2, <1>6, <1>8, <1>10, QuietHeeds DEF Actor

GoesOn(p) == Asking(p)' => Underway(p)' \/ (Asking(p) /\ (Underway(p) => Underway(p)'))

LEMMA HeedsOn ==
    ASSUME Heeded, Ends', \A p \in User : GoesOn(p)
    PROVE  Heeded'
BY DEF Heeded, GoesOn

(* The SSI works on what it serves.                                        *)
LEMMA WorkHeeds ==
    ASSUME Base, Heeded, Ends', received'[ssi_pcb_real] = received[ssi_pcb_real],
           UNCHANGED <<pcb_blocked_on_clock, pcb_blocked_on_device>>,
           msg_inbox'[ssi_pcb_real] = msg_inbox[ssi_pcb_real],
           \A p \in User : Asking(p)' => Asking(p) /\ msg_inbox'[p] = msg_inbox[p],
           ssi.pc \notin {"answer", "tick"},
           \A p \in User : BeingServed(p) => BeingServed(p)'
    PROVE  Heeded'
<1>1. ASSUME NEW p \in User, Asking(p)', Underway(p)  PROVE Underway(p)'
  <2>1. Requested(p) \subseteq Requested(p)' /\ Replied(p) \subseteq Replied(p)'
    BY <1>1 DEF Requested, Replied, From
  <2>2. ~BeingAnswered(p)
    BY DEF BeingAnswered
  <2>3. At("device", p) \/ At("clock", p) => At("device", p)' \/ At("clock", p)'
    BY DEF At
  <2> QED BY <1>1, <2>1, <2>2, <2>3, UnderwayKept, NowUnderway
<1> QED BY <1>1, HeedsOn DEF GoesOn

LEMMA CreatingHeeds ==
    ASSUME Orderly, Heeded,
           \/ CreateAllocates \/ CreateInsertsChild \/ CreateInsertsReady
           \/ CreateReadsCount \/ CreateWritesCount \/ DoIoCommands
    PROVE  Heeded'
<1>1. Base /\ Places /\ Waiting
  BY DEF Orderly
<1>11. CreateReadsCount => ssi'.pc = "countWrite"
  <2>1. ASSUME CreateReadsCount PROVE ssi'.pc = "countWrite"
    <3>1. PICK g : g = [ssi EXCEPT !.pc = "countWrite"]
      OBVIOUS
    <3>2. PICK f : f = [g EXCEPT !.tmp = Inc(process_count)]
      OBVIOUS
    <3>3. f.pc = "countWrite"
      BY <1>1, <3>1, <3>2 DEF Base, SsiType
    <3>4. ssi' = f
      BY <1>1, <2>1, <3>1, <3>2 DEF CreateReadsCount
    <3> QED BY <3>3, <3>4
  <2> QED BY <2>1
<1>2. /\ UNCHANGED <<pcb_blocked_on_clock, pcb_blocked_on_device, call, frame>>
      /\ ssi'.pc # "terminate" /\ ssi.pc \notin {"answer", "tick"}
  <2>1. CASE CreateReadsCount
    BY <1>11, <2>1 DEF CreateReadsCount, SsiAt, listVars
  <2>2. CASE CreateAllocates \/ CreateInsertsChild
    BY <2>2 DEF CreateAllocates, CreateInsertsChild, Serving, SsiAt, SsiGoes
  <2>3. CASE CreateInsertsReady \/ CreateWritesCount \/ DoIoCommands
    BY <2>3 DEF CreateInsertsReady, CreateWritesCount, DoIoCommands, SsiAt, SsiGoes, listVars
  <2> QED BY <2>1, <2>2, <2>3
<1>3. \/ UNCHANGED <<pcbFree, msg_inbox, received>>
      \/ \E q \in Pcb : allocPcb(q)
  BY DEF CreateAllocates, CreateInsertsChild, CreateInsertsReady, CreateReadsCount,
         CreateWritesCount, DoIoCommands, procVars, msgVars, keepMsg, ipcVars
<1>4. ASSUME NEW q \in Pcb, allocPcb(q)
      PROVE  /\ q \notin Live /\ Live' = Live \cup {q} /\ call[q] = NoCall
             /\ \A x \in Pcb \ {q} : msg_inbox'[x] = msg_inbox[x] /\ received'[x] = received[x]
  <2>1. /\ pcbFree \in Seq(Pcb) /\ Once(pcbFree) /\ pcbFree # <<>> /\ q = Head(pcbFree)
        /\ pcbFree' = Tail(pcbFree) /\ msg_inbox' = [msg_inbox EXCEPT ![q] = <<>>]
        /\ received' = [received EXCEPT ![q] = NoMessage]
        /\ msg_inbox \in [Pcb -> Seq(Message)] /\ received \in [Pcb -> Message \cup {NoMessage}]
    BY <1>1, <1>4 DEF allocPcb, Base, TypeOK, Places
  <2>2. q \in ToSet(pcbFree) /\ ToSet(pcbFree') = ToSet(pcbFree) \ {q}
    BY <2>1, TailRange
  <2>3. q \notin Live /\ Live' = Live \cup {q}
    BY <1>4, <2>2 DEF Live
  <2> QED BY <1>1, <1>4, <2>1, <2>3 DEF Waiting, WaitsFor
<1>5. ssi_pcb_real \in Live /\ ssi_pcb_real \in Pcb
  BY <1>1, Names DEF Base, CpuWorks
<1>6. /\ received'[ssi_pcb_real] = received[ssi_pcb_real]
      /\ msg_inbox'[ssi_pcb_real] = msg_inbox[ssi_pcb_real]
  BY <1>3, <1>4, <1>5
<1>7. Dying' = Dying
  BY <1>2 DEF Dying
<1>8. ASSUME NEW p \in User, Asking(p)'  PROVE Asking(p) /\ msg_inbox'[p] = msg_inbox[p]
  <2>1. p \in Live' /\ p \notin Dying /\ call[p].op \in SsiOp /\ p \in Pcb
    BY <1>2, <1>7, <1>8 DEF Asking, User
  <2>2. call[p] # NoCall
    BY <2>1, CallOps
  <2>3. CASE UNCHANGED <<pcbFree, msg_inbox, received>>
    <3> HIDE DEF Dying
    <3> QED BY <2>1, <2>3 DEF Asking, Live
  <2>4. ASSUME NEW q \in Pcb, allocPcb(q)  PROVE Asking(p) /\ msg_inbox'[p] = msg_inbox[p]
    <3> HIDE DEF Dying
    <3> QED BY <1>4, <2>1, <2>2, <2>4 DEF Asking
  <2> QED BY <1>3, <2>3, <2>4
<1>9. \A p \in User : BeingServed(p) => BeingServed(p)'
  <2>1. ssi'.pc \in Creating \cup {"reply"} \/ ssi.pc = "command"
    BY <1>11 DEF CreateAllocates, CreateInsertsChild, CreateInsertsReady, CreateReadsCount,
              CreateWritesCount, DoIoCommands, SsiAt, SsiGoes, Creating
  <2> QED BY <1>6, <2>1 DEF BeingServed, Asker, Creating
<1>10. Ends'
  BY <1>2 DEF Ends
<1> QED BY <1>1, <1>2, <1>6, <1>8, <1>9, <1>10, WorkHeeds

LEMMA SsiTerminatesHeeds ==
    ASSUME Orderly, Heeded, SsiTerminates
    PROVE  Heeded'
<1>0. PICK p, r : p = Asker /\ r = IF Asked.op = "BAD" \/ Asked.arg = NULL THEN Asker ELSE Asked.arg
  OBVIOUS
<1>1. /\ Base /\ Running(ssi_pcb_real) /\ ssi.pc = "dispatch" /\ Asked.op \in {"TERM", "BAD"}
      /\ ssi'.pc = "terminate" /\ Enter("ssi", r, <<>>)
      /\ UNCHANGED <<pcbFree, msg_inbox, received, call, pcb_blocked_on_device, pcb_blocked_on_clock>>
  BY <1>0 DEF Orderly, SsiTerminates, Serving, SsiAt, SsiGoes, procVars, msgVars, listVars
<1>2. /\ frame["ssi"] = NoFrame /\ p \in User /\ (Asked.op = "TERM" => Asked.arg # ssi_pcb_real)
  BY <1>0, <1>1, SsiRuns DEF Base, Frames, SsiOp
<1>3. r \in Pcb => r # ssi_pcb_real
  BY <1>0, <1>1, <1>2 DEF User
<1>4. PICK f : f = Called(r, <<>>)
  OBVIOUS
<1>5. frame' = [frame EXCEPT !["ssi"] = f] /\ frame \in [Actor -> FrameOf] /\ "ssi" \in Actor
  <2>1. PICK g : g = <<>>
    OBVIOUS
  <2>2. Enter("ssi", r, g) /\ f = Called(r, g)
    BY <1>1, <1>4, <2>1
  <2>3. frame' = [frame EXCEPT !["ssi"] = f]
    BY <1>3, <2>2, Names DEF Enter, Called
  <2>4. frame \in [Actor -> FrameOf] /\ "ssi" \in Actor
    BY <1>1 DEF Base, FrameType, FrameOf, Actor
  <2> QED BY <2>3, <2>4
<1>6. r \in Live => r \in ToSet(f.stack)
  <2>1. PICK q : q = <<>>
    OBVIOUS
  <2>2. q \in Seq(Pcb) /\ ssi_pcb_real \notin ToSet(q)
    BY <2>1, NoQueue
  <2>3. r \in Live => f.stack = <<r>> \o q /\ r \in Pcb
    BY <1>3, <1>4, <2>1, <2>2, GoodCalled DEF isPcbValid, Live
  <2>4. r \in Pcb => ToSet(<<r>> \o q) = {r} \cup ToSet(q)
    BY <2>2, Push
  <2> QED BY <2>3, <2>4
<1>7. Stack("ssi")' = ToSet(f.stack) /\ Stack("ssi") = {} /\ Stack("nucleus")' = Stack("nucleus")
  BY <1>2, <1>5, GoodNoFrame, NoQueue DEF Stack, Actor
<1>8. Asked' = Asked /\ Asker' = Asker /\ Live' = Live
  BY <1>1 DEF Asked, Asker, Live
<1>9. Ends'
  <2>1. Asked.op = "BAD" => r = Asker
    BY <1>0
  <2> QED BY <1>6, <1>7, <1>8, <2>1 DEF Ends
<1>10. Dying \subseteq Dying'
  BY <1>7 DEF Dying, Stack, Actor
<1>11. \A x \in User : Asking(x)' => Asking(x) /\ msg_inbox'[x] = msg_inbox[x]
  <2> HIDE DEF Dying
  <2> QED BY <1>1, <1>8, <1>10 DEF Asking
<1>12. \A x \in User : BeingServed(x) => BeingServed(x)'
  BY <1>1, <1>8 DEF BeingServed
<1> QED BY <1>1, <1>9, <1>11, <1>12, WorkHeeds

LEMMA SsiReceivesHeeds ==
    ASSUME Orderly, Heeded, SsiReceives
    PROVE  Heeded'
<1> DEFINE S == ssi_pcb_real
<1>1. /\ Base /\ Staged /\ TypeOK /\ S \in Pcb /\ S \notin User
  BY Names DEF Orderly, Base, User
<1>2. /\ Running(S) /\ ssi.pc = "receive" /\ SysReceive(S, ANYMESSAGE) /\ ssi'.pc = "dispatch"
      /\ UNCHANGED <<pcb_blocked_on_device, pcb_blocked_on_clock, frame, call>>
  BY DEF SsiReceives, SsiAt, SsiGoes, listVars
<1>3. /\ UNCHANGED pcbFree
      /\ Suspended(S, ANYMESSAGE) \/ \E i \in DOMAIN msg_inbox[S] : Popped(S, ANYMESSAGE, i)
  BY <1>1, <1>2, Names, SysReceiveEffect DEF procVars
<1>4. Ends'
  BY <1>2 DEF Ends
<1>5. ASSUME NEW p \in User  PROVE GoesOn(p)
  <2>1. Asking(p)' => Asking(p)
    BY <1>2, <1>3, AskingKept
  <2>2. ~BeingServed(p) /\ ~BeingAnswered(p)
    BY <1>2 DEF BeingServed, BeingAnswered
  <2>3. At("device", p) \/ At("clock", p) => At("device", p)' \/ At("clock", p)'
    BY <1>2 DEF At
  <2>4. p \in Pcb /\ p # S /\ msg_inbox \in [Pcb -> Seq(Message)] /\ AtMostOne(msg_inbox[S], From(p))
    BY <1>1 DEF User, TypeOK, Staged, OneStage
  <2>5. Replied(p) \subseteq Replied(p)'
    BY <1>3, <2>4 DEF Suspended, Popped, Replied, From
  <2>6. Requested(p) \subseteq Requested(p)' \/ BeingServed(p)'
    <3>1. CASE msg_inbox' = msg_inbox
      BY <3>1 DEF Requested, From
    <3>2. ASSUME NEW i \in DOMAIN msg_inbox[S], Popped(S, ANYMESSAGE, i)
          PROVE  Requested(p) \subseteq Requested(p)' \/ BeingServed(p)'
      <4>1. PICK q, r, m : q = msg_inbox[S] /\ r = RemoveAt(q, i) /\ m = q[i]
        OBVIOUS
      <4>2. q \in Seq(Message) /\ msg_inbox'[S] = r /\ received'[S] = m
        BY <1>1, <2>4, <3>2, <4>1 DEF Popped, TypeOK
      <4>3. CASE m \in From(p)
        <5>1. Asker' = p
          BY <4>2, <4>3 DEF From, Asker
        <5> QED BY <1>2, <5>1 DEF BeingServed
      <4>4. CASE m \notin From(p)
        <5>1. Among(r, From(p)) = Among(q, From(p))
          BY <2>4, <3>2, <4>1, <4>2, <4>4, AmongRemoved
        <5> QED BY <4>1, <4>2, <5>1 DEF Requested, From
      <4> QED BY <4>3, <4>4
    <3> QED BY <1>3, <3>1, <3>2 DEF Suspended
  <2> QED BY <2>1, <2>2, <2>3, <2>5, <2>6, UnderwayKept, NowUnderway DEF GoesOn
<1> QED BY <1>4, <1>5, HeedsOn

(* Requests move to the queues and from there to their answers.            *)
LEMMA QueueHeeds ==
    ASSUME Heeded, UNCHANGED <<msg_inbox, pcbFree, frame, call>>, ssi'.pc # "terminate",
           \A p \in User :
              BeingServed(p) \/ BeingAnswered(p) \/ At("device", p) \/ At("clock", p) =>
                  BeingAnswered(p)' \/ At("device", p)' \/ At("clock", p)'
    PROVE  Heeded'
<1>1. ASSUME NEW p \in User  PROVE GoesOn(p)
  <2>1. Asking(p)' => Asking(p)
    BY AskingKept
  <2>2. Requested(p) \subseteq Requested(p)' /\ Replied(p) \subseteq Replied(p)'
    BY DEF Requested, Replied, From
  <2> QED BY <2>1, <2>2, UnderwayKept, NowUnderway DEF GoesOn
<1> QED BY <1>1, HeedsOn DEF Ends

LEMMA QueuesHeed ==
    ASSUME Orderly, Heeded, DoIoQueues \/ DoIoAnswers \/ WaitForClock \/ ClockAnswers
    PROVE  Heeded'
<1> DEFINE dev == pcb_blocked_on_device
           clk == pcb_blocked_on_clock
<1>1. /\ Base /\ Staged /\ Running(ssi_pcb_real) /\ ssi.pc = "dispatch"
      /\ UNCHANGED <<pcbFree, frame, received, msg_inbox, call>>
      /\ ssi'.pc # "terminate"
  BY DEF Orderly, DoIoQueues, DoIoAnswers, WaitForClock, ClockAnswers, Serving, SsiAt, SsiGoes,
         ipcVars, procVars, msgVars, keepMsg
<1>2. /\ dev \in [Device -> Seq(Pcb)] /\ clk \in Seq(Pcb) /\ Once(clk)
      /\ \A d \in Device : Once(dev[d])
      /\ Asked.op \in SsiOp => Asker \in User
      /\ Asked.op \in {"IODONE", "DOIO"} => Asked.arg \in Device
      /\ Asker \in User => Asked.op \in SsiOp
      /\ \A p : BeingServed(p) => p = Asker
      /\ \A p : ~BeingAnswered(p)
  BY <1>1, SsiRuns DEF Base, ServiceTypes, Staged, BeingServed, BeingAnswered
<1>3. CASE DoIoQueues
  <2>1. PICK p0, d0, q, r : p0 = Asker /\ d0 = Asked.arg /\ q = dev[d0] /\ r = Without(q, p0)
    OBVIOUS
  <2>2. Asked.op = "DOIO" /\ dev' = [dev EXCEPT ![d0] = Append(r, p0)] /\ clk' = clk
    BY <1>3, <2>1 DEF DoIoQueues, Serving
  <2>3. d0 \in Device /\ p0 \in Pcb /\ q \in Seq(Pcb) /\ Once(q)
    BY <1>2, <2>1, <2>2 DEF SsiOp, User
  <2>4. ToSet(Append(r, p0)) = ToSet(q) \cup {p0}
    <3>1. r \in Seq(Pcb) /\ ToSet(r) = ToSet(q) \ {p0}
      BY <2>1, <2>3, WithoutRange
    <3> QED BY <2>3, <3>1, AppendRange
  <2>5. \A p : BeingServed(p) \/ At("device", p) => At("device", p)'
    <3>1. dev'[d0] = Append(r, p0) /\ \A d \in Device : d # d0 => dev'[d] = dev[d]
      BY <1>2, <2>2, <2>3
    <3> HIDE DEF dev
    <3>2. \A d \in Device : ToSet(dev[d]) \subseteq ToSet(dev'[d])
      BY <2>1, <2>4, <3>1
    <3>3. p0 \in ToSet(dev'[d0])
      BY <2>4, <3>1
    <3> QED BY <1>2, <2>1, <2>3, <3>2, <3>3 DEF At, dev
  <2>6. \A p : At("clock", p) => At("clock", p)'
    BY <2>2 DEF At
  <2> QED BY <1>1, <1>2, <2>5, <2>6, QueueHeeds
<1>4. CASE WaitForClock
  <2>1. PICK p0 : p0 = Asker
    OBVIOUS
  <2>2. Asked.op = "CLOCKWAIT" /\ clk' = Append(clk, p0) /\ dev' = dev
    BY <1>4, <2>1 DEF WaitForClock, Serving
  <2>3. p0 \in Pcb
    BY <1>2, <2>1, <2>2 DEF SsiOp, User
  <2>4. ToSet(clk') = ToSet(clk) \cup {p0}
    BY <1>2, <2>2, <2>3, AppendRange
  <2>5. \A p : BeingServed(p) \/ At("clock", p) => At("clock", p)'
    BY <1>2, <2>1, <2>4 DEF At
  <2>6. \A p : At("device", p) => At("device", p)'
    BY <2>2 DEF At
  <2> QED BY <1>1, <1>2, <2>5, <2>6, QueueHeeds
<1>5. CASE DoIoAnswers
  <2>1. Asked.op = "IODONE" /\ clk' = clk
    BY <1>5 DEF DoIoAnswers, Serving
  <2>2. \A p \in User : ~BeingServed(p)
    BY <1>2, <2>1 DEF SsiOp
  <2>3. PICK d0, q : d0 = Asked.arg /\ q = dev[d0]
    OBVIOUS
  <2>4. d0 \in Device /\ q \in Seq(Pcb) /\ Once(q)
    BY <1>2, <2>1, <2>3
  <2>5. CASE UNCHANGED pcb_blocked_on_device
    <3>1. \A p : At("device", p) \/ At("clock", p) => At("device", p)' \/ At("clock", p)'
      BY <2>1, <2>5 DEF At
    <3> QED BY <1>1, <1>2, <2>2, <3>1, QueueHeeds
  <2>6. CASE q # <<>> /\ SsiGoes("answer", Head(q)) /\ dev' = [dev EXCEPT ![d0] = Tail(q)]
    <3>1. PICK h, r : h = Head(q) /\ r = Tail(q)
      OBVIOUS
    <3>2. ToSet(r) = ToSet(q) \ {h}
      BY <2>4, <2>6, <3>1, TailRange
    <3>3. BeingAnswered(h)'
      BY <2>6, <3>1 DEF SsiGoes, BeingAnswered
    <3>4. \A d \in Device : ToSet(dev[d]) \ {h} \subseteq ToSet(dev'[d])
      BY <1>2, <2>3, <2>4, <2>6, <3>1, <3>2
    <3>5. \A p : At("device", p) /\ p # h => At("device", p)'
      BY <3>4 DEF At
    <3>6. \A p : At("clock", p) => At("clock", p)'
      BY <2>1 DEF At
    <3>7. ASSUME NEW p \in User, At("device", p) \/ At("clock", p)
          PROVE  BeingAnswered(p)' \/ At("device", p)' \/ At("clock", p)'
      BY <3>3, <3>5, <3>6, <3>7
    <3> QED BY <1>1, <1>2, <2>2, <3>7, QueueHeeds
  <2> QED BY <1>5, <2>3, <2>5, <2>6 DEF DoIoAnswers
<1>6. CASE ClockAnswers
  <2>1. Asked.op = "TICK" /\ dev' = dev
    BY <1>6 DEF ClockAnswers, Serving
  <2>2. \A p \in User : ~BeingServed(p)
    BY <1>2, <2>1 DEF SsiOp
  <2>3. CASE UNCHANGED pcb_blocked_on_clock
    <3>1. \A p : At("device", p) \/ At("clock", p) => At("device", p)' \/ At("clock", p)'
      BY <2>1, <2>3 DEF At
    <3> QED BY <1>1, <1>2, <2>2, <3>1, QueueHeeds
  <2>4. CASE clk # <<>> /\ SsiGoes("tick", Head(clk)) /\ clk' = Tail(clk)
    <3>1. PICK h : h = Head(clk)
      OBVIOUS
    <3>2. ToSet(clk') = ToSet(clk) \ {h}
      BY <1>2, <2>4, <3>1, TailRange
    <3>3. BeingAnswered(h)'
      BY <2>4, <3>1 DEF SsiGoes, BeingAnswered
    <3>4. \A p : At("clock", p) /\ p # h => At("clock", p)'
      BY <3>2 DEF At
    <3>5. \A p : At("device", p) => At("device", p)'
      BY <2>1 DEF At
    <3>6. ASSUME NEW p \in User, At("device", p) \/ At("clock", p)
          PROVE  BeingAnswered(p)' \/ At("device", p)' \/ At("clock", p)'
      BY <3>3, <3>4, <3>5, <3>6
    <3> QED BY <1>1, <1>2, <2>2, <3>6, QueueHeeds
  <2> QED BY <1>6, <2>3, <2>4 DEF ClockAnswers
<1> QED BY <1>3, <1>4, <1>5, <1>6

(* Messages are not lost: the pool is not exhausted.                       *)
LEMMA SentKeeps ==
    ASSUME Base, NEW dest \in Live, NEW m \in Message, NEW ready, Sent(dest, m, ready),
           NEW p \in User
    PROVE  /\ Requested(p) \subseteq Requested(p)' /\ Replied(p) \subseteq Replied(p)'
           /\ Queued(dest, m, ready) /\ dest = ssi_pcb_real /\ m \in From(p) => Requested(p)' # {}
           /\ Queued(dest, m, ready) /\ dest = p /\ m \in From(SSI_FAKE_ADDR) => Replied(p)' # {}
<1>1. p \in Pcb /\ ssi_pcb_real \in Pcb
  BY Names DEF User
<1>2. /\ Among(msg_inbox[ssi_pcb_real], From(p)) \subseteq Among(msg_inbox'[ssi_pcb_real], From(p))
      /\ Queued(dest, m, ready) /\ dest = ssi_pcb_real /\ m \in From(p) =>
            m \in Among(msg_inbox'[ssi_pcb_real], From(p))
  <2>1. CASE ssi_pcb_real # dest \/ m \notin From(p) \/ ~Queued(dest, m, ready)
    BY <1>1, <2>1, SentInbox
  <2>2. CASE ssi_pcb_real = dest /\ m \in From(p) /\ Queued(dest, m, ready)
    BY <1>1, <2>2, SentInbox
  <2> QED BY <2>1, <2>2
<1>3. /\ Among(msg_inbox[p], From(SSI_FAKE_ADDR)) \subseteq Among(msg_inbox'[p], From(SSI_FAKE_ADDR))
      /\ Queued(dest, m, ready) /\ dest = p /\ m \in From(SSI_FAKE_ADDR) =>
            m \in Among(msg_inbox'[p], From(SSI_FAKE_ADDR))
  <2>1. CASE p # dest \/ m \notin From(SSI_FAKE_ADDR) \/ ~Queued(dest, m, ready)
    BY <1>1, <2>1, SentInbox
  <2>2. CASE p = dest /\ m \in From(SSI_FAKE_ADDR) /\ Queued(dest, m, ready)
    BY <1>1, <2>2, SentInbox
  <2> QED BY <2>1, <2>2
<1>4. From(p)' = From(p) /\ From(SSI_FAKE_ADDR)' = From(SSI_FAKE_ADDR)
  BY DEF From
<1> QED BY <1>2, <1>3, <1>4 DEF Requested, Replied

(* Whoever is answered is woken, or has the answer in its inbox.           *)
LEMMA AnswerHeeds ==
    ASSUME Orderly, Heeded, msgFree > 0, Running(ssi_pcb_real), frame["ssi"] = NoFrame,
           NEW dest \in User, NEW op \in ReplyOp,
           NEW arg \in Address \cup Device \cup {NOPROC}, AnswerTo(dest, op, arg),
           ssi.pc # "receive", ssi'.pc # "terminate"
    PROVE  Heeded'
<1> DEFINE S == ssi_pcb_real
           load == [op |-> op, arg |-> arg]
           m == MessageOf(S, load)
<1>1. /\ Base /\ Staged /\ TypeOK /\ S \in Pcb /\ S \notin User /\ S \in Live
      /\ dest \in Pcb /\ dest # S /\ NULL \notin Pcb /\ Destination(S, dest) = dest
  BY Names DEF Orderly, Base, User, Destination, CpuWorks
<1>2. /\ SysSend(S, dest, load) /\ EndsCall(dest, S) /\ UNCHANGED <<listVars, busy, frame>>
      /\ load \in Load
  BY Loads DEF AnswerTo, SsiSends, Reply, ReplyOp
<1> HIDE DEF load
<1>3. /\ UNCHANGED procVars
      /\ \/ ~isPcbValid(dest) /\ UNCHANGED msgVars
         \/ isPcbValid(dest) /\ Sent(dest, m, ready_queue')
  BY <1>1, <1>2, SysSendEffect
<1>4. /\ m \in Message /\ m.sender = SSI_FAKE_ADDR /\ m \in From(SSI_FAKE_ADDR)
  BY <1>1, <1>2, Names, Loads DEF MessageOf, Message, From, User
<1>5. Delivers(dest, S) <=> msgFree > 0 /\ Wakeable(dest, m)
  BY <1>1, <1>4, Names DEF Delivers, Wakes, is_waiting_for_me, Wakeable, MessageOf
<1> HIDE DEF m
<1>6. PICK r : r = ready_queue'
  OBVIOUS
<1>7. /\ call \in [Pcb -> Request \cup {NoCall, Receiving}]
      /\ call' = IF isPcbValid(dest) /\ Delivers(dest, S) THEN [call EXCEPT ![dest] = NoCall] ELSE call
  BY <1>1, <1>2 DEF EndsCall, Base, ServiceTypes
<1>8. \A p \in User : call'[p] = call[p] \/ call'[p].op \notin SsiOp
  BY <1>1, <1>7, CallOps
<1>9. UNCHANGED <<pcbFree, frame, pcb_blocked_on_device, pcb_blocked_on_clock>>
  BY <1>2, <1>3 DEF procVars, listVars
<1>10. Ends'
  BY DEF Ends
<1>11. ASSUME NEW p \in User, p # dest  PROVE GoesOn(p)
  <2>1. Asking(p)' => Asking(p)
    BY <1>8, <1>9, AskingKept
  <2>2. ~BeingServed(p) /\ ~BeingAnswered(p)
    BY <1>11 DEF AnswerTo, BeingServed, BeingAnswered
  <2>3. Requested(p) \subseteq Requested(p)' /\ Replied(p) \subseteq Replied(p)'
    <3>1. CASE UNCHANGED msgVars
      BY <3>1 DEF msgVars, Requested, Replied, From
    <3>2. CASE dest \in Live /\ Sent(dest, m, r)
      BY <1>1, <1>4, <3>2, SentKeeps
    <3> QED BY <1>3, <1>6, <3>1, <3>2 DEF isPcbValid
  <2>4. At("device", p) \/ At("clock", p) => At("device", p)' \/ At("clock", p)'
    BY <1>9 DEF At
  <2> QED BY <2>1, <2>2, <2>3, <2>4, UnderwayKept, NowUnderway DEF GoesOn
<1>12. Asking(dest)' => Underway(dest)'
  <2>1. SUFFICES ASSUME Asking(dest)'  PROVE Underway(dest)'
    OBVIOUS
  <2>2. dest \in Live /\ call'[dest].op \in SsiOp
    BY <1>9, <2>1 DEF Asking, Live
  <2>3. call'[dest] # NoCall
    BY <2>2, CallOps
  <2>4. ~Wakeable(dest, m)
    BY <1>1, <1>5, <1>7, <2>2, <2>3 DEF isPcbValid
  <2>5. Queued(dest, m, r) /\ Sent(dest, m, r)
    BY <1>3, <1>6, <2>2, <2>4 DEF Sent, Handed, Dropped, isPcbValid, Base, TypeOK
  <2>6. Replied(dest)' # {}
    BY <1>1, <1>4, <2>2, <2>5, SentKeeps
  <2> QED BY <2>6, NowUnderway
<1> QED BY <1>10, <1>11, <1>12, HeedsOn DEF GoesOn

LEMMA RepliesHeed ==
    ASSUME Orderly, Heeded, msgFree > 0,
           CreateReplies \/ DoIoReplies \/ ClockReplies \/ GetTimeReplies \/ TermReplies
    PROVE  Heeded'
<1>1. /\ Base /\ Staged /\ Running(ssi_pcb_real) /\ ssi.pc # "receive" /\ frame["ssi"] = NoFrame
      /\ ssi'.pc # "terminate"
  BY Replies DEF Orderly, SsiGoes
<1>2. ASSUME NEW dest \in User, NEW op \in ReplyOp, NEW arg \in Address \cup Device \cup {NOPROC},
             AnswerTo(dest, op, arg)
      PROVE  Heeded'
  BY <1>1, <1>2, AnswerHeeds
<1>3. CASE /\ UNCHANGED <<ipcVars, listVars, busy, frame, call>>
           /\ ssi'.pc = "receive" /\ ssi.pc = "terminate" /\ Asked.op = "BAD"
  <2>1. Asker \notin Live
    <3>1. Stack("ssi") = {}
      BY <1>1, GoodNoFrame, NoQueue DEF Stack
    <3> QED BY <1>3, <3>1 DEF Heeded, Ends
  <2>2. UNCHANGED <<pcbFree, frame, msg_inbox, call, pcb_blocked_on_device, pcb_blocked_on_clock>>
    BY <1>3 DEF ipcVars, procVars, msgVars, listVars
  <2>3. ASSUME NEW p \in User  PROVE GoesOn(p)
    <3>1. Asking(p)' => Asking(p)
      BY <2>2, AskingKept
    <3>2. Requested(p) \subseteq Requested(p)' /\ Replied(p) \subseteq Replied(p)'
      BY <2>2 DEF Requested, Replied, From
    <3>3. At("device", p) \/ At("clock", p) => At("device", p)' \/ At("clock", p)'
      BY <2>2 DEF At
    <3>4. ~BeingAnswered(p) /\ (BeingServed(p) => ~Asking(p))
      BY <1>3, <2>1 DEF BeingAnswered, BeingServed, Asking
    <3> QED BY <3>1, <3>2, <3>3, <3>4, UnderwayKept, NowUnderway DEF GoesOn
  <2>4. Ends'
    BY <1>3 DEF Ends
  <2> QED BY <2>3, <2>4, HeedsOn
<1> QED BY <1>1, <1>2, <1>3, RepliesMatch

(* A message takes no request back.                                        *)
LEMMA SentHeeds ==
    ASSUME Base, Heeded, NEW dest \in Live, NEW m \in Message, NEW ready, Sent(dest, m, ready),
           UNCHANGED <<pcbFree, frame, ssi, pcb_blocked_on_device, pcb_blocked_on_clock>>,
           \A p \in User : call'[p] = call[p] \/ call'[p].op \notin SsiOp \/ Underway(p)'
    PROVE  Heeded'
<1> DEFINE S == ssi_pcb_real
<1>1. received \in [Pcb -> Message \cup {NoMessage}] /\ dest \in Pcb /\ S \notin User
  BY DEF Base, TypeOK, Live, User
<1>2. received'[S] = received[S] \/ (dest = S /\ Wakeable(S, m))
  <2>1. CASE Handed(dest, m, ready)
    <3>1. received' = [received EXCEPT ![dest] = m] /\ Wakeable(dest, m)
      BY <2>1 DEF Handed
    <3>2. S # dest => received'[S] = received[S]
      BY <1>1, <3>1
    <3> QED BY <3>1, <3>2
  <2>2. CASE Queued(dest, m, ready) \/ Dropped(ready)
    BY <2>2 DEF Queued, Dropped, msgVars
  <2> QED BY <2>1, <2>2 DEF Sent
<1>3. received'[S] = received[S] \/ (S \in blocked /\ Asker = NULL)
  BY <1>2, SsiWoken
<1>4. Ends'
  BY <1>3, EndsKept DEF Heeded
<1>5. ASSUME NEW p \in User  PROVE GoesOn(p)
  <2>1. Requested(p) \subseteq Requested(p)' /\ Replied(p) \subseteq Replied(p)'
    BY SentKeeps
  <2>2. BeingServed(p) \/ BeingAnswered(p) => BeingServed(p)' \/ BeingAnswered(p)'
    <3>1. p # NULL
      BY Names DEF User
    <3>2. received'[S] = received[S] \/ ~BeingServed(p)
      BY <1>3, <3>1 DEF BeingServed
    <3> QED BY <3>2 DEF BeingServed, BeingAnswered, Asker
  <2>3. At("device", p) \/ At("clock", p) => At("device", p)' \/ At("clock", p)'
    BY DEF At
  <2>4. Underway(p) => Underway(p)'
    BY <2>1, <2>2, <2>3, UnderwayKept, NowUnderway
  <2>5. CASE Underway(p)'
    BY <2>5 DEF GoesOn
  <2>6. CASE call'[p] = call[p] \/ call'[p].op \notin SsiOp
    <3>1. Asking(p)' => Asking(p)
      BY <2>6, AskingKept
    <3> QED BY <2>4, <3>1 DEF GoesOn
  <2> QED BY <2>5, <2>6
<1> QED BY <1>4, <1>5, HeedsOn

LEMMA RequestsHeed ==
    ASSUME Orderly, Heeded, msgFree > 0, NEW p \in Pcb,
           NEW req \in [op : Services \cap SsiOp, arg : Address \cup Device], Requests(p, req)
    PROVE  Heeded'
<1> DEFINE S == ssi_pcb_real
           m == MessageOf(p, req)
<1>1. Base /\ TypeOK /\ S \in Live /\ p \in User /\ S \in Pcb
  BY Names DEF Orderly, Base, User, Requests, Client, CpuWorks
<1>2. /\ SysSend(p, SSI_FAKE_ADDR, req)
      /\ call' = [call EXCEPT ![p] = req] /\ UNCHANGED <<listVars, busy, ssi, frame>>
  BY DEF Requests, clientKeeps
<1>3. req \in Request
  BY DEF Request
<1>4. UNCHANGED procVars /\ Sent(S, m, ready_queue')
  <2>1. Destination(p, SSI_FAKE_ADDR) = S /\ isPcbValid(S)
    BY <1>1, Names DEF Destination, isPcbValid
  <2> QED BY <1>1, <1>2, <1>3, <2>1, Loads, SysSendEffect
<1>5. m \in Message /\ m.sender = p /\ m \in From(p)
  BY <1>1, <1>3, Names, Loads DEF MessageOf, Message, From, User
<1> HIDE DEF m
<1>6. PICK r : r = ready_queue'
  OBVIOUS
<1>7. Underway(p)'
  <2>1. CASE Queued(S, m, r)
    <3>1. Requested(p)' # {}
      BY <1>1, <1>4, <1>5, <1>6, <2>1, SentKeeps
    <3> QED BY <3>1, NowUnderway
  <2>2. CASE Handed(S, m, r)
    <3>1. received'[S] = m /\ Wakeable(S, m)
      BY <1>1, <2>2 DEF Handed, Base, TypeOK
    <3>2. ssi.pc = "dispatch"
      BY <1>1, <3>1, SsiWoken
    <3>3. BeingServed(p)'
      BY <1>2, <1>5, <3>1, <3>2 DEF BeingServed, Asker
    <3> QED BY <3>3, NowUnderway
  <2> QED BY <1>1, <1>4, <1>6, <2>1, <2>2 DEF Sent, Dropped, Base, TypeOK
<1>8. UNCHANGED <<pcbFree, frame, ssi, pcb_blocked_on_device, pcb_blocked_on_clock>>
  BY <1>2, <1>4 DEF procVars, listVars
<1>9. \A x \in User : call'[x] = call[x] \/ call'[x].op \notin SsiOp \/ Underway(x)'
  BY <1>1, <1>2, <1>7 DEF Base, ServiceTypes, User
<1> QED BY <1>1, <1>4, <1>5, <1>8, <1>9, SentHeeds

LEMMA SendsHeed ==
    ASSUME Orderly, Heeded, NEW p \in Pcb, NEW to, Sends(p, to)
    PROVE  Heeded'
<1> DEFINE dest == Destination(p, to)
           m == MessageOf(p, Data)
<1>1. Base /\ TypeOK /\ p \in User
  BY DEF Orderly, Base, User, Sends, Client
<1>2. EndsCall(dest, p) /\ SysSend(p, to, Data) /\ UNCHANGED <<listVars, busy, ssi, frame>>
  BY DEF Sends, clientKeeps
<1>3. /\ UNCHANGED procVars
      /\ \/ ~isPcbValid(dest) /\ UNCHANGED msgVars
         \/ isPcbValid(dest) /\ Sent(dest, m, ready_queue')
  BY <1>1, <1>2, Loads, SysSendEffect DEF User
<1>4. m \in Message
  BY <1>1, Names, Loads DEF MessageOf, Message, User
<1>5. UNCHANGED <<pcbFree, frame, ssi, pcb_blocked_on_device, pcb_blocked_on_clock>>
  BY <1>2, <1>3 DEF procVars, listVars
<1>6. \A x \in User : call'[x] = call[x] \/ call'[x].op \notin SsiOp
  BY <1>1, <1>2, CallOps DEF EndsCall, Base, ServiceTypes, User
<1> HIDE DEF dest, m
<1>7. CASE isPcbValid(dest) /\ Sent(dest, m, ready_queue')
  <2>1. dest \in Live
    BY <1>7 DEF isPcbValid
  <2> QED BY <1>1, <1>4, <1>5, <1>6, <1>7, <2>1, SentHeeds
<1>8. CASE UNCHANGED msgVars
  <2>1. UNCHANGED <<msg_inbox, received>> /\ Live' = Live /\ Stack("ssi")' = Stack("ssi")
    BY <1>5, <1>8 DEF msgVars, Live, Stack
  <2>2. \A x \in User : Asking(x)' => Asking(x)
    BY <1>5, <1>6, AskingKept
  <2> QED BY <1>1, <1>5, <2>1, <2>2, QuietHeeds
<1> QED BY <1>3, <1>7, <1>8

LEMMA ReceivingHeeds ==
    ASSUME Orderly, Heeded, NEW p \in Pcb, Awaits(p) \/ Receives(p)
    PROVE  Heeded'
<1> DEFINE S == ssi_pcb_real
<1>1. /\ Base /\ TypeOK /\ p \in User /\ p # S /\ S \in Pcb
      /\ msg_inbox \in [Pcb -> Seq(Message)] /\ received \in [Pcb -> Message \cup {NoMessage}]
      /\ UNCHANGED <<listVars, busy, ssi, frame>>
      /\ call \in [Pcb -> Request \cup {NoCall, Receiving}]
  BY Names DEF Orderly, Base, TypeOK, User, Awaits, Receives, Client, clientKeeps, ServiceTypes
<1>2. PICK src \in Sender \cup {ANYMESSAGE} :
         /\ SysReceive(p, src)
         /\ \/ call' = IF Matching(p, src) = {} THEN call ELSE [call EXCEPT ![p] = NoCall]
            \/ call' = [call EXCEPT ![p] = IF Matching(p, src) = {} THEN Receiving ELSE NoCall]
  BY Names DEF Awaits, Receives
<1>3. /\ UNCHANGED procVars
      /\ \/ Suspended(p, src)
         \/ Matching(p, src) # {} /\ \E i \in DOMAIN msg_inbox[p] : Popped(p, src, i)
  BY <1>1, <1>2, SysReceiveEffect
<1>4. /\ \A x \in Pcb \ {p} : msg_inbox'[x] = msg_inbox[x] /\ received'[x] = received[x]
      /\ msg_inbox' = msg_inbox \/ Matching(p, src) # {}
  BY <1>1, <1>3 DEF Suspended, Popped
<1>5. /\ \A x \in Pcb \ {p} : call'[x] = call[x]
      /\ call'[p] = call[p] \/ call'[p].op \notin SsiOp
      /\ Matching(p, src) # {} => call'[p].op \notin SsiOp
  BY <1>1, <1>2, CallOps
<1>6. UNCHANGED <<pcbFree, frame, ssi, pcb_blocked_on_device, pcb_blocked_on_clock>>
  BY <1>1, <1>3 DEF procVars, listVars
<1>7. received'[S] = received[S] /\ msg_inbox'[S] = msg_inbox[S]
  BY <1>1, <1>4
<1>8. Ends'
  BY <1>1, <1>6, <1>7, EndsKept DEF Heeded
<1>9. \A x \in User : Asking(x)' => Asking(x) /\ msg_inbox'[x] = msg_inbox[x]
  <2>1. ASSUME NEW x \in User, Asking(x)'  PROVE Asking(x) /\ msg_inbox'[x] = msg_inbox[x]
    <3>1. call'[x] = call[x] \/ call'[x].op \notin SsiOp
      BY <1>5, <2>1 DEF User
    <3>2. Asking(x)
      BY <1>6, <2>1, <3>1, AskingKept
    <3>3. call'[x].op \in SsiOp
      BY <2>1 DEF Asking
    <3> QED BY <1>4, <1>5, <2>1, <3>2, <3>3 DEF User
  <2> QED BY <2>1
<1>10. ASSUME NEW x \in User  PROVE GoesOn(x)
  <2>1. Asking(x)' => Asking(x) /\ Requested(x) \subseteq Requested(x)' /\ Replied(x) \subseteq Replied(x)'
    BY <1>7, <1>9, <1>10 DEF Requested, Replied, From
  <2>2. BeingServed(x) \/ BeingAnswered(x) => BeingServed(x)' \/ BeingAnswered(x)'
    BY <1>6, <1>7 DEF BeingServed, BeingAnswered, Asker
  <2>3. At("device", x) \/ At("clock", x) => At("device", x)' \/ At("clock", x)'
    BY <1>6 DEF At
  <2>4. ASSUME Asking(x)', Underway(x)  PROVE Underway(x)'
    BY <2>1, <2>2, <2>3, <2>4, UnderwayKept, NowUnderway
  <2> QED BY <2>1, <2>4 DEF GoesOn
<1> QED BY <1>8, <1>10, HeedsOn

LEMMA InterruptsHeed ==
    ASSUME Orderly, Heeded, NEW e \in Event, Interrupt(e), UNCHANGED <<listVars, ssi, frame, call>>
    PROVE  Heeded'
<1> DEFINE m == MessageOf(INTERRUPT_HANDLER_MSG, e)
<1>1. Base /\ TypeOK /\ ssi_pcb_real \in Live /\ e \in Load
  BY Loads DEF Orderly, Base, CpuWorks
<1>2. UNCHANGED procVars /\ \E ready \in Seq(Pcb) : Sent(ssi_pcb_real, m, ready)
  BY <1>1, InterruptEffect
<1>3. m \in Message
  BY <1>1, Names DEF MessageOf, Message
<1> HIDE DEF m
<1>4. PICK ready : Sent(ssi_pcb_real, m, ready)
  BY <1>2
<1>5. UNCHANGED <<pcbFree, frame, ssi, pcb_blocked_on_device, pcb_blocked_on_clock>>
  BY <1>2 DEF procVars, listVars
<1> QED BY <1>1, <1>3, <1>4, <1>5, SentHeeds

LEMMA OthersHeed ==
    ASSUME Orderly, Heeded,
           TrapEnds \/ SliceEnds \/ Halted \/ UNCHANGED vars \/ \E p \in Pcb : Traps(p)
    PROVE  Heeded'
<1>1. Base
  BY DEF Orderly
<1>2. UNCHANGED <<msg_inbox, received, ssi, pcb_blocked_on_clock, pcb_blocked_on_device, pcbFree, call>>
  BY DEF TrapEnds, SliceEnds, PltInterrupt, Halted, Stopped, Traps, vars, ipcVars, msgVars, procVars,
         listVars
<1>3. Live' = Live
  BY <1>2 DEF Live
<1>4. Stack("ssi")' = Stack("ssi") /\ Dying \subseteq Dying'
  <2>1. CASE UNCHANGED frame
    BY <2>1 DEF Stack, Dying
  <2>2. ASSUME NEW p \in Pcb, Traps(p)  PROVE Stack("ssi")' = Stack("ssi") /\ Dying \subseteq Dying'
    <3>1. /\ cpu = "run" /\ frame \in [Actor -> FrameOf] /\ "ssi" \in Actor /\ "nucleus" \in Actor
          /\ Enter("nucleus", p, <<>>)
      BY <1>1, <2>2 DEF Traps, Client, Running, Base, FrameType, FrameOf, Actor
    <3>2. Stack("nucleus") = {}
      BY <1>1, <3>1, GoodNoFrame, NoQueue DEF Base, Frames, Stack
    <3>3. frame'["ssi"] = frame["ssi"]
      BY <3>1 DEF Enter
    <3> QED BY <3>2, <3>3 DEF Stack, Dying, Actor
  <2> QED BY <2>1, <2>2 DEF TrapEnds, SliceEnds, Halted, vars
<1>5. \A x \in User : Asking(x)' => Asking(x)
  <2> HIDE DEF Dying
  <2> QED BY <1>2, <1>3, <1>4 DEF Asking
<1> QED BY <1>1, <1>2, <1>3, <1>4, <1>5, QuietHeeds

LEMMA InitHeeded == Init => Heeded
<1>1. SUFFICES ASSUME Init PROVE Heeded
  OBVIOUS
<1>2. \A p \in Pcb : call[p] = NoCall
  BY <1>1 DEF Init
<1>3. ssi.pc = "receive"
  BY <1>1 DEF Init
<1> QED BY <1>2, <1>3, CallOps DEF Heeded, Asking, Ends, User

LEMMA NextHeeds ==
    ASSUME Orderly, Heeded, msgFree > 0, [Next]_vars
    PROVE  Heeded'
<1>1. CASE SsiReceives
  BY <1>1, SsiReceivesHeeds
<1>2. CASE Create
  BY <1>2, CreatingHeeds, RepliesHeed DEF Create
<1>3. CASE SsiTerminates
  BY <1>3, SsiTerminatesHeeds
<1>4. ASSUME NEW a \in Actor, Terminate(a)  PROVE Heeded'
  BY <1>4, TerminateHeeds
<1>5. CASE TermReplies \/ DoIoReplies \/ ClockReplies \/ GetTimeReplies
  BY <1>5, RepliesHeed
<1>6. CASE DoIoQueues \/ DoIoCommands \/ DoIoAnswers \/ WaitForClock \/ ClockAnswers
  BY <1>6, QueuesHeed, CreatingHeeds
<1>7. ASSUME NEW p \in Pcb, ClientStep(p)  PROVE Heeded'
  <2>1. ASSUME NEW req \in [op : Services \cap SsiOp, arg : Address \cup Device], Requests(p, req)
        PROVE  Heeded'
    BY <2>1, RequestsHeed
  <2>2. CASE Awaits(p) \/ Receives(p)
    BY <2>2, ReceivingHeeds
  <2>3. CASE Traps(p)
    BY <2>3, OthersHeed
  <2>4. ASSUME NEW to, Sends(p, to)  PROVE Heeded'
    BY <2>4, SendsHeed
  <2> QED BY <1>7, <2>1, <2>2, <2>3, <2>4 DEF ClientStep
<1>8. ASSUME NEW d \in Device, DeviceInterrupt(d)  PROVE Heeded'
  <2>1. [op |-> "IODONE", arg |-> d] \in Event
    BY DEF Event
  <2> QED BY <1>8, <2>1, InterruptsHeed DEF DeviceInterrupt
<1>9. CASE ClockInterrupt
  <2>1. [op |-> "TICK", arg |-> 0] \in Event
    BY DEF Event
  <2> QED BY <1>9, <2>1, InterruptsHeed DEF ClockInterrupt
<1>10. CASE TrapEnds \/ SliceEnds \/ Halted \/ UNCHANGED vars
  BY <1>10, OthersHeed
<1> QED BY <1>1, <1>2, <1>3, <1>4, <1>5, <1>6, <1>7, <1>8, <1>9, <1>10 DEF Next, SsiStep, Actor
-----------------------------------------------------------------------------
(* Where requests are.                                                     *)
LEMMA CountsOne ==
    ASSUME NEW I, \A i, j \in I : i = j
    PROVE  Cardinality(I) = Count(I # {})
<1>1. CASE I = {}
  BY <1>1, FS_EmptySet DEF Count
<1>2. CASE I # {}
  <2>1. PICK i \in I : TRUE
    BY <1>2
  <2>2. I = {i}
    BY <2>1
  <2>3. Cardinality({i}) = 1
    BY FS_Singleton
  <2> QED BY <1>2, <2>2, <2>3 DEF Count
<1> QED BY <1>1, <1>2

LEMMA CountsMessages ==
    ASSUME NEW q \in Seq(Message), NEW x, AtMostOne(q, From(x))
    PROVE  Cardinality({i \in DOMAIN q : q[i].sender = x}) = Count(Among(q, From(x)) # {})
<1>1. \A i \in DOMAIN q : q[i] \in Message
  BY LenProperties, ElementOfSeq
<1>2. PICK I : I = {i \in DOMAIN q : q[i].sender = x}
  OBVIOUS
<1>3. I = {i \in DOMAIN q : q[i] \in From(x)}
  BY <1>1, <1>2 DEF From
<1>4. \A i, j \in I : i = j
  BY <1>3 DEF AtMostOne
<1>5. I # {} <=> Among(q, From(x)) # {}
  BY <1>3 DEF Among, ToSet
<1>6. Cardinality(I) = Count(I # {})
  BY <1>4, CountsOne
<1> QED BY <1>2, <1>5, <1>6 DEF Count

(* The stages of a request, counted.                                       *)
LEMMA StagesCounted ==
    ASSUME Base, Staged, NEW p \in User
    PROVE  Stages(p) = Count(Underway(p))
<1>1. p \in Pcb /\ ssi_pcb_real \in Pcb /\ OneStage(p)
  BY Names DEF User, Staged
<1>2. Cardinality(InInbox(p)) = Count(At("inbox", p))
  <2>1. PICK q : q = msg_inbox[ssi_pcb_real]
    OBVIOUS
  <2>2. q \in Seq(Message) /\ AtMostOne(q, From(p))
    BY <1>1, <2>1 DEF Base, TypeOK, OneStage
  <2>3. Cardinality({i \in DOMAIN q : q[i].sender = p}) = Count(Among(q, From(p)) # {})
    BY <2>2, CountsMessages
  <2> QED BY <2>1, <2>3 DEF InInbox, At, Requested
<1>3. Cardinality(Answered(p)) = Count(At("answered", p))
  <2>1. PICK q : q = msg_inbox[p]
    OBVIOUS
  <2>2. q \in Seq(Message) /\ AtMostOne(q, From(SSI_FAKE_ADDR))
    BY <1>1, <2>1 DEF Base, TypeOK, OneStage
  <2>3. Cardinality({i \in DOMAIN q : q[i].sender = SSI_FAKE_ADDR}) = Count(Among(q, From(SSI_FAKE_ADDR)) # {})
    BY <2>2, CountsMessages
  <2> QED BY <2>1, <2>3 DEF Answered, At, Replied
<1>4. Cardinality(QueuedFor(p)) = Count(At("device", p))
  <2>1. PICK D : D = QueuedFor(p)
    OBVIOUS
  <2>2. D # {} <=> At("device", p)
    BY <2>1 DEF QueuedFor, At
  <2>3. \A d, e \in D : d = e
    <3>1. ASSUME NEW d \in D, NEW e \in D  PROVE d = e
      <4>1. StagedAt("device", p)
        BY <1>1, <2>2, <3>1 DEF OneStage, Stage
      <4>2. call[p] = [op |-> "DOIO", arg |-> d] /\ call[p] = [op |-> "DOIO", arg |-> e]
        BY <2>1, <3>1, <4>1 DEF StagedAt, QueuedFor
      <4> QED BY <4>2
    <3> QED BY <3>1
  <2>4. Cardinality(D) = Count(D # {})
    BY <2>3, CountsOne
  <2> QED BY <2>1, <2>2, <2>4 DEF Count
<1>5. Cardinality(OnClock(p)) = Count(At("clock", p))
  <2>1. PICK I : I = OnClock(p)
    OBVIOUS
  <2>2. I # {} <=> At("clock", p)
    BY <2>1 DEF OnClock, At, ToSet
  <2>3. \A i, j \in I : i = j
    BY <2>1 DEF OnClock, Staged, Once
  <2>4. Cardinality(I) = Count(I # {})
    BY <2>3, CountsOne
  <2> QED BY <2>1, <2>2, <2>4 DEF Count
<1>6. (BeingServed(p) <=> At("served", p)) /\ (BeingAnswered(p) <=> At("answer", p))
  BY DEF At
<1>7. Count(BeingServed(p)) = Count(At("served", p)) /\ Count(BeingAnswered(p)) = Count(At("answer", p))
  BY <1>6 DEF Count
<1>8. Stages(p) = Count(At("inbox", p)) + Count(At("served", p)) + Count(At("device", p))
                  + Count(At("clock", p)) + Count(At("answer", p)) + Count(At("answered", p))
  BY <1>2, <1>3, <1>4, <1>5, <1>7 DEF Stages
<1>9. \A s \in Stage : Count(At(s, p)) = IF At(s, p) THEN 1 ELSE 0
  BY DEF Count
<1>10. CASE Underway(p)
  <2>1. PICK s \in Stage : At(s, p)
    BY <1>10 DEF Underway
  <2>2. \A t \in Stage : Count(At(t, p)) = IF t = s THEN 1 ELSE 0
    BY <1>1, <1>9, <2>1 DEF OneStage
  <2>3. Stages(p) = 1
    BY <1>8, <2>2 DEF Stage
  <2> QED BY <1>10, <2>3 DEF Count
<1>11. CASE ~Underway(p)
  <2>1. \A t \in Stage : Count(At(t, p)) = 0
    BY <1>9, <1>11 DEF Underway
  <2>2. Stages(p) = 0
    BY <1>8, <2>1 DEF Stage
  <2> QED BY <1>11, <2>2 DEF Count
<1> QED BY <1>10, <1>11

LEMMA HeededAtOneStage ==
    ASSUME Orderly, Heeded
    PROVE  RequestAtOneStage
<1>1. ASSUME NEW p \in Live \ (Dying \cup {ssi_pcb_real})
      PROVE  Stages(p) = Count(call[p].op \in SsiOp)
  <2>1. Base /\ Staged /\ p \in User /\ p \in Live
    BY <1>1 DEF Orderly, User, Live
  <2>2. p \notin Dying
    BY <1>1
  <2>3. Underway(p) <=> call[p].op \in SsiOp
    <3>1. call[p].op \in SsiOp => Underway(p)
      BY <2>1, <2>2 DEF Heeded, Asking
    <3>2. Underway(p) => call[p].op \in SsiOp
      BY <2>1, NoStage DEF Underway
    <3> QED BY <3>1, <3>2
  <2>4. Stages(p) = Count(Underway(p))
    BY <2>1, StagesCounted
  <2> QED BY <2>3, <2>4 DEF Count
<1> QED BY <1>1 DEF RequestAtOneStage

(* A request is neither lost nor served twice, and nothing of an old one   *)
(* is left, as long as the message pool is not exhausted: the SSI ignores  *)
(* that its answer found no free message (MSGNOGOOD), and so do the        *)
(* programs.                                                               *)
THEOREM RequestAtOneStageInvariance ==
    ASSUME Liberty = {} PROVE Spec /\ [](msgFree > 0) => []RequestAtOneStage
<1>1. Init => Orderly /\ Heeded
  BY InitOrderly, InitHeeded
<1>2. Orderly /\ Heeded /\ msgFree > 0 /\ [Next]_vars => Orderly' /\ Heeded'
  BY NextOrderly, NextHeeds
<1>3. Orderly /\ Heeded => RequestAtOneStage
  BY HeededAtOneStage
<1> QED BY <1>1, <1>2, <1>3, PTL DEF Spec
-----------------------------------------------------------------------------
(* process_count.                                                          *)

(* Callers of terminate_process that wait for the innermost call, and all  *)
(* victims that have got to one of pcs.                                    *)
Below(a) == IF frame[a].stack = <<>> THEN {} ELSE ToSet(Tail(frame[a].stack))
Past(a, pcs) == IF frame[a].pc \in pcs THEN Stack(a) ELSE Below(a)

(* The PCBs process_count counts: not the one under creation until its     *)
(* increment has been written, not a victim once its decrement has.        *)
Fresh == IF ssi.pc \in Creating THEN {ssi.p} ELSE {}
Uncounted == {"softRead", "softWrite", "children"}
Counted == Live \ (Fresh \cup Past("ssi", Uncounted))

(* A counter that has been read is written back before it changes, if no   *)
(* trap comes between.                                                     *)
CountsAgree ==
    /\ cpu # "kernel"
    /\ process_count = Cardinality(Counted)
    /\ Fresh \subseteq Live
    /\ ssi.pc = "countWrite" => ssi.tmp = Inc(process_count)
    /\ frame["ssi"].pc = "countWrite" => frame["ssi"].tmp = Dec(process_count)
    /\ ssi.pc \in Creating => Asker # ssi.p
    /\ cpu = "halt" => process_count = 1

LEMMA PcbSets ==
    ASSUME NEW T \in SUBSET Pcb
    PROVE  /\ IsFiniteSet(T) /\ Cardinality(T) \in Nat /\ Cardinality(T) <= MaxProc
           /\ \A p \in Pcb \ T : /\ Cardinality(T \cup {p}) = Cardinality(T) + 1
                                 /\ Cardinality(T) + 1 <= MaxProc
           /\ \A p \in T : Cardinality(T \ {p}) = Cardinality(T) - 1 /\ Cardinality(T) > 0
<1>1. IsFiniteSet(Pcb) /\ Cardinality(Pcb) = MaxProc
  <2>1. \A a, b \in Int : /\ IsFiniteSet(a..b)
                           /\ Cardinality(a..b) = IF a > b THEN 0 ELSE b - a + 1
    BY FS_Interval
  <2>2. \A b \in Int : b >= 3 => IsFiniteSet(3..b) /\ Cardinality(3..b) = b - 2
    BY <2>1
  <2> QED BY <2>2, IpcAssumption DEF Pcb
<1>2. IsFiniteSet(T) /\ Cardinality(T) <= MaxProc
  BY <1>1, FS_Subset
<1>3. Cardinality(T) \in Nat
  BY <1>2, FS_CardinalityType
<1>4. ASSUME NEW p \in Pcb \ T
      PROVE  Cardinality(T \cup {p}) = Cardinality(T) + 1 /\ Cardinality(T) + 1 <= MaxProc
  <2>1. T \cup {p} \in SUBSET Pcb
    OBVIOUS
  <2>2. Cardinality(T \cup {p}) <= MaxProc
    BY <1>1, <2>1, FS_Subset
  <2>3. Cardinality(T \cup {p}) = Cardinality(T) + 1
    BY <1>2, FS_AddElement
  <2> QED BY <2>2, <2>3
<1>5. ASSUME NEW p \in T
      PROVE  Cardinality(T \ {p}) = Cardinality(T) - 1 /\ Cardinality(T) > 0
  <2>1. Cardinality(T \ {p}) = Cardinality(T) - 1
    BY <1>2, FS_RemoveElement
  <2>2. Cardinality(T) # 0
    BY <1>2, FS_EmptySet
  <2> QED BY <1>3, <2>1, <2>2
<1> QED BY <1>2, <1>3, <1>4, <1>5

LEMMA SchedulerCounts ==
    ASSUME NEW cur, NEW ready, Scheduler(cur, ready)
    PROVE  cpu' # "kernel" /\ (cpu' = "halt" => process_count' = 1)
BY DEF Scheduler, OnlySsiLeft, Idle

LEMMA KeptCounts ==
    ASSUME CountsAgree, UNCHANGED <<pcbFree, process_count>>, cpu' # "kernel",
           cpu' = "halt" => cpu = "halt" \/ process_count' = 1,
           Fresh' = Fresh, Past("ssi", Uncounted)' = Past("ssi", Uncounted),
           ssi'.pc = "countWrite" => ssi'.tmp = Inc(process_count),
           frame'["ssi"].pc = "countWrite" => frame'["ssi"].tmp = Dec(process_count),
           ssi'.pc \in Creating => Asker' # ssi'.p
    PROVE  CountsAgree'
<1>1. Live' = Live
  BY DEF Live
<1>2. Counted' = Counted
  BY <1>1 DEF Counted
<1> QED BY <1>1, <1>2 DEF CountsAgree

LEMMA CalmCounts ==
    ASSUME CountsAgree, UNCHANGED <<pcbFree, process_count, frame>>, cpu' # "kernel",
           cpu' = "halt" => cpu = "halt" \/ process_count' = 1,
           \/ ssi' = ssi /\ (ssi.pc \in Creating =>
                                received'[ssi_pcb_real] = received[ssi_pcb_real])
           \/ ssi.pc \notin Creating /\ ssi'.pc \notin Creating
    PROVE  CountsAgree'
<1>1. Past("ssi", Uncounted)' = Past("ssi", Uncounted)
  BY DEF Past, Below, Stack
<1>2. Fresh' = Fresh
  BY DEF Fresh
<1>3. ssi'.pc = "countWrite" => ssi'.tmp = Inc(process_count)
  BY DEF CountsAgree, Creating
<1>4. ssi'.pc \in Creating => Asker' # ssi'.p
  BY DEF CountsAgree, Asker
<1>5. frame'["ssi"].pc = "countWrite" => frame'["ssi"].tmp = Dec(process_count)
  BY DEF CountsAgree
<1> QED BY <1>1, <1>2, <1>3, <1>4, <1>5, KeptCounts

(* The SSI in the middle of a creation is sent nothing it is handed.       *)
LEMMA SentWhileCreating ==
    ASSUME Base, NEW dest \in Pcb, NEW m, NEW ready, Sent(dest, m, ready), ssi.pc \in Creating
    PROVE  received'[ssi_pcb_real] = received[ssi_pcb_real]
<1>1. received \in [Pcb -> Message \cup {NoMessage}] /\ ssi_pcb_real \in Pcb
  BY Names DEF Base, TypeOK
<1>2. CASE Handed(dest, m, ready)
  <2>1. dest # ssi_pcb_real
    BY <1>2, SsiWoken DEF Handed, Creating
  <2>2. received' = [received EXCEPT ![dest] = m]
    BY <1>2 DEF Handed
  <2> QED BY <1>1, <2>1, <2>2
<1>3. CASE ~Handed(dest, m, ready)
  BY <1>3 DEF Sent, Queued, Dropped, msgVars
<1> QED BY <1>2, <1>3

LEMMA SendingCounts ==
    ASSUME Base, CountsAgree, NEW p \in Pcb, NEW to, NEW load \in Load, SysSend(p, to, load),
           UNCHANGED frame, ssi' = ssi \/ (ssi.pc \notin Creating /\ ssi'.pc \notin Creating)
    PROVE  CountsAgree'
<1>1. PICK dest : dest = Destination(p, to)
  OBVIOUS
<1>2. /\ cpu' = "run" /\ UNCHANGED procVars
      /\ \/ UNCHANGED msgVars
         \/ isPcbValid(dest) /\ Sent(dest, MessageOf(p, load), ready_queue')
  BY <1>1, SysSendEffect DEF Base
<1>3. ssi.pc \in Creating => received'[ssi_pcb_real] = received[ssi_pcb_real]
  BY <1>2, SentWhileCreating DEF msgVars, isPcbValid, Live
<1> QED BY <1>2, <1>3, CalmCounts DEF procVars

LEMMA ReceivingCounts ==
    ASSUME Base, CountsAgree, NEW p \in Pcb, NEW src \in Sender \cup {ANYMESSAGE}, SysReceive(p, src),
           UNCHANGED frame,
           \/ ssi' = ssi /\ p # ssi_pcb_real
           \/ ssi.pc \notin Creating /\ ssi'.pc \notin Creating
    PROVE  CountsAgree'
<1>1. UNCHANGED procVars /\ cpu' # "kernel" /\ (cpu' = "halt" => process_count' = 1)
  <2>1. \E cur, ready : Scheduler(cur, ready)
    BY DEF SysReceive, ReceivePops, ReceiveBlocks
  <2>2. UNCHANGED procVars
    BY DEF SysReceive, ReceivePops, ReceiveBlocks
  <2> QED BY <2>1, <2>2, SchedulerCounts
<1>2. \E m : received' = [received EXCEPT ![p] = m]
  BY DEF SysReceive, ReceivePops, ReceiveBlocks
<1>3. p # ssi_pcb_real => received'[ssi_pcb_real] = received[ssi_pcb_real]
  BY <1>2, Names DEF Base, TypeOK
<1> QED BY <1>1, <1>3, CalmCounts DEF procVars

LEMMA OthersCount ==
    ASSUME Base, CountsAgree,
           \/ \E load \in Event : Interrupt(load) /\ UNCHANGED <<ssi, frame>>
           \/ SliceEnds \/ Halted \/ UNCHANGED vars \/ TrapEnds
    PROVE  CountsAgree'
<1>1. ASSUME NEW load \in Event, Interrupt(load), UNCHANGED <<ssi, frame>>  PROVE CountsAgree'
  <2>1. load \in Load /\ TypeOK /\ ssi_pcb_real \in Live /\ ssi_pcb_real \in Pcb
    BY <1>1, Loads, Names DEF Base, CpuWorks
  <2>2. /\ UNCHANGED procVars
        /\ \E ready \in Seq(Pcb) :
              /\ Sent(ssi_pcb_real, MessageOf(INTERRUPT_HANDLER_MSG, load), ready)
              /\ Scheduler(current_process, ready)
    BY <1>1, <2>1, InterruptEffect
  <2>3. ssi.pc \in Creating => received'[ssi_pcb_real] = received[ssi_pcb_real]
    BY <2>1, <2>2, SentWhileCreating
  <2>4. cpu' # "kernel" /\ (cpu' = "halt" => process_count' = 1)
    BY <2>2, SchedulerCounts
  <2> QED BY <1>1, <2>2, <2>3, <2>4, CalmCounts DEF procVars
<1>2. CASE SliceEnds
  <2>1. Scheduler(NULL, Append(ready_queue, current_process))
    BY <1>2 DEF SliceEnds, PltInterrupt
  <2>2. cpu' # "kernel" /\ (cpu' = "halt" => process_count' = 1)
    BY <2>1, SchedulerCounts
  <2> QED BY <1>2, <2>2, CalmCounts DEF SliceEnds, PltInterrupt, procVars, msgVars
<1>3. CASE Halted \/ UNCHANGED vars
  <2>1. UNCHANGED vars
    BY <1>3 DEF Halted, Stopped, vars
  <2>2. UNCHANGED <<pcbFree, process_count, frame, cpu, ssi, received>>
    BY <2>1 DEF vars, ipcVars, procVars, cpuVars, msgVars
  <2>3. cpu # "kernel"
    BY DEF CountsAgree
  <2> QED BY <2>2, <2>3, CalmCounts
<1>4. CASE TrapEnds
  BY <1>4 DEF TrapEnds, CountsAgree
<1> QED BY <1>1, <1>2, <1>3, <1>4

LEMMA ClientCounts ==
    ASSUME "TRAP" \notin Services, Base, CountsAgree, NEW p \in Pcb, ClientStep(p)
    PROVE  CountsAgree'
<1>1. ASSUME NEW req \in [op : Services \cap SsiOp, arg : Address \cup Device], Requests(p, req)
      PROVE  CountsAgree'
  <2>1. req \in Load
    BY Loads DEF Request
  <2> QED BY <1>1, <2>1, SendingCounts DEF Requests, clientKeeps
<1>2. CASE Awaits(p) \/ Receives(p)
  <2>1. SSI_FAKE_ADDR \in Sender \cup {ANYMESSAGE} /\ ANYMESSAGE \in Sender \cup {ANYMESSAGE}
    BY Names
  <2> QED BY <1>2, <2>1, ReceivingCounts DEF Awaits, Receives, Client, clientKeeps
<1>3. ASSUME NEW to, Sends(p, to)  PROVE CountsAgree'
  BY <1>3, Loads, SendingCounts DEF Sends, clientKeeps
<1>4. CASE Traps(p)
  BY <1>4 DEF Traps
<1> QED BY <1>1, <1>2, <1>3, <1>4 DEF ClientStep

(* The SSI answers or takes up a request, or moves one in or out of a      *)
(* queue.                                                                  *)
LEMMA SsiTurnsCount ==
    ASSUME Base, CountsAgree,
           \/ SsiReceives \/ CreateReplies \/ TermReplies \/ DoIoReplies \/ ClockReplies
           \/ GetTimeReplies \/ DoIoQueues \/ DoIoCommands \/ DoIoAnswers \/ WaitForClock
           \/ ClockAnswers
    PROVE  CountsAgree'
<1>1. ssi.pc \notin Creating
  BY DEF SsiReceives, CreateReplies, TermReplies, DoIoReplies, ClockReplies, GetTimeReplies,
         DoIoQueues, DoIoCommands, DoIoAnswers, WaitForClock, ClockAnswers, Serving, SsiAt, Creating
<1>2. ssi'.pc \notin Creating
  BY DEF SsiReceives, CreateReplies, TermReplies, DoIoReplies, ClockReplies, GetTimeReplies,
         DoIoQueues, DoIoCommands, DoIoAnswers, WaitForClock, ClockAnswers, SsiGoes, Creating
<1>3. CASE SsiReceives
  <2>1. ANYMESSAGE \in Sender \cup {ANYMESSAGE} /\ ssi_pcb_real \in Pcb
    BY Names
  <2> QED BY <1>1, <1>2, <1>3, <2>1, ReceivingCounts DEF SsiReceives
<1>4. CASE CreateReplies \/ TermReplies \/ DoIoReplies \/ ClockReplies \/ GetTimeReplies
  <2>1. ASSUME NEW dest \in User, NEW op \in ReplyOp,
               NEW arg \in Address \cup Device \cup {NOPROC}, SsiSends(dest, op, arg)
        PROVE  CountsAgree'
    <3>1. [op |-> op, arg |-> arg] \in Load /\ ssi_pcb_real \in Pcb
      BY Loads, Names DEF Reply, ReplyOp
    <3> QED BY <1>1, <1>2, <2>1, <3>1, SendingCounts DEF SsiSends
  <2>2. CASE UNCHANGED <<ipcVars, listVars, busy, frame, call>>
    <3>1. UNCHANGED <<pcbFree, process_count, frame, cpu>> /\ cpu # "kernel"
      BY <2>2 DEF ipcVars, procVars, cpuVars, CountsAgree
    <3> QED BY <1>1, <1>2, <3>1, CalmCounts
  <2> QED BY <1>4, <2>1, <2>2, Replies
<1>5. CASE DoIoQueues \/ DoIoCommands \/ DoIoAnswers \/ WaitForClock \/ ClockAnswers
  <2>1. UNCHANGED <<pcbFree, process_count, frame, cpu>> /\ cpu # "kernel"
    BY <1>5 DEF DoIoQueues, DoIoCommands, DoIoAnswers, WaitForClock, ClockAnswers, ipcVars, procVars,
                cpuVars, CountsAgree
  <2> QED BY <1>1, <1>2, <2>1, CalmCounts
<1> QED BY <1>3, <1>4, <1>5

(* Creation.                                                               *)
LEMMA CreatesCount ==
    ASSUME Orderly, CountsAgree,
           \/ CreateAllocates \/ CreateInsertsChild \/ CreateInsertsReady
           \/ CreateReadsCount \/ CreateWritesCount
    PROVE  CountsAgree'
<1> DEFINE S == ssi_pcb_real
<1>1. Base /\ Places /\ Staged /\ cpu # "kernel" /\ S \in Pcb /\ S \in Live
  BY Names DEF Orderly, CountsAgree, Base, CpuWorks
<1>2. cpu' = cpu /\ frame' = frame /\ Past("ssi", Uncounted)' = Past("ssi", Uncounted)
  <2>1. cpu' = cpu /\ frame' = frame
    BY DEF CreateAllocates, CreateInsertsChild, CreateInsertsReady, CreateReadsCount,
           CreateWritesCount, keepCpu, ipcVars, cpuVars
  <2> QED BY <2>1 DEF Past, Below, Stack
<1>3. ssi.pc # "terminate"
  BY DEF CreateAllocates, CreateInsertsChild, CreateInsertsReady, CreateReadsCount,
         CreateWritesCount, Serving, SsiAt
<1>4. Past("ssi", Uncounted) = {} /\ frame["ssi"].pc = "idle"
  <2>1. frame["ssi"] = NoFrame
    BY <1>1, <1>3 DEF Base, Frames
  <2> QED BY <2>1, GoodNoFrame DEF Past, Below, Uncounted
<1>5. ASSUME NEW q \in Pcb, allocPcb(q), SsiGoes("insertChild", q), CreateAllocates  PROVE CountsAgree'
  <2>1. /\ pcbFree \in Seq(Pcb) /\ Once(pcbFree) /\ pcbFree # <<>> /\ q = Head(pcbFree)
        /\ pcbFree' = Tail(pcbFree)
        /\ received' = [received EXCEPT ![q] = NoMessage]
        /\ received \in [Pcb -> Message \cup {NoMessage}]
    BY <1>1, <1>5 DEF allocPcb, Base, TypeOK, Places
  <2>2. q \in ToSet(pcbFree) /\ ToSet(pcbFree') = ToSet(pcbFree) \ {q}
    BY <2>1, TailRange
  <2>3. q \notin Live /\ Live' = Live \cup {q}
    BY <1>5, <2>2 DEF Live
  <2>4. Running(S) /\ ssi.pc = "dispatch" /\ Asked.op = "CREATE" /\ process_count' = process_count
    BY <1>5 DEF CreateAllocates, Serving, SsiAt
  <2>5. Asker \in User
    BY <1>1, <2>4, SsiRuns DEF SsiOp
  <2>6. Asker \in Live
    <3>1. BeingServed(Asker)
      BY <2>4 DEF BeingServed
    <3> QED BY <1>1, <2>4, <2>5, <3>1, ServedCalls
  <2>7. Asker' = Asker
    BY <1>1, <2>1, <2>3 DEF Asker
  <2>8. Fresh = {} /\ Fresh' = {q}
    BY <1>5, <2>4 DEF Fresh, Creating, SsiGoes
  <2>9. Counted' = Counted
    BY <1>2, <1>4, <2>3, <2>8 DEF Counted
  <2>10. ssi'.pc = "insertChild" /\ ssi'.p = q
    BY <1>5 DEF SsiGoes
  <2> QED BY <1>2, <1>4, <2>3, <2>4, <2>6, <2>7, <2>8, <2>9, <2>10 DEF CountsAgree
<1>6. CASE CreateAllocates
  <2>1. CASE SsiGoes("reply", NOPROC) /\ UNCHANGED <<pcbFree, p_parent, p_child, reg_a1, msg_inbox,
                                                     received, do_io>>
    <3>1. ssi.pc = "dispatch" /\ ssi'.pc = "reply" /\ UNCHANGED <<pcbFree, process_count>>
      BY <1>6, <2>1 DEF SsiGoes, CreateAllocates, Serving, SsiAt
    <3> QED BY <1>1, <1>2, <3>1, CalmCounts DEF Creating
  <2> QED BY <1>5, <1>6, <2>1 DEF CreateAllocates
<1>7. CASE CreateInsertsChild \/ CreateInsertsReady
  <2>1. /\ UNCHANGED <<pcbFree, process_count, received>> /\ ssi.pc \in Creating /\ ssi'.pc \in Creating
        /\ ssi'.p = ssi.p /\ ssi'.pc # "countWrite"
    BY <1>7 DEF CreateInsertsChild, CreateInsertsReady, SsiAt, SsiGoes, Creating, procVars, msgVars
  <2>2. Fresh' = Fresh
    BY <2>1 DEF Fresh
  <2>3. Asker' # ssi'.p
    BY <2>1 DEF Asker, CountsAgree
  <2> QED BY <1>1, <1>2, <1>4, <2>1, <2>2, <2>3, KeptCounts
<1>8. CASE CreateReadsCount
  <2>1. PICK g : g = [ssi EXCEPT !.pc = "countWrite"]
    OBVIOUS
  <2>2. PICK f : f = [g EXCEPT !.tmp = Inc(process_count)]
    OBVIOUS
  <2>3. f.pc = "countWrite" /\ f.p = ssi.p /\ f.tmp = Inc(process_count)
    BY <1>1, <2>1, <2>2 DEF Base, SsiType
  <2>4. ssi' = f /\ UNCHANGED <<pcbFree, process_count, received>> /\ ssi.pc = "countRead"
    BY <1>1, <1>8, <2>1, <2>2 DEF CreateReadsCount, ipcVars, procVars, msgVars, SsiAt
  <2>5. Fresh' = Fresh
    BY <2>3, <2>4 DEF Fresh, Creating
  <2>6. Asker' # ssi'.p
    BY <2>3, <2>4 DEF Asker, CountsAgree, Creating
  <2> QED BY <1>1, <1>2, <1>4, <2>3, <2>4, <2>5, <2>6, KeptCounts
<1>9. CASE CreateWritesCount
  <2>1. /\ ssi.pc = "countWrite" /\ ssi'.pc = "reply" /\ pcbFree' = pcbFree
        /\ process_count' = Inc(process_count) /\ cpu = "run"
    BY <1>9 DEF CreateWritesCount, SsiAt, SsiGoes, CountsAgree, Running
  <2>2. PICK q, K : q = ssi.p /\ K = Counted
    OBVIOUS
  <2>3. Fresh = {q} /\ Fresh' = {} /\ q \in Live /\ Live' = Live
    BY <2>1, <2>2 DEF Fresh, Creating, CountsAgree, Live
  <2>4. Counted' = K \cup {q} /\ q \notin K /\ K \in SUBSET Pcb /\ q \in Pcb
    BY <1>2, <1>4, <2>2, <2>3 DEF Counted, Live
  <2>5. /\ Cardinality(K \cup {q}) = Cardinality(K) + 1 /\ Cardinality(K) \in Nat
        /\ Cardinality(K) + 1 <= MaxProc
    BY <2>4, PcbSets
  <2>6. process_count' = Cardinality(K) + 1
    BY <2>1, <2>2, <2>5, IpcAssumption DEF Inc, CountsAgree
  <2>7. process_count' = Cardinality(Counted')
    BY <2>4, <2>5, <2>6
  <2> QED BY <1>2, <1>4, <2>1, <2>3, <2>7 DEF CountsAgree, Creating
<1> QED BY <1>6, <1>7, <1>8, <1>9

(* Victims live until terminate_process frees them.                        *)
LEMMA SsiVictims ==
    ASSUME Orderly
    PROVE  \A x \in Stack("ssi") : x \in Live /\ x # ssi_pcb_real
<1>1. Base
  BY DEF Orderly
<1>2. PICK doom : Doomed(doom)
  BY DEF Orderly
<1>3. ASSUME NEW x \in Stack("ssi")  PROVE x \in Live /\ x # ssi_pcb_real
  <2>1. ssi.pc = "terminate" /\ Asker \in User
    BY <1>1, <1>3, SsiAtWork
  <2>2. x \in Roots(Asker)
    BY <1>3, <2>1 DEF Roots, SsiRoots
  <2>3. x \in Pcb /\ doom[x] = Asker /\ Asker # NULL
    BY <1>2, <2>1, <2>2, Names DEF Doomed, User
  <2> QED BY <1>2, <2>3 DEF Doomed
<1> QED BY <1>3

LEMMA SsiTerminatesCount ==
    ASSUME Orderly, CountsAgree, SsiTerminates
    PROVE  CountsAgree'
<1> DEFINE S == ssi_pcb_real
<1>1. /\ Base /\ Running(S) /\ ssi.pc = "dispatch" /\ Asked.op \in {"TERM", "BAD"}
      /\ ssi'.pc = "terminate" /\ UNCHANGED <<pcbFree, process_count>>
  BY DEF SsiTerminates, Serving, SsiAt, SsiGoes, Orderly, procVars
<1>2. PICK p : /\ p = (IF Asked.op = "BAD" \/ Asked.arg = NULL THEN Asker ELSE Asked.arg)
               /\ Enter("ssi", p, <<>>)
  BY DEF SsiTerminates
<1>3. p # S
  BY <1>1, <1>2, SsiRuns, Names DEF SsiOp, User
<1>4. PICK f : f = Called(p, <<>>)
  OBVIOUS
<1>5. frame' = [frame EXCEPT !["ssi"] = f] /\ cpu' = cpu /\ frame \in [Actor -> FrameOf]
      /\ "ssi" \in Actor
  <2>1. p \in Pcb => p # ssi_pcb_real
    BY <1>3
  <2>2. frame' = [frame EXCEPT !["ssi"] = f] /\ cpu' = cpu
    <3>1. Enter("ssi", p, <<>>) /\ p # ssi_pcb_real
      BY <1>2, <1>3
    <3> QED BY <1>4, <3>1 DEF Enter, Called
  <2>3. frame \in [Actor -> FrameOf]
    BY <1>1 DEF Base, FrameType, FrameOf
  <2> QED BY <2>2, <2>3 DEF Actor
<1>6. /\ \/ f.stack = <<p>> /\ f.pc = "outChild"
         \/ f = NoFrame
      /\ frame["ssi"] = NoFrame
  <2>1. <<>> \in Seq(Pcb) /\ S \notin ToSet(<<>>) /\ <<p>> \o <<>> = <<p>>
    BY NoQueue
  <2>2. frame["ssi"] = NoFrame
    BY <1>1 DEF Base, Frames
  <2>3. p \in Pcb => p # ssi_pcb_real
    BY <1>3
  <2>4. PICK none : none = <<>>
    OBVIOUS
  <2>5. none \in Seq(Pcb) /\ ssi_pcb_real \notin ToSet(none) /\ <<p>> \o none = <<p>>
    BY <2>1, <2>4
  <2>6. CASE isPcbValid(p)
    <3>1. f.stack = <<p>> \o none /\ f.pc = "outChild"
      BY <1>4, <2>3, <2>4, <2>5, <2>6, GoodCalled
    <3> QED BY <2>2, <2>5, <3>1
  <2>7. CASE ~isPcbValid(p)
    <3>1. f = Resume(none)
      BY <1>4, <2>3, <2>4, <2>5, <2>7, GoodCalled
    <3>2. f = NoFrame
      BY <2>4, <3>1 DEF Resume
    <3> QED BY <2>2, <3>2
  <2> QED BY <2>6, <2>7
<1>7. frame'["ssi"] = f
  BY <1>5
<1>8. Past("ssi", Uncounted) = {} /\ Past("ssi", Uncounted)' = {}
  <2>1. Past("ssi", Uncounted) = {}
    BY <1>6, GoodNoFrame DEF Past, Below, Uncounted
  <2>2. ASSUME f = NoFrame  PROVE Past("ssi", Uncounted)' = {}
    BY <1>7, <2>2, GoodNoFrame DEF Past, Below, Uncounted
  <2>3. ASSUME f.stack = <<p>>, f.pc = "outChild"  PROVE Past("ssi", Uncounted)' = {}
    <3>1. Tail(<<p>>) = <<>> /\ ToSet(<<>>) = {}
      BY NoQueue
    <3>2. "outChild" \notin Uncounted /\ frame'["ssi"].pc = "outChild" /\ frame'["ssi"].stack = <<p>>
      BY <1>7, <2>3 DEF Uncounted
    <3>3. Past("ssi", Uncounted)' = Below("ssi")'
      BY <3>2 DEF Past, Uncounted
    <3>4. Below("ssi")' = ToSet(Tail(<<p>>)) \/ Below("ssi")' = {}
      BY <3>2 DEF Below
    <3> QED BY <3>1, <3>3, <3>4
  <2> QED BY <1>6, <2>1, <2>2, <2>3
<1>9. Fresh' = Fresh
  BY <1>1 DEF Fresh, Creating
<1>10. frame'["ssi"].pc # "countWrite" /\ cpu' # "kernel" /\ cpu' # "halt"
  BY <1>1, <1>5, <1>6, <1>7, GoodNoFrame DEF Running
<1> QED BY <1>1, <1>8, <1>9, <1>10, KeptCounts DEF Creating

(* terminate_process run by the SSI.                                       *)
LEMMA TerminateCounts ==
    ASSUME Orderly, CountsAgree, NEW a \in Actor, Terminate(a)
    PROVE  CountsAgree'
<1>0. PICK v, st : v = Victim("ssi") /\ st = frame["ssi"].stack
  OBVIOUS
<1>1. PICK pc \in FramePc \ {"idle"} : TermAt(a, pc)
  <2>1. {"outChild", "outReady", "outIO", "countRead", "countWrite", "softRead", "softWrite",
         "children"} \subseteq FramePc \ {"idle"}
    BY DEF FramePc
  <2> QED BY <2>1 DEF Terminate, TermOutChild, TermOutReady, TermOutIO, TermReadsCount,
                      TermWritesCount, TermReadsSoftblock, TermWritesSoftblock, TermNextChild, TermFrees
<1>2. a = "ssi" /\ Base /\ Stacks
  <2>1. Base /\ Stacks /\ cpu # "kernel"
    BY DEF Orderly, CountsAgree
  <2>2. a # "nucleus"
    BY <1>1, <2>1 DEF TermAt, Acts
  <2> QED BY <2>1, <2>2 DEF Actor
<1>3. /\ frame \in [Actor -> FrameOf] /\ GoodFrame(frame["ssi"]) /\ frame["ssi"].pc = pc
      /\ st \in Seq(Pcb) /\ st # <<>> /\ v \in User /\ v \in ToSet(st)
      /\ ssi_pcb_real \notin ToSet(st) /\ Once(st)
      /\ ssi.pc = "terminate" /\ cpu = "run" /\ "ssi" \in Actor
  BY <1>0, <1>1, <1>2, TermActs DEF Base, FrameType, FrameOf, GoodFrame, Stacks
<1>4. PICK T : T = ToSet(Tail(st))
  OBVIOUS
<1>5. Tail(st) \in Seq(Pcb) /\ T = ToSet(st) \ {v}
  BY <1>0, <1>3, <1>4, TailRange DEF Victim
<1>6. Past("ssi", Uncounted) = (IF pc \in Uncounted THEN ToSet(st) ELSE T)
  BY <1>0, <1>3, <1>4 DEF Past, Below, Stack
<1>7. UNCHANGED <<ssi, p_parent, received>>
  BY <1>2 DEF Terminate, TermOutChild, TermOutReady, TermOutIO, TermReadsCount,
              TermWritesCount, TermReadsSoftblock, TermWritesSoftblock, TermNextChild, TermFrees,
              procVars, msgVars, ipcVars, keepMsg
<1>8. Fresh = {} /\ Fresh' = {} /\ ssi'.pc \notin Creating /\ ssi'.pc # "countWrite"
  BY <1>3, <1>7 DEF Fresh, Creating
(* A step within one part of the loop.                                     *)
<1>9. ASSUME NEW f, frame' = [frame EXCEPT !["ssi"] = f], f.stack = st,
             f.pc \in Uncounted <=> pc \in Uncounted,
             f.pc = "countWrite" => f.tmp = Dec(process_count),
             UNCHANGED <<pcbFree, process_count, cpu>>
      PROVE  CountsAgree'
  <2>1. frame'["ssi"] = f
    BY <1>3, <1>9
  <2>2. Past("ssi", Uncounted)' = Past("ssi", Uncounted)
    BY <1>4, <1>3, <1>6, <1>9, <2>1 DEF Past, Below, Stack
  <2>3. cpu' # "kernel" /\ (cpu' = "halt" => cpu = "halt")
    BY <1>9 DEF CountsAgree
  <2> QED BY <1>8, <1>9, <2>1, <2>2, <2>3, KeptCounts
<1>10. ASSUME NEW qc, TermGoes(a, qc), qc # "countWrite", qc \in Uncounted <=> pc \in Uncounted,
              UNCHANGED <<pcbFree, process_count, cpu>>
       PROVE  CountsAgree'
  <2>1. PICK f : f = [frame["ssi"] EXCEPT !.pc = qc]
    OBVIOUS
  <2>2. f.stack = st /\ f.pc = qc /\ frame' = [frame EXCEPT !["ssi"] = f]
    BY <1>0, <1>2, <1>3, <1>10, <2>1 DEF FrameOf, TermGoes
  <2> QED BY <1>9, <1>10, <2>2
<1>11. CASE TermOutChild(a) \/ TermOutReady(a) \/ TermWritesSoftblock(a)
  <2>1. UNCHANGED <<pcbFree, process_count, cpu>>
    BY <1>11 DEF TermOutChild, TermOutReady, TermWritesSoftblock, ipcVars, procVars, cpuVars, keepCpu
  <2>2. CASE TermOutChild(a)
    BY <1>2, <1>3, <1>10, <2>1, <2>2 DEF TermOutChild, TermAt, Uncounted
  <2>3. CASE TermOutReady(a)
    BY <1>2, <1>3, <1>10, <2>1, <2>3 DEF TermOutReady, TermAt, Uncounted
  <2>4. CASE TermWritesSoftblock(a)
    BY <1>2, <1>3, <1>10, <2>1, <2>4 DEF TermWritesSoftblock, TermAt, Uncounted
  <2> QED BY <1>11, <2>2, <2>3, <2>4
<1>12. CASE TermOutIO(a)
  <2>1. PICK w : frame' = [frame EXCEPT !["ssi"].pc = "countRead", !["ssi"].was_blocked = w]
    BY <1>2, <1>12 DEF TermOutIO
  <2>2. PICK g : g = [frame["ssi"] EXCEPT !.pc = "countRead"]
    OBVIOUS
  <2>3. PICK f : f = [g EXCEPT !.was_blocked = w]
    OBVIOUS
  <2>4. f.stack = st /\ f.pc = "countRead"
    BY <1>0, <1>3, <2>2, <2>3 DEF FrameOf
  <2>5. frame' = [frame EXCEPT !["ssi"] = f]
    BY <1>3, <2>1, <2>2, <2>3
  <2>6. pc = "outIO" /\ UNCHANGED <<pcbFree, process_count, cpu>>
    BY <1>2, <1>3, <1>12 DEF TermOutIO, TermAt, ipcVars, procVars, cpuVars
  <2> QED BY <1>9, <2>4, <2>5, <2>6 DEF Uncounted
<1>13. ASSUME NEW qc, NEW n, frame' = [frame EXCEPT !["ssi"].pc = qc, !["ssi"].tmp = n],
              qc = "countWrite" => n = Dec(process_count), qc \in Uncounted <=> pc \in Uncounted,
              UNCHANGED <<pcbFree, process_count, cpu>>
       PROVE  CountsAgree'
  <2>2. PICK g : g = [frame["ssi"] EXCEPT !.pc = qc]
    OBVIOUS
  <2>3. PICK f : f = [g EXCEPT !.tmp = n]
    OBVIOUS
  <2>4. f.stack = st /\ f.pc = qc /\ f.tmp = n
    BY <1>0, <1>3, <2>2, <2>3 DEF FrameOf
  <2>5. frame' = [frame EXCEPT !["ssi"] = f]
    BY <1>3, <1>13, <2>2, <2>3
  <2> QED BY <1>9, <1>13, <2>4, <2>5
<1>14. CASE TermReadsCount(a) \/ TermReadsSoftblock(a)
  <2>1. UNCHANGED <<pcbFree, process_count, cpu>>
    BY <1>14 DEF TermReadsCount, TermReadsSoftblock, ipcVars, procVars, cpuVars
  <2>2. CASE TermReadsCount(a)
    <3>1. PICK qc, n : qc = "countWrite" /\ n = Dec(process_count)
      OBVIOUS
    <3>2. pc = "countRead" /\ frame' = [frame EXCEPT !["ssi"].pc = qc, !["ssi"].tmp = n]
      BY <1>2, <1>3, <2>2, <3>1 DEF TermReadsCount, TermAt
    <3>3. qc \in Uncounted <=> pc \in Uncounted
      BY <3>1, <3>2 DEF Uncounted
    <3>4. qc = "countWrite" => n = Dec(process_count)
      BY <3>1
    <3> QED BY <1>13, <2>1, <3>2, <3>3, <3>4
  <2>3. CASE TermReadsSoftblock(a)
    <3>1. PICK qc : qc = "softWrite"
      OBVIOUS
    <3>2. PICK n : frame' = [frame EXCEPT !["ssi"].pc = qc, !["ssi"].tmp = n]
      BY <1>2, <2>3, <3>1 DEF TermReadsSoftblock
    <3>3. qc \in Uncounted <=> pc \in Uncounted
      BY <1>2, <1>3, <2>3, <3>1 DEF Uncounted, TermReadsSoftblock, TermAt
    <3>4. qc = "countWrite" => n = Dec(process_count)
      BY <3>1
    <3> QED BY <1>13, <2>1, <3>2, <3>3, <3>4
  <2> QED BY <1>14, <2>2, <2>3
<1>15. ASSUME NEW f, frame' = [frame EXCEPT !["ssi"] = f], f.pc # "countWrite",
              cpu' = cpu, process_count' = Cardinality(Counted'), pcbFree' = pcbFree
       PROVE  CountsAgree'
  <2>1. frame'["ssi"].pc # "countWrite"
    BY <1>3, <1>15
  <2>2. cpu' # "halt" /\ cpu' # "kernel"
    BY <1>3, <1>15
  <2> QED BY <1>8, <1>15, <2>1, <2>2 DEF CountsAgree
<1>16. CASE TermWritesCount(a)
  <2>1. PICK qc \in {"softRead", "children"} : TermGoes(a, qc)
    BY <1>16 DEF TermWritesCount
  <2>2. PICK f : f = [frame["ssi"] EXCEPT !.pc = qc]
    OBVIOUS
  <2>3. f.stack = st /\ f.pc = qc /\ frame' = [frame EXCEPT !["ssi"] = f]
    BY <1>0, <1>2, <1>3, <2>1, <2>2 DEF FrameOf, TermGoes
  <2>4. /\ pc = "countWrite" /\ process_count' = Dec(process_count) /\ pcbFree' = pcbFree
        /\ cpu' = cpu
    BY <1>2, <1>3, <1>16 DEF TermWritesCount, TermAt, cpuVars, CountsAgree
  <2>5. Past("ssi", Uncounted)' = ToSet(st)
    <3>1. frame'["ssi"] = f
      BY <1>3, <2>3
    <3> QED BY <2>1, <2>3, <3>1 DEF Past, Stack, Uncounted
  <2>6. PICK K : K = Counted
    OBVIOUS
  <2>7. K = Live \ T /\ Counted' = Live \ ToSet(st) /\ v \in Live
    <3>1. v \in Live
      BY <1>0, <1>3, SsiVictims DEF Stack
    <3>2. Live' = Live
      BY <2>4 DEF Live
    <3>3. pc \notin Uncounted
      BY <2>4 DEF Uncounted
    <3> QED BY <1>6, <1>8, <2>5, <2>6, <3>1, <3>2, <3>3 DEF Counted
  <2>8. K \in SUBSET Pcb /\ v \in K /\ Counted' = K \ {v}
    BY <1>3, <1>5, <2>7 DEF Live
  <2>9. Cardinality(K \ {v}) = Cardinality(K) - 1 /\ Cardinality(K) > 0 /\ Cardinality(K) \in Nat
    BY <2>8, PcbSets
  <2>10. process_count' = Cardinality(Counted')
    BY <2>4, <2>6, <2>8, <2>9 DEF Dec, CountsAgree
  <2> QED BY <1>15, <2>3, <2>4, <2>10
<1>17. CASE TermNextChild(a)
  <2>1. PICK c : c = Head(p_child[v])
    OBVIOUS
  <2>2. Enter("ssi", c, st) /\ p_child[v] # <<>> /\ p_child[v] \in Seq(Pcb) /\ Once(p_child[v])
    BY <1>0, <1>2, <1>3, <1>17, <2>1 DEF TermNextChild, Base, ServiceTypes, Orderly, Family, User
  <2>3. c \in Children(v)
    BY <2>1, <2>2, TailRange DEF Children
  <2>4. c # ssi_pcb_real /\ c \in Pcb
    BY <1>2, <1>3, <2>3, ChildrenArePcbs DEF Base, SsiApart, User
  <2>5. PICK f : f = Called(c, st)
    OBVIOUS
  <2>6. frame' = [frame EXCEPT !["ssi"] = f] /\ cpu' = cpu
    BY <2>2, <2>4, <2>5 DEF Enter, Called
  <2>7. \/ f.stack = <<c>> \o st /\ f.pc = "outChild"
        \/ f.stack = st /\ f.pc = "children"
    <3>1. c \in Pcb => c # ssi_pcb_real
      BY <2>4
    <3>2. CASE isPcbValid(c)
      BY <1>3, <2>5, <3>1, <3>2, GoodCalled
    <3>3. CASE ~isPcbValid(c)
      <4>1. f = Resume(st)
        BY <1>3, <2>5, <3>1, <3>3, GoodCalled
      <4> QED BY <1>3, <4>1, GoodResume
    <3> QED BY <3>2, <3>3
  <2>8. Past("ssi", Uncounted)' = ToSet(st)
    <3>1. frame'["ssi"] = f
      BY <1>3, <2>6
    <3>2. <<c>> \o st # <<>> /\ Tail(<<c>> \o st) = st
      BY <1>3, <2>4, Push
    <3> QED BY <2>7, <3>1, <3>2 DEF Past, Below, Stack, Uncounted
  <2>9. pc = "children" /\ UNCHANGED <<pcbFree, process_count>>
    BY <1>2, <1>3, <1>17 DEF TermNextChild, TermAt, procVars
  <2>10. Counted' = Counted
    BY <1>6, <1>8, <2>8, <2>9 DEF Counted, Live, Uncounted
  <2> QED BY <1>15, <2>6, <2>7, <2>9, <2>10 DEF CountsAgree
<1>18. CASE TermFrees(a)
  <2>1. PICK f : f = Resume(Tail(st))
    OBVIOUS
  <2>2. /\ frame' = [frame EXCEPT !["ssi"] = f] /\ pcbFree' = <<v>> \o pcbFree
        /\ pc = "children" /\ UNCHANGED <<process_count, cpu>> /\ pcbFree \in Seq(Pcb)
    BY <1>0, <1>2, <1>3, <1>18, <2>1 DEF TermFrees, TermAt, cpuVars, Base, TypeOK
  <2>3. f.stack = Tail(st) /\ f.pc \in {"children", "idle"} /\ (f.pc = "idle" => Tail(st) = <<>>)
    <3>1. PICK rest : rest = Tail(st)
      OBVIOUS
    <3>2. rest \in Seq(Pcb) /\ ssi_pcb_real \notin ToSet(rest) /\ f = Resume(rest)
      BY <1>3, <1>4, <1>5, <2>1, <3>1
    <3>3. CASE rest = <<>>
      BY <3>1, <3>2, <3>3, GoodResume, GoodNoFrame
    <3>4. CASE rest # <<>>
      BY <3>1, <3>2, <3>4, GoodResume
    <3> QED BY <3>3, <3>4
  <2>4. Past("ssi", Uncounted)' = T
    <3>1. frame'["ssi"] = f
      BY <1>3, <2>2
    <3> QED BY <1>4, <2>3, <3>1, NoQueue DEF Past, Below, Stack, Uncounted
  <2>5. Live' = Live \ {v}
    <3>1. ToSet(<<v>> \o pcbFree) = {v} \cup ToSet(pcbFree)
      BY <1>3, <2>2, Push DEF User
    <3> QED BY <2>2, <3>1 DEF Live
  <2>6. Counted' = Counted
    BY <1>3, <1>5, <1>6, <1>8, <2>2, <2>4, <2>5 DEF Counted, Uncounted
  <2>7. frame'["ssi"].pc # "countWrite"
    BY <1>3, <2>2, <2>3
  <2>8. Fresh' \subseteq Live'
    BY <1>8
  <2> QED BY <1>3, <1>8, <2>2, <2>6, <2>7, <2>8 DEF CountsAgree
<1> QED BY <1>11, <1>12, <1>14, <1>16, <1>17, <1>18 DEF Terminate

LEMMA InitCounts == Init => CountsAgree
<1>1. SUFFICES ASSUME Init PROVE CountsAgree
  OBVIOUS
<1>2. /\ cpu = "run" /\ process_count = 2 /\ ssi.pc = "receive" /\ frame["ssi"] = NoFrame
  BY <1>1 DEF Init, Actor
<1>3. Live = {ssi_pcb_real} \cup {test_pcb} /\ ssi_pcb_real \in Pcb /\ test_pcb \in Pcb \ {ssi_pcb_real}
  BY <1>1, InitFree, Names, IpcAssumption DEF Live, test_pcb, ssi_pcb_real, Pcb
<1>4. Fresh = {} /\ Past("ssi", Uncounted) = {}
  BY <1>2, GoodNoFrame DEF Fresh, Past, Below, Creating, Uncounted
<1>5. Counted = {ssi_pcb_real} \cup {test_pcb}
  BY <1>3, <1>4 DEF Counted
<1>6. Cardinality({ssi_pcb_real}) = 1
  BY FS_Singleton
<1>7. PICK T : T = {ssi_pcb_real}
  OBVIOUS
<1>8. T \in SUBSET Pcb /\ test_pcb \in Pcb \ T
  BY <1>3, <1>7
<1>9. Cardinality(T \cup {test_pcb}) = Cardinality(T) + 1
  BY <1>8, PcbSets
<1>10. Cardinality(Counted) = 2
  BY <1>5, <1>6, <1>7, <1>9
<1> QED BY <1>2, <1>4, <1>10, GoodNoFrame DEF CountsAgree, Creating

LEMMA NextCounts ==
    ASSUME "TRAP" \notin Services, Orderly, CountsAgree, [Next]_vars
    PROVE  CountsAgree'
<1>1. Base
  BY DEF Orderly
<1>2. CASE \/ CreateAllocates \/ CreateInsertsChild \/ CreateInsertsReady
           \/ CreateReadsCount \/ CreateWritesCount
  BY <1>2, CreatesCount
<1>3. CASE \/ SsiReceives \/ CreateReplies \/ TermReplies \/ DoIoReplies \/ ClockReplies
           \/ GetTimeReplies \/ DoIoQueues \/ DoIoCommands \/ DoIoAnswers \/ WaitForClock
           \/ ClockAnswers
  BY <1>1, <1>3, SsiTurnsCount
<1>4. CASE SsiTerminates
  BY <1>4, SsiTerminatesCount
<1>5. ASSUME NEW a \in Actor, Terminate(a)  PROVE CountsAgree'
  BY <1>5, TerminateCounts
<1>6. ASSUME NEW p \in Pcb, ClientStep(p)  PROVE CountsAgree'
  BY <1>1, <1>6, ClientCounts
<1>7. ASSUME NEW d \in Device, DeviceInterrupt(d)  PROVE CountsAgree'
  <2>1. [op |-> "IODONE", arg |-> d] \in Event
    BY DEF Event
  <2> QED BY <1>1, <1>7, <2>1, OthersCount DEF DeviceInterrupt
<1>8. CASE ClockInterrupt
  <2>1. [op |-> "TICK", arg |-> 0] \in Event
    BY DEF Event
  <2> QED BY <1>1, <1>8, <2>1, OthersCount DEF ClockInterrupt
<1>9. CASE TrapEnds \/ SliceEnds \/ Halted \/ UNCHANGED vars
  BY <1>1, <1>9, OthersCount
<1> QED BY <1>2, <1>3, <1>4, <1>5, <1>6, <1>7, <1>8, <1>9 DEF Next, SsiStep, Create, Actor

LEMMA AloneAtTheEnd ==
    ASSUME Orderly, CountsAgree, cpu = "halt"
    PROVE  Live \ Dying = {ssi_pcb_real}
<1> DEFINE S == ssi_pcb_real
<1>1. Base /\ Staged /\ S \in Live /\ S \in Pcb
  BY Names DEF Orderly, Base, CpuWorks
<1>2. Past("ssi", Uncounted) \subseteq Stack("ssi")
  <2>1. frame["ssi"].stack \in Seq(Pcb)
    BY <1>1 DEF Base, FrameType, Actor
  <2>2. CASE frame["ssi"].stack = <<>>
    BY <2>2, NoQueue DEF Past, Below, Stack
  <2>3. CASE frame["ssi"].stack # <<>>
    <3>1. PICK q : q = frame["ssi"].stack
      OBVIOUS
    <3>2. ToSet(Tail(q)) \subseteq ToSet(q)
      BY <2>1, <2>3, <3>1, TailElements DEF ToSet
    <3> QED BY <2>3, <3>1, <3>2 DEF Past, Below, Stack
  <2> QED BY <2>2, <2>3
<1>3. S \notin Stack("ssi") /\ S \notin Dying /\ Stack("ssi") \subseteq Dying
  BY <1>1 DEF Base, Frames, Stack, Dying, Actor
<1>4. S \notin Fresh
  BY <1>1 DEF Fresh, Base, SsiWork, User
<1>5. PICK K : K = Counted
  OBVIOUS
<1>6. K = {S}
  <2>1. K \in SUBSET Pcb /\ S \in K
    BY <1>1, <1>2, <1>3, <1>4, <1>5 DEF Counted, Live
  <2>2. Cardinality(K) = 1 /\ Cardinality(K \ {S}) = Cardinality(K) - 1
    BY <1>5, <2>1, PcbSets DEF CountsAgree
  <2>3. K \ {S} = {}
    <3>1. IsFiniteSet(K \ {S})
      BY <2>1, PcbSets
    <3> QED BY <2>2, <3>1, FS_EmptySet
  <2> QED BY <2>1, <2>3
<1>7. Fresh = {}
  <2>1. SUFFICES ASSUME ssi.pc \in Creating PROVE FALSE
    BY DEF Fresh
  <2>2. S \notin blocked /\ ssi.pc \notin {"receive", "terminate", "dispatch"}
    BY <1>1, <2>1 DEF Base, SsiServes, Creating
  <2>3. received[S] \in SsiMessage /\ Asked.op = "CREATE"
    BY <1>1, <2>1, <2>2 DEF Base, SsiServes, SsiWork
  <2>4. Asker \in User
    BY <2>3, SsiMessages DEF Asked, Asker, SsiOp
  <2>5. BeingServed(Asker)
    BY <2>1 DEF BeingServed, Creating
  <2>6. Asker \in Live
    BY <1>1, <2>2, <2>4, <2>5, ServedCalls
  <2>7. Past("ssi", Uncounted) = {}
    BY <1>1, <2>2, GoodNoFrame DEF Base, Frames, Past, Below, Uncounted
  <2>8. Asker # ssi.p
    BY <2>1 DEF CountsAgree
  <2>9. Asker \in K
    BY <1>5, <2>6, <2>7, <2>8 DEF Counted, Fresh
  <2> QED BY <1>6, <2>4, <2>9 DEF User
<1>8. Live \ Past("ssi", Uncounted) = {S}
  BY <1>5, <1>6, <1>7 DEF Counted
<1>9. PICK P, D, s : P = Past("ssi", Uncounted) /\ D = Dying /\ s = ssi_pcb_real
  OBVIOUS
<1>10. P \subseteq D /\ s \notin D /\ s \in Live /\ Live \ P = {s}
  BY <1>1, <1>2, <1>3, <1>8, <1>9
<1>11. Live \ D = {s}
  BY <1>10
<1> QED BY <1>9, <1>11

(* ProcessCount: process_count is the number of started processes whenever *)
(* no creation or termination is under way, for programs that keep the     *)
(* discipline and never trap.  (A trap may come between the load and the   *)
(* store of the SSI.)                                                      *)
THEOREM ProcessCountInvariance ==
    ASSUME Liberty = {}, "TRAP" \notin Services
    PROVE  Spec => []ProcessCount
<1>1. Init => Orderly /\ CountsAgree
  BY InitOrderly, InitCounts
<1>2. Orderly /\ CountsAgree /\ [Next]_vars => Orderly' /\ CountsAgree'
  BY NextOrderly, NextCounts
<1>3. Orderly /\ CountsAgree => ProcessCount
  <2>1. SUFFICES ASSUME Orderly, CountsAgree, CountingDone
                 PROVE  process_count = Cardinality(Live)
    BY DEF ProcessCount
  <2>2. Fresh = {} /\ Past("ssi", Uncounted) = {}
    BY <2>1, GoodNoFrame DEF CountingDone, Fresh, Creating, Past, Below, Uncounted, Actor
  <2>3. Counted = Live
    BY <2>2 DEF Counted
  <2> QED BY <2>1, <2>3 DEF CountsAgree
<1> QED BY <1>1, <1>2, <1>3, PTL DEF Spec

(* HaltAtTheEnd: the machine halts only when the SSI alone is left, never  *)
(* with a process under creation or one not being terminated.              *)
THEOREM HaltAtTheEndInvariance ==
    ASSUME Liberty = {}, "TRAP" \notin Services
    PROVE  Spec => []HaltAtTheEnd
<1>1. Init => Orderly /\ CountsAgree
  BY InitOrderly, InitCounts
<1>2. Orderly /\ CountsAgree /\ [Next]_vars => Orderly' /\ CountsAgree'
  BY NextOrderly, NextCounts
<1>3. Orderly /\ CountsAgree => HaltAtTheEnd
  BY AloneAtTheEnd DEF HaltAtTheEnd
<1> QED BY <1>1, <1>2, <1>3, PTL DEF Spec
-----------------------------------------------------------------------------
(* softblock_count.                                                        *)

(* The processes it counts: those blocked on an I/O or clock request, but  *)
(* the victims of a trap whose decrement has been written.                 *)
Soft(p) == call[p].op \in {"DOIO", "CLOCKWAIT"}
SoftCounted == {p \in blocked : Soft(p)} \ Past("nucleus", {"children"})

(* The SSI terminates nobody who waits for a device; a trap may, and then  *)
(* was_blocked tells it.                                                   *)
SoftFrames ==
    /\ ~frame["ssi"].was_blocked /\ frame["ssi"].pc \notin {"softRead", "softWrite"}
    /\ frame["nucleus"].pc \in {"outChild", "outReady", "outIO"} /\ Soft(Victim("nucleus")) =>
          At("device", Victim("nucleus"))
    /\ frame["nucleus"].pc \in {"countRead", "countWrite"} /\ Soft(Victim("nucleus")) =>
          frame["nucleus"].was_blocked
    /\ frame["nucleus"].pc = "softWrite" =>
          frame["nucleus"].tmp = IF Soft(Victim("nucleus")) THEN Dec(softblock_count)
                                 ELSE softblock_count

Softs ==
    /\ \A p \in Live : do_io[p] <=> Soft(p)
    /\ softblock_count = Cardinality(SoftCounted)
    /\ SoftFrames

LEMMA SoftOps ==
    /\ ~Soft(ssi_pcb_real) \/ call[ssi_pcb_real] # NoCall
    /\ \A p : call[p] \in {NoCall, Receiving} => ~Soft(p)
    /\ \A p : Soft(p) => call[p].op \in SsiOp /\ ~Ending(p) /\ ~AtPeace(p)
BY CallOps DEF Soft, SsiOp, Ending, AtPeace, NoCall, Receiving

(* No trap is at work before or after.                                     *)
LEMMA IdleNucleus ==
    ASSUME Base, frame["nucleus"] = NoFrame, frame' = frame \/ frame'["nucleus"] = NoFrame,
           ~frame'["ssi"].was_blocked, frame'["ssi"].pc \notin {"softRead", "softWrite"}
    PROVE  SoftFrames' /\ Past("nucleus", {"children"}) = {} /\ Past("nucleus", {"children"})' = {}
<1>1. frame'["nucleus"] = NoFrame
  OBVIOUS
<1>2. frame'["nucleus"].pc = "idle" /\ frame'["nucleus"].stack = <<>>
  BY <1>1, GoodNoFrame
<1>3. SoftFrames'
  BY <1>2 DEF SoftFrames
<1>4. Past("nucleus", {"children"})' = {}
  BY <1>2 DEF Past, Below
<1>5. Past("nucleus", {"children"}) = {}
  BY GoodNoFrame DEF Past, Below
<1> QED BY <1>3, <1>4, <1>5

LEMMA KeptSofts ==
    ASSUME Base, Softs, frame["nucleus"] = NoFrame, frame' = frame \/ frame'["nucleus"] = NoFrame,
           ~frame'["ssi"].was_blocked, frame'["ssi"].pc \notin {"softRead", "softWrite"},
           UNCHANGED <<softblock_count, blocked>>,
           \A p \in blocked : Soft(p)' <=> Soft(p), \A p \in Live' : do_io'[p] <=> Soft(p)'
    PROVE  Softs'
<1>1. SoftFrames' /\ Past("nucleus", {"children"}) = {} /\ Past("nucleus", {"children"})' = {}
  BY IdleNucleus
<1>2. SoftCounted' = SoftCounted
  BY <1>1 DEF SoftCounted
<1> QED BY <1>1, <1>2 DEF Softs

LEMMA CalmSofts ==
    ASSUME Base, Softs, frame["nucleus"] = NoFrame, UNCHANGED frame,
           UNCHANGED <<pcbFree, softblock_count, blocked, do_io, call>>
    PROVE  Softs'
<1>1. ~frame'["ssi"].was_blocked /\ frame'["ssi"].pc \notin {"softRead", "softWrite"}
  BY DEF Softs, SoftFrames
<1>2. \A p : Soft(p)' <=> Soft(p)
  BY DEF Soft
<1>3. \A p \in Live' : do_io'[p] <=> Soft(p)'
  BY <1>2 DEF Softs, Live
<1> QED BY <1>1, <1>2, <1>3, KeptSofts

LEMMA SoftBound ==
    ASSUME Base, Softs, frame["nucleus"] = NoFrame
    PROVE  /\ {p \in blocked : Soft(p)} \in SUBSET Pcb
           /\ softblock_count = Cardinality({p \in blocked : Soft(p)})
<1>1. Past("nucleus", {"children"}) = {}
  BY GoodNoFrame DEF Past, Below
<1>2. SoftCounted = {p \in blocked : Soft(p)}
  BY <1>1 DEF SoftCounted
<1> QED BY <1>2 DEF Softs, Base, TypeOK

(* A message: its sender is marked with its request, a process it wakes is *)
(* not counted any more.                                                   *)
LEMMA SoftSends ==
    ASSUME Base, Softs, frame["nucleus"] = NoFrame, UNCHANGED <<frame, pcbFree>>, msgFree > 0,
           NEW dest \in Live, NEW load, NEW sender, SendMessage(dest, load, sender),
           Delivers(dest, sender) => dest \in blocked /\ ~Soft(dest)',
           NEW Marks \in BOOLEAN,
           Marks <=> /\ dest = ssi_pcb_real /\ sender # INTERRUPT_HANDLER_MSG
                     /\ is_a_softblocking_request(load),
           NEW cur, cur = current_process,
           Marks => cur \in Pcb \ blocked /\ Soft(cur)' /\ cur # dest,
           \A p \in Pcb : (p # dest \/ ~Delivers(dest, sender)) /\ (p # cur \/ ~Marks)
                             => (Soft(p)' <=> Soft(p))
    PROVE  Softs'
<1>1. PICK K : K = {p \in blocked : Soft(p)}
  OBVIOUS
<1>2. K \in SUBSET Pcb /\ softblock_count = Cardinality(K) /\ dest \in Pcb /\ do_io \in [Pcb -> BOOLEAN]
  BY <1>1, SoftBound DEF Base, TypeOK, Live
<1>3. /\ SoftFrames' /\ Past("nucleus", {"children"})' = {} /\ Live' = Live
  BY IdleNucleus DEF Softs, SoftFrames, Live
<1>4. SoftCounted' = {p \in blocked' : Soft(p)'}
  BY <1>3 DEF SoftCounted
<1>5. PICK marked \in [Pcb -> BOOLEAN] :
         /\ marked = MarkSoftblocking(dest, load, sender)
         /\ \A p \in Pcb : marked[p] <=> do_io[p] \/ (Marks /\ p = cur)
  <2>1. CASE Marks
    <3>1. PICK g : g = [do_io EXCEPT ![current_process] = TRUE]
      OBVIOUS
    <3>2. g \in [Pcb -> BOOLEAN] /\ \A p \in Pcb : g[p] <=> do_io[p] \/ p = cur
      BY <1>2, <2>1, <3>1
    <3>3. MarkSoftblocking(dest, load, sender) = g
      BY <2>1, <3>1 DEF MarkSoftblocking
    <3> QED BY <2>1, <3>2, <3>3
  <2>2. CASE ~Marks
    <3>1. MarkSoftblocking(dest, load, sender) = do_io
      BY <2>2 DEF MarkSoftblocking
    <3> QED BY <1>2, <2>2, <3>1
  <2> QED BY <2>1, <2>2
<1>6. CASE SendDelivers(dest, load, sender)
  <2>1. /\ Delivers(dest, sender) /\ dest \in blocked /\ ~Soft(dest)'
        /\ softblock_count' = (IF do_io[dest] THEN Dec(softblock_count) ELSE softblock_count)
        /\ do_io' = [marked EXCEPT ![dest] = FALSE]
        /\ blocked' = blocked \ {dest}
    BY <1>5, <1>6 DEF SendDelivers
  <2>2. ASSUME NEW p \in Pcb, p # dest  PROVE do_io'[p] <=> do_io[p] \/ (Marks /\ p = cur)
    BY <1>2, <1>5, <2>1, <2>2
  <2>3. ~do_io'[dest]
    BY <1>2, <1>5, <2>1
  <2>4. \A p \in Live : do_io'[p] <=> Soft(p)'
    <3>1. ASSUME NEW p \in Live  PROVE do_io'[p] <=> Soft(p)'
      <4>1. p \in Pcb /\ (do_io[p] <=> Soft(p))
        BY <3>1 DEF Live, Softs
      <4>2. CASE p = dest
        BY <2>1, <2>3, <4>2
      <4>3. CASE p # dest /\ Marks /\ p = cur
        BY <2>2, <4>1, <4>3
      <4>4. CASE p # dest /\ ~(Marks /\ p = cur)
        BY <2>2, <4>1, <4>4
      <4> QED BY <4>2, <4>3, <4>4
    <3> QED BY <3>1
  <2>5. SoftCounted' = K \ {dest}
    <3>1. \A p \in blocked \ {dest} : Soft(p)' <=> Soft(p)
      BY <1>2, <2>1 DEF Base, TypeOK
    <3> QED BY <1>1, <1>4, <2>1, <3>1
  <2>6. do_io[dest] <=> dest \in K
    BY <1>1, <2>1 DEF Softs
  <2>7. softblock_count' = Cardinality(K \ {dest})
    <3>1. CASE dest \in K
      <4>1. Cardinality(K \ {dest}) = Cardinality(K) - 1 /\ Cardinality(K) > 0
        BY <1>2, <3>1, PcbSets
      <4> QED BY <1>2, <2>1, <2>6, <3>1, <4>1 DEF Dec
    <3>2. CASE dest \notin K
      <4>1. K \ {dest} = K
        BY <3>2
      <4> QED BY <1>2, <2>1, <2>6, <3>2, <4>1
    <3> QED BY <3>1, <3>2
  <2> QED BY <1>3, <2>4, <2>5, <2>7 DEF Softs
<1>7. CASE SendQueues(dest, load, sender)
  <2>1. /\ ~Delivers(dest, sender) /\ do_io' = marked /\ UNCHANGED <<softblock_count, blocked>>
    BY <1>5, <1>7 DEF SendQueues, Delivers
  <2>2. \A p \in Live : do_io'[p] <=> Soft(p)'
    <3>1. ASSUME NEW p \in Live  PROVE do_io'[p] <=> Soft(p)'
      <4>1. p \in Pcb /\ (do_io[p] <=> Soft(p)) /\ (do_io'[p] <=> do_io[p] \/ (Marks /\ p = cur))
        BY <1>5, <2>1, <3>1 DEF Live, Softs
      <4>2. CASE Marks /\ p = cur
        BY <4>1, <4>2
      <4>3. CASE ~(Marks /\ p = cur)
        BY <2>1, <4>1, <4>3
      <4> QED BY <4>2, <4>3
    <3> QED BY <3>1
  <2>3. SoftCounted' = K
    <3>1. \A p \in blocked : Soft(p)' <=> Soft(p)
      BY <2>1 DEF Base, TypeOK
    <3> QED BY <1>1, <1>4, <2>1, <3>1
  <2> QED BY <1>2, <1>3, <2>1, <2>2, <2>3 DEF Softs
<1>8. ~SendFails
  BY DEF SendFails
<1> QED BY <1>6, <1>7, <1>8 DEF SendMessage

LEMMA RepliesSoft ==
    ASSUME Orderly, Softs, msgFree > 0,
           CreateReplies \/ DoIoReplies \/ ClockReplies \/ GetTimeReplies \/ TermReplies
    PROVE  Softs'
<1> DEFINE S == ssi_pcb_real
<1>1. /\ Base /\ Places /\ Staged /\ Running(S) /\ frame["ssi"] = NoFrame /\ frame["nucleus"] = NoFrame
      /\ ssi.pc # "receive"
  BY Replies, SsiRuns DEF Orderly
<1>2. UnderConstruction = {} /\ Dying = {}
  <2>1. UnderConstruction = {}
    BY DEF CreateReplies, DoIoReplies, ClockReplies, GetTimeReplies, TermReplies, SsiAt, Serving,
           UnderConstruction
  <2> QED BY <1>1, <2>1, GoodNoFrame, NoQueue DEF Dying, Actor
<1>3. CASE UNCHANGED <<ipcVars, listVars, busy, frame, call>>
  BY <1>1, <1>3, CalmSofts DEF ipcVars, procVars, msgVars
<1>4. ASSUME NEW dest \in User, NEW op \in ReplyOp, NEW arg \in Address \cup Device \cup {NOPROC},
             AnswerTo(dest, op, arg)
      PROVE  Softs'
  <2>1. PICK load : load = [op |-> op, arg |-> arg]
    OBVIOUS
  <2>2. /\ SysSend(S, dest, load) /\ EndsCall(dest, S) /\ UNCHANGED frame
        /\ Destination(S, dest) = dest /\ dest \in Pcb /\ dest # S
    BY <1>4, <2>1, Names DEF AnswerTo, SsiSends, Destination, User
  <2>3. CASE ~isPcbValid(dest)
    <3>1. UNCHANGED <<msgVars, procVars>>
      BY <2>2, <2>3 DEF SysSend
    <3>2. call' = call
      BY <2>2, <2>3 DEF EndsCall
    <3> QED BY <1>1, <2>2, <3>1, <3>2, CalmSofts DEF msgVars, procVars
  <2>4. CASE isPcbValid(dest)
    <3>1. SendMessage(dest, load, S) /\ UNCHANGED procVars /\ dest \in Live
      BY <2>2, <2>4 DEF SysSend, isPcbValid
    <3>2. call' = IF Delivers(dest, S) THEN [call EXCEPT ![dest] = NoCall] ELSE call
      BY <2>2, <2>4 DEF EndsCall
    <3>3. call \in [Pcb -> Request \cup {NoCall, Receiving}]
      BY <1>1 DEF Base, ServiceTypes
    <3>4. Delivers(dest, S) => dest \in blocked /\ ~Soft(dest)'
      <4>1. SUFFICES ASSUME Delivers(dest, S) PROVE dest \in blocked /\ ~Soft(dest)'
        OBVIOUS
      <4>2. dest \in blocked
        BY <1>1, <1>2, <3>1, <4>1 DEF Delivers, Wakes, Places
      <4>3. call'[dest] = NoCall
        BY <2>2, <3>2, <3>3, <4>1
      <4> QED BY <4>2, <4>3, CallOps DEF Soft, NoCall
    <3>5. \A p \in Pcb : p # dest \/ ~Delivers(dest, S) => (Soft(p)' <=> Soft(p))
      BY <3>2, <3>3 DEF Soft
    <3>6. PICK marks : marks = FALSE
      OBVIOUS
    <3> QED BY <1>1, <2>2, <3>1, <3>4, <3>5, <3>6, SoftSends DEF procVars
  <2> QED BY <2>3, <2>4
<1> QED BY <1>1, <1>3, <1>4, RepliesMatch

LEMMA RequestsSoft ==
    ASSUME Orderly, Softs, msgFree > 0, NEW p \in Pcb,
           NEW req \in [op : Services \cap SsiOp, arg : Address \cup Device], Requests(p, req)
    PROVE  Softs'
<1> DEFINE S == ssi_pcb_real
<1>1. /\ Base /\ Places /\ S \in Live /\ S \in Pcb /\ p # S /\ cpu = "run" /\ current_process = p
      /\ p # INTERRUPT_HANDLER_MSG /\ frame["nucleus"] = NoFrame
  BY Names DEF Orderly, Requests, Client, Running, Base, CpuWorks, Frames
<1>2. /\ SysSend(p, SSI_FAKE_ADDR, req) /\ call[p] = NoCall /\ UNCHANGED frame
      /\ call' = [call EXCEPT ![p] = req] /\ call \in [Pcb -> Request \cup {NoCall, Receiving}]
  BY <1>1 DEF Requests, clientKeeps, Base, ServiceTypes
<1>3. PICK dest : dest = S
  OBVIOUS
<1>4. Destination(p, SSI_FAKE_ADDR) = dest /\ isPcbValid(dest)
  BY <1>1, <1>3, Names DEF Destination, isPcbValid
<1>5. SendMessage(dest, req, p) /\ UNCHANGED procVars
  BY <1>2, <1>4 DEF SysSend
<1>6. call[S] = NoCall /\ call'[S] = NoCall /\ call'[p] = req
  BY <1>1, <1>2 DEF Base, SsiApart
<1>7. Delivers(dest, p) => dest \in blocked /\ ~Soft(dest)'
  <2>1. Delivers(dest, p) => dest \in blocked
    BY <1>1, <1>3 DEF Delivers, Wakes, Base, SsiPlaced
  <2> QED BY <1>3, <1>6, <2>1 DEF Soft, NoCall
<1>8. PICK marks \in BOOLEAN : marks <=> is_a_softblocking_request(req)
  OBVIOUS
<1>9. Soft(p)' <=> marks
  BY <1>6, <1>8 DEF Soft, is_a_softblocking_request
<1>10. ~Soft(p)
  BY <1>2 DEF Soft, NoCall
<1>11. \A x \in Pcb : (x # p \/ ~marks) => (Soft(x)' <=> Soft(x))
  <2>1. ASSUME NEW x \in Pcb, x # p \/ ~marks  PROVE Soft(x)' <=> Soft(x)
    <3>1. CASE x = p
      BY <1>9, <1>10, <2>1, <3>1
    <3>2. CASE x # p
      BY <1>2, <2>1, <3>2 DEF Soft
    <3> QED BY <3>1, <3>2
  <2> QED BY <2>1
<1>12. p \notin blocked
  BY <1>1 DEF Places
<1>13. PICK cur : cur = p
  OBVIOUS
<1>14. /\ marks => cur \in Pcb \ blocked /\ Soft(cur)' /\ cur # dest
       /\ \A x \in Pcb : (x # cur \/ ~marks) => (Soft(x)' <=> Soft(x))
  BY <1>1, <1>3, <1>9, <1>11, <1>12, <1>13
<1>15. marks <=> dest = S /\ p # INTERRUPT_HANDLER_MSG /\ is_a_softblocking_request(req)
  BY <1>1, <1>3, <1>8
<1>16. UNCHANGED <<frame, pcbFree>> /\ dest \in Live /\ cur = current_process
  BY <1>1, <1>2, <1>3, <1>5, <1>13 DEF procVars
<1> QED BY <1>1, <1>5, <1>7, <1>14, <1>15, <1>16, SoftSends

LEMMA SendsSoft ==
    ASSUME Orderly, Liberty = {}, Softs, msgFree > 0, NEW p \in Pcb, NEW to, Sends(p, to)
    PROVE  Softs'
<1>1. /\ Base /\ Places /\ p \in User /\ cpu = "run" /\ current_process = p /\ call[p] = NoCall
      /\ frame["nucleus"] = NoFrame
  BY DEF Orderly, Sends, Client, Running, Base, Frames, User
<1>2. PICK dest : dest = Destination(p, to)
  OBVIOUS
<1>3. /\ SysSend(p, to, Data) /\ EndsCall(dest, p) /\ UNCHANGED frame
      /\ dest # NULL => MaySend(p, dest)
      /\ call \in [Pcb -> Request \cup {NoCall, Receiving}]
  BY <1>1, <1>2 DEF Sends, clientKeeps, Base, ServiceTypes
<1>4. CASE ~isPcbValid(dest)
  <2>1. UNCHANGED <<msgVars, procVars>>
    BY <1>2, <1>3, <1>4 DEF SysSend
  <2>2. call' = call
    BY <1>3, <1>4 DEF EndsCall
  <2> QED BY <1>1, <1>3, <2>1, <2>2, CalmSofts DEF msgVars, procVars
<1>5. CASE isPcbValid(dest)
  <2>1. SendMessage(dest, Data, p) /\ UNCHANGED procVars /\ dest \in Live /\ dest \in Pcb
    BY <1>2, <1>3, <1>5 DEF SysSend, isPcbValid, Live
  <2>2. dest # NULL
    BY <2>1, Names
  <2>3. dest \in Children(p) \cup {p_parent[p]} /\ ~Ending(dest)
    BY <1>3, <2>2 DEF MaySend
  <2>4. dest \in Ready \cup blocked \cup {current_process}
    BY <1>1, <2>1, <2>3, RelativePlaced
  <2>5. call' = IF Delivers(dest, p) THEN [call EXCEPT ![dest] = NoCall] ELSE call
    BY <1>3, <1>5 DEF EndsCall
  <2>6. Delivers(dest, p) => dest \in blocked /\ ~Soft(dest)'
    <3>1. SUFFICES ASSUME Delivers(dest, p) PROVE dest \in blocked /\ ~Soft(dest)'
      OBVIOUS
    <3>2. dest \in blocked
      BY <2>4, <3>1 DEF Delivers, Wakes
    <3>3. call'[dest] = NoCall
      BY <1>3, <2>1, <2>5, <3>1
    <3> QED BY <3>2, <3>3 DEF Soft, NoCall
  <2>7. \A x \in Pcb : x # dest \/ ~Delivers(dest, p) => (Soft(x)' <=> Soft(x))
    BY <1>3, <2>5 DEF Soft
  <2>8. PICK marks \in BOOLEAN : ~marks
    OBVIOUS
  <2>9. ~is_a_softblocking_request(Data)
    BY DEF is_a_softblocking_request, Data
  <2>10. UNCHANGED <<frame, pcbFree>>
    BY <1>3, <2>1 DEF procVars
  <2> QED BY <1>1, <2>1, <2>6, <2>7, <2>8, <2>9, <2>10, SoftSends
<1> QED BY <1>4, <1>5

LEMMA InterruptsSoft ==
    ASSUME Orderly, Softs, msgFree > 0, NEW load, Interrupt(load), UNCHANGED <<frame, call>>
    PROVE  Softs'
<1>1. /\ Base /\ cpu # "kernel" /\ frame["nucleus"] = NoFrame /\ call[ssi_pcb_real] = NoCall
      /\ ssi_pcb_real \in Live
  BY DEF Orderly, Base, Frames, SsiApart, Interrupt, CpuWorks
<1>2. PICK dest, sender : dest = ssi_pcb_real /\ sender = INTERRUPT_HANDLER_MSG
  OBVIOUS
<1>3. SendMessage(dest, load, sender) /\ UNCHANGED procVars
  BY <1>2 DEF Interrupt
<1>4. Delivers(dest, sender) => dest \in blocked /\ ~Soft(dest)'
  BY <1>1, <1>2 DEF Delivers, Wakes, Base, SsiPlaced, Soft, NoCall
<1>5. \A x : Soft(x)' <=> Soft(x)
  BY DEF Soft
<1>6. PICK marks \in BOOLEAN : ~marks
  OBVIOUS
<1>7. UNCHANGED <<frame, pcbFree>> /\ dest \in Live
  BY <1>1, <1>2, <1>3 DEF procVars
<1> QED BY <1>1, <1>2, <1>3, <1>4, <1>5, <1>6, <1>7, SoftSends

LEMMA ReceivesSoft ==
    ASSUME Orderly, Softs, NEW p \in Pcb, NEW src, SysReceive(p, src), UNCHANGED frame,
           \A x \in Pcb \ {p} : call'[x] = call[x],
           Matching(p, src) # {} => ~Soft(p)', Matching(p, src) = {} => (Soft(p)' <=> Soft(p))
    PROVE  Softs'
<1>1. /\ Base /\ Places /\ cpu = "run" /\ current_process = p /\ p \notin blocked /\ p \in Live
      /\ frame["nucleus"] = NoFrame /\ do_io \in [Pcb -> BOOLEAN] /\ blocked \in SUBSET Pcb
  BY DEF Orderly, SysReceive, Running, Base, Frames, Places, TypeOK
<1>2. \A x \in Pcb \ {p} : Soft(x)' <=> Soft(x)
  BY DEF Soft
<1>3. ~frame'["ssi"].was_blocked /\ frame'["ssi"].pc \notin {"softRead", "softWrite"}
  BY DEF Softs, SoftFrames
<1>4. CASE ReceivePops(p, src)
  <2>1. /\ Matching(p, src) # {} /\ do_io' = [do_io EXCEPT ![p] = FALSE]
        /\ UNCHANGED <<blocked, softblock_count, pcbFree>>
    BY <1>4 DEF ReceivePops, procVars
  <2>2. ASSUME NEW x \in Live'  PROVE do_io'[x] <=> Soft(x)'
    <3>1. x \in Live /\ x \in Pcb
      BY <2>1, <2>2 DEF Live
    <3>2. CASE x = p
      BY <1>1, <2>1, <3>2
    <3>3. CASE x # p
      BY <1>1, <1>2, <2>1, <3>1, <3>3 DEF Softs
    <3> QED BY <3>2, <3>3
  <2> QED BY <1>1, <1>2, <1>3, <2>1, <2>2, KeptSofts
<1>5. CASE ReceiveBlocks(p, src)
  <2>1. /\ Matching(p, src) = {} /\ blocked' = blocked \cup {p} /\ UNCHANGED <<do_io, pcbFree>>
        /\ softblock_count' = IF do_io[p] THEN Inc(softblock_count) ELSE softblock_count
    BY <1>5 DEF ReceiveBlocks, procVars
  <2>2. \A x \in Pcb : Soft(x)' <=> Soft(x)
    BY <1>2, <2>1
  <2>3. PICK K : K = {x \in blocked : Soft(x)}
    OBVIOUS
  <2>4. K \in SUBSET Pcb /\ softblock_count = Cardinality(K) /\ p \notin K
    BY <1>1, <2>3, SoftBound
  <2>5. SoftFrames' /\ Past("nucleus", {"children"})' = {}
    BY <1>1, <1>3, IdleNucleus
  <2>6. SoftCounted' = {x \in blocked' : Soft(x)'}
    BY <2>5 DEF SoftCounted
  <2>7. do_io[p] <=> Soft(p)
    BY <1>1 DEF Softs
  <2>8. softblock_count' = Cardinality(SoftCounted')
    <3>1. CASE Soft(p)
      <4>1. SoftCounted' = K \cup {p}
        BY <1>1, <2>1, <2>2, <2>3, <2>6, <3>1
      <4>2. Cardinality(K \cup {p}) = Cardinality(K) + 1 /\ Cardinality(K) + 1 <= MaxProc
            /\ Cardinality(K) \in Nat
        BY <2>4, PcbSets
      <4> QED BY <2>1, <2>4, <2>7, <3>1, <4>1, <4>2, IpcAssumption DEF Inc
    <3>2. CASE ~Soft(p)
      <4>1. SoftCounted' = K
        BY <1>1, <2>1, <2>2, <2>3, <2>6, <3>2
      <4> QED BY <2>1, <2>4, <2>7, <3>2, <4>1
    <3> QED BY <3>1, <3>2
  <2>9. \A x \in Live' : do_io'[x] <=> Soft(x)'
    BY <2>1, <2>2 DEF Softs, Live
  <2> QED BY <2>5, <2>8, <2>9 DEF Softs
<1> QED BY <1>4, <1>5 DEF SysReceive

LEMMA ReceivingSoft ==
    ASSUME Orderly, Softs,
           SsiReceives \/ \E p \in Pcb : Awaits(p) \/ Receives(p)
    PROVE  Softs'
<1>1. call \in [Pcb -> Request \cup {NoCall, Receiving}] /\ ssi_pcb_real \in Pcb
  BY Names DEF Orderly, Base, ServiceTypes
<1>2. CASE SsiReceives
  <2>1. SysReceive(ssi_pcb_real, ANYMESSAGE) /\ UNCHANGED <<frame, call>>
    BY <1>2 DEF SsiReceives
  <2>2. ~Soft(ssi_pcb_real) /\ ~Soft(ssi_pcb_real)'
    BY <2>1, SoftOps DEF Orderly, Base, SsiApart, Soft
  <2> QED BY <1>1, <2>1, <2>2, ReceivesSoft
<1>3. ASSUME NEW p \in Pcb, Awaits(p)  PROVE Softs'
  <2>1. /\ SysReceive(p, SSI_FAKE_ADDR) /\ UNCHANGED frame
        /\ call' = IF Matching(p, SSI_FAKE_ADDR) = {} THEN call ELSE [call EXCEPT ![p] = NoCall]
    BY <1>3 DEF Awaits, clientKeeps
  <2>2. \A x \in Pcb \ {p} : call'[x] = call[x]
    BY <1>1, <2>1
  <2>3. Matching(p, SSI_FAKE_ADDR) # {} => ~Soft(p)'
    BY <1>1, <2>1 DEF Soft, NoCall
  <2>4. Matching(p, SSI_FAKE_ADDR) = {} => (Soft(p)' <=> Soft(p))
    BY <2>1 DEF Soft
  <2> QED BY <2>1, <2>2, <2>3, <2>4, ReceivesSoft
<1>4. ASSUME NEW p \in Pcb, Receives(p)  PROVE Softs'
  <2>1. /\ SysReceive(p, ANYMESSAGE) /\ UNCHANGED frame /\ call[p] = NoCall
        /\ call' = [call EXCEPT ![p] = IF Matching(p, ANYMESSAGE) = {} THEN Receiving ELSE NoCall]
    BY <1>4 DEF Receives, clientKeeps
  <2>2. \A x \in Pcb \ {p} : call'[x] = call[x]
    BY <1>1, <2>1
  <2>3. ~Soft(p)' /\ ~Soft(p)
    BY <1>1, <2>1 DEF Soft, NoCall, Receiving
  <2> QED BY <2>1, <2>2, <2>3, ReceivesSoft
<1> QED BY <1>2, <1>3, <1>4

(* The SSI's own steps.                                                    *)
LEMMA WorksSoft ==
    ASSUME Orderly, Softs,
           \/ CreateAllocates \/ CreateInsertsChild \/ CreateInsertsReady \/ CreateReadsCount
           \/ CreateWritesCount \/ DoIoQueues \/ DoIoCommands \/ DoIoAnswers \/ WaitForClock
           \/ ClockAnswers \/ SsiTerminates
    PROVE  Softs'
<1> DEFINE S == ssi_pcb_real
<1>1. /\ Base /\ Waiting /\ Staged /\ Running(S) /\ ssi.pc # "receive" /\ frame["nucleus"] = NoFrame
      /\ do_io \in [Pcb -> BOOLEAN]
  <2>1. Running(S) /\ ssi.pc # "receive"
    BY DEF CreateAllocates, CreateInsertsChild, CreateInsertsReady, CreateReadsCount,
           CreateWritesCount, DoIoQueues, DoIoCommands, DoIoAnswers, WaitForClock, ClockAnswers,
           SsiTerminates, Serving, SsiAt
  <2> QED BY <2>1, SsiRuns DEF Orderly, Base, TypeOK
<1>2. ~frame["ssi"].was_blocked /\ frame["ssi"].pc \notin {"softRead", "softWrite"}
  BY DEF Softs, SoftFrames
<1>3. \A x \in Pcb : x \notin Live => ~Soft(x)
  BY <1>1 DEF Waiting, WaitsFor, Soft, NoCall
<1>4. CASE CreateAllocates
  <2>1. UNCHANGED <<frame, call, blocked, softblock_count>>
    BY <1>4 DEF CreateAllocates
  <2>2. CASE UNCHANGED <<pcbFree, do_io>>
    BY <1>1, <2>1, <2>2, CalmSofts
  <2>3. ASSUME NEW q \in Pcb, allocPcb(q)  PROVE Softs'
    <3>1. /\ pcbFree \in Seq(Pcb) /\ pcbFree # <<>> /\ q = Head(pcbFree) /\ pcbFree' = Tail(pcbFree)
          /\ Once(pcbFree) /\ do_io' = [do_io EXCEPT ![q] = FALSE]
      BY <2>3 DEF allocPcb, Orderly, Base, TypeOK, Places
    <3>2. q \notin Live /\ Live' = Live \cup {q}
      BY <3>1, <2>3, TailRange DEF Live
    <3>3. \A x : Soft(x)' <=> Soft(x)
      BY <2>1 DEF Soft
    <3>4. ASSUME NEW x \in Live'  PROVE do_io'[x] <=> Soft(x)'
      <4>1. CASE x = q
        BY <1>1, <1>3, <2>3, <3>1, <3>2, <3>3, <4>1
      <4>2. CASE x # q
        <5>1. x \in Live /\ x \in Pcb
          BY <3>2, <3>4, <4>2 DEF Live
        <5> QED BY <1>1, <3>1, <3>3, <4>2, <5>1 DEF Softs
      <4> QED BY <4>1, <4>2
    <3> QED BY <1>1, <1>2, <2>1, <3>3, <3>4, KeptSofts
  <2> QED BY <1>4, <2>2, <2>3 DEF CreateAllocates
<1>5. CASE \/ CreateInsertsChild \/ CreateInsertsReady \/ CreateReadsCount \/ CreateWritesCount
           \/ DoIoCommands \/ DoIoAnswers \/ WaitForClock \/ ClockAnswers
  <2>1. UNCHANGED <<frame, call, pcbFree, blocked, softblock_count, do_io>>
    BY <1>5 DEF CreateInsertsChild, CreateInsertsReady, CreateReadsCount, CreateWritesCount,
                DoIoCommands, DoIoAnswers, WaitForClock, ClockAnswers, ipcVars, msgVars, procVars
  <2> QED BY <1>1, <2>1, CalmSofts
<1>6. CASE DoIoQueues
  <2>1. /\ ssi.pc = "dispatch" /\ Asked.op = "DOIO" /\ do_io' = [do_io EXCEPT ![Asker] = TRUE]
        /\ UNCHANGED <<frame, call, pcbFree, blocked, softblock_count>>
    BY <1>6 DEF DoIoQueues, Serving, SsiAt, procVars
  <2>2. PICK p : p = Asker
    OBVIOUS
  <2>3. p \in User
    BY <1>1, <2>1, <2>2, SsiRuns DEF SsiOp
  <2>4. call[p] = Asked
    <3>1. BeingServed(p)
      BY <2>1, <2>2 DEF BeingServed
    <3> QED BY <1>1, <2>1, <2>3, <3>1, ServedCalls
  <2>5. Soft(p) /\ \A x : Soft(x)' <=> Soft(x)
    BY <2>1, <2>4 DEF Soft
  <2>6. ASSUME NEW x \in Live'  PROVE do_io'[x] <=> Soft(x)'
    <3>1. x \in Live /\ x \in Pcb
      BY <2>1, <2>6 DEF Live
    <3>2. CASE x = p
      BY <1>1, <2>1, <2>2, <2>5, <3>1, <3>2
    <3>3. CASE x # p
      BY <1>1, <2>1, <2>2, <2>5, <3>1, <3>3 DEF Softs
    <3> QED BY <3>2, <3>3
  <2> QED BY <1>1, <1>2, <2>1, <2>5, <2>6, KeptSofts
<1>7. CASE SsiTerminates
  <2>1. /\ UNCHANGED <<pcbFree, blocked, softblock_count, do_io, call>>
        /\ \E r : Enter("ssi", r, <<>>)
    BY <1>7 DEF SsiTerminates, procVars, msgVars
  <2>2. PICK r : Enter("ssi", r, <<>>)
    BY <2>1
  <2>3. PICK f : f = IF isPcbValid(r)
                     THEN [NoFrame EXCEPT !.pc = "outChild", !.stack = <<r>> \o <<>>]
                     ELSE Resume(<<>>)
    OBVIOUS
  <2>4. frame' = [frame EXCEPT !["ssi"] = f]
    BY <2>2, <2>3 DEF Enter
  <2>5. frame'["ssi"] = f /\ frame'["nucleus"] = NoFrame
    <3>1. "ssi" \in Actor /\ "nucleus" \in Actor /\ DOMAIN frame = Actor
      BY <1>1 DEF Base, FrameType, Actor
    <3> QED BY <1>1, <2>4, <3>1
  <2>6. ~f.was_blocked /\ f.pc \notin {"softRead", "softWrite"}
    BY <2>3 DEF NoFrame, Resume
  <2>7. \A x : Soft(x)' <=> Soft(x)
    BY <2>1 DEF Soft
  <2>8. \A x \in Live' : do_io'[x] <=> Soft(x)'
    BY <2>1, <2>7 DEF Softs, Live
  <2> QED BY <1>1, <2>1, <2>5, <2>6, <2>7, <2>8, KeptSofts
<1> QED BY <1>4, <1>5, <1>6, <1>7

LEMMA OthersSoft ==
    ASSUME Orderly, Softs, TrapEnds \/ SliceEnds \/ Halted \/ UNCHANGED vars
    PROVE  Softs'
<1>1. UNCHANGED <<frame, pcbFree, softblock_count, blocked, do_io, call>>
  BY DEF TrapEnds, SliceEnds, Halted, PltInterrupt, Stopped, vars, ipcVars, procVars, msgVars
<1>2. (SoftCounted' = SoftCounted /\ SoftFrames') \/ frame["nucleus"] = NoFrame
  <2>1. CASE TrapEnds
    BY <2>1 DEF TrapEnds
  <2>2. CASE SliceEnds \/ Halted
    BY <2>2 DEF SliceEnds, Halted, PltInterrupt, Stopped, Orderly, Base, Frames
  <2>3. CASE UNCHANGED vars
    <3>1. UNCHANGED <<call, frame, softblock_count, pcb_blocked_on_device, blocked>>
      BY <2>3 DEF vars, ipcVars, msgVars, listVars
    <3> QED BY <3>1 DEF Softs, SoftFrames, SoftCounted, Past, Below, Stack, Soft, Victim, At
  <2> QED BY <2>1, <2>2, <2>3
<1>3. CASE frame["nucleus"] = NoFrame
  BY <1>1, <1>3, CalmSofts DEF Orderly
<1>4. CASE SoftCounted' = SoftCounted /\ SoftFrames'
  <2>1. \A p \in Live' : do_io'[p] <=> Soft(p)'
    BY <1>1 DEF Softs, Live, Soft
  <2> QED BY <1>1, <1>4, <2>1 DEF Softs
<1> QED BY <1>2, <1>3, <1>4

(* Victims.                                                                *)
LEMMA SoftVictims ==
    ASSUME Orderly, NEW a \in Actor, NEW pc \in FramePc \ {"idle"}, TermAt(a, pc)
    PROVE  /\ a = "ssi" => ~Soft(Victim("ssi"))
           /\ a = "nucleus" /\ Soft(Victim("nucleus")) => Victim("nucleus") \in blocked
<1>1. PICK doom \in [Pcb -> Pcb \cup {NULL}] : Doomed(doom)
  BY DEF Orderly
<1>2. PICK o : Owns(doom, a, o)
  BY <1>1, TermOwner
<1>3. PICK v : v = Victim(a)
  OBVIOUS
<1>4. Base /\ Staged /\ v \in Stack(a)
  BY <1>3, TermActs DEF Orderly, Stack
<1>5. v \in User /\ v \in Pcb /\ doom[v] = o /\ o \in User /\ o # NULL
  BY <1>2, <1>4, Names DEF Owns, User
<1>6. Meek(v, o)
  BY <1>1, <1>5 DEF Doomed
<1>7. CASE AtPeace(v)
  BY <1>3, <1>7, SoftOps
<1>8. CASE v = o /\ Ending(v)
  BY <1>3, <1>8, SoftOps
<1>9. CASE v = o /\ Trapped(v)
  <2>1. ~Soft(v)
    BY <1>4, <1>5, <1>9 DEF Staged, Soft, NoCall
  <2> QED BY <1>3, <2>1
<1>10. CASE Trapped(o) /\ v \in blocked
  <2>1. a # "ssi"
    BY <1>2, <1>10 DEF Owns, Trapped
  <2> QED BY <1>3, <1>10, <2>1
<1> QED BY <1>6, <1>7, <1>8, <1>9, <1>10 DEF Meek

LEMMA NextVictimSoft ==
    ASSUME Orderly, Heeded, TermAt("nucleus", "children"), NEW c \in Children(Victim("nucleus")), Soft(c)
    PROVE  At("device", c)
<1>1. "nucleus" \in Actor /\ "children" \in FramePc \ {"idle"}
  BY DEF Actor, FramePc
<1>2. PICK doom \in [Pcb -> Pcb \cup {NULL}] : Doomed(doom)
  BY DEF Orderly
<1>3. PICK o : Owns(doom, "nucleus", o)
  BY <1>1, <1>2, TermOwner
<1>4. PICK v : v = Victim("nucleus")
  OBVIOUS
<1>5. Base /\ Staged /\ Stacks /\ Family /\ v \in Stack("nucleus") /\ v \in User /\ v \in Pcb
  BY <1>1, <1>4, TermActs DEF Orderly, Stack, User
<1>6. doom[v] = o /\ o \in User /\ o # NULL /\ frame["nucleus"].pc = "children" /\ Trapped(o)
  BY <1>3, <1>5, Names DEF Owns, User, TermAt
<1>7. c \in Live /\ c \in Pcb /\ c \in User
  BY <1>4, <1>5 DEF Family, Live, User, Base, SsiApart
<1>8. doom[c] = o
  BY <1>2, <1>4, <1>5, <1>6 DEF Doomed
<1>9. Meek(c, o)
  BY <1>2, <1>6, <1>7, <1>8 DEF Doomed
<1>10. Listed(c)
  BY <1>4, <1>5 DEF Listed
<1>11. c \notin Dying
  <2>1. c \notin Stack("nucleus")
    BY <1>1, <1>5, <1>6, <1>10 DEF Stacks
  <2>2. c \notin Stack("ssi")
    BY <1>3, <1>8 DEF Owns, Actor
  <2> QED BY <2>1, <2>2 DEF Dying, Stack, Actor
<1>12. Underway(c)
  BY <1>7, <1>11, SoftOps DEF Heeded, Asking
<1>13. ~AtPeace(c) /\ ~Ending(c)
  BY SoftOps
<1>14. ~(c = o /\ Trapped(c))
  BY <1>5, <1>7 DEF Staged, Soft, NoCall
<1>15. \A s \in Stage : At(s, c) => s = "device"
  BY <1>9, <1>13, <1>14 DEF Meek
<1> QED BY <1>12, <1>15 DEF Underway

(* terminate_process run by the SSI.                                       *)
LEMMA SsiTerminatingSoft ==
    ASSUME Orderly, Softs, Terminate("ssi")
    PROVE  Softs'
<1>0. PICK v, st, f : v = Victim("ssi") /\ st = frame["ssi"].stack /\ f = frame["ssi"]
  OBVIOUS
<1>1. PICK pc \in FramePc \ {"idle"} : TermAt("ssi", pc)
  <2>1. {"outChild", "outReady", "outIO", "countRead", "countWrite", "softRead", "softWrite",
         "children"} \subseteq FramePc \ {"idle"}
    BY DEF FramePc
  <2> QED BY <2>1 DEF Terminate, TermOutChild, TermOutReady, TermOutIO, TermReadsCount,
                      TermWritesCount, TermReadsSoftblock, TermWritesSoftblock, TermNextChild, TermFrees
<1>2. /\ Base /\ Staged /\ "ssi" \in Actor /\ "nucleus" \in Actor /\ cpu = "run"
      /\ v \in User /\ v \in Pcb
  BY <1>0, <1>1, TermActs DEF Orderly, Actor, User
<1>3. ~Soft(v)
  BY <1>0, <1>1, <1>2, SoftVictims
<1>4. ~At("device", v)
  <2>1. "device" \in Stage
    BY DEF Stage
  <2>2. At("device", v) => StagedAt("device", v)
    BY <1>2, <2>1 DEF Staged, OneStage
  <2>3. ASSUME NEW d \in Device, v \in ToSet(pcb_blocked_on_device[d]), StagedAt("device", v)
        PROVE  FALSE
    <3>1. PICK s : s = "device"
      OBVIOUS
    <3>2. StagedAt(s, v)
      BY <2>3, <3>1
    <3>3. call[v] = [op |-> "DOIO", arg |-> d]
      BY <2>3, <3>1, <3>2 DEF StagedAt
    <3>4. call[v].op = "DOIO"
      BY <3>3
    <3> QED BY <1>3, <3>4 DEF Soft
  <2>4. At("device", v) => \E d \in Device : v \in ToSet(pcb_blocked_on_device[d])
    BY DEF At
  <2> QED BY <2>2, <2>3, <2>4
<1>5. /\ frame["nucleus"] = NoFrame /\ frame \in [Actor -> FrameOf] /\ f \in FrameOf
      /\ f.pc = pc /\ ~f.was_blocked /\ f.pc \notin {"softRead", "softWrite"}
  <2>1. frame \in [Actor -> FrameOf]
    BY <1>2 DEF Base, FrameType, FrameOf
  <2> QED BY <1>0, <1>1, <1>2, <2>1 DEF Base, Frames, TermAt, Softs, SoftFrames
<1>6. ASSUME NEW g, frame' = [frame EXCEPT !["ssi"] = g]
      PROVE  frame'["ssi"] = g /\ frame'["nucleus"] = NoFrame
  BY <1>2, <1>5, <1>6
<1>7. ASSUME NEW g, frame' = [frame EXCEPT !["ssi"] = g], ~g.was_blocked,
             g.pc \notin {"softRead", "softWrite"},
             UNCHANGED <<pcbFree, softblock_count, blocked, do_io, call>>
      PROVE  Softs'
  <2>1. \A x : Soft(x)' <=> Soft(x)
    BY <1>7 DEF Soft
  <2>2. \A x \in Live' : do_io'[x] <=> Soft(x)'
    BY <1>7, <2>1 DEF Softs, Live
  <2>3. frame'["ssi"] = g /\ frame'["nucleus"] = NoFrame
    BY <1>6, <1>7
  <2> QED BY <1>2, <1>5, <1>7, <2>1, <2>2, <2>3, KeptSofts
<1>8. ASSUME NEW qc, TermGoes("ssi", qc), qc \notin {"softRead", "softWrite"},
             UNCHANGED <<pcbFree, softblock_count, blocked, do_io, call>>
      PROVE  Softs'
  <2>1. PICK g : g = [f EXCEPT !.pc = qc]
    OBVIOUS
  <2>2. g.was_blocked = f.was_blocked /\ g.pc = qc /\ frame' = [frame EXCEPT !["ssi"] = g]
    BY <1>0, <1>5, <1>8, <2>1 DEF FrameOf, TermGoes
  <2> QED BY <1>5, <1>7, <1>8, <2>2
<1>9. CASE TermOutChild("ssi") \/ TermOutReady("ssi") \/ TermWritesCount("ssi")
  <2>1. UNCHANGED <<pcbFree, softblock_count, blocked, do_io, call>>
    BY <1>9 DEF TermOutChild, TermOutReady, TermWritesCount, ipcVars, procVars, msgVars
  <2>2. \E qc : TermGoes("ssi", qc) /\ qc \notin {"softRead", "softWrite"}
    <3>1. CASE TermOutChild("ssi")
      <4>1. TermGoes("ssi", "outReady")
        BY <3>1 DEF TermOutChild
      <4> QED BY <4>1
    <3>2. CASE TermOutReady("ssi")
      <4>1. TermGoes("ssi", "outIO")
        BY <3>2 DEF TermOutReady
      <4> QED BY <4>1
    <3>3. CASE TermWritesCount("ssi")
      <4>1. TermGoes("ssi", "children")
        BY <1>0, <1>5, <3>3 DEF TermWritesCount
      <4> QED BY <4>1
    <3> QED BY <1>9, <3>1, <3>2, <3>3
  <2> QED BY <1>8, <2>1, <2>2
<1>10. CASE TermOutIO("ssi")
  <2>1. PICK qc, w : /\ qc = "countRead" /\ w = (\E d \in Device : v \in ToSet(pcb_blocked_on_device[d]))
                     /\ frame' = [frame EXCEPT !["ssi"].pc = qc, !["ssi"].was_blocked = w]
    BY <1>0, <1>10 DEF TermOutIO
  <2>2. PICK h : h = [f EXCEPT !.pc = qc]
    OBVIOUS
  <2>3. PICK g : g = [h EXCEPT !.was_blocked = w]
    OBVIOUS
  <2>4. g.pc = "countRead" /\ g.was_blocked = w
    BY <1>5, <2>1, <2>2, <2>3 DEF FrameOf
  <2>5. frame' = [frame EXCEPT !["ssi"] = g]
    BY <1>0, <1>2, <1>5, <2>1, <2>2, <2>3
  <2>6. ~w
    BY <1>4, <2>1 DEF At
  <2>7. UNCHANGED <<pcbFree, softblock_count, blocked, do_io, call>>
    BY <1>10 DEF TermOutIO, ipcVars, procVars, msgVars
  <2> QED BY <1>7, <2>4, <2>5, <2>6, <2>7
<1>11. CASE TermReadsCount("ssi")
  <2>1. PICK qc, n : /\ qc = "countWrite" /\ n = Dec(process_count)
                     /\ frame' = [frame EXCEPT !["ssi"].pc = qc, !["ssi"].tmp = n]
    BY <1>11 DEF TermReadsCount
  <2>2. PICK h : h = [f EXCEPT !.pc = qc]
    OBVIOUS
  <2>3. PICK g : g = [h EXCEPT !.tmp = n]
    OBVIOUS
  <2>4. g.pc = "countWrite" /\ g.was_blocked = f.was_blocked
    BY <1>5, <2>1, <2>2, <2>3 DEF FrameOf
  <2>5. frame' = [frame EXCEPT !["ssi"] = g]
    BY <1>0, <1>2, <1>5, <2>1, <2>2, <2>3
  <2>6. UNCHANGED <<pcbFree, softblock_count, blocked, do_io, call>>
    BY <1>11 DEF TermReadsCount, ipcVars, procVars, msgVars
  <2> QED BY <1>5, <1>7, <2>4, <2>5, <2>6
<1>12. ~TermReadsSoftblock("ssi") /\ ~TermWritesSoftblock("ssi")
  BY <1>0, <1>5 DEF TermReadsSoftblock, TermWritesSoftblock, TermAt
<1>13. CASE TermNextChild("ssi")
  <2>1. PICK c : Enter("ssi", c, st)
    BY <1>0, <1>13 DEF TermNextChild
  <2>2. PICK g : g = IF isPcbValid(c)
                     THEN [NoFrame EXCEPT !.pc = "outChild", !.stack = <<c>> \o st]
                     ELSE Resume(st)
    OBVIOUS
  <2>3. frame' = [frame EXCEPT !["ssi"] = g]
    BY <2>1, <2>2 DEF Enter
  <2>4. ~g.was_blocked /\ g.pc \notin {"softRead", "softWrite"}
    BY <2>2 DEF NoFrame, Resume
  <2>5. UNCHANGED <<pcbFree, softblock_count, blocked, do_io, call>>
    BY <1>13 DEF TermNextChild, procVars, msgVars
  <2> QED BY <1>7, <2>3, <2>4, <2>5
<1>14. CASE TermFrees("ssi")
  <2>1. /\ pcbFree' = <<v>> \o pcbFree /\ blocked' = blocked \ {v} /\ call' = [call EXCEPT ![v] = NoCall]
        /\ UNCHANGED <<do_io, softblock_count>> /\ pcbFree \in Seq(Pcb) /\ blocked \in SUBSET Pcb
        /\ call \in [Pcb -> Request \cup {NoCall, Receiving}]
    BY <1>0, <1>2, <1>14 DEF TermFrees, Base, TypeOK, ServiceTypes
  <2>2. PICK g : g = Resume(Tail(st))
    OBVIOUS
  <2>3. frame' = [frame EXCEPT !["ssi"] = g]
    BY <1>0, <1>14, <2>2 DEF TermFrees
  <2>4. ~g.was_blocked /\ g.pc \notin {"softRead", "softWrite"}
    BY <2>2 DEF NoFrame, Resume
  <2>5. frame'["ssi"] = g /\ frame'["nucleus"] = NoFrame
    BY <1>6, <2>3
  <2>6. SoftFrames' /\ Past("nucleus", {"children"}) = {} /\ Past("nucleus", {"children"})' = {}
    BY <1>2, <1>5, <2>4, <2>5, IdleNucleus
  <2>7. \A x \in Pcb \ {v} : Soft(x)' <=> Soft(x)
    BY <2>1 DEF Soft
  <2>8. SoftCounted' = SoftCounted
    BY <1>3, <2>1, <2>6, <2>7 DEF SoftCounted
  <2>9. Live' = Live \ {v}
    <3>1. ToSet(<<v>> \o pcbFree) = {v} \cup ToSet(pcbFree)
      BY <1>2, <2>1, Push
    <3> QED BY <2>1, <3>1 DEF Live
  <2>10. \A x \in Live' : do_io'[x] <=> Soft(x)'
    BY <2>1, <2>7, <2>9 DEF Softs, Live
  <2> QED BY <2>1, <2>6, <2>8, <2>10 DEF Softs
<1> QED BY <1>9, <1>10, <1>11, <1>12, <1>13, <1>14 DEF Terminate

(* terminate_process run by a trap.                                        *)
LEMMA TrapTerminatesSoft ==
    ASSUME Orderly, Heeded, Softs, Terminate("nucleus")
    PROVE  Softs'
<1>0. PICK v, st, f : v = Victim("nucleus") /\ st = frame["nucleus"].stack /\ f = frame["nucleus"]
  OBVIOUS
<1>1. PICK pc \in FramePc \ {"idle"} : TermAt("nucleus", pc)
  <2>1. {"outChild", "outReady", "outIO", "countRead", "countWrite", "softRead", "softWrite",
         "children"} \subseteq FramePc \ {"idle"}
    BY DEF FramePc
  <2> QED BY <2>1 DEF Terminate, TermOutChild, TermOutReady, TermOutIO, TermReadsCount,
                      TermWritesCount, TermReadsSoftblock, TermWritesSoftblock, TermNextChild, TermFrees
<1>2. /\ Base /\ Staged /\ Stacks /\ Family /\ "ssi" \in Actor /\ "nucleus" \in Actor
      /\ v \in User /\ v \in Pcb /\ v \in ToSet(st) /\ st \in Seq(Pcb) /\ st # <<>> /\ Once(st)
      /\ ssi_pcb_real \notin ToSet(st)
  <2>1. "nucleus" \in Actor
    BY DEF Actor
  <2>2. Base /\ Staged /\ Stacks /\ Family
    BY DEF Orderly
  <2>3. GoodFrame(frame["nucleus"])
    BY <1>1, <2>1, <2>2, TermActs
  <2> QED BY <1>0, <1>1, <2>1, <2>2, <2>3, TermActs DEF Actor, User, Stacks, GoodFrame
<1>3. Soft(v) => v \in blocked
  BY <1>0, <1>1, <1>2, SoftVictims
<1>4. v \in Live
  <2>1. PICK doom \in [Pcb -> Pcb \cup {NULL}] : Doomed(doom)
    BY DEF Orderly
  <2>2. PICK o : Owns(doom, "nucleus", o)
    BY <1>1, <1>2, <2>1, TermOwner
  <2> QED BY <1>0, <1>2, <2>2 DEF Owns, Stack
<1>5. frame \in [Actor -> FrameOf] /\ f \in FrameOf /\ f.pc = pc /\ f.stack = st
  <2>1. frame \in [Actor -> FrameOf]
    BY <1>2 DEF Base, FrameType, FrameOf
  <2> QED BY <1>0, <1>1, <1>2, <2>1 DEF TermAt
<1>6. PICK T : T = ToSet(Tail(st))
  OBVIOUS
<1>7. Tail(st) \in Seq(Pcb) /\ T = ToSet(st) \ {v} /\ ssi_pcb_real \notin T /\ Head(st) = v
  BY <1>0, <1>2, <1>6, TailRange DEF Victim
<1>8. PICK K, P : K = {x \in blocked : Soft(x)} /\ P = Past("nucleus", {"children"})
  OBVIOUS
<1>9. /\ P = (IF pc = "children" THEN ToSet(st) ELSE T) /\ SoftCounted = K \ P
      /\ softblock_count = Cardinality(K \ P) /\ K \in SUBSET Pcb
  BY <1>2, <1>5, <1>6, <1>0, <1>8 DEF Past, Below, Stack, SoftCounted, Softs, Base, TypeOK
<1>10. ASSUME NEW g, frame' = [frame EXCEPT !["nucleus"] = g]
       PROVE  frame'["nucleus"] = g /\ frame'["ssi"] = frame["ssi"]
  BY <1>2, <1>5, <1>10
(* A step that leaves the victim and the processes alone.                  *)
<1>11. ASSUME NEW g, frame' = [frame EXCEPT !["nucleus"] = g], g.stack = st,
              UNCHANGED <<pcbFree, blocked, do_io, call>>,
              pc # "children",
              softblock_count' = Cardinality(K \ (IF g.pc = "children" THEN ToSet(st) ELSE T)),
              g.pc \in {"outChild", "outReady", "outIO"} /\ Soft(v) => At("device", v)',
              g.pc \in {"countRead", "countWrite"} /\ Soft(v) => g.was_blocked,
              g.pc = "softWrite" => g.tmp = IF Soft(v) THEN Dec(softblock_count') ELSE softblock_count'
       PROVE  Softs'
  <2>1. frame'["nucleus"] = g /\ frame'["ssi"] = frame["ssi"]
    BY <1>10, <1>11
  <2>2. Victim("nucleus")' = v /\ (\A x : Soft(x)' <=> Soft(x)) /\ Live' = Live
    BY <1>7, <1>11, <2>1 DEF Victim, Soft, Live
  <2>3. Past("nucleus", {"children"})' = (IF g.pc = "children" THEN ToSet(st) ELSE T)
    BY <1>2, <1>6, <1>11, <2>1 DEF Past, Below, Stack
  <2>4. SoftCounted' = K \ (IF g.pc = "children" THEN ToSet(st) ELSE T)
    BY <1>8, <1>11, <2>2, <2>3 DEF SoftCounted
  <2>5. /\ ~frame'["ssi"].was_blocked /\ frame'["ssi"].pc \notin {"softRead", "softWrite"}
    BY <2>1 DEF Softs, SoftFrames
  <2>6. PICK w : w = Victim("nucleus")'
    OBVIOUS
  <2>7. Soft(w)' <=> Soft(v)
    BY <2>2, <2>6
  <2>8. SoftFrames'
    <3>1. /\ g.pc \in {"outChild", "outReady", "outIO"} /\ Soft(w)' => At("device", w)'
          /\ g.pc \in {"countRead", "countWrite"} /\ Soft(w)' => g.was_blocked
          /\ g.pc = "softWrite" => g.tmp = IF Soft(w)' THEN Dec(softblock_count') ELSE softblock_count'
      BY <1>11, <2>2, <2>6, <2>7
    <3> QED BY <2>1, <2>5, <2>6, <3>1 DEF SoftFrames, Soft, At
  <2>9. \A x \in Live' : do_io'[x] <=> Soft(x)'
    BY <1>11, <2>2 DEF Softs
  <2> QED BY <1>11, <2>4, <2>8, <2>9 DEF Softs
<1>12. ASSUME NEW qc, TermGoes("nucleus", qc)
       PROVE  \E g : /\ g.stack = st /\ g.pc = qc /\ g.was_blocked = f.was_blocked /\ g.tmp = f.tmp
                     /\ frame' = [frame EXCEPT !["nucleus"] = g]
  <2>1. PICK g : g = [f EXCEPT !.pc = qc]
    OBVIOUS
  <2>2. /\ g.stack = st /\ g.pc = qc /\ g.was_blocked = f.was_blocked /\ g.tmp = f.tmp
        /\ frame' = [frame EXCEPT !["nucleus"] = g]
    BY <1>0, <1>5, <1>12, <2>1 DEF FrameOf, TermGoes
  <2> QED BY <2>2
<1>13. CASE TermOutChild("nucleus") \/ TermOutReady("nucleus")
  <2>1. /\ UNCHANGED <<pcbFree, blocked, do_io, call, softblock_count, pcb_blocked_on_device>>
        /\ pc \in {"outChild", "outReady"}
    BY <1>0, <1>5, <1>13 DEF TermOutChild, TermOutReady, TermAt, ipcVars, procVars, msgVars, listVars
  <2>2. PICK qc : qc \in {"outReady", "outIO"} /\ TermGoes("nucleus", qc)
    BY <1>13 DEF TermOutChild, TermOutReady
  <2>3. PICK g : g.stack = st /\ g.pc = qc /\ frame' = [frame EXCEPT !["nucleus"] = g]
    BY <1>12, <2>2
  <2>4. Soft(v) => At("device", v)
    BY <1>0, <1>5, <2>1 DEF Softs, SoftFrames
  <2>5. At("device", v)' <=> At("device", v)
    BY <2>1 DEF At
  <2>6. softblock_count' = Cardinality(K \ T)
    BY <1>9, <2>1
  <2>7. g.pc \in {"outReady", "outIO"}
    BY <2>2, <2>3
  <2>8. UNCHANGED <<pcbFree, blocked, do_io, call>> /\ pc # "children"
    BY <2>1
  <2> QED BY <1>11, <2>3, <2>4, <2>5, <2>6, <2>7, <2>8
<1>14. CASE TermOutIO("nucleus")
  <2>1. PICK qc, w : /\ qc = "countRead" /\ w = (\E d \in Device : v \in ToSet(pcb_blocked_on_device[d]))
                     /\ frame' = [frame EXCEPT !["nucleus"].pc = qc, !["nucleus"].was_blocked = w]
    BY <1>0, <1>14 DEF TermOutIO
  <2>2. PICK h : h = [f EXCEPT !.pc = qc]
    OBVIOUS
  <2>3. PICK g : g = [h EXCEPT !.was_blocked = w]
    OBVIOUS
  <2>4. g.pc = "countRead" /\ g.was_blocked = w /\ g.stack = st
    BY <1>5, <2>1, <2>2, <2>3 DEF FrameOf
  <2>5. frame' = [frame EXCEPT !["nucleus"] = g]
    BY <1>0, <1>2, <1>5, <2>1, <2>2, <2>3
  <2>6. pc = "outIO"
    BY <1>0, <1>5, <1>14 DEF TermOutIO, TermAt
  <2>7. UNCHANGED <<pcbFree, softblock_count, blocked, do_io, call>>
    BY <1>14 DEF TermOutIO, ipcVars, procVars, msgVars
  <2>8. Soft(v) => w
    <3>1. Soft(v) => At("device", v)
      BY <1>0, <1>5, <2>6 DEF Softs, SoftFrames
    <3>2. At("device", v) => w
      BY <2>1 DEF At
    <3> QED BY <3>1, <3>2
  <2>9. softblock_count' = Cardinality(K \ T)
    BY <1>9, <2>6, <2>7
  <2> QED BY <1>11, <2>4, <2>5, <2>6, <2>7, <2>8, <2>9
<1>15. CASE TermReadsCount("nucleus")
  <2>1. PICK qc, n : /\ qc = "countWrite" /\ n = Dec(process_count)
                     /\ frame' = [frame EXCEPT !["nucleus"].pc = qc, !["nucleus"].tmp = n]
    BY <1>15 DEF TermReadsCount
  <2>2. PICK h : h = [f EXCEPT !.pc = qc]
    OBVIOUS
  <2>3. PICK g : g = [h EXCEPT !.tmp = n]
    OBVIOUS
  <2>4. g.pc = "countWrite" /\ g.was_blocked = f.was_blocked /\ g.stack = st
    BY <1>5, <2>1, <2>2, <2>3 DEF FrameOf
  <2>5. frame' = [frame EXCEPT !["nucleus"] = g]
    BY <1>0, <1>2, <1>5, <2>1, <2>2, <2>3
  <2>6. pc = "countRead"
    BY <1>0, <1>5, <1>15 DEF TermReadsCount, TermAt
  <2>7. UNCHANGED <<pcbFree, softblock_count, blocked, do_io, call>>
    BY <1>15 DEF TermReadsCount, ipcVars, procVars, msgVars
  <2>8. Soft(v) => f.was_blocked
    BY <1>0, <1>5, <2>6 DEF Softs, SoftFrames
  <2>9. softblock_count' = Cardinality(K \ T)
    BY <1>9, <2>6, <2>7
  <2> QED BY <1>11, <2>4, <2>5, <2>6, <2>7, <2>8, <2>9
<1>16. CASE TermWritesCount("nucleus")
  <2>1. /\ UNCHANGED <<pcbFree, blocked, do_io, call, softblock_count>> /\ pc = "countWrite"
        /\ TermGoes("nucleus", IF f.was_blocked THEN "softRead" ELSE "children")
    BY <1>0, <1>5, <1>16 DEF TermWritesCount, TermAt, msgVars
  <2>2. PICK g : /\ g.stack = st /\ g.pc = (IF f.was_blocked THEN "softRead" ELSE "children")
                 /\ frame' = [frame EXCEPT !["nucleus"] = g]
    BY <1>12, <2>1
  <2>3. Soft(v) => f.was_blocked
    BY <1>0, <1>5, <2>1 DEF Softs, SoftFrames
  <2>4. softblock_count' = Cardinality(K \ T)
    BY <1>9, <2>1
  <2>5. softblock_count' = Cardinality(K \ (IF g.pc = "children" THEN ToSet(st) ELSE T))
    <3>1. CASE f.was_blocked
      BY <2>2, <2>4, <3>1
    <3>2. CASE ~f.was_blocked
      <4>1. v \notin K
        BY <1>8, <2>3, <3>2
      <4>2. K \ ToSet(st) = K \ T
        BY <1>7, <4>1
      <4> QED BY <2>2, <2>4, <3>2, <4>2
    <3> QED BY <3>1, <3>2
  <2>6. g.pc \in {"softRead", "children"}
    BY <2>2
  <2>7. UNCHANGED <<pcbFree, blocked, do_io, call>> /\ pc # "children"
    BY <2>1
  <2> QED BY <1>11, <2>2, <2>5, <2>6, <2>7
<1>17. CASE TermReadsSoftblock("nucleus")
  <2>1. PICK qc, n : /\ qc = "softWrite"
                     /\ n = (IF do_io[v] THEN Dec(softblock_count) ELSE softblock_count)
                     /\ frame' = [frame EXCEPT !["nucleus"].pc = qc, !["nucleus"].tmp = n]
    BY <1>0, <1>17 DEF TermReadsSoftblock
  <2>2. PICK h : h = [f EXCEPT !.pc = qc]
    OBVIOUS
  <2>3. PICK g : g = [h EXCEPT !.tmp = n]
    OBVIOUS
  <2>4. g.pc = "softWrite" /\ g.tmp = n /\ g.stack = st
    BY <1>5, <2>1, <2>2, <2>3 DEF FrameOf
  <2>5. frame' = [frame EXCEPT !["nucleus"] = g]
    BY <1>0, <1>2, <1>5, <2>1, <2>2, <2>3
  <2>6. pc = "softRead"
    BY <1>0, <1>5, <1>17 DEF TermReadsSoftblock, TermAt
  <2>7. UNCHANGED <<pcbFree, softblock_count, blocked, do_io, call>>
    BY <1>17 DEF TermReadsSoftblock, ipcVars, procVars, msgVars
  <2>8. n = IF Soft(v) THEN Dec(softblock_count') ELSE softblock_count'
    BY <1>4, <2>1, <2>7 DEF Softs
  <2>9. softblock_count' = Cardinality(K \ T)
    BY <1>9, <2>6, <2>7
  <2>10. UNCHANGED <<pcbFree, blocked, do_io, call>> /\ pc # "children"
    BY <2>6, <2>7
  <2> QED BY <1>11, <2>4, <2>5, <2>8, <2>9, <2>10
<1>18. CASE TermWritesSoftblock("nucleus")
  <2>1. /\ UNCHANGED <<pcbFree, blocked, do_io, call>> /\ pc = "softWrite"
        /\ softblock_count' = f.tmp /\ TermGoes("nucleus", "children")
    BY <1>0, <1>5, <1>18 DEF TermWritesSoftblock, TermAt, procVars
  <2>2. PICK g : g.stack = st /\ g.pc = "children" /\ frame' = [frame EXCEPT !["nucleus"] = g]
    BY <1>12, <2>1
  <2>3. f.tmp = IF Soft(v) THEN Dec(softblock_count) ELSE softblock_count
    BY <1>0, <1>5, <2>1 DEF Softs, SoftFrames
  <2>4. PICK D : D = K \ T
    OBVIOUS
  <2>5. D \in SUBSET Pcb /\ softblock_count = Cardinality(D) /\ K \ ToSet(st) = D \ {v}
        /\ (Soft(v) <=> v \in D)
    BY <1>2, <1>3, <1>7, <1>8, <1>9, <2>1, <2>4
  <2>6. softblock_count' = Cardinality(D \ {v})
    <3>1. CASE v \in D
      <4>1. Cardinality(D \ {v}) = Cardinality(D) - 1 /\ Cardinality(D) > 0
        BY <2>5, <3>1, PcbSets
      <4> QED BY <2>1, <2>3, <2>5, <3>1, <4>1 DEF Dec
    <3>2. CASE v \notin D
      <4>1. D \ {v} = D
        BY <3>2
      <4> QED BY <2>1, <2>3, <2>5, <3>2, <4>1
    <3> QED BY <3>1, <3>2
  <2>7. softblock_count' = Cardinality(K \ ToSet(st))
    BY <2>5, <2>6
  <2>8. UNCHANGED <<pcbFree, blocked, do_io, call>> /\ pc # "children"
    BY <2>1
  <2> QED BY <1>11, <2>2, <2>7, <2>8
(* The victim changes.                                                     *)
<1>19. CASE TermNextChild("nucleus")
  <2>1. PICK c : c = Head(p_child[v])
    OBVIOUS
  <2>2. Enter("nucleus", c, st) /\ p_child[v] # <<>> /\ p_child[v] \in Seq(Pcb) /\ Once(p_child[v])
        /\ pc = "children" /\ TermAt("nucleus", "children")
    BY <1>0, <1>2, <1>5, <1>19, <2>1 DEF TermNextChild, TermAt, Base, ServiceTypes, Family
  <2>3. c \in Children(v)
    BY <2>1, <2>2, TailRange DEF Children
  <2>4. c \in Live /\ c \in Pcb
    BY <1>2, <2>3 DEF Family, Live
  <2>5. PICK g : g = [NoFrame EXCEPT !.pc = "outChild", !.stack = <<c>> \o st]
    OBVIOUS
  <2>6. frame' = [frame EXCEPT !["nucleus"] = g]
    BY <2>2, <2>4, <2>5 DEF Enter, isPcbValid
  <2>7. frame'["nucleus"] = g /\ frame'["ssi"] = frame["ssi"]
    BY <1>10, <2>6
  <2>8. g.pc = "outChild" /\ g.stack = <<c>> \o st
    BY <2>5 DEF NoFrame
  <2>9. <<c>> \o st # <<>> /\ Tail(<<c>> \o st) = st /\ Head(<<c>> \o st) = c
    BY <1>2, <2>4, Push
  <2>10. /\ UNCHANGED <<pcbFree, blocked, do_io, call, softblock_count, pcb_blocked_on_device>>
    BY <1>19 DEF TermNextChild, procVars, msgVars, listVars
  <2>11. Victim("nucleus")' = c /\ (\A x : Soft(x)' <=> Soft(x)) /\ Live' = Live
         /\ (At("device", c)' <=> At("device", c))
    BY <2>7, <2>8, <2>9, <2>10 DEF Victim, Soft, Live, At
  <2>12. Past("nucleus", {"children"})' = ToSet(st)
    BY <2>7, <2>8, <2>9 DEF Past, Below
  <2>13. SoftCounted' = SoftCounted
    BY <1>8, <1>9, <2>2, <2>10, <2>11, <2>12 DEF SoftCounted
  <2>14. Soft(c) => At("device", c)
    BY <1>0, <2>2, <2>3, NextVictimSoft
  <2>15. SoftFrames'
    <3>1. ~frame'["ssi"].was_blocked /\ frame'["ssi"].pc \notin {"softRead", "softWrite"}
      BY <2>7 DEF Softs, SoftFrames
    <3>2. PICK w : w = Victim("nucleus")'
      OBVIOUS
    <3>3. w = c /\ (Soft(w)' => At("device", w)')
      BY <2>11, <2>14, <3>2
    <3> QED BY <2>7, <2>8, <3>1, <3>2, <3>3 DEF SoftFrames, Soft, At
  <2>16. \A x \in Live' : do_io'[x] <=> Soft(x)'
    BY <2>10, <2>11 DEF Softs
  <2> QED BY <2>10, <2>13, <2>15, <2>16 DEF Softs
<1>20. CASE TermFrees("nucleus")
  <2>1. /\ pcbFree' = <<v>> \o pcbFree /\ blocked' = blocked \ {v} /\ call' = [call EXCEPT ![v] = NoCall]
        /\ UNCHANGED <<do_io, softblock_count>> /\ pcbFree \in Seq(Pcb) /\ blocked \in SUBSET Pcb
        /\ call \in [Pcb -> Request \cup {NoCall, Receiving}] /\ pc = "children"
    BY <1>0, <1>2, <1>5, <1>20 DEF TermFrees, TermAt, Base, TypeOK, ServiceTypes
  <2>2. PICK rest, g : rest = Tail(st) /\ g = Resume(rest)
    OBVIOUS
  <2>3. frame' = [frame EXCEPT !["nucleus"] = g]
    BY <1>0, <1>20, <2>2 DEF TermFrees
  <2>4. frame'["nucleus"] = g /\ frame'["ssi"] = frame["ssi"]
    BY <1>10, <2>3
  <2>5. g.pc \in {"children", "idle"} /\ g.stack = rest /\ (g.pc = "idle" => rest = <<>>)
    BY <2>2 DEF NoFrame, Resume
  <2>6. SoftFrames'
    <3>1. ~frame'["ssi"].was_blocked /\ frame'["ssi"].pc \notin {"softRead", "softWrite"}
      BY <2>4 DEF Softs, SoftFrames
    <3> QED BY <2>4, <2>5, <3>1 DEF SoftFrames
  <2>7. Past("nucleus", {"children"})' = T
    BY <1>6, <2>2, <2>4, <2>5, NoQueue DEF Past, Below, Stack
  <2>8. \A x \in Pcb \ {v} : Soft(x)' <=> Soft(x)
    BY <2>1 DEF Soft
  <2>9. SoftCounted' = K \ ToSet(st)
    <3>1. SoftCounted' = {x \in blocked \ {v} : Soft(x)'} \ T
      BY <2>1, <2>7 DEF SoftCounted
    <3> QED BY <1>2, <1>7, <1>8, <2>1, <2>8, <3>1
  <2>10. Live' = Live \ {v}
    <3>1. ToSet(<<v>> \o pcbFree) = {v} \cup ToSet(pcbFree)
      BY <1>2, <2>1, Push
    <3> QED BY <2>1, <3>1 DEF Live
  <2>11. \A x \in Live' : do_io'[x] <=> Soft(x)'
    BY <2>1, <2>8, <2>10 DEF Softs, Live
  <2>12. softblock_count' = Cardinality(SoftCounted')
    BY <1>9, <2>1, <2>9
  <2> QED BY <2>6, <2>11, <2>12 DEF Softs
<1> QED BY <1>13, <1>14, <1>15, <1>16, <1>17, <1>18, <1>19, <1>20 DEF Terminate

LEMMA TrapsSoft ==
    ASSUME Orderly, Softs, NEW p \in Pcb, Traps(p)
    PROVE  Softs'
<1>1. /\ Base /\ frame["nucleus"] = NoFrame /\ "nucleus" \in Actor /\ "ssi" \in Actor
      /\ p # ssi_pcb_real /\ p \in Live /\ call[p] = NoCall /\ frame \in [Actor -> FrameOf]
  <2>1. frame \in [Actor -> FrameOf]
    BY DEF Orderly, Base, FrameType, FrameOf
  <2>2. p \in Live
    BY DEF Orderly, Base, Places, CpuWorks, Traps, Client, Running
  <2> QED BY <2>1, <2>2 DEF Orderly, Base, Frames, Traps, Client, Running, Actor
<1>2. PICK g : g = [NoFrame EXCEPT !.pc = "outChild", !.stack = <<p>> \o <<>>]
  OBVIOUS
<1>3. frame' = [frame EXCEPT !["nucleus"] = g]
  BY <1>1, <1>2 DEF Traps, Enter, isPcbValid
<1>4. frame'["nucleus"] = g /\ frame'["ssi"] = frame["ssi"]
  BY <1>1, <1>3
<1>5. g.pc = "outChild" /\ g.stack = <<p>>
  BY <1>2 DEF NoFrame
<1>6. UNCHANGED <<pcbFree, softblock_count, blocked, do_io, call>>
  BY DEF Traps, procVars, msgVars
<1>7. \A x : Soft(x)' <=> Soft(x)
  BY <1>6 DEF Soft
<1>8. ~Soft(p)
  BY <1>1, SoftOps
<1>9. Victim("nucleus")' = p
  BY <1>4, <1>5 DEF Victim
<1>10. SoftFrames'
  <2>1. ~frame'["ssi"].was_blocked /\ frame'["ssi"].pc \notin {"softRead", "softWrite"}
    BY <1>4 DEF Softs, SoftFrames
  <2>2. ~Soft(Victim("nucleus"))'
    BY <1>7, <1>8, <1>9
  <2> QED BY <1>4, <1>5, <2>1, <2>2 DEF SoftFrames
<1>11. SoftCounted' = SoftCounted
  <2>1. Past("nucleus", {"children"}) = {}
    BY <1>1, GoodNoFrame DEF Past, Below
  <2>2. Past("nucleus", {"children"})' = {}
    <3>1. frame'["nucleus"].pc = "outChild" /\ Tail(frame'["nucleus"].stack) = <<>>
      BY <1>4, <1>5
    <3> QED BY <3>1, NoQueue DEF Past, Below
  <2> QED BY <1>6, <1>7, <2>1, <2>2 DEF SoftCounted
<1>12. \A x \in Live' : do_io'[x] <=> Soft(x)'
  BY <1>6, <1>7 DEF Softs, Live
<1> QED BY <1>6, <1>10, <1>11, <1>12 DEF Softs

LEMMA InitSofts == Init => Softs
<1>1. SUFFICES ASSUME Init PROVE Softs
  OBVIOUS
<1>2. /\ softblock_count = 0 /\ blocked = {} /\ frame["nucleus"] = NoFrame /\ frame["ssi"] = NoFrame
      /\ \A p \in Pcb : call[p] = NoCall /\ ~do_io[p]
  BY <1>1 DEF Init, Actor
<1>3. SoftFrames
  BY <1>2, GoodNoFrame DEF SoftFrames, NoFrame
<1>4. SoftCounted = {}
  BY <1>2 DEF SoftCounted
<1>5. Cardinality(SoftCounted) = 0
  BY <1>4, FS_EmptySet
<1>6. \A p \in Live : do_io[p] <=> Soft(p)
  BY <1>2, SoftOps DEF Live
<1> QED BY <1>2, <1>3, <1>5, <1>6 DEF Softs

LEMMA NextSofts ==
    ASSUME Liberty = {}, Orderly, Heeded, Softs, msgFree > 0, [Next]_vars
    PROVE  Softs'
<1>1. CASE SsiReceives
  BY <1>1, ReceivingSoft
<1>2. CASE Create
  BY <1>2, WorksSoft, RepliesSoft DEF Create
<1>3. CASE \/ DoIoQueues \/ DoIoCommands \/ DoIoAnswers \/ WaitForClock \/ ClockAnswers
           \/ SsiTerminates
  BY <1>3, WorksSoft
<1>4. ASSUME NEW a \in Actor, Terminate(a)  PROVE Softs'
  BY <1>4, SsiTerminatingSoft, TrapTerminatesSoft DEF Actor
<1>5. CASE TermReplies \/ DoIoReplies \/ ClockReplies \/ GetTimeReplies
  BY <1>5, RepliesSoft
<1>6. ASSUME NEW p \in Pcb, ClientStep(p)  PROVE Softs'
  <2>1. ASSUME NEW req \in [op : Services \cap SsiOp, arg : Address \cup Device], Requests(p, req)
        PROVE  Softs'
    BY <2>1, RequestsSoft
  <2>2. CASE Awaits(p) \/ Receives(p)
    BY <2>2, ReceivingSoft
  <2>3. CASE Traps(p)
    BY <2>3, TrapsSoft
  <2>4. ASSUME NEW to, Sends(p, to)  PROVE Softs'
    BY <2>4, SendsSoft
  <2> QED BY <1>6, <2>1, <2>2, <2>3, <2>4 DEF ClientStep
<1>7. ASSUME NEW d \in Device, DeviceInterrupt(d)  PROVE Softs'
  BY <1>7, InterruptsSoft DEF DeviceInterrupt
<1>8. CASE ClockInterrupt
  BY <1>8, InterruptsSoft DEF ClockInterrupt
<1>9. CASE TrapEnds \/ SliceEnds \/ Halted \/ UNCHANGED vars
  BY <1>9, OthersSoft
<1> QED BY <1>1, <1>2, <1>3, <1>4, <1>5, <1>6, <1>7, <1>8, <1>9 DEF Next, SsiStep, Actor

(* SoftblockCount: softblock_count is the number of processes that wait    *)
(* for a device or for the interval timer whenever no termination is under *)
(* way, for programs that keep the discipline, as long as the message pool *)
(* is not exhausted.  (A request that finds no free message does not mark  *)
(* its sender, which then blocks without being counted.)                   *)
THEOREM SoftblockCountInvariance ==
    ASSUME Liberty = {} PROVE Spec /\ [](msgFree > 0) => []SoftblockCount
<1>1. Init => Orderly /\ Heeded /\ Softs
  BY InitOrderly, InitHeeded, InitSofts
<1>2. Orderly /\ Heeded /\ Softs /\ msgFree > 0 /\ [Next]_vars => Orderly' /\ Heeded' /\ Softs'
  BY NextOrderly, NextHeeds, NextSofts
<1>3. Orderly /\ Softs => SoftblockCount
  <2>1. SUFFICES ASSUME Orderly, Softs, \A a \in Actor : frame[a] = NoFrame
                 PROVE  softblock_count = Cardinality(SoftBlocked)
    BY DEF SoftblockCount
  <2>2. Past("nucleus", {"children"}) = {}
    BY <2>1, GoodNoFrame DEF Past, Below, Actor
  <2>3. SoftCounted = SoftBlocked
    BY <2>2 DEF SoftCounted, SoftBlocked, Soft
  <2> QED BY <2>1, <2>3 DEF Softs
<1> QED BY <1>1, <1>2, <1>3, PTL DEF Spec
-----------------------------------------------------------------------------
(* WAIT.                                                                   *)

Report(d) == [sender |-> INTERRUPT_HANDLER_MSG, payload |-> [op |-> "IODONE", arg |-> d]]

(* A device at work will report, has reported, or is about to get its      *)
(* command.                                                                *)
Attending(d) ==
    \/ ssi.pc = "dispatch" /\ received[ssi_pcb_real] = Report(d)
    \/ ssi.pc = "command" /\ Asked = [op |-> "DOIO", arg |-> d]
Attended(d) == d \in busy \/ Report(d) \in ToSet(msg_inbox[ssi_pcb_real]) \/ Attending(d)
Attendance == \A d \in Device : pcb_blocked_on_device[d] # <<>> => Attended(d)

(* Nobody sleeps over a message it waits for.                              *)
Listening ==
    /\ ssi_pcb_real \in blocked => msg_inbox[ssi_pcb_real] = <<>>
    /\ \A p \in User : p \in blocked /\ call[p].op \in SsiOp => Replied(p) = {}

OneUser == \A p, q \in Pcb : call[p].op = "DOIO" /\ call[p] = call[q] => p = q
WaitsForSome == cpu = "wait" => ready_queue = <<>> /\ softblock_count > 0
Waits == Attendance /\ Listening /\ OneUser /\ WaitsForSome

LEMMA SchedulerWaits ==
    ASSUME NEW cur, NEW ready, Scheduler(cur, ready)
    PROVE  WaitsForSome'
BY DEF Scheduler, Idle, WaitsForSome

LEMMA AwakeWaits ==
    ASSUME cpu' # "wait"
    PROVE  WaitsForSome'
BY DEF WaitsForSome

LEMMA NextWaitsForSome ==
    ASSUME Base, WaitsForSome, [Next]_vars
    PROVE  WaitsForSome'
<1>1. CASE SsiReceives \/ \E p \in Pcb : Awaits(p) \/ Receives(p)
  <2>1. \E p, src : SysReceive(p, src)
    BY <1>1 DEF SsiReceives, Awaits, Receives
  <2> QED BY <2>1, SchedulerWaits DEF SysReceive, ReceivePops, ReceiveBlocks
<1>2. CASE \/ CreateAllocates \/ CreateInsertsChild \/ CreateInsertsReady \/ CreateReadsCount
           \/ CreateWritesCount \/ DoIoQueues \/ DoIoCommands \/ DoIoAnswers \/ WaitForClock
           \/ ClockAnswers
  <2>1. cpu = "run" /\ cpu' = cpu
    BY <1>2 DEF CreateAllocates, CreateInsertsChild, CreateInsertsReady, CreateReadsCount,
           CreateWritesCount, DoIoQueues, DoIoCommands, DoIoAnswers, WaitForClock, ClockAnswers,
           Serving, SsiAt, Running, keepCpu, cpuVars, ipcVars
  <2> QED BY <2>1, AwakeWaits
<1>3. CASE SsiTerminates \/ \E p \in Pcb : Traps(p)
  <2>1. cpu = "run"
    BY <1>3 DEF SsiTerminates, Traps, Client, Serving, SsiAt, Running
  <2>2. cpu' \in {"run", "panic", "kernel"}
    BY <1>3, <2>1 DEF SsiTerminates, Traps, Enter
  <2> QED BY <2>2, AwakeWaits
<1>4. ASSUME NEW a \in Actor, Terminate(a)  PROVE WaitsForSome'
  <2>1. cpu \in {"run", "kernel"}
    BY <1>4 DEF Terminate, TermOutChild, TermOutReady, TermOutIO, TermReadsCount,
                TermWritesCount, TermReadsSoftblock, TermWritesSoftblock, TermNextChild, TermFrees,
                TermAt, Acts, Running
  <2>2. CASE TermNextChild(a)
    BY <2>1, <2>2, AwakeWaits DEF TermNextChild, Enter
  <2>3. CASE ~TermNextChild(a)
    <3>1. cpu' = cpu
      BY <1>4, <2>3 DEF Terminate, TermOutChild, TermOutReady, TermOutIO, TermReadsCount,
                TermWritesCount, TermReadsSoftblock, TermWritesSoftblock, TermFrees,
                ipcVars, cpuVars, keepCpu
    <3> QED BY <2>1, <3>1, AwakeWaits
  <2> QED BY <2>2, <2>3
<1>5. CASE CreateReplies \/ DoIoReplies \/ ClockReplies \/ GetTimeReplies \/ TermReplies
  <2>1. cpu = "run"
    BY <1>5, Replies DEF Running
  <2>2. ASSUME NEW dest, NEW op, NEW arg, SsiSends(dest, op, arg)  PROVE WaitsForSome'
    BY <2>2, SchedulerWaits DEF SsiSends, SysSend
  <2>3. CASE UNCHANGED <<ipcVars, listVars, busy, frame, call>>
    BY <2>1, <2>3, AwakeWaits DEF ipcVars, cpuVars
  <2> QED BY <1>5, <2>2, <2>3, Replies
<1>6. ASSUME NEW p \in Pcb, ClientStep(p), ~Traps(p), ~Awaits(p), ~Receives(p)
      PROVE  WaitsForSome'
  <2>1. \E to, load : SysSend(p, to, load)
    BY <1>6 DEF ClientStep, Requests, Sends
  <2> QED BY <2>1, SchedulerWaits DEF SysSend
<1>7. CASE (\E d \in Device : DeviceInterrupt(d)) \/ ClockInterrupt \/ SliceEnds \/ TrapEnds
  BY <1>7, SchedulerWaits DEF DeviceInterrupt, ClockInterrupt, Interrupt, SliceEnds, PltInterrupt, TrapEnds
<1>8. CASE Halted \/ UNCHANGED vars
  BY <1>8 DEF Halted, Stopped, vars, ipcVars, cpuVars, msgVars, WaitsForSome
<1>9. ASSUME NEW p \in Pcb, ClientStep(p)  PROVE WaitsForSome'
  BY <1>1, <1>3, <1>6, <1>9
<1> QED BY <1>1, <1>2, <1>3, <1>4, <1>5, <1>7, <1>8, <1>9 DEF Next, SsiStep, Create, Actor

LEMMA NextOneUser ==
    ASSUME Base, OneUser, [Next]_vars
    PROVE  OneUser'
<1>1. call \in [Pcb -> Request \cup {NoCall, Receiving}]
  BY DEF Base, ServiceTypes
<1>2. ASSUME \A p \in Pcb : call'[p] = call[p] \/ call'[p].op # "DOIO"  PROVE OneUser'
  BY <1>2 DEF OneUser
<1>3. NoCall.op # "DOIO" /\ Receiving.op # "DOIO"
  BY DEF NoCall, Receiving
<1>4. ASSUME NEW p \in Pcb, NEW c \in {NoCall, Receiving}, call' = [call EXCEPT ![p] = c]
      PROVE  OneUser'
  BY <1>1, <1>2, <1>3, <1>4
<1>5. ASSUME UNCHANGED call  PROVE OneUser'
  BY <1>2, <1>5
<1>6. ASSUME NEW dest, NEW sender, EndsCall(dest, sender)  PROVE OneUser'
  BY <1>4, <1>5, <1>6 DEF EndsCall, isPcbValid, Live
<1>7. CASE \/ SsiReceives \/ CreateAllocates \/ CreateInsertsChild \/ CreateInsertsReady
           \/ CreateReadsCount \/ CreateWritesCount \/ DoIoQueues \/ DoIoCommands \/ DoIoAnswers
           \/ WaitForClock \/ ClockAnswers \/ SsiTerminates
  BY <1>5, <1>7 DEF SsiReceives, CreateAllocates, CreateInsertsChild, CreateInsertsReady,
           CreateReadsCount, CreateWritesCount, DoIoQueues, DoIoCommands, DoIoAnswers, WaitForClock,
           ClockAnswers, SsiTerminates
<1>8. CASE CreateReplies \/ DoIoReplies \/ ClockReplies \/ GetTimeReplies \/ TermReplies
  BY <1>5, <1>6, <1>8, Replies DEF SsiSends
<1>9. ASSUME NEW a \in Actor, Terminate(a)  PROVE OneUser'
  <2>1. CASE TermFrees(a)
    <3>1. PICK v : v = Victim(a) /\ call' = [call EXCEPT ![v] = NoCall]
      BY <2>1 DEF TermFrees
    <3> QED BY <1>1, <1>2, <1>3, <3>1
  <2>2. CASE ~TermFrees(a)
    BY <1>5, <1>9, <2>2 DEF Terminate, TermOutChild, TermOutReady, TermOutIO, TermReadsCount,
         TermWritesCount, TermReadsSoftblock, TermWritesSoftblock, TermNextChild
  <2> QED BY <2>1, <2>2
<1>10. ASSUME NEW p \in Pcb, ClientStep(p)  PROVE OneUser'
  <2>1. ASSUME NEW req, Requests(p, req)  PROVE OneUser'
    <3>1. call' = [call EXCEPT ![p] = req] /\ MayRequest(p, req)
      BY <2>1 DEF Requests
    <3>2. req.op = "DOIO" => \A q \in Pcb \ {p} : call[q] # req
      BY <3>1 DEF MayRequest
    <3> QED BY <1>1, <3>1, <3>2 DEF OneUser
  <2>2. CASE Awaits(p)
    BY <1>4, <1>5, <2>2 DEF Awaits
  <2>3. CASE Receives(p)
    BY <1>4, <2>3 DEF Receives
  <2>4. ASSUME NEW to, Sends(p, to)  PROVE OneUser'
    BY <1>6, <2>4 DEF Sends
  <2>5. CASE Traps(p)
    BY <1>5, <2>5 DEF Traps
  <2> QED BY <1>10, <2>1, <2>2, <2>3, <2>4, <2>5 DEF ClientStep
<1>11. CASE \/ \E d \in Device : DeviceInterrupt(d)
            \/ ClockInterrupt \/ SliceEnds \/ TrapEnds \/ Halted \/ UNCHANGED vars
  BY <1>5, <1>11 DEF DeviceInterrupt, ClockInterrupt, SliceEnds, TrapEnds, Halted, vars
<1> QED BY <1>7, <1>8, <1>9, <1>10, <1>11 DEF Next, SsiStep, Create, Actor

(* Messages.                                                               *)
LEMMA SentListens ==
    ASSUME Base, Places, Waiting, Listening, msgFree > 0,
           NEW dest \in Live, NEW m \in Message, NEW ready, Sent(dest, m, ready),
           \A p \in User : p \in blocked => call'[p] = call[p] \/ call'[p].op \notin SsiOp
    PROVE  Listening'
<1> DEFINE S == ssi_pcb_real
<1>1. S \in Pcb /\ msg_inbox \in [Pcb -> Seq(Message)] /\ dest \in Pcb /\ Base
  BY Names DEF Base, TypeOK, Live
<1>2. Handed(dest, m, ready) \/ Queued(dest, m, ready)
  BY DEF Sent, Dropped, Base, TypeOK
<1>3. blocked' \subseteq blocked
  BY <1>2 DEF Handed, Queued
<1>4. S \in blocked' => msg_inbox'[S] = <<>>
  <2>1. SUFFICES ASSUME S \in blocked'  PROVE msg_inbox'[S] = <<>>
    OBVIOUS
  <2>2. S \in blocked /\ msg_inbox[S] = <<>>
    BY <1>3, <2>1 DEF Listening
  <2>3. Wakeable(S, m)
    BY <2>2 DEF Wakeable, Base, SsiPlaced, SsiServes
  <2>4. CASE dest = S
    BY <1>2, <2>1, <2>3, <2>4 DEF Handed, Queued
  <2>5. CASE dest # S
    BY <1>1, <1>2, <2>2, <2>5 DEF Handed, Queued
  <2> QED BY <2>4, <2>5
<1>5. ASSUME NEW p \in User, p \in blocked', call'[p].op \in SsiOp  PROVE Replied(p)' = {}
  <2>1. p \in Pcb /\ p # S /\ p \in blocked /\ call[p].op \in SsiOp
    BY <1>3, <1>5 DEF User
  <2>2. reg_a1[p] = SSI_FAKE_ADDR /\ p \notin Ready /\ p # current_process
    BY <2>1, CallOps DEF Waiting, WaitsFor, Places
  <2>3. PICK T : T = From(SSI_FAKE_ADDR)
    OBVIOUS
  <2>4. Among(msg_inbox[p], T) = {}
    BY <1>5, <2>1, <2>3 DEF Listening, Replied
  <2>5. p # dest \/ m \notin T \/ ~Queued(dest, m, ready)
    <3>1. SUFFICES ASSUME p = dest, m \in T, Queued(dest, m, ready)  PROVE FALSE
      OBVIOUS
    <3>2. m.sender = SSI_FAKE_ADDR
      BY <2>3, <3>1 DEF From
    <3>3. Wakeable(p, m)
      BY <2>2, <3>2 DEF Wakeable
    <3> QED BY <3>1, <3>3 DEF Queued
  <2>6. Among(msg_inbox'[p], T) = {}
    <3>1. Among(msg_inbox'[p], T) = Among(msg_inbox[p], T)
      BY <1>1, <2>1, <2>5, SentInbox
    <3> QED BY <2>4, <3>1
  <2> QED BY <2>3, <2>6 DEF Replied, From
<1> QED BY <1>4, <1>5 DEF Listening

LEMMA SentAttended ==
    ASSUME Base, Attendance, msgFree > 0, NEW dest \in Live, NEW m \in Message, NEW ready,
           Sent(dest, m, ready), UNCHANGED pcb_blocked_on_device,
           \A d : Attending(d) => ssi' = ssi,
           \A d \in busy \ busy' : dest = ssi_pcb_real /\ m = Report(d) /\ ssi' = ssi
    PROVE  Attendance'
<1> DEFINE S == ssi_pcb_real
<1>1. /\ S \in Pcb /\ msg_inbox \in [Pcb -> Seq(Message)] /\ dest \in Pcb /\ Base
      /\ received \in [Pcb -> Message \cup {NoMessage}] /\ INTERRUPT_HANDLER_MSG # NULL
  BY Names DEF Base, TypeOK, Live
<1>2. Handed(dest, m, ready) \/ Queued(dest, m, ready)
  BY DEF Sent, Dropped, Base, TypeOK
<1>3. /\ ToSet(msg_inbox[S]) \subseteq ToSet(msg_inbox'[S])
      /\ Queued(S, m, ready) => m \in ToSet(msg_inbox'[S])
  <2>1. ToSet(Append(msg_inbox[S], m)) = ToSet(msg_inbox[S]) \cup {m}
    BY <1>1, AppendRange
  <2>2. CASE dest = S
    <3>1. CASE Handed(dest, m, ready)
      BY <2>2, <3>1 DEF Handed, Queued
    <3>2. CASE Queued(dest, m, ready)
      BY <1>1, <2>1, <2>2, <3>2 DEF Queued
    <3> QED BY <1>2, <3>1, <3>2
  <2>3. CASE dest # S
    <3>1. msg_inbox'[S] = msg_inbox[S]
      BY <1>1, <1>2, <2>3 DEF Handed, Queued
    <3>2. ~(Queued(S, m, ready) /\ m \notin ToSet(msg_inbox'[S]))
      BY <1>1, <2>1 DEF Queued
    <3> QED BY <3>1, <3>2
  <2> QED BY <2>2, <2>3
<1>4. received'[S] = received[S] \/ (dest = S /\ Handed(S, m, ready) /\ received'[S] = m)
  BY <1>1, <1>2 DEF Handed, Queued
<1>5. ASSUME NEW d, Attending(d)  PROVE Attending(d)'
  <2>1. received'[S] = received[S]
    <3>1. SUFFICES ASSUME Wakeable(S, m)  PROVE FALSE
      BY <1>4 DEF Handed
    <3>2. ssi.pc = "dispatch" /\ Asker = NULL
      BY <1>1, <3>1, SsiWoken
    <3>3. received[S] = Report(d)
      BY <1>5, <3>2 DEF Attending
    <3> QED BY <1>1, <3>2, <3>3 DEF Asker, Report
  <2>2. ssi' = ssi
    BY <1>5
  <2> QED BY <1>5, <2>1, <2>2 DEF Attending, Asked, Report
<1>6. ASSUME NEW d \in busy \ busy'  PROVE Attended(d)'
  <2>1. dest = S /\ m = Report(d) /\ ssi' = ssi
    BY <1>6
  <2>2. CASE Queued(dest, m, ready)
    BY <1>3, <2>1, <2>2 DEF Attended, Report
  <2>3. CASE Handed(dest, m, ready)
    <3>1. Wakeable(S, m) /\ received'[S] = m
      BY <1>1, <2>1, <2>3 DEF Handed
    <3>2. ssi.pc = "dispatch"
      BY <1>1, <3>1, SsiWoken
    <3> QED BY <2>1, <3>1, <3>2 DEF Attended, Attending, Report
  <2> QED BY <1>2, <2>2, <2>3
<1>7. ASSUME NEW d, Report(d) \in ToSet(msg_inbox[S])  PROVE Attended(d)'
  BY <1>3, <1>7 DEF Attended, Report
<1>8. ASSUME NEW d \in Device, pcb_blocked_on_device'[d] # <<>>  PROVE Attended(d)'
  <2>1. Attended(d)
    BY <1>8 DEF Attendance
  <2>2. CASE d \in busy
    <3>1. CASE d \in busy'
      BY <3>1 DEF Attended
    <3> QED BY <1>6, <2>2, <3>1
  <2>3. CASE Attending(d)
    BY <1>5, <2>3 DEF Attended
  <2> QED BY <1>7, <2>1, <2>2, <2>3 DEF Attended
<1> QED BY <1>8 DEF Attendance

(* Nothing is sent.                                                        *)
LEMMA QuietListens ==
    ASSUME Listening, blocked' \subseteq blocked,
           msg_inbox'[ssi_pcb_real] = msg_inbox[ssi_pcb_real],
           \A p \in User : p \in blocked' => msg_inbox'[p] = msg_inbox[p] /\ call'[p] = call[p]
    PROVE  Listening'
<1>1. \A p \in User : p \in blocked' => Replied(p)' = Replied(p)
  BY DEF Replied, From
<1> QED BY <1>1 DEF Listening

LEMMA QuietAttended ==
    ASSUME Attendance, msg_inbox'[ssi_pcb_real] = msg_inbox[ssi_pcb_real],
           received'[ssi_pcb_real] = received[ssi_pcb_real], busy \subseteq busy',
           \A d : Attending(d) => ssi' = ssi,
           \A d \in Device : pcb_blocked_on_device'[d] # <<>> => pcb_blocked_on_device[d] # <<>>
    PROVE  Attendance'
<1>1. \A d : Attending(d) => Attending(d)'
  BY DEF Attending, Asked, Report
<1>2. \A d : Attended(d) => Attended(d)'
  BY <1>1 DEF Attended, Report
<1> QED BY <1>2 DEF Attendance

LEMMA RemoveAtKeeps ==
    ASSUME NEW T, NEW q \in Seq(T), NEW i \in DOMAIN q, NEW e \in ToSet(q), e # q[i]
    PROVE  e \in ToSet(RemoveAt(q, i))
<1>1. Len(q) \in Nat /\ DOMAIN q = 1..Len(q)
  BY LenProperties
<1>2. PICK k \in DOMAIN q : q[k] = e /\ k # i
  BY DEF ToSet
<1>3. PICK r, n, j : r = RemoveAt(q, i) /\ n = Len(q) /\ j = IF k < i THEN k ELSE k - 1
  OBVIOUS
<1>4. DOMAIN r = 1..(n - 1) /\ \A l \in DOMAIN r : r[l] = q[Skip(i, l)]
  BY <1>3, RemoveAtElements
<1>5. j \in 1..(n - 1) /\ Skip(i, j) = k
  BY <1>1, <1>2, <1>3 DEF Skip
<1>6. r[j] = e /\ j \in DOMAIN r
  BY <1>2, <1>4, <1>5
<1> QED BY <1>3, <1>6 DEF ToSet

(* The SSI takes a message, or listens.                                    *)
LEMMA SsiReceivesWaits ==
    ASSUME Orderly, Attendance, Listening, SsiReceives
    PROVE  Attendance' /\ Listening'
<1> DEFINE S == ssi_pcb_real
<1>1. /\ Base /\ TypeOK /\ S \in Pcb /\ msg_inbox \in [Pcb -> Seq(Message)]
      /\ received \in [Pcb -> Message \cup {NoMessage}]
  BY Names DEF Orderly, Base, TypeOK
<1>2. /\ Running(S) /\ ssi.pc = "receive" /\ SysReceive(S, ANYMESSAGE) /\ ssi'.pc = "dispatch"
      /\ UNCHANGED <<pcb_blocked_on_device, busy, call>>
  BY DEF SsiReceives, SsiAt, SsiGoes, listVars
<1>3. Suspended(S, ANYMESSAGE) \/ \E i \in DOMAIN msg_inbox[S] : Popped(S, ANYMESSAGE, i)
  BY <1>1, <1>2, Names, SysReceiveEffect
<1>4. \A d : ~Attending(d)
  BY <1>2 DEF Attending
<1>5. PICK q : q = msg_inbox[S]
  OBVIOUS
<1>6. q \in Seq(Message)
  BY <1>1, <1>5
<1>7. \A p \in User : p \in Pcb /\ p # S
  BY DEF User
<1>8. CASE Suspended(S, ANYMESSAGE)
  <2>1. q = <<>>
    <3>1. DOMAIN q = {}
      BY <1>5, <1>8 DEF Suspended, Matching, Matches
    <3>2. DOMAIN q = 1..Len(q) /\ Len(q) \in Nat
      BY <1>6, LenProperties
    <3>3. Len(q) = 0
      BY <3>1, <3>2
    <3> QED BY <1>6, <3>3, EmptySeq
  <2>2. msg_inbox' = msg_inbox /\ blocked' = blocked \cup {S}
    BY <1>8 DEF Suspended
  <2>3. Listening'
    <3>1. \A p \in User : p \in blocked' => p \in blocked
      BY <1>7, <2>2
    <3>2. \A p \in User : Replied(p)' = Replied(p)
      BY <2>2 DEF Replied, From
    <3> QED BY <1>2, <1>5, <2>1, <2>2, <3>1, <3>2 DEF Listening
  <2>4. \A d \in Device : pcb_blocked_on_device[d] # <<>> => d \in busy
    <3>1. ToSet(msg_inbox[S]) = {}
      BY <1>5, <2>1, NoQueue
    <3> QED BY <1>4, <3>1 DEF Attendance, Attended
  <2>5. Attendance'
    BY <1>2, <2>4 DEF Attendance, Attended
  <2> QED BY <2>3, <2>5
<1>9. ASSUME NEW i \in DOMAIN msg_inbox[S], Popped(S, ANYMESSAGE, i)
      PROVE  Attendance' /\ Listening'
  <2>1. /\ received'[S] = q[i] /\ msg_inbox'[S] = RemoveAt(q, i) /\ i \in DOMAIN q
        /\ \A p \in User : msg_inbox'[p] = msg_inbox[p]
        /\ blocked' = blocked
    BY <1>1, <1>5, <1>7, <1>9 DEF Popped
  <2>2. S \notin blocked
    BY <1>1, <1>2, SsiRuns
  <2>3. Listening'
    <3>1. \A p \in User : Replied(p)' = Replied(p)
      BY <2>1 DEF Replied, From
    <3> QED BY <1>2, <2>1, <2>2, <3>1 DEF Listening
  <2>4. ASSUME NEW d \in Device, Attended(d)  PROVE Attended(d)'
    <3>1. CASE d \in busy
      BY <1>2, <3>1 DEF Attended
    <3>2. CASE Report(d) \in ToSet(msg_inbox[S])
      <4>1. CASE Report(d) = q[i]
        BY <1>2, <2>1, <4>1 DEF Attended, Attending, Report
      <4>2. CASE Report(d) # q[i]
        <5>1. PICK e : e = Report(d)
          OBVIOUS
        <5>2. e \in ToSet(RemoveAt(q, i))
          BY <1>5, <1>6, <2>1, <3>2, <4>2, <5>1, RemoveAtKeeps
        <5> QED BY <2>1, <5>1, <5>2 DEF Attended, Report
      <4> QED BY <4>1, <4>2
    <3> QED BY <1>4, <2>4, <3>1, <3>2 DEF Attended
  <2> QED BY <1>2, <2>3, <2>4 DEF Attendance
<1> QED BY <1>3, <1>8, <1>9

(* A client takes a message, or waits.                                     *)
LEMMA ReceivingWaits ==
    ASSUME Orderly, Attendance, Listening, NEW p \in Pcb, Awaits(p) \/ Receives(p)
    PROVE  Attendance' /\ Listening'
<1> DEFINE S == ssi_pcb_real
<1>1. /\ Base /\ TypeOK /\ Places /\ p \in User /\ p # S /\ S \in Pcb /\ current_process = p
      /\ msg_inbox \in [Pcb -> Seq(Message)] /\ received \in [Pcb -> Message \cup {NoMessage}]
      /\ UNCHANGED <<listVars, busy, ssi, frame>>
      /\ call \in [Pcb -> Request \cup {NoCall, Receiving}]
  BY Names DEF Orderly, Base, TypeOK, User, Awaits, Receives, Client, Running, clientKeeps, ServiceTypes
<1>2. PICK src \in {SSI_FAKE_ADDR, ANYMESSAGE} :
         /\ SysReceive(p, src)
         /\ \/ src = SSI_FAKE_ADDR /\ call' = IF Matching(p, src) = {} THEN call
                                              ELSE [call EXCEPT ![p] = NoCall]
            \/ call' = [call EXCEPT ![p] = IF Matching(p, src) = {} THEN Receiving ELSE NoCall]
  BY DEF Awaits, Receives
<1>3. \/ Suspended(p, src)
      \/ Matching(p, src) # {} /\ \E i \in DOMAIN msg_inbox[p] : Popped(p, src, i)
  BY <1>1, <1>2, Names, SysReceiveEffect
<1>4. /\ \A x \in Pcb \ {p} : msg_inbox'[x] = msg_inbox[x] /\ received'[x] = received[x]
      /\ \A x \in Pcb \ {p} : call'[x] = call[x]
      /\ \A x \in Pcb \ {p} : x \in blocked' <=> x \in blocked
  BY <1>1, <1>2, <1>3 DEF Suspended, Popped
<1>5. Attendance'
  BY <1>1, <1>4, QuietAttended DEF listVars
<1>6. ASSUME NEW x \in User, x # p, x \in blocked', call'[x].op \in SsiOp  PROVE Replied(x)' = {}
  <2>1. x \in blocked /\ call[x].op \in SsiOp /\ msg_inbox'[x] = msg_inbox[x]
    BY <1>4, <1>6 DEF User
  <2> QED BY <1>6, <2>1 DEF Listening, Replied, From
<1>7. ASSUME p \in blocked', call'[p].op \in SsiOp  PROVE Replied(p)' = {}
  <2>1. p \notin blocked
    BY <1>1 DEF Places
  <2>2. Suspended(p, src)
    BY <1>3, <1>7, <2>1 DEF Popped
  <2>3. Matching(p, src) = {} /\ msg_inbox' = msg_inbox
    BY <2>2 DEF Suspended
  <2>4. src = SSI_FAKE_ADDR
    BY <1>1, <1>2, <1>7, <2>3, CallOps
  <2>5. \A i \in DOMAIN msg_inbox[p] : msg_inbox[p][i].sender # SSI_FAKE_ADDR
    BY <2>3, <2>4 DEF Matching, Matches
  <2>6. Replied(p) = {}
    BY <2>5 DEF Replied, Among, ToSet, From
  <2> QED BY <2>3, <2>6 DEF Replied, From
<1>8. Listening'
  BY <1>1, <1>4, <1>6, <1>7 DEF Listening
<1> QED BY <1>5, <1>8

LEMMA RequestsWait ==
    ASSUME Orderly, Attendance, Listening, msgFree > 0, NEW p \in Pcb,
           NEW req \in [op : Services \cap SsiOp, arg : Address \cup Device], Requests(p, req)
    PROVE  Attendance' /\ Listening'
<1> DEFINE S == ssi_pcb_real
           m == MessageOf(p, req)
<1>1. Base /\ Places /\ Waiting /\ TypeOK /\ S \in Live /\ p \in User /\ S \in Pcb
  BY Names DEF Orderly, Base, User, Requests, Client, CpuWorks
<1>2. /\ SysSend(p, SSI_FAKE_ADDR, req) /\ current_process = p
      /\ call' = [call EXCEPT ![p] = req] /\ UNCHANGED <<listVars, busy, ssi, frame>>
  BY DEF Requests, clientKeeps, Client, Running
<1>3. req \in Request
  BY DEF Request
<1>4. Sent(S, m, ready_queue')
  <2>1. Destination(p, SSI_FAKE_ADDR) = S /\ isPcbValid(S)
    BY <1>1, Names DEF Destination, isPcbValid
  <2> QED BY <1>1, <1>2, <1>3, <2>1, Loads, SysSendEffect
<1>5. m \in Message
  BY <1>1, <1>3, Names, Loads DEF MessageOf, Message, User
<1> HIDE DEF m
<1>6. PICK r : r = ready_queue'
  OBVIOUS
<1>7. Sent(S, m, r)
  BY <1>4, <1>6
<1>8. \A x \in User : x \in blocked => call'[x] = call[x]
  <2>1. p \notin blocked
    BY <1>1, <1>2 DEF Places
  <2> QED BY <1>1, <1>2, <2>1 DEF Base, ServiceTypes, User
<1>9. Listening'
  BY <1>1, <1>5, <1>7, <1>8, SentListens
<1>10. UNCHANGED pcb_blocked_on_device /\ ssi' = ssi /\ busy' = busy
  BY <1>2 DEF listVars
<1>11. Attendance'
  BY <1>1, <1>5, <1>7, <1>10, SentAttended
<1> QED BY <1>9, <1>11

LEMMA SendsWait ==
    ASSUME Orderly, Attendance, Listening, msgFree > 0, NEW p \in Pcb, NEW to, Sends(p, to)
    PROVE  Attendance' /\ Listening'
<1> DEFINE dest == Destination(p, to)
           m == MessageOf(p, Data)
<1>1. Base /\ Places /\ Waiting /\ TypeOK /\ p \in User
  BY DEF Orderly, Base, User, Sends, Client
<1>2. EndsCall(dest, p) /\ SysSend(p, to, Data) /\ UNCHANGED <<listVars, busy, ssi, frame>>
  BY DEF Sends, clientKeeps
<1>3. \/ ~isPcbValid(dest) /\ UNCHANGED msgVars
      \/ isPcbValid(dest) /\ Sent(dest, m, ready_queue')
  BY <1>1, <1>2, Loads, SysSendEffect DEF User
<1>4. m \in Message
  BY <1>1, Names, Loads DEF MessageOf, Message, User
<1>5. \A x \in User : call'[x] = call[x] \/ call'[x].op \notin SsiOp
  BY <1>1, <1>2, CallOps DEF EndsCall, Base, ServiceTypes, User
<1>6. UNCHANGED pcb_blocked_on_device /\ ssi' = ssi /\ busy' = busy
  BY <1>2 DEF listVars
<1>7. ~isPcbValid(dest) => call' = call
  BY <1>2 DEF EndsCall
<1> HIDE DEF dest, m
<1>8. PICK r : r = ready_queue'
  OBVIOUS
<1>9. CASE isPcbValid(dest) /\ Sent(dest, m, r)
  <2>1. dest \in Live
    BY <1>9 DEF isPcbValid
  <2>2. Listening'
    BY <1>1, <1>4, <1>5, <1>9, <2>1, SentListens
  <2>3. Attendance'
    BY <1>1, <1>4, <1>6, <1>9, <2>1, SentAttended
  <2> QED BY <2>2, <2>3
<1>10. CASE ~isPcbValid(dest) /\ UNCHANGED msgVars
  <2>1. UNCHANGED <<msg_inbox, blocked, received, call>>
    BY <1>7, <1>10 DEF msgVars
  <2> QED BY <1>6, <2>1, QuietListens, QuietAttended
<1> QED BY <1>3, <1>8, <1>9, <1>10

LEMMA RepliesWait ==
    ASSUME Orderly, Attendance, Listening, msgFree > 0,
           CreateReplies \/ DoIoReplies \/ ClockReplies \/ GetTimeReplies \/ TermReplies
    PROVE  Attendance' /\ Listening'
<1> DEFINE S == ssi_pcb_real
<1>1. /\ Base /\ Places /\ Waiting /\ TypeOK /\ Staged /\ Running(S) /\ S \in Pcb /\ S \notin User
      /\ NULL \notin Pcb
  BY Names, Replies DEF Orderly, Base, User
<1>2. \A d : ~Attending(d)
  <2>1. ssi.pc # "command" /\ (ssi.pc = "dispatch" => Asked.op = "GETTIME")
    BY DEF CreateReplies, DoIoReplies, ClockReplies, GetTimeReplies, TermReplies, SsiAt, Serving
  <2> QED BY <2>1 DEF Attending, Report, Asked
<1>3. ASSUME NEW dest \in User, NEW op \in ReplyOp, NEW arg \in Address \cup Device \cup {NOPROC},
             AnswerTo(dest, op, arg)
      PROVE  Attendance' /\ Listening'
  <2>1. PICK load : load = [op |-> op, arg |-> arg]
    OBVIOUS
  <2>2. /\ SysSend(S, dest, load) /\ EndsCall(dest, S) /\ UNCHANGED <<listVars, busy, frame>>
        /\ load \in Load /\ dest \in Pcb /\ Destination(S, dest) = dest
    BY <1>1, <1>3, <2>1, Names, Loads DEF AnswerTo, SsiSends, Reply, ReplyOp, User, Destination
  <2>3. PICK m : m = MessageOf(S, load)
    OBVIOUS
  <2>4. \/ ~isPcbValid(dest) /\ UNCHANGED msgVars
        \/ isPcbValid(dest) /\ Sent(dest, m, ready_queue')
    BY <1>1, <2>2, <2>3, SysSendEffect
  <2>5. m \in Message
    BY <1>1, <2>2, <2>3, Names DEF MessageOf, Message
  <2>6. \A x \in User : call'[x] = call[x] \/ call'[x].op \notin SsiOp
    BY <1>1, <2>2, CallOps DEF EndsCall, Base, ServiceTypes, User
  <2>7. ~isPcbValid(dest) => call' = call
    BY <2>2 DEF EndsCall
  <2>8. UNCHANGED pcb_blocked_on_device /\ busy' = busy
    BY <2>2 DEF listVars
  <2>9. PICK r : r = ready_queue'
    OBVIOUS
  <2>10. CASE isPcbValid(dest) /\ Sent(dest, m, r)
    <3>1. dest \in Live
      BY <2>10 DEF isPcbValid
    <3>2. Listening'
      BY <1>1, <2>5, <2>6, <2>10, <3>1, SentListens
    <3>3. Attendance'
      BY <1>1, <1>2, <2>5, <2>8, <2>10, <3>1, SentAttended
    <3> QED BY <3>2, <3>3
  <2>11. CASE ~isPcbValid(dest) /\ UNCHANGED msgVars
    <3>1. UNCHANGED <<msg_inbox, blocked, received, call>>
      BY <2>7, <2>11 DEF msgVars
    <3> QED BY <1>2, <2>8, <3>1, QuietListens, QuietAttended
  <2> QED BY <2>4, <2>9, <2>10, <2>11
<1>4. CASE UNCHANGED <<ipcVars, listVars, busy, frame, call>>
  <2>1. UNCHANGED <<msg_inbox, blocked, received, call, busy, pcb_blocked_on_device>>
    BY <1>4 DEF ipcVars, msgVars, listVars
  <2> QED BY <1>2, <2>1, QuietListens, QuietAttended
<1> QED BY <1>1, <1>3, <1>4, RepliesMatch

LEMMA InterruptsWait ==
    ASSUME Orderly, Attendance, Listening, msgFree > 0, NEW e \in Event, Interrupt(e),
           UNCHANGED <<listVars, ssi, frame, call>>,
           \A d \in busy \ busy' : e = [op |-> "IODONE", arg |-> d]
    PROVE  Attendance' /\ Listening'
<1>1. Base /\ Places /\ Waiting /\ TypeOK /\ ssi_pcb_real \in Live /\ e \in Load
  BY Loads DEF Orderly, Base, CpuWorks
<1>2. PICK m : m = MessageOf(INTERRUPT_HANDLER_MSG, e)
  OBVIOUS
<1>3. PICK ready : Sent(ssi_pcb_real, m, ready)
  BY <1>1, <1>2, InterruptEffect
<1>4. m \in Message
  BY <1>1, <1>2, Names DEF MessageOf, Message
<1>5. Listening'
  BY <1>1, <1>3, <1>4, SentListens
<1>6. UNCHANGED pcb_blocked_on_device
  BY DEF listVars
<1>7. \A d \in busy \ busy' : m = Report(d)
  BY <1>2, Names DEF MessageOf, Report
<1>8. Attendance'
  BY <1>1, <1>3, <1>4, <1>6, <1>7, SentAttended
<1> QED BY <1>5, <1>8

LEMMA OthersWait ==
    ASSUME Attendance, Listening,
           TrapEnds \/ SliceEnds \/ Halted \/ UNCHANGED vars \/ \E p \in Pcb : Traps(p)
    PROVE  Attendance' /\ Listening'
<1>1. UNCHANGED <<msg_inbox, received, blocked, ssi, busy, pcb_blocked_on_device, call>>
  BY DEF TrapEnds, SliceEnds, PltInterrupt, Halted, Stopped, Traps, vars, ipcVars, msgVars, procVars,
         listVars
<1> QED BY <1>1, QuietListens, QuietAttended

(* Who stands in a device's queue is its one user.                         *)
LEMMA QueuedCalls ==
    ASSUME Base, Staged, NEW d \in Device, NEW x \in ToSet(pcb_blocked_on_device[d])
    PROVE  x \in Pcb /\ call[x] = [op |-> "DOIO", arg |-> d]
<1>1. pcb_blocked_on_device[d] \in Seq(Pcb) /\ ssi_pcb_real \notin ToSet(pcb_blocked_on_device[d])
  BY DEF Base, ServiceTypes, SsiApart
<1>2. x \in Pcb /\ x \in User
  BY <1>1 DEF ToSet, User
<1>3. PICK s : s = "device"
  OBVIOUS
<1>4. s \in Stage /\ At(s, x)
  BY <1>3 DEF Stage, At
<1>5. StagedAt(s, x)
  BY <1>2, <1>4 DEF Staged, OneStage
<1> QED BY <1>2, <1>3, <1>5 DEF StagedAt

LEMMA AnswersWait ==
    ASSUME Orderly, Attendance, OneUser, DoIoAnswers
    PROVE  Attendance'
<1> DEFINE dev == pcb_blocked_on_device
<1>1. /\ Base /\ Staged /\ Running(ssi_pcb_real) /\ ssi.pc = "dispatch" /\ Asked.op = "IODONE"
      /\ dev \in [Device -> Seq(Pcb)] /\ UNCHANGED <<msg_inbox, received, busy>>
  BY DEF Orderly, DoIoAnswers, Serving, SsiAt, ipcVars, msgVars, Base, ServiceTypes
<1>2. PICK d0, q : d0 = Asked.arg /\ q = dev[d0]
  OBVIOUS
<1>3. d0 \in Device /\ q \in Seq(Pcb) /\ Once(q)
  BY <1>1, <1>2, SsiRuns DEF Staged
<1>4. ASSUME q # <<>>  PROVE Tail(q) = <<>>
  <2>1. PICK h, r : h = Head(q) /\ r = Tail(q)
    OBVIOUS
  <2>2. h \in ToSet(q) /\ r \in Seq(Pcb) /\ ToSet(r) = ToSet(q) \ {h} /\ Once(r)
    BY <1>3, <1>4, <2>1, TailRange
  <2>3. SUFFICES ASSUME r # <<>>  PROVE FALSE
    BY <2>1
  <2>4. PICK x : x = Head(r)
    OBVIOUS
  <2>5. x \in ToSet(r)
    BY <2>2, <2>3, <2>4, TailRange
  <2>6. x # h /\ x \in ToSet(dev[d0]) /\ h \in ToSet(dev[d0])
    BY <1>2, <2>2, <2>5
  <2>7. x \in Pcb /\ h \in Pcb /\ call[x] = [op |-> "DOIO", arg |-> d0] /\ call[h] = call[x]
    BY <1>1, <1>3, <2>6, QueuedCalls
  <2>8. call[x].op = "DOIO"
    BY <2>7
  <2> QED BY <2>6, <2>7, <2>8 DEF OneUser
<1>5. dev'[d0] = <<>> /\ \A d \in Device \ {d0} : dev'[d] = dev[d]
  <2>1. CASE q = <<>> /\ UNCHANGED pcb_blocked_on_device
    BY <1>2, <2>1
  <2>2. CASE q # <<>> /\ dev' = [dev EXCEPT ![d0] = Tail(q)]
    BY <1>1, <1>3, <1>4, <2>2
  <2> QED BY <1>2, <2>1, <2>2 DEF DoIoAnswers
<1>6. ASSUME NEW d \in Device, dev'[d] # <<>>  PROVE Attended(d)'
  <2>1. d # d0 /\ dev[d] # <<>>
    BY <1>5, <1>6
  <2>2. Attended(d)
    BY <1>6, <2>1 DEF Attendance
  <2>3. ~Attending(d)
    BY <1>1, <1>2, <2>1 DEF Attending, Asked, Report
  <2> QED BY <1>1, <2>2, <2>3 DEF Attended, Report
<1> QED BY <1>6 DEF Attendance

LEMMA CommandsWait ==
    ASSUME Orderly, Attendance, DoIoQueues \/ DoIoCommands
    PROVE  Attendance'
<1> DEFINE dev == pcb_blocked_on_device
<1>1. /\ Base /\ Running(ssi_pcb_real) /\ dev \in [Device -> Seq(Pcb)]
      /\ UNCHANGED <<msg_inbox, received>> /\ (DoIoQueues => UNCHANGED busy)
  BY DEF Orderly, DoIoQueues, DoIoCommands, Serving, SsiAt, ipcVars, msgVars, keepMsg, Base, ServiceTypes
<1>2. PICK d0 : d0 = Asked.arg
  OBVIOUS
<1>3. ASSUME NEW d \in Device, DoIoQueues, dev'[d] # <<>>  PROVE Attended(d)'
  <2>1. /\ ssi.pc = "dispatch" /\ Asked.op = "DOIO" /\ ssi'.pc = "command" /\ received' = received
        /\ \E q : dev' = [dev EXCEPT ![d0] = q]
    BY <1>1, <1>2, <1>3 DEF DoIoQueues, Serving, SsiAt, SsiGoes
  <2>2. CASE d = d0
    <3>1. Asked \in Request
      BY <1>1, <2>1, SsiRuns DEF SsiOp
    <3>2. Asked = [op |-> "DOIO", arg |-> d]
      BY <1>2, <2>1, <2>2, <3>1 DEF Request
    <3>3. Asked' = [op |-> "DOIO", arg |-> d]
      BY <2>1, <3>2 DEF Asked
    <3> QED BY <2>1, <3>3 DEF Attended, Attending
  <2>3. CASE d # d0
    <3>1. dev[d] # <<>>
      BY <1>1, <1>3, <2>1, <2>3
    <3>2. Attended(d) /\ ~Attending(d)
      BY <1>3, <2>1, <3>1 DEF Attendance, Attending, Asked, Report
    <3> QED BY <1>1, <1>3, <3>2 DEF Attended, Report
  <2> QED BY <2>2, <2>3
<1>4. ASSUME NEW d \in Device, DoIoCommands, dev'[d] # <<>>  PROVE Attended(d)'
  <2>1. ssi.pc = "command" /\ busy' = busy \cup {d0} /\ dev' = dev
    BY <1>2, <1>4 DEF DoIoCommands, SsiAt, listVars
  <2>2. Attended(d)
    BY <1>4, <2>1 DEF Attendance
  <2>3. CASE Attending(d)
    <3>1. d = d0
      BY <1>2, <2>1, <2>3 DEF Attending
    <3> QED BY <2>1, <3>1 DEF Attended
  <2>4. CASE ~Attending(d)
    BY <1>1, <2>1, <2>2, <2>4 DEF Attended, Report
  <2> QED BY <2>3, <2>4
<1> QED BY <1>3, <1>4 DEF Attendance

LEMMA WorksWait ==
    ASSUME Orderly, Attendance, Listening, OneUser,
           \/ CreateAllocates \/ CreateInsertsChild \/ CreateInsertsReady \/ CreateReadsCount
           \/ CreateWritesCount \/ DoIoQueues \/ DoIoCommands \/ DoIoAnswers \/ WaitForClock
           \/ ClockAnswers \/ SsiTerminates
    PROVE  Attendance' /\ Listening'
<1> DEFINE S == ssi_pcb_real
<1>1. Base /\ Places /\ S \in Live /\ S \in Pcb
  BY Names DEF Orderly, Base, CpuWorks
<1>2. CASE CreateAllocates
  <2>1. /\ UNCHANGED <<pcb_blocked_on_device, busy, call, blocked>>
        /\ ssi.pc = "dispatch" /\ Asked.op = "CREATE"
    BY <1>2 DEF CreateAllocates, Serving, SsiAt
  <2>2. \A d : ~Attending(d)
    BY <2>1 DEF Attending, Asked, Report
  <2>3. CASE UNCHANGED <<msg_inbox, received>>
    BY <2>1, <2>2, <2>3, QuietListens, QuietAttended
  <2>4. ASSUME NEW q \in Pcb, allocPcb(q)  PROVE Attendance' /\ Listening'
    <3>1. /\ pcbFree \in Seq(Pcb) /\ pcbFree # <<>> /\ q = Head(pcbFree) /\ Once(pcbFree)
          /\ \A x \in Pcb \ {q} : msg_inbox'[x] = msg_inbox[x] /\ received'[x] = received[x]
      BY <2>4 DEF allocPcb, Orderly, Base, TypeOK, Places
    <3>2. q \notin Live
      BY <3>1, TailRange DEF Live
    <3>3. q \notin blocked
      BY <1>1, <3>2 DEF Places
    <3>4. \A p \in User : p \in blocked' => msg_inbox'[p] = msg_inbox[p]
      BY <2>1, <3>1, <3>3 DEF User
    <3>5. msg_inbox'[S] = msg_inbox[S] /\ received'[S] = received[S]
      BY <1>1, <3>1, <3>2
    <3> QED BY <2>1, <2>2, <3>4, <3>5, QuietListens, QuietAttended
  <2> QED BY <1>2, <2>3, <2>4 DEF CreateAllocates
<1>3. CASE \/ CreateInsertsChild \/ CreateInsertsReady \/ CreateReadsCount \/ CreateWritesCount
           \/ WaitForClock \/ ClockAnswers \/ SsiTerminates
  <2>1. UNCHANGED <<msg_inbox, received, blocked, call, busy, pcb_blocked_on_device>>
    BY <1>3 DEF CreateInsertsChild, CreateInsertsReady, CreateReadsCount, CreateWritesCount,
                WaitForClock, ClockAnswers, SsiTerminates, ipcVars, msgVars, listVars
  <2>2. ssi.pc # "command" /\ (ssi.pc = "dispatch" => Asked.op # "IODONE")
    BY <1>3 DEF CreateInsertsChild, CreateInsertsReady, CreateReadsCount, CreateWritesCount,
                WaitForClock, ClockAnswers, SsiTerminates, Serving, SsiAt
  <2>3. \A d : ~Attending(d)
    BY <2>2 DEF Attending, Asked, Report
  <2> QED BY <2>1, <2>3, QuietListens, QuietAttended
<1>4. CASE DoIoQueues \/ DoIoCommands \/ DoIoAnswers
  <2>1. UNCHANGED <<msg_inbox, blocked, call>>
    BY <1>4 DEF DoIoQueues, DoIoCommands, DoIoAnswers, ipcVars, msgVars, keepMsg
  <2> QED BY <1>4, <2>1, QuietListens, CommandsWait, AnswersWait
<1> QED BY <1>2, <1>3, <1>4

LEMMA TerminatesWait ==
    ASSUME Base, Attendance, Listening, NEW a \in Actor, Terminate(a)
    PROVE  Attendance' /\ Listening'
<1>1. call \in [Pcb -> Request \cup {NoCall, Receiving}]
  BY DEF Base, ServiceTypes
<1>2. UNCHANGED <<msg_inbox, received, ssi, busy>>
  BY DEF Terminate, TermOutChild, TermOutReady, TermOutIO, TermReadsCount, TermWritesCount,
         TermReadsSoftblock, TermWritesSoftblock, TermNextChild, TermFrees, keepMsg, msgVars, ipcVars
<1>3. blocked' \subseteq blocked /\ \A p \in User : p \in blocked' => call'[p] = call[p]
  <2>1. CASE TermFrees(a)
    <3>1. PICK v : v = Victim(a) /\ blocked' = blocked \ {v} /\ call' = [call EXCEPT ![v] = NoCall]
      BY <2>1 DEF TermFrees
    <3> QED BY <1>1, <3>1 DEF User
  <2>2. CASE ~TermFrees(a)
    <3>1. UNCHANGED <<blocked, call>>
      BY <2>2 DEF Terminate, TermOutChild, TermOutReady, TermOutIO, TermReadsCount, TermWritesCount,
         TermReadsSoftblock, TermWritesSoftblock, TermNextChild, msgVars, ipcVars
    <3> QED BY <3>1
  <2> QED BY <2>1, <2>2
<1>4. \A d \in Device : pcb_blocked_on_device'[d] # <<>> => pcb_blocked_on_device[d] # <<>>
  <2>1. CASE TermOutIO(a)
    <3>1. PICK v : v = Victim(a)
      OBVIOUS
    <3>2. \A d \in Device : pcb_blocked_on_device'[d] = Without(pcb_blocked_on_device[d], v)
      BY <2>1, <3>1 DEF TermOutIO
    <3>3. Without(<<>>, v) = <<>>
      BY NoQueue DEF Without
    <3> QED BY <3>2, <3>3
  <2>2. CASE ~TermOutIO(a)
    <3>1. UNCHANGED pcb_blocked_on_device
      BY <2>2 DEF Terminate, TermOutChild, TermOutReady, TermReadsCount, TermWritesCount,
         TermReadsSoftblock, TermWritesSoftblock, TermNextChild, TermFrees, listVars
    <3> QED BY <3>1
  <2> QED BY <2>1, <2>2
<1> QED BY <1>2, <1>3, <1>4, QuietListens, QuietAttended

LEMMA InitWaits == Init => Waits
<1>1. SUFFICES ASSUME Init PROVE Waits
  OBVIOUS
<1>2. /\ cpu = "run" /\ blocked = {} /\ \A d \in Device : pcb_blocked_on_device[d] = <<>>
      /\ \A p \in Pcb : call[p] = NoCall
  BY <1>1 DEF Init
<1>3. Attendance
  BY <1>2 DEF Attendance
<1>4. Listening
  BY <1>2 DEF Listening
<1>5. OneUser
  BY <1>2 DEF OneUser, NoCall
<1>6. WaitsForSome
  BY <1>2 DEF WaitsForSome
<1> QED BY <1>3, <1>4, <1>5, <1>6 DEF Waits

LEMMA NextWaits ==
    ASSUME Orderly, Waits, msgFree > 0, [Next]_vars
    PROVE  Waits'
<1>1. Base /\ Attendance /\ Listening /\ OneUser /\ WaitsForSome
  BY DEF Orderly, Waits
<1>2. OneUser' /\ WaitsForSome'
  BY <1>1, NextOneUser, NextWaitsForSome
<1>3. CASE SsiReceives
  BY <1>1, <1>2, <1>3, SsiReceivesWaits DEF Waits
<1>4. CASE Create
  BY <1>1, <1>2, <1>4, WorksWait, RepliesWait DEF Create, Waits
<1>5. CASE \/ DoIoQueues \/ DoIoCommands \/ DoIoAnswers \/ WaitForClock \/ ClockAnswers
           \/ SsiTerminates
  BY <1>1, <1>2, <1>5, WorksWait DEF Waits
<1>6. ASSUME NEW a \in Actor, Terminate(a)  PROVE Attendance' /\ Listening'
  BY <1>1, <1>6, TerminatesWait
<1>7. CASE TermReplies \/ DoIoReplies \/ ClockReplies \/ GetTimeReplies
  BY <1>1, <1>2, <1>7, RepliesWait DEF Waits
<1>8. ASSUME NEW p \in Pcb, ClientStep(p)  PROVE Attendance' /\ Listening'
  <2>1. ASSUME NEW req \in [op : Services \cap SsiOp, arg : Address \cup Device], Requests(p, req)
        PROVE  Attendance' /\ Listening'
    BY <1>1, <2>1, RequestsWait
  <2>2. CASE Awaits(p) \/ Receives(p)
    BY <1>1, <2>2, ReceivingWaits
  <2>3. CASE Traps(p)
    BY <1>1, <2>3, OthersWait
  <2>4. ASSUME NEW to, Sends(p, to)  PROVE Attendance' /\ Listening'
    BY <1>1, <2>4, SendsWait
  <2> QED BY <1>8, <2>1, <2>2, <2>3, <2>4 DEF ClientStep
<1>9. ASSUME NEW d \in Device, DeviceInterrupt(d)  PROVE Attendance' /\ Listening'
  <2>1. PICK e : e = [op |-> "IODONE", arg |-> d]
    OBVIOUS
  <2>2. /\ e \in Event /\ Interrupt(e) /\ UNCHANGED <<listVars, ssi, frame, call>>
        /\ busy' = busy \ {d}
    BY <1>9, <2>1 DEF DeviceInterrupt, Event
  <2>3. \A c \in busy \ busy' : e = [op |-> "IODONE", arg |-> c]
    BY <2>1, <2>2
  <2> QED BY <1>1, <2>2, <2>3, InterruptsWait
<1>10. CASE ClockInterrupt
  <2>1. PICK e \in Event : Interrupt(e) /\ UNCHANGED <<listVars, ssi, frame, call, busy>>
    BY <1>10 DEF ClockInterrupt, Event
  <2>2. \A c \in busy \ busy' : e = [op |-> "IODONE", arg |-> c]
    BY <2>1
  <2> QED BY <1>1, <1>2, <2>1, <2>2, InterruptsWait DEF Waits
<1>11. CASE TrapEnds \/ SliceEnds \/ Halted \/ UNCHANGED vars
  BY <1>1, <1>2, <1>11, OthersWait DEF Waits
<1>12. ASSUME Attendance' /\ Listening'  PROVE Waits'
  BY <1>2, <1>12 DEF Waits
<1> QED BY <1>3, <1>4, <1>5, <1>6, <1>7, <1>8, <1>9, <1>10, <1>11, <1>12 DEF Next, SsiStep, Actor

LEMMA WaitsEnd ==
    ASSUME Orderly, Heeded, Softs, Waits, cpu = "wait"
    PROVE  \/ pcb_blocked_on_clock # <<>>
           \/ \E d \in busy : pcb_blocked_on_device[d] # <<>>
<1> DEFINE S == ssi_pcb_real
<1>1. /\ Base /\ Places /\ Waiting /\ TypeOK /\ S \in Pcb /\ NULL \notin Pcb
      /\ "ssi" \in Actor /\ "nucleus" \in Actor
  BY Names DEF Orderly, Base, Actor
<1>2. ready_queue = <<>> /\ softblock_count > 0 /\ current_process = NULL
  BY <1>1 DEF Waits, WaitsForSome, Base, CpuWorks
<1>3. S \in blocked
  <2>1. Ready = {}
    BY <1>2, NoQueue DEF Ready
  <2> QED BY <1>1, <1>2, <2>1 DEF Base, SsiPlaced
<1>4. ssi.pc = "dispatch" /\ received[S] = NoMessage /\ msg_inbox[S] = <<>>
  BY <1>1, <1>3 DEF Base, SsiServes, Waits, Listening
<1>5. frame["nucleus"] = NoFrame /\ frame["ssi"] = NoFrame
  BY <1>1, <1>4 DEF Base, Frames
<1>6. PICK p \in blocked : Soft(p)
  <2>1. PICK K : K = {x \in blocked : Soft(x)}
    OBVIOUS
  <2>2. softblock_count = Cardinality(K)
    BY <1>1, <1>5, <2>1, SoftBound
  <2>3. K # {}
    BY <1>2, <2>2, FS_EmptySet
  <2> QED BY <2>1, <2>3
<1>7. call[p].op \in SsiOp
  BY <1>6, SoftOps
<1>8. p \in User /\ p \in Live
  <2>1. p # S
    BY <1>1, <1>6, SoftOps DEF Base, SsiApart
  <2> QED BY <1>1, <1>6, <2>1 DEF Places, Base, TypeOK, User
<1>9. Dying = {}
  BY <1>5, GoodNoFrame, NoQueue DEF Dying, Actor
<1>10. Underway(p)
  BY <1>7, <1>8, <1>9 DEF Heeded, Asking
<1>11. Requested(p) = {} /\ Replied(p) = {}
  <2>1. Requested(p) = {}
    BY <1>4, NoQueue DEF Requested, Among
  <2>2. Replied(p) = {}
    BY <1>6, <1>7, <1>8 DEF Waits, Listening
  <2> QED BY <2>1, <2>2
<1>12. ~BeingServed(p) /\ ~BeingAnswered(p)
  BY <1>1, <1>4, <1>8 DEF BeingServed, BeingAnswered, Asker, NoMessage, User
<1>13. CASE p \in ToSet(pcb_blocked_on_clock)
  BY <1>13, NoQueue
<1>14. ASSUME NEW d \in Device, p \in ToSet(pcb_blocked_on_device[d])
       PROVE  d \in busy /\ pcb_blocked_on_device[d] # <<>>
  <2>1. pcb_blocked_on_device[d] # <<>>
    BY <1>14, NoQueue
  <2>2. Attended(d)
    BY <2>1 DEF Waits, Attendance
  <2>3. ~Attending(d)
    BY <1>1, <1>4, Names DEF Attending, NoMessage, Report
  <2>4. Report(d) \notin ToSet(msg_inbox[S])
    BY <1>4, NoQueue
  <2> QED BY <2>1, <2>2, <2>3, <2>4 DEF Attended
<1> QED BY <1>10, <1>11, <1>12, <1>13, <1>14, UnderwayAs

(* WaitEnds: the processor waits only for the interval timer or for a      *)
(* device that is at work, on which a process is blocked: no sleep without *)
(* an interrupt to come, for programs that keep the discipline, as long as *)
(* the message pool is not exhausted.  (The answer of a device for which   *)
(* no message is free is lost, and its process waits on an idle device.)   *)
THEOREM WaitEndsInvariance ==
    ASSUME Liberty = {} PROVE Spec /\ [](msgFree > 0) => []WaitEnds
<1>1. Init => Orderly /\ Heeded /\ Softs /\ Waits
  BY InitOrderly, InitHeeded, InitSofts, InitWaits
<1>2. Orderly /\ Heeded /\ Softs /\ Waits /\ msgFree > 0 /\ [Next]_vars
         => Orderly' /\ Heeded' /\ Softs' /\ Waits'
  BY NextOrderly, NextHeeds, NextSofts, NextWaits
<1>3. Orderly /\ Heeded /\ Softs /\ Waits => WaitEnds
  BY WaitsEnd DEF WaitEnds
<1> QED BY <1>1, <1>2, <1>3, PTL DEF Spec
-----------------------------------------------------------------------------
(* PANIC.                                                                  *)

PanicsIdle == cpu = "panic" => ready_queue = <<>> /\ softblock_count = 0

LEMMA SchedulerPanics ==
    ASSUME NEW cur, NEW ready, Scheduler(cur, ready), softblock_count' \in Nat
    PROVE  PanicsIdle'
BY DEF Scheduler, Idle, PanicsIdle

LEMMA BusyPanics ==
    ASSUME Base, Base', current_process' = current_process, cpu \in {"run", "kernel"}
    PROVE  PanicsIdle'
BY DEF Base, CpuWorks, PanicsIdle

LEMMA NextPanics ==
    ASSUME Base, Base', PanicsIdle, [Next]_vars
    PROVE  PanicsIdle'
<1> softblock_count' \in Nat
  BY IpcAssumption DEF Base, TypeOK
<1>1. CASE SsiReceives \/ \E p \in Pcb : Awaits(p) \/ Receives(p)
  <2>1. \E p, src : SysReceive(p, src)
    BY <1>1 DEF SsiReceives, Awaits, Receives
  <2> QED BY <2>1, SchedulerPanics DEF SysReceive, ReceivePops, ReceiveBlocks
<1>2. CASE \/ CreateAllocates \/ CreateInsertsChild \/ CreateInsertsReady \/ CreateReadsCount
           \/ CreateWritesCount \/ DoIoQueues \/ DoIoCommands \/ DoIoAnswers \/ WaitForClock
           \/ ClockAnswers
  <2>1. cpu = "run" /\ current_process' = current_process
    BY <1>2 DEF CreateAllocates, CreateInsertsChild, CreateInsertsReady, CreateReadsCount,
           CreateWritesCount, DoIoQueues, DoIoCommands, DoIoAnswers, WaitForClock, ClockAnswers,
           Serving, SsiAt, Running, keepCpu, cpuVars, ipcVars
  <2> QED BY <2>1, BusyPanics
<1>3. CASE SsiTerminates \/ \E p \in Pcb : Traps(p)
  <2>1. cpu = "run" /\ current_process' = current_process
    BY <1>3 DEF SsiTerminates, Traps, Client, Serving, SsiAt, Running
  <2> QED BY <2>1, BusyPanics
<1>4. ASSUME NEW a \in Actor, Terminate(a)  PROVE PanicsIdle'
  <2>1. cpu \in {"run", "kernel"}
    BY <1>4 DEF Terminate, TermOutChild, TermOutReady, TermOutIO, TermReadsCount,
                TermWritesCount, TermReadsSoftblock, TermWritesSoftblock, TermNextChild, TermFrees,
                TermAt, Acts, Running
  <2>2. current_process' = current_process
    BY <1>4 DEF Terminate, TermOutChild, TermOutReady, TermOutIO, TermReadsCount,
                TermWritesCount, TermReadsSoftblock, TermWritesSoftblock, TermNextChild, TermFrees,
                ipcVars, cpuVars, keepCpu
  <2> QED BY <2>1, <2>2, BusyPanics
<1>5. CASE CreateReplies \/ DoIoReplies \/ ClockReplies \/ GetTimeReplies \/ TermReplies
  <2>1. cpu = "run"
    BY <1>5, Replies DEF Running
  <2>2. ASSUME NEW dest, NEW op, NEW arg, SsiSends(dest, op, arg)  PROVE PanicsIdle'
    BY <2>2, SchedulerPanics DEF SsiSends, SysSend
  <2>3. CASE UNCHANGED <<ipcVars, listVars, busy, frame, call>>
    BY <2>1, <2>3, BusyPanics DEF ipcVars, cpuVars
  <2> QED BY <1>5, <2>2, <2>3, Replies
<1>6. ASSUME NEW p \in Pcb, ClientStep(p), ~Traps(p), ~Awaits(p), ~Receives(p)
      PROVE  PanicsIdle'
  <2>1. \E to, load : SysSend(p, to, load)
    BY <1>6 DEF ClientStep, Requests, Sends
  <2> QED BY <2>1, SchedulerPanics DEF SysSend
<1>7. CASE (\E d \in Device : DeviceInterrupt(d)) \/ ClockInterrupt \/ SliceEnds \/ TrapEnds
  BY <1>7, SchedulerPanics
     DEF DeviceInterrupt, ClockInterrupt, Interrupt, SliceEnds, PltInterrupt, TrapEnds
<1>8. CASE Halted \/ UNCHANGED vars
  BY <1>8 DEF Halted, Stopped, vars, ipcVars, cpuVars, msgVars, PanicsIdle
<1>9. ASSUME NEW p \in Pcb, ClientStep(p)  PROVE PanicsIdle'
  BY <1>1, <1>3, <1>6, <1>9
<1> QED BY <1>1, <1>2, <1>3, <1>4, <1>5, <1>7, <1>8, <1>9 DEF Next, SsiStep, Create, Actor

(* With nobody ready and the SSI asleep a request could only be in a       *)
(* queue; but then its sender is counted, and the scheduler waits.         *)
LEMMA PanicsDeadlocked ==
    ASSUME Orderly, Heeded, Softs, Waits, PanicsIdle, cpu = "panic"
    PROVE  Live = blocked /\ \A p \in Live \ {ssi_pcb_real} : call[p] = Receiving
<1> DEFINE S == ssi_pcb_real
<1>1. /\ Base /\ Places /\ Waiting /\ Staged /\ TypeOK /\ S \in Pcb /\ NULL \notin Pcb
      /\ "ssi" \in Actor /\ "nucleus" \in Actor
  BY Names DEF Orderly, Base, Actor
<1>2. ready_queue = <<>> /\ softblock_count = 0 /\ current_process = NULL /\ Ready = {}
  BY <1>1, NoQueue DEF PanicsIdle, Base, CpuWorks, Ready
<1>3. S \in blocked
  BY <1>1, <1>2 DEF Base, SsiPlaced
<1>4. ssi.pc = "dispatch" /\ received[S] = NoMessage /\ msg_inbox[S] = <<>>
  BY <1>1, <1>3 DEF Base, SsiServes, Waits, Listening
<1>5. frame["nucleus"] = NoFrame /\ frame["ssi"] = NoFrame
  BY <1>1, <1>4 DEF Base, Frames
<1>6. Dying = {} /\ UnderConstruction = {}
  BY <1>4, <1>5, GoodNoFrame, NoQueue DEF Dying, Actor, UnderConstruction
<1>7. Live = blocked
  <2>1. Live \subseteq Pcb /\ NULL \notin Live
    BY <1>1 DEF Live
  <2> QED BY <1>1, <1>2, <1>6, <2>1 DEF Places
<1>8. \A p \in blocked : ~Soft(p)
  <2>1. PICK K : K = {x \in blocked : Soft(x)}
    OBVIOUS
  <2>2. K \in SUBSET Pcb /\ Cardinality(K) = 0
    BY <1>1, <1>2, <1>5, <2>1, SoftBound
  <2>3. IsFiniteSet(K)
    BY <2>2, PcbSets
  <2>4. K = {}
    BY <2>2, <2>3, FS_EmptySet
  <2> QED BY <2>1, <2>4
<1>9. ASSUME NEW p \in Live \ {S}  PROVE call[p] = Receiving
  <2>1. p \in blocked /\ p \in User /\ p \in Pcb /\ ~Soft(p)
    BY <1>7, <1>8, <1>9 DEF User, Live
  <2> SUFFICES ASSUME call[p].op \in SsiOp PROVE FALSE
    BY <1>1, <1>9, <2>1 DEF Waiting, WaitsFor
  <2>2. Underway(p)
    BY <1>6, <1>9, <2>1 DEF Heeded, Asking
  <2>3. Requested(p) = {} /\ Replied(p) = {}
    <3>1. Requested(p) = {}
      BY <1>4, NoQueue DEF Requested, Among
    <3>2. Replied(p) = {}
      BY <2>1 DEF Waits, Listening
    <3> QED BY <3>1, <3>2
  <2>4. ~BeingServed(p) /\ ~BeingAnswered(p)
    BY <1>1, <1>4, <2>1 DEF BeingServed, BeingAnswered, Asker, NoMessage
  <2>5. ASSUME NEW d \in Device, p \in ToSet(pcb_blocked_on_device[d])  PROVE FALSE
    <3>1. call[p] = [op |-> "DOIO", arg |-> d]
      BY <1>1, <2>5, QueuedCalls
    <3>2. call[p].op = "DOIO"
      BY <3>1
    <3> QED BY <2>1, <3>2 DEF Soft
  <2>6. ASSUME p \in ToSet(pcb_blocked_on_clock)  PROVE FALSE
    <3>1. PICK s : s = "clock"
      OBVIOUS
    <3>2. s \in Stage /\ At(s, p)
      BY <2>6, <3>1 DEF Stage, At
    <3>3. StagedAt(s, p)
      BY <1>1, <2>1, <3>2 DEF Staged, OneStage
    <3> QED BY <2>1, <3>1, <3>3 DEF StagedAt, Soft
  <2> QED BY <2>2, <2>3, <2>4, <2>5, <2>6, UnderwayAs
<1> QED BY <1>7, <1>9

(* PanicIsDeadlock: the scheduler panics only when everybody waits for a   *)
(* message of somebody else and no request is outstanding, for programs    *)
(* that keep the discipline, that of taking no other message before the    *)
(* answer included, as long as the message pool is not exhausted.          *)
THEOREM PanicIsDeadlockInvariance ==
    ASSUME Liberty = {} PROVE Spec /\ [](msgFree > 0) => []PanicIsDeadlock
<1>1. Init => Orderly /\ Heeded /\ Softs /\ Waits /\ PanicsIdle
  BY InitOrderly, InitHeeded, InitSofts, InitWaits DEF Init, PanicsIdle
<1>2. Orderly /\ Heeded /\ Softs /\ Waits /\ PanicsIdle /\ msgFree > 0 /\ [Next]_vars
         => Orderly' /\ Heeded' /\ Softs' /\ Waits' /\ PanicsIdle'
  <2>1. Orderly => Base
    BY DEF Orderly
  <2>2. Orderly' => Base'
    BY DEF Orderly
  <2> QED BY <2>1, <2>2, NextOrderly, NextHeeds, NextSofts, NextWaits, NextPanics
<1>3. Orderly /\ Heeded /\ Softs /\ Waits /\ PanicsIdle => PanicIsDeadlock
  BY PanicsDeadlocked DEF PanicIsDeadlock
<1> QED BY <1>1, <1>2, <1>3, PTL DEF Spec
=============================================================================
