--------------------------- MODULE SupportProofs ----------------------------
(***************************************************************************)
(* Proofs about Support for every number of U-procs and every length of    *)
(* what they print: when test ends the machine, and what the devices print.*)
(***************************************************************************)
EXTENDS Support, DataLemmas

Payload == [code : {"WRITE", "GET_TOD", "TERMINATE", "NULL", "DONE", "FAILED"},
            dev : Dev \cup {"none"}, length : Nat]
Content == (UNION {Request(a) : a \in Asid}) \cup {NULL, DONE, FAILED}

LEMMA Names ==
    /\ TEST \in Process /\ MUTEX \in Process /\ SSI \notin Process /\ TEST # MUTEX
    /\ \A a \in Asid :
          /\ Sst(a) \in Process /\ AsidOf(Sst(a)) = a /\ Sst(a)[1] = "sst"
          /\ Uproc(a) \in Process /\ AsidOf(Uproc(a)) = a /\ Uproc(a)[1] = "uproc"
          /\ Sst(a) # Uproc(a) /\ Sst(a) \notin {TEST, MUTEX, SSI}
          /\ Uproc(a) \notin {TEST, MUTEX, SSI}
    /\ TEST[1] = "test" /\ MUTEX[1] = "mutex"
    /\ \A p \in Process : \/ p \in {TEST, MUTEX}
                          \/ AsidOf(p) \in Asid /\ (p = Sst(AsidOf(p)) \/ p = Uproc(AsidOf(p)))
BY DEF TEST, MUTEX, SSI, Process, Sst, Uproc, AsidOf

LEMMA DifferentNames ==
    ASSUME NEW a, NEW b
    PROVE  /\ Sst(a) # Uproc(b)
           /\ Sst(a) = Sst(b) => a = b
           /\ Uproc(a) = Uproc(b) => a = b
BY DEF Sst, Uproc

LEMMA RequestFacts ==
    ASSUME NEW a \in Asid, NEW what \in Request(a)
    PROVE  /\ what \in Payload /\ what \in Content /\ what # NULL
           /\ what.code \in {"WRITE", "GET_TOD", "TERMINATE"}
           /\ what.code = "WRITE" => what.dev \in Dev
<1>1. what \in Content
  BY DEF Content
<1>2. CASE what \in {Plain("GET_TOD"), Plain("TERMINATE")}
  BY <1>1, <1>2 DEF Plain, Payload, NULL
<1>3. CASE what \notin {Plain("GET_TOD"), Plain("TERMINATE")}
  <2>1. PICK w \in Strings : what = [code |-> "WRITE", dev |-> w[2], length |-> w[3]]
    BY <1>3 DEF Request
  <2>2. w[2] \in Dev /\ w[3] \in Nat
    BY SupportAssumption DEF Dev
  <2> QED BY <1>1, <2>1, <2>2 DEF Payload, NULL, Plain
<1> QED BY <1>2, <1>3

LEMMA ContentFacts ==
    /\ NULL \in Content /\ DONE \in Content /\ FAILED \in Content
    /\ NULL.code = "NULL" /\ DONE.code = "DONE" /\ FAILED.code = "FAILED"
    /\ DONE # FAILED /\ DONE # NULL /\ FAILED # NULL
    /\ NULL \in Payload
    /\ Content \subseteq Payload
<1>1. NULL.code = "NULL" /\ DONE.code = "DONE" /\ FAILED.code = "FAILED"
  BY DEF NULL, DONE, FAILED, Plain
<1>2. NULL \in Payload /\ DONE \in Payload /\ FAILED \in Payload
  BY DEF NULL, DONE, FAILED, Plain, Payload
<1>3. \A a \in Asid : \A what \in Request(a) : what \in Payload
  BY RequestFacts
<1>4. Content = (UNION {Request(a) : a \in Asid}) \cup {NULL, DONE, FAILED}
  BY DEF Content
<1>5. Content \subseteq Payload
  BY <1>2, <1>3, <1>4
<1>6. NULL \in Content /\ DONE \in Content /\ FAILED \in Content
  BY <1>4
<1> QED BY <1>1, <1>2, <1>5, <1>6
-----------------------------------------------------------------------------
(* The pool of support structures, as loops leave it.                      *)

LEMMA InitSupports == initSupports \in Seq(Asid)
<1> DEFINE pool == CHOOSE f : f = [n \in 0..UPROCMAX |->
                                      IF n = 0 THEN <<>> ELSE freeSupport(f[n - 1], n)]
<1>1. \A n \in 1..UPROCMAX, s \in Seq(Asid) : freeSupport(s, n) \in Seq(Asid)
  BY ConcatProperties DEF freeSupport, Asid
<1>2. PICK step \in [(1..UPROCMAX) \X Seq(Asid) -> Seq(Asid)] :
         \A n \in 1..UPROCMAX, s \in Seq(Asid) : step[<<n, s>>] = freeSupport(s, n)
  <2> DEFINE f == [k \in (1..UPROCMAX) \X Seq(Asid) |-> freeSupport(k[2], k[1])]
  <2>1. f \in [(1..UPROCMAX) \X Seq(Asid) -> Seq(Asid)]
    BY <1>1
  <2>2. \A n \in 1..UPROCMAX, s \in Seq(Asid) : f[<<n, s>>] = freeSupport(s, n)
    OBVIOUS
  <2> QED BY <2>1, <2>2
<1>3. UPROCMAX \in Nat /\ <<>> \in Seq(Asid)
  BY SupportAssumption
<1>4. PICK g \in [0..UPROCMAX -> Seq(Asid)] :
         g[0] = <<>> /\ \A i \in 1..UPROCMAX : g[i] = step[<<i, g[i - 1]>>]
  <2>1. Passes(UPROCMAX, Seq(Asid), <<>>, step) # {}
    BY <1>3, Repeated
  <2> QED BY <2>1 DEF Passes
<1>5. \A i \in 1..UPROCMAX : g[i] = freeSupport(g[i - 1], i)
  <2>1. \A i \in 1..UPROCMAX : g[i - 1] \in Seq(Asid)
    BY <1>3
  <2> QED BY <1>2, <1>4, <2>1
<1>6. g = [n \in 0..UPROCMAX |-> IF n = 0 THEN <<>> ELSE freeSupport(g[n - 1], n)]
  BY <1>3, <1>4, <1>5
<1>7. pool = [n \in 0..UPROCMAX |-> IF n = 0 THEN <<>> ELSE freeSupport(pool[n - 1], n)]
  BY <1>6
<1>8. pool[UPROCMAX] \in Seq(Asid)
  <2> DEFINE P == {n \in 0..UPROCMAX : pool[n] \in Seq(Asid)}
  <2> HIDE DEF pool
  <2>1. 0 \in P
    BY <1>3, <1>7
  <2>2. ASSUME NEW i \in 1..UPROCMAX, i - 1 \in P  PROVE i \in P
    <3>1. pool[i] = freeSupport(pool[i - 1], i) /\ pool[i - 1] \in Seq(Asid)
      BY <1>3, <1>7, <2>2
    <3> QED BY <1>1, <1>3, <3>1
  <2>3. 0..UPROCMAX \subseteq P
    <3> HIDE DEF P
    <3> QED BY <1>3, <2>1, <2>2, Upwards
  <2> QED BY <1>3, <2>3
<1> QED BY <1>8 DEF initSupports

LEMMA FreesStructures ==
    ASSUME NEW gone, supportFree \in Seq(Asid),
           \A a \in Asid : Sst(a) \in gone \/ Uproc(a) \in gone => supportOf[a] \in Asid
    PROVE  FreeAfter(gone) \in Seq(Asid)
<1> DEFINE back(a, s) == PutsBack(Sst(a), gone, PutsBack(Uproc(a), gone, s))
           free == CHOOSE f : f = [a \in 0..UPROCMAX |->
                                      IF a = 0 THEN supportFree ELSE back(a, f[a - 1])]
<1>1. ASSUME NEW a \in 1..UPROCMAX, NEW s \in Seq(Asid)  PROVE back(a, s) \in Seq(Asid)
  <2>1. a \in Asid
    BY DEF Asid
  <2>2. \A r \in Seq(Asid), u \in Asid : freeSupport(r, u) \in Seq(Asid)
    BY ConcatProperties DEF freeSupport
  <2> QED BY <1>1, <2>1, <2>2, Names DEF PutsBack
<1> HIDE DEF back
<1>2. PICK step \in [(1..UPROCMAX) \X Seq(Asid) -> Seq(Asid)] :
         \A a \in 1..UPROCMAX, s \in Seq(Asid) : step[<<a, s>>] = back(a, s)
  <2> DEFINE f == [k \in (1..UPROCMAX) \X Seq(Asid) |-> back(k[1], k[2])]
  <2>1. f \in [(1..UPROCMAX) \X Seq(Asid) -> Seq(Asid)]
    BY <1>1
  <2>2. \A a \in 1..UPROCMAX, s \in Seq(Asid) : f[<<a, s>>] = back(a, s)
    OBVIOUS
  <2> QED BY <2>1, <2>2
<1>3. UPROCMAX \in Nat
  BY SupportAssumption
<1>4. PICK g \in [0..UPROCMAX -> Seq(Asid)] :
         g[0] = supportFree /\ \A i \in 1..UPROCMAX : g[i] = step[<<i, g[i - 1]>>]
  <2>1. PICK base : base = supportFree
    OBVIOUS
  <2>2. Passes(UPROCMAX, Seq(Asid), base, step) # {}
    BY <1>3, <2>1, Repeated
  <2> QED BY <2>1, <2>2 DEF Passes
<1>5. \A i \in 1..UPROCMAX : g[i] = back(i, g[i - 1])
  <2>1. \A i \in 1..UPROCMAX : g[i - 1] \in Seq(Asid)
    BY <1>3
  <2> QED BY <1>2, <1>4, <2>1
<1>6. g = [a \in 0..UPROCMAX |-> IF a = 0 THEN supportFree ELSE back(a, g[a - 1])]
  BY <1>3, <1>4, <1>5
<1>7. free = [a \in 0..UPROCMAX |-> IF a = 0 THEN supportFree ELSE back(a, free[a - 1])]
  BY <1>6
<1>8. free[UPROCMAX] \in Seq(Asid)
  <2> DEFINE P == {n \in 0..UPROCMAX : free[n] \in Seq(Asid)}
  <2> HIDE DEF free
  <2>1. 0 \in P
    BY <1>3, <1>7
  <2>2. ASSUME NEW i \in 1..UPROCMAX, i - 1 \in P  PROVE i \in P
    <3>1. free[i] = back(i, free[i - 1]) /\ free[i - 1] \in Seq(Asid)
      BY <1>3, <1>7, <2>2
    <3> QED BY <1>1, <1>3, <3>1
  <2>3. 0..UPROCMAX \subseteq P
    <3> HIDE DEF P
    <3> QED BY <1>3, <2>1, <2>2, Upwards
  <2> QED BY <1>3, <2>3
<1> QED BY <1>8 DEF FreeAfter, back
-----------------------------------------------------------------------------
(* What the processes say to one another and to the SSI, whoever reads it. *)

Ask == [op : {"CREATEPROCESS", "TERMPROCESS", "GETSUPPORTPTR", "data0", "command"},
        arg : Process \cup {SSI}, dev : Dev \cup {"none"}, value : Int]

(* A process asks to end itself, or its child; only those that wait for an *)
(* answer ask for anything else.                                           *)
Requests ==
    {m \in [from : Process, ask : Ask] :
        /\ m.ask.op = "CREATEPROCESS" => m.ask.arg \in Process
        /\ m.ask.op = "TERMPROCESS" =>
              \/ m.ask.arg = m.from
              \/ m.from = TEST /\ m.ask.arg = MUTEX
              \/ \E a \in Asid : m.from = Sst(a) /\ m.ask.arg = Uproc(a)
        /\ m.ask.op \in {"CREATEPROCESS", "GETSUPPORTPTR"} => m.from = TEST \/ m.from[1] = "sst"
        /\ m.ask.op \in {"data0", "command"} => m.from[1] = "sst" /\ m.ask.dev \in Dev}

(* The SSI, test, the SSTs and the U-procs each write to known partners.   *)
MailTo(p) ==
    {m \in Message :
        \/ p = TEST /\ (m.from = SSI \/ m.from[1] = "sst")
        \/ /\ p[1] = "sst"
           /\ \/ m.from = SSI /\ m.what \in {DONE, FAILED}
              \/ m.from = Uproc(AsidOf(p)) /\ m.what \in Request(AsidOf(p)) \cup {NULL}
        \/ p[1] = "uproc" /\ m.from = Sst(AsidOf(p)) /\ m.what = DONE}

Place == {"init", "created", "listen", "termSelf", "ending", "start", "support", "serve", "data0",
          "command", "status", "answer", "termChild", "tell", "wait"}

BaseType ==
    /\ alive \subseteq Process /\ pc \in [Process -> Place]
    /\ inbox \in [Process -> Seq(Message)] /\ ssi_inbox \in Seq(Requests)
    /\ \A p \in Process : inbox[p] \in Seq(MailTo(p))
    /\ sst_pcbs \subseteq Asid /\ released \subseteq Asid /\ heard \in 0..UPROCMAX
    /\ supportFree \in Seq(Asid) /\ supportOf \in [Asid -> 0..UPROCMAX]
    /\ work \in [Asid -> Payload] /\ device \in [Asid \X Dev -> [data0 : Int, busy : Int]]
    /\ asked \in [Asid -> Nat] /\ wanted \in [Asid \X Dev -> Nat]
    /\ printed \in [Asid \X Dev -> Seq(Int)]

(* An SST that is at a character has one to print.                         *)
Writing(a) == pc[Sst(a)] \in {"data0", "command", "status"}
Writes == \A a \in Asid : Writing(a) => work[a].dev \in Dev /\ work[a].length > 0

(* Nobody runs that has no support structure, or is about to.              *)
Equipped == {p \in Process : p[1] \in {"sst", "uproc"} => supportOf[AsidOf(p)] # 0}
Supported ==
    /\ alive \subseteq Equipped
    /\ \A i \in DOMAIN ssi_inbox :
          ssi_inbox[i].ask.op = "CREATEPROCESS" => ssi_inbox[i].ask.arg \in Equipped

SupInv == BaseType /\ Writes /\ Supported
-----------------------------------------------------------------------------
(* Sending and receiving                                                   *)

LEMMA SendsFacts ==
    ASSUME BaseType, NEW p \in Process \cup {SSI}, NEW to \in Process, NEW what \in Content,
           [from |-> p, what |-> what] \in MailTo(to), Sends(p, to, what)
    PROVE  /\ inbox' \in [Process -> Seq(Message)]
           /\ \A q \in Process : inbox'[q] \in Seq(MailTo(q))
           /\ \A q \in Process :
                 inbox'[q] = IF q = to /\ to \in alive
                             THEN Append(inbox[q], [from |-> p, what |-> what]) ELSE inbox[q]
<1> DEFINE m == [from |-> p, what |-> what]
<1>1. /\ inbox \in [Process -> Seq(Message)]
      /\ \A q \in Process : inbox[q] \in Seq(MailTo(q))
  BY DEF BaseType
<1>2. inbox' = IF to \in alive THEN [inbox EXCEPT ![to] = Append(inbox[to], m)] ELSE inbox
  BY DEF Sends
<1>3. m \in Message
  BY DEF Message, Content
<1> HIDE DEF m
<1>4. \A q \in Process : inbox'[q] = IF q = to /\ to \in alive THEN Append(inbox[q], m) ELSE inbox[q]
  BY <1>1, <1>2
<1>5. Append(inbox[to], m) \in Seq(Message) /\ Append(inbox[to], m) \in Seq(MailTo(to))
  <2>1. m \in MailTo(to)
    BY DEF m
  <2> QED BY <1>1, <1>3, <2>1, AppendProperties
<1>6. inbox' \in [Process -> Seq(Message)]
  BY <1>1, <1>2, <1>5
<1>7. \A q \in Process : inbox'[q] \in Seq(MailTo(q))
  BY <1>1, <1>4, <1>5
<1> QED BY <1>4, <1>6, <1>7 DEF m

LEMMA ReceivesFacts ==
    ASSUME BaseType, NEW p \in Process, NEW From, Receives(p, From)
    PROVE  /\ inbox' \in [Process -> Seq(Message)]
           /\ \A q \in Process : inbox'[q] \in Seq(MailTo(q))
           /\ \A q \in Process \ {p} : inbox'[q] = inbox[q]
           /\ \E i \in DOMAIN inbox[p] :
                 /\ inbox[p][i].from \in From /\ Letter(p, From) = inbox[p][i]
                 /\ inbox[p][i] \in MailTo(p)
                 /\ inbox'[p] = RemoveAt(inbox[p], i)
<1>1. /\ inbox \in [Process -> Seq(Message)]
      /\ \A q \in Process : inbox[q] \in Seq(MailTo(q))
  BY DEF BaseType
<1>2. Mail(p, From) \in SUBSET Nat /\ Mail(p, From) # {} /\ Mail(p, From) \subseteq DOMAIN inbox[p]
  <2>1. DOMAIN inbox[p] = 1..Len(inbox[p]) /\ Len(inbox[p]) \in Nat
    BY <1>1, LenProperties
  <2> QED BY <2>1 DEF Mail, Receives
<1>3. PICK i : i = Oldest(p, From)
  OBVIOUS
<1>4. i \in Mail(p, From)
  <2>1. \E j \in Mail(p, From) : \A k \in Mail(p, From) : j <= k
    BY <1>2, LeastNumber
  <2> QED BY <1>3, <2>1 DEF Oldest
<1>5. i \in DOMAIN inbox[p] /\ inbox[p][i].from \in From /\ Letter(p, From) = inbox[p][i]
  BY <1>3, <1>4 DEF Mail, Letter
<1>6. inbox' = [inbox EXCEPT ![p] = RemoveAt(inbox[p], i)]
  BY <1>3 DEF Receives
<1>7. inbox[p][i] \in MailTo(p)
  BY <1>1, <1>5, ElementOfSeq, LenProperties
<1>8. RemoveAt(inbox[p], i) \in Seq(Message) /\ RemoveAt(inbox[p], i) \in Seq(MailTo(p))
  BY <1>1, <1>5, RemoveAtType
<1>9. inbox'[p] = RemoveAt(inbox[p], i) /\ \A q \in Process \ {p} : inbox'[q] = inbox[q]
  BY <1>1, <1>6
<1>10. inbox' \in [Process -> Seq(Message)]
  BY <1>1, <1>6, <1>8
<1>11. \A q \in Process : inbox'[q] \in Seq(MailTo(q))
  BY <1>1, <1>8, <1>9
<1> QED BY <1>5, <1>7, <1>9, <1>10, <1>11

LEMMA SendsSsiFacts ==
    ASSUME BaseType, NEW p \in Process, NEW ask \in Ask, [from |-> p, ask |-> ask] \in Requests,
           SendsSsi(p, ask)
    PROVE  /\ ssi_inbox' \in Seq(Requests) /\ Len(ssi_inbox) \in Nat
           /\ DOMAIN ssi_inbox = 1..Len(ssi_inbox) /\ DOMAIN ssi_inbox' = 1..(Len(ssi_inbox) + 1)
           /\ \A j \in DOMAIN ssi_inbox : ssi_inbox'[j] = ssi_inbox[j]
           /\ ssi_inbox'[Len(ssi_inbox) + 1] = [from |-> p, ask |-> ask]
<1>1. PICK new : new = ssi_inbox'
  OBVIOUS
<1>2. new = Append(ssi_inbox, [from |-> p, ask |-> ask]) /\ ssi_inbox \in Seq(Requests)
  BY <1>1 DEF SendsSsi, BaseType
<1>3. /\ new \in Seq(Requests) /\ Len(ssi_inbox) \in Nat
      /\ DOMAIN ssi_inbox = 1..Len(ssi_inbox) /\ DOMAIN new = 1..(Len(ssi_inbox) + 1)
      /\ \A j \in DOMAIN ssi_inbox : new[j] = ssi_inbox[j]
      /\ new[Len(ssi_inbox) + 1] = [from |-> p, ask |-> ask]
  BY <1>2, AppendElements
<1> QED BY <1>1, <1>3

LEMMA SsiPassesFacts ==
    ASSUME BaseType, ssi_inbox # <<>>, SsiPasses
    PROVE  /\ ssi_inbox' \in Seq(Requests) /\ Len(ssi_inbox) \in Nat
           /\ DOMAIN ssi_inbox = 1..Len(ssi_inbox) /\ DOMAIN ssi_inbox' = 1..(Len(ssi_inbox) - 1)
           /\ \A j \in DOMAIN ssi_inbox' : ssi_inbox'[j] = ssi_inbox[j + 1]
           /\ 1 \in DOMAIN ssi_inbox /\ Head(ssi_inbox) = ssi_inbox[1]
           /\ Head(ssi_inbox) \in Requests
<1>1. PICK new : new = ssi_inbox'
  OBVIOUS
<1>2. new = Tail(ssi_inbox) /\ ssi_inbox \in Seq(Requests)
  BY <1>1 DEF SsiPasses, BaseType
<1>3. /\ new \in Seq(Requests) /\ Len(ssi_inbox) \in Nat
      /\ DOMAIN ssi_inbox = 1..Len(ssi_inbox) /\ DOMAIN new = 1..(Len(ssi_inbox) - 1)
      /\ \A j \in DOMAIN new : new[j] = ssi_inbox[j + 1]
      /\ 1 \in DOMAIN ssi_inbox /\ Head(ssi_inbox) = ssi_inbox[1]
  BY <1>2, TailElements
<1>4. ssi_inbox[1] \in Requests
  BY <1>2, <1>3, ElementOfSeq
<1> QED BY <1>1, <1>3, <1>4

LEMMA GoesFacts ==
    ASSUME BaseType, NEW p \in Process, NEW place \in Place, Goes(p, place)
    PROVE  /\ pc' \in [Process -> Place] /\ pc'[p] = place
           /\ \A q \in Process \ {p} : pc'[q] = pc[q]
BY DEF BaseType, Goes

(* What the requests look like.                                            *)
LEMMA AskFacts ==
    /\ \A p \in Process, to \in Process :
          /\ Asks("CREATEPROCESS", to) \in Ask /\ Asks("TERMPROCESS", to) \in Ask
          /\ Asks("GETSUPPORTPTR", to) \in Ask
          /\ p = TEST \/ p[1] = "sst" => [from |-> p, ask |-> Creates(to)] \in Requests
          /\ p = TEST \/ p[1] = "sst" => [from |-> p, ask |-> Asks("GETSUPPORTPTR", to)] \in Requests
    /\ \A p \in Process : [from |-> p, ask |-> Asks("TERMPROCESS", p)] \in Requests
    /\ [from |-> TEST, ask |-> Asks("TERMPROCESS", MUTEX)] \in Requests
    /\ \A a \in Asid : [from |-> Sst(a), ask |-> Asks("TERMPROCESS", Uproc(a))] \in Requests
    /\ \A a \in Asid, reg \in {"data0", "command"}, dev \in Dev, v \in Int :
          /\ Commands(reg, dev, v) \in Ask
          /\ [from |-> Sst(a), ask |-> Commands(reg, dev, v)] \in Requests
<1>1. ASSUME NEW p \in Process, NEW to \in Process
      PROVE  /\ Asks("CREATEPROCESS", to) \in Ask /\ Asks("TERMPROCESS", to) \in Ask
             /\ Asks("GETSUPPORTPTR", to) \in Ask
             /\ p = TEST \/ p[1] = "sst" => [from |-> p, ask |-> Creates(to)] \in Requests
             /\ p = TEST \/ p[1] = "sst" =>
                   [from |-> p, ask |-> Asks("GETSUPPORTPTR", to)] \in Requests
  BY DEF Asks, Creates, Ask, Requests
<1>2. ASSUME NEW p \in Process, NEW to \in Process,
             \/ to = p
             \/ p = TEST /\ to = MUTEX
             \/ \E a \in Asid : p = Sst(a) /\ to = Uproc(a)
      PROVE  [from |-> p, ask |-> Asks("TERMPROCESS", to)] \in Requests
  BY <1>2 DEF Asks, Ask, Requests
<1>3. ASSUME NEW a \in Asid, NEW reg \in {"data0", "command"}, NEW dev \in Dev, NEW v \in Int
      PROVE  /\ Commands(reg, dev, v) \in Ask
             /\ [from |-> Sst(a), ask |-> Commands(reg, dev, v)] \in Requests
  <2>1. Sst(a) \in Process /\ Sst(a)[1] = "sst"
    BY Names
  <2> QED BY <2>1 DEF Commands, Ask, Requests
<1>4. ASSUME NEW p \in Process  PROVE [from |-> p, ask |-> Asks("TERMPROCESS", p)] \in Requests
  BY DEF Asks, Ask, Requests
<1>5. [from |-> TEST, ask |-> Asks("TERMPROCESS", MUTEX)] \in Requests
  BY <1>2, Names
<1>6. \A a \in Asid : [from |-> Sst(a), ask |-> Asks("TERMPROCESS", Uproc(a))] \in Requests
  BY <1>2, Names
<1> QED BY <1>1, <1>3, <1>4, <1>5, <1>6

(* What the messages look like.                                            *)
LEMMA MailFacts ==
    /\ \A p \in Process : p = TEST \/ p[1] = "sst" => [from |-> SSI, what |-> DONE] \in MailTo(p)
    /\ \A a \in Asid :
          /\ [from |-> SSI, what |-> FAILED] \in MailTo(Sst(a))
          /\ \A what \in Request(a) \cup {NULL} : [from |-> Uproc(a), what |-> what] \in MailTo(Sst(a))
          /\ [from |-> Sst(a), what |-> NULL] \in MailTo(TEST)
          /\ [from |-> Sst(a), what |-> DONE] \in MailTo(Uproc(a))
<1>1. \A p \in Process \cup {SSI}, what \in Content : [from |-> p, what |-> what] \in Message
  BY DEF Message, Content
<1>2. DONE \in Content /\ FAILED \in Content /\ NULL \in Content
  BY ContentFacts
<1>3. \A p \in Process : p = TEST \/ p[1] = "sst" => [from |-> SSI, what |-> DONE] \in MailTo(p)
  BY <1>1, <1>2 DEF MailTo
<1>4. ASSUME NEW a \in Asid
      PROVE  /\ [from |-> SSI, what |-> FAILED] \in MailTo(Sst(a))
             /\ \A what \in Request(a) \cup {NULL} :
                   [from |-> Uproc(a), what |-> what] \in MailTo(Sst(a))
             /\ [from |-> Sst(a), what |-> NULL] \in MailTo(TEST)
             /\ [from |-> Sst(a), what |-> DONE] \in MailTo(Uproc(a))
  <2>1. /\ Sst(a) \in Process /\ Sst(a)[1] = "sst" /\ AsidOf(Sst(a)) = a
        /\ Uproc(a) \in Process /\ Uproc(a)[1] = "uproc" /\ AsidOf(Uproc(a)) = a
    BY Names
  <2>2. \A what \in Request(a) : what \in Content
    BY RequestFacts
  <2>3. [from |-> SSI, what |-> FAILED] \in MailTo(Sst(a))
    BY <1>1, <1>2, <2>1 DEF MailTo
  <2>4. \A what \in Request(a) \cup {NULL} : [from |-> Uproc(a), what |-> what] \in MailTo(Sst(a))
    BY <1>1, <1>2, <2>1, <2>2 DEF MailTo
  <2>5. [from |-> Sst(a), what |-> NULL] \in MailTo(TEST)
    BY <1>1, <1>2, <2>1 DEF MailTo
  <2>6. [from |-> Sst(a), what |-> DONE] \in MailTo(Uproc(a))
    BY <1>1, <1>2, <2>1 DEF MailTo
  <2> QED BY <2>3, <2>4, <2>5, <2>6
<1> QED BY <1>3, <1>4
-----------------------------------------------------------------------------
(* Types, and who has a support structure                                  *)

LEMMA SupInit == Init => SupInv
<1> SUFFICES ASSUME Init PROVE SupInv
  OBVIOUS
<1>1. <<>> \in Seq(Message) /\ <<>> \in Seq(Requests) /\ <<>> \in Seq(Int) /\ <<>> \in Seq(Asid)
      /\ \A p \in Process : <<>> \in Seq(MailTo(p))
  OBVIOUS
<1>2. UPROCMAX \in Nat
  BY SupportAssumption
<1>3. TEST \in Process /\ TEST[1] = "test" /\ \A a \in Asid : Sst(a) \in Process /\ Sst(a) # TEST
  BY Names
<1>4. NULL \in Payload
  BY ContentFacts
<1>5. alive \subseteq Process /\ pc \in [Process -> Place]
  BY <1>3 DEF Init, Place
<1>6. /\ inbox \in [Process -> Seq(Message)] /\ ssi_inbox \in Seq(Requests)
      /\ \A p \in Process : inbox[p] \in Seq(MailTo(p))
  BY <1>1 DEF Init
<1>7. /\ sst_pcbs \subseteq Asid /\ released \subseteq Asid /\ heard \in 0..UPROCMAX
      /\ supportFree \in Seq(Asid) /\ supportOf \in [Asid -> 0..UPROCMAX]
  BY <1>1, <1>2 DEF Init
<1>8. work \in [Asid -> Payload] /\ device \in [Asid \X Dev -> [data0 : Int, busy : Int]]
  BY <1>4 DEF Init, NOCHAR
<1>9. /\ asked \in [Asid -> Nat] /\ wanted \in [Asid \X Dev -> Nat]
      /\ printed \in [Asid \X Dev -> Seq(Int)]
  BY <1>1 DEF Init
<1>10. Writes
  BY <1>3 DEF Init, Writes, Writing
<1>11. Supported
  BY <1>3 DEF Init, Supported, Equipped
<1> QED BY <1>5, <1>6, <1>7, <1>8, <1>9, <1>10, <1>11 DEF SupInv, BaseType

LEMMA StillSupported ==
    ASSUME SupInv, \A a \in Asid : supportOf[a] # 0 => supportOf'[a] # 0,
           alive' \subseteq alive \cup Equipped,
           \A i \in DOMAIN ssi_inbox' :
              \/ \E j \in DOMAIN ssi_inbox : ssi_inbox'[i] = ssi_inbox[j]
              \/ ssi_inbox'[i].ask.op # "CREATEPROCESS"
              \/ ssi_inbox'[i].ask.arg \in Equipped'
    PROVE  Supported'
<1>1. /\ alive \subseteq Equipped
      /\ \A i \in DOMAIN ssi_inbox :
            ssi_inbox[i].ask.op = "CREATEPROCESS" => ssi_inbox[i].ask.arg \in Equipped
  BY DEF SupInv, Supported
<1>2. Equipped \subseteq Equipped'
  BY Names DEF Equipped
<1>3. alive' \subseteq Equipped'
  BY <1>1, <1>2
<1>4. ASSUME NEW i \in DOMAIN ssi_inbox', ssi_inbox'[i].ask.op = "CREATEPROCESS"
      PROVE  ssi_inbox'[i].ask.arg \in Equipped'
  BY <1>1, <1>2, <1>4
<1> QED BY <1>3, <1>4 DEF Supported

(* Most steps leave processes and structures as they are, and append one   *)
(* request to the inbox of the SSI that creates nothing, or none.          *)
LEMMA AsksOther ==
    ASSUME SupInv, NEW p \in Process, NEW ask \in Ask, [from |-> p, ask |-> ask] \in Requests,
           SendsSsi(p, ask), ask.op # "CREATEPROCESS" \/ ask.arg \in Equipped,
           alive' = alive, supportOf' = supportOf
    PROVE  Supported'
<1>1. /\ DOMAIN ssi_inbox = 1..Len(ssi_inbox) /\ DOMAIN ssi_inbox' = 1..(Len(ssi_inbox) + 1)
      /\ \A j \in DOMAIN ssi_inbox : ssi_inbox'[j] = ssi_inbox[j]
      /\ ssi_inbox'[Len(ssi_inbox) + 1] = [from |-> p, ask |-> ask]
      /\ Len(ssi_inbox) \in Nat
  BY SendsSsiFacts DEF SupInv
<1>2. Equipped' = Equipped
  BY DEF Equipped
<1>3. ASSUME NEW i \in DOMAIN ssi_inbox'
      PROVE  \/ \E j \in DOMAIN ssi_inbox : ssi_inbox'[i] = ssi_inbox[j]
             \/ ssi_inbox'[i].ask.op # "CREATEPROCESS"
             \/ ssi_inbox'[i].ask.arg \in Equipped'
  <2>1. CASE i \in DOMAIN ssi_inbox
    BY <1>1, <2>1
  <2>2. CASE i = Len(ssi_inbox) + 1
    BY <1>1, <1>2, <2>2
  <2> QED BY <1>1, <2>1, <2>2
<1> QED BY <1>3, StillSupported

LEMMA AsksNothing ==
    ASSUME SupInv, UNCHANGED <<ssi_inbox, alive, supportOf>>
    PROVE  Supported'
BY StillSupported
(* The steps of test.                                                      *)
LEMMA TestStepTypes ==
    ASSUME SupInv, TestStep
    PROVE  SupInv'
<1> USE DEF SupInv
<1>0. /\ TEST \in Process /\ MUTEX \in Process /\ \A a \in Asid : Sst(a) # TEST
      /\ MUTEX[1] = "mutex"
  BY Names
<1>1. /\ Asks("CREATEPROCESS", MUTEX) \in Ask /\ Asks("TERMPROCESS", MUTEX) \in Ask
      /\ Asks("TERMPROCESS", TEST) \in Ask
      /\ [from |-> TEST, ask |-> Creates(MUTEX)] \in Requests
      /\ [from |-> TEST, ask |-> Asks("TERMPROCESS", MUTEX)] \in Requests
      /\ [from |-> TEST, ask |-> Asks("TERMPROCESS", TEST)] \in Requests
  BY <1>0, AskFacts
<1>2. \A place \in Place : Goes(TEST, place) =>
         pc' \in [Process -> Place] /\ \A a \in Asid : pc'[Sst(a)] = pc[Sst(a)]
  BY <1>0, GoesFacts, Names
<1>3. UNCHANGED work /\ (\A a \in Asid : pc'[Sst(a)] = pc[Sst(a)]) => Writes'
  BY DEF Writes, Writing
<1>4. CASE TestInit
  <2>1. /\ Goes(TEST, "created") /\ SendsSsi(TEST, Creates(MUTEX)) /\ supportFree' = initSupports
        /\ UNCHANGED <<alive, inbox, ioVars, sst_pcbs, supportOf, heard, released, userVars>>
    BY <1>4 DEF TestInit, AsksSsi
  <2>2. Supported'
    <3>1. MUTEX \in Equipped /\ Creates(MUTEX).arg = MUTEX /\ Creates(MUTEX) \in Ask
      BY <1>0, <1>1 DEF Equipped, Creates, Asks
    <3> QED BY <1>0, <1>1, <2>1, <3>1, AsksOther
  <2>3. ssi_inbox' \in Seq(Requests)
    BY <1>0, <1>1, <2>1, SendsSsiFacts DEF Creates
  <2>4. supportFree' \in Seq(Asid)
    BY <2>1, InitSupports
  <2>5. pc' \in [Process -> Place] /\ Writes'
    BY <1>2, <1>3, <2>1 DEF Place, ioVars
  <2> QED BY <2>1, <2>2, <2>3, <2>4, <2>5 DEF BaseType, ioVars, userVars
<1>5. CASE TestCreates
  <2>1. /\ Receives(TEST, {SSI}) /\ UNCHANGED <<alive, ioVars, heard, released, userVars>>
        /\ sst_pcbs' = 1..(NextSst - 1)
    BY <1>5 DEF TestCreates
  <2>2. inbox' \in [Process -> Seq(Message)] /\ \A p \in Process : inbox'[p] \in Seq(MailTo(p))
    BY <1>0, <2>1, ReceivesFacts
  <2>3. NextSst \in 1..(UPROCMAX + 1)
    <3>1. UPROCMAX \in Nat /\ IsFiniteSet(1..UPROCMAX) /\ Cardinality(1..UPROCMAX) = UPROCMAX
      BY SupportAssumption, CountTo
    <3>2. PICK S : S = {a \in Asid : supportOf[a] # 0}
      OBVIOUS
    <3>3. S \subseteq 1..UPROCMAX
      BY <3>2 DEF Asid
    <3>4. IsFiniteSet(S) /\ Cardinality(S) \in Nat /\ Cardinality(S) <= UPROCMAX
      BY <3>1, <3>3, FS_Subset, FS_CardinalityType
    <3> QED BY <3>1, <3>2, <3>4 DEF NextSst
  <2>4. sst_pcbs' \subseteq Asid
    BY <2>1, <2>3, SupportAssumption DEF Asid
  <2>5. CASE NextSst <= UPROCMAX
    <3>1. /\ allocSupport(NextSst) /\ SendsSsi(TEST, Creates(Sst(NextSst)))
          /\ Goes(TEST, "created")
      BY <1>5, <2>5 DEF TestCreates, AsksSsi
    <3>2. PICK n \in Asid : n = NextSst
      BY <2>3, <2>5, SupportAssumption DEF Asid
    <3>3. /\ supportFree' \in Seq(Asid) /\ supportOf' \in [Asid -> 0..UPROCMAX]
          /\ supportOf'[n] # 0 /\ \A a \in Asid : supportOf[a] # 0 => supportOf'[a] # 0
      <4>1. Head(supportFree) \in Asid /\ Tail(supportFree) \in Seq(Asid)
        BY <3>1, HeadTailProperties DEF allocSupport, BaseType
      <4>2. Head(supportFree) \in 0..UPROCMAX /\ Head(supportFree) # 0
        BY <4>1 DEF Asid
      <4>3. supportOf' = [supportOf EXCEPT ![n] = Head(supportFree)]
        BY <3>1, <3>2 DEF allocSupport
      <4>4. supportFree' = Tail(supportFree)
        BY <3>1 DEF allocSupport
      <4>5. supportOf \in [Asid -> 0..UPROCMAX]
        BY DEF BaseType
      <4> QED BY <4>1, <4>2, <4>3, <4>4, <4>5
    <3>4. /\ Sst(n) \in Process /\ Sst(n) \in Equipped'
          /\ [from |-> TEST, ask |-> Creates(Sst(n))] \in Requests /\ Creates(Sst(n)) \in Ask
          /\ Creates(Sst(n)).arg = Sst(n)
      <4>1. Sst(n) \in Process /\ AsidOf(Sst(n)) = n
        BY Names
      <4>2. [from |-> TEST, ask |-> Creates(Sst(n))] \in Requests /\ Creates(Sst(n)) \in Ask
        BY <1>0, <4>1, AskFacts DEF Creates
      <4> QED BY <3>3, <4>1, <4>2 DEF Equipped, Creates, Asks
    <3>5. /\ ssi_inbox' \in Seq(Requests) /\ Len(ssi_inbox) \in Nat
          /\ DOMAIN ssi_inbox = 1..Len(ssi_inbox) /\ DOMAIN ssi_inbox' = 1..(Len(ssi_inbox) + 1)
          /\ \A j \in DOMAIN ssi_inbox : ssi_inbox'[j] = ssi_inbox[j]
          /\ ssi_inbox'[Len(ssi_inbox) + 1] = [from |-> TEST, ask |-> Creates(Sst(n))]
      BY <1>0, <3>1, <3>2, <3>4, SendsSsiFacts
    <3>6. Supported'
      <4>1. ASSUME NEW i \in DOMAIN ssi_inbox'
            PROVE  \/ \E j \in DOMAIN ssi_inbox : ssi_inbox'[i] = ssi_inbox[j]
                   \/ ssi_inbox'[i].ask.op # "CREATEPROCESS"
                   \/ ssi_inbox'[i].ask.arg \in Equipped'
        <5>1. CASE i \in DOMAIN ssi_inbox
          BY <3>5, <5>1
        <5>2. CASE i = Len(ssi_inbox) + 1
          BY <3>4, <3>5, <5>2
        <5> QED BY <3>5, <5>1, <5>2
      <4> QED BY <2>1, <3>3, <4>1, StillSupported
    <3>7. pc' \in [Process -> Place] /\ Writes'
      BY <1>2, <1>3, <2>1, <3>1 DEF Place, ioVars
    <3> QED BY <2>1, <2>2, <2>4, <3>3, <3>5, <3>6, <3>7 DEF BaseType, ioVars, userVars
  <2>6. CASE ~ (NextSst <= UPROCMAX)
    <3>1. Goes(TEST, "listen") /\ UNCHANGED <<ssi_inbox, supportOf, supportFree>>
      BY <1>5, <2>6 DEF TestCreates
    <3>2. Supported'
      BY <2>1, <3>1, AsksNothing
    <3>3. pc' \in [Process -> Place] /\ Writes'
      BY <1>2, <1>3, <2>1, <3>1 DEF Place, ioVars
    <3> QED BY <2>1, <2>2, <2>4, <3>1, <3>2, <3>3 DEF BaseType, ioVars, userVars
  <2> QED BY <2>5, <2>6
<1>6. CASE TestListens
  <2>1. /\ Receives(TEST, Process) /\ heard' = heard + 1 /\ heard < UPROCMAX
        /\ released' = released \cup {AsidOf(Letter(TEST, Process).from)}
        /\ UNCHANGED <<alive, ioVars, sst_pcbs, supportFree, supportOf, userVars>>
    BY <1>6 DEF TestListens
  <2>2. inbox' \in [Process -> Seq(Message)] /\ \A p \in Process : inbox'[p] \in Seq(MailTo(p))
    BY <1>0, <2>1, ReceivesFacts
  <2>3. AsidOf(Letter(TEST, Process).from) \in Asid
    <3>1. PICK m \in MailTo(TEST) : m.from \in Process /\ Letter(TEST, Process) = m
      BY <1>0, <2>1, ReceivesFacts
    <3>2. m.from[1] = "sst"
      <4>1. TEST[1] # "sst" /\ TEST[1] # "uproc" /\ m.from # SSI
        BY <3>1, Names
      <4> QED BY <3>1, <4>1 DEF MailTo
    <3>3. TEST[1] # "sst" /\ MUTEX[1] # "sst"
      BY Names
    <3> QED BY <3>1, <3>2, <3>3, Names
  <2>4. heard' \in 0..UPROCMAX /\ released' \subseteq Asid
    BY <2>1, <2>3, SupportAssumption DEF BaseType
  <2>5. CASE heard' = UPROCMAX
    <3>1. SendsSsi(TEST, Asks("TERMPROCESS", MUTEX)) /\ Goes(TEST, "termSelf")
      BY <1>6, <2>5 DEF TestListens, AsksSsi
    <3>2. ssi_inbox' \in Seq(Requests)
      BY <1>0, <1>1, <3>1, SendsSsiFacts
    <3>3. Supported'
      <4>1. Asks("TERMPROCESS", MUTEX).op # "CREATEPROCESS"
        BY DEF Asks
      <4> QED BY <1>0, <1>1, <2>1, <3>1, <4>1, AsksOther
    <3>4. pc' \in [Process -> Place] /\ Writes'
      BY <1>2, <1>3, <2>1, <3>1 DEF Place, ioVars
    <3> QED BY <2>1, <2>2, <2>4, <3>2, <3>3, <3>4 DEF BaseType, ioVars, userVars
  <2>6. CASE heard' # UPROCMAX
    <3>1. UNCHANGED <<pc, ssi_inbox>>
      BY <1>6, <2>6 DEF TestListens
    <3>2. Supported'
      BY <2>1, <3>1, AsksNothing
    <3>3. pc' \in [Process -> Place] /\ Writes'
      BY <1>3, <2>1, <3>1 DEF BaseType, ioVars
    <3> QED BY <2>1, <2>2, <2>4, <3>1, <3>2, <3>3 DEF BaseType, ioVars, userVars
  <2> QED BY <2>5, <2>6
<1>7. CASE TestEnds
  <2>1. /\ Receives(TEST, {SSI}) /\ SendsSsi(TEST, Asks("TERMPROCESS", TEST)) /\ Goes(TEST, "ending")
        /\ UNCHANGED <<alive, ioVars, tableVars, userVars>>
    BY <1>7 DEF TestEnds, AsksSsi
  <2>2. inbox' \in [Process -> Seq(Message)] /\ \A p \in Process : inbox'[p] \in Seq(MailTo(p))
    BY <1>0, <2>1, ReceivesFacts
  <2>3. ssi_inbox' \in Seq(Requests)
    BY <1>0, <1>1, <2>1, SendsSsiFacts
  <2>4. Supported'
    <3>1. Asks("TERMPROCESS", TEST).op # "CREATEPROCESS"
      BY DEF Asks
    <3> QED BY <1>0, <1>1, <2>1, <3>1, AsksOther DEF tableVars
  <2>5. pc' \in [Process -> Place] /\ Writes'
    BY <1>2, <1>3, <2>1 DEF Place, ioVars
  <2> QED BY <2>1, <2>2, <2>3, <2>4, <2>5 DEF BaseType, ioVars, userVars, tableVars
<1> QED BY <1>4, <1>5, <1>6, <1>7 DEF TestStep

(* The SSI ends the victims' claims to their structures and inboxes.       *)
LEMMA ProgenyFacts ==
    ASSUME BaseType, NEW p \in Process
    PROVE  /\ Progeny(p) \subseteq alive
           /\ p \in alive => p \in Progeny(p)
           /\ \A a \in Asid : p = Sst(a) => Progeny(p) \subseteq {Sst(a), Uproc(a)}
           /\ \A a \in Asid : p = Uproc(a) => Progeny(p) \subseteq {Uproc(a)}
           /\ p = MUTEX => Progeny(p) \subseteq {MUTEX}
<1>1. alive \subseteq Process
  BY DEF BaseType
<1>2. CASE p = TEST
  BY <1>2, Names DEF Progeny
<1>3. CASE p # TEST /\ p[1] = "sst"
  <2>1. Progeny(p) = {p, Uproc(AsidOf(p))} \cap alive
    BY <1>3 DEF Progeny
  <2> QED BY <1>3, <2>1, Names
<1>4. CASE p # TEST /\ p[1] # "sst"
  <2>1. Progeny(p) = {p} \cap alive
    BY <1>4 DEF Progeny
  <2> QED BY <1>4, <2>1, Names
<1> QED BY <1>2, <1>3, <1>4

LEMMA TerminatesFacts ==
    ASSUME SupInv, NEW m \in Requests, Terminates(m)
    PROVE  /\ alive' = alive \ Progeny(m.ask.arg) /\ supportFree' \in Seq(Asid)
           /\ inbox' \in [Process -> Seq(Message)]
           /\ \A p \in Process : inbox'[p] \in Seq(MailTo(p))
           /\ m.ask.arg \in Process
           /\ \A p \in Process :
                 inbox'[p] = IF p \in Progeny(m.ask.arg) THEN <<>>
                             ELSE IF p = m.from /\ p \in alive
                             THEN Append(inbox[p], [from |-> SSI, what |-> DONE]) ELSE inbox[p]
           /\ m.from \notin Progeny(m.ask.arg) /\ m.from \in alive =>
                 m.from = TEST \/ m.from[1] = "sst"
<1> USE DEF SupInv
<1>1. PICK arg : arg = m.ask.arg
  OBVIOUS
<1>2. PICK gone : gone = Progeny(arg)
  OBVIOUS
<1>3. m.from \in Process /\ arg \in Process
  <2>1. m.ask.op = "TERMPROCESS"
    BY DEF Terminates
  <2> QED BY <1>1, <2>1, Names DEF Requests
<1>4. gone \subseteq alive /\ (arg \in alive => arg \in gone)
  BY <1>2, <1>3, ProgenyFacts
<1>5. m.from \notin gone /\ m.from \in alive => m.from = TEST \/ m.from[1] = "sst"
  <2>1. \/ arg = m.from \/ m.from = TEST
        \/ \E a \in Asid : m.from = Sst(a)
    BY <1>1 DEF Requests, Terminates
  <2> QED BY <1>4, <2>1, Names
<1>6. /\ alive' = alive \ gone /\ supportFree' = FreeAfter(gone)
      /\ inbox' = [p \in Process |->
             IF p \in gone THEN <<>>
             ELSE IF p = m.from /\ p \in alive
             THEN Append(inbox[p], [from |-> SSI, what |-> DONE])
             ELSE inbox[p]]
  BY <1>1, <1>2 DEF Terminates
<1>7. supportFree' \in Seq(Asid)
  <2>1. ASSUME NEW a \in Asid, Sst(a) \in gone \/ Uproc(a) \in gone  PROVE supportOf[a] \in Asid
    <3>1. supportOf[a] # 0
      BY <1>4, <2>1, Names DEF Supported, Equipped
    <3>2. supportOf[a] \in 0..UPROCMAX
      BY DEF BaseType
    <3> QED BY <3>1, <3>2 DEF Asid
  <2> QED BY <1>6, <2>1, FreesStructures DEF BaseType
<1>8. ASSUME NEW p \in Process
      PROVE  inbox'[p] \in Seq(Message) /\ inbox'[p] \in Seq(MailTo(p))
  <2>1. inbox[p] \in Seq(Message) /\ inbox[p] \in Seq(MailTo(p))
    BY DEF BaseType
  <2>2. CASE p \in gone
    BY <1>6, <2>2
  <2>3. CASE p \notin gone /\ p = m.from /\ p \in alive
    <3>1. [from |-> SSI, what |-> DONE] \in MailTo(p) /\ [from |-> SSI, what |-> DONE] \in Message
      BY <1>5, <2>3, MailFacts DEF MailTo
    <3> QED BY <1>6, <2>1, <2>3, <3>1, AppendProperties
  <2>4. CASE p \notin gone /\ ~ (p = m.from /\ p \in alive)
    BY <1>6, <2>1, <2>4
  <2> QED BY <2>2, <2>3, <2>4
<1>9. inbox' \in [Process -> Seq(Message)]
  <2>1. PICK new : new = inbox'
    OBVIOUS
  <2>2. new = [p \in Process |-> new[p]] /\ \A p \in Process : new[p] \in Seq(Message)
    BY <1>6, <1>8, <2>1
  <2> QED BY <2>1, <2>2
<1>10. \A p \in Process :
           inbox'[p] = IF p \in gone THEN <<>>
                       ELSE IF p = m.from /\ p \in alive
                       THEN Append(inbox[p], [from |-> SSI, what |-> DONE]) ELSE inbox[p]
  BY <1>6
<1> QED BY <1>1, <1>2, <1>3, <1>5, <1>6, <1>7, <1>8, <1>9, <1>10

LEMMA SsiStepTypes ==
    ASSUME SupInv, SsiServes
    PROVE  SupInv'
<1> USE DEF SupInv
<1>1. PICK m : m = Head(ssi_inbox)
  OBVIOUS
<1>2. /\ m \in Requests /\ ssi_inbox # <<>> /\ SsiPasses
      /\ CreatesProcess(m) \/ GetsSupport(m) \/ Terminates(m) \/ DoesIo(m)
      /\ UNCHANGED <<pc, work, printed, sst_pcbs, supportOf, heard, released, userVars>>
  BY <1>1, SsiPassesFacts DEF SsiServes
<1>3. /\ ssi_inbox' \in Seq(Requests) /\ Len(ssi_inbox) \in Nat
      /\ DOMAIN ssi_inbox = 1..Len(ssi_inbox) /\ DOMAIN ssi_inbox' = 1..(Len(ssi_inbox) - 1)
      /\ \A j \in DOMAIN ssi_inbox' : ssi_inbox'[j] = ssi_inbox[j + 1]
      /\ 1 \in DOMAIN ssi_inbox /\ m = ssi_inbox[1]
  BY <1>1, <1>2, SsiPassesFacts
<1>4. alive' \subseteq alive \cup Equipped => Supported'
  <2>1. \A i \in DOMAIN ssi_inbox' : i + 1 \in DOMAIN ssi_inbox /\ ssi_inbox'[i] = ssi_inbox[i + 1]
    BY <1>3
  <2> QED BY <1>2, <2>1, StillSupported
<1>5. Writes'
  BY <1>2 DEF Writes, Writing
<1>6. m.from \in Process /\ m.ask \in Ask
  BY <1>2 DEF Requests
<1>7. ASSUME Sends(SSI, m.from, DONE), m.ask.op \in {"CREATEPROCESS", "GETSUPPORTPTR"}
      PROVE  inbox' \in [Process -> Seq(Message)] /\ \A p \in Process : inbox'[p] \in Seq(MailTo(p))
  <2>1. m.from = TEST \/ m.from[1] = "sst"
    BY <1>2, <1>7 DEF Requests
  <2> QED BY <1>6, <1>7, <2>1, MailFacts, ContentFacts, SendsFacts
<1>8. CASE CreatesProcess(m)
  <2>1. /\ m.ask.op = "CREATEPROCESS" /\ alive' = alive \cup {m.ask.arg} /\ Sends(SSI, m.from, DONE)
        /\ UNCHANGED <<device, supportFree>>
    BY <1>8 DEF CreatesProcess
  <2>2. m.ask.arg \in Equipped /\ m.ask.arg \in Process
    BY <1>2, <1>3, <2>1 DEF Supported, Requests
  <2>3. Supported'
    BY <1>4, <2>1, <2>2
  <2> QED BY <1>2, <1>3, <1>5, <1>7, <2>1, <2>2, <2>3 DEF BaseType, userVars
<1>9. CASE GetsSupport(m)
  <2>1. /\ m.ask.op = "GETSUPPORTPTR" /\ Sends(SSI, m.from, DONE)
        /\ UNCHANGED <<alive, device, supportFree>>
    BY <1>9 DEF GetsSupport
  <2>2. Supported'
    BY <1>4, <2>1
  <2> QED BY <1>2, <1>3, <1>5, <1>7, <2>1, <2>2 DEF BaseType, userVars
<1>10. CASE Terminates(m)
  <2>1. /\ alive' \subseteq alive /\ supportFree' \in Seq(Asid)
        /\ inbox' \in [Process -> Seq(Message)]
        /\ \A p \in Process : inbox'[p] \in Seq(MailTo(p))
    BY <1>2, <1>10, TerminatesFacts
  <2>2. Supported' /\ UNCHANGED device
    BY <1>4, <1>10, <2>1 DEF Terminates
  <2> QED BY <1>2, <1>3, <1>5, <2>1, <2>2 DEF BaseType, userVars
<1>11. CASE DoesIo(m)
  <2>1. /\ m.ask.op \in {"data0", "command"} /\ UNCHANGED <<alive, inbox, supportFree>>
    BY <1>11 DEF DoesIo
  <2>2. PICK k \in Asid \X Dev : k = <<AsidOf(m.from), m.ask.dev>>
    <3>1. m.from[1] = "sst" /\ m.ask.dev \in Dev
      BY <1>2, <2>1 DEF Requests
    <3>2. AsidOf(m.from) \in Asid
      BY <1>6, <3>1, Names
    <3> QED BY <3>1, <3>2
  <2>3. device' \in [Asid \X Dev -> [data0 : Int, busy : Int]]
    <3>1. device \in [Asid \X Dev -> [data0 : Int, busy : Int]] /\ m.ask.value \in Int
      BY <1>6 DEF BaseType, Ask
    <3>2. device[k].data0 \in Int
      BY <3>1
    <3>3. CASE m.ask.op = "data0"
      <4>1. device' = [device EXCEPT ![k].data0 = m.ask.value]
        BY <1>11, <2>2, <3>3 DEF DoesIo
      <4> QED BY <3>1, <4>1
    <3>4. CASE m.ask.op # "data0"
      <4>1. PICK v \in Int : device' = [device EXCEPT ![k].busy = v]
        BY <1>11, <2>2, <3>1, <3>2, <3>4 DEF DoesIo
      <4> QED BY <3>1, <4>1
    <3> QED BY <3>3, <3>4
  <2>4. Supported'
    BY <1>4, <2>1
  <2> QED BY <1>2, <1>3, <1>5, <2>1, <2>3, <2>4 DEF BaseType, userVars
<1> QED BY <1>2, <1>8, <1>9, <1>10, <1>11

LEMMA DeviceStepTypes ==
    ASSUME SupInv, NEW a \in Asid, NEW d \in Dev, DeviceEnds(a, d)
    PROVE  SupInv'
<1> USE DEF SupInv
<1>1. /\ device' = [device EXCEPT ![<<a, d>>].busy = 0]
      /\ UNCHANGED <<alive, pc, ssi_inbox, work, tableVars, userVars>>
  BY DEF DeviceEnds
<1>2. PICK k \in Asid \X Dev : k = <<a, d>>
  OBVIOUS
<1>3. device' \in [Asid \X Dev -> [data0 : Int, busy : Int]] /\ device[k].busy \in Int
  <2>1. device \in [Asid \X Dev -> [data0 : Int, busy : Int]]
    BY DEF BaseType
  <2>2. device[k].busy \in Int
    BY <2>1
  <2>3. device' = [device EXCEPT ![k].busy = 0]
    BY <1>1, <1>2
  <2> QED BY <2>1, <2>2, <2>3
<1>4. printed' \in [Asid \X Dev -> Seq(Int)]
  <2>1. \/ printed' = printed
        \/ printed' = [printed EXCEPT ![k] = Append(printed[k], device[k].busy)]
    BY <1>2 DEF DeviceEnds
  <2>2. printed \in [Asid \X Dev -> Seq(Int)]
    BY DEF BaseType
  <2>3. Append(printed[k], device[k].busy) \in Seq(Int)
    BY <1>3, <2>2, AppendProperties
  <2> QED BY <2>1, <2>2, <2>3
<1>5. inbox' \in [Process -> Seq(Message)] /\ \A p \in Process : inbox'[p] \in Seq(MailTo(p))
  <2>1. Sst(a) \in Process /\ Sst(a)[1] = "sst"
    BY Names
  <2>2. CASE Sends(SSI, Sst(a), DONE)
    BY <2>1, <2>2, MailFacts, ContentFacts, SendsFacts
  <2>3. CASE Sends(SSI, Sst(a), FAILED)
    BY <2>1, <2>3, MailFacts, ContentFacts, SendsFacts
  <2> QED BY <2>2, <2>3 DEF DeviceEnds
<1>6. Supported'
  BY <1>1, AsksNothing DEF tableVars
<1>7. Writes'
  BY <1>1 DEF Writes, Writing
<1> QED BY <1>1, <1>3, <1>4, <1>5, <1>6, <1>7 DEF BaseType, tableVars, userVars

(* A step of one SST or U-proc changes what is at its own ASID.            *)
LEMMA OwnWrites ==
    ASSUME SupInv, NEW p \in Process, NEW a \in Asid, p \in {Sst(a), Uproc(a)},
           \A q \in Process \ {p} : pc'[q] = pc[q],
           \A b \in Asid \ {a} : work'[b] = work[b],
           Writing(a)' => work'[a].dev \in Dev /\ work'[a].length > 0
    PROVE  Writes'
<1>1. ASSUME NEW b \in Asid, Writing(b)'  PROVE work'[b].dev \in Dev /\ work'[b].length > 0
  <2>1. CASE b = a
    BY <1>1, <2>1
  <2>2. CASE b # a
    <3>1. Sst(b) \in Process \ {p}
      BY <2>2, Names, DifferentNames
    <3>2. Writing(b) /\ work'[b] = work[b]
      BY <1>1, <2>2, <3>1 DEF Writing
    <3> QED BY <3>2 DEF SupInv, Writes
  <2> QED BY <2>1, <2>2
<1> QED BY <1>1 DEF Writes

LEMMA PlaceFacts ==
    ASSUME NEW what \in Payload, what.dev \in Dev
    PROVE  /\ PlaceFor(what) \in {"answer", "data0", "command"}
           /\ PlaceFor(what) # "answer" => what.length > 0
           /\ PlaceFor(what) = "answer" <=> what.length = 0
           /\ PlaceFor(what) = "data0" => what.dev = "IL_PRINTER"
BY DEF PlaceFor, Payload, Dev

LEMMA SstStepTypes ==
    ASSUME SupInv, NEW a \in Asid, SstStep(a)
    PROVE  SupInv'
<1> USE DEF SupInv
<1> DEFINE s == Sst(a)
<1>0. s \in Process /\ s[1] = "sst" /\ Uproc(a) \in Process /\ s # TEST
  BY Names
<1>1. /\ work \in [Asid -> Payload] /\ work[a] \in Payload /\ work[a].length \in Nat
      /\ device \in [Asid \X Dev -> [data0 : Int, busy : Int]]
      /\ wanted \in [Asid \X Dev -> Nat] /\ supportOf \in [Asid -> 0..UPROCMAX]
  BY DEF BaseType, Payload
<1>2. /\ \A q \in Process :
            /\ Asks("CREATEPROCESS", q) \in Ask /\ Asks("TERMPROCESS", q) \in Ask
            /\ Asks("GETSUPPORTPTR", q) \in Ask
      /\ [from |-> s, ask |-> Asks("GETSUPPORTPTR", s)] \in Requests
      /\ [from |-> s, ask |-> Creates(Uproc(a))] \in Requests
      /\ [from |-> s, ask |-> Asks("TERMPROCESS", s)] \in Requests
      /\ [from |-> s, ask |-> Asks("TERMPROCESS", Uproc(a))] \in Requests
  BY <1>0, AskFacts
<1> HIDE DEF s
<1>3. UNCHANGED work /\ (\A q \in Process \ {s} : pc'[q] = pc[q])
         /\ pc'[s] \notin {"data0", "command", "status"} => Writes'
  BY <1>0, OwnWrites DEF s, Writing
<1>4. \A place \in Place : Goes(s, place) =>
         pc' \in [Process -> Place] /\ pc'[s] = place /\ \A q \in Process \ {s} : pc'[q] = pc[q]
  BY <1>0, GoesFacts
<1>5. CASE SstStarts(a)
  <2>1. /\ Goes(s, "support") /\ SendsSsi(s, Asks("GETSUPPORTPTR", s))
        /\ UNCHANGED <<alive, inbox, ioVars, tableVars, userVars>>
    BY <1>5 DEF SstStarts, AsksSsi, s
  <2>2. ssi_inbox' \in Seq(Requests)
    BY <1>0, <1>2, <2>1, SendsSsiFacts
  <2>3. Supported'
    <3>1. Asks("GETSUPPORTPTR", s).op # "CREATEPROCESS"
      BY DEF Asks
    <3> QED BY <1>0, <1>2, <2>1, <3>1, AsksOther DEF tableVars
  <2>4. pc' \in [Process -> Place] /\ Writes'
    BY <1>3, <1>4, <2>1 DEF Place, ioVars
  <2> QED BY <2>1, <2>2, <2>3, <2>4 DEF BaseType, ioVars, tableVars, userVars
<1>6. CASE SstCreates(a)
  <2>1. /\ At(s, "support") /\ Receives(s, {SSI})
        /\ Goes(s, "created") /\ SendsSsi(s, Creates(Uproc(a)))
        /\ UNCHANGED <<alive, ioVars, tableVars, userVars>>
    BY <1>6 DEF SstCreates, AsksSsi, s
  <2>2. ssi_inbox' \in Seq(Requests)
    BY <1>0, <1>2, <2>1, SendsSsiFacts DEF Creates
  <2>3. Supported'
    <3>1. s \in Equipped
      BY <2>1 DEF At, Supported
    <3>2. Uproc(a) \in Equipped
      BY <3>1, Names DEF Equipped, s
    <3>3. Creates(Uproc(a)).arg = Uproc(a) /\ Creates(Uproc(a)) \in Ask
      BY <1>0, <1>2 DEF Creates, Asks
    <3> QED BY <1>0, <1>2, <2>1, <3>2, <3>3, AsksOther DEF tableVars
  <2>4. pc' \in [Process -> Place] /\ Writes'
    BY <1>3, <1>4, <2>1 DEF Place, ioVars
  <2>5. inbox' \in [Process -> Seq(Message)] /\ \A p \in Process : inbox'[p] \in Seq(MailTo(p))
    BY <1>0, <2>1, ReceivesFacts
  <2> QED BY <2>1, <2>2, <2>3, <2>4, <2>5 DEF BaseType, ioVars, tableVars, userVars
<1>7. CASE SstIsReady(a) \/ SstHears(a)
  <2>1. /\ Receives(s, {SSI})
        /\ Goes(s, "serve") \/ Goes(s, "tell")
        /\ UNCHANGED <<alive, ssi_inbox, ioVars, tableVars, userVars>>
    BY <1>7 DEF SstIsReady, SstHears, s
  <2>2. Supported'
    BY <2>1, AsksNothing DEF tableVars
  <2>3. pc' \in [Process -> Place] /\ Writes'
    BY <1>3, <1>4, <2>1 DEF Place, ioVars
  <2>4. inbox' \in [Process -> Seq(Message)] /\ \A p \in Process : inbox'[p] \in Seq(MailTo(p))
    BY <1>0, <2>1, ReceivesFacts
  <2> QED BY <2>1, <2>2, <2>3, <2>4 DEF BaseType, ioVars, tableVars, userVars
<1>8. CASE SstTakes(a)
  <2>1. PICK what : what = Letter(s, {Uproc(a)}).what
    OBVIOUS
  <2>2. /\ Receives(s, {Uproc(a)}) /\ UNCHANGED <<alive, device, printed, tableVars, userVars>>
        /\ \/ /\ what.code = "WRITE" /\ Goes(s, PlaceFor(what))
              /\ work' = [work EXCEPT ![a] = what] /\ UNCHANGED ssi_inbox
           \/ /\ \E place \in {"answer", "serve", "tell"} : Goes(s, place)
              /\ UNCHANGED <<ssi_inbox, work>>
           \/ /\ Goes(s, "termChild") /\ SendsSsi(s, Asks("TERMPROCESS", Uproc(a)))
              /\ UNCHANGED work
    BY <1>8, <2>1 DEF SstTakes, AsksSsi, s
  <2>3. what \in Request(a) \cup {NULL}
    <3>1. PICK m \in MailTo(s) : m.from \in {Uproc(a)} /\ Letter(s, {Uproc(a)}) = m
      BY <1>0, <2>2, ReceivesFacts
    <3>2. Uproc(a) # SSI /\ AsidOf(s) = a /\ s[1] # "uproc" /\ s # TEST
      BY <1>0, Names DEF s
    <3> QED BY <2>1, <3>1, <3>2 DEF MailTo
  <2>4. inbox' \in [Process -> Seq(Message)] /\ \A p \in Process : inbox'[p] \in Seq(MailTo(p))
    BY <1>0, <2>2, ReceivesFacts
  <2>5. CASE what.code = "WRITE" /\ Goes(s, PlaceFor(what))
             /\ work' = [work EXCEPT ![a] = what] /\ UNCHANGED ssi_inbox
    <3>1. what \in Payload /\ what.dev \in Dev
      BY <2>3, <2>5, RequestFacts, ContentFacts
    <3>2. PICK place \in {"answer", "data0", "command"} :
             place = PlaceFor(what) /\ (place # "answer" => what.length > 0)
      BY <3>1, PlaceFacts
    <3>3. /\ pc' \in [Process -> Place] /\ pc'[s] = place
          /\ \A q \in Process \ {s} : pc'[q] = pc[q]
      BY <1>4, <2>5, <3>2 DEF Place
    <3>4. work' \in [Asid -> Payload] /\ work'[a] = what /\ \A b \in Asid \ {a} : work'[b] = work[b]
      BY <1>1, <2>5, <3>1
    <3>5. Writes'
      <4>1. Writing(a)' => work'[a].dev \in Dev /\ work'[a].length > 0
        BY <3>1, <3>2, <3>3, <3>4 DEF Writing, s
      <4> QED BY <1>0, <3>3, <3>4, <4>1, OwnWrites DEF s
    <3>6. Supported'
      BY <2>2, <2>5, AsksNothing DEF tableVars
    <3> QED BY <2>2, <2>4, <2>5, <3>3, <3>4, <3>5, <3>6 DEF BaseType, tableVars, userVars
  <2>6. CASE \E place \in {"answer", "serve", "tell"} :
                Goes(s, place) /\ UNCHANGED <<ssi_inbox, work>>
    <3>1. pc' \in [Process -> Place] /\ Writes'
      BY <1>3, <1>4, <2>6 DEF Place
    <3>2. Supported'
      BY <2>2, <2>6, AsksNothing DEF tableVars
    <3> QED BY <2>2, <2>4, <2>6, <3>1, <3>2 DEF BaseType, tableVars, userVars
  <2>7. CASE Goes(s, "termChild") /\ SendsSsi(s, Asks("TERMPROCESS", Uproc(a))) /\ UNCHANGED work
    <3>1. pc' \in [Process -> Place] /\ Writes'
      BY <1>3, <1>4, <2>7 DEF Place
    <3>2. ssi_inbox' \in Seq(Requests)
      BY <1>0, <1>2, <2>7, SendsSsiFacts
    <3>3. Supported'
      <4>1. Asks("TERMPROCESS", Uproc(a)).op # "CREATEPROCESS"
        BY DEF Asks
      <4> QED BY <1>0, <1>2, <2>2, <2>7, <4>1, AsksOther DEF tableVars
    <3> QED BY <2>2, <2>4, <2>7, <3>1, <3>2, <3>3 DEF BaseType, tableVars, userVars
  <2> QED BY <2>2, <2>5, <2>6, <2>7
<1>9. CASE SendsData0(a) \/ SendsCommand(a)
  <2>1. PICK reg \in {"data0", "command"} :
           /\ pc[s] \in {"data0", "command"} /\ SendsSsi(s, Commands(reg, work[a].dev, Char(a)))
           /\ Goes(s, "command") \/ Goes(s, "status")
           /\ UNCHANGED <<alive, inbox, ioVars, tableVars, userVars>>
    BY <1>9 DEF SendsData0, SendsCommand, At, s
  <2>2. work[a].dev \in Dev /\ work[a].length > 0
    BY <2>1 DEF Writes, Writing, s
  <2>3. PICK dev \in Dev : dev = work[a].dev
    BY <2>2
  <2>4. PICK v \in Int : v = Char(a)
    <3>1. <<a, dev>> \in Asid \X Dev
      OBVIOUS
    <3>2. wanted[<<a, dev>>] \in Nat
      BY <1>1, <3>1
    <3> QED BY <1>1, <2>3, <3>2 DEF Char
  <2>5. Commands(reg, dev, v) \in Ask /\ [from |-> s, ask |-> Commands(reg, dev, v)] \in Requests
    BY AskFacts DEF s
  <2>6. SendsSsi(s, Commands(reg, dev, v))
    BY <2>1, <2>3, <2>4
  <2>7. ssi_inbox' \in Seq(Requests)
    BY <1>0, <2>5, <2>6, SendsSsiFacts
  <2>8. Supported'
    <3>1. Commands(reg, dev, v).op # "CREATEPROCESS"
      BY DEF Commands
    <3> QED BY <1>0, <2>1, <2>5, <2>6, <3>1, AsksOther DEF tableVars
  <2>9. pc' \in [Process -> Place] /\ \A q \in Process \ {s} : pc'[q] = pc[q]
    BY <1>4, <2>1 DEF Place
  <2>10. Writes'
    BY <1>0, <2>1, <2>2, <2>9, OwnWrites DEF s, ioVars
  <2> QED BY <2>1, <2>7, <2>8, <2>9, <2>10 DEF BaseType, ioVars, tableVars, userVars
<1>10. CASE SstChecks(a)
  <2>1. PICK left : left = [work[a] EXCEPT !.length = @ - 1]
    OBVIOUS
  <2>2. /\ pc[s] = "status" /\ Receives(s, {SSI})
        /\ UNCHANGED <<alive, ssi_inbox, device, printed, tableVars, userVars>>
        /\ \/ Goes(s, PlaceFor(left)) /\ work' = [work EXCEPT ![a] = left]
           \/ Goes(s, "tell") /\ UNCHANGED work
    BY <1>10, <2>1 DEF SstChecks, At, s
  <2>3. inbox' \in [Process -> Seq(Message)] /\ \A p \in Process : inbox'[p] \in Seq(MailTo(p))
    BY <1>0, <2>2, ReceivesFacts
  <2>4. Supported'
    BY <2>2, AsksNothing DEF tableVars
  <2>5. CASE Goes(s, PlaceFor(left)) /\ work' = [work EXCEPT ![a] = left]
    <3>1. work[a].dev \in Dev /\ work[a].length > 0
      BY <2>2 DEF Writes, Writing, s
    <3>2. left \in Payload /\ left.dev \in Dev
      <4>1. work[a].length - 1 \in Nat
        BY <1>1, <3>1
      <4> QED BY <1>1, <2>1, <3>1, <4>1 DEF Payload
    <3>3. PICK place \in {"answer", "data0", "command"} :
             place = PlaceFor(left) /\ (place # "answer" => left.length > 0)
      BY <3>2, PlaceFacts
    <3>4. /\ pc' \in [Process -> Place] /\ pc'[s] = place
          /\ \A q \in Process \ {s} : pc'[q] = pc[q]
      BY <1>4, <2>5, <3>3 DEF Place
    <3>5. work' \in [Asid -> Payload] /\ work'[a] = left /\ \A b \in Asid \ {a} : work'[b] = work[b]
      BY <1>1, <2>5, <3>2
    <3>6. Writes'
      <4>1. Writing(a)' => work'[a].dev \in Dev /\ work'[a].length > 0
        BY <3>2, <3>3, <3>4, <3>5 DEF Writing, s
      <4> QED BY <1>0, <3>4, <3>5, <4>1, OwnWrites DEF s
    <3> QED BY <2>2, <2>3, <2>4, <3>4, <3>5, <3>6 DEF BaseType, tableVars, userVars
  <2>6. CASE Goes(s, "tell") /\ UNCHANGED work
    <3>1. pc' \in [Process -> Place] /\ Writes'
      BY <1>3, <1>4, <2>6 DEF Place
    <3> QED BY <2>2, <2>3, <2>4, <2>6, <3>1 DEF BaseType, tableVars, userVars
  <2> QED BY <2>2, <2>5, <2>6
<1>11. CASE SstAnswers(a)
  <2>1. /\ Sends(s, Uproc(a), DONE) /\ Goes(s, "serve") /\ work' = [work EXCEPT ![a] = NULL]
        /\ UNCHANGED <<alive, ssi_inbox, device, printed, tableVars, userVars>>
    BY <1>11 DEF SstAnswers, s
  <2>2. inbox' \in [Process -> Seq(Message)] /\ \A p \in Process : inbox'[p] \in Seq(MailTo(p))
    <3>1. [from |-> s, what |-> DONE] \in MailTo(Uproc(a)) /\ DONE \in Content
      BY MailFacts, ContentFacts DEF s
    <3> QED BY <1>0, <2>1, <3>1, SendsFacts
  <2>3. /\ pc' \in [Process -> Place] /\ pc'[s] = "serve"
        /\ \A q \in Process \ {s} : pc'[q] = pc[q]
    BY <1>4, <2>1 DEF Place
  <2>4. work' \in [Asid -> Payload] /\ \A b \in Asid \ {a} : work'[b] = work[b]
    BY <1>1, <2>1, ContentFacts
  <2>5. Writes'
    <3>1. ~ Writing(a)'
      BY <2>3 DEF Writing, s
    <3> QED BY <1>0, <2>3, <2>4, <3>1, OwnWrites DEF s
  <2>6. Supported'
    BY <2>1, AsksNothing DEF tableVars
  <2> QED BY <2>1, <2>2, <2>3, <2>4, <2>5, <2>6 DEF BaseType, tableVars, userVars
<1>12. CASE Tells(s)
  <2>1. /\ Sends(s, TEST, NULL) /\ Goes(s, "termSelf")
        /\ UNCHANGED <<alive, ssi_inbox, ioVars, tableVars, userVars>>
    BY <1>0, <1>12 DEF Tells
  <2>2. inbox' \in [Process -> Seq(Message)] /\ \A p \in Process : inbox'[p] \in Seq(MailTo(p))
    <3>1. [from |-> s, what |-> NULL] \in MailTo(TEST) /\ NULL \in Content /\ TEST \in Process
      BY MailFacts, ContentFacts, Names DEF s
    <3> QED BY <1>0, <2>1, <3>1, SendsFacts
  <2>3. pc' \in [Process -> Place] /\ Writes'
    BY <1>3, <1>4, <2>1 DEF Place, ioVars
  <2>4. Supported'
    BY <2>1, AsksNothing DEF tableVars
  <2> QED BY <2>1, <2>2, <2>3, <2>4 DEF BaseType, ioVars, tableVars, userVars
<1>13. CASE TermsSelf(s)
  <2>1. /\ Goes(s, "ending") /\ SendsSsi(s, Asks("TERMPROCESS", s))
        /\ UNCHANGED <<alive, inbox, ioVars, tableVars, userVars>>
    BY <1>13 DEF TermsSelf, AsksSsi
  <2>2. ssi_inbox' \in Seq(Requests)
    BY <1>0, <1>2, <2>1, SendsSsiFacts
  <2>3. Supported'
    <3>1. Asks("TERMPROCESS", s).op # "CREATEPROCESS"
      BY DEF Asks
    <3> QED BY <1>0, <1>2, <2>1, <3>1, AsksOther DEF tableVars
  <2>4. pc' \in [Process -> Place] /\ Writes'
    BY <1>3, <1>4, <2>1 DEF Place, ioVars
  <2> QED BY <2>1, <2>2, <2>3, <2>4 DEF BaseType, ioVars, tableVars, userVars
<1> QED BY <1>5, <1>6, <1>7, <1>8, <1>9, <1>10, <1>11, <1>12, <1>13 DEF SstStep, s

LEMMA UprocStepTypes ==
    ASSUME SupInv, NEW a \in Asid, UprocStep(a)
    PROVE  SupInv'
<1> USE DEF SupInv
<1> DEFINE u == Uproc(a)
<1>0. /\ u \in Process /\ u[1] = "uproc" /\ Sst(a) \in Process /\ u # TEST /\ AsidOf(u) = a
      /\ \A b \in Asid : Sst(b) \in Process \ {u}
  BY Names, DifferentNames
<1>1. \A place \in Place : Goes(u, place) =>
         pc' \in [Process -> Place] /\ pc'[u] = place /\ \A q \in Process \ {u} : pc'[q] = pc[q]
  BY <1>0, GoesFacts
<1>2. UNCHANGED work /\ (\A q \in Process \ {u} : pc'[q] = pc[q]) => Writes'
  BY <1>0 DEF Writes, Writing
<1> HIDE DEF u
<1>3. ASSUME NEW what \in Request(a), UprocSends(a, what)  PROVE SupInv'
  <2>1. /\ Goes(u, "wait") /\ UNCHANGED <<alive, ssi_inbox, ioVars, tableVars>>
        /\ Sends(u, Sst(a), what) \/ UNCHANGED inbox
        /\ asked' = [asked EXCEPT ![a] = @ + 1]
        /\ wanted' = IF what.code = "WRITE"
                     THEN [wanted EXCEPT ![<<a, what.dev>>] = @ + what.length] ELSE wanted
    BY <1>3 DEF UprocSends, u
  <2>2. inbox' \in [Process -> Seq(Message)] /\ \A p \in Process : inbox'[p] \in Seq(MailTo(p))
    <3>1. [from |-> u, what |-> what] \in MailTo(Sst(a)) /\ what \in Content
      BY MailFacts, RequestFacts DEF u
    <3>2. CASE Sends(u, Sst(a), what)
      BY <1>0, <3>1, <3>2, SendsFacts
    <3>3. CASE UNCHANGED inbox
      BY <3>3 DEF BaseType
    <3> QED BY <2>1, <3>2, <3>3
  <2>3. asked' \in [Asid -> Nat]
    <3>1. asked \in [Asid -> Nat] /\ asked[a] \in Nat
      BY DEF BaseType
    <3> QED BY <2>1, <3>1
  <2>4. wanted' \in [Asid \X Dev -> Nat]
    <3>1. wanted \in [Asid \X Dev -> Nat]
      BY DEF BaseType
    <3>2. CASE what.code = "WRITE"
      <4>1. what.dev \in Dev /\ what.length \in Nat
        BY <3>2, RequestFacts DEF Payload
      <4>2. PICK k \in Asid \X Dev : k = <<a, what.dev>>
        BY <4>1
      <4>3. wanted' = [wanted EXCEPT ![k] = @ + what.length]
        BY <2>1, <3>2, <4>2
      <4> QED BY <3>1, <4>1, <4>3
    <3> QED BY <2>1, <3>1, <3>2
  <2>5. pc' \in [Process -> Place] /\ Writes'
    BY <1>1, <1>2, <2>1 DEF Place, ioVars
  <2>6. Supported'
    BY <2>1, AsksNothing DEF tableVars
  <2> QED BY <2>1, <2>2, <2>3, <2>4, <2>5, <2>6 DEF BaseType, ioVars, tableVars
<1>4. CASE UprocReceives(a)
  <2>1. /\ Receives(u, Process \cup {SSI}) /\ Goes(u, "start")
        /\ UNCHANGED <<alive, ssi_inbox, ioVars, tableVars, userVars>>
    BY <1>4 DEF UprocReceives, u
  <2>2. inbox' \in [Process -> Seq(Message)] /\ \A p \in Process : inbox'[p] \in Seq(MailTo(p))
    BY <1>0, <2>1, ReceivesFacts
  <2>3. pc' \in [Process -> Place] /\ Writes'
    BY <1>1, <1>2, <2>1 DEF Place, ioVars
  <2>4. Supported'
    BY <2>1, AsksNothing DEF tableVars
  <2> QED BY <2>1, <2>2, <2>3, <2>4 DEF BaseType, ioVars, tableVars, userVars
<1>5. CASE UprocTraps(a)
  <2>1. Goes(u, "tell") /\ UNCHANGED <<alive, inbox, ssi_inbox, ioVars, tableVars, userVars>>
    BY <1>5 DEF UprocTraps, u
  <2>2. pc' \in [Process -> Place] /\ Writes'
    BY <1>1, <1>2, <2>1 DEF Place, ioVars
  <2>3. Supported'
    BY <2>1, AsksNothing DEF tableVars
  <2> QED BY <2>1, <2>2, <2>3 DEF BaseType, ioVars, tableVars, userVars
<1>6. CASE Tells(u)
  <2>1. /\ Sends(u, Sst(a), NULL) /\ Goes(u, "termSelf")
        /\ UNCHANGED <<alive, ssi_inbox, ioVars, tableVars, userVars>>
    BY <1>0, <1>6 DEF Tells
  <2>2. inbox' \in [Process -> Seq(Message)] /\ \A p \in Process : inbox'[p] \in Seq(MailTo(p))
    <3>1. [from |-> u, what |-> NULL] \in MailTo(Sst(a)) /\ NULL \in Content
      BY MailFacts, ContentFacts DEF u
    <3> QED BY <1>0, <2>1, <3>1, SendsFacts
  <2>3. pc' \in [Process -> Place] /\ Writes'
    BY <1>1, <1>2, <2>1 DEF Place, ioVars
  <2>4. Supported'
    BY <2>1, AsksNothing DEF tableVars
  <2> QED BY <2>1, <2>2, <2>3, <2>4 DEF BaseType, ioVars, tableVars, userVars
<1>7. CASE TermsSelf(u)
  <2>1. /\ Goes(u, "ending") /\ SendsSsi(u, Asks("TERMPROCESS", u))
        /\ UNCHANGED <<alive, inbox, ioVars, tableVars, userVars>>
    BY <1>7 DEF TermsSelf, AsksSsi
  <2>2. Asks("TERMPROCESS", u) \in Ask /\ [from |-> u, ask |-> Asks("TERMPROCESS", u)] \in Requests
    BY <1>0, AskFacts
  <2>3. ssi_inbox' \in Seq(Requests)
    BY <1>0, <2>1, <2>2, SendsSsiFacts
  <2>4. Supported'
    <3>1. Asks("TERMPROCESS", u).op # "CREATEPROCESS"
      BY DEF Asks
    <3> QED BY <1>0, <2>1, <2>2, <3>1, AsksOther DEF tableVars
  <2>5. pc' \in [Process -> Place] /\ Writes'
    BY <1>1, <1>2, <2>1 DEF Place, ioVars
  <2> QED BY <2>1, <2>3, <2>4, <2>5 DEF BaseType, ioVars, tableVars, userVars
<1> QED BY <1>3, <1>4, <1>5, <1>6, <1>7 DEF UprocStep, u

LEMMA SupStep == SupInv /\ [Next]_vars => SupInv'
<1> SUFFICES ASSUME SupInv, [Next]_vars PROVE SupInv'
  OBVIOUS
<1>1. CASE TestStep
  BY <1>1, TestStepTypes
<1>2. CASE SsiServes
  BY <1>2, SsiStepTypes
<1>3. ASSUME NEW a \in Asid, SstStep(a)  PROVE SupInv'
  BY <1>3, SstStepTypes
<1>4. ASSUME NEW a \in Asid, UprocStep(a)  PROVE SupInv'
  BY <1>4, UprocStepTypes
<1>5. ASSUME NEW a \in Asid, NEW d \in Dev, DeviceEnds(a, d)  PROVE SupInv'
  BY <1>5, DeviceStepTypes
<1>6. CASE UNCHANGED vars
  BY <1>6 DEF SupInv, BaseType, Writes, Writing, Supported, Equipped, vars, ioVars, tableVars, userVars
<1> QED BY <1>1, <1>2, <1>3, <1>4, <1>5, <1>6 DEF Next, Stops
-----------------------------------------------------------------------------
(* What test hears                                                         *)

(* The SSTs that are through tell test once each; test counts those it has *)
(* heard.                                                                  *)
Through == {a \in Asid : pc[Sst(a)] \in {"termSelf", "ending"}}
News(q, S) ==
    /\ \A i \in DOMAIN q : q[i].from = SSI \/ \E a \in S : q[i].from = Sst(a)
    /\ \A i, j \in DOMAIN q : q[i].from = q[j].from /\ q[i].from # SSI => i = j

HeardInv ==
    /\ News(inbox[TEST], Through \ released)
    /\ released \subseteq Through /\ heard = Cardinality(released)
    /\ pc[TEST] \in {"termSelf", "ending"} => heard = UPROCMAX

LEMMA NewsAppend ==
    ASSUME NEW q \in Seq(Message), NEW m \in Message, NEW S, NEW T, S \subseteq T, News(q, S),
           m.from = SSI \/ \E a \in T \ S : m.from = Sst(a)
    PROVE  News(Append(q, m), T)
<1>1. PICK new : new = Append(q, m)
  OBVIOUS
<1>2. /\ Len(q) \in Nat /\ DOMAIN q = 1..Len(q) /\ DOMAIN new = 1..(Len(q) + 1)
      /\ \A j \in DOMAIN q : new[j] = q[j]
      /\ new[Len(q) + 1] = m
  BY <1>1, AppendElements
<1>3. ASSUME NEW i \in DOMAIN new  PROVE new[i].from = SSI \/ \E a \in T : new[i].from = Sst(a)
  <2>1. CASE i \in DOMAIN q
    BY <1>2, <2>1 DEF News
  <2>2. CASE i = Len(q) + 1
    BY <1>2, <2>2
  <2> QED BY <1>2, <2>1, <2>2
<1>4. ASSUME NEW i \in DOMAIN q  PROVE q[i].from = SSI \/ q[i].from # m.from
  BY DifferentNames, Names DEF News
<1>5. ASSUME NEW i \in DOMAIN new, NEW j \in DOMAIN new,
             new[i].from = new[j].from, new[i].from # SSI
      PROVE  i = j
  <2>1. CASE i \in DOMAIN q /\ j \in DOMAIN q
    BY <1>2, <1>5, <2>1 DEF News
  <2>2. CASE i \notin DOMAIN q /\ j \notin DOMAIN q
    BY <1>2, <2>2
  <2>3. CASE i \in DOMAIN q /\ j \notin DOMAIN q
    <3>1. j = Len(q) + 1
      BY <1>2, <2>3
    <3> QED BY <1>2, <1>4, <1>5, <2>3, <3>1
  <2>4. CASE i \notin DOMAIN q /\ j \in DOMAIN q
    <3>1. i = Len(q) + 1
      BY <1>2, <2>4
    <3> QED BY <1>2, <1>4, <1>5, <2>4, <3>1
  <2> QED BY <2>1, <2>2, <2>3, <2>4
<1>6. News(new, T)
  BY <1>3, <1>5 DEF News
<1> QED BY <1>1, <1>6

LEMMA NewsRemove ==
    ASSUME NEW q \in Seq(Message), NEW i \in DOMAIN q, NEW S, News(q, S)
    PROVE  /\ News(RemoveAt(q, i), S)
           /\ \A a \in S : q[i].from = Sst(a) => News(RemoveAt(q, i), S \ {a})
<1>1. PICK new : new = RemoveAt(q, i)
  OBVIOUS
<1>2. /\ \A j \in DOMAIN new : Skip(i, j) \in DOMAIN q \ {i} /\ new[j] = q[Skip(i, j)]
      /\ \A j, k \in DOMAIN new : Skip(i, j) = Skip(i, k) => j = k
  BY <1>1, RemoveAtElements
<1>3. ASSUME NEW j \in DOMAIN new  PROVE new[j].from = SSI \/ \E a \in S : new[j].from = Sst(a)
  BY <1>2 DEF News
<1>4. ASSUME NEW j \in DOMAIN new, NEW k \in DOMAIN new,
             new[j].from = new[k].from, new[j].from # SSI
      PROVE  j = k
  BY <1>2, <1>4 DEF News
<1>5. ASSUME NEW a \in S, q[i].from = Sst(a), NEW j \in DOMAIN new
      PROVE  new[j].from = SSI \/ \E b \in S \ {a} : new[j].from = Sst(b)
  <2>1. new[j].from = SSI \/ new[j].from # q[i].from
    BY <1>2 DEF News
  <2> QED BY <1>3, <1>5, <2>1
<1>6. News(new, S)
  BY <1>3, <1>4 DEF News
<1>7. \A a \in S : q[i].from = Sst(a) => News(new, S \ {a})
  BY <1>4, <1>5 DEF News
<1> QED BY <1>1, <1>6, <1>7

(* A step that test does not hear of, but perhaps of the SSI.              *)
LEMMA Unheard ==
    ASSUME SupInv, HeardInv, UNCHANGED <<released, heard>>,
           \A a \in Asid : pc[Sst(a)] \in {"termSelf", "ending"} =>
                              pc'[Sst(a)] \in {"termSelf", "ending"},
           pc'[TEST] \in {"termSelf", "ending"} => pc[TEST] \in {"termSelf", "ending"},
           \/ inbox'[TEST] = inbox[TEST]
           \/ inbox'[TEST] = <<>>
           \/ \E m \in Message : m.from = SSI /\ inbox'[TEST] = Append(inbox[TEST], m)
           \/ \E i \in DOMAIN inbox[TEST] : inbox'[TEST] = RemoveAt(inbox[TEST], i)
    PROVE  HeardInv'
<1>1. Through \subseteq Through'
  BY DEF Through
<1>2. PICK S, T : S = Through \ released /\ T = Through' \ released'
  OBVIOUS
<1>3. S \subseteq T
  BY <1>1, <1>2
<1>4. PICK q, new : q \in Seq(Message) /\ q = inbox[TEST] /\ new = inbox'[TEST]
  BY Names DEF SupInv, BaseType
<1>5. News(q, S)
  BY <1>2, <1>4 DEF HeardInv
<1>6. News(q, T)
  BY <1>3, <1>5 DEF News
<1>7. News(<<>>, T)
  BY DEF News
<1>8. News(new, T)
  BY <1>3, <1>4, <1>5, <1>6, <1>7, NewsAppend, NewsRemove
<1>9. News(inbox'[TEST], Through' \ released')
  BY <1>2, <1>4, <1>8
<1> QED BY <1>1, <1>9 DEF HeardInv

LEMMA HeardInit == Init => HeardInv
<1> SUFFICES ASSUME Init PROVE HeardInv
  OBVIOUS
<1>1. \A a \in Asid : Sst(a) \in Process /\ Sst(a) # TEST
  BY Names
<1>2. Through = {}
  BY <1>1 DEF Init, Through
<1>3. inbox[TEST] = <<>> /\ released = {} /\ heard = 0 /\ pc[TEST] = "init"
  BY Names DEF Init
<1>4. Cardinality(released) = 0
  BY <1>3, FS_EmptySet
<1> QED BY <1>2, <1>3, <1>4 DEF HeardInv, News

(* Only an SST that begins to be through tells test.                       *)
LEMMA HeardTestStep ==
    ASSUME SupInv, HeardInv, TestStep
    PROVE  HeardInv'
<1> USE DEF SupInv
<1>0. TEST \in Process /\ \A a \in Asid : Sst(a) \in Process \ {TEST}
  BY Names
<1>1. \A place \in Place : Goes(TEST, place) =>
         pc'[TEST] = place /\ \A a \in Asid : pc'[Sst(a)] = pc[Sst(a)]
  BY <1>0, GoesFacts
<1>2. ASSUME Receives(TEST, {SSI})
      PROVE  \E i \in DOMAIN inbox[TEST] : inbox'[TEST] = RemoveAt(inbox[TEST], i)
  BY <1>0, <1>2, ReceivesFacts
<1>3. CASE TestInit
  <2>1. Goes(TEST, "created") /\ UNCHANGED <<inbox, heard, released>>
    BY <1>3 DEF TestInit, AsksSsi
  <2> QED BY <1>1, <2>1, Unheard DEF Place
<1>4. CASE TestCreates
  <2>1. /\ Receives(TEST, {SSI}) /\ UNCHANGED <<heard, released>>
        /\ Goes(TEST, "created") \/ Goes(TEST, "listen")
    BY <1>4 DEF TestCreates, AsksSsi
  <2> QED BY <1>1, <1>2, <2>1, Unheard DEF Place
<1>5. CASE TestEnds
  <2>1. /\ Receives(TEST, {SSI}) /\ UNCHANGED <<heard, released>> /\ Goes(TEST, "ending")
        /\ pc[TEST] = "termSelf"
    BY <1>5 DEF TestEnds, AsksSsi, tableVars, At
  <2> QED BY <1>1, <1>2, <2>1, Unheard DEF Place
<1>6. CASE TestListens
  <2>1. /\ pc[TEST] = "listen" /\ Receives(TEST, Process) /\ heard' = heard + 1
        /\ released' = released \cup {AsidOf(Letter(TEST, Process).from)}
        /\ \/ heard' = UPROCMAX /\ Goes(TEST, "termSelf")
           \/ UNCHANGED pc
    BY <1>6 DEF TestListens, AsksSsi, At
  <2>2. PICK i \in DOMAIN inbox[TEST] :
           /\ inbox[TEST][i].from \in Process /\ Letter(TEST, Process) = inbox[TEST][i]
           /\ inbox'[TEST] = RemoveAt(inbox[TEST], i)
    BY <1>0, <2>1, ReceivesFacts
  <2>3. PICK a \in Through \ released : inbox[TEST][i].from = Sst(a)
    BY <2>2, Names DEF HeardInv, News
  <2>4. released' = released \cup {a} /\ a \in Asid
    BY <2>1, <2>2, <2>3, Names DEF Through
  <2>5. UNCHANGED Through
    BY <1>1, <2>1 DEF Through, Place
  <2>6. News(inbox'[TEST], Through' \ released')
    <3>1. PICK q, S : q \in Seq(Message) /\ q = inbox[TEST] /\ S = Through \ released
      BY <1>0 DEF BaseType
    <3>2. News(q, S) /\ i \in DOMAIN q /\ a \in S /\ q[i].from = Sst(a)
      BY <2>2, <2>3, <3>1 DEF HeardInv
    <3>3. News(RemoveAt(q, i), S \ {a})
      BY <3>1, <3>2, NewsRemove
    <3>4. Through' \ released' = S \ {a} /\ inbox'[TEST] = RemoveAt(q, i)
      BY <2>2, <2>4, <2>5, <3>1
    <3> QED BY <3>3, <3>4
  <2>7. heard' = Cardinality(released')
    <3>1. PICK R : R = released
      OBVIOUS
    <3>2. IsFiniteSet(R)
      <4>1. R \subseteq 1..UPROCMAX
        BY <3>1 DEF BaseType, Asid
      <4>2. IsFiniteSet(1..UPROCMAX)
        BY CountTo, SupportAssumption
      <4> QED BY <4>1, <4>2, FS_Subset
    <3>3. Cardinality(R \cup {a}) = Cardinality(R) + 1
      BY <2>3, <3>1, <3>2, FS_AddElement
    <3> QED BY <2>1, <2>4, <3>1, <3>3 DEF HeardInv
  <2>8. pc'[TEST] \in {"termSelf", "ending"} => heard' = UPROCMAX
    BY <2>1
  <2> QED BY <2>3, <2>4, <2>5, <2>6, <2>7, <2>8 DEF HeardInv
<1> QED BY <1>3, <1>4, <1>5, <1>6 DEF TestStep

LEMMA HeardSstStep ==
    ASSUME SupInv, HeardInv, NEW a \in Asid, SstStep(a)
    PROVE  HeardInv'
<1> USE DEF SupInv
<1> DEFINE s == Sst(a)
<1>0. /\ TEST \in Process /\ s \in Process \ {TEST} /\ s[1] = "sst" /\ Uproc(a) \in Process \ {TEST}
      /\ \A b \in Asid : Sst(b) \in Process \ {TEST} /\ (Sst(b) = s => b = a)
  BY Names, DifferentNames
<1> HIDE DEF s
<1>1. ASSUME NEW place \in Place, Goes(s, place)
      PROVE  pc'[s] = place /\ \A q \in Process \ {s} : pc'[q] = pc[q]
  BY <1>0, <1>1, GoesFacts
<1>2. ASSUME NEW place \in Place, Goes(s, place),
             place \in {"termSelf", "ending"} \/ pc[s] \notin {"termSelf", "ending"}
      PROVE  /\ \A b \in Asid : pc[Sst(b)] \in {"termSelf", "ending"} =>
                                   pc'[Sst(b)] \in {"termSelf", "ending"}
             /\ pc'[TEST] = pc[TEST]
  BY <1>0, <1>1, <1>2
<1>3. ASSUME NEW From, Receives(s, From)  PROVE inbox'[TEST] = inbox[TEST]
  BY <1>0, <1>3, ReceivesFacts
<1>4. CASE SstStarts(a) \/ SendsData0(a) \/ SendsCommand(a) \/ TermsSelf(s)
  <2>1. PICK place \in Place :
           /\ Goes(s, place) /\ UNCHANGED <<inbox, heard, released>>
           /\ place = "ending" \/ pc[s] \notin {"termSelf", "ending"}
    BY <1>4 DEF SstStarts, SendsData0, SendsCommand, TermsSelf, AsksSsi, Place, At, tableVars, s
  <2> QED BY <1>2, <2>1, Unheard
<1>5. CASE SstCreates(a) \/ SstIsReady(a) \/ SstHears(a) \/ SstChecks(a)
  <2>1. PICK place \in Place :
           /\ Goes(s, place) /\ UNCHANGED <<heard, released>> /\ Receives(s, {SSI})
           /\ pc[s] \notin {"termSelf", "ending"}
    BY <1>5 DEF SstCreates, SstIsReady, SstHears, SstChecks, PlaceFor, AsksSsi, Place, At,
                tableVars, s
  <2> QED BY <1>2, <1>3, <2>1, Unheard
<1>6. CASE SstTakes(a)
  <2>1. PICK place \in Place :
           /\ Goes(s, place) /\ UNCHANGED <<heard, released>> /\ Receives(s, {Uproc(a)})
           /\ pc[s] \notin {"termSelf", "ending"}
    BY <1>6 DEF SstTakes, PlaceFor, AsksSsi, Place, At, tableVars, s
  <2> QED BY <1>2, <1>3, <2>1, Unheard
<1>7. CASE SstAnswers(a)
  <2>1. /\ Goes(s, "serve") /\ UNCHANGED <<heard, released>> /\ Sends(s, Uproc(a), DONE)
        /\ pc[s] = "answer"
    BY <1>7 DEF SstAnswers, At, tableVars, s
  <2>2. inbox'[TEST] = inbox[TEST]
    BY <1>0, <2>1 DEF Sends, BaseType
  <2> QED BY <1>2, <2>1, <2>2, Unheard DEF Place
<1>8. CASE Tells(s)
  <2>1. /\ pc[s] = "tell" /\ Goes(s, "termSelf") /\ Sends(s, TEST, NULL)
        /\ UNCHANGED <<heard, released>>
    BY <1>0, <1>8 DEF Tells, At, tableVars
  <2>2. Through' = Through \cup {a} /\ a \notin Through
    <3>1. \A b \in Asid : b # a => pc'[Sst(b)] = pc[Sst(b)]
      BY <1>0, <1>1, <2>1 DEF Place
    <3>2. pc'[Sst(a)] = "termSelf"
      BY <1>1, <2>1 DEF Place, s
    <3> QED BY <2>1, <3>1, <3>2 DEF Through, s
  <2>3. pc'[TEST] = pc[TEST]
    BY <1>0, <1>1, <2>1 DEF Place
  <2>4. News(inbox'[TEST], Through' \ released')
    <3>1. PICK q, S, T, m :
             /\ q \in Seq(Message)
             /\ q = inbox[TEST] /\ S = Through \ released /\ T = Through' \ released'
             /\ m = [from |-> s, what |-> NULL]
      BY <1>0 DEF BaseType
    <3>2. S \subseteq T /\ a \in T \ S /\ m.from = Sst(a)
      BY <2>1, <2>2, <3>1 DEF HeardInv, s
    <3>3. m \in Message
      <4>1. m \in MailTo(TEST)
        BY <3>1, MailFacts DEF s
      <4> QED BY <4>1 DEF MailTo
    <3>4. News(q, S)
      BY <3>1 DEF HeardInv
    <3>5. News(Append(q, m), T)
      BY <3>1, <3>2, <3>3, <3>4, NewsAppend
    <3>6. News(q, T)
      BY <3>2, <3>4 DEF News
    <3>7. inbox'[TEST] = Append(q, m) \/ inbox'[TEST] = q
      BY <1>0, <2>1, <3>1 DEF Sends, BaseType
    <3> QED BY <3>1, <3>5, <3>6, <3>7
  <2> QED BY <2>1, <2>2, <2>3, <2>4 DEF HeardInv
<1> QED BY <1>4, <1>5, <1>6, <1>7, <1>8 DEF SstStep, s

LEMMA HeardOtherStep ==
    ASSUME SupInv, HeardInv,
           SsiServes \/ \E a \in Asid : UprocStep(a) \/ \E d \in Dev : DeviceEnds(a, d)
    PROVE  HeardInv'
<1> USE DEF SupInv
<1>0. TEST \in Process /\ \A b \in Asid : Sst(b) \in Process \ {TEST}
  BY Names
<1>1. CASE SsiServes
  <2>1. PICK m : m = Head(ssi_inbox)
    OBVIOUS
  <2>2. /\ m \in Requests /\ UNCHANGED <<pc, heard, released>>
        /\ CreatesProcess(m) \/ GetsSupport(m) \/ Terminates(m) \/ DoesIo(m)
    BY <1>1, <2>1, SsiPassesFacts DEF SsiServes
  <2>3. PICK done \in Message : done = [from |-> SSI, what |-> DONE]
    BY <1>0, MailFacts DEF MailTo
  <2>4. done.from = SSI
    BY <2>3
  <2>5. ASSUME Sends(SSI, m.from, DONE)
        PROVE  inbox'[TEST] = inbox[TEST] \/ inbox'[TEST] = Append(inbox[TEST], done)
    BY <1>0, <2>3, <2>5 DEF Sends, BaseType
  <2>6. ASSUME Terminates(m)
        PROVE  \/ inbox'[TEST] = inbox[TEST] \/ inbox'[TEST] = <<>>
               \/ inbox'[TEST] = Append(inbox[TEST], done)
    BY <1>0, <2>2, <2>3, <2>6, TerminatesFacts
  <2>7. \/ inbox'[TEST] = inbox[TEST] \/ inbox'[TEST] = <<>>
        \/ inbox'[TEST] = Append(inbox[TEST], done)
    BY <2>2, <2>5, <2>6 DEF CreatesProcess, GetsSupport, DoesIo
  <2> QED BY <2>2, <2>4, <2>7, Unheard
<1>2. ASSUME NEW a \in Asid, UprocStep(a)  PROVE HeardInv'
  <2>1. /\ Uproc(a) \in Process \ {TEST} /\ Uproc(a)[1] = "uproc" /\ AsidOf(Uproc(a)) = a
        /\ \A b \in Asid : Sst(b) # Uproc(a)
    BY Names, DifferentNames
  <2>2. UNCHANGED <<heard, released>> /\ \E place \in Place : Goes(Uproc(a), place)
    BY <1>2 DEF UprocStep, UprocSends, UprocReceives, UprocTraps, Tells, TermsSelf, AsksSsi,
                tableVars, Place
  <2>3. pc'[TEST] = pc[TEST] /\ \A b \in Asid : pc'[Sst(b)] = pc[Sst(b)]
    BY <1>0, <2>1, <2>2, GoesFacts
  <2>4. \/ inbox' = inbox
        \/ \E From : Receives(Uproc(a), From)
        \/ \E what : Sends(Uproc(a), Sst(a), what)
    BY <1>2, <2>1 DEF UprocStep, UprocSends, UprocReceives, UprocTraps, Tells, TermsSelf
  <2>5. inbox'[TEST] = inbox[TEST]
    <3>1. ASSUME NEW From, Receives(Uproc(a), From)  PROVE inbox'[TEST] = inbox[TEST]
      BY <1>0, <2>1, <3>1, ReceivesFacts
    <3>2. ASSUME NEW what, Sends(Uproc(a), Sst(a), what)  PROVE inbox'[TEST] = inbox[TEST]
      BY <1>0, <3>2 DEF Sends, BaseType
    <3> QED BY <2>4, <3>1, <3>2
  <2> QED BY <2>2, <2>3, <2>5, Unheard
<1>3. ASSUME NEW a \in Asid, NEW d \in Dev, DeviceEnds(a, d)  PROVE HeardInv'
  <2>1. UNCHANGED <<pc, heard, released>> /\ \E what : Sends(SSI, Sst(a), what)
    BY <1>3 DEF DeviceEnds, tableVars
  <2>2. inbox'[TEST] = inbox[TEST]
    BY <1>0, <2>1 DEF Sends, BaseType
  <2> QED BY <2>1, <2>2, Unheard
<1> QED BY <1>1, <1>2, <1>3

LEMMA HeardStep == SupInv /\ HeardInv /\ [Next]_vars => HeardInv'
<1> SUFFICES ASSUME SupInv, HeardInv, [Next]_vars PROVE HeardInv'
  OBVIOUS
<1>1. CASE TestStep
  BY <1>1, HeardTestStep
<1>2. ASSUME NEW a \in Asid, SstStep(a)  PROVE HeardInv'
  BY <1>2, HeardSstStep
<1>3. CASE SsiServes \/ \E a \in Asid : UprocStep(a) \/ \E d \in Dev : DeviceEnds(a, d)
  BY <1>3, HeardOtherStep
<1>4. CASE UNCHANGED vars
  BY <1>4 DEF HeardInv, Through, News, vars, tableVars
<1> QED BY <1>1, <1>2, <1>3, <1>4 DEF Next, Stops

(* test ends the machine only when every SST is through with its U-proc,   *)
(* whatever traps and whenever it runs.                                    *)
THEOREM EndsAfterAll == Spec => []NobodyCutOff
<1>1. SupInv /\ HeardInv => NobodyCutOff
  <2> SUFFICES ASSUME SupInv, HeardInv, pc[TEST] \in {"termSelf", "ending"}, NEW a \in Asid
               PROVE  a \in released /\ pc[Sst(a)] \in {"termSelf", "ending"}
    BY DEF NobodyCutOff
  <2>1. PICK R : R = released
    OBVIOUS
  <2>2. Asid = 1..UPROCMAX /\ IsFiniteSet(Asid) /\ Cardinality(Asid) = UPROCMAX
    BY SupportAssumption, CountTo DEF Asid
  <2>3. R \subseteq Asid /\ Cardinality(R) = Cardinality(Asid)
    BY <2>1, <2>2 DEF HeardInv, SupInv, BaseType
  <2>4. R = Asid
    BY <2>2, <2>3, FS_Subset
  <2> QED BY <2>1, <2>4 DEF HeardInv, Through
<1>2. Init => SupInv /\ HeardInv
  BY SupInit, HeardInit
<1>3. SupInv /\ HeardInv /\ [Next]_vars => (SupInv /\ HeardInv)'
  BY SupStep, HeardStep
<1> QED BY <1>1, <1>2, <1>3, PTL DEF Spec
-----------------------------------------------------------------------------
(* What a device prints                                                    *)

Answer == {m \in Message : m.from = SSI}
RequestOf(a) == {m \in Message : m.from = Uproc(a) /\ m.what # NULL}
AskOf(a) == {m \in Requests : m.from = Sst(a) /\ m.ask.op # "data0"}
LatchOf(a) == {m \in Requests : m.from = Sst(a) /\ m.ask.op = "data0"}

(* What is under way between the U-proc of an ASID, its SST, and the SSI.  *)
Wishes(a) == Among(inbox[Sst(a)], RequestOf(a))
Answers(a) == Among(inbox[Sst(a)], Answer)
Asking(a) == Among(ssi_inbox, AskOf(a))
Latching(a) == Among(ssi_inbox, LatchOf(a))
Busy(a) == \E d \in Dev : device[<<a, d>>].busy # 0

SstOnce(a) == AtMostOne(inbox[Sst(a)], RequestOf(a)) /\ AtMostOne(inbox[Sst(a)], Answer)
SsiOnce(a) ==
    /\ AtMostOne(ssi_inbox, AskOf(a)) /\ AtMostOne(ssi_inbox, LatchOf(a))
    /\ Before(ssi_inbox, LatchOf(a), AskOf(a))
OneEach(a) == SstOnce(a) /\ SsiOnce(a) /\ Len(inbox[Uproc(a)]) <= 1

(* A U-proc waits while its request is under way.                          *)
Serving(a) == Writing(a) \/ pc[Sst(a)] = "answer"
OneRequest(a) ==
    /\ pc[Uproc(a)] = "start" => ~ Serving(a) /\ inbox[Uproc(a)] = <<>> /\ Wishes(a) = {}
    /\ Wishes(a) # {} => ~ Serving(a) /\ inbox[Uproc(a)] = <<>>
    /\ Serving(a) => inbox[Uproc(a)] = <<>>

(* An SST waits while what it has asked for is under way, but for data0.   *)
PlaceOf(m) ==
    CASE m.ask.op = "GETSUPPORTPTR" -> "support"
      [] m.ask.op = "CREATEPROCESS" -> "created"
      [] m.ask.op = "TERMPROCESS" -> IF m.ask.arg = m.from THEN "ending" ELSE "termChild"
      [] OTHER -> "status"
OneAnswer(a) ==
    /\ \A m \in Asking(a) : pc[Sst(a)] = PlaceOf(m) /\ Answers(a) = {} /\ ~ Busy(a)
    /\ Answers(a) # {} => pc[Sst(a)] \in {"support", "created", "termChild", "status"} /\ ~ Busy(a)
    /\ Busy(a) => pc[Sst(a)] = "status"
    /\ Latching(a) # {} =>
          /\ pc[Sst(a)] \in {"command", "status"} /\ ~ Busy(a)
          /\ pc[Sst(a)] = "status" => Asking(a) # {}

(* How far the device has come with what the U-proc has asked for.         *)
Out(a, d) == Len(printed[<<a, d>>])
AllOut(a) == \A d \in Dev : Out(a, d) = wanted[<<a, d>>]
Counts(a) ==
    /\ \A d \in Dev : Out(a, d) <= wanted[<<a, d>>]
    /\ pc[Uproc(a)] = "start" \/ inbox[Uproc(a)] # <<>> \/ pc[Sst(a)] = "answer" => AllOut(a)
    /\ \A m \in Wishes(a), d \in Dev :
          wanted[<<a, d>>] = Out(a, d) + (IF m.what.code = "WRITE" /\ m.what.dev = d
                                          THEN m.what.length ELSE 0)
    /\ Writing(a) =>
          /\ \A d \in Dev \ {work[a].dev} : Out(a, d) = wanted[<<a, d>>]
          /\ \/ Out(a, work[a].dev) = Char(a) - 1
             \/ pc[Sst(a)] = "status" /\ Out(a, work[a].dev) = Char(a)
    /\ pc[Sst(a)] = "data0" => work[a].dev = "IL_PRINTER"

(* The character under way is the one that comes next.                     *)
Latched(a) == Latching(a) # {} \/ device[<<a, "IL_PRINTER">>].data0 = Char(a)
Commanded(a) ==
    /\ pc[Sst(a)] = "status" =>
          \A m \in Answers(a) : Out(a, work[a].dev) = IF m.what = DONE THEN Char(a) ELSE Char(a) - 1
    /\ \A m \in Asking(a) : m.ask.op = "command" =>
          /\ m.ask.dev = work[a].dev /\ m.ask.value = Char(a) /\ Out(a, work[a].dev) = Char(a) - 1
          /\ work[a].dev = "IL_PRINTER" => Latched(a)
    /\ pc[Sst(a)] = "command" /\ work[a].dev = "IL_PRINTER" => Latched(a)
    /\ \A m \in Latching(a) :
          work[a].dev = "IL_PRINTER" /\ m.ask.dev = "IL_PRINTER" /\ m.ask.value = Char(a)
    /\ \A d \in Dev : device[<<a, d>>].busy # 0 =>
          d = work[a].dev /\ device[<<a, d>>].busy = Char(a) /\ Out(a, d) = Char(a) - 1

InOrder(a) == \A d \in Dev : printed[<<a, d>>] = [i \in 1..Out(a, d) |-> i]

AsidInv(a) ==
    OneEach(a) /\ OneRequest(a) /\ OneAnswer(a) /\ Counts(a) /\ Commanded(a) /\ InOrder(a)
OutputInv == \A a \in Asid : AsidInv(a)

LEMMA Kinds ==
    ASSUME NEW a \in Asid
    PROVE  /\ RequestOf(a) \cap Answer = {} /\ LatchOf(a) \cap AskOf(a) = {}
           /\ \A b \in Asid \ {a} : \A m : m \in RequestOf(a) \cup AskOf(a) \cup LatchOf(a) =>
                 m \notin RequestOf(b) \cup AskOf(b) \cup LatchOf(b)
  BY Names, DifferentNames DEF RequestOf, Answer, LatchOf, AskOf

(* An SST takes the answer of the SSI.                                     *)
LEMMA TakesAnswer ==
    ASSUME SupInv, NEW a \in Asid, OneEach(a), Receives(Sst(a), {SSI})
    PROVE  /\ Letter(Sst(a), {SSI}) \in Answers(a) /\ Answers(a)' = {}
           /\ Wishes(a)' = Wishes(a) /\ SstOnce(a)' /\ inbox'[Uproc(a)] = inbox[Uproc(a)]
<1>1. PICK q, new : q \in Seq(Message) /\ q = inbox[Sst(a)] /\ new = inbox'[Sst(a)]
  BY Names DEF SupInv, BaseType
<1>2. PICK i \in DOMAIN q : /\ q[i].from = SSI /\ Letter(Sst(a), {SSI}) = q[i]
                            /\ q[i] \in MailTo(Sst(a)) /\ new = RemoveAt(q, i)
  BY <1>1, Names, ReceivesFacts DEF SupInv
<1>3. inbox'[Uproc(a)] = inbox[Uproc(a)]
  BY Names, ReceivesFacts DEF SupInv
<1>4. q[i] \in Answer /\ q[i] \notin RequestOf(a)
  BY <1>2, Kinds DEF Answer, MailTo
<1>5. AtMostOne(q, RequestOf(a)) /\ AtMostOne(q, Answer)
  BY <1>1 DEF OneEach, SstOnce
<1>6. /\ AtMostOne(new, RequestOf(a)) /\ AtMostOne(new, Answer)
      /\ Among(new, Answer) = {} /\ Among(new, RequestOf(a)) = Among(q, RequestOf(a))
  BY <1>1, <1>2, <1>4, <1>5, AmongRemoved
<1>7. q[i] \in Among(q, Answer)
  BY <1>4 DEF Among, ToSet
<1> QED BY <1>1, <1>2, <1>3, <1>6, <1>7 DEF Answers, Wishes, SstOnce

(* An SST takes a message of its U-proc.                                   *)
LEMMA TakesWish ==
    ASSUME SupInv, NEW a \in Asid, OneEach(a), Receives(Sst(a), {Uproc(a)})
    PROVE  /\ Letter(Sst(a), {Uproc(a)}).what \in Request(a) \cup {NULL}
           /\ Answers(a)' = Answers(a)
           /\ Letter(Sst(a), {Uproc(a)}).what = NULL => Wishes(a)' = Wishes(a)
           /\ Letter(Sst(a), {Uproc(a)}).what # NULL =>
                 Letter(Sst(a), {Uproc(a)}) \in Wishes(a) /\ Wishes(a)' = {}
           /\ SstOnce(a)' /\ inbox'[Uproc(a)] = inbox[Uproc(a)]
<1>1. PICK q, new : q \in Seq(Message) /\ q = inbox[Sst(a)] /\ new = inbox'[Sst(a)]
  BY Names DEF SupInv, BaseType
<1>2. PICK i \in DOMAIN q : /\ q[i].from = Uproc(a) /\ Letter(Sst(a), {Uproc(a)}) = q[i]
                            /\ q[i] \in MailTo(Sst(a)) /\ new = RemoveAt(q, i)
  BY <1>1, Names, ReceivesFacts DEF SupInv
<1>3. inbox'[Uproc(a)] = inbox[Uproc(a)]
  BY Names, ReceivesFacts DEF SupInv
<1>4. /\ q[i] \notin Answer /\ q[i] \in Message
      /\ q[i].what # NULL <=> q[i] \in RequestOf(a)
  BY <1>2, Names DEF Answer, MailTo, RequestOf
<1>5. q[i].what \in Request(a) \cup {NULL}
  BY <1>2, Names DEF MailTo
<1>6. AtMostOne(q, RequestOf(a)) /\ AtMostOne(q, Answer)
  BY <1>1 DEF OneEach, SstOnce
<1>7. /\ AtMostOne(new, RequestOf(a)) /\ AtMostOne(new, Answer)
      /\ Among(new, Answer) = Among(q, Answer)
      /\ q[i].what # NULL => Among(new, RequestOf(a)) = {}
      /\ q[i].what = NULL => Among(new, RequestOf(a)) = Among(q, RequestOf(a))
  BY <1>1, <1>2, <1>4, <1>6, AmongRemoved
<1>8. q[i].what # NULL => q[i] \in Among(q, RequestOf(a))
  BY <1>4 DEF Among, ToSet
<1> QED BY <1>1, <1>2, <1>3, <1>5, <1>7, <1>8 DEF Answers, Wishes, SstOnce

(* The SSI answers an SST that is owed nothing else.                       *)
LEMMA GetsAnswer ==
    ASSUME SupInv, NEW a \in Asid, OneEach(a), Answers(a) = {}, NEW what \in {DONE, FAILED},
           inbox'[Sst(a)] = inbox[Sst(a)]
              \/ inbox'[Sst(a)] = Append(inbox[Sst(a)], [from |-> SSI, what |-> what])
    PROVE  /\ Answers(a)' \subseteq {[from |-> SSI, what |-> what]}
           /\ Wishes(a)' = Wishes(a) /\ SstOnce(a)'
<1>1. PICK q, new, m :
         /\ q \in Seq(Message) /\ q = inbox[Sst(a)] /\ new = inbox'[Sst(a)]
         /\ m = [from |-> SSI, what |-> what]
  BY Names DEF SupInv, BaseType
<1>2. m \in Message /\ m \in Answer /\ m \notin RequestOf(a)
  <2>1. m \in MailTo(Sst(a))
    BY <1>1, Names, MailFacts
  <2>2. m \in Answer
    BY <1>1, <2>1 DEF MailTo, Answer
  <2> QED BY <2>1, <2>2, Kinds DEF MailTo
<1>3. /\ AtMostOne(q, RequestOf(a)) /\ AtMostOne(q, Answer) /\ Among(q, Answer) = {}
  BY <1>1 DEF OneEach, SstOnce, Answers
<1>4. /\ Among(Append(q, m), Answer) = Among(q, Answer) \cup {m}
      /\ AtMostOne(Append(q, m), Answer)
  BY <1>1, <1>2, <1>3, Kinds, AmongAppend
<1>5. /\ Among(Append(q, m), RequestOf(a)) = Among(q, RequestOf(a))
      /\ AtMostOne(Append(q, m), RequestOf(a))
  BY <1>1, <1>2, <1>3, Kinds, AmongAppend
<1>6. new = q \/ new = Append(q, m)
  BY <1>1
<1> QED BY <1>1, <1>3, <1>4, <1>5, <1>6 DEF Answers, Wishes, SstOnce

(* A U-proc that has no request under way makes one; or traps, or ends.    *)
LEMMA GetsWish ==
    ASSUME SupInv, NEW a \in Asid, OneEach(a), NEW what \in Request(a) \cup {NULL},
           what # NULL => Wishes(a) = {},
           inbox' = inbox \/ Sends(Uproc(a), Sst(a), what)
    PROVE  /\ Answers(a)' = Answers(a) /\ SstOnce(a)' /\ inbox'[Uproc(a)] = inbox[Uproc(a)]
           /\ what = NULL => Wishes(a)' = Wishes(a)
           /\ what # NULL => Wishes(a)' \subseteq {[from |-> Uproc(a), what |-> what]}
<1>1. PICK q, new, m :
         /\ q \in Seq(Message) /\ q = inbox[Sst(a)] /\ new = inbox'[Sst(a)]
         /\ m = [from |-> Uproc(a), what |-> what]
  BY Names DEF SupInv, BaseType
<1>2. m \in MailTo(Sst(a)) /\ what \in Content
  BY <1>1, MailFacts, RequestFacts, ContentFacts
<1>3. m \in Message /\ m \notin Answer /\ (m \in RequestOf(a) <=> what # NULL)
  BY <1>1, <1>2, Names DEF MailTo, Answer, RequestOf
<1>4. /\ AtMostOne(q, RequestOf(a)) /\ AtMostOne(q, Answer)
      /\ what # NULL => Among(q, RequestOf(a)) = {}
  BY <1>1 DEF OneEach, SstOnce, Wishes
<1>5. /\ Among(Append(q, m), Answer) = Among(q, Answer) /\ AtMostOne(Append(q, m), Answer)
  BY <1>1, <1>3, <1>4, Kinds, AmongAppend
<1>6. /\ what # NULL => Among(Append(q, m), RequestOf(a)) = Among(q, RequestOf(a)) \cup {m}
      /\ what = NULL => Among(Append(q, m), RequestOf(a)) = Among(q, RequestOf(a))
      /\ AtMostOne(Append(q, m), RequestOf(a))
  BY <1>1, <1>3, <1>4, Kinds, AmongAppend
<1>7. (new = q \/ new = Append(q, m)) /\ inbox'[Uproc(a)] = inbox[Uproc(a)]
  BY <1>1, Names DEF Sends, SupInv, BaseType
<1> QED BY <1>1, <1>4, <1>5, <1>6, <1>7 DEF Answers, Wishes, SstOnce

(* An SST asks the SSI for something; or another process does.             *)
LEMMA PutsAsk ==
    ASSUME SupInv, NEW a \in Asid, OneEach(a), NEW p \in Process, NEW ask,
           [from |-> p, ask |-> ask] \in Requests, SendsSsi(p, ask)
    PROVE  /\ p # Sst(a) =>
                 Asking(a)' = Asking(a) /\ Latching(a)' = Latching(a) /\ SsiOnce(a)'
           /\ p = Sst(a) /\ ask.op # "data0" /\ Asking(a) = {} =>
                 /\ Asking(a)' = {[from |-> p, ask |-> ask]} /\ Latching(a)' = Latching(a)
                 /\ SsiOnce(a)'
           /\ p = Sst(a) /\ ask.op = "data0" /\ Asking(a) = {} /\ Latching(a) = {} =>
                 /\ Latching(a)' = {[from |-> p, ask |-> ask]} /\ Asking(a)' = {} /\ SsiOnce(a)'
<1>1. PICK q, new, m :
         q \in Seq(Requests) /\ q = ssi_inbox /\ new = ssi_inbox' /\ m = [from |-> p, ask |-> ask]
  BY DEF SupInv, BaseType
<1>2. new = Append(q, m) /\ m \in Requests
  BY <1>1 DEF SendsSsi
<1>3. /\ m \in AskOf(a) <=> p = Sst(a) /\ ask.op # "data0"
      /\ m \in LatchOf(a) <=> p = Sst(a) /\ ask.op = "data0"
  BY <1>1, <1>2 DEF AskOf, LatchOf
<1>4. AtMostOne(q, AskOf(a)) /\ AtMostOne(q, LatchOf(a)) /\ Before(q, LatchOf(a), AskOf(a))
  BY <1>1 DEF OneEach, SsiOnce
<1>5. /\ m \in AskOf(a) => Among(new, AskOf(a)) = Among(q, AskOf(a)) \cup {m}
      /\ m \notin AskOf(a) => Among(new, AskOf(a)) = Among(q, AskOf(a))
      /\ (m \in AskOf(a) => Among(q, AskOf(a)) = {}) => AtMostOne(new, AskOf(a))
  BY <1>1, <1>2, <1>4, Kinds, AmongAppend
<1>6. /\ m \in LatchOf(a) => Among(new, LatchOf(a)) = Among(q, LatchOf(a)) \cup {m}
      /\ m \notin LatchOf(a) => Among(new, LatchOf(a)) = Among(q, LatchOf(a))
      /\ (m \in LatchOf(a) => Among(q, LatchOf(a)) = {}) => AtMostOne(new, LatchOf(a))
      /\ (m \in LatchOf(a) => Among(q, AskOf(a)) = {}) => Before(new, LatchOf(a), AskOf(a))
  BY <1>1, <1>2, <1>4, Kinds, AmongAppend
<1>7. /\ Asking(a) = Among(q, AskOf(a)) /\ Asking(a)' = Among(new, AskOf(a))
      /\ Latching(a) = Among(q, LatchOf(a)) /\ Latching(a)' = Among(new, LatchOf(a))
      /\ AtMostOne(new, AskOf(a)) /\ AtMostOne(new, LatchOf(a))
            /\ Before(new, LatchOf(a), AskOf(a)) => SsiOnce(a)'
  BY <1>1 DEF Asking, Latching, SsiOnce
<1> QED BY <1>1, <1>3, <1>5, <1>6, <1>7

(* The SSI takes the next request.                                         *)
LEMMA PassesAsk ==
    ASSUME SupInv, NEW a \in Asid, OneEach(a), ssi_inbox # <<>>, SsiPasses
    PROVE  /\ SsiOnce(a)'
           /\ Head(ssi_inbox).from # Sst(a) => Asking(a)' = Asking(a) /\ Latching(a)' = Latching(a)
           /\ Head(ssi_inbox).from = Sst(a) /\ Head(ssi_inbox).ask.op # "data0" =>
                 /\ Head(ssi_inbox) \in Asking(a)
                 /\ Asking(a)' = {} /\ Latching(a)' = {} /\ Latching(a) = {}
           /\ Head(ssi_inbox).from = Sst(a) /\ Head(ssi_inbox).ask.op = "data0" =>
                 /\ Head(ssi_inbox) \in Latching(a)
                 /\ Asking(a)' = Asking(a) /\ Latching(a)' = {}
<1>1. PICK q, new, m :
         q \in Seq(Requests) /\ q = ssi_inbox /\ new = ssi_inbox' /\ m = Head(q)
  BY DEF SupInv, BaseType
<1>2. new = Tail(q) /\ m \in Requests /\ q # <<>> /\ m \in ToSet(q)
  <2>1. 1 \in DOMAIN q /\ m = q[1] /\ m \in Requests
    BY <1>1, SsiPassesFacts DEF SupInv
  <2> QED BY <1>1, <2>1 DEF SsiPasses, ToSet
<1>3. /\ m \in AskOf(a) <=> m.from = Sst(a) /\ m.ask.op # "data0"
      /\ m \in LatchOf(a) <=> m.from = Sst(a) /\ m.ask.op = "data0"
  BY <1>2 DEF AskOf, LatchOf
<1>4. AtMostOne(q, AskOf(a)) /\ AtMostOne(q, LatchOf(a)) /\ Before(q, LatchOf(a), AskOf(a))
  BY <1>1 DEF OneEach, SsiOnce
<1>5. /\ AtMostOne(new, AskOf(a)) /\ Before(new, LatchOf(a), AskOf(a))
      /\ m \in AskOf(a) => Among(new, AskOf(a)) = {} /\ Among(q, LatchOf(a)) = {}
      /\ m \notin AskOf(a) => Among(new, AskOf(a)) = Among(q, AskOf(a))
  BY <1>1, <1>2, <1>4, AmongPassed
<1>6. /\ AtMostOne(new, LatchOf(a))
      /\ m \in LatchOf(a) => Among(new, LatchOf(a)) = {}
      /\ m \notin LatchOf(a) => Among(new, LatchOf(a)) = Among(q, LatchOf(a))
  <2>1. Before(q, {}, LatchOf(a))
    BY DEF Before
  <2> QED BY <1>1, <1>2, <1>4, <2>1, AmongPassed
<1>8. m \in AskOf(a) => m \notin LatchOf(a)
  BY <1>3
<1>9. (m \in AskOf(a) => m \in Among(q, AskOf(a))) /\ (m \in LatchOf(a) => m \in Among(q, LatchOf(a)))
  BY <1>2 DEF Among
<1>10. /\ Asking(a) = Among(q, AskOf(a)) /\ Asking(a)' = Among(new, AskOf(a))
       /\ Latching(a) = Among(q, LatchOf(a)) /\ Latching(a)' = Among(new, LatchOf(a))
       /\ SsiOnce(a)' = (/\ AtMostOne(new, AskOf(a)) /\ AtMostOne(new, LatchOf(a))
                         /\ Before(new, LatchOf(a), AskOf(a)))
  BY <1>1 DEF Asking, Latching, SsiOnce
<1> QED BY <1>1, <1>3, <1>5, <1>6, <1>8, <1>9, <1>10
-----------------------------------------------------------------------------
(* What keeps the account of an ASID in order                              *)

LEMMA AsidTypes ==
    ASSUME SupInv, NEW a \in Asid
    PROVE  /\ work[a] \in Payload /\ work[a].length \in Nat
           /\ \A d \in Dev :
                 /\ <<a, d>> \in Asid \X Dev /\ wanted[<<a, d>>] \in Nat
                 /\ printed[<<a, d>>] \in Seq(Int) /\ Out(a, d) \in Nat
                 /\ device[<<a, d>>].data0 \in Int /\ device[<<a, d>>].busy \in Int
           /\ Writing(a) =>
                 /\ work[a].dev \in Dev /\ work[a].length > 0 /\ Char(a) \in Int
                 /\ Char(a) <= wanted[<<a, work[a].dev>>]
           /\ inbox[Uproc(a)] \in Seq(Message) /\ Len(inbox[Uproc(a)]) \in Nat
<1>1. work[a] \in Payload /\ work[a].length \in Nat
  BY DEF SupInv, BaseType, Payload
<1>2. ASSUME NEW d \in Dev
      PROVE  /\ <<a, d>> \in Asid \X Dev /\ wanted[<<a, d>>] \in Nat
             /\ printed[<<a, d>>] \in Seq(Int)
             /\ device[<<a, d>>].data0 \in Int /\ device[<<a, d>>].busy \in Int
  <2>1. PICK k \in Asid \X Dev : k = <<a, d>>
    OBVIOUS
  <2>2. device[k] \in [data0 : Int, busy : Int] /\ wanted[k] \in Nat /\ printed[k] \in Seq(Int)
    BY DEF SupInv, BaseType
  <2> QED BY <2>1, <2>2
<1>3. \A d \in Dev : Out(a, d) \in Nat
  BY <1>2, LenProperties DEF Out
<1>4. Writing(a) => work[a].dev \in Dev /\ work[a].length > 0
  BY DEF SupInv, Writes
<1>5. Writing(a) => Char(a) \in Int /\ Char(a) <= wanted[<<a, work[a].dev>>]
  BY <1>1, <1>2, <1>4 DEF Char
<1>6. inbox[Uproc(a)] \in Seq(Message)
  BY Names DEF SupInv, BaseType
<1> QED BY <1>1, <1>2, <1>3, <1>4, <1>5, <1>6, LenProperties

(* An ASID at which nothing is printed, written or wished for.             *)
SameData(a) ==
    /\ work'[a] = work[a]
    /\ \A d \in Dev : /\ device'[<<a, d>>] = device[<<a, d>>]
                      /\ printed'[<<a, d>>] = printed[<<a, d>>]
                      /\ wanted'[<<a, d>>] = wanted[<<a, d>>]

LEMMA SameFacts ==
    ASSUME SupInv, NEW a \in Asid, SameData(a)
    PROVE  /\ \A d \in Dev : Out(a, d)' = Out(a, d) /\ wanted'[<<a, d>>] = wanted[<<a, d>>]
           /\ Busy(a)' <=> Busy(a)
           /\ AllOut(a)' <=> AllOut(a)
           /\ InOrder(a) => InOrder(a)'
           /\ Writing(a) => Char(a)' = Char(a)
           /\ work'[a] = work[a]
<1>1. \A d \in Dev : Out(a, d)' = Out(a, d) /\ wanted'[<<a, d>>] = wanted[<<a, d>>]
  BY DEF SameData, Out
<1>2. Busy(a)' <=> Busy(a)
  BY DEF SameData, Busy
<1>3. AllOut(a)' <=> AllOut(a)
  BY <1>1 DEF AllOut
<1>4. InOrder(a) => InOrder(a)'
  BY <1>1 DEF InOrder, SameData
<1>5. Writing(a) => Char(a)' = Char(a)
  BY AsidTypes DEF SameData, Char
<1> QED BY <1>1, <1>2, <1>3, <1>4, <1>5 DEF SameData

(* While an SST is not at a character, there is none under way.            *)
LEMMA NoneUnderWay ==
    ASSUME NEW a \in Asid, OneAnswer(a), ~ Writing(a)
    PROVE  /\ Latching(a) = {} /\ ~ Busy(a) /\ \A m \in Asking(a) : m.ask.op # "command"
BY DEF OneAnswer, Writing, PlaceOf

LEMMA NoneThen ==
    ASSUME NEW a \in Asid, OneAnswer(a)', ~ Writing(a)'
    PROVE  Commanded(a)'
<1>1. pc'[Sst(a)] \notin {"data0", "command", "status"}
  BY DEF Writing
<1>2. \A m \in Asking(a)' : m.ask.op # "command"
  BY <1>1 DEF OneAnswer, PlaceOf
<1>3. Latching(a)' = {} /\ ~ Busy(a)'
  BY <1>1 DEF OneAnswer
<1>4. \A d \in Dev : device'[<<a, d>>].busy = 0
  BY <1>3 DEF Busy
<1> QED BY <1>1, <1>2, <1>3, <1>4 DEF Commanded

(* Nothing happens at an ASID but that messages are lost, or its U-proc    *)
(* stops.                                                                  *)
LEMMA Undisturbed ==
    ASSUME SupInv, NEW a \in Asid, AsidInv(a), SameData(a), OneEach(a)',
           pc'[Sst(a)] = pc[Sst(a)], pc'[Uproc(a)] = "start" => pc[Uproc(a)] = "start",
           Answers(a)' \subseteq Answers(a), Wishes(a)' \subseteq Wishes(a),
           Asking(a)' = Asking(a), Latching(a)' = Latching(a),
           inbox'[Uproc(a)] \in {inbox[Uproc(a)], <<>>}
    PROVE  AsidInv(a)'
<1>1. /\ \A d \in Dev : Out(a, d)' = Out(a, d) /\ wanted'[<<a, d>>] = wanted[<<a, d>>]
      /\ Busy(a)' <=> Busy(a)
      /\ AllOut(a)' <=> AllOut(a)
      /\ InOrder(a)'
      /\ Writing(a) => Char(a)' = Char(a)
      /\ work'[a] = work[a]
  BY SameFacts DEF AsidInv
<1>2. (Writing(a)' <=> Writing(a)) /\ (Serving(a)' <=> Serving(a))
  BY DEF Writing, Serving
<1>3. OneRequest(a)'
  <2>1. OneRequest(a)
    BY DEF AsidInv
  <2> QED BY <1>2, <2>1 DEF OneRequest
<1>4. OneAnswer(a)'
  <2>1. OneAnswer(a)
    BY DEF AsidInv
  <2> QED BY <1>1, <2>1 DEF OneAnswer
<1>5. Counts(a)'
  <2>1. Counts(a)
    BY DEF AsidInv
  <2>2. Writing(a) => work[a].dev \in Dev
    BY AsidTypes
  <2>3. \A d \in Dev : Out(a, d)' <= wanted'[<<a, d>>]
    BY <1>1, <2>1 DEF Counts
  <2>4. pc'[Uproc(a)] = "start" \/ inbox'[Uproc(a)] # <<>> \/ pc'[Sst(a)] = "answer" => AllOut(a)'
    BY <1>1, <2>1 DEF Counts
  <2>5. \A m \in Wishes(a)', d \in Dev :
            wanted'[<<a, d>>] = Out(a, d)' + (IF m.what.code = "WRITE" /\ m.what.dev = d
                                              THEN m.what.length ELSE 0)
    BY <1>1, <2>1 DEF Counts
  <2>6. Writing(a)' =>
          /\ \A d \in Dev \ {work'[a].dev} : Out(a, d)' = wanted'[<<a, d>>]
          /\ \/ Out(a, work[a].dev)' = Char(a)' - 1
             \/ pc'[Sst(a)] = "status" /\ Out(a, work[a].dev)' = Char(a)'
    BY <1>1, <1>2, <2>1, <2>2 DEF Counts
  <2>7. pc'[Sst(a)] = "data0" => work'[a].dev = "IL_PRINTER"
    BY <1>1, <2>1 DEF Counts
  <2> QED BY <2>3, <2>4, <2>5, <2>6, <2>7 DEF Counts
<1>6. Commanded(a)'
  <2>1. CASE ~ Writing(a)
    BY <1>2, <1>4, <2>1, NoneThen
  <2>2. CASE Writing(a)
    <3>1. Commanded(a) /\ Char(a)' = Char(a) /\ Out(a, work[a].dev)' = Out(a, work[a].dev)
      BY <1>1, <2>2, AsidTypes DEF AsidInv
    <3>2. Latched(a) => Latched(a)'
      <4>1. "IL_PRINTER" \in Dev
        BY DEF Dev
      <4> QED BY <3>1, <4>1 DEF Latched, SameData
    <3>3. \A d \in Dev : device'[<<a, d>>].busy = device[<<a, d>>].busy
      BY DEF SameData
    <3> QED BY <1>1, <3>1, <3>2, <3>3 DEF Commanded
  <2> QED BY <2>1, <2>2
<1> QED BY <1>1, <1>3, <1>4, <1>5, <1>6 DEF AsidInv

(* An SST goes on to a place where it prints nothing and answers nobody.   *)
LEMMA Idles ==
    ASSUME SupInv, NEW a \in Asid, AsidInv(a), SameData(a), OneEach(a)',
           pc'[Sst(a)] \notin {"data0", "command", "status", "answer"},
           pc'[Uproc(a)] = pc[Uproc(a)], Wishes(a)' \subseteq Wishes(a),
           inbox'[Uproc(a)] = inbox[Uproc(a)],
           Answers(a)' = {}, Latching(a)' = {}, ~ Busy(a),
           \A m \in Asking(a)' : pc'[Sst(a)] = PlaceOf(m)
    PROVE  AsidInv(a)'
<1>1. /\ \A d \in Dev : Out(a, d)' = Out(a, d) /\ wanted'[<<a, d>>] = wanted[<<a, d>>]
      /\ Busy(a)' <=> Busy(a)
      /\ AllOut(a)' <=> AllOut(a)
      /\ InOrder(a)'
  BY SameFacts DEF AsidInv
<1>2. ~ Writing(a)' /\ ~ Serving(a)'
  BY DEF Writing, Serving
<1>3. OneRequest(a)'
  <2>1. OneRequest(a)
    BY DEF AsidInv
  <2> QED BY <1>2, <2>1 DEF OneRequest
<1>4. OneAnswer(a)'
  BY <1>1 DEF OneAnswer
<1>5. Counts(a)'
  <2>1. Counts(a)
    BY DEF AsidInv
  <2>2. \A d \in Dev : Out(a, d)' <= wanted'[<<a, d>>]
    BY <1>1, <2>1 DEF Counts
  <2>3. pc'[Uproc(a)] = "start" \/ inbox'[Uproc(a)] # <<>> => AllOut(a)'
    BY <1>1, <2>1 DEF Counts
  <2>4. \A m \in Wishes(a)', d \in Dev :
            wanted'[<<a, d>>] = Out(a, d)' + (IF m.what.code = "WRITE" /\ m.what.dev = d
                                              THEN m.what.length ELSE 0)
    BY <1>1, <2>1 DEF Counts
  <2> QED BY <1>2, <2>2, <2>3, <2>4 DEF Counts
<1>6. Commanded(a)'
  BY <1>2, <1>4, NoneThen
<1> QED BY <1>1, <1>3, <1>4, <1>5, <1>6 DEF AsidInv

LEMMA Unowed ==
    ASSUME NEW a \in Asid, OneAnswer(a),
           pc[Sst(a)] \notin {"support", "created", "ending", "termChild", "status"}
    PROVE  /\ Asking(a) = {} /\ Answers(a) = {} /\ ~ Busy(a)
           /\ pc[Sst(a)] # "command" => Latching(a) = {}
<1>1. \A m : PlaceOf(m) \in {"support", "created", "ending", "termChild", "status"}
  BY DEF PlaceOf
<1> QED BY <1>1 DEF OneAnswer

LEMMA Answered ==
    ASSUME NEW a \in Asid, OneAnswer(a), Answers(a) # {}
    PROVE  Asking(a) = {} /\ Latching(a) = {} /\ ~ Busy(a)
BY DEF OneAnswer

LEMMA SameSst ==
    ASSUME NEW a \in Asid, inbox'[Sst(a)] = inbox[Sst(a)]
    PROVE  Answers(a)' = Answers(a) /\ Wishes(a)' = Wishes(a) /\ (SstOnce(a) => SstOnce(a)')
BY DEF Answers, Wishes, SstOnce

LEMMA SameSsi ==
    ASSUME NEW a \in Asid, ssi_inbox' = ssi_inbox
    PROVE  Asking(a)' = Asking(a) /\ Latching(a)' = Latching(a) /\ (SsiOnce(a) => SsiOnce(a)')
BY DEF Asking, Latching, SsiOnce

(* An SST asks for something from a place where it does not print.         *)
LEMMA AsksFor ==
    ASSUME SupInv, NEW a \in Asid, AsidInv(a), SameData(a), SstOnce(a)', Answers(a)' = {},
           Wishes(a)' \subseteq Wishes(a), Asking(a) = {}, Latching(a) = {}, ~ Busy(a),
           NEW ask, [from |-> Sst(a), ask |-> ask] \in Requests, SendsSsi(Sst(a), ask),
           ask.op \in {"CREATEPROCESS", "TERMPROCESS", "GETSUPPORTPTR"},
           Goes(Sst(a), PlaceOf([from |-> Sst(a), ask |-> ask])),
           inbox'[Uproc(a)] = inbox[Uproc(a)]
    PROVE  AsidInv(a)'
<1>1. PICK m : m = [from |-> Sst(a), ask |-> ask]
  OBVIOUS
<1>2. PlaceOf(m) \in {"support", "created", "ending", "termChild"}
  BY <1>1 DEF PlaceOf
<1>3. pc'[Sst(a)] = PlaceOf(m) /\ pc'[Uproc(a)] = pc[Uproc(a)]
  BY <1>1, <1>2, GoesFacts, Names DEF Place, SupInv
<1>4. Asking(a)' = {m} /\ Latching(a)' = {} /\ SsiOnce(a)'
  BY <1>1, Names, PutsAsk DEF AsidInv
<1>5. OneEach(a)'
  BY <1>4 DEF AsidInv, OneEach
<1>6. \A n \in Asking(a)' : pc'[Sst(a)] = PlaceOf(n)
  BY <1>3, <1>4
<1>7. pc'[Sst(a)] \notin {"data0", "command", "status", "answer"}
  BY <1>2, <1>3
<1> QED BY <1>3, <1>4, <1>5, <1>6, <1>7, Idles

(* The SST waits for its U-proc, or has nothing more to do with it.        *)
LEMMA SstIdleSteps ==
    ASSUME SupInv, NEW a \in Asid, AsidInv(a),
           \/ SstStarts(a) \/ SstCreates(a) \/ SstIsReady(a) \/ SstHears(a)
           \/ Tells(Sst(a)) \/ TermsSelf(Sst(a))
    PROVE  AsidInv(a)'
<1> DEFINE s == Sst(a)
           u == Uproc(a)
<1>0. s \in Process /\ u \in Process /\ s # u /\ s[1] = "sst" /\ s # TEST /\ u # TEST
  BY Names
<1>1. OneEach(a) /\ OneAnswer(a) /\ SstOnce(a) /\ SsiOnce(a) /\ Len(inbox[u]) <= 1
  BY DEF AsidInv, OneEach
<1>2. UNCHANGED <<ioVars, userVars>> => SameData(a)
  BY DEF SameData, ioVars, userVars
<1>3. /\ [from |-> s, ask |-> Asks("GETSUPPORTPTR", s)] \in Requests
      /\ [from |-> s, ask |-> Creates(u)] \in Requests
      /\ [from |-> s, ask |-> Asks("TERMPROCESS", s)] \in Requests
      /\ PlaceOf([from |-> s, ask |-> Asks("GETSUPPORTPTR", s)]) = "support"
      /\ PlaceOf([from |-> s, ask |-> Creates(u)]) = "created"
      /\ PlaceOf([from |-> s, ask |-> Asks("TERMPROCESS", s)]) = "ending"
      /\ Asks("GETSUPPORTPTR", s).op = "GETSUPPORTPTR" /\ Creates(u).op = "CREATEPROCESS"
      /\ Asks("TERMPROCESS", s).op = "TERMPROCESS"
  BY <1>0, AskFacts DEF PlaceOf, Asks, Creates
<1>4. CASE SstStarts(a)
  <2>1. /\ pc[s] = "start" /\ Goes(s, "support") /\ SendsSsi(s, Asks("GETSUPPORTPTR", s))
        /\ UNCHANGED <<inbox, ioVars, userVars>>
    BY <1>4 DEF SstStarts, AsksSsi, At
  <2>2. Asking(a) = {} /\ Answers(a) = {} /\ ~ Busy(a) /\ Latching(a) = {}
    BY <1>1, <2>1, Unowed
  <2>3. Answers(a)' = Answers(a) /\ Wishes(a)' = Wishes(a) /\ SstOnce(a)'
    BY <1>1, <2>1, SameSst
  <2> QED BY <1>2, <1>3, <2>1, <2>2, <2>3, AsksFor
<1>5. CASE SstCreates(a)
  <2>1. /\ Receives(s, {SSI}) /\ Goes(s, "created") /\ SendsSsi(s, Creates(u))
        /\ UNCHANGED <<ioVars, userVars>>
    BY <1>5 DEF SstCreates, AsksSsi
  <2>2. /\ Answers(a) # {} /\ Answers(a)' = {} /\ Wishes(a)' = Wishes(a) /\ SstOnce(a)'
        /\ inbox'[u] = inbox[u]
    BY <1>1, <2>1, TakesAnswer
  <2>3. Asking(a) = {} /\ ~ Busy(a) /\ Latching(a) = {}
    BY <1>1, <2>2, Answered
  <2> QED BY <1>2, <1>3, <2>1, <2>2, <2>3, AsksFor
<1>6. CASE SstIsReady(a) \/ SstHears(a)
  <2>1. PICK place \in {"serve", "tell"} :
           Receives(s, {SSI}) /\ Goes(s, place) /\ UNCHANGED <<ssi_inbox, ioVars, userVars>>
    BY <1>6 DEF SstIsReady, SstHears
  <2>2. /\ Answers(a) # {} /\ Answers(a)' = {} /\ Wishes(a)' = Wishes(a) /\ SstOnce(a)'
        /\ inbox'[u] = inbox[u]
    BY <1>1, <2>1, TakesAnswer
  <2>3. Asking(a) = {} /\ ~ Busy(a) /\ Latching(a) = {}
    BY <1>1, <2>2, Answered
  <2>4. Asking(a)' = {} /\ Latching(a)' = {} /\ SsiOnce(a)'
    BY <1>1, <2>1, <2>3, SameSsi
  <2>5. pc'[s] = place /\ pc'[u] = pc[u]
    BY <1>0, <2>1, GoesFacts DEF SupInv, Place
  <2>6. OneEach(a)'
    BY <1>1, <2>2, <2>4 DEF OneEach
  <2>7. pc'[s] \notin {"data0", "command", "status", "answer"}
    BY <2>5
  <2> QED BY <1>2, <2>1, <2>2, <2>3, <2>4, <2>5, <2>6, <2>7, Idles
<1>7. CASE Tells(s)
  <2>1. /\ pc[s] = "tell" /\ Goes(s, "termSelf") /\ Sends(s, TEST, NULL)
        /\ UNCHANGED <<ssi_inbox, ioVars, userVars>>
    BY <1>0, <1>7 DEF Tells, At
  <2>2. inbox'[s] = inbox[s] /\ inbox'[u] = inbox[u]
    BY <1>0, <2>1 DEF Sends, SupInv, BaseType
  <2>3. Asking(a) = {} /\ Answers(a) = {} /\ ~ Busy(a) /\ Latching(a) = {}
    BY <1>1, <2>1, Unowed
  <2>4. Answers(a)' = {} /\ Wishes(a)' = Wishes(a) /\ SstOnce(a)'
    BY <1>1, <2>2, <2>3, SameSst
  <2>5. Asking(a)' = {} /\ Latching(a)' = {} /\ SsiOnce(a)'
    BY <1>1, <2>1, <2>3, SameSsi
  <2>6. pc'[s] = "termSelf" /\ pc'[u] = pc[u]
    BY <1>0, <2>1, GoesFacts DEF SupInv, Place
  <2>7. OneEach(a)'
    BY <1>1, <2>2, <2>4, <2>5 DEF OneEach
  <2> QED BY <1>2, <2>1, <2>2, <2>3, <2>4, <2>5, <2>6, <2>7, Idles
<1>8. CASE TermsSelf(s)
  <2>1. /\ pc[s] = "termSelf" /\ Goes(s, "ending") /\ SendsSsi(s, Asks("TERMPROCESS", s))
        /\ UNCHANGED <<inbox, ioVars, userVars>>
    BY <1>8 DEF TermsSelf, AsksSsi, At
  <2>2. Asking(a) = {} /\ Answers(a) = {} /\ ~ Busy(a) /\ Latching(a) = {}
    BY <1>1, <2>1, Unowed
  <2>3. Answers(a)' = Answers(a) /\ Wishes(a)' = Wishes(a) /\ SstOnce(a)'
    BY <1>1, <2>1, SameSst
  <2> QED BY <1>2, <1>3, <2>1, <2>2, <2>3, AsksFor
<1> QED BY <1>4, <1>5, <1>6, <1>7, <1>8

(* Char after a write is taken, or a character printed.                    *)
LEMMA SstTakesStep ==
    ASSUME SupInv, NEW a \in Asid, AsidInv(a), SstTakes(a)
    PROVE  AsidInv(a)'
<1> DEFINE s == Sst(a)
           u == Uproc(a)
<1>0. s \in Process /\ u \in Process /\ s # u /\ s[1] = "sst" /\ s # TEST /\ u # TEST
  BY Names
<1>1. /\ OneEach(a) /\ OneRequest(a) /\ OneAnswer(a) /\ Counts(a) /\ InOrder(a)
      /\ SstOnce(a) /\ SsiOnce(a) /\ Len(inbox[u]) <= 1
  BY DEF AsidInv, OneEach
<1>2. PICK m : m = Letter(s, {u})
  OBVIOUS
<1>3. pc[s] = "serve" /\ Receives(s, {u}) /\ UNCHANGED <<device, printed, userVars>>
  BY DEF SstTakes, At
<1>4. /\ m.what \in Request(a) \cup {NULL} /\ Answers(a)' = Answers(a)
      /\ m.what = NULL => Wishes(a)' = Wishes(a)
      /\ m.what # NULL => m \in Wishes(a) /\ Wishes(a)' = {}
      /\ SstOnce(a)' /\ inbox'[u] = inbox[u]
  BY <1>1, <1>2, <1>3, TakesWish
<1>5. Asking(a) = {} /\ Answers(a) = {} /\ ~ Busy(a) /\ Latching(a) = {} /\ Answers(a)' = {}
  BY <1>1, <1>3, <1>4, Unowed
<1>6. Wishes(a)' \subseteq Wishes(a)
  BY <1>4
<1>7. /\ \A d \in Dev : Out(a, d)' = Out(a, d) /\ wanted'[<<a, d>>] = wanted[<<a, d>>]
      /\ ~ Busy(a)' /\ InOrder(a)'
  BY <1>1, <1>3, <1>5 DEF Out, userVars, Busy, InOrder
<1>8. CASE /\ m.what.code = "TERMINATE" /\ UNCHANGED work
           /\ AsksSsi(s, Asks("TERMPROCESS", u), "termChild")
  <2>1. /\ [from |-> s, ask |-> Asks("TERMPROCESS", u)] \in Requests
        /\ PlaceOf([from |-> s, ask |-> Asks("TERMPROCESS", u)]) = "termChild"
        /\ Asks("TERMPROCESS", u).op = "TERMPROCESS"
    BY <1>0, AskFacts DEF PlaceOf, Asks
  <2>2. Goes(s, "termChild") /\ SendsSsi(s, Asks("TERMPROCESS", u)) /\ SameData(a)
    BY <1>3, <1>8 DEF AsksSsi, SameData, userVars
  <2> QED BY <1>4, <1>5, <1>6, <2>1, <2>2, AsksFor
<1>9. CASE m.what.code = "NULL" /\ (Goes(s, "serve") \/ Goes(s, "tell")) /\ UNCHANGED <<ssi_inbox, work>>
  <2>1. pc'[s] \in {"serve", "tell"} /\ pc'[u] = pc[u]
    BY <1>0, <1>9, GoesFacts DEF SupInv, Place
  <2>2. Asking(a)' = {} /\ Latching(a)' = {} /\ SsiOnce(a)'
    BY <1>1, <1>5, <1>9, SameSsi
  <2>3. OneEach(a)' /\ SameData(a)
    BY <1>1, <1>3, <1>4, <1>9, <2>2 DEF OneEach, SameData, userVars
  <2>4. pc'[s] \notin {"data0", "command", "status", "answer"}
    BY <2>1
  <2> QED BY <1>4, <1>5, <1>6, <2>1, <2>2, <2>3, <2>4, Idles
<1>10. CASE /\ UNCHANGED ssi_inbox
            /\ \/ m.what.code = "GET_TOD" /\ Goes(s, "answer") /\ UNCHANGED work
               \/ m.what.code = "WRITE" /\ Goes(s, PlaceFor(m.what)) /\ work' = [work EXCEPT ![a] = m.what]
  <2>1. m.what \in Request(a) /\ m.what # NULL /\ m \in Wishes(a) /\ Wishes(a)' = {}
    BY <1>4, <1>10, ContentFacts
  <2>2. /\ m.what \in Payload /\ m.what.length \in Nat
        /\ m.what.code = "WRITE" => m.what.dev \in Dev
    BY <2>1, RequestFacts DEF Payload
  <2>3. PICK place : /\ place \in {"answer", "data0", "command"} /\ Goes(s, place)
                     /\ m.what.code = "GET_TOD" => place = "answer"
                     /\ m.what.code = "WRITE" =>
                           /\ place = PlaceFor(m.what) /\ work' = [work EXCEPT ![a] = m.what]
                           /\ place # "answer" => m.what.length > 0
                           /\ place = "answer" <=> m.what.length = 0
                           /\ place = "data0" => m.what.dev = "IL_PRINTER"
                           /\ place = "command" => m.what.dev # "IL_PRINTER"
    <3>1. CASE m.what.code = "GET_TOD"
      BY <1>10, <3>1
    <3>2. CASE m.what.code = "WRITE"
      <4>1. PlaceFor(m.what) = "command" => m.what.dev # "IL_PRINTER"
        BY DEF PlaceFor
      <4> QED BY <1>10, <2>2, <3>2, <4>1, PlaceFacts
    <3> QED BY <1>10, <3>1, <3>2
  <2>4. pc'[s] = place /\ pc'[u] = pc[u]
    BY <1>0, <2>3, GoesFacts DEF SupInv, Place
  <2>5. Asking(a)' = {} /\ Latching(a)' = {} /\ SsiOnce(a)'
    BY <1>1, <1>5, <1>10, SameSsi
  <2>6. OneEach(a)'
    BY <1>1, <1>4, <2>5 DEF OneEach
  <2>7. pc[u] # "start" /\ inbox[u] = <<>>
    BY <1>1, <2>1 DEF OneRequest
  <2>8. OneRequest(a)'
    BY <1>4, <2>1, <2>4, <2>7 DEF OneRequest
  <2>9. OneAnswer(a)'
    BY <1>5, <1>7, <2>5 DEF OneAnswer
  <2>10. \A d \in Dev : wanted[<<a, d>>] = Out(a, d) + (IF m.what.code = "WRITE" /\ m.what.dev = d
                                                        THEN m.what.length ELSE 0)
    BY <1>1, <2>1 DEF Counts
  <2>11. \A d \in Dev : Out(a, d) \in Nat /\ wanted[<<a, d>>] \in Nat
    BY AsidTypes
  <2>12. m.what.code = "WRITE" => work'[a] = m.what
    BY <2>3 DEF SupInv, BaseType
  <2>13. place # "answer" =>
            /\ m.what.code = "WRITE" /\ work'[a].dev = m.what.dev /\ m.what.dev \in Dev
            /\ Char(a)' = wanted[<<a, m.what.dev>>] - m.what.length + 1
    BY <1>7, <1>10, <2>2, <2>3, <2>12 DEF Char
  <2>14. Counts(a)'
    <3>1. \A d \in Dev : Out(a, d)' <= wanted'[<<a, d>>]
      BY <1>1, <1>7 DEF Counts
    <3>2. place = "answer" => AllOut(a)'
      BY <1>7, <1>10, <2>2, <2>3, <2>10, <2>11 DEF AllOut
    <3>3. pc'[u] = "start" \/ inbox'[u] # <<>> \/ pc'[s] = "answer" => AllOut(a)'
      BY <1>4, <2>4, <2>7, <3>2
    <3>4. Writing(a)' =>
             /\ \A d \in Dev \ {work'[a].dev} : Out(a, d)' = wanted'[<<a, d>>]
             /\ Out(a, work[a].dev)' = Char(a)' - 1
      BY <1>7, <2>2, <2>4, <2>10, <2>11, <2>13 DEF Writing
    <3>5. pc'[s] = "data0" => work'[a].dev = "IL_PRINTER"
      BY <2>3, <2>4, <2>13
    <3> QED BY <2>1, <3>1, <3>3, <3>4, <3>5 DEF Counts
  <2>15. Commanded(a)'
    <3>1. pc'[s] = "command" => work'[a].dev # "IL_PRINTER"
      BY <2>3, <2>4, <2>13
    <3>2. \A d \in Dev : device'[<<a, d>>].busy = 0
      BY <1>7 DEF Busy
    <3>3. pc'[s] # "status"
      BY <2>3, <2>4
    <3> QED BY <1>5, <2>5, <3>1, <3>2, <3>3 DEF Commanded
  <2> QED BY <1>7, <2>6, <2>8, <2>9, <2>14, <2>15 DEF AsidInv
<1> QED BY <1>2, <1>8, <1>9, <1>10 DEF SstTakes

(* A character: data0 for a printer, then the command, then its status.    *)
LEMMA SendsStep ==
    ASSUME SupInv, NEW a \in Asid, AsidInv(a), SendsData0(a) \/ SendsCommand(a)
    PROVE  AsidInv(a)'
<1> DEFINE s == Sst(a)
           u == Uproc(a)
           dev == work[a].dev
<1>0. s \in Process /\ u \in Process /\ s # u /\ s[1] = "sst" /\ s # TEST /\ u # TEST
  BY Names
<1>1. /\ OneEach(a) /\ OneRequest(a) /\ OneAnswer(a) /\ Counts(a) /\ Commanded(a) /\ InOrder(a)
      /\ SstOnce(a) /\ SsiOnce(a) /\ Len(inbox[u]) <= 1
  BY DEF AsidInv, OneEach
<1>2. UNCHANGED <<inbox, ioVars, userVars>>
  BY DEF SendsData0, SendsCommand
<1>3. pc[s] \in {"data0", "command"} /\ Writing(a) /\ Serving(a)
  BY DEF SendsData0, SendsCommand, At, Writing, Serving
<1>4. Asking(a) = {} /\ Answers(a) = {} /\ ~ Busy(a)
  BY <1>1, <1>3, Unowed
<1>5. Answers(a)' = {} /\ Wishes(a)' = Wishes(a) /\ SstOnce(a)' /\ inbox'[u] = inbox[u]
  BY <1>1, <1>2, <1>4, SameSst
<1>6. dev \in Dev /\ Char(a) \in Int
  BY <1>3, AsidTypes
<1>7. /\ \A d \in Dev : Out(a, d)' = Out(a, d) /\ wanted'[<<a, d>>] = wanted[<<a, d>>]
      /\ ~ Busy(a)' /\ InOrder(a)' /\ Char(a)' = Char(a) /\ work'[a].dev = dev
      /\ AllOut(a)' <=> AllOut(a)
      /\ \A d \in Dev : device'[<<a, d>>] = device[<<a, d>>]
  BY <1>1, <1>2, <1>4 DEF Out, ioVars, userVars, Busy, InOrder, Char, AllOut
<1>8. Wishes(a) = {} /\ pc[u] # "start" /\ inbox[u] = <<>>
  BY <1>1, <1>3 DEF OneRequest
<1>9. /\ Out(a, dev) = Char(a) - 1
      /\ \A d \in Dev \ {dev} : Out(a, d) = wanted[<<a, d>>]
      /\ \A d \in Dev : Out(a, d) <= wanted[<<a, d>>]
      /\ pc[s] = "data0" => dev = "IL_PRINTER"
  BY <1>1, <1>3 DEF Counts
<1>10. ASSUME pc'[s] \in {"command", "status"}, pc'[u] = pc[u]
       PROVE  OneRequest(a)' /\ Counts(a)'
  <2>1. OneRequest(a)'
    BY <1>5, <1>8, <1>10 DEF OneRequest
  <2>2. Counts(a)'
    <3>1. \A d \in Dev : Out(a, d)' <= wanted'[<<a, d>>]
      BY <1>7, <1>9
    <3>2. /\ \A d \in Dev \ {work'[a].dev} : Out(a, d)' = wanted'[<<a, d>>]
          /\ Out(a, work[a].dev)' = Char(a)' - 1
      BY <1>6, <1>7, <1>9
    <3> QED BY <1>5, <1>8, <1>10, <3>1, <3>2 DEF Counts
  <2> QED BY <2>1, <2>2
<1>11. CASE SendsData0(a)
  <2>1. PICK ask : ask = Commands("data0", dev, Char(a))
    OBVIOUS
  <2>2. pc[s] = "data0" /\ Goes(s, "command") /\ SendsSsi(s, ask)
    BY <1>11, <2>1 DEF SendsData0, At
  <2>3. /\ [from |-> s, ask |-> ask] \in Requests
        /\ ask.op = "data0" /\ ask.dev = dev /\ ask.value = Char(a)
    BY <1>6, <2>1, AskFacts DEF Commands
  <2>4. Latching(a) = {} /\ dev = "IL_PRINTER"
    BY <1>1, <1>9, <2>2, Unowed
  <2>5. pc'[s] = "command" /\ pc'[u] = pc[u]
    BY <1>0, <2>2, GoesFacts DEF SupInv, Place
  <2>6. Latching(a)' = {[from |-> s, ask |-> ask]} /\ Asking(a)' = {} /\ SsiOnce(a)'
    BY <1>0, <1>1, <1>4, <2>2, <2>3, <2>4, PutsAsk
  <2>7. OneEach(a)'
    BY <1>1, <1>5, <2>6 DEF OneEach
  <2>8. OneAnswer(a)'
    BY <1>5, <1>7, <2>5, <2>6 DEF OneAnswer
  <2>9. Commanded(a)'
    <3>1. \A d \in Dev : device'[<<a, d>>].busy = 0
      BY <1>7 DEF Busy
    <3>2. Latched(a)'
      BY <2>6 DEF Latched
    <3>3. \A m \in Latching(a)' :
              work'[a].dev = "IL_PRINTER" /\ m.ask.dev = "IL_PRINTER" /\ m.ask.value = Char(a)'
      BY <1>7, <2>3, <2>4, <2>6
    <3> QED BY <2>5, <2>6, <3>1, <3>2, <3>3 DEF Commanded
  <2> QED BY <1>7, <1>10, <2>5, <2>7, <2>8, <2>9 DEF AsidInv
<1>12. CASE SendsCommand(a)
  <2>1. PICK ask : ask = Commands("command", dev, Char(a))
    OBVIOUS
  <2>2. pc[s] = "command" /\ Goes(s, "status") /\ SendsSsi(s, ask)
    BY <1>12, <2>1 DEF SendsCommand, At
  <2>3. /\ [from |-> s, ask |-> ask] \in Requests
        /\ ask.op = "command" /\ ask.dev = dev /\ ask.value = Char(a)
    BY <1>6, <2>1, AskFacts DEF Commands
  <2>4. pc'[s] = "status" /\ pc'[u] = pc[u]
    BY <1>0, <2>2, GoesFacts DEF SupInv, Place
  <2>5. PICK m : m = [from |-> s, ask |-> ask]
    OBVIOUS
  <2>6. Asking(a)' = {m} /\ Latching(a)' = Latching(a) /\ SsiOnce(a)'
    BY <1>0, <1>1, <1>4, <2>2, <2>3, <2>5, PutsAsk
  <2>7. OneEach(a)'
    BY <1>1, <1>5, <2>6 DEF OneEach
  <2>8. OneAnswer(a)'
    <3>1. PlaceOf(m) = "status"
      BY <2>3, <2>5 DEF PlaceOf
    <3> QED BY <1>5, <1>7, <2>4, <2>6, <3>1 DEF OneAnswer
  <2>9. Commanded(a)'
    <3>1. \A d \in Dev : device'[<<a, d>>].busy = 0
      BY <1>7 DEF Busy
    <3>2. dev = "IL_PRINTER" => Latched(a)'
      <4>1. dev = "IL_PRINTER" => Latched(a)
        BY <1>1, <2>2 DEF Commanded
      <4> QED BY <1>6, <1>7, <2>6, <4>1 DEF Latched
    <3>3. \A n \in Latching(a)' :
              work'[a].dev = "IL_PRINTER" /\ n.ask.dev = "IL_PRINTER" /\ n.ask.value = Char(a)'
      BY <1>1, <1>7, <2>6 DEF Commanded
    <3>4. \A n \in Asking(a)' : n.ask.dev = dev /\ n.ask.value = Char(a)
      BY <2>3, <2>5, <2>6
    <3> QED BY <1>5, <1>6, <1>7, <1>9, <2>4, <3>1, <3>2, <3>3, <3>4 DEF Commanded
  <2> QED BY <1>7, <1>10, <2>4, <2>7, <2>8, <2>9 DEF AsidInv
<1> QED BY <1>11, <1>12

LEMMA SstChecksStep ==
    ASSUME SupInv, NEW a \in Asid, AsidInv(a), SstChecks(a)
    PROVE  AsidInv(a)'
<1> DEFINE s == Sst(a)
           u == Uproc(a)
           dev == work[a].dev
<1>0. s \in Process /\ u \in Process /\ s # u /\ s[1] = "sst" /\ s # TEST /\ u # TEST
  BY Names
<1>1. /\ OneEach(a) /\ OneRequest(a) /\ OneAnswer(a) /\ Counts(a) /\ Commanded(a) /\ InOrder(a)
      /\ SstOnce(a) /\ SsiOnce(a) /\ Len(inbox[u]) <= 1
  BY DEF AsidInv, OneEach
<1>2. PICK m : m = Letter(s, {SSI})
  OBVIOUS
<1>3. PICK left : left = [work[a] EXCEPT !.length = @ - 1]
  OBVIOUS
<1>4. /\ pc[s] = "status" /\ Receives(s, {SSI})
      /\ UNCHANGED <<ssi_inbox, device, printed, userVars>>
      /\ IF m.what = DONE
         THEN Goes(s, PlaceFor(left)) /\ work' = [work EXCEPT ![a] = left]
         ELSE Goes(s, "tell") /\ UNCHANGED work
  BY <1>2, <1>3 DEF SstChecks, At
<1>5. /\ m \in Answers(a) /\ Answers(a)' = {} /\ Wishes(a)' = Wishes(a) /\ SstOnce(a)'
      /\ inbox'[u] = inbox[u]
  BY <1>1, <1>2, <1>4, TakesAnswer
<1>6. Asking(a) = {} /\ Latching(a) = {} /\ ~ Busy(a)
  BY <1>1, <1>5, Answered
<1>7. Asking(a)' = {} /\ Latching(a)' = {} /\ SsiOnce(a)'
  BY <1>1, <1>4, <1>6, SameSsi
<1>8. OneEach(a)'
  BY <1>1, <1>5, <1>7 DEF OneEach
<1>9. CASE m.what # DONE
  <2>1. pc'[s] = "tell" /\ pc'[u] = pc[u]
    BY <1>0, <1>4, <1>9, GoesFacts DEF SupInv, Place
  <2>2. SameData(a)
    BY <1>4, <1>9 DEF SameData, userVars
  <2> QED BY <1>5, <1>6, <1>7, <1>8, <2>1, <2>2, Idles
<1>10. CASE m.what = DONE
  <2>1. Writing(a) /\ Serving(a)
    BY <1>4 DEF Writing, Serving
  <2>2. /\ dev \in Dev /\ work[a].length > 0 /\ work[a].length \in Nat /\ Char(a) \in Int
        /\ work[a] \in Payload
        /\ \A d \in Dev : Out(a, d) \in Nat /\ wanted[<<a, d>>] \in Nat
    BY <2>1, AsidTypes
  <2>3. left \in Payload /\ left.dev = dev /\ left.length = work[a].length - 1
    <3>1. work[a].length - 1 \in Nat
      BY <2>2
    <3> QED BY <1>3, <2>2, <3>1 DEF Payload
  <2>4. PICK place : /\ place \in {"answer", "data0", "command"} /\ place = PlaceFor(left)
                     /\ place = "answer" <=> left.length = 0
                     /\ place = "data0" => dev = "IL_PRINTER"
                     /\ place = "command" => dev # "IL_PRINTER"
    <3>1. PlaceFor(left) = "command" => left.dev # "IL_PRINTER"
      BY DEF PlaceFor
    <3> QED BY <2>2, <2>3, <3>1, PlaceFacts
  <2>5. pc'[s] = place /\ pc'[u] = pc[u]
    BY <1>0, <1>4, <1>10, <2>4, GoesFacts DEF SupInv, Place
  <2>6. work'[a] = left
    BY <1>4, <1>10 DEF SupInv, BaseType
  <2>7. /\ \A d \in Dev : Out(a, d)' = Out(a, d) /\ wanted'[<<a, d>>] = wanted[<<a, d>>]
        /\ ~ Busy(a)' /\ InOrder(a)'
    BY <1>1, <1>4, <1>6 DEF Out, userVars, Busy, InOrder
  <2>8. Char(a) = wanted[<<a, dev>>] - work[a].length + 1 /\ Char(a)' = Char(a) + 1
    <3>1. Char(a) = wanted[<<a, dev>>] - work[a].length + 1
      BY DEF Char
    <3>2. Char(a)' = wanted[<<a, dev>>] - left.length + 1
      BY <2>2, <2>3, <2>6, <2>7 DEF Char
    <3> QED BY <2>2, <2>3, <3>1, <3>2
  <2>9. Out(a, dev) = Char(a)
    BY <1>1, <1>4, <1>5, <1>10 DEF Commanded
  <2>10. Wishes(a) = {} /\ pc[u] # "start" /\ inbox[u] = <<>>
    BY <1>1, <2>1 DEF OneRequest
  <2>11. \A d \in Dev \ {dev} : Out(a, d) = wanted[<<a, d>>]
    BY <1>1, <2>1 DEF Counts
  <2>12. OneRequest(a)'
    BY <1>5, <2>5, <2>10 DEF OneRequest
  <2>13. OneAnswer(a)'
    BY <1>5, <1>7, <2>7 DEF OneAnswer
  <2>14. Counts(a)'
    <3>1. \A d \in Dev : Out(a, d)' <= wanted'[<<a, d>>]
      BY <1>1, <2>7 DEF Counts
    <3>2. place = "answer" => AllOut(a)'
      <4>1. place = "answer" => Out(a, dev) = wanted[<<a, dev>>]
        BY <2>2, <2>3, <2>4, <2>8, <2>9
      <4> QED BY <2>7, <2>11, <4>1 DEF AllOut
    <3>3. Writing(a)' =>
             /\ \A d \in Dev \ {work'[a].dev} : Out(a, d)' = wanted'[<<a, d>>]
             /\ Out(a, work[a].dev)' = Char(a)' - 1
      BY <2>2, <2>3, <2>6, <2>7, <2>8, <2>9, <2>11
    <3>4. pc'[s] = "data0" => work'[a].dev = "IL_PRINTER"
      BY <2>3, <2>4, <2>5, <2>6
    <3> QED BY <1>5, <2>5, <2>10, <3>1, <3>2, <3>3, <3>4 DEF Counts
  <2>15. Commanded(a)'
    <3>1. pc'[s] = "command" => work'[a].dev # "IL_PRINTER"
      BY <2>3, <2>4, <2>5, <2>6
    <3>2. \A d \in Dev : device'[<<a, d>>].busy = 0
      BY <2>7 DEF Busy
    <3> QED BY <1>5, <1>7, <2>4, <2>5, <3>1, <3>2 DEF Commanded
  <2> QED BY <1>8, <2>7, <2>12, <2>13, <2>14, <2>15 DEF AsidInv
<1> QED BY <1>9, <1>10

LEMMA SstAnswersStep ==
    ASSUME SupInv, NEW a \in Asid, AsidInv(a), SstAnswers(a)
    PROVE  AsidInv(a)'
<1> DEFINE s == Sst(a)
           u == Uproc(a)
<1>0. s \in Process /\ u \in Process /\ s # u /\ s[1] = "sst" /\ s # TEST /\ u # TEST
  BY Names
<1>1. /\ OneEach(a) /\ OneRequest(a) /\ OneAnswer(a) /\ Counts(a) /\ Commanded(a) /\ InOrder(a)
      /\ SstOnce(a) /\ SsiOnce(a) /\ Len(inbox[u]) <= 1
  BY DEF AsidInv, OneEach
<1>2. /\ pc[s] = "answer" /\ Sends(s, u, DONE) /\ Goes(s, "serve")
      /\ UNCHANGED <<ssi_inbox, device, printed, userVars>>
  BY DEF SstAnswers, At
<1>3. inbox'[s] = inbox[s]
  BY <1>0, <1>2 DEF Sends, SupInv, BaseType
<1>4. Asking(a) = {} /\ Answers(a) = {} /\ ~ Busy(a) /\ Latching(a) = {}
  BY <1>1, <1>2, Unowed
<1>5. Answers(a)' = {} /\ Wishes(a)' = Wishes(a) /\ SstOnce(a)'
  BY <1>1, <1>3, <1>4, SameSst
<1>6. Asking(a)' = {} /\ Latching(a)' = {} /\ SsiOnce(a)'
  BY <1>1, <1>2, <1>4, SameSsi
<1>7. Serving(a) /\ AllOut(a) /\ Wishes(a) = {} /\ pc[u] # "start" /\ inbox[u] = <<>>
  BY <1>1, <1>2 DEF OneRequest, Serving, Counts
<1>8. pc'[s] = "serve" /\ pc'[u] = pc[u]
  BY <1>0, <1>2, GoesFacts DEF SupInv, Place
<1>9. Len(inbox'[u]) <= 1
  <2>1. PICK m \in Message : m = [from |-> s, what |-> DONE]
    BY MailFacts DEF MailTo
  <2>2. PICK new : new = inbox'[u]
    OBVIOUS
  <2>3. new = <<>> \/ new = Append(<<>>, m)
    BY <1>0, <1>2, <1>7, <2>1, <2>2 DEF Sends, SupInv, BaseType
  <2>4. <<>> \in Seq(Message) /\ Len(<<>>) = 0
    OBVIOUS
  <2>5. Len(Append(<<>>, m)) = 1
    BY <2>4, AppendProperties
  <2>6. PICK n : n = Len(new)
    OBVIOUS
  <2>7. n \in {0, 1}
    BY <2>3, <2>4, <2>5, <2>6
  <2>8. n <= 1
    BY <2>7
  <2> QED BY <2>2, <2>6, <2>8
<1>10. /\ \A d \in Dev : Out(a, d)' = Out(a, d) /\ wanted'[<<a, d>>] = wanted[<<a, d>>]
       /\ ~ Busy(a)' /\ InOrder(a)' /\ AllOut(a)'
  BY <1>1, <1>2, <1>4, <1>7 DEF Out, userVars, Busy, InOrder, AllOut
<1>11. ~ Writing(a)' /\ ~ Serving(a)'
  BY <1>8 DEF Writing, Serving
<1>12. OneEach(a)'
  BY <1>5, <1>6, <1>9 DEF OneEach
<1>13. OneRequest(a)'
  BY <1>5, <1>7, <1>8, <1>11 DEF OneRequest
<1>14. OneAnswer(a)'
  BY <1>5, <1>6, <1>10 DEF OneAnswer
<1>15. Counts(a)'
  <2>1. \A d \in Dev : Out(a, d)' <= wanted'[<<a, d>>]
    BY <1>1, <1>10 DEF Counts
  <2> QED BY <1>5, <1>7, <1>8, <1>10, <1>11, <2>1 DEF Counts
<1>16. Commanded(a)'
  BY <1>11, <1>14, NoneThen
<1> QED BY <1>10, <1>12, <1>13, <1>14, <1>15, <1>16 DEF AsidInv

LEMMA SstStepKeeps ==
    ASSUME SupInv, NEW a \in Asid, AsidInv(a), SstStep(a)
    PROVE  AsidInv(a)'
BY SstIdleSteps, SstTakesStep, SendsStep, SstChecksStep, SstAnswersStep DEF SstStep

(* The U-proc writes to its SST, once it has an answer to what it wrote.   *)
LEMMA UprocSendsStep ==
    ASSUME SupInv, NEW a \in Asid, AsidInv(a), NEW what \in Request(a), UprocSends(a, what)
    PROVE  AsidInv(a)'
<1> DEFINE s == Sst(a)
           u == Uproc(a)
<1>0. s \in Process /\ u \in Process /\ s # u
  BY Names
<1>1. /\ OneEach(a) /\ OneRequest(a) /\ OneAnswer(a) /\ Counts(a) /\ Commanded(a) /\ InOrder(a)
      /\ SstOnce(a) /\ SsiOnce(a) /\ Len(inbox[u]) <= 1
  BY DEF AsidInv, OneEach
<1>2. /\ pc[u] = "start" /\ Goes(u, "wait") /\ UNCHANGED <<ssi_inbox, ioVars>>
      /\ inbox' = inbox \/ Sends(u, s, what)
      /\ wanted' = IF what.code = "WRITE"
                   THEN [wanted EXCEPT ![<<a, what.dev>>] = @ + what.length] ELSE wanted
  BY DEF UprocSends, Runs, At
<1>3. what \in Payload /\ what # NULL /\ (what.code = "WRITE" => what.dev \in Dev)
  BY RequestFacts
<1>4. ~ Serving(a) /\ ~ Writing(a) /\ inbox[u] = <<>> /\ Wishes(a) = {} /\ AllOut(a)
  BY <1>1, <1>2 DEF OneRequest, Counts, Serving
<1>5. pc'[u] = "wait" /\ pc'[s] = pc[s]
  BY <1>0, <1>2, GoesFacts DEF SupInv, Place
<1>6. PICK m : m = [from |-> u, what |-> what]
  OBVIOUS
<1>7. /\ Answers(a)' = Answers(a) /\ SstOnce(a)' /\ inbox'[u] = <<>>
      /\ Wishes(a)' \subseteq {m}
  BY <1>1, <1>2, <1>3, <1>4, <1>6, GetsWish
<1>8. Asking(a)' = Asking(a) /\ Latching(a)' = Latching(a) /\ SsiOnce(a)'
  BY <1>1, <1>2, SameSsi
<1>9. OneEach(a)'
  BY <1>1, <1>4, <1>7, <1>8 DEF OneEach
<1>10. ~ Serving(a)' /\ ~ Writing(a)'
  BY <1>4, <1>5 DEF Serving, Writing
<1>11. OneRequest(a)'
  BY <1>5, <1>7, <1>10 DEF OneRequest
<1>12. OneAnswer(a)'
  <2>1. Busy(a)' <=> Busy(a)
    BY <1>2 DEF Busy, ioVars
  <2> QED BY <1>1, <1>5, <1>7, <1>8, <2>1 DEF OneAnswer
<1>13. InOrder(a)' /\ \A d \in Dev : Out(a, d)' = Out(a, d)
  BY <1>1, <1>2 DEF InOrder, Out, ioVars
<1>14. Counts(a)'
  <2>1. \A d \in Dev : /\ Out(a, d) = wanted[<<a, d>>] /\ wanted[<<a, d>>] \in Nat
                       /\ <<a, d>> \in Asid \X Dev
    BY <1>4, AsidTypes DEF AllOut
  <2>2. what.length \in Nat
    BY <1>3 DEF Payload
  <2>3. ASSUME NEW d \in Dev
        PROVE  wanted'[<<a, d>>] = Out(a, d) + (IF what.code = "WRITE" /\ what.dev = d
                                                THEN what.length ELSE 0)
    <3>1. wanted \in [Asid \X Dev -> Nat]
      BY DEF SupInv, BaseType
    <3>2. PICK k \in Asid \X Dev : k = <<a, d>>
      BY <2>1
    <3>3. CASE what.code = "WRITE"
      <4>1. PICK l \in Asid \X Dev : l = <<a, what.dev>>
        BY <1>3, <3>3
      <4>2. k = l <=> what.dev = d
        BY <3>2, <4>1
      <4>3. wanted' = [wanted EXCEPT ![l] = wanted[l] + what.length]
        BY <1>2, <3>3, <4>1
      <4>4. wanted'[k] = IF k = l THEN wanted[k] + what.length ELSE wanted[k]
        BY <3>1, <4>3
      <4>5. wanted[k] = Out(a, d) /\ wanted[k] \in Nat
        BY <2>1, <3>2
      <4> QED BY <3>2, <3>3, <4>2, <4>4, <4>5
    <3>4. CASE what.code # "WRITE"
      BY <1>2, <2>1, <3>4
    <3> QED BY <3>3, <3>4
  <2>4. \A d \in Dev : Out(a, d)' <= wanted'[<<a, d>>]
    BY <1>13, <2>1, <2>2, <2>3
  <2>5. \A n \in Wishes(a)', d \in Dev :
            wanted'[<<a, d>>] = Out(a, d)' + (IF n.what.code = "WRITE" /\ n.what.dev = d
                                              THEN n.what.length ELSE 0)
    BY <1>6, <1>7, <1>13, <2>3
  <2>6. pc'[u] # "start" /\ inbox'[u] = <<>> /\ pc'[s] # "answer" /\ pc'[s] # "data0"
    BY <1>5, <1>7, <1>10 DEF Serving, Writing
  <2> QED BY <1>10, <2>4, <2>5, <2>6 DEF Counts
<1>15. Commanded(a)'
  BY <1>10, <1>12, NoneThen
<1> QED BY <1>9, <1>11, <1>12, <1>13, <1>14, <1>15 DEF AsidInv

(* The U-proc takes the answer of its SST, traps, or ends.                 *)
LEMMA UprocStepKeeps ==
    ASSUME SupInv, NEW a \in Asid, AsidInv(a), UprocStep(a)
    PROVE  AsidInv(a)'
<1> DEFINE s == Sst(a)
           u == Uproc(a)
<1>0. s \in Process /\ u \in Process /\ s # u /\ u # TEST /\ u[1] = "uproc" /\ AsidOf(u) = a
  BY Names
<1>1. /\ OneEach(a) /\ OneRequest(a) /\ OneAnswer(a) /\ Counts(a) /\ Commanded(a) /\ InOrder(a)
      /\ SstOnce(a) /\ SsiOnce(a) /\ Len(inbox[u]) <= 1
  BY DEF AsidInv, OneEach
<1>2. UNCHANGED <<ioVars, userVars>> => SameData(a)
  BY DEF SameData, ioVars, userVars
<1>3. ASSUME NEW what \in Request(a), UprocSends(a, what)  PROVE AsidInv(a)'
  BY <1>3, UprocSendsStep
<1>4. CASE UprocReceives(a)
  <2>1. /\ pc[u] = "wait" /\ Receives(u, Process \cup {SSI}) /\ Goes(u, "start")
        /\ UNCHANGED <<ssi_inbox, ioVars, userVars>>
    BY <1>4 DEF UprocReceives, Runs, At
  <2>2. inbox'[s] = inbox[s] /\ inbox[u] # <<>> /\ inbox'[u] = <<>>
    <3>1. PICK i \in DOMAIN inbox[u] : inbox'[u] = RemoveAt(inbox[u], i)
      BY <1>0, <2>1, ReceivesFacts DEF SupInv
    <3>2. PICK q, r : q \in Seq(Message) /\ q = inbox[u] /\ r = RemoveAt(q, i)
      BY AsidTypes
    <3>3. /\ Len(q) \in Nat /\ DOMAIN q = 1..Len(q) /\ i \in DOMAIN q /\ Len(q) <= 1
          /\ r \in Seq(Message) /\ DOMAIN r = 1..(Len(q) - 1)
      BY <1>1, <3>1, <3>2, LenProperties, RemoveAtElements, RemoveAtType
    <3>4. Len(r) \in Nat /\ DOMAIN r = 1..Len(r)
      BY <3>3, LenProperties
    <3>5. Len(q) = 1 /\ Len(r) = 0
      BY <3>3, <3>4
    <3>6. r = <<>> /\ q # <<>>
      BY <3>2, <3>3, <3>5, EmptySeq
    <3>7. inbox'[s] = inbox[s]
      BY <1>0, <2>1, ReceivesFacts DEF SupInv
    <3> QED BY <3>1, <3>2, <3>6, <3>7
  <2>3. ~ Serving(a) /\ ~ Writing(a) /\ Wishes(a) = {} /\ AllOut(a)
    BY <1>1, <2>2 DEF OneRequest, Counts, Serving
  <2>4. Answers(a)' = Answers(a) /\ Wishes(a)' = {} /\ SstOnce(a)'
    BY <1>1, <2>2, <2>3, SameSst
  <2>5. Asking(a)' = Asking(a) /\ Latching(a)' = Latching(a) /\ SsiOnce(a)'
    BY <1>1, <2>1, SameSsi
  <2>6. pc'[u] = "start" /\ pc'[s] = pc[s]
    BY <1>0, <2>1, GoesFacts DEF SupInv, Place
  <2>7. /\ \A d \in Dev : Out(a, d)' = Out(a, d) /\ wanted'[<<a, d>>] = wanted[<<a, d>>]
        /\ Busy(a)' <=> Busy(a)
        /\ AllOut(a)' /\ InOrder(a)'
    BY <1>1, <1>2, <2>1, <2>3, SameFacts
  <2>8. ~ Serving(a)' /\ ~ Writing(a)'
    BY <2>3, <2>6 DEF Serving, Writing
  <2>9. OneEach(a)'
    <3>1. Len(<<>>) <= 1
      OBVIOUS
    <3> QED BY <2>2, <2>4, <2>5, <3>1 DEF OneEach
  <2>10. OneRequest(a)'
    BY <2>2, <2>4, <2>8 DEF OneRequest
  <2>11. OneAnswer(a)'
    BY <1>1, <2>4, <2>5, <2>6, <2>7 DEF OneAnswer
  <2>12. Counts(a)'
    <3>1. \A d \in Dev : Out(a, d)' <= wanted'[<<a, d>>]
      BY <1>1, <2>7 DEF Counts
    <3>2. pc'[s] # "data0"
      BY <2>8 DEF Writing
    <3> QED BY <2>4, <2>7, <2>8, <3>1, <3>2 DEF Counts
  <2>13. Commanded(a)'
    BY <2>8, <2>11, NoneThen
  <2> QED BY <2>7, <2>9, <2>10, <2>11, <2>12, <2>13 DEF AsidInv
<1>5. CASE UprocTraps(a)
  <2>1. Goes(u, "tell") /\ UNCHANGED <<inbox, ssi_inbox, ioVars, userVars>>
    BY <1>5 DEF UprocTraps
  <2>2. pc'[u] = "tell" /\ pc'[s] = pc[s]
    BY <1>0, <2>1, GoesFacts DEF SupInv, Place
  <2>3. Answers(a)' = Answers(a) /\ Wishes(a)' = Wishes(a) /\ SstOnce(a)'
    BY <1>1, <2>1, SameSst
  <2>4. Asking(a)' = Asking(a) /\ Latching(a)' = Latching(a) /\ SsiOnce(a)'
    BY <1>1, <2>1, SameSsi
  <2>5. OneEach(a)'
    BY <1>1, <2>1, <2>3, <2>4 DEF OneEach
  <2> QED BY <1>2, <2>1, <2>2, <2>3, <2>4, <2>5, Undisturbed
<1>6. CASE Tells(u)
  <2>1. Sends(u, s, NULL) /\ Goes(u, "termSelf") /\ UNCHANGED <<ssi_inbox, ioVars, userVars>>
    BY <1>0, <1>6 DEF Tells
  <2>2. pc'[u] = "termSelf" /\ pc'[s] = pc[s]
    BY <1>0, <2>1, GoesFacts DEF SupInv, Place
  <2>3. /\ Answers(a)' = Answers(a) /\ Wishes(a)' = Wishes(a) /\ SstOnce(a)'
        /\ inbox'[u] = inbox[u]
    BY <1>1, <2>1, GetsWish
  <2>4. Asking(a)' = Asking(a) /\ Latching(a)' = Latching(a) /\ SsiOnce(a)'
    BY <1>1, <2>1, SameSsi
  <2>5. OneEach(a)'
    BY <1>1, <2>3, <2>4 DEF OneEach
  <2> QED BY <1>2, <2>1, <2>2, <2>3, <2>4, <2>5, Undisturbed
<1>7. CASE TermsSelf(u)
  <2>1. /\ SendsSsi(u, Asks("TERMPROCESS", u)) /\ Goes(u, "ending")
        /\ UNCHANGED <<inbox, ioVars, userVars>>
    BY <1>7 DEF TermsSelf, AsksSsi
  <2>2. pc'[u] = "ending" /\ pc'[s] = pc[s]
    BY <1>0, <2>1, GoesFacts DEF SupInv, Place
  <2>3. Answers(a)' = Answers(a) /\ Wishes(a)' = Wishes(a) /\ SstOnce(a)'
    BY <1>1, <2>1, SameSst
  <2>4. Asking(a)' = Asking(a) /\ Latching(a)' = Latching(a) /\ SsiOnce(a)'
    BY <1>0, <1>1, <2>1, AskFacts, PutsAsk
  <2>5. OneEach(a)'
    BY <1>1, <2>1, <2>3, <2>4 DEF OneEach
  <2> QED BY <1>2, <2>1, <2>2, <2>3, <2>4, <2>5, Undisturbed
<1> QED BY <1>3, <1>4, <1>5, <1>6, <1>7 DEF UprocStep

(* What others do at an ASID: messages are lost when a process ends.       *)
LEMMA Elsewhere ==
    ASSUME SupInv, NEW a \in Asid, AsidInv(a), SameData(a), SsiOnce(a)',
           pc'[Sst(a)] = pc[Sst(a)], pc'[Uproc(a)] = pc[Uproc(a)],
           Asking(a)' = Asking(a), Latching(a)' = Latching(a),
           inbox'[Sst(a)] \in {inbox[Sst(a)], <<>>}, inbox'[Uproc(a)] \in {inbox[Uproc(a)], <<>>}
    PROVE  AsidInv(a)'
<1>1. SstOnce(a) /\ Len(inbox[Uproc(a)]) <= 1
  BY DEF AsidInv, OneEach
<1>2. Answers(a)' \subseteq Answers(a) /\ Wishes(a)' \subseteq Wishes(a) /\ SstOnce(a)'
  <2>1. CASE inbox'[Sst(a)] = inbox[Sst(a)]
    BY <1>1, <2>1, SameSst
  <2>2. CASE inbox'[Sst(a)] = <<>>
    BY <2>2 DEF Answers, Wishes, SstOnce, Among, AtMostOne, ToSet
  <2> QED BY <2>1, <2>2
<1>3. Len(inbox'[Uproc(a)]) <= 1
  <2>1. Len(<<>>) <= 1
    OBVIOUS
  <2> QED BY <1>1, <2>1
<1>4. OneEach(a)'
  BY <1>2, <1>3 DEF OneEach
<1> QED BY <1>2, <1>4, Undisturbed

(* The SSI has done what an SST asked for, other than to print.            *)
LEMMA Served ==
    ASSUME SupInv, NEW a \in Asid, AsidInv(a), SameData(a), SstOnce(a)', SsiOnce(a)',
           pc[Sst(a)] \in {"support", "created", "termChild", "ending"},
           pc'[Sst(a)] = pc[Sst(a)], pc'[Uproc(a)] = pc[Uproc(a)],
           Asking(a)' = {}, Latching(a)' = {}, Wishes(a)' \subseteq Wishes(a),
           Answers(a)' # {} => pc[Sst(a)] # "ending", ~ Busy(a),
           inbox'[Uproc(a)] \in {inbox[Uproc(a)], <<>>}
    PROVE  AsidInv(a)'
<1>1. /\ \A d \in Dev : Out(a, d)' = Out(a, d) /\ wanted'[<<a, d>>] = wanted[<<a, d>>]
      /\ Busy(a)' <=> Busy(a)
      /\ AllOut(a)' <=> AllOut(a)
      /\ InOrder(a)'
  BY SameFacts DEF AsidInv
<1>2. ~ Writing(a)' /\ ~ Serving(a)'
  BY DEF Writing, Serving
<1>3. OneEach(a)'
  <2>1. Len(<<>>) <= 1 /\ Len(inbox[Uproc(a)]) <= 1
    BY DEF AsidInv, OneEach
  <2> QED BY <2>1 DEF OneEach
<1>4. OneRequest(a)'
  <2>1. OneRequest(a)
    BY DEF AsidInv
  <2> QED BY <1>2, <2>1 DEF OneRequest
<1>5. OneAnswer(a)'
  BY <1>1 DEF OneAnswer
<1>6. Counts(a)'
  <2>1. Counts(a)
    BY DEF AsidInv
  <2>2. \A d \in Dev : Out(a, d)' <= wanted'[<<a, d>>]
    BY <1>1, <2>1 DEF Counts
  <2>3. pc'[Uproc(a)] = "start" \/ inbox'[Uproc(a)] # <<>> => AllOut(a)'
    BY <1>1, <2>1 DEF Counts
  <2>4. \A m \in Wishes(a)', d \in Dev :
            wanted'[<<a, d>>] = Out(a, d)' + (IF m.what.code = "WRITE" /\ m.what.dev = d
                                              THEN m.what.length ELSE 0)
    BY <1>1, <2>1 DEF Counts
  <2> QED BY <1>2, <2>2, <2>3, <2>4 DEF Counts
<1>7. Commanded(a)'
  BY <1>2, <1>5, NoneThen
<1> QED BY <1>1, <1>3, <1>4, <1>5, <1>6, <1>7 DEF AsidInv

(* The SSI serves another process than the SST of an ASID.                 *)
LEMMA SsiServesOther ==
    ASSUME SupInv, NEW a \in Asid, AsidInv(a), SsiServes, Head(ssi_inbox).from # Sst(a)
    PROVE  AsidInv(a)'
<1> DEFINE s == Sst(a)
           u == Uproc(a)
<1>0. s \in Process /\ u \in Process /\ u # TEST /\ u[1] = "uproc" /\ AsidOf(s) = a
  BY Names
<1>1. PICK m : m = Head(ssi_inbox)
  OBVIOUS
<1>2. /\ m \in Requests /\ m.from # s /\ ssi_inbox # <<>> /\ SsiPasses
      /\ CreatesProcess(m) \/ GetsSupport(m) \/ Terminates(m) \/ DoesIo(m)
      /\ UNCHANGED <<pc, work, printed, userVars>>
  BY <1>1, SsiPassesFacts DEF SsiServes, SupInv
<1>3. SsiOnce(a)' /\ Asking(a)' = Asking(a) /\ Latching(a)' = Latching(a)
  BY <1>1, <1>2, PassesAsk DEF AsidInv
<1>4. /\ \A d \in Dev : device'[<<a, d>>] = device[<<a, d>>]
      /\ inbox'[s] \in {inbox[s], <<>>} /\ inbox'[u] \in {inbox[u], <<>>}
  <2>1. CASE CreatesProcess(m) \/ GetsSupport(m)
    <3>1. /\ Sends(SSI, m.from, DONE) /\ UNCHANGED device
          /\ m.ask.op \in {"CREATEPROCESS", "GETSUPPORTPTR"}
      BY <2>1 DEF CreatesProcess, GetsSupport
    <3>2. m.from # u
      BY <1>0, <1>2, <3>1 DEF Requests
    <3> QED BY <1>0, <1>2, <3>1, <3>2 DEF Sends, SupInv, BaseType
  <2>2. CASE Terminates(m)
    <3>1. UNCHANGED device
      BY <2>2 DEF Terminates
    <3> QED BY <1>0, <1>2, <2>2, <3>1, TerminatesFacts
  <2>3. CASE DoesIo(m)
    <3>1. m.from[1] = "sst" /\ m.ask.dev \in Dev /\ m.from \in Process
      BY <1>2, <2>3 DEF Requests, DoesIo
    <3>2. AsidOf(m.from) \in Asid /\ AsidOf(m.from) # a
      BY <1>0, <1>2, <3>1, Names
    <3>3. PICK k \in Asid \X Dev : k = <<AsidOf(m.from), m.ask.dev>>
      BY <3>1, <3>2
    <3>4. \E v : \/ device' = [device EXCEPT ![k].data0 = v]
                 \/ device' = [device EXCEPT ![k].busy = v]
      BY <2>3, <3>3 DEF DoesIo
    <3>5. ASSUME NEW d \in Dev  PROVE device'[<<a, d>>] = device[<<a, d>>]
      <4>1. PICK l \in Asid \X Dev : l = <<a, d>>
        OBVIOUS
      <4>2. l # k
        BY <3>2, <3>3, <4>1
      <4>3. device \in [Asid \X Dev -> [data0 : Int, busy : Int]]
        BY DEF SupInv, BaseType
      <4>4. device'[l] = device[l]
        BY <3>4, <4>2, <4>3
      <4> QED BY <4>1, <4>4
    <3> QED BY <2>3, <3>5 DEF DoesIo
  <2> QED BY <1>2, <2>1, <2>2, <2>3
<1>5. SameData(a)
  BY <1>2, <1>4 DEF SameData, userVars
<1> QED BY <1>2, <1>3, <1>4, <1>5, Elsewhere

(* The SSI serves an SST that does not print.                              *)
LEMMA SsiServesSst ==
    ASSUME SupInv, NEW a \in Asid, AsidInv(a), SsiServes, Head(ssi_inbox).from = Sst(a),
           ~ DoesIo(Head(ssi_inbox))
    PROVE  AsidInv(a)'
<1> DEFINE s == Sst(a)
           u == Uproc(a)
<1>0. s \in Process /\ u \in Process /\ s # u /\ s # TEST /\ s # MUTEX
  BY Names
<1>1. PICK m : m = Head(ssi_inbox)
  OBVIOUS
<1>2. /\ m \in Requests /\ m.from = s /\ ssi_inbox # <<>> /\ SsiPasses
      /\ CreatesProcess(m) \/ GetsSupport(m) \/ Terminates(m)
      /\ UNCHANGED <<pc, work, printed, userVars>>
  BY <1>1, SsiPassesFacts DEF SsiServes, SupInv
<1>3. m.ask.op \in {"CREATEPROCESS", "GETSUPPORTPTR", "TERMPROCESS"} /\ UNCHANGED device
  BY <1>2 DEF CreatesProcess, GetsSupport, Terminates
<1>4. OneEach(a) /\ OneAnswer(a) /\ SstOnce(a)
  BY DEF AsidInv, OneEach
<1>5. SsiOnce(a)' /\ m \in Asking(a) /\ Asking(a)' = {} /\ Latching(a)' = {}
  BY <1>1, <1>2, <1>3, <1>4, PassesAsk
<1>6. pc[s] = PlaceOf(m) /\ Answers(a) = {} /\ ~ Busy(a)
  BY <1>4, <1>5 DEF OneAnswer
<1>7. pc[s] \in {"support", "created", "termChild", "ending"}
  BY <1>3, <1>6 DEF PlaceOf
<1>8. SameData(a)
  BY <1>2, <1>3 DEF SameData, userVars
<1>9. PICK done : done = [from |-> SSI, what |-> DONE]
  OBVIOUS
<1>10. CASE CreatesProcess(m) \/ GetsSupport(m)
  <2>1. Sends(SSI, s, DONE) /\ m.ask.op \in {"CREATEPROCESS", "GETSUPPORTPTR"}
    BY <1>2, <1>10 DEF CreatesProcess, GetsSupport
  <2>2. pc[s] # "ending"
    BY <1>6, <2>1 DEF PlaceOf
  <2>3. /\ inbox'[u] = inbox[u]
        /\ inbox'[s] = inbox[s] \/ inbox'[s] = Append(inbox[s], [from |-> SSI, what |-> DONE])
    BY <1>0, <2>1 DEF Sends, SupInv, BaseType
  <2>4. Wishes(a)' = Wishes(a) /\ SstOnce(a)'
    BY <1>4, <1>6, <2>3, GetsAnswer
  <2> QED BY <1>2, <1>5, <1>6, <1>7, <1>8, <2>2, <2>3, <2>4, Served
<1>11. CASE Terminates(m)
  <2>1. /\ m.ask.op = "TERMPROCESS" /\ m.ask.arg \in Process
        /\ m.ask.arg = s \/ m.ask.arg = u
    <3>1. m.ask.op = "TERMPROCESS" /\ m.ask.arg \in Process
      BY <1>2, <1>11, TerminatesFacts DEF Terminates
    <3>2. \A b \in Asid : m.from = Sst(b) => b = a
      BY <1>2, DifferentNames
    <3> QED BY <1>0, <1>2, <3>1, <3>2 DEF Requests
  <2>2. PICK gone : gone = Progeny(m.ask.arg)
    OBVIOUS
  <2>3. /\ inbox'[s] = IF s \in gone THEN <<>>
                       ELSE IF s \in alive THEN Append(inbox[s], [from |-> SSI, what |-> DONE])
                       ELSE inbox[s]
        /\ inbox'[u] \in {inbox[u], <<>>}
    BY <1>0, <1>2, <1>11, <2>2, TerminatesFacts
  <2>4. CASE m.ask.arg = s
    <3>1. s \in alive => s \in gone
      BY <1>0, <2>2, <2>4, ProgenyFacts DEF SupInv
    <3>2. CASE inbox'[s] = <<>>
      <4>1. Answers(a)' = {} /\ Wishes(a)' = {} /\ SstOnce(a)'
        BY <3>2 DEF Answers, Wishes, SstOnce, Among, AtMostOne, ToSet
      <4> QED BY <1>2, <1>5, <1>6, <1>7, <1>8, <2>3, <4>1, Served
    <3>3. CASE inbox'[s] = inbox[s]
      <4>1. Answers(a)' = {} /\ Wishes(a)' = Wishes(a) /\ SstOnce(a)'
        BY <1>4, <1>6, <3>3, SameSst
      <4> QED BY <1>2, <1>5, <1>6, <1>7, <1>8, <2>3, <4>1, Served
    <3> QED BY <2>3, <3>1, <3>2, <3>3
  <2>5. CASE m.ask.arg = u
    <3>1. s \notin gone
      BY <1>0, <2>2, <2>5, ProgenyFacts DEF SupInv
    <3>2. inbox'[s] = inbox[s] \/ inbox'[s] = Append(inbox[s], [from |-> SSI, what |-> DONE])
      BY <2>3, <3>1
    <3>3. Wishes(a)' = Wishes(a) /\ SstOnce(a)'
      BY <1>4, <1>6, <3>2, GetsAnswer
    <3>4. pc[s] # "ending"
      BY <1>0, <1>2, <1>6, <2>1, <2>5 DEF PlaceOf
    <3> QED BY <1>2, <1>5, <1>6, <1>7, <1>8, <2>3, <3>3, <3>4, Served
  <2> QED BY <2>1, <2>4, <2>5
<1> QED BY <1>2, <1>10, <1>11

(* The SSI writes a register for an SST: data0, or the command.            *)
LEMMA SsiWrites ==
    ASSUME SupInv, NEW a \in Asid, AsidInv(a), SsiServes, Head(ssi_inbox).from = Sst(a),
           DoesIo(Head(ssi_inbox))
    PROVE  AsidInv(a)'
<1> DEFINE s == Sst(a)
           u == Uproc(a)
           dev == work[a].dev
<1>0. s \in Process /\ u \in Process /\ AsidOf(s) = a
  BY Names
<1>1. PICK m : m = Head(ssi_inbox)
  OBVIOUS
<1>2. /\ m \in Requests /\ m.from = s /\ ssi_inbox # <<>> /\ SsiPasses /\ DoesIo(m)
      /\ UNCHANGED <<pc, inbox, work, printed, wanted>>
  BY <1>1, SsiPassesFacts DEF SsiServes, SupInv, userVars, DoesIo
<1>3. /\ OneEach(a) /\ OneRequest(a) /\ OneAnswer(a) /\ Counts(a) /\ Commanded(a) /\ InOrder(a)
      /\ SstOnce(a) /\ Len(inbox[u]) <= 1
  BY DEF AsidInv, OneEach
<1>4. Answers(a)' = Answers(a) /\ Wishes(a)' = Wishes(a) /\ SstOnce(a)'
  BY <1>2, <1>3, SameSst
<1>5. /\ InOrder(a)' /\ OneRequest(a)' /\ Counts(a)'
      /\ \A d \in Dev : Out(a, d)' = Out(a, d)
      /\ Char(a)' = Char(a) /\ (Writing(a)' <=> Writing(a))
  <2>1. \A d \in Dev : Out(a, d)' = Out(a, d)
    BY <1>2 DEF Out
  <2>2. InOrder(a)'
    BY <1>2, <1>3 DEF InOrder, Out
  <2>3. OneRequest(a)'
    BY <1>2, <1>3, <1>4 DEF OneRequest, Serving, Writing
  <2>4. Char(a)' = Char(a) /\ (Writing(a)' <=> Writing(a))
    BY <1>2 DEF Char, Writing
  <2>5. Counts(a)'
    BY <1>2, <1>3, <1>4 DEF Counts, AllOut, Out, Char, Writing
  <2> QED BY <2>1, <2>2, <2>3, <2>4, <2>5
<1>6. device \in [Asid \X Dev -> [data0 : Int, busy : Int]] /\ "IL_PRINTER" \in Dev
  BY DEF SupInv, BaseType, Dev
<1>7. CASE m.ask.op = "data0"
  <2>1. /\ SsiOnce(a)' /\ m \in Latching(a)
        /\ Asking(a)' = Asking(a) /\ Latching(a)' = {}
    BY <1>1, <1>2, <1>3, <1>7, PassesAsk
  <2>2. dev = "IL_PRINTER" /\ m.ask.dev = "IL_PRINTER" /\ m.ask.value = Char(a)
    BY <1>3, <2>1 DEF Commanded
  <2>3. PICK k \in Asid \X Dev : k = <<a, "IL_PRINTER">>
    BY <1>6
  <2>4. device' = [device EXCEPT ![k].data0 = Char(a)]
    BY <1>0, <1>2, <1>7, <2>2, <2>3 DEF DoesIo
  <2>5. device'[k].data0 = Char(a) /\ \A l \in Asid \X Dev : device'[l].busy = device[l].busy
    BY <1>6, <2>4
  <2>6. \A d \in Dev : device'[<<a, d>>].busy = device[<<a, d>>].busy
    BY <2>5
  <2>7. Latched(a)'
    BY <1>5, <2>3, <2>5 DEF Latched
  <2>8. Busy(a)' <=> Busy(a)
    BY <2>6 DEF Busy
  <2>9. OneEach(a)'
    BY <1>2, <1>3, <1>4, <2>1 DEF OneEach
  <2>10. OneAnswer(a)'
    BY <1>2, <1>3, <1>4, <2>1, <2>8 DEF OneAnswer
  <2>11. Commanded(a)'
    <3>1. dev \in Dev
      BY <1>6, <2>2
    <3> QED BY <1>2, <1>3, <1>4, <1>5, <2>1, <2>6, <2>7, <3>1 DEF Commanded
  <2> QED BY <1>5, <2>9, <2>10, <2>11 DEF AsidInv
<1>8. CASE m.ask.op = "command"
  <2>1. /\ SsiOnce(a)' /\ m \in Asking(a)
        /\ Asking(a)' = {} /\ Latching(a)' = {} /\ Latching(a) = {}
    BY <1>1, <1>2, <1>3, <1>8, PassesAsk
  <2>2. /\ m.ask.dev = dev /\ m.ask.value = Char(a) /\ Out(a, dev) = Char(a) - 1
        /\ dev = "IL_PRINTER" => Latched(a)
    BY <1>3, <1>8, <2>1 DEF Commanded
  <2>3. pc[s] = "status" /\ Answers(a) = {} /\ ~ Busy(a)
    BY <1>3, <1>8, <2>1 DEF OneAnswer, PlaceOf
  <2>4. dev \in Dev /\ Writing(a)
    BY <2>3, AsidTypes DEF Writing
  <2>5. PICK k \in Asid \X Dev : k = <<a, dev>>
    BY <2>4
  <2>6. dev = "IL_PRINTER" => device[k].data0 = Char(a)
    BY <2>1, <2>2, <2>5 DEF Latched
  <2>7. device' = [device EXCEPT ![k].busy = Char(a)]
    BY <1>0, <1>2, <1>8, <2>2, <2>5, <2>6 DEF DoesIo
  <2>8. device'[k].busy = Char(a) /\ \A l \in Asid \X Dev : l # k => device'[l] = device[l]
    BY <1>6, <2>7
  <2>9. ASSUME NEW d \in Dev, device'[<<a, d>>].busy # 0
        PROVE  d = dev /\ device'[<<a, d>>].busy = Char(a)
    <3>1. PICK l \in Asid \X Dev : l = <<a, d>>
      OBVIOUS
    <3>2. CASE l = k
      <4>1. d = dev
        BY <2>5, <3>1, <3>2
      <4> QED BY <2>8, <3>1, <3>2, <4>1
    <3>3. CASE l # k
      <4>1. device[l].busy # 0
        BY <2>8, <2>9, <3>1, <3>3
      <4> QED BY <2>3, <3>1, <4>1 DEF Busy
    <3> QED BY <3>2, <3>3
  <2>10. OneEach(a)'
    BY <1>2, <1>3, <1>4, <2>1 DEF OneEach
  <2>11. OneAnswer(a)'
    BY <1>2, <1>4, <2>1, <2>3 DEF OneAnswer
  <2>12. Commanded(a)'
    <3>1. pc'[s] = "status" /\ Answers(a)' = {}
      BY <1>2, <1>4, <2>3
    <3>2. ASSUME NEW d \in Dev, device'[<<a, d>>].busy # 0
          PROVE  d = work'[a].dev /\ device'[<<a, d>>].busy = Char(a)' /\ Out(a, d)' = Char(a)' - 1
      <4>1. d = dev /\ device'[<<a, d>>].busy = Char(a)
        BY <2>9, <3>2
      <4> QED BY <1>2, <1>5, <2>2, <4>1
    <3> QED BY <2>1, <3>1, <3>2 DEF Commanded
  <2> QED BY <1>5, <2>10, <2>11, <2>12 DEF AsidInv
<1> QED BY <1>2, <1>7, <1>8 DEF DoesIo

(* The command of an ASID ends, and the character is out or is not.        *)
LEMMA DeviceStepKeeps ==
    ASSUME SupInv, NEW a \in Asid, AsidInv(a), NEW d \in Dev, DeviceEnds(a, d)
    PROVE  AsidInv(a)'
<1> DEFINE s == Sst(a)
           u == Uproc(a)
<1>0. s \in Process /\ u \in Process /\ s # u /\ AsidOf(s) = a
  BY Names
<1>1. /\ OneEach(a) /\ OneRequest(a) /\ OneAnswer(a) /\ Counts(a) /\ Commanded(a) /\ InOrder(a)
      /\ SstOnce(a) /\ SsiOnce(a) /\ Len(inbox[u]) <= 1
  BY DEF AsidInv, OneEach
<1>2. PICK k \in Asid \X Dev : k = <<a, d>>
  OBVIOUS
<1>3. PICK what \in {DONE, FAILED} :
         /\ device[k].busy # 0 /\ device' = [device EXCEPT ![k].busy = 0]
         /\ Sends(SSI, s, what)
         /\ printed' = IF what = DONE THEN [printed EXCEPT ![k] = Append(@, device[k].busy)]
                       ELSE printed
         /\ UNCHANGED <<pc, ssi_inbox, work, userVars>>
  BY <1>2, ContentFacts DEF DeviceEnds
<1>4. Busy(a) /\ d = work[a].dev /\ device[k].busy = Char(a) /\ Out(a, d) = Char(a) - 1
  BY <1>1, <1>2, <1>3 DEF Busy, Commanded
<1>5. pc[s] = "status" /\ Asking(a) = {} /\ Answers(a) = {} /\ Latching(a) = {}
  BY <1>1, <1>4 DEF OneAnswer
<1>6. Writing(a) /\ Serving(a) /\ Writing(a)' /\ Serving(a)' /\ pc' = pc
  BY <1>3, <1>5 DEF Writing, Serving
<1>7. Char(a) \in Int /\ Char(a) <= wanted[<<a, d>>]
  BY <1>4, <1>6, AsidTypes
<1>8. PICK m : m = [from |-> SSI, what |-> what]
  OBVIOUS
<1>9. /\ inbox'[u] = inbox[u]
      /\ inbox'[s] = inbox[s] \/ inbox'[s] = Append(inbox[s], m)
  BY <1>0, <1>3, <1>8 DEF Sends, SupInv, BaseType
<1>10. Answers(a)' \subseteq {m} /\ Wishes(a)' = Wishes(a) /\ SstOnce(a)'
  BY <1>1, <1>5, <1>8, <1>9, GetsAnswer
<1>11. Asking(a)' = {} /\ Latching(a)' = {} /\ SsiOnce(a)'
  BY <1>1, <1>3, <1>5, SameSsi
<1>12. \A e \in Dev : device'[<<a, e>>].busy = 0
  <2>1. device \in [Asid \X Dev -> [data0 : Int, busy : Int]]
    BY DEF SupInv, BaseType
  <2>2. ASSUME NEW e \in Dev  PROVE device'[<<a, e>>].busy = 0
    <3>1. PICK l \in Asid \X Dev : l = <<a, e>>
      OBVIOUS
    <3>2. CASE l = k
      BY <1>3, <2>1, <3>1, <3>2
    <3>3. CASE l # k
      <4>1. device'[l] = device[l]
        BY <1>3, <2>1, <3>3
      <4>2. device[<<a, e>>].busy # 0 => e = d
        BY <1>1, <1>4 DEF Commanded
      <4> QED BY <1>2, <3>1, <3>3, <4>1, <4>2
    <3> QED BY <3>2, <3>3
  <2> QED BY <2>2
<1>13. Char(a)' = Char(a) /\ work'[a] = work[a] /\ wanted' = wanted
  BY <1>3 DEF Char, userVars
<1>14. /\ \A e \in Dev \ {d} : printed'[<<a, e>>] = printed[<<a, e>>]
       /\ what # DONE => printed'[<<a, d>>] = printed[<<a, d>>]
       /\ what = DONE => printed'[<<a, d>>] = Append(printed[<<a, d>>], Char(a))
  <2>1. printed \in [Asid \X Dev -> Seq(Int)]
    BY DEF SupInv, BaseType
  <2>2. \A l \in Asid \X Dev \ {k} : printed'[l] = printed[l]
    BY <1>3, <2>1
  <2>3. ASSUME NEW e \in Dev \ {d}  PROVE printed'[<<a, e>>] = printed[<<a, e>>]
    <3>1. PICK l \in Asid \X Dev : l = <<a, e>>
      OBVIOUS
    <3>2. l # k
      BY <1>2, <3>1
    <3> QED BY <2>2, <3>1, <3>2
  <2>4. what # DONE => printed'[k] = printed[k]
    BY <1>3
  <2>5. what = DONE => printed'[k] = Append(printed[k], Char(a))
    BY <1>3, <1>4, <2>1
  <2> QED BY <1>2, <2>3, <2>4, <2>5
<1>15. /\ \A e \in Dev \ {d} : Out(a, e)' = Out(a, e)
       /\ Out(a, d)' = IF what = DONE THEN Char(a) ELSE Char(a) - 1
       /\ InOrder(a)'
  <2>1. PICK q, r : q \in Seq(Int) /\ q = printed[<<a, d>>] /\ r = printed'[<<a, d>>]
    BY AsidTypes
  <2>2. /\ Len(q) \in Nat /\ Len(q) = Char(a) - 1 /\ DOMAIN q = 1..Len(q)
        /\ q = [i \in 1..Len(q) |-> i]
    BY <1>1, <1>4, <2>1, LenProperties DEF Out, InOrder
  <2>3. \A e \in Dev \ {d} : Out(a, e)' = Out(a, e)
    BY <1>14 DEF Out
  <2>4. CASE what # DONE
    <3>1. Out(a, d)' = Out(a, d)
      BY <1>14, <2>4 DEF Out
    <3>2. InOrder(a)'
      BY <1>1, <1>14, <2>3, <2>4, <3>1 DEF InOrder
    <3> QED BY <1>4, <2>3, <2>4, <3>1, <3>2
  <2>5. CASE what = DONE
    <3>1. r = Append(q, Char(a))
      BY <1>14, <2>1, <2>5
    <3>2. /\ DOMAIN r = 1..(Len(q) + 1) /\ r \in Seq(Int)
          /\ \A j \in DOMAIN q : r[j] = q[j]
          /\ r[Len(q) + 1] = Char(a)
      <4>1. q \in Seq(Int) /\ Char(a) \in Int
        BY <1>7, <2>1
      <4> QED BY <3>1, <4>1, AppendElements
    <3>3. Len(r) \in Nat /\ DOMAIN r = 1..Len(r) /\ r = [i \in DOMAIN r |-> r[i]]
      BY <3>2, LenProperties
    <3>4. Len(r) = Char(a)
      BY <1>7, <2>2, <3>2, <3>3
    <3>5. \A i \in DOMAIN r : r[i] = i
      <4>1. ASSUME NEW i \in DOMAIN r  PROVE r[i] = i
        <5>1. CASE i \in DOMAIN q
          BY <2>2, <3>2, <5>1
        <5>2. CASE i \notin DOMAIN q
          <6>1. i = Len(q) + 1 /\ i = Char(a)
            BY <1>7, <2>2, <3>2, <5>2
          <6> QED BY <3>2, <6>1
        <5> QED BY <5>1, <5>2
      <4> QED BY <4>1
    <3>6. r = [i \in 1..Len(r) |-> i]
      BY <3>3, <3>5
    <3>7. InOrder(a)'
      <4>1. ASSUME NEW e \in Dev  PROVE printed'[<<a, e>>] = [i \in 1..Out(a, e)' |-> i]
        <5>1. CASE e = d
          BY <2>1, <3>6, <5>1 DEF Out
        <5>2. CASE e # d
          BY <1>1, <1>14, <2>3, <5>2 DEF InOrder
        <5> QED BY <5>1, <5>2
      <4> QED BY <4>1 DEF InOrder
    <3>8. Out(a, d)' = Char(a)
      BY <2>1, <3>4 DEF Out
    <3> QED BY <2>3, <2>5, <3>7, <3>8
  <2> QED BY <2>4, <2>5
<1>16. OneEach(a)'
  BY <1>1, <1>9, <1>10, <1>11 DEF OneEach
<1>17. Wishes(a)' = {} /\ pc'[u] # "start" /\ inbox'[u] = <<>>
  BY <1>1, <1>6, <1>9, <1>10 DEF OneRequest
<1>18. OneRequest(a)'
  BY <1>6, <1>17 DEF OneRequest
<1>19. ~ Busy(a)'
  BY <1>12 DEF Busy
<1>20. OneAnswer(a)'
  BY <1>5, <1>6, <1>11, <1>19 DEF OneAnswer
<1>21. Counts(a)'
  <2>1. \A e \in Dev \ {d} : Out(a, e) = wanted[<<a, e>>]
    BY <1>1, <1>4, <1>6 DEF Counts
  <2>2. \A e \in Dev : Out(a, e)' <= wanted'[<<a, e>>]
    <3>1. \A e \in Dev : wanted[<<a, e>>] \in Nat
      BY AsidTypes
    <3> QED BY <1>7, <1>13, <1>15, <2>1, <3>1
  <2>3. Out(a, d)' = Char(a)' - 1 \/ Out(a, d)' = Char(a)'
    BY <1>13, <1>15
  <2> QED BY <1>4, <1>5, <1>6, <1>13, <1>15, <1>17, <2>1, <2>2, <2>3 DEF Counts
<1>22. Commanded(a)'
  <2>1. \A n \in Answers(a)' : Out(a, d)' = IF n.what = DONE THEN Char(a)' ELSE Char(a)' - 1
    BY <1>8, <1>10, <1>13, <1>15
  <2> QED BY <1>4, <1>5, <1>6, <1>11, <1>12, <1>13, <2>1 DEF Commanded
<1> QED BY <1>15, <1>16, <1>18, <1>20, <1>21, <1>22 DEF AsidInv

(* A step of a process of no business of an ASID.                          *)
LEMMA StepElsewhere ==
    ASSUME SupInv, SupInv', NEW a \in Asid, AsidInv(a), SameData(a),
           NEW p \in Process \ {Sst(a), Uproc(a)}, NEW to \in Process \ {Sst(a), Uproc(a)},
           UNCHANGED pc \/ \E place \in Place : Goes(p, place),
           UNCHANGED ssi_inbox \/ \E ask : SendsSsi(p, ask),
           UNCHANGED inbox \/ (\E From : Receives(p, From)) \/ \E from, what : Sends(from, to, what)
    PROVE  AsidInv(a)'
<1> DEFINE s == Sst(a)
           u == Uproc(a)
<1>0. s \in Process /\ u \in Process
  BY Names
<1>1. SsiOnce(a) /\ OneEach(a)
  BY DEF AsidInv, OneEach
<1>2. SsiOnce(a)' /\ Asking(a)' = Asking(a) /\ Latching(a)' = Latching(a)
  <2>1. CASE UNCHANGED ssi_inbox
    BY <1>1, <2>1, SameSsi
  <2>2. ASSUME NEW ask, SendsSsi(p, ask)
        PROVE  SsiOnce(a)' /\ Asking(a)' = Asking(a) /\ Latching(a)' = Latching(a)
    <3>1. PICK m, q, new : m = [from |-> p, ask |-> ask] /\ q = ssi_inbox /\ new = ssi_inbox'
      OBVIOUS
    <3>2. q \in Seq(Requests) /\ new \in Seq(Requests) /\ new = Append(q, m)
      BY <2>2, <3>1 DEF SupInv, BaseType, SendsSsi
    <3>3. Len(q) \in Nat /\ DOMAIN new = 1..(Len(q) + 1) /\ new[Len(q) + 1] = m
      <4>1. PICK T : T = Requests \cup {m}
        OBVIOUS
      <4>2. q \in Seq(T) /\ m \in T
        BY <3>2, <4>1
      <4> QED BY <3>2, <4>2, AppendElements
    <3>4. m \in Requests
      <4>1. Len(q) + 1 \in DOMAIN new
        BY <3>3
      <4> QED BY <3>2, <3>3, <4>1, ElementOfSeq, LenProperties
    <3> QED BY <1>1, <2>2, <3>1, <3>4, PutsAsk
  <2> QED BY <2>1, <2>2
<1>3. pc'[s] = pc[s] /\ pc'[u] = pc[u]
  BY <1>0, GoesFacts DEF SupInv
<1>4. inbox'[s] = inbox[s] /\ inbox'[u] = inbox[u]
  <2>1. ASSUME NEW From, Receives(p, From)  PROVE inbox'[s] = inbox[s] /\ inbox'[u] = inbox[u]
    BY <1>0, <2>1, ReceivesFacts DEF SupInv
  <2>2. ASSUME NEW from, NEW what, Sends(from, to, what)
        PROVE  inbox'[s] = inbox[s] /\ inbox'[u] = inbox[u]
    BY <1>0, <2>2 DEF Sends, SupInv, BaseType
  <2> QED BY <2>1, <2>2
<1> QED BY <1>2, <1>3, <1>4, Elsewhere

LEMMA TestKeeps ==
    ASSUME SupInv, SupInv', NEW a \in Asid, AsidInv(a), TestStep
    PROVE  AsidInv(a)'
<1>1. TEST \in Process \ {Sst(a), Uproc(a)}
  BY Names
<1>2. UNCHANGED <<ioVars, userVars>>
  BY DEF TestStep, TestInit, TestCreates, TestListens, TestEnds
<1>3. SameData(a)
  BY <1>2 DEF SameData, ioVars, userVars
<1>4. UNCHANGED pc \/ \E place \in Place : Goes(TEST, place)
  BY DEF TestStep, TestInit, TestCreates, TestListens, TestEnds, AsksSsi, Place
<1>5. UNCHANGED ssi_inbox \/ \E ask : SendsSsi(TEST, ask)
  BY DEF TestStep, TestInit, TestCreates, TestListens, TestEnds, AsksSsi
<1>6. UNCHANGED inbox \/ \E From : Receives(TEST, From)
  BY DEF TestStep, TestInit, TestCreates, TestListens, TestEnds
<1> QED BY <1>1, <1>3, <1>4, <1>5, <1>6, StepElsewhere

LEMMA SstStepElsewhere ==
    ASSUME SupInv, SupInv', NEW a \in Asid, AsidInv(a), NEW b \in Asid \ {a}, SstStep(b)
    PROVE  AsidInv(a)'
<1>1. /\ Sst(b) \in Process \ {Sst(a), Uproc(a)} /\ Uproc(b) \in Process \ {Sst(a), Uproc(a)}
      /\ TEST \in Process \ {Sst(a), Uproc(a)} /\ Sst(b)[1] = "sst"
  BY Names, DifferentNames
<1>2. PICK to \in {TEST, Uproc(b)} :
         \/ UNCHANGED inbox \/ \E From : Receives(Sst(b), From)
         \/ \E what : Sends(Sst(b), to, what)
  BY <1>1 DEF SstStep, SstStarts, SstCreates, SstIsReady, SstTakes, SendsData0, SendsCommand,
              SstChecks, SstAnswers, SstHears, Tells, TermsSelf
<1>3. UNCHANGED <<device, printed, wanted>> /\ (UNCHANGED work \/ \E w : work' = [work EXCEPT ![b] = w])
  BY DEF SstStep, SstStarts, SstCreates, SstIsReady, SstTakes, SendsData0, SendsCommand,
         SstChecks, SstAnswers, SstHears, Tells, TermsSelf, ioVars, userVars
<1>4. SameData(a)
  BY <1>3 DEF SameData, SupInv, BaseType
<1>5. \E place \in Place : Goes(Sst(b), place)
  <2>1. ASSUME NEW what  PROVE PlaceFor(what) \in Place
    BY DEF PlaceFor, Place
  <2> QED BY <2>1 DEF SstStep, SstStarts, SstCreates, SstIsReady, SstTakes, SendsData0,
         SendsCommand, SstChecks, SstAnswers, SstHears, Tells, TermsSelf, AsksSsi, Place
<1>6. UNCHANGED ssi_inbox \/ \E ask : SendsSsi(Sst(b), ask)
  BY DEF SstStep, SstStarts, SstCreates, SstIsReady, SstTakes, SendsData0, SendsCommand,
         SstChecks, SstAnswers, SstHears, Tells, TermsSelf, AsksSsi
<1> QED BY <1>1, <1>2, <1>4, <1>5, <1>6, StepElsewhere

LEMMA UprocStepElsewhere ==
    ASSUME SupInv, SupInv', NEW a \in Asid, AsidInv(a), NEW b \in Asid \ {a}, UprocStep(b)
    PROVE  AsidInv(a)'
<1>1. /\ Sst(b) \in Process \ {Sst(a), Uproc(a)} /\ Uproc(b) \in Process \ {Sst(a), Uproc(a)}
      /\ Uproc(b)[1] = "uproc" /\ AsidOf(Uproc(b)) = b
  BY Names, DifferentNames
<1>2. \/ UNCHANGED inbox \/ \E From : Receives(Uproc(b), From)
      \/ \E what : Sends(Uproc(b), Sst(b), what)
  BY <1>1 DEF UprocStep, UprocSends, UprocReceives, UprocTraps, Tells, TermsSelf
<1>3. /\ UNCHANGED <<device, printed, work>>
      /\ UNCHANGED wanted \/ \E d \in Dev : \E w : wanted' = [wanted EXCEPT ![<<b, d>>] = w]
  <2>1. ASSUME NEW what \in Request(b), UprocSends(b, what)
        PROVE  UNCHANGED wanted \/ \E d \in Dev : \E w : wanted' = [wanted EXCEPT ![<<b, d>>] = w]
    <3>1. what.code = "WRITE" => what.dev \in Dev
      BY RequestFacts
    <3> QED BY <2>1, <3>1 DEF UprocSends
  <2> QED BY <2>1 DEF UprocStep, UprocSends, UprocReceives, UprocTraps, Tells, TermsSelf,
                      ioVars, userVars
<1>4. SameData(a)
  <2>1. ASSUME NEW d \in Dev  PROVE wanted'[<<a, d>>] = wanted[<<a, d>>]
    <3>1. CASE UNCHANGED wanted
      BY <3>1
    <3>2. ASSUME NEW e \in Dev, NEW w, wanted' = [wanted EXCEPT ![<<b, e>>] = w]
          PROVE  wanted'[<<a, d>>] = wanted[<<a, d>>]
      <4>1. PICK k \in Asid \X Dev, l \in Asid \X Dev : k = <<b, e>> /\ l = <<a, d>>
        OBVIOUS
      <4>2. k # l /\ wanted' = [wanted EXCEPT ![k] = w] /\ wanted \in [Asid \X Dev -> Nat]
        BY <3>2, <4>1 DEF SupInv, BaseType
      <4>3. wanted'[l] = wanted[l]
        BY <4>2
      <4> QED BY <4>1, <4>3
    <3> QED BY <1>3, <3>1, <3>2
  <2> QED BY <1>3, <2>1 DEF SameData
<1>5. \E place \in Place : Goes(Uproc(b), place)
  BY DEF UprocStep, UprocSends, UprocReceives, UprocTraps, Tells, TermsSelf, AsksSsi, Place
<1>6. UNCHANGED ssi_inbox \/ \E ask : SendsSsi(Uproc(b), ask)
  BY DEF UprocStep, UprocSends, UprocReceives, UprocTraps, Tells, TermsSelf, AsksSsi
<1> QED BY <1>1, <1>2, <1>4, <1>5, <1>6, StepElsewhere

LEMMA DeviceStepElsewhere ==
    ASSUME SupInv, SupInv', NEW a \in Asid, AsidInv(a),
           NEW b \in Asid \ {a}, NEW d \in Dev, DeviceEnds(b, d)
    PROVE  AsidInv(a)'
<1>1. Sst(b) \in Process \ {Sst(a), Uproc(a)}
  BY Names, DifferentNames
<1>2. /\ UNCHANGED <<pc, ssi_inbox, work, wanted>> /\ \E what : Sends(SSI, Sst(b), what)
  BY DEF DeviceEnds, userVars
<1>3. SameData(a)
  <2>1. ASSUME NEW e \in Dev
        PROVE  device'[<<a, e>>] = device[<<a, e>>] /\ printed'[<<a, e>>] = printed[<<a, e>>]
    <3>1. PICK k \in Asid \X Dev, l \in Asid \X Dev : k = <<b, d>> /\ l = <<a, e>>
      OBVIOUS
    <3>2. /\ k # l /\ device' = [device EXCEPT ![k].busy = 0]
          /\ UNCHANGED printed \/ printed' = [printed EXCEPT ![k] = Append(@, device[k].busy)]
      BY <3>1 DEF DeviceEnds
    <3>3. /\ device \in [Asid \X Dev -> [data0 : Int, busy : Int]]
          /\ printed \in [Asid \X Dev -> Seq(Int)]
      BY DEF SupInv, BaseType
    <3>4. device'[l] = device[l] /\ printed'[l] = printed[l]
      BY <3>2, <3>3
    <3> QED BY <3>1, <3>4
  <2> QED BY <1>2, <2>1 DEF SameData
<1> QED BY <1>1, <1>2, <1>3, StepElsewhere

LEMMA OutputInit == Init => OutputInv
<1> SUFFICES ASSUME Init, NEW a \in Asid PROVE AsidInv(a)
  BY DEF OutputInv
<1>0. Sst(a) \in Process /\ Uproc(a) \in Process /\ Sst(a) # TEST /\ Uproc(a) # TEST
  BY Names
<1>1. /\ inbox[Sst(a)] = <<>> /\ inbox[Uproc(a)] = <<>> /\ ssi_inbox = <<>>
      /\ pc[Sst(a)] = "start" /\ pc[Uproc(a)] = "start"
  BY <1>0 DEF Init
<1>2. ASSUME NEW d \in Dev
      PROVE  /\ device[<<a, d>>].busy = 0 /\ wanted[<<a, d>>] = 0 /\ printed[<<a, d>>] = <<>>
             /\ Out(a, d) = 0
  <2>1. PICK k \in Asid \X Dev : k = <<a, d>>
    OBVIOUS
  <2>2. device[k].busy = 0 /\ wanted[k] = 0 /\ printed[k] = <<>>
    BY DEF Init
  <2> QED BY <2>1, <2>2 DEF Out
<1>3. Wishes(a) = {} /\ Answers(a) = {} /\ Asking(a) = {} /\ Latching(a) = {}
  BY <1>1 DEF Wishes, Answers, Asking, Latching, Among, ToSet
<1>4. OneEach(a)
  <2>1. Len(<<>>) <= 1
    OBVIOUS
  <2> QED BY <1>1, <2>1 DEF OneEach, SstOnce, SsiOnce, AtMostOne, Before
<1>5. ~ Busy(a) /\ ~ Writing(a) /\ ~ Serving(a)
  BY <1>1, <1>2 DEF Busy, Writing, Serving
<1>6. OneRequest(a) /\ OneAnswer(a)
  BY <1>1, <1>3, <1>5 DEF OneRequest, OneAnswer
<1>7. Counts(a)
  BY <1>1, <1>2, <1>3, <1>5 DEF Counts, AllOut
<1>8. Commanded(a)
  BY <1>1, <1>2, <1>3 DEF Commanded
<1>9. InOrder(a)
  <2>1. <<>> = [i \in 1..0 |-> i]
    OBVIOUS
  <2> QED BY <1>2, <2>1 DEF InOrder
<1> QED BY <1>4, <1>6, <1>7, <1>8, <1>9 DEF AsidInv

LEMMA OutputStep == SupInv /\ SupInv' /\ OutputInv /\ [Next]_vars => OutputInv'
<1> SUFFICES ASSUME SupInv, SupInv', OutputInv, [Next]_vars, NEW a \in Asid PROVE AsidInv(a)'
  BY DEF OutputInv
<1>0. AsidInv(a)
  BY DEF OutputInv
<1>1. CASE TestStep
  BY <1>0, <1>1, TestKeeps
<1>2. CASE SsiServes
  BY <1>0, <1>2, SsiServesOther, SsiServesSst, SsiWrites
<1>3. ASSUME NEW b \in Asid, SstStep(b)  PROVE AsidInv(a)'
  BY <1>0, <1>3, SstStepKeeps, SstStepElsewhere
<1>4. ASSUME NEW b \in Asid, UprocStep(b)  PROVE AsidInv(a)'
  BY <1>0, <1>4, UprocStepKeeps, UprocStepElsewhere
<1>5. ASSUME NEW b \in Asid, NEW d \in Dev, DeviceEnds(b, d)  PROVE AsidInv(a)'
  BY <1>0, <1>5, DeviceStepKeeps, DeviceStepElsewhere
<1>6. CASE UNCHANGED vars
  <2>1. SameData(a) /\ UNCHANGED <<pc, inbox, ssi_inbox>>
    BY <1>6 DEF vars, ioVars, userVars, SameData
  <2>2. SsiOnce(a)' /\ Asking(a)' = Asking(a) /\ Latching(a)' = Latching(a)
    BY <1>0, <2>1, SameSsi DEF AsidInv, OneEach
  <2> QED BY <1>0, <2>1, <2>2, Elsewhere
<1> QED BY <1>1, <1>2, <1>3, <1>4, <1>5, <1>6 DEF Next, Stops

(* What is out at every ASID follows from its account: whatever orders and *)
(* traps the code does not exclude.                                        *)
THEOREM PrintsAsAsked == Spec => []OutputAsAsked
<1>1. OutputInv => OutputAsAsked
  BY DEF OutputInv, AsidInv, OutputAsAsked, Counts, InOrder, AllOut, Out, At
<1>2. Init => SupInv /\ OutputInv
  BY SupInit, OutputInit
<1>3. SupInv /\ OutputInv /\ [Next]_vars => (SupInv /\ OutputInv)'
  BY SupStep, OutputStep
<1> QED BY <1>1, <1>2, <1>3, PTL DEF Spec

(* The types, and that what a device is printing is one of the characters  *)
(* its U-proc has asked for.                                               *)
THEOREM SupportTypeInvariance == Spec => []SupportTypeOK
<1>1. ASSUME SupInv, OutputInv  PROVE SupportTypeOK
  <2>1. ASSUME NEW k \in Asid \X Dev
        PROVE  wanted[k] \in Nat /\ device[k].busy \in NOCHAR..wanted[k]
    <3>1. PICK a \in Asid, d \in Dev : k = <<a, d>>
      OBVIOUS
    <3>2. wanted[k] \in Nat /\ device[k].busy \in Int /\ Out(a, d) \in Nat
      BY <1>1, <3>1, AsidTypes
    <3>3. CASE device[k].busy = 0
      BY <3>2, <3>3 DEF NOCHAR
    <3>4. CASE device[k].busy # 0
      <4>1. d = work[a].dev /\ device[k].busy = Char(a) /\ Out(a, d) = Char(a) - 1 /\ Writing(a)
        <5>1. AsidInv(a) /\ Busy(a)
          BY <1>1, <3>1, <3>4 DEF OutputInv, Busy
        <5> QED BY <3>1, <3>4, <5>1 DEF AsidInv, Commanded, OneAnswer, Writing
      <4>2. Char(a) \in Int /\ Char(a) <= wanted[k]
        BY <1>1, <3>1, <4>1, AsidTypes
      <4> QED BY <3>2, <4>1, <4>2 DEF NOCHAR
    <3> QED BY <3>3, <3>4
  <2>2. \A i \in DOMAIN ssi_inbox : ssi_inbox[i].from \in Process
    <3>1. \A i \in DOMAIN ssi_inbox : ssi_inbox[i] \in Requests
      BY <1>1, ElementOfSeq, LenProperties DEF SupInv, BaseType
    <3> QED BY <3>1 DEF Requests
  <2>3. \A a \in Asid : work[a].length \in Nat
    BY <1>1, AsidTypes
  <2> QED BY <1>1, <2>1, <2>2, <2>3 DEF SupportTypeOK, SupInv, BaseType
<1>2. Init => SupInv /\ OutputInv
  BY SupInit, OutputInit
<1>3. SupInv /\ OutputInv /\ [Next]_vars => (SupInv /\ OutputInv)'
  BY SupStep, OutputStep
<1> QED BY <1>1, <1>2, <1>3, PTL DEF Spec
=============================================================================
