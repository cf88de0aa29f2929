------------------------------ MODULE Support -------------------------------
(***************************************************************************)
(* The processes of phase 3 and the messages between them: test, which     *)
(* creates the mutex and one system service thread (SST) per ASID; the     *)
(* SSTs, each of which creates a U-proc and serves its requests; and the   *)
(* support-level exception handler, which runs in the U-proc.              *)
(*                                                                         *)
(* A step of a process ends with a system call.  The SSI serves a request  *)
(* in one step; its own steps are in module Nucleus, the interrupt that    *)
(* ends a command is in Interrupts, page faults and the mutex are in Pager.*)
(***************************************************************************)
EXTENDS Integers, Sequences, FiniteSets, SequencesExt

CONSTANTS
    UPROCMAX,       (* number of ASIDs, SSTs and support structures         *)
    MaxRequests,    (* bound: requests of a U-proc before TERMINATE         *)
    Strings,        (* bound: the writes of each U-proc, <<asid, device,    *)
                    (* length>>                                             *)
    Liberty         (* orders and events the code does not exclude, a       *)
                    (* subset of {"early", "trap"}; see Runs, UprocTraps     *)

ASSUME SupportAssumption ==
    /\ UPROCMAX \in Nat \ {0} /\ MaxRequests \in Nat
    /\ Strings \subseteq (1..UPROCMAX) \X {"IL_PRINTER", "IL_TERMINAL"} \X Nat
    /\ Liberty \subseteq {"early", "trap"}

Asid == 1..UPROCMAX
Dev == {"IL_PRINTER", "IL_TERMINAL"}

TEST == <<"test", 0>>
MUTEX == <<"mutex", 0>>
SSI == <<"ssi", 0>>
Sst(a) == <<"sst", a>>
Uproc(a) == <<"uproc", a>>
Process == {TEST, MUTEX} \cup ({"sst", "uproc"} \X Asid)
AsidOf(p) == p[2]

(* Requests of a U-proc to its SST; NULL is the payload of trap_handler's  *)
(* message to the parent.                                                  *)
Plain(code) == [code |-> code, dev |-> "none", length |-> 0]
Request(a) ==
    {[code |-> "WRITE", dev |-> w[2], length |-> w[3]] : w \in {s \in Strings : s[1] = a}}
        \cup {Plain("GET_TOD"), Plain("TERMINATE")}
NULL == Plain("NULL")

(* What a message carries otherwise.                                       *)
NOCHAR == -1            (* data0 before anything is written to it          *)
DONE == Plain("DONE")
FAILED == Plain("FAILED")

Asks(op, arg) == [op |-> op, arg |-> arg, dev |-> "none", value |-> 0]
Commands(reg, dev, value) == [op |-> reg, arg |-> SSI, dev |-> dev, value |-> value]
-----------------------------------------------------------------------------
VARIABLES
    alive,          (* processes that have been created and not terminated  *)
    pc,             (* pc[p]: what p does next                              *)
    inbox,          (* inbox[p]: messages [from, what], oldest first        *)
    ssi_inbox,      (* requests [from, ask] to the SSI, oldest first        *)
    sst_pcbs,       (* the ASIDs whose entry in sst_pcbs is set             *)
    supportFree,    (* supportFree_h                                        *)
    supportOf,      (* supportOf[a]: the structure of ASID a, or 0          *)
    work,           (* work[a]: the write a's SST executes                  *)
    device,         (* device[<<a, d>>]: data0, and the character that is   *)
                    (* being printed, or 0                                  *)
    heard,          (* messages test has received from its SSTs             *)
    released,       (* ASIDs whose frames test has marked free              *)
    asked,          (* auxiliary: requests each U-proc has made             *)
    wanted,         (* auxiliary: wanted[<<a, d>>]: characters requested    *)
    printed         (* characters that a's device d has printed; they are   *)
                    (* numbered in the order of the U-proc's requests       *)

ioVars == <<work, device, printed>>
tableVars == <<sst_pcbs, supportFree, supportOf, heard, released>>
userVars == <<asked, wanted>>
vars == <<alive, pc, inbox, ssi_inbox, ioVars, tableVars, userVars>>

(* The SSI has dispatched test.                                            *)
Init ==
    /\ alive = {TEST}
    /\ pc = [p \in Process |-> IF p = TEST THEN "init" ELSE "start"]
    /\ inbox = [p \in Process |-> <<>>]
    /\ ssi_inbox = <<>>
    /\ sst_pcbs = {}
    /\ supportFree = <<>>
    /\ supportOf = [a \in Asid |-> 0]
    /\ work = [a \in Asid |-> NULL]
    /\ device = [k \in Asid \X Dev |-> [data0 |-> NOCHAR, busy |-> 0]]
    /\ heard = 0
    /\ released = {}
    /\ asked = [a \in Asid |-> 0]
    /\ wanted = [k \in Asid \X Dev |-> 0]
    /\ printed = [k \in Asid \X Dev |-> <<>>]

At(p, place) == p \in alive /\ pc[p] = place
Goes(p, place) == pc' = [pc EXCEPT ![p] = place]

(* SENDMESSAGE: a message to a process that has ended is not delivered.    *)
Sends(p, to, what) ==
    inbox' = IF to \in alive
             THEN [inbox EXCEPT ![to] = Append(@, [from |-> p, what |-> what])]
             ELSE inbox

SendsSsi(p, ask) == ssi_inbox' = Append(ssi_inbox, [from |-> p, ask |-> ask])

(* RECEIVEMESSAGE: the oldest message of a sender in From, if there is one *)
Mail(p, From) == {i \in DOMAIN inbox[p] : inbox[p][i].from \in From}
Oldest(p, From) == CHOOSE i \in Mail(p, From) : \A j \in Mail(p, From) : i <= j
Letter(p, From) == inbox[p][Oldest(p, From)]
Receives(p, From) ==
    /\ Mail(p, From) # {}
    /\ inbox' = [inbox EXCEPT ![p] = RemoveAt(@, Oldest(p, From))]

(* A request to the SSI, and p waits for the answer at the place given.    *)
AsksSsi(p, ask, place) == SendsSsi(p, ask) /\ Goes(p, place)
-----------------------------------------------------------------------------
(* test                                                                    *)

Creates(p) == Asks("CREATEPROCESS", p)

(* support.c: the pool is a list from which structures are taken in front. *)
freeSupport(free, s) == <<s>> \o free
initSupports ==
    LET pool[n \in 0..UPROCMAX] ==
            IF n = 0 THEN <<>> ELSE freeSupport(pool[n - 1], n)
    IN pool[UPROCMAX]

allocSupport(a) ==
    /\ supportFree # <<>>
    /\ supportOf' = [supportOf EXCEPT ![a] = Head(supportFree)]
    /\ supportFree' = Tail(supportFree)

(* initSwapStructs, initSupports, and p_create of the mutex.               *)
TestInit ==
    /\ At(TEST, "init")
    /\ supportFree' = initSupports
    /\ AsksSsi(TEST, Creates(MUTEX), "created")
    /\ UNCHANGED <<alive, inbox, ioVars, sst_pcbs, supportOf, heard, released, userVars>>

NextSst == Cardinality({a \in Asid : supportOf[a] # 0}) + 1

(* The answer to the last p_create; allocSupport and p_create for the next *)
(* SST.                                                                    *)
TestCreates ==
    /\ At(TEST, "created")
    /\ Receives(TEST, {SSI})
    /\ sst_pcbs' = 1..(NextSst - 1)
    /\ IF NextSst <= UPROCMAX
       THEN /\ allocSupport(NextSst)
            /\ AsksSsi(TEST, Creates(Sst(NextSst)), "created")
       ELSE /\ Goes(TEST, "listen")
            /\ UNCHANGED <<ssi_inbox, supportOf, supportFree>>
    /\ UNCHANGED <<alive, ioVars, heard, released, userVars>>

(* Faulty variant: the loop ends one message early.                        *)
TestListensShort ==
    /\ At(TEST, "listen") /\ heard < UPROCMAX
    /\ Receives(TEST, Process)
    /\ heard' = heard + 1
    /\ released' = released \cup {AsidOf(Letter(TEST, Process).from)}
    /\ IF heard' >= UPROCMAX - 1
       THEN AsksSsi(TEST, Asks("TERMPROCESS", MUTEX), "termSelf")
       ELSE UNCHANGED <<pc, ssi_inbox>>
    /\ UNCHANGED <<alive, ioVars, sst_pcbs, supportFree, supportOf, userVars>>

(* A message from any process; mark_free_pages; p_term of the mutex after  *)
(* the last.                                                               *)
TestListens ==
    /\ At(TEST, "listen") /\ heard < UPROCMAX
    /\ Receives(TEST, Process)
    /\ heard' = heard + 1
    /\ released' = released \cup {AsidOf(Letter(TEST, Process).from)}
    /\ IF heard' = UPROCMAX
       THEN AsksSsi(TEST, Asks("TERMPROCESS", MUTEX), "termSelf")
       ELSE UNCHANGED <<pc, ssi_inbox>>
    /\ UNCHANGED <<alive, ioVars, sst_pcbs, supportFree, supportOf, userVars>>

TestEnds ==
    /\ At(TEST, "termSelf")
    /\ Receives(TEST, {SSI})
    /\ AsksSsi(TEST, Asks("TERMPROCESS", TEST), "ending")
    /\ UNCHANGED <<alive, ioVars, tableVars, userVars>>
-----------------------------------------------------------------------------
(* The SSI                                                                 *)

SsiPasses == ssi_inbox' = Tail(ssi_inbox)

CreatesProcess(m) ==
    /\ m.ask.op = "CREATEPROCESS"
    /\ alive' = alive \cup {m.ask.arg}
    /\ Sends(SSI, m.from, DONE)
    /\ UNCHANGED <<device, supportFree>>

GetsSupport(m) ==
    /\ m.ask.op = "GETSUPPORTPTR"
    /\ Sends(SSI, m.from, DONE)
    /\ UNCHANGED <<alive, device, supportFree>>

Progeny(p) == CASE p = TEST -> alive
                [] p[1] = "sst" -> {p, Uproc(AsidOf(p))} \cap alive
                [] OTHER -> {p} \cap alive

(* Each victim puts its support structure back, children first: an SST the *)
(* one its U-proc has put back before.                                     *)
PutsBack(p, gone, free) ==
    IF p \in gone THEN freeSupport(free, supportOf[AsidOf(p)]) ELSE free
FreeAfter(gone) ==
    LET free[a \in 0..UPROCMAX] ==
            IF a = 0 THEN supportFree
            ELSE PutsBack(Sst(a), gone, PutsBack(Uproc(a), gone, free[a - 1]))
    IN free[UPROCMAX]

Terminates(m) ==
    /\ m.ask.op = "TERMPROCESS"
    /\ LET gone == Progeny(m.ask.arg) IN
       /\ alive' = alive \ gone
       /\ supportFree' = FreeAfter(gone)
       /\ inbox' = [p \in Process |->
              IF p \in gone THEN <<>>
              ELSE IF p = m.from /\ p \in alive
              THEN Append(inbox[p], [from |-> SSI, what |-> DONE])
              ELSE inbox[p]]
    /\ UNCHANGED device

(* do_io: the command register is written.  A value written to data0 is    *)
(* kept there and ends in no interrupt.                                    *)
DoesIo(m) ==
    /\ m.ask.op \in {"data0", "command"}
    /\ LET k == <<AsidOf(m.from), m.ask.dev>> IN
       device' = IF m.ask.op = "data0" THEN [device EXCEPT ![k].data0 = m.ask.value]
                 ELSE [device EXCEPT ![k].busy =
                          IF m.ask.dev = "IL_PRINTER" THEN device[k].data0 ELSE m.ask.value]
    /\ UNCHANGED <<alive, inbox, supportFree>>

SsiServes ==
    /\ ssi_inbox # <<>>
    /\ LET m == Head(ssi_inbox) IN
          CreatesProcess(m) \/ GetsSupport(m) \/ Terminates(m) \/ DoesIo(m)
    /\ SsiPasses
    /\ UNCHANGED <<pc, work, printed, sst_pcbs, supportOf, heard, released, userVars>>

(* A command ends, well or not, and the SSI answers the SST.               *)
DeviceEnds(a, d) ==
    /\ device[<<a, d>>].busy # 0
    /\ device' = [device EXCEPT ![<<a, d>>].busy = 0]
    /\ \/ /\ printed' = [printed EXCEPT ![<<a, d>>] = Append(@, device[<<a, d>>].busy)]
          /\ Sends(SSI, Sst(a), DONE)
       \/ Sends(SSI, Sst(a), FAILED) /\ UNCHANGED printed
    /\ UNCHANGED <<alive, pc, ssi_inbox, work, tableVars, userVars>>
-----------------------------------------------------------------------------
(* sst                                                                     *)

SstStarts(a) ==
    /\ At(Sst(a), "start")
    /\ AsksSsi(Sst(a), Asks("GETSUPPORTPTR", Sst(a)), "support")
    /\ UNCHANGED <<alive, inbox, ioVars, tableVars, userVars>>

SstCreates(a) ==
    /\ At(Sst(a), "support")
    /\ Receives(Sst(a), {SSI})
    /\ AsksSsi(Sst(a), Creates(Uproc(a)), "created")
    /\ UNCHANGED <<alive, ioVars, tableVars, userVars>>

SstIsReady(a) ==
    /\ At(Sst(a), "created")
    /\ Receives(Sst(a), {SSI})
    /\ Goes(Sst(a), "serve")
    /\ UNCHANGED <<alive, ssi_inbox, ioVars, tableVars, userVars>>

(* Faulty variant: the length is looked at after a character.              *)
PlaceForDoWhile(what) == IF what.dev = "IL_PRINTER" THEN "data0" ELSE "command"

(* Where the loop over the rest of a string goes on.                       *)
PlaceFor(what) ==
    IF what.length = 0 THEN "answer"
    ELSE IF what.dev = "IL_PRINTER" THEN "data0" ELSE "command"

(* The next request.  trap_handler's message to its parent has payload 0,  *)
(* and the service code is read at address 0: the SST traps, or finds no   *)
(* code it knows and waits for the U-proc again.                           *)
SstTakes(a) ==
    /\ At(Sst(a), "serve")
    /\ Receives(Sst(a), {Uproc(a)})
    /\ LET what == Letter(Sst(a), {Uproc(a)}).what IN
          \/ /\ what.code = "WRITE"
             /\ Goes(Sst(a), PlaceFor(what))
             /\ work' = [work EXCEPT ![a] = what]
             /\ UNCHANGED ssi_inbox
          \/ /\ what.code = "GET_TOD"
             /\ Goes(Sst(a), "answer")
             /\ UNCHANGED <<ssi_inbox, work>>
          \/ /\ what.code = "TERMINATE"
             /\ AsksSsi(Sst(a), Asks("TERMPROCESS", Uproc(a)), "termChild")
             /\ UNCHANGED work
          \/ /\ what.code = "NULL"
             /\ Goes(Sst(a), "serve") \/ Goes(Sst(a), "tell")
             /\ UNCHANGED <<ssi_inbox, work>>
    /\ UNCHANGED <<alive, device, printed, tableVars, userVars>>

(* The number of the character that is printed next.                       *)
Char(a) == wanted[<<a, work[a].dev>>] - work[a].length + 1

(* Faulty variant: the command is given before data0 is written.           *)
SendsData0Later(a) ==
    /\ At(Sst(a), "data0")
    /\ ssi_inbox' = ssi_inbox \o
           <<[from |-> Sst(a), ask |-> Commands("command", work[a].dev, 0)],
             [from |-> Sst(a), ask |-> Commands("data0", work[a].dev, Char(a))]>>
    /\ Goes(Sst(a), "status")
    /\ UNCHANGED <<alive, inbox, ioVars, tableVars, userVars>>

(* A printer takes two DOIOs for a character, and answers the second.      *)
SendsData0(a) ==
    /\ At(Sst(a), "data0")
    /\ SendsSsi(Sst(a), Commands("data0", work[a].dev, Char(a)))
    /\ Goes(Sst(a), "command")
    /\ UNCHANGED <<alive, inbox, ioVars, tableVars, userVars>>

SendsCommand(a) ==
    /\ At(Sst(a), "command")
    /\ SendsSsi(Sst(a), Commands("command", work[a].dev, Char(a)))
    /\ Goes(Sst(a), "status")
    /\ UNCHANGED <<alive, inbox, ioVars, tableVars, userVars>>

(* The status of the command: on to the next character, or trap_handler.   *)
SstChecks(a) ==
    /\ At(Sst(a), "status")
    /\ Receives(Sst(a), {SSI})
    /\ LET left == [work[a] EXCEPT !.length = @ - 1] IN
       IF Letter(Sst(a), {SSI}).what = DONE
       THEN Goes(Sst(a), PlaceFor(left)) /\ work' = [work EXCEPT ![a] = left]
       ELSE Goes(Sst(a), "tell") /\ UNCHANGED work
    /\ UNCHANGED <<alive, ssi_inbox, device, printed, tableVars, userVars>>

SstAnswers(a) ==
    /\ At(Sst(a), "answer")
    /\ Sends(Sst(a), Uproc(a), DONE)
    /\ Goes(Sst(a), "serve")
    /\ work' = [work EXCEPT ![a] = NULL]
    /\ UNCHANGED <<alive, ssi_inbox, device, printed, tableVars, userVars>>

(* TERMINATE, after p_term(child_pcb).                                     *)
SstHears(a) ==
    /\ At(Sst(a), "termChild")
    /\ Receives(Sst(a), {SSI})
    /\ Goes(Sst(a), "tell")
    /\ UNCHANGED <<alive, ssi_inbox, ioVars, tableVars, userVars>>

(* Faulty variant: the parent is not told.                                 *)
TellsNobody(p) ==
    /\ At(p, "tell")
    /\ AsksSsi(p, Asks("TERMPROCESS", p), "ending")
    /\ UNCHANGED <<alive, inbox, ioVars, tableVars, userVars>>

(* trap_handler and TERMINATE: a message to the parent, then p_term(SELF). *)
(* The V that trap_handler sends to the mutex first is in module Pager.    *)
Tells(p) ==
    /\ At(p, "tell")
    /\ Sends(p, IF p[1] = "sst" THEN TEST ELSE Sst(AsidOf(p)), NULL)
    /\ Goes(p, "termSelf")
    /\ UNCHANGED <<alive, ssi_inbox, ioVars, tableVars, userVars>>

TermsSelf(p) ==
    /\ At(p, "termSelf") /\ p # TEST
    /\ AsksSsi(p, Asks("TERMPROCESS", p), "ending")
    /\ UNCHANGED <<alive, inbox, ioVars, tableVars, userVars>>
-----------------------------------------------------------------------------
(* U-procs.  A program sends a request to its parent and waits for an      *)
(* answer, as print() does.  SENDMSG, RECEIVEMSG and traps are passed up   *)
(* to general_exception_handler; that it asks the SSI for the support      *)
(* structure first is left out, for nothing depends on the answer.         *)

(* A U-proc does not run before test has stored its SST in sst_pcbs: test  *)
(* is ahead of it in the ready queue.  "early" lets it.                    *)
Runs(a, place) ==
    /\ At(Uproc(a), place)
    /\ a \in sst_pcbs \/ "early" \in Liberty

(* SENDMSG to PARENT: to the SST, or to nobody before the entry is set.    *)
UprocSends(a, what) ==
    /\ Runs(a, "start")
    /\ what.code # "TERMINATE" => asked[a] < MaxRequests
    /\ IF a \in sst_pcbs THEN Sends(Uproc(a), Sst(a), what) ELSE UNCHANGED inbox
    /\ Goes(Uproc(a), "wait")
    /\ asked' = [asked EXCEPT ![a] = @ + 1]
    /\ wanted' = IF what.code = "WRITE"
                 THEN [wanted EXCEPT ![<<a, what.dev>>] = @ + what.length] ELSE wanted
    /\ UNCHANGED <<alive, ssi_inbox, ioVars, tableVars>>

(* RECEIVEMSG from any sender.                                             *)
UprocReceives(a) ==
    /\ Runs(a, "wait")
    /\ Receives(Uproc(a), Process \cup {SSI})
    /\ Goes(Uproc(a), "start")
    /\ UNCHANGED <<alive, ssi_inbox, ioVars, tableVars, userVars>>

(* A trap between two instructions of the program ("trap").                *)
UprocTraps(a) ==
    /\ "trap" \in Liberty
    /\ Runs(a, "start") \/ Runs(a, "wait")
    /\ Goes(Uproc(a), "tell")
    /\ UNCHANGED <<alive, inbox, ssi_inbox, ioVars, tableVars, userVars>>
-----------------------------------------------------------------------------
SstStep(a) ==
    \/ SstStarts(a) \/ SstCreates(a) \/ SstIsReady(a) \/ SstTakes(a)
    \/ SendsData0(a) \/ SendsCommand(a) \/ SstChecks(a) \/ SstAnswers(a)
    \/ SstHears(a) \/ Tells(Sst(a)) \/ TermsSelf(Sst(a))

UprocStep(a) ==
    \/ \E what \in Request(a) : UprocSends(a, what)
    \/ UprocReceives(a) \/ UprocTraps(a) \/ Tells(Uproc(a)) \/ TermsSelf(Uproc(a))

TestStep == TestInit \/ TestCreates \/ TestListens \/ TestEnds

Halted == TEST \notin alive

(* A U-proc that ended by a trap, and its SST waits for it.                *)
Stranded(a) ==
    /\ At(Sst(a), "serve") /\ Uproc(a) \notin alive
    /\ Mail(Sst(a), {Uproc(a)}) = {}

Stops == (Halted \/ \E a \in Asid : Stranded(a)) /\ UNCHANGED vars

Next ==
    \/ TestStep \/ SsiServes
    \/ \E a \in Asid : SstStep(a) \/ UprocStep(a) \/ (\E d \in Dev : DeviceEnds(a, d))
    \/ Stops

Spec == Init /\ [][Next]_vars

(* Every process that can run is dispatched, and every command ends.       *)
Fairness ==
    /\ WF_vars(TestStep) /\ WF_vars(SsiServes)
    /\ \A a \in Asid :
          /\ WF_vars(SstStep(a)) /\ WF_vars(UprocStep(a))
          /\ \A d \in Dev : WF_vars(DeviceEnds(a, d))

FairSpec == Spec /\ Fairness
-----------------------------------------------------------------------------
Message == [from : Process \cup {SSI},
            what : (UNION {Request(a) : a \in Asid}) \cup {NULL, DONE, FAILED}]

SupportTypeOK ==
    /\ alive \subseteq Process
    /\ inbox \in [Process -> Seq(Message)]
    /\ \A i \in DOMAIN ssi_inbox : ssi_inbox[i].from \in Process
    /\ sst_pcbs \subseteq Asid /\ released \subseteq Asid
    /\ supportFree \in Seq(Asid) /\ supportOf \in [Asid -> 0..UPROCMAX]
    /\ \A a \in Asid : work[a].length \in Nat
    /\ heard \in 0..UPROCMAX
    /\ \A k \in Asid \X Dev : wanted[k] \in Nat /\ device[k].busy \in NOCHAR..wanted[k]

(* A device prints what its U-proc has asked for, each character once and  *)
(* in order, though a printer takes two requests for each; and when the    *)
(* U-proc is about to run on, all of it is out.                            *)
OutputAsAsked ==
    \A a \in Asid, d \in Dev :
        /\ printed[<<a, d>>] = [i \in 1..Len(printed[<<a, d>>]) |-> i]
        /\ Len(printed[<<a, d>>]) <= wanted[<<a, d>>]
        /\ At(Uproc(a), "start") => Len(printed[<<a, d>>]) = wanted[<<a, d>>]

(* test ends the system only when every SST has told it that it is through *)
(* with its work: nothing of a U-proc's requests is cut off.               *)
NobodyCutOff ==
    pc[TEST] \in {"termSelf", "ending"} =>
        \A a \in Asid :
            /\ a \in released
            /\ Sst(a) \in alive => pc[Sst(a)] \in {"termSelf", "ending"}

(* Whatever fails on a device, the machine halts when the U-procs have     *)
(* ended; unless one of them has ended by a trap.                          *)
MachineHalts == <>(Halted \/ \E a \in Asid : Stranded(a))
-----------------------------------------------------------------------------
(* What the code means to keep and does not.                               *)

(* When test takes back the frames of an ASID, its U-proc has ended.       *)
ReleasedIsDead == \A a \in released : Uproc(a) \notin alive

(* No structure is on the free list twice.                                 *)
SupportFreedOnce == IsInjective(supportFree)
=============================================================================
