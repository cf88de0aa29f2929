------------------------------- MODULE Pager --------------------------------
(***************************************************************************)
(* Virtual memory of phase 3: TLB refill, the pager (tlb_handler), the     *)
(* swap pool shared by all processes, the process that serves as its       *)
(* mutex, and mark_free_pages, by which test takes frames back without it. *)
(*                                                                         *)
(* Each ASID has two threads, a U-proc and the SST that serves it.  They   *)
(* share one support structure, so one page table and one saved state for  *)
(* page faults.  The pager runs with interrupts enabled: between any two   *)
(* of its steps any other thread may run.  A step is what the pager does   *)
(* between two accesses to shared state, or with interrupts disabled.      *)
(***************************************************************************)
EXTENDS Integers, Sequences, SequencesExt, FiniteSets

CONSTANTS
    Asid,             (* the ASIDs in use                                   *)
    Pages,            (* Pages[a]: the pages a's programs touch, numbered   *)
                      (* from the start of the program area                 *)
    TextSize,         (* TextSize[a]: pages of .text, from a's header       *)
    Val,              (* contents of a page; 0 is what the flash begins with*)
    PoolSize,         (* frames in the swap pool                            *)
    MaxPages,         (* entries of a page table                            *)
    ProgramLimit,     (* the last page number counted as a program page     *)
    StackTop,         (* the page at the top of the stack                   *)
    FirstStackBlock,  (* its block in the flash                             *)
    Liberty           (* {"flash"} if commands of the flash may fail (see   *)
                      (* FlashFails), {} if not                             *)

ASSUME PagerAssumption ==
    /\ Asid \subseteq Nat \ {0}
    /\ \A a \in Asid : Pages[a] \subseteq Nat /\ TextSize[a] \in Nat
    /\ 0 \in Val
    /\ PoolSize \in Nat \ {0} /\ MaxPages \in Nat \ {0}
    /\ ProgramLimit \in Nat /\ StackTop \in Nat /\ FirstStackBlock \in Nat
    /\ Liberty \subseteq {"flash"}

NOPROC == -1
NOPAGE == -1            (* pte_entryHI = 0                                  *)
UNKNOWN == -1           (* the greatest unsigned value                      *)

Frame == 0..(PoolSize - 1)
Slot == 1..MaxPages
Page == UNION {Pages[a] : a \in Asid}

Uproc(a) == <<"uproc", a>>
Sst(a) == <<"sst", a>>
Thread == {"uproc", "sst"} \X Asid
NoThread == <<"none", 0>>
AsidOf(t) == t[2]

(* pte_entryLO: a frame with the D bit, or 0.  A TLB entry can be absent.  *)
Invalid == [frame |-> -1, dirty |-> FALSE]
Absent == [frame |-> -2, dirty |-> FALSE]
EntryLo == [frame : Frame, dirty : BOOLEAN] \cup {Invalid}
Valid(lo) == lo.frame >= 0

(* Faulty variant: the stack is numbered from one block further down.      *)
FindPageOverlapping(page) ==
    IF page > ProgramLimit THEN FirstStackBlock - 1 + (StackTop - page) ELSE page

(* The block of a page.                                                    *)
find_page_by_entryhi(page) ==
    IF page > ProgramLimit THEN FirstStackBlock + (StackTop - page) ELSE page

Block == {find_page_by_entryhi(p) : p \in Page}
NoWork == [page |-> NOPAGE, frame |-> -1, asid |-> NOPROC]
-----------------------------------------------------------------------------
VARIABLES
    pc,               (* pc[t]: where thread t is                           *)
    loc,              (* loc[t]: missing_page, frame_i and the asid         *)
                      (* argument of read_write_flash, in t's pager         *)
    exceptState,      (* exceptState[a]: thread and page of the state saved *)
    pgTbl,            (* pgTbl[a][i]: hi and lo of an entry                 *)
    tlb,              (* tlb[<<a, p>>]: the entry for page p of a           *)
    swap_pool_table,  (* for each frame: asid, pageNo, and pte, the page    *)
                      (* table entry by its asid and slot                   *)
    frame_index,      (* the FIFO's last choice                             *)
    text_pages,
    ram,              (* contents of each frame                             *)
    flash,            (* flash[a][b]: contents of block b                   *)
    mutex_inbox,      (* messages to the mutex process, oldest first        *)
    holder,           (* the sender mutex_proc waits for                    *)
    replies,          (* threads that have an answer of the mutex to take   *)
    test_inbox,       (* SSTs that have told test they end                  *)
    mem               (* auxiliary, read by no action: mem[a][p] is what a's*)
                      (* programs stored last                               *)

swapVars == <<swap_pool_table, frame_index, text_pages>>
tableVars == <<pgTbl, tlb>>
storeVars == <<ram, flash, mem>>
mutexVars == <<mutex_inbox, holder, replies>>
vars == <<pc, loc, exceptState, tableVars, swapVars, storeVars, mutexVars,
          test_inbox>>

NoState == [thread |-> NoThread, page |-> NOPAGE]
NoPte == [asid |-> NOPROC, slot |-> 1]

(* text_pages[UPROCMAX] = { -1 } sets the first element; the rest are 0.   *)
Init ==
    /\ pc = [t \in Thread |-> IF t[1] = "uproc" THEN "run" ELSE "idle"]
    /\ loc = [t \in Thread |-> NoWork]
    /\ exceptState = [a \in Asid |-> NoState]
    /\ pgTbl = [a \in Asid |-> [i \in Slot |-> [hi |-> NOPAGE, lo |-> Invalid]]]
    /\ tlb = [k \in Asid \X Page |-> Absent]
    /\ swap_pool_table =
           [f \in Frame |-> [asid |-> NOPROC, pageNo |-> 0, pte |-> NoPte]]
    /\ frame_index = -1
    /\ text_pages = [a \in Asid |-> IF a = 1 THEN UNKNOWN ELSE 0]
    /\ ram = [f \in Frame |-> 0]
    /\ flash = [a \in Asid |-> [b \in Block |-> 0]]
    /\ mutex_inbox = <<>>
    /\ holder = NoThread
    /\ replies = {}
    /\ test_inbox = {}
    /\ mem = [a \in Asid |-> [p \in Pages[a] |-> 0]]

At(t, place) == pc[t] = place
Goes(t, place) == pc' = [pc EXCEPT ![t] = place]

(* A saved state that no thread is going to load is as good as none.       *)
Handling(t) == pc[t] \notin {"run", "idle", "receive", "dead"}
Forgets(a, leaving) ==
    exceptState' = IF \E t \in {Uproc(a), Sst(a)} \ leaving : Handling(t)
                   THEN exceptState
                   ELSE [exceptState EXCEPT ![a] = NoState]
-----------------------------------------------------------------------------
(* Programs.  A thread runs user code that touches pages of its ASID; the  *)
(* U-proc starts with an instruction in page 0.  A load that hits changes  *)
(* nothing.                                                                *)

MayTouch(t, p) ==
    /\ At(t, "run")
    /\ p \in Pages[AsidOf(t)]
    /\ p = 0 \/ \E i \in Slot : pgTbl[AsidOf(t)][i].hi = 0

TlbEntry(t, p) == tlb[<<AsidOf(t), p>>]

Store(t, p, v) ==
    /\ MayTouch(t, p)
    /\ Valid(TlbEntry(t, p)) /\ TlbEntry(t, p).dirty
    /\ ram' = [ram EXCEPT ![TlbEntry(t, p).frame] = v]
    /\ mem' = [mem EXCEPT ![AsidOf(t)][p] = v]
    /\ UNCHANGED <<pc, loc, exceptState, tableVars, swapVars, flash, mutexVars,
                   test_inbox>>

(* uTLB_RefillHandler: the entry of the page table, or 0 when there is     *)
(* none, goes to a random place of the TLB, where another may be lost.     *)
RefillLo(a, p) ==
    IF \E i \in Slot : pgTbl[a][i].hi = p
    THEN pgTbl[a][CHOOSE i \in Slot : pgTbl[a][i].hi = p].lo
    ELSE Invalid

uTLB_RefillHandler(t, p) ==
    /\ MayTouch(t, p)
    /\ TlbEntry(t, p) = Absent
    /\ \E lost \in Asid \X Page :
          tlb' = [tlb EXCEPT ![lost] = Absent,
                             ![<<AsidOf(t), p>>] = RefillLo(AsidOf(t), p)]
    /\ UNCHANGED <<pc, loc, exceptState, pgTbl, swapVars, storeVars, mutexVars,
                   test_inbox>>

(* pass_up_or_die(PGFAULTEXCEPT) saves the state in the support structure. *)
PassUp(t, p, place) ==
    /\ exceptState' = [exceptState EXCEPT ![AsidOf(t)] = [thread |-> t, page |-> p]]
    /\ Goes(t, place)
    /\ UNCHANGED <<loc, tableVars, swapVars, storeVars, mutexVars, test_inbox>>

PageFault(t, p) ==
    /\ MayTouch(t, p)
    /\ TlbEntry(t, p) = Invalid
    /\ PassUp(t, p, "fault")

(* TLB-Mod: a store to a page mapped without D is a program trap.          *)
StoreToText(t, p) ==
    /\ MayTouch(t, p)
    /\ Valid(TlbEntry(t, p)) /\ ~TlbEntry(t, p).dirty
    /\ PassUp(t, p, "trap")

(* Any other trap of a U-proc, or a failed write of an SST to its device.  *)
OtherTrap(t) ==
    /\ At(t, "run")
    /\ Goes(t, "trap")
    /\ UNCHANGED <<loc, exceptState, tableVars, swapVars, storeVars, mutexVars,
                   test_inbox>>
-----------------------------------------------------------------------------
(* Requests.  A U-proc sends a request and then receives the answer; the   *)
(* SST serves it with loads from the U-proc's pages.  Send and receive are *)
(* two system calls, and nothing keeps the SST from running between them   *)
(* (the comment in sst() tells what happens then).                         *)

UprocAsks(a) ==
    /\ At(Uproc(a), "run") /\ At(Sst(a), "idle")
    /\ Goes(Sst(a), "run")
    /\ UNCHANGED <<loc, exceptState, tableVars, swapVars, storeVars, mutexVars,
                   test_inbox>>

(* The answer is not there yet.                                            *)
UprocReceives(a) ==
    /\ At(Uproc(a), "run") /\ ~At(Sst(a), "idle")
    /\ Goes(Uproc(a), "receive")
    /\ UNCHANGED <<loc, exceptState, tableVars, swapVars, storeVars, mutexVars,
                   test_inbox>>

SstAnswers(a) ==
    /\ At(Sst(a), "run")
    /\ pc' = [pc EXCEPT ![Sst(a)] = "idle",
                        ![Uproc(a)] = IF @ = "receive" THEN "run" ELSE @]
    /\ UNCHANGED <<loc, exceptState, tableVars, swapVars, storeVars, mutexVars,
                   test_inbox>>

(* TERMINATE: p_term(child_pcb), then test is told.                        *)
SstTerminates(a) ==
    /\ At(Sst(a), "run")
    /\ pc' = [pc EXCEPT ![Sst(a)] = "tell", ![Uproc(a)] = "dead"]
    /\ replies' = replies \ {Uproc(a)}
    /\ UNCHANGED <<loc, exceptState, tableVars, swapVars, storeVars, mutex_inbox,
                   holder, test_inbox>>

(* Faulty variant: a trap leaves the mutex alone.                          *)
TrapKeepsMutex(t) ==
    /\ At(t, "trap")
    /\ Goes(t, "tell")
    /\ UNCHANGED <<loc, exceptState, tableVars, swapVars, storeVars, mutexVars,
                   test_inbox>>

(* trap_handler: V to the mutex, whether it is held or not; a message to   *)
(* the parent; p_term(SELF).                                               *)
TrapSendsV(t) ==
    /\ At(t, "trap")
    /\ mutex_inbox' = Append(mutex_inbox, [from |-> t, op |-> "V"])
    /\ Goes(t, "tell")
    /\ UNCHANGED <<loc, exceptState, tableVars, swapVars, storeVars, holder,
                   replies, test_inbox>>

TellsParent(t) ==
    /\ At(t, "tell")
    /\ test_inbox' = IF t[1] = "sst" THEN test_inbox \cup {AsidOf(t)} ELSE test_inbox
    /\ Goes(t, "dying")
    /\ UNCHANGED <<loc, exceptState, tableVars, swapVars, storeVars, mutexVars>>

(* An SST takes its U-proc with it.                                        *)
Dies(t) ==
    /\ At(t, "dying")
    /\ LET gone == IF t[1] = "sst" THEN {t, Uproc(AsidOf(t))} ELSE {t} IN
       /\ pc' = [u \in Thread |-> IF u \in gone THEN "dead" ELSE pc[u]]
       /\ loc' = [u \in Thread |-> IF u \in gone THEN NoWork ELSE loc[u]]
       /\ replies' = replies \ gone
       /\ Forgets(AsidOf(t), gone)
    /\ UNCHANGED <<tableVars, swapVars, storeVars, mutex_inbox, holder, test_inbox>>

(* Faulty variant: the loop stops before the last frame.                   *)
mark_free_pages_short(a) ==
    /\ a \in test_inbox
    /\ test_inbox' = test_inbox \ {a}
    /\ swap_pool_table' =
           [f \in Frame |-> IF swap_pool_table[f].asid = a /\ f < PoolSize - 1
                            THEN [swap_pool_table[f] EXCEPT !.asid = NOPROC]
                            ELSE swap_pool_table[f]]
    /\ UNCHANGED <<pc, loc, exceptState, tableVars, frame_index, text_pages,
                   storeVars, mutexVars>>

(* mark_free_pages, with interrupts disabled but without the mutex: a      *)
(* pager may have chosen a frame of a as its victim and not yet read       *)
(* sw_asid for the write.                                                  *)
mark_free_pages(a) ==
    /\ a \in test_inbox
    /\ test_inbox' = test_inbox \ {a}
    /\ swap_pool_table' =
           [f \in Frame |-> IF swap_pool_table[f].asid = a
                            THEN [swap_pool_table[f] EXCEPT !.asid = NOPROC]
                            ELSE swap_pool_table[f]]
    /\ UNCHANGED <<pc, loc, exceptState, tableVars, frame_index, text_pages,
                   storeVars, mutexVars>>
-----------------------------------------------------------------------------
(* mutex_proc                                                              *)

Live(t) == pc[t] # "dead"
Answered(t) == IF Live(t) THEN replies \cup {t} ELSE replies

(* Faulty variant: the next P is taken before the V of the last.           *)
MutexTakesEarly ==
    /\ mutex_inbox # <<>>
    /\ LET m == Head(mutex_inbox) IN
       IF m.op = "P"
       THEN holder' = m.from /\ replies' = Answered(m.from)
       ELSE UNCHANGED <<holder, replies>>
    /\ mutex_inbox' = Tail(mutex_inbox)
    /\ UNCHANGED <<pc, loc, exceptState, tableVars, swapVars, storeVars, test_inbox>>

(* A V that comes while nobody holds the mutex is skipped.                 *)
MutexTakes ==
    /\ holder = NoThread /\ mutex_inbox # <<>>
    /\ LET m == Head(mutex_inbox) IN
       IF m.op = "P"
       THEN holder' = m.from /\ replies' = Answered(m.from)
       ELSE UNCHANGED <<holder, replies>>
    /\ mutex_inbox' = Tail(mutex_inbox)
    /\ UNCHANGED <<pc, loc, exceptState, tableVars, swapVars, storeVars, test_inbox>>

(* While it is held, only messages of the holder are received; it sends    *)
(* nothing but the V.                                                      *)
MutexReleases ==
    /\ holder # NoThread
    /\ \E i \in DOMAIN mutex_inbox :
          /\ mutex_inbox[i] = [from |-> holder, op |-> "V"]
          /\ \A j \in 1..(i - 1) : mutex_inbox[j].from # holder
          /\ mutex_inbox' = RemoveAt(mutex_inbox, i)
    /\ holder' = NoThread
    /\ replies' = Answered(holder)
    /\ UNCHANGED <<pc, loc, exceptState, tableVars, swapVars, storeVars, test_inbox>>
-----------------------------------------------------------------------------
(* tlb_handler                                                             *)

AsksMutex(t) ==
    /\ At(t, "fault")
    /\ mutex_inbox' = Append(mutex_inbox, [from |-> t, op |-> "P"])
    /\ Goes(t, "waitP")
    /\ UNCHANGED <<loc, exceptState, tableVars, swapVars, storeVars, holder,
                   replies, test_inbox>>

Enters(t) ==
    /\ At(t, "waitP") /\ t \in replies
    /\ replies' = replies \ {t}
    /\ loc' = [loc EXCEPT ![t] =
                  [page |-> find_page_by_entryhi(exceptState[AsidOf(t)].page),
                   frame |-> 0, asid |-> NOPROC]]
    /\ Goes(t, "scan")
    /\ UNCHANGED <<exceptState, tableVars, swapVars, storeVars, mutex_inbox,
                   holder, test_inbox>>

isFrameFree(f) == swap_pool_table[f].asid = NOPROC

(* Faulty variant: the index is not taken modulo the size of the pool.     *)
NextFrameUnwrapped == frame_index + 1

NextFrame == (frame_index + 1) % PoolSize

(* getFrameIndex looks at one frame after the other, and takes the next of *)
(* the FIFO when none was free.                                            *)
getFrameIndex(t) ==
    /\ At(t, "scan")
    /\ LET i == loc[t].frame IN
          \/ /\ isFrameFree(i)
             /\ Goes(t, "check")
             /\ UNCHANGED <<loc, frame_index>>
          \/ /\ ~isFrameFree(i) /\ i + 1 < PoolSize
             /\ loc' = [loc EXCEPT ![t].frame = i + 1]
             /\ UNCHANGED <<pc, frame_index>>
          \/ /\ ~isFrameFree(i) /\ i + 1 = PoolSize
             /\ loc' = [loc EXCEPT ![t].frame = NextFrame]
             /\ frame_index' = NextFrame
             /\ Goes(t, "check")
    /\ UNCHANGED <<exceptState, tableVars, swap_pool_table, text_pages, storeVars,
                   mutexVars, test_inbox>>

ChecksFrame(t) ==
    /\ At(t, "check")
    /\ Goes(t, IF isFrameFree(loc[t].frame) THEN "readIn" ELSE "invalidate")
    /\ UNCHANGED <<loc, exceptState, tableVars, swapVars, storeVars, mutexVars,
                   test_inbox>>

(* An entry of the TLB that is present gets the new value (TLBP, TLBWI).   *)
update_tlb(a, p, lo) == tlb' = [tlb EXCEPT ![<<a, p>>] = IF @ = Absent THEN @ ELSE lo]

Victim(t) == swap_pool_table[loc[t].frame]
VictimEntry(t) == pgTbl[Victim(t).pte.asid][Victim(t).pte.slot]

(* Faulty variant: update_tlb is forgotten.                                *)
InvalidatesTableOnly(t) ==
    /\ At(t, "invalidate")
    /\ pgTbl' = [pgTbl EXCEPT ![Victim(t).pte.asid][Victim(t).pte.slot].lo = Invalid]
    /\ Goes(t, IF VictimEntry(t).lo.dirty THEN "writeBack" ELSE "readIn")
    /\ UNCHANGED <<loc, exceptState, tlb, swapVars, storeVars, mutexVars, test_inbox>>

(* Page table and TLB lose the page together: interrupts are disabled.     *)
Invalidates(t) ==
    /\ At(t, "invalidate")
    /\ pgTbl' = [pgTbl EXCEPT ![Victim(t).pte.asid][Victim(t).pte.slot].lo = Invalid]
    /\ update_tlb(Victim(t).pte.asid, VictimEntry(t).hi, Invalid)
    /\ Goes(t, IF VictimEntry(t).lo.dirty THEN "writeBack" ELSE "readIn")
    /\ UNCHANGED <<loc, exceptState, swapVars, storeVars, mutexVars, test_inbox>>

(* Faulty variant: the page is written to the flash of the faulting ASID.  *)
WritesBackToOwn(t) ==
    /\ At(t, "writeBack")
    /\ loc' = [loc EXCEPT ![t].asid = AsidOf(t)]
    /\ Goes(t, "writing")
    /\ UNCHANGED <<exceptState, tableVars, swapVars, storeVars, mutexVars, test_inbox>>

(* The arguments of read_write_flash are read from the swap pool table     *)
(* after interrupts have been enabled again.                               *)
WritesBack(t) ==
    /\ At(t, "writeBack")
    /\ loc' = [loc EXCEPT ![t].asid = Victim(t).asid]
    /\ Goes(t, "writing")
    /\ UNCHANGED <<exceptState, tableVars, swapVars, storeVars, mutexVars, test_inbox>>

(* There is no flash for NOPROC: the write is for a device that the        *)
(* machine does not have, and its end is waited for in vain.               *)
Astray(t) == At(t, "writing") /\ loc[t].asid = NOPROC
WaitsInVain == (\E t \in Thread : Astray(t)) /\ UNCHANGED vars

(* The device ends a WRITEBLK.                                             *)
FlashWrites(t) ==
    /\ At(t, "writing") /\ ~Astray(t)
    /\ flash' = [flash EXCEPT ![loc[t].asid][Victim(t).pageNo] = ram[loc[t].frame]]
    /\ Goes(t, "readIn")
    /\ UNCHANGED <<loc, exceptState, tableVars, swapVars, ram, mem, mutexVars,
                   test_inbox>>

(* READBLK, from command to completion.                                    *)
FlashReads(t) ==
    /\ At(t, "readIn")
    /\ ram' = [ram EXCEPT ![loc[t].frame] = flash[AsidOf(t)][loc[t].page]]
    /\ Goes(t, "settle")
    /\ UNCHANGED <<loc, exceptState, tableVars, swapVars, flash, mem, mutexVars,
                   test_inbox>>

(* A command that fails is a trap, with the mutex held and the swap pool   *)
(* table as it is.                                                         *)
FlashFails(t) ==
    /\ "flash" \in Liberty
    /\ ~Astray(t)
    /\ At(t, "writing") \/ At(t, "readIn")
    /\ Goes(t, "trap")
    /\ UNCHANGED <<loc, exceptState, tableVars, swapVars, storeVars, mutexVars,
                   test_inbox>>

(* seek_entryhi_index_on_pagetable: the first entry free or for the page.  *)
Usable(a, p) == {i \in Slot : pgTbl[a][i].hi \in {NOPAGE, p}}
SlotFor(a, p) == CHOOSE i \in Usable(a, p) : \A j \in Usable(a, p) : i <= j
FaultPage(t) == exceptState[AsidOf(t)].page

TextPagesAfter(t) ==
    IF loc[t].page = 0 /\ text_pages[AsidOf(t)] = UNKNOWN
    THEN [text_pages EXCEPT ![AsidOf(t)] = TextSize[AsidOf(t)]]
    ELSE text_pages

(* Faulty variant: the entry of the swap pool keeps its page number.       *)
SettlesAsidOnly(t) ==
    /\ At(t, "settle")
    /\ text_pages' = TextPagesAfter(t)
    /\ swap_pool_table' = [swap_pool_table EXCEPT
           ![loc[t].frame].asid = AsidOf(t),
           ![loc[t].frame].pte = [asid |-> AsidOf(t),
                                  slot |-> SlotFor(AsidOf(t), FaultPage(t))]]
    /\ Goes(t, "map")
    /\ UNCHANGED <<loc, exceptState, tableVars, frame_index, storeVars, mutexVars,
                   test_inbox>>

(* With no entry left in the page table it is a trap, mutex held.          *)
Settles(t) ==
    /\ At(t, "settle")
    /\ text_pages' = TextPagesAfter(t)
    /\ \/ /\ Usable(AsidOf(t), FaultPage(t)) = {}
          /\ Goes(t, "trap")
          /\ UNCHANGED swap_pool_table
       \/ /\ Usable(AsidOf(t), FaultPage(t)) # {}
          /\ swap_pool_table' = [swap_pool_table EXCEPT
                 ![loc[t].frame] =
                     [asid |-> AsidOf(t), pageNo |-> loc[t].page,
                      pte |-> [asid |-> AsidOf(t),
                               slot |-> SlotFor(AsidOf(t), FaultPage(t))]]]
          /\ Goes(t, "map")
    /\ UNCHANGED <<loc, exceptState, tableVars, frame_index, storeVars, mutexVars,
                   test_inbox>>

need_dirty(a, block) == text_pages[a] # UNKNOWN /\ text_pages[a] <= block

Maps(t) ==
    /\ At(t, "map")
    /\ LET lo == [frame |-> loc[t].frame,
                  dirty |-> need_dirty(AsidOf(t), loc[t].page)]
       IN /\ pgTbl' = [pgTbl EXCEPT ![AsidOf(t)][Victim(t).pte.slot] =
                          [hi |-> FaultPage(t), lo |-> lo]]
          /\ update_tlb(AsidOf(t), FaultPage(t), lo)
    /\ Goes(t, "release")
    /\ UNCHANGED <<loc, exceptState, swapVars, storeVars, mutexVars, test_inbox>>

Releases(t) ==
    /\ At(t, "release")
    /\ mutex_inbox' = Append(mutex_inbox, [from |-> t, op |-> "V"])
    /\ loc' = [loc EXCEPT ![t] = NoWork]
    /\ Goes(t, "waitV")
    /\ UNCHANGED <<exceptState, tableVars, swapVars, storeVars, holder, replies,
                   test_inbox>>

(* LDST of the saved state.  When the other thread of a has saved its own  *)
(* there in the meantime, t goes on in the other's place; what it does     *)
(* there is what programs of a do.                                         *)
Resumes(t) ==
    /\ At(t, "waitV") /\ t \in replies
    /\ replies' = replies \ {t}
    /\ Goes(t, "run")
    /\ Forgets(AsidOf(t), {t})
    /\ UNCHANGED <<loc, tableVars, swapVars, storeVars, mutex_inbox, holder,
                   test_inbox>>

PagerStep(t) ==
    \/ AsksMutex(t) \/ Enters(t) \/ getFrameIndex(t) \/ ChecksFrame(t)
    \/ Invalidates(t) \/ WritesBack(t) \/ FlashWrites(t) \/ FlashReads(t)
    \/ FlashFails(t) \/ Settles(t) \/ Maps(t) \/ Releases(t) \/ Resumes(t)
-----------------------------------------------------------------------------
Program(t) ==
    \/ \E p \in Page : \/ uTLB_RefillHandler(t, p) \/ PageFault(t, p)
                       \/ StoreToText(t, p)
                       \/ \E v \in Val : Store(t, p, v)
    \/ OtherTrap(t)

Ending(t) == TrapSendsV(t) \/ TellsParent(t) \/ Dies(t)

Serving(a) ==
    UprocAsks(a) \/ UprocReceives(a) \/ SstAnswers(a) \/ SstTerminates(a)

AllEnded == \A t \in Thread : pc[t] \in {"dead", "idle"}
Ended == AllEnded /\ test_inbox = {} /\ mutex_inbox = <<>> /\ UNCHANGED vars

Next ==
    \/ \E t \in Thread : Program(t) \/ PagerStep(t) \/ Ending(t)
    \/ \E a \in Asid : Serving(a) \/ mark_free_pages(a)
    \/ MutexTakes \/ MutexReleases
    \/ Ended \/ WaitsInVain

Spec == Init /\ [][Next]_vars

(* A timing that nothing in the code enforces: the SST and its U-proc take *)
(* turns.  While one of them is in the pager or on its way to its end, the *)
(* other waits for a message.                                              *)
InTurn ==
    \A a \in Asid : \A t, u \in {Uproc(a), Sst(a)} :
        t # u /\ Handling(t) => pc[u] \in {"idle", "receive", "dead"}

TurnSpec == Init /\ [][Next /\ InTurn']_vars

(* Every process that is ready runs again and again, and a device ends the *)
(* commands it gets.  Nothing is assumed of what programs choose to do.    *)
FairTurnSpec ==
    /\ TurnSpec
    /\ \A t \in Thread : WF_vars(PagerStep(t) \/ Ending(t))
    /\ WF_vars(\E a \in Asid : mark_free_pages(a))
    /\ WF_vars(MutexTakes \/ MutexReleases)
-----------------------------------------------------------------------------
Inside == {"scan", "check", "invalidate", "writeBack", "writing", "readIn",
           "settle", "map", "release"}
Place == Inside \cup {"run", "idle", "receive", "fault", "waitP", "waitV",
                      "trap", "tell", "dying", "dead"}

PagerTypeOK ==
    /\ pc \in [Thread -> Place]
    /\ loc \in [Thread -> [page : Block \cup {NOPAGE}, frame : Frame \cup {-1},
                           asid : Asid \cup {NOPROC}]]
    /\ exceptState \in [Asid -> [thread : Thread \cup {NoThread},
                                 page : Page \cup {NOPAGE}]]
    /\ pgTbl \in [Asid -> [Slot -> [hi : Page \cup {NOPAGE}, lo : EntryLo]]]
    /\ tlb \in [Asid \X Page -> EntryLo \cup {Absent}]
    /\ swap_pool_table \in
           [Frame -> [asid : Asid \cup {NOPROC}, pageNo : Block \cup {0},
                      pte : [asid : Asid \cup {NOPROC}, slot : Slot]]]
    /\ frame_index \in Frame \cup {-1}
    /\ text_pages \in [Asid -> Nat \cup {UNKNOWN}]
    /\ ram \in [Frame -> Val]
    /\ flash \in [Asid -> [Block -> Val]]
    /\ mutex_inbox \in Seq([from : Thread, op : {"P", "V"}])
    /\ holder \in Thread \cup {NoThread}
    /\ replies \subseteq Thread
    /\ test_inbox \subseteq Asid

(* At most one pager works on the swap pool, whatever stray V's the traps  *)
(* of other processes send to the mutex process, and whichever of an SST   *)
(* and its U-proc runs when.                                               *)
MutualExclusion ==
    \A t, u \in Thread : pc[t] \in Inside /\ pc[u] \in Inside => t = u

(* A thread of a is in its program or in the pager.                        *)
StillRuns(a) ==
    \E t \in {Uproc(a), Sst(a)} : pc[t] \in Inside \cup {"run", "fault", "waitP", "waitV"}

(* The next properties hold when the SST and its U-proc take turns: they   *)
(* are checked and proved of the behaviours in which InTurn is always      *)
(* true, and not without.                                                  *)

(* A frame that a running process sees is recorded in the swap pool as     *)
(* that page of that process; so no frame is seen by two, and evicting it  *)
(* invalidates the right entry.                                            *)
SwapExact ==
    \A a \in Asid, i \in Slot :
        LET e == pgTbl[a][i] IN
        StillRuns(a) /\ Valid(e.lo) =>
            /\ swap_pool_table[e.lo.frame].asid = a
            /\ swap_pool_table[e.lo.frame].pageNo = find_page_by_entryhi(e.hi)
            /\ swap_pool_table[e.lo.frame].pte = [asid |-> a, slot |-> i]

(* What the TLB holds of a page is what the page table says of it: between *)
(* a pager's steps no program can use a translation that has been revoked. *)
TlbCoherent ==
    \A a \in Asid : \A p \in Pages[a] : tlb[<<a, p>>] \in {Absent, RefillLo(a, p)}

(* A page of a process that still runs is written back to its own flash:   *)
(* a write goes astray only after mark_free_pages took the frame of a      *)
(* process that has ended, and never to the flash of a third.              *)
WrittenToOwner ==
    \A t \in Thread :
        pc[t] = "writing" =>
            \/ loc[t].asid = Victim(t).pte.asid
            \/ Astray(t) /\ ~StillRuns(Victim(t).pte.asid)

(* Paging is invisible: wherever page p of a is now (in a frame, on its    *)
(* way out, or in the flash), it holds what a's programs stored last.      *)
Contents(a, p) ==
    LET out == {t \in Thread : /\ pc[t] \in {"writeBack", "writing"}
                               /\ Victim(t).pte.asid = a
                               /\ VictimEntry(t).hi = p}
    IN CASE Valid(tlb[<<a, p>>]) -> ram[tlb[<<a, p>>].frame]
         [] ~Valid(tlb[<<a, p>>]) /\ Valid(RefillLo(a, p)) -> ram[RefillLo(a, p).frame]
         [] ~Valid(tlb[<<a, p>>]) /\ ~Valid(RefillLo(a, p)) /\ out # {} ->
                ram[loc[CHOOSE t \in out : TRUE].frame]
         [] OTHER -> flash[a][find_page_by_entryhi(p)]

SeesLastStore ==
    \A a \in Asid : StillRuns(a) => \A p \in Pages[a] : Contents(a, p) = mem[a][p]

(* A process that asks for the mutex gets it, and goes on with its page or *)
(* dies because its page table is full; the others are not kept waiting by *)
(* one that has died with the mutex, only by one whose write has gone      *)
(* astray.                                                                 *)
FaultServed ==
    \A t \in Thread :
        pc[t] = "waitP" ~> \/ pc[t] \in {"run", "dead"}
                           \/ \E u \in Thread : Astray(u)

(* The frames of a process that has ended all come back, and none of them  *)
(* is ever claimed for it again.                                           *)
FramesReturned ==
    \A a \in Asid :
        a \in test_inbox ~> [](\A f \in Frame : swap_pool_table[f].asid # a)
-----------------------------------------------------------------------------
(* What comments in the code say and some behaviours can break.            *)

(* What is written back goes to the flash of the process whose page it is  *)
(* ("Write the contents of the frame i to the correct location on process  *)
(* x's backing store/flash device").                                       *)
FlashTarget ==
    \A t \in Thread : pc[t] = "writing" => loc[t].asid = Victim(t).pte.asid

(* The state a pager loads at its end is the one of the thread that        *)
(* faulted, though the SST and the U-proc share the place it is kept in    *)
(* (the comment in sst() reports that it is not).                          *)
ResumesItself ==
    \A t \in Thread :
        pc[t] \in Inside \cup {"fault", "waitP", "waitV"} =>
            exceptState[AsidOf(t)].thread = t

(* A frame about to be emptied is the one in which its page is seen, if    *)
(* the page is seen at all; so what is written back is the page's contents *)
(* ("Write the contents of the frame i to the correct location").          *)
EvictsOwnFrame ==
    \A t \in Thread :
        pc[t] = "invalidate" /\ Valid(VictimEntry(t).lo) =>
            VictimEntry(t).lo.frame = loc[t].frame

(* No page of .text is ever mapped writable once it is known how many      *)
(* there are ("We save the number of pages used by the text area in order  *)
(* to check if a page needs to be dirty").                                 *)
TextProtected ==
    \A a \in Asid, i \in Slot :
        LET e == pgTbl[a][i] IN
        Valid(e.lo) /\ find_page_by_entryhi(e.hi) < TextSize[a] => ~e.lo.dirty
=============================================================================
