---------------------------- MODULE PagerProofs -----------------------------
(***************************************************************************)
(* Proofs about Pager for every number of processes, pages and frames.     *)
(* First types, mutual exclusion and the state a pager resumes; then what  *)
(* the swap pool, the page tables, the TLB, the frames and the flash say   *)
(* of each other, which rests on SwapPoolExclusive: what one pager does,   *)
(* no other disturbs.                                                      *)
(***************************************************************************)
EXTENDS Pager, DataLemmas

LEMMA ThreadFacts ==
    ASSUME NEW t \in Thread
    PROVE  /\ AsidOf(t) \in Asid /\ t # NoThread
           /\ \/ t[1] = "uproc" /\ t = Uproc(AsidOf(t))
              \/ t[1] = "sst" /\ t = Sst(AsidOf(t))
BY DEF Thread, AsidOf, Uproc, Sst, NoThread

LEMMA AsidFacts ==
    ASSUME NEW a \in Asid
    PROVE  /\ Uproc(a) \in Thread /\ AsidOf(Uproc(a)) = a /\ Uproc(a)[1] = "uproc"
           /\ Sst(a) \in Thread /\ AsidOf(Sst(a)) = a /\ Sst(a)[1] = "sst"
           /\ Uproc(a) # Sst(a)
BY DEF Thread, AsidOf, Uproc, Sst

LEMMA PageFacts ==
    ASSUME NEW a \in Asid, NEW p \in Pages[a]
    PROVE  p \in Page /\ p \in Nat /\ p # NOPAGE /\ find_page_by_entryhi(p) \in Block
<1>1. p \in Page
  BY DEF Page
<1>2. p \in Nat
  BY PagerAssumption
<1> QED BY <1>1, <1>2 DEF NOPAGE, Block

LEMMA FrameFacts == 0 \in Frame /\ Frame \subseteq Nat /\ -1 \notin Frame /\ -2 \notin Frame
BY PagerAssumption DEF Frame
-----------------------------------------------------------------------------
(* Types.  What the pager of t works on is a page of t, though another     *)
(* thread may have overwritten the state it was taken from, and a frame.   *)

InPager(t) == pc[t] \in Inside \cup {"fault", "waitP", "waitV"}

Faulting == \A t \in Thread : InPager(t) => FaultPage(t) \in Pages[AsidOf(t)]

Working == \A t \in Thread :
    pc[t] \in Inside => loc[t].page \in Block /\ loc[t].frame \in Frame

TypeInv == PagerTypeOK /\ Faulting /\ Working

(* What update_tlb and the EXCEPTs keep is a table of the same type.       *)
LEMMA SlotForFacts ==
    ASSUME NEW a \in Asid, NEW p, Usable(a, p) # {}
    PROVE  /\ SlotFor(a, p) \in Slot /\ pgTbl[a][SlotFor(a, p)].hi \in {NOPAGE, p}
           /\ \A j \in Usable(a, p) : SlotFor(a, p) <= j
<1>1. Usable(a, p) \in SUBSET Nat
  BY PagerAssumption DEF Usable, Slot
<1>2. SlotFor(a, p) \in Usable(a, p) /\ \A j \in Usable(a, p) : SlotFor(a, p) <= j
  BY <1>1, LeastNumber DEF SlotFor
<1> QED BY <1>2 DEF Usable

LEMMA RefillLoType ==
    ASSUME PagerTypeOK, NEW a \in Asid, NEW p
    PROVE  RefillLo(a, p) \in EntryLo
BY DEF PagerTypeOK, RefillLo, EntryLo

LEMMA UpdateTlbType ==
    ASSUME PagerTypeOK, NEW a, NEW p, NEW lo \in EntryLo, update_tlb(a, p, lo)
    PROVE  tlb' \in [Asid \X Page -> EntryLo \cup {Absent}]
BY DEF PagerTypeOK, update_tlb

LEMMA NextFrameType == PagerTypeOK => NextFrame \in Frame
BY PagerAssumption DEF PagerTypeOK, NextFrame, Frame

LEMMA TypeInit == Init => TypeInv
<1> SUFFICES ASSUME Init PROVE TypeInv
  OBVIOUS
<1>1. PagerTypeOK
  <2>1. mutex_inbox \in Seq([from : Thread, op : {"P", "V"}])
    BY EmptySeq DEF Init
  <2>2. /\ 0 \in Val /\ \A a \in Asid : TextSize[a] \in Nat
        /\ 1 \in Slot
    BY PagerAssumption DEF Slot
  <2>3. pc \in [Thread -> Place] /\ holder \in Thread \cup {NoThread}
        /\ replies \subseteq Thread /\ test_inbox \subseteq Asid
    BY DEF Init, Place
  <2>4. /\ loc \in [Thread -> [page : Block \cup {NOPAGE}, frame : Frame \cup {-1},
                               asid : Asid \cup {NOPROC}]]
        /\ exceptState \in [Asid -> [thread : Thread \cup {NoThread},
                                     page : Page \cup {NOPAGE}]]
    BY DEF Init, NoWork, NoState
  <2>5. /\ pgTbl \in [Asid -> [Slot -> [hi : Page \cup {NOPAGE}, lo : EntryLo]]]
        /\ tlb \in [Asid \X Page -> EntryLo \cup {Absent}]
    BY DEF Init, EntryLo
  <2>6. /\ swap_pool_table \in
               [Frame -> [asid : Asid \cup {NOPROC}, pageNo : Block \cup {0},
                          pte : [asid : Asid \cup {NOPROC}, slot : Slot]]]
        /\ frame_index \in Frame \cup {-1}
        /\ text_pages \in [Asid -> Nat \cup {UNKNOWN}]
    BY <2>2 DEF Init, NoPte, UNKNOWN
  <2>7. ram \in [Frame -> Val] /\ flash \in [Asid -> [Block -> Val]]
    BY <2>2 DEF Init
  <2> QED BY <2>1, <2>3, <2>4, <2>5, <2>6, <2>7 DEF PagerTypeOK
<1>2. \A t \in Thread : pc[t] \in {"run", "idle"}
  BY DEF Init
<1> QED BY <1>1, <1>2 DEF TypeInv, Faulting, Working, InPager, Inside

(* Steps after which no thread is in the pager that was not there before,  *)
(* and no pager's state or work has changed.                               *)
LEMMA NoNewWork ==
    ASSUME TypeInv,
           \A t \in Thread : pc'[t] = pc[t] \/ ~ (InPager(t)'),
           \A t \in Thread : InPager(t)' => FaultPage(t)' = FaultPage(t),
           \A t \in Thread : pc'[t] \in Inside => loc'[t] = loc[t]
    PROVE  Faulting' /\ Working'
<1>1. ASSUME NEW t \in Thread, InPager(t)'  PROVE FaultPage(t)' \in Pages[AsidOf(t)]
  <2>1. pc'[t] = pc[t] /\ InPager(t)
    BY <1>1 DEF InPager
  <2> QED BY <1>1, <2>1 DEF TypeInv, Faulting
<1>2. ASSUME NEW t \in Thread, pc'[t] \in Inside
      PROVE  loc'[t].page \in Block /\ loc'[t].frame \in Frame
  <2>1. pc'[t] = pc[t]
    BY <1>2 DEF InPager
  <2> QED BY <1>2, <2>1 DEF TypeInv, Working
<1> QED BY <1>1, <1>2 DEF Faulting, Working

LEMMA TypeProgram ==
    ASSUME TypeInv, NEW t \in Thread, Program(t)
    PROVE  TypeInv'
<1> USE DEF TypeInv
<1>1. ASSUME NEW p \in Page, NEW v \in Val, Store(t, p, v)  PROVE TypeInv'
  <2>1. UNCHANGED <<pc, loc, exceptState, tableVars, swapVars, flash, mutexVars, test_inbox>>
    BY <1>1 DEF Store
  <2>2. ram' \in [Frame -> Val]
    BY <1>1 DEF Store, PagerTypeOK
  <2>3. PagerTypeOK'
    BY <2>1, <2>2 DEF PagerTypeOK, tableVars, swapVars, mutexVars
  <2>4. Faulting' /\ Working'
    BY <2>1, NoNewWork DEF InPager, FaultPage
  <2> QED BY <2>3, <2>4
<1>2. ASSUME NEW p \in Page, uTLB_RefillHandler(t, p)  PROVE TypeInv'
  <2>1. UNCHANGED <<pc, loc, exceptState, pgTbl, swapVars, storeVars, mutexVars, test_inbox>>
    BY <1>2 DEF uTLB_RefillHandler
  <2>2. tlb' \in [Asid \X Page -> EntryLo \cup {Absent}]
    <3>1. RefillLo(AsidOf(t), p) \in EntryLo
      BY ThreadFacts, RefillLoType
    <3>2. tlb \in [Asid \X Page -> EntryLo \cup {Absent}]
      BY DEF PagerTypeOK
    <3> QED BY <1>2, <3>1, <3>2 DEF uTLB_RefillHandler
  <2>3. PagerTypeOK'
    BY <2>1, <2>2 DEF PagerTypeOK, swapVars, mutexVars, storeVars
  <2>4. Faulting' /\ Working'
    BY <2>1, NoNewWork DEF InPager, FaultPage
  <2> QED BY <2>3, <2>4
<1>3. ASSUME NEW p \in Page, NEW place \in {"fault", "trap"}, MayTouch(t, p),
             PassUp(t, p, place)
      PROVE  TypeInv'
  <2>1. /\ UNCHANGED <<loc, tableVars, swapVars, storeVars, mutexVars, test_inbox>>
        /\ exceptState' = [exceptState EXCEPT ![AsidOf(t)] = [thread |-> t, page |-> p]]
        /\ pc' = [pc EXCEPT ![t] = place]
        /\ p \in Pages[AsidOf(t)]
    BY <1>3 DEF PassUp, Goes, MayTouch
  <2>2. AsidOf(t) \in Asid
    BY ThreadFacts
  <2>3. PagerTypeOK'
    <3>1. pc' \in [Thread -> Place]
      BY <2>1 DEF PagerTypeOK, Place
    <3>2. exceptState' \in [Asid -> [thread : Thread \cup {NoThread},
                                     page : Page \cup {NOPAGE}]]
      BY <2>1, <2>2 DEF PagerTypeOK
    <3> QED BY <2>1, <3>1, <3>2 DEF PagerTypeOK, tableVars, swapVars, mutexVars, storeVars
  <2>4. Faulting'
    <3>1. ASSUME NEW u \in Thread, InPager(u)'
          PROVE  FaultPage(u)' \in Pages[AsidOf(u)]
      <4>1. AsidOf(u) \in Asid
        BY ThreadFacts
      <4>2. CASE AsidOf(u) = AsidOf(t)
        BY <2>1, <2>2, <4>2 DEF PagerTypeOK, FaultPage
      <4>3. CASE AsidOf(u) # AsidOf(t)
        BY <2>1, <2>2, <3>1, <4>1, <4>3 DEF PagerTypeOK, FaultPage, InPager, Faulting
      <4> QED BY <4>2, <4>3
    <3> QED BY <3>1 DEF Faulting
  <2>5. Working'
    BY <2>1 DEF Working, PagerTypeOK, Inside
  <2> QED BY <2>3, <2>4, <2>5
<1>4. ASSUME OtherTrap(t)  PROVE TypeInv'
  <2>1. /\ UNCHANGED <<loc, exceptState, tableVars, swapVars, storeVars, mutexVars, test_inbox>>
        /\ pc' = [pc EXCEPT ![t] = "trap"]
    BY <1>4 DEF OtherTrap, Goes
  <2>2. pc' \in [Thread -> Place]
    BY <2>1 DEF PagerTypeOK, Place
  <2>3. PagerTypeOK'
    BY <2>1, <2>2 DEF PagerTypeOK, tableVars, swapVars, mutexVars, storeVars
  <2>4. Faulting' /\ Working'
    BY <2>1, NoNewWork DEF InPager, FaultPage, PagerTypeOK, Inside
  <2> QED BY <2>3, <2>4
<1> QED BY <1>1, <1>2, <1>3, <1>4 DEF Program, PageFault, StoreToText

LEMMA TypeServing ==
    ASSUME TypeInv, NEW a \in Asid, Serving(a) \/ mark_free_pages(a)
    PROVE  TypeInv'
<1> USE DEF TypeInv
<1>1. ASSUME Serving(a)  PROVE TypeInv'
  <2>1. /\ UNCHANGED <<loc, exceptState, tableVars, swapVars, storeVars, mutex_inbox, holder,
                       test_inbox>>
        /\ replies' \subseteq replies
    BY <1>1 DEF Serving, UprocAsks, UprocReceives, SstAnswers, SstTerminates, mutexVars
  <2>2. /\ pc' \in [Thread -> Place]
        /\ \A t \in Thread : pc'[t] = pc[t] \/ ~ (InPager(t)')
    <3>1. PICK x \in {"run", "receive", "dead", pc[Uproc(a)]},
               y \in {"run", "idle", "tell", pc[Sst(a)]} :
             pc' = [pc EXCEPT ![Uproc(a)] = x, ![Sst(a)] = y]
      <4>1. /\ pc \in [Thread -> Place] /\ Uproc(a) # Sst(a)
            /\ Uproc(a) \in Thread /\ Sst(a) \in Thread
        BY AsidFacts DEF PagerTypeOK
      <4>2. CASE UprocAsks(a) \/ UprocReceives(a)
        BY <4>1, <4>2 DEF UprocAsks, UprocReceives, Goes
      <4>3. CASE SstAnswers(a)
        <5> DEFINE z == IF pc[Uproc(a)] = "receive" THEN "run" ELSE pc[Uproc(a)]
        <5>1. pc' = [pc EXCEPT ![Sst(a)] = "idle", ![Uproc(a)] = z]
          BY <4>1, <4>3 DEF SstAnswers
        <5>2. pc' = [pc EXCEPT ![Uproc(a)] = z, ![Sst(a)] = "idle"]
          BY <4>1, <5>1
        <5> QED BY <5>2
      <4>4. CASE SstTerminates(a)
        <5>1. pc' = [pc EXCEPT ![Uproc(a)] = "dead", ![Sst(a)] = "tell"]
          BY <4>1, <4>4 DEF SstTerminates
        <5> QED BY <5>1
      <4> QED BY <1>1, <4>2, <4>3, <4>4 DEF Serving
    <3>2. pc \in [Thread -> Place] /\ Uproc(a) \in Thread
      BY AsidFacts DEF PagerTypeOK
    <3> QED BY <3>1, <3>2 DEF Place, InPager, Inside
  <2>3. PagerTypeOK'
    BY <2>1, <2>2 DEF PagerTypeOK, tableVars, swapVars, storeVars
  <2>4. Faulting' /\ Working'
    BY <2>1, <2>2, NoNewWork DEF FaultPage
  <2> QED BY <2>3, <2>4
<1>2. ASSUME mark_free_pages(a)  PROVE TypeInv'
  <2>1. UNCHANGED <<pc, loc, exceptState, tableVars, frame_index, text_pages, storeVars, mutexVars>>
    BY <1>2 DEF mark_free_pages
  <2>2. swap_pool_table' \in
           [Frame -> [asid : Asid \cup {NOPROC}, pageNo : Block \cup {0},
                      pte : [asid : Asid \cup {NOPROC}, slot : Slot]]]
    <3>1. swap_pool_table' =
             [f \in Frame |-> IF swap_pool_table[f].asid = a
                              THEN [swap_pool_table[f] EXCEPT !.asid = NOPROC]
                              ELSE swap_pool_table[f]]
      BY <1>2 DEF mark_free_pages
    <3>2. ASSUME NEW f \in Frame
          PROVE  [swap_pool_table[f] EXCEPT !.asid = NOPROC] \in
                     [asid : Asid \cup {NOPROC}, pageNo : Block \cup {0},
                      pte : [asid : Asid \cup {NOPROC}, slot : Slot]]
      <4>1. swap_pool_table[f] \in [asid : Asid \cup {NOPROC}, pageNo : Block \cup {0},
                                    pte : [asid : Asid \cup {NOPROC}, slot : Slot]]
        BY DEF PagerTypeOK
      <4> QED BY <4>1
    <3> QED BY <3>1, <3>2 DEF PagerTypeOK
  <2>3. test_inbox' \subseteq Asid
    BY <1>2 DEF mark_free_pages, PagerTypeOK
  <2>4. PagerTypeOK'
    BY <2>1, <2>2, <2>3 DEF PagerTypeOK, tableVars, storeVars, mutexVars
  <2>5. Faulting' /\ Working'
    BY <2>1, NoNewWork DEF InPager, FaultPage
  <2> QED BY <2>4, <2>5
<1> QED BY <1>1, <1>2

(* Forgets(a, leaving) keeps the state of threads that stay in the pager.  *)
LEMMA ForgetsFacts ==
    ASSUME PagerTypeOK, NEW a \in Asid, NEW leaving, Forgets(a, leaving)
    PROVE  /\ exceptState' \in [Asid -> [thread : Thread \cup {NoThread},
                                         page : Page \cup {NOPAGE}]]
           /\ \A t \in Thread : t \notin leaving /\ InPager(t) =>
                 exceptState'[AsidOf(t)] = exceptState[AsidOf(t)]
<1>1. exceptState' = exceptState \/ exceptState' = [exceptState EXCEPT ![a] = NoState]
  BY DEF Forgets
<1>2. exceptState' \in [Asid -> [thread : Thread \cup {NoThread}, page : Page \cup {NOPAGE}]]
  BY <1>1 DEF PagerTypeOK, NoState
<1>3. ASSUME NEW t \in Thread, t \notin leaving, InPager(t)
      PROVE  exceptState'[AsidOf(t)] = exceptState[AsidOf(t)]
  <2>1. CASE AsidOf(t) = a
    <3>1. t \in {Uproc(a), Sst(a)} \ leaving /\ Handling(t)
      BY <1>3, <2>1, ThreadFacts DEF Handling, InPager, Inside
    <3> QED BY <3>1 DEF Forgets
  <2>2. CASE AsidOf(t) # a
    BY <1>1, <2>2, ThreadFacts DEF PagerTypeOK
  <2> QED BY <2>1, <2>2
<1> QED BY <1>2, <1>3

LEMMA TypeEnding ==
    ASSUME TypeInv, NEW t \in Thread, Ending(t)
    PROVE  TypeInv'
<1> USE DEF TypeInv
<1>1. ASSUME TrapSendsV(t)  PROVE TypeInv'
  <2>1. /\ UNCHANGED <<loc, exceptState, tableVars, swapVars, storeVars, holder, replies,
                       test_inbox>>
        /\ pc' = [pc EXCEPT ![t] = "tell"]
        /\ mutex_inbox' = Append(mutex_inbox, [from |-> t, op |-> "V"])
    BY <1>1 DEF TrapSendsV, Goes
  <2>2. mutex_inbox' \in Seq([from : Thread, op : {"P", "V"}])
    BY <2>1 DEF PagerTypeOK
  <2>3. PagerTypeOK'
    BY <2>1, <2>2 DEF PagerTypeOK, tableVars, swapVars, storeVars, Place
  <2>4. Faulting' /\ Working'
    BY <2>1, NoNewWork DEF InPager, FaultPage, PagerTypeOK, Inside
  <2> QED BY <2>3, <2>4
<1>2. ASSUME TellsParent(t)  PROVE TypeInv'
  <2>1. /\ UNCHANGED <<loc, exceptState, tableVars, swapVars, storeVars, mutexVars>>
        /\ pc' = [pc EXCEPT ![t] = "dying"]
        /\ test_inbox' \subseteq Asid
    BY <1>2, ThreadFacts DEF TellsParent, Goes, PagerTypeOK
  <2>2. PagerTypeOK'
    BY <2>1 DEF PagerTypeOK, tableVars, swapVars, storeVars, mutexVars, Place
  <2>3. Faulting' /\ Working'
    BY <2>1, NoNewWork DEF InPager, FaultPage, PagerTypeOK, Inside
  <2> QED BY <2>2, <2>3
<1>3. ASSUME Dies(t)  PROVE TypeInv'
  <2> DEFINE gone == IF t[1] = "sst" THEN {t, Uproc(AsidOf(t))} ELSE {t}
  <2>1. /\ pc' = [u \in Thread |-> IF u \in gone THEN "dead" ELSE pc[u]]
        /\ loc' = [u \in Thread |-> IF u \in gone THEN NoWork ELSE loc[u]]
        /\ replies' = replies \ gone
        /\ Forgets(AsidOf(t), gone)
        /\ UNCHANGED <<tableVars, swapVars, storeVars, mutex_inbox, holder, test_inbox>>
    BY <1>3 DEF Dies
  <2> HIDE DEF gone
  <2>2. /\ exceptState' \in [Asid -> [thread : Thread \cup {NoThread},
                                      page : Page \cup {NOPAGE}]]
        /\ \A u \in Thread : u \notin gone /\ InPager(u) =>
              exceptState'[AsidOf(u)] = exceptState[AsidOf(u)]
    BY <2>1, ThreadFacts, ForgetsFacts
  <2>3. pc' \in [Thread -> Place] /\ replies' \subseteq Thread
    BY <2>1 DEF PagerTypeOK, Place
  <2>4. loc' \in [Thread -> [page : Block \cup {NOPAGE}, frame : Frame \cup {-1},
                             asid : Asid \cup {NOPROC}]]
    BY <2>1 DEF PagerTypeOK, NoWork
  <2>5. PagerTypeOK'
    BY <2>1, <2>2, <2>3, <2>4 DEF PagerTypeOK, tableVars, swapVars, storeVars
  <2>6. ASSUME NEW u \in Thread, InPager(u)'
        PROVE  u \notin gone /\ pc'[u] = pc[u] /\ InPager(u)
    BY <2>1, <2>6 DEF InPager, Inside
  <2>7. Faulting'
    BY <2>2, <2>6 DEF Faulting, FaultPage
  <2>8. Working'
    BY <2>1, <2>6 DEF Working, InPager
  <2> QED BY <2>5, <2>7, <2>8
<1> QED BY <1>1, <1>2, <1>3 DEF Ending

LEMMA TypeMutex ==
    ASSUME TypeInv, MutexTakes \/ MutexReleases
    PROVE  TypeInv'
<1> USE DEF TypeInv
<1>1. UNCHANGED <<pc, loc, exceptState, tableVars, swapVars, storeVars, test_inbox>>
  BY DEF MutexTakes, MutexReleases
<1>2. mutex_inbox \in Seq([from : Thread, op : {"P", "V"}]) /\ holder \in Thread \cup {NoThread}
  BY DEF PagerTypeOK
<1>3. /\ mutex_inbox' \in Seq([from : Thread, op : {"P", "V"}])
      /\ holder' \in Thread \cup {NoThread}
      /\ replies' \subseteq Thread
  <2>1. CASE MutexTakes
    <3>1. Head(mutex_inbox) \in [from : Thread, op : {"P", "V"}]
      BY <1>2, <2>1, HeadTailProperties DEF MutexTakes
    <3>2. mutex_inbox' \in Seq([from : Thread, op : {"P", "V"}])
      BY <1>2, <2>1, HeadTailProperties DEF MutexTakes
    <3> QED BY <1>2, <2>1, <3>1, <3>2 DEF MutexTakes, Answered, PagerTypeOK
  <2>2. CASE MutexReleases
    <3>1. mutex_inbox' \in Seq([from : Thread, op : {"P", "V"}])
      BY <1>2, <2>2, RemoveAtType DEF MutexReleases
    <3> QED BY <1>2, <2>2, <3>1 DEF MutexReleases, Answered, PagerTypeOK
  <2> QED BY <2>1, <2>2
<1>4. PagerTypeOK'
  BY <1>1, <1>3 DEF PagerTypeOK, tableVars, swapVars, storeVars
<1>5. Faulting' /\ Working'
  BY <1>1, NoNewWork DEF InPager, FaultPage
<1> QED BY <1>4, <1>5

LEMMA TypePagerStep ==
    ASSUME TypeInv, NEW t \in Thread, PagerStep(t)
    PROVE  TypeInv'
<1> USE DEF TypeInv
<1> DEFINE Work == [page : Block \cup {NOPAGE}, frame : Frame \cup {-1},
                    asid : Asid \cup {NOPROC}]
           Entry == [asid : Asid \cup {NOPROC}, pageNo : Block \cup {0},
                     pte : [asid : Asid \cup {NOPROC}, slot : Slot]]
<1>1. /\ pc \in [Thread -> Place] /\ loc \in [Thread -> Work] /\ loc[t] \in Work
      /\ AsidOf(t) \in Asid
  BY ThreadFacts DEF PagerTypeOK
<1>2. ASSUME pc' \in [Thread -> Place], loc' \in [Thread -> Work],
             UNCHANGED <<exceptState, tableVars, swap_pool_table, text_pages, storeVars, test_inbox>>,
             frame_index' \in Frame \cup {-1}, holder' = holder, replies' \subseteq replies,
             mutex_inbox' \in Seq([from : Thread, op : {"P", "V"}])
      PROVE  PagerTypeOK'
  BY <1>2 DEF PagerTypeOK, tableVars, storeVars
<1>3. ASSUME NEW place, pc' = [pc EXCEPT ![t] = place], exceptState' = exceptState,
             loc' = loc, place \in Inside => pc[t] \in Inside, InPager(t)
      PROVE  Faulting' /\ Working'
  BY <1>1, <1>3 DEF Faulting, Working, InPager, FaultPage
<1>4. ASSUME AsksMutex(t)  PROVE TypeInv'
  <2>1. /\ mutex_inbox' = Append(mutex_inbox, [from |-> t, op |-> "P"])
        /\ pc' = [pc EXCEPT ![t] = "waitP"] /\ InPager(t)
        /\ UNCHANGED <<loc, exceptState, tableVars, swapVars, storeVars, holder, replies,
                       test_inbox>>
    BY <1>4 DEF AsksMutex, Goes, At, InPager
  <2>2. mutex_inbox' \in Seq([from : Thread, op : {"P", "V"}])
    BY <2>1 DEF PagerTypeOK
  <2>3. PagerTypeOK'
    BY <1>1, <1>2, <2>1, <2>2 DEF swapVars, PagerTypeOK, Place
  <2> QED BY <1>3, <2>1, <2>3 DEF Inside
<1>5. ASSUME Enters(t)  PROVE TypeInv'
  <2> DEFINE w == [page |-> find_page_by_entryhi(exceptState[AsidOf(t)].page), frame |-> 0,
                   asid |-> NOPROC]
  <2>1. /\ loc' = [loc EXCEPT ![t] = w]
        /\ pc' = [pc EXCEPT ![t] = "scan"] /\ InPager(t) /\ replies' = replies \ {t}
        /\ UNCHANGED <<exceptState, tableVars, swapVars, storeVars, mutex_inbox, holder,
                       test_inbox>>
    BY <1>5 DEF Enters, Goes, At, InPager
  <2>2. w.page \in Block /\ w.frame \in Frame /\ w \in Work
    <3>1. find_page_by_entryhi(FaultPage(t)) \in Block
      BY <2>1, <1>1, PageFacts DEF Faulting
    <3> QED BY <3>1, FrameFacts DEF FaultPage
  <2> HIDE DEF w
  <2>3. PagerTypeOK'
    BY <1>1, <1>2, <2>1, <2>2 DEF swapVars, PagerTypeOK, Place, Inside
  <2>4. Faulting' /\ Working'
    BY <1>1, <2>1, <2>2 DEF Faulting, Working, InPager, FaultPage
  <2> QED BY <2>3, <2>4
<1>6. ASSUME getFrameIndex(t)  PROVE TypeInv'
  <2> DEFINE i == loc[t].frame
  <2>1. /\ i \in Frame /\ loc[t].page \in Block /\ NextFrame \in Frame
        /\ UNCHANGED <<exceptState, tableVars, swap_pool_table, text_pages, storeVars,
                       mutexVars, test_inbox>>
    BY <1>6, NextFrameType DEF getFrameIndex, At, Working, Inside
  <2>2. PICK f \in Frame, place \in {"scan", "check"} :
           /\ loc' = [loc EXCEPT ![t] = [loc[t] EXCEPT !.frame = f]]
           /\ pc' = [pc EXCEPT ![t] = place]
           /\ frame_index' \in Frame \cup {-1}
    <3>1. frame_index \in Frame \cup {-1}
      BY DEF PagerTypeOK
    <3>2. CASE isFrameFree(i)
      <4>1. /\ loc' = [loc EXCEPT ![t] = [loc[t] EXCEPT !.frame = i]]
            /\ pc' = [pc EXCEPT ![t] = "check"]
            /\ frame_index' = frame_index
        BY <1>1, <1>6, <3>2 DEF getFrameIndex, Goes
      <4> QED BY <2>1, <3>1, <4>1
    <3>3. CASE ~ isFrameFree(i) /\ i + 1 < PoolSize
      <4>1. /\ loc' = [loc EXCEPT ![t] = [loc[t] EXCEPT !.frame = i + 1]]
            /\ pc' = [pc EXCEPT ![t] = "scan"]
            /\ frame_index' = frame_index
        <5>1. ~ (i + 1 = PoolSize)
          BY <3>3, <2>1, PagerAssumption DEF Frame
        <5> QED BY <1>1, <1>6, <3>3, <5>1 DEF getFrameIndex, Goes, At
      <4>2. i + 1 \in Frame
        BY <2>1, <3>3, PagerAssumption DEF Frame
      <4> QED BY <3>1, <4>1, <4>2
    <3>4. CASE ~ isFrameFree(i) /\ i + 1 = PoolSize
      <4>1. /\ loc' = [loc EXCEPT ![t] = [loc[t] EXCEPT !.frame = NextFrame]]
            /\ pc' = [pc EXCEPT ![t] = "check"]
            /\ frame_index' = NextFrame
        <5>1. ~ (i + 1 < PoolSize)
          BY <3>4, <2>1, PagerAssumption DEF Frame
        <5> QED BY <1>1, <1>6, <3>4, <5>1 DEF getFrameIndex, Goes
      <4> QED BY <2>1, <4>1
    <3> QED BY <1>6, <3>2, <3>3, <3>4 DEF getFrameIndex
  <2>3. [loc[t] EXCEPT !.frame = f] = [page |-> loc[t].page, frame |-> f, asid |-> loc[t].asid]
    BY <1>1
  <2>4. PagerTypeOK'
    BY <1>1, <1>2, <2>1, <2>2, <2>3 DEF mutexVars, PagerTypeOK, Place, Inside
  <2>5. Faulting' /\ Working'
    BY <1>1, <1>6, <2>1, <2>2, <2>3
       DEF Faulting, Working, InPager, FaultPage, Inside, getFrameIndex, At
  <2> QED BY <2>4, <2>5
<1>7. ASSUME ChecksFrame(t) \/ FlashFails(t)  PROVE TypeInv'
  <2>1. PICK place \in {"readIn", "invalidate", "trap"} : pc' = [pc EXCEPT ![t] = place]
    BY <1>7 DEF ChecksFrame, FlashFails, Goes
  <2>2. /\ pc[t] \in Inside /\ InPager(t)
        /\ UNCHANGED <<loc, exceptState, tableVars, swapVars, storeVars, mutexVars, test_inbox>>
    BY <1>7 DEF ChecksFrame, FlashFails, At, Inside, InPager
  <2>3. PagerTypeOK'
    BY <1>1, <1>2, <2>1, <2>2 DEF swapVars, mutexVars, PagerTypeOK, Place, Inside
  <2> QED BY <1>3, <2>1, <2>2, <2>3
<1>8. ASSUME Invalidates(t)  PROVE TypeInv'
  <2> DEFINE v == Victim(t).pte.asid
             n == Victim(t).pte.slot
             hi == VictimEntry(t).hi
  <2>1. PICK place \in {"writeBack", "readIn"} : pc' = [pc EXCEPT ![t] = place]
    BY <1>8 DEF Invalidates, Goes
  <2>2. /\ pc[t] \in Inside /\ InPager(t)
        /\ pgTbl' = [pgTbl EXCEPT ![v][n].lo = Invalid]
        /\ update_tlb(v, hi, Invalid)
        /\ UNCHANGED <<loc, exceptState, swapVars, storeVars, mutexVars, test_inbox>>
    BY <1>8 DEF Invalidates, At, Inside, InPager
  <2> HIDE DEF v, n, hi
  <2>3. tlb' \in [Asid \X Page -> EntryLo \cup {Absent}]
    BY <2>2, UpdateTlbType DEF EntryLo
  <2>4. pgTbl' \in [Asid -> [Slot -> [hi : Page \cup {NOPAGE}, lo : EntryLo]]]
    <3>1. pgTbl \in [Asid -> [Slot -> [hi : Page \cup {NOPAGE}, lo : EntryLo]]] /\ Invalid \in EntryLo
      BY DEF PagerTypeOK, EntryLo
    <3>2. CASE v \notin Asid
      <4>1. pgTbl' = pgTbl
        BY <2>2, <3>1, <3>2
      <4> QED BY <3>1, <4>1
    <3>3. CASE v \in Asid
      <4>1. [pgTbl[v] EXCEPT ![n].lo = Invalid] \in [Slot -> [hi : Page \cup {NOPAGE}, lo : EntryLo]]
        <5>1. pgTbl[v] \in [Slot -> [hi : Page \cup {NOPAGE}, lo : EntryLo]]
          BY <3>1, <3>3
        <5>2. n \in Slot => [pgTbl[v][n] EXCEPT !.lo = Invalid] \in [hi : Page \cup {NOPAGE}, lo : EntryLo]
          <6> SUFFICES ASSUME n \in Slot
                       PROVE  [pgTbl[v][n] EXCEPT !.lo = Invalid]
                                  \in [hi : Page \cup {NOPAGE}, lo : EntryLo]
            OBVIOUS
          <6>1. pgTbl[v][n] \in [hi : Page \cup {NOPAGE}, lo : EntryLo]
            BY <5>1
          <6> QED BY <3>1, <6>1
        <5>3. [pgTbl[v] EXCEPT ![n].lo = Invalid]
                 = [pgTbl[v] EXCEPT ![n] = [pgTbl[v][n] EXCEPT !.lo = Invalid]]
          OBVIOUS
        <5> QED BY <5>1, <5>2, <5>3
      <4>2. pgTbl' = [pgTbl EXCEPT ![v] = [pgTbl[v] EXCEPT ![n].lo = Invalid]]
        BY <2>2
      <4> QED BY <3>1, <4>1, <4>2
    <3> QED BY <3>2, <3>3
  <2>5. pc' \in [Thread -> Place]
    BY <1>1, <2>1 DEF Place, Inside
  <2>6. PagerTypeOK'
    BY <2>2, <2>3, <2>4, <2>5 DEF PagerTypeOK, swapVars, storeVars, mutexVars
  <2> QED BY <1>3, <2>1, <2>2, <2>6 DEF Inside
<1>9. ASSUME WritesBack(t)  PROVE TypeInv'
  <2>1. /\ pc[t] \in Inside /\ InPager(t) /\ pc' = [pc EXCEPT ![t] = "writing"]
        /\ loc' = [loc EXCEPT ![t] = [loc[t] EXCEPT !.asid = Victim(t).asid]]
        /\ UNCHANGED <<exceptState, tableVars, swapVars, storeVars, mutexVars, test_inbox>>
    BY <1>9 DEF WritesBack, At, Inside, InPager, Goes
  <2>2. loc[t].frame \in Frame /\ loc[t].page \in Block
    BY <2>1 DEF Working
  <2>3. Victim(t).asid \in Asid \cup {NOPROC}
    BY <2>2 DEF Victim, PagerTypeOK
  <2>4. [loc[t] EXCEPT !.asid = Victim(t).asid]
           = [page |-> loc[t].page, frame |-> loc[t].frame, asid |-> Victim(t).asid]
    BY <1>1
  <2>5. PagerTypeOK'
    BY <1>1, <1>2, <2>1, <2>2, <2>3, <2>4 DEF swapVars, mutexVars, PagerTypeOK, Place, Inside
  <2>6. Faulting' /\ Working'
    BY <1>1, <2>1, <2>2, <2>4 DEF Faulting, Working, InPager, FaultPage, Inside
  <2> QED BY <2>5, <2>6
<1>10. ASSUME FlashWrites(t) \/ FlashReads(t)  PROVE TypeInv'
  <2>1. PICK place \in {"readIn", "settle"} : pc' = [pc EXCEPT ![t] = place]
    BY <1>10 DEF FlashWrites, FlashReads, Goes
  <2>2. /\ pc[t] \in Inside /\ InPager(t)
        /\ UNCHANGED <<loc, exceptState, tableVars, swapVars, mutexVars, test_inbox>>
    BY <1>10 DEF FlashWrites, FlashReads, At, Inside, InPager
  <2>3. loc[t].frame \in Frame /\ loc[t].page \in Block
    BY <2>2 DEF Working
  <2>4. ram' \in [Frame -> Val] /\ flash' \in [Asid -> [Block -> Val]]
    <3>1. ram \in [Frame -> Val] /\ flash \in [Asid -> [Block -> Val]]
      BY DEF PagerTypeOK
    <3>2. CASE FlashWrites(t)
      <4>1. ram[loc[t].frame] \in Val
        BY <2>3, <3>1
      <4> QED BY <3>1, <3>2, <4>1 DEF FlashWrites
    <3>3. CASE FlashReads(t)
      <4>1. flash[AsidOf(t)][loc[t].page] \in Val
        BY <1>1, <2>3, <3>1
      <4> QED BY <3>1, <3>3, <4>1 DEF FlashReads
    <3> QED BY <1>10, <3>2, <3>3
  <2>5. pc' \in [Thread -> Place]
    BY <1>1, <2>1 DEF Place, Inside
  <2>6. PagerTypeOK'
    BY <2>2, <2>4, <2>5 DEF PagerTypeOK, tableVars, swapVars, mutexVars
  <2> QED BY <1>3, <2>1, <2>2, <2>6 DEF Inside
<1>11. ASSUME Settles(t)  PROVE TypeInv'
  <2>1. PICK place \in {"map", "trap"} : pc' = [pc EXCEPT ![t] = place]
    BY <1>11 DEF Settles, Goes
  <2>2. /\ pc[t] \in Inside /\ InPager(t)
        /\ text_pages' = TextPagesAfter(t)
        /\ UNCHANGED <<loc, exceptState, tableVars, frame_index, storeVars, mutexVars, test_inbox>>
    BY <1>11 DEF Settles, At, Inside, InPager
  <2>3. loc[t].frame \in Frame /\ loc[t].page \in Block
    BY <2>2 DEF Working
  <2>4. text_pages' \in [Asid -> Nat \cup {UNKNOWN}]
    <3>1. TextSize[AsidOf(t)] \in Nat
      BY <1>1, PagerAssumption
    <3> QED BY <2>2, <3>1 DEF PagerTypeOK, TextPagesAfter
  <2>5. swap_pool_table' \in [Frame -> Entry]
    <3>1. CASE Usable(AsidOf(t), FaultPage(t)) # {}
      <4> DEFINE e == [asid |-> AsidOf(t), pageNo |-> loc[t].page,
                       pte |-> [asid |-> AsidOf(t),
                                slot |-> SlotFor(AsidOf(t), FaultPage(t))]]
      <4>1. SlotFor(AsidOf(t), FaultPage(t)) \in Slot
        BY <1>1, <3>1, SlotForFacts
      <4>2. e \in Entry
        BY <1>1, <2>3, <4>1
      <4>3. swap_pool_table' = [swap_pool_table EXCEPT ![loc[t].frame] = e]
        BY <1>11, <3>1 DEF Settles
      <4> HIDE DEF e
      <4> QED BY <4>2, <4>3 DEF PagerTypeOK
    <3>2. CASE Usable(AsidOf(t), FaultPage(t)) = {}
      BY <1>11, <3>2 DEF Settles, PagerTypeOK
    <3> QED BY <3>1, <3>2
  <2>6. pc' \in [Thread -> Place]
    BY <1>1, <2>1 DEF Place, Inside
  <2>7. PagerTypeOK'
    BY <2>2, <2>4, <2>5, <2>6 DEF PagerTypeOK, tableVars, storeVars, mutexVars
  <2> QED BY <1>3, <2>1, <2>2, <2>7 DEF Inside
<1>12. ASSUME Maps(t)  PROVE TypeInv'
  <2> DEFINE lo == [frame |-> loc[t].frame, dirty |-> need_dirty(AsidOf(t), loc[t].page)]
             e == [hi |-> FaultPage(t), lo |-> lo]
  <2>1. /\ pc[t] \in Inside /\ InPager(t) /\ pc' = [pc EXCEPT ![t] = "release"]
        /\ pgTbl' = [pgTbl EXCEPT ![AsidOf(t)][Victim(t).pte.slot] = e]
        /\ update_tlb(AsidOf(t), FaultPage(t), lo)
        /\ UNCHANGED <<loc, exceptState, swapVars, storeVars, mutexVars, test_inbox>>
    BY <1>12 DEF Maps, At, Inside, InPager, Goes
  <2>2. lo \in EntryLo
    <3>1. loc[t].frame \in Frame
      BY <2>1 DEF Working
    <3>2. need_dirty(AsidOf(t), loc[t].page) \in BOOLEAN
      BY DEF need_dirty
    <3> QED BY <3>1, <3>2 DEF EntryLo
  <2>3. FaultPage(t) \in Page
    BY <1>1, <2>1, PageFacts DEF Faulting
  <2> HIDE DEF lo
  <2>4. tlb' \in [Asid \X Page -> EntryLo \cup {Absent}]
    BY <2>1, <2>2, UpdateTlbType
  <2>5. pgTbl' \in [Asid -> [Slot -> [hi : Page \cup {NOPAGE}, lo : EntryLo]]]
    <3>1. /\ pgTbl \in [Asid -> [Slot -> [hi : Page \cup {NOPAGE}, lo : EntryLo]]]
          /\ e \in [hi : Page \cup {NOPAGE}, lo : EntryLo]
      BY <2>2, <2>3 DEF PagerTypeOK
    <3> HIDE DEF e
    <3> QED BY <2>1, <3>1
  <2>6. pc' \in [Thread -> Place]
    BY <1>1, <2>1 DEF Place, Inside
  <2>7. PagerTypeOK'
    BY <2>1, <2>4, <2>5, <2>6 DEF PagerTypeOK, swapVars, storeVars, mutexVars
  <2> QED BY <1>3, <2>1, <2>7 DEF Inside
<1>13. ASSUME Releases(t)  PROVE TypeInv'
  <2>1. /\ InPager(t) /\ pc' = [pc EXCEPT ![t] = "waitV"]
        /\ mutex_inbox' = Append(mutex_inbox, [from |-> t, op |-> "V"])
        /\ loc' = [loc EXCEPT ![t] = NoWork]
        /\ UNCHANGED <<exceptState, tableVars, swapVars, storeVars, holder, replies, test_inbox>>
    BY <1>13 DEF Releases, At, Inside, InPager, Goes
  <2>2. mutex_inbox' \in Seq([from : Thread, op : {"P", "V"}])
    BY <2>1 DEF PagerTypeOK
  <2>3. PagerTypeOK'
    BY <1>1, <1>2, <2>1, <2>2 DEF swapVars, PagerTypeOK, Place, NoWork
  <2>4. Faulting' /\ Working'
    BY <1>1, <2>1 DEF Faulting, Working, InPager, FaultPage, Inside
  <2> QED BY <2>3, <2>4
<1>14. ASSUME Resumes(t)  PROVE TypeInv'
  <2>1. /\ pc' = [pc EXCEPT ![t] = "run"] /\ replies' = replies \ {t}
        /\ Forgets(AsidOf(t), {t})
        /\ UNCHANGED <<loc, tableVars, swapVars, storeVars, mutex_inbox, holder, test_inbox>>
    BY <1>14 DEF Resumes, Goes
  <2>2. /\ exceptState' \in [Asid -> [thread : Thread \cup {NoThread},
                                      page : Page \cup {NOPAGE}]]
        /\ \A u \in Thread : u # t /\ InPager(u) =>
              exceptState'[AsidOf(u)] = exceptState[AsidOf(u)]
    BY <1>1, <2>1, ForgetsFacts
  <2>3. PagerTypeOK'
    BY <1>1, <2>1, <2>2 DEF PagerTypeOK, tableVars, swapVars, storeVars, Place
  <2>4. ASSUME NEW u \in Thread, InPager(u)'  PROVE u # t /\ pc'[u] = pc[u] /\ InPager(u)
    BY <1>1, <2>1, <2>4 DEF InPager, Inside
  <2>5. Faulting' /\ Working'
    BY <2>1, <2>2, <2>4 DEF Faulting, Working, FaultPage, InPager
  <2> QED BY <2>3, <2>5
<1> QED BY <1>4, <1>5, <1>6, <1>7, <1>8, <1>9, <1>10, <1>11, <1>12, <1>13, <1>14 DEF PagerStep

LEMMA TypeStep == TypeInv /\ [Next]_vars => TypeInv'
<1> SUFFICES ASSUME TypeInv, [Next]_vars PROVE TypeInv'
  OBVIOUS
<1>1. CASE UNCHANGED vars
  <2>1. /\ UNCHANGED <<pc, loc, exceptState, tableVars, swapVars, storeVars, mutexVars,
                       test_inbox>>
    BY <1>1 DEF vars
  <2>2. PagerTypeOK'
    BY <2>1 DEF TypeInv, PagerTypeOK, tableVars, swapVars, storeVars, mutexVars
  <2> QED BY <2>1, <2>2, NoNewWork DEF TypeInv, InPager, FaultPage
<1> QED BY <1>1, TypeProgram, TypePagerStep, TypeEnding, TypeServing, TypeMutex
        DEF Next, Ended, WaitsInVain

(* Type correctness: pages, blocks, slots of a page table and frames stay  *)
(* in their ranges, whatever the programs touch and the pagers choose.     *)
THEOREM PagerTypeInvariance == Spec => []PagerTypeOK
<1>1. TypeInv => PagerTypeOK
  BY DEF TypeInv
<1> QED BY <1>1, TypeInit, TypeStep, PTL DEF Spec
-----------------------------------------------------------------------------
(* Mutual exclusion.  mutex_proc keeps no record of who may be inside: it  *)
(* relies on every thread having one message in its inbox at most, so that *)
(* the V it waits for is that of the last P, and a thread that traps never *)
(* asks again.                                                             *)

Sent(t, op) == [from |-> t, op |-> op] \in ToSet(mutex_inbox)
Quiet(t) == ~ Sent(t, "P") /\ ~ Sent(t, "V")

OneMessage ==
    /\ Once(mutex_inbox)
    /\ \A t \in Thread : ~ (Sent(t, "P") /\ Sent(t, "V"))

MutexAt(t) ==
    /\ pc[t] \in {"run", "idle", "receive", "fault"} =>
          Quiet(t) /\ holder # t /\ t \notin replies
    /\ pc[t] = "trap" => Quiet(t)
    /\ pc[t] = "waitP" =>
          ~ Sent(t, "V") /\ (t \in replies <=> holder = t) /\ (t \in replies => Quiet(t))
    /\ pc[t] \in Inside => Quiet(t) /\ holder = t /\ t \notin replies
    /\ pc[t] = "waitV" =>
          ~ Sent(t, "P") /\ (t \in replies => holder # t /\ Quiet(t))

MutexInv == TypeInv /\ OneMessage /\ \A t \in Thread : MutexAt(t)

LEMMA MutexInit == Init => MutexInv
<1> SUFFICES ASSUME Init PROVE MutexInv
  OBVIOUS
<1>1. mutex_inbox = <<>> /\ holder = NoThread /\ replies = {}
  BY DEF Init
<1>2. ToSet(mutex_inbox) = {} /\ Once(mutex_inbox)
  BY <1>1 DEF ToSet, Once
<1>3. ASSUME NEW t \in Thread  PROVE MutexAt(t)
  <2>1. pc[t] \in {"run", "idle"} /\ t # NoThread
    BY ThreadFacts DEF Init
  <2> QED BY <1>1, <1>2, <2>1 DEF MutexAt, Quiet, Sent, Inside
<1> QED BY <1>2, <1>3, TypeInit DEF MutexInv, OneMessage, Sent

(* The three ways in which a message is sent or taken.                     *)
LEMMA Sends ==
    ASSUME MutexInv, NEW t \in Thread, NEW op \in {"P", "V"}, Quiet(t),
           mutex_inbox' = Append(mutex_inbox, [from |-> t, op |-> op])
    PROVE  /\ OneMessage'
           /\ \A u \in Thread : \A o \in {"P", "V"} :
                 Sent(u, o)' <=> Sent(u, o) \/ (u = t /\ o = op)
<1>1. mutex_inbox \in Seq([from : Thread, op : {"P", "V"}])
  BY DEF MutexInv, TypeInv, PagerTypeOK
<1>2. [from |-> t, op |-> op] \notin ToSet(mutex_inbox)
  BY DEF Quiet, Sent
<1>3. /\ ToSet(mutex_inbox') = ToSet(mutex_inbox) \cup {[from |-> t, op |-> op]}
      /\ Once(mutex_inbox')
  <2>1. [from |-> t, op |-> op] \in [from : Thread, op : {"P", "V"}]
    OBVIOUS
  <2>2. Once(mutex_inbox)
    BY DEF MutexInv, OneMessage
  <2> DEFINE S == [from : Thread, op : {"P", "V"}]
             e == [from |-> t, op |-> op]
  <2>3. mutex_inbox \in Seq(S) /\ e \in S /\ e \notin ToSet(mutex_inbox)
        /\ mutex_inbox' = Append(mutex_inbox, e)
    BY <1>1, <1>2, <2>1
  <2> HIDE DEF S, e
  <2>4. ToSet(mutex_inbox') = ToSet(mutex_inbox) \cup {e}
    BY <2>3, AppendRange
  <2>5. Once(mutex_inbox')
    BY <2>2, <2>3, AppendOnce
  <2> QED BY <2>4, <2>5 DEF e
<1>4. \A u \in Thread : \A o \in {"P", "V"} : Sent(u, o)' <=> Sent(u, o) \/ (u = t /\ o = op)
  BY <1>3 DEF Sent
<1> QED BY <1>3, <1>4 DEF MutexInv, OneMessage, Quiet

LEMMA TakesOut ==
    ASSUME MutexInv, NEW m \in [from : Thread, op : {"P", "V"}],
           Once(mutex_inbox'), m \in ToSet(mutex_inbox),
           ToSet(mutex_inbox') = ToSet(mutex_inbox) \ {m}
    PROVE  /\ OneMessage' /\ Quiet(m.from)'
           /\ \A u \in Thread : \A o \in {"P", "V"} : Sent(u, o)' => Sent(u, o)
           /\ \A u \in Thread : \A o \in {"P", "V"} :
                 u # m.from => (Sent(u, o)' <=> Sent(u, o))
<1>1. m = [from |-> m.from, op |-> m.op] /\ m.from \in Thread /\ m.op \in {"P", "V"}
  OBVIOUS
<1>2. \A u \in Thread : \A o \in {"P", "V"} :
         Sent(u, o)' <=> Sent(u, o) /\ ~ (u = m.from /\ o = m.op)
  BY <1>1 DEF Sent
<1>3. Sent(m.from, m.op)
  BY <1>1 DEF Sent
<1> QED BY <1>1, <1>2, <1>3 DEF MutexInv, OneMessage, Quiet

(* A step that concerns neither t nor its messages.                        *)
LEMMA MutexApart ==
    ASSUME NEW t \in Thread, MutexAt(t), pc'[t] = pc[t],
           t \in replies' <=> t \in replies, holder' = t <=> holder = t,
           \A o \in {"P", "V"} : Sent(t, o)' <=> Sent(t, o)
    PROVE  MutexAt(t)'
BY DEF MutexAt, Quiet

(* Steps of t in its pager, its program or its end that send nothing.      *)
LEMMA MutexStays ==
    ASSUME MutexInv, TypeInv', NEW t \in Thread, NEW place,
           pc' = [pc EXCEPT ![t] = place],
           UNCHANGED <<mutex_inbox, holder, replies>>,
           MutexAt(t)'
    PROVE  MutexInv'
<1>1. pc \in [Thread -> Place]
  BY DEF MutexInv, TypeInv, PagerTypeOK
<1>2. \A u \in Thread : \A o \in {"P", "V"} : Sent(u, o)' <=> Sent(u, o)
  BY DEF Sent
<1>3. OneMessage'
  BY <1>2 DEF MutexInv, OneMessage
<1>4. ASSUME NEW u \in Thread, u # t  PROVE MutexAt(u)'
  BY <1>1, <1>2, <1>4, MutexApart DEF MutexInv
<1> QED BY <1>3, <1>4 DEF MutexInv

LEMMA MutexProgram ==
    ASSUME MutexInv, TypeInv', NEW t \in Thread, Program(t)
    PROVE  MutexInv'
<1>1. pc \in [Thread -> Place]
  BY DEF MutexInv, TypeInv, PagerTypeOK
<1>2. pc[t] = "run" /\ Quiet(t) /\ holder # t /\ t \notin replies
  BY DEF Program, Store, uTLB_RefillHandler, PageFault, StoreToText, OtherTrap, MayTouch, At,
         MutexInv, MutexAt
<1>3. UNCHANGED <<mutex_inbox, holder, replies>>
  BY DEF Program, Store, uTLB_RefillHandler, PageFault, StoreToText, OtherTrap, PassUp, mutexVars
<1>4. PICK place \in {"run", "fault", "trap"} : pc' = [pc EXCEPT ![t] = place]
  <2>1. ASSUME pc' = pc  PROVE pc' = [pc EXCEPT ![t] = "run"]
    BY <1>1, <1>2, <2>1
  <2> QED BY <2>1 DEF Program, Store, uTLB_RefillHandler, PageFault, StoreToText, OtherTrap,
                      PassUp, Goes
<1>5. MutexAt(t)'
  <2>1. pc'[t] \in {"run", "fault", "trap"} /\ Quiet(t)'
    BY <1>1, <1>2, <1>3, <1>4 DEF Quiet, Sent
  <2> QED BY <1>2, <1>3, <2>1 DEF MutexAt, Inside
<1> QED BY <1>3, <1>4, <1>5, MutexStays

LEMMA MutexServing ==
    ASSUME MutexInv, TypeInv', NEW a \in Asid, Serving(a) \/ mark_free_pages(a)
    PROVE  MutexInv'
<1>1. /\ pc \in [Thread -> Place] /\ Uproc(a) # Sst(a)
      /\ Uproc(a) \in Thread /\ Sst(a) \in Thread
  BY AsidFacts DEF MutexInv, TypeInv, PagerTypeOK
<1>2. /\ UNCHANGED <<mutex_inbox, holder>> /\ replies' \subseteq replies
      /\ \A t \in Thread : t \in replies /\ t \notin replies' => pc'[t] = "dead"
  BY <1>1 DEF Serving, UprocAsks, UprocReceives, SstAnswers, SstTerminates, mark_free_pages,
              mutexVars, Goes
<1>3. \A t \in Thread : \A o \in {"P", "V"} : Sent(t, o)' <=> Sent(t, o)
  BY <1>2 DEF Sent
<1>4. ASSUME NEW t \in Thread
      PROVE  \/ pc'[t] = pc[t]
             \/ pc[t] \in {"run", "idle", "receive"} /\ pc'[t] \in {"run", "idle", "receive"}
             \/ pc'[t] \in {"tell", "dead"}
  BY <1>1 DEF Serving, UprocAsks, UprocReceives, SstAnswers, SstTerminates, mark_free_pages, At,
              Goes
<1>5. ASSUME NEW t \in Thread  PROVE MutexAt(t)'
  <2>1. MutexAt(t)
    BY DEF MutexInv
  <2>2. CASE pc'[t] = pc[t] /\ pc'[t] # "dead"
    BY <1>2, <1>3, <2>1, <2>2, MutexApart
  <2>3. CASE pc[t] \in {"run", "idle", "receive"} /\ pc'[t] \in {"run", "idle", "receive"}
    BY <1>2, <1>3, <2>1, <2>3 DEF MutexAt, Quiet, Inside
  <2>4. CASE pc'[t] \in {"tell", "dead"}
    BY <2>4 DEF MutexAt, Inside
  <2> QED BY <1>4, <2>2, <2>3, <2>4
<1>6. OneMessage'
  BY <1>2, <1>3 DEF MutexInv, OneMessage
<1> QED BY <1>5, <1>6 DEF MutexInv

LEMMA MutexEnding ==
    ASSUME MutexInv, TypeInv', NEW t \in Thread, Ending(t)
    PROVE  MutexInv'
<1>1. pc \in [Thread -> Place]
  BY DEF MutexInv, TypeInv, PagerTypeOK
<1>2. CASE TrapSendsV(t)
  <2>1. /\ pc[t] = "trap" /\ pc' = [pc EXCEPT ![t] = "tell"]
        /\ mutex_inbox' = Append(mutex_inbox, [from |-> t, op |-> "V"])
        /\ UNCHANGED <<holder, replies>>
    BY <1>2 DEF TrapSendsV, At, Goes
  <2>2. Quiet(t)
    BY <2>1 DEF MutexInv, MutexAt
  <2>3. /\ OneMessage'
        /\ \A u \in Thread : \A o \in {"P", "V"} :
              Sent(u, o)' <=> Sent(u, o) \/ (u = t /\ o = "V")
    BY <2>1, <2>2, Sends
  <2>4. ASSUME NEW u \in Thread, u # t  PROVE MutexAt(u)'
    BY <1>1, <2>1, <2>3, <2>4, MutexApart DEF MutexInv
  <2>5. MutexAt(t)'
    BY <1>1, <2>1 DEF MutexAt, Inside
  <2> QED BY <2>3, <2>4, <2>5 DEF MutexInv
<1>3. CASE TellsParent(t)
  <2>1. pc' = [pc EXCEPT ![t] = "dying"] /\ UNCHANGED <<mutex_inbox, holder, replies>>
    BY <1>3 DEF TellsParent, Goes, mutexVars
  <2>2. MutexAt(t)'
    BY <1>1, <2>1 DEF MutexAt, Inside
  <2> QED BY <2>1, <2>2, MutexStays
<1>4. CASE Dies(t)
  <2> DEFINE gone == IF t[1] = "sst" THEN {t, Uproc(AsidOf(t))} ELSE {t}
  <2>1. /\ pc' = [u \in Thread |-> IF u \in gone THEN "dead" ELSE pc[u]]
        /\ replies' = replies \ gone
        /\ UNCHANGED <<mutex_inbox, holder>>
    BY <1>4 DEF Dies
  <2> HIDE DEF gone
  <2>2. \A u \in Thread : \A o \in {"P", "V"} : Sent(u, o)' <=> Sent(u, o)
    BY <2>1 DEF Sent
  <2>3. ASSUME NEW u \in Thread  PROVE MutexAt(u)'
    <3>1. CASE u \in gone
      <4>1. pc'[u] = "dead"
        BY <2>1, <3>1
      <4> QED BY <4>1 DEF MutexAt, Inside
    <3>2. CASE u \notin gone
      BY <2>1, <2>2, <3>2, MutexApart DEF MutexInv
    <3> QED BY <3>1, <3>2
  <2>4. OneMessage'
    BY <2>1, <2>2 DEF MutexInv, OneMessage
  <2> QED BY <2>3, <2>4 DEF MutexInv
<1> QED BY <1>2, <1>3, <1>4 DEF Ending

LEMMA MutexProc ==
    ASSUME MutexInv, TypeInv', MutexTakes \/ MutexReleases
    PROVE  MutexInv'
<1>1. /\ mutex_inbox \in Seq([from : Thread, op : {"P", "V"}]) /\ Once(mutex_inbox)
      /\ pc' = pc
  BY DEF MutexInv, TypeInv, PagerTypeOK, OneMessage, MutexTakes, MutexReleases
<1>2. CASE MutexTakes
  <2> DEFINE m == Head(mutex_inbox)
  <2>1. /\ m \in [from : Thread, op : {"P", "V"}] /\ m \in ToSet(mutex_inbox)
        /\ Once(mutex_inbox') /\ ToSet(mutex_inbox') = ToSet(mutex_inbox) \ {m}
    BY <1>1, <1>2, TailRange DEF MutexTakes
  <2>2. PICK n \in [from : Thread, op : {"P", "V"}] : n = m
    BY <2>1
  <2>3. /\ OneMessage' /\ Quiet(n.from)'
        /\ \A u \in Thread : \A o \in {"P", "V"} : Sent(u, o)' => Sent(u, o)
        /\ \A u \in Thread : \A o \in {"P", "V"} :
              u # n.from => (Sent(u, o)' <=> Sent(u, o))
    <3> HIDE DEF m
    <3> QED BY <2>1, <2>2, TakesOut
  <2>4. Sent(n.from, n.op) /\ n.from \in Thread /\ n.op \in {"P", "V"}
    BY <2>1, <2>2 DEF Sent
  <2>5. /\ holder = NoThread
        /\ IF n.op = "P"
           THEN holder' = n.from /\ replies' = Answered(n.from)
           ELSE UNCHANGED <<holder, replies>>
    BY <1>2, <2>2 DEF MutexTakes
  <2>6. ASSUME NEW u \in Thread, u # n.from  PROVE MutexAt(u)'
    <3>1. (u \in replies' <=> u \in replies) /\ (holder' = u <=> holder = u)
      BY <2>4, <2>5, <2>6, ThreadFacts DEF Answered
    <3> QED BY <1>1, <2>3, <2>6, <3>1, MutexApart DEF MutexInv
  <2>7. MutexAt(n.from)'
    <3>1. MutexAt(n.from) /\ ~ (Sent(n.from, "P") /\ Sent(n.from, "V")) /\ n.from # NoThread
      BY <2>4, ThreadFacts DEF MutexInv, OneMessage
    <3>2. CASE n.op = "P"
      <4>1. /\ pc[n.from] \notin {"run", "idle", "receive", "fault", "trap", "waitV"}
            /\ pc[n.from] \notin Inside
        BY <2>4, <3>1, <3>2 DEF MutexAt, Quiet
      <4>2. pc[n.from] = "waitP" => n.from \in replies' /\ holder' = n.from
        BY <2>5, <3>2 DEF Answered, Live
      <4> QED BY <1>1, <2>3, <4>1, <4>2 DEF MutexAt, Quiet
    <3>3. CASE n.op = "V"
      <4>1. /\ pc[n.from] \notin {"run", "idle", "receive", "fault", "trap", "waitP"}
            /\ pc[n.from] \notin Inside
        BY <2>4, <3>1, <3>3 DEF MutexAt, Quiet
      <4>2. holder' # n.from
        BY <2>5, <3>1, <3>3
      <4> QED BY <1>1, <2>3, <4>1, <4>2 DEF MutexAt, Quiet
    <3> QED BY <2>4, <3>2, <3>3
  <2> QED BY <2>3, <2>4, <2>6, <2>7 DEF MutexInv
<1>3. CASE MutexReleases
  <2>1. PICK i \in DOMAIN mutex_inbox : /\ mutex_inbox[i] = [from |-> holder, op |-> "V"]
                                        /\ mutex_inbox' = RemoveAt(mutex_inbox, i)
    BY <1>3 DEF MutexReleases
  <2>2. /\ holder # NoThread /\ holder \in Thread
        /\ holder' = NoThread /\ replies' = Answered(holder)
    BY <1>3 DEF MutexReleases, MutexInv, TypeInv, PagerTypeOK
  <2>3. PICK n \in [from : Thread, op : {"P", "V"}] : n = mutex_inbox[i]
    BY <2>1, <2>2
  <2>4. n.from = holder /\ n.op = "V" /\ Sent(n.from, "V")
    BY <2>1, <2>3 DEF Sent, ToSet
  <2>5. /\ Once(mutex_inbox') /\ ToSet(mutex_inbox') = ToSet(mutex_inbox) \ {n}
        /\ n \in ToSet(mutex_inbox)
    <3>1. n \in ToSet(mutex_inbox)
      BY <2>3 DEF ToSet
    <3> QED BY <1>1, <2>1, <2>3, <3>1, RemoveAtRange
  <2>6. /\ OneMessage' /\ Quiet(n.from)'
        /\ \A u \in Thread : \A o \in {"P", "V"} : Sent(u, o)' => Sent(u, o)
        /\ \A u \in Thread : \A o \in {"P", "V"} :
              u # n.from => (Sent(u, o)' <=> Sent(u, o))
    BY <2>5, TakesOut
  <2>7. ASSUME NEW u \in Thread, u # n.from  PROVE MutexAt(u)'
    <3>1. (u \in replies' <=> u \in replies) /\ (holder' = u <=> holder = u)
      BY <2>2, <2>4, <2>7, ThreadFacts DEF Answered
    <3> QED BY <1>1, <2>6, <2>7, <3>1, MutexApart DEF MutexInv
  <2>8. MutexAt(n.from)'
    <3>1. MutexAt(n.from) /\ n.from # NoThread
      BY <2>2, <2>4 DEF MutexInv
    <3>2. /\ pc[n.from] \notin {"run", "idle", "receive", "fault", "trap", "waitP"}
          /\ pc[n.from] \notin Inside
      BY <2>4, <3>1 DEF MutexAt, Quiet
    <3> QED BY <1>1, <2>2, <2>6, <3>1, <3>2 DEF MutexAt, Quiet
  <2> QED BY <2>6, <2>7, <2>8 DEF MutexInv
<1> QED BY <1>2, <1>3

(* The steps of a pager that holds the mutex.                              *)
InsideStep(t) ==
    \/ getFrameIndex(t) \/ ChecksFrame(t) \/ Invalidates(t) \/ WritesBack(t) \/ FlashWrites(t)
    \/ FlashReads(t) \/ FlashFails(t) \/ Settles(t) \/ Maps(t)

LEMMA InsideStepFacts ==
    ASSUME TypeInv, NEW t \in Thread, InsideStep(t)
    PROVE  /\ pc[t] \in Inside
           /\ \E place \in Inside \cup {"trap"} : pc' = [pc EXCEPT ![t] = place]
           /\ UNCHANGED <<exceptState, mutexVars, test_inbox>>
<1>1. /\ pc[t] \in Inside
      /\ UNCHANGED <<exceptState, mutexVars, test_inbox>>
  BY DEF InsideStep, getFrameIndex, ChecksFrame, Invalidates, WritesBack, FlashWrites, FlashReads,
         FlashFails, Settles, Maps, At, Inside
<1>2. \E place \in Inside \cup {"trap"} : pc' = [pc EXCEPT ![t] = place]
  <2>1. pc' = pc => pc' = [pc EXCEPT ![t] = pc[t]]
    BY DEF TypeInv, PagerTypeOK
  <2>2. CASE pc' = pc
    BY <1>1, <2>1, <2>2
  <2>3. CASE pc' # pc
    <3>1. \E place \in {"check", "readIn", "invalidate", "writeBack", "writing", "settle",
                        "map", "release", "trap"} : pc' = [pc EXCEPT ![t] = place]
      BY <2>3 DEF InsideStep, getFrameIndex, ChecksFrame, Invalidates, WritesBack, FlashWrites,
                  FlashReads, FlashFails, Settles, Maps, Goes
    <3> QED BY <3>1 DEF Inside
  <2> QED BY <2>2, <2>3
<1> QED BY <1>1, <1>2

LEMMA MutexPagerStep ==
    ASSUME MutexInv, TypeInv', NEW t \in Thread, PagerStep(t)
    PROVE  MutexInv'
<1>1. pc \in [Thread -> Place] /\ MutexAt(t) /\ TypeInv
  BY DEF MutexInv, TypeInv, PagerTypeOK
<1>2. ASSUME NEW op \in {"P", "V"}, NEW place, pc' = [pc EXCEPT ![t] = place],
             mutex_inbox' = Append(mutex_inbox, [from |-> t, op |-> op]), Quiet(t),
             UNCHANGED <<holder, replies>>
      PROVE  /\ OneMessage'
             /\ \A o \in {"P", "V"} : Sent(t, o)' <=> o = op
             /\ \A u \in Thread : u # t => MutexAt(u)'
  <2>1. /\ OneMessage'
        /\ \A u \in Thread : \A o \in {"P", "V"} :
              Sent(u, o)' <=> Sent(u, o) \/ (u = t /\ o = op)
    BY <1>2, Sends
  <2>2. ASSUME NEW u \in Thread, u # t  PROVE MutexAt(u)'
    BY <1>1, <1>2, <2>1, <2>2, MutexApart DEF MutexInv
  <2> QED BY <1>2, <2>1, <2>2 DEF Quiet
<1>3. ASSUME NEW place, pc' = [pc EXCEPT ![t] = place], replies' = replies \ {t},
             UNCHANGED <<holder, mutex_inbox>>
      PROVE  OneMessage' /\ \A u \in Thread : u # t => MutexAt(u)'
  <2>1. \A u \in Thread : \A o \in {"P", "V"} : Sent(u, o)' <=> Sent(u, o)
    BY <1>3 DEF Sent
  <2>2. ASSUME NEW u \in Thread, u # t  PROVE MutexAt(u)'
    BY <1>1, <1>3, <2>1, <2>2, MutexApart DEF MutexInv
  <2> QED BY <1>3, <2>1, <2>2 DEF MutexInv, OneMessage
<1>4. CASE AsksMutex(t)
  <2>1. /\ pc[t] = "fault" /\ pc' = [pc EXCEPT ![t] = "waitP"]
        /\ mutex_inbox' = Append(mutex_inbox, [from |-> t, op |-> "P"])
        /\ UNCHANGED <<holder, replies>>
    BY <1>4 DEF AsksMutex, At, Goes
  <2>2. Quiet(t) /\ holder # t /\ t \notin replies
    BY <1>1, <2>1 DEF MutexAt
  <2>3. MutexAt(t)'
    BY <1>1, <1>2, <2>1, <2>2 DEF MutexAt, Inside
  <2> QED BY <1>2, <2>1, <2>2, <2>3 DEF MutexInv
<1>5. CASE Enters(t)
  <2>1. /\ pc[t] = "waitP" /\ t \in replies /\ pc' = [pc EXCEPT ![t] = "scan"]
        /\ replies' = replies \ {t} /\ UNCHANGED <<holder, mutex_inbox>>
    BY <1>5 DEF Enters, At, Goes
  <2>2. MutexAt(t)'
    BY <1>1, <2>1 DEF MutexAt, Quiet, Sent, Inside
  <2> QED BY <1>3, <2>1, <2>2 DEF MutexInv
<1>6. CASE InsideStep(t)
  <2>1. PICK place \in Inside \cup {"trap"} : pc' = [pc EXCEPT ![t] = place]
    BY <1>1, <1>6, InsideStepFacts
  <2>2. pc[t] \in Inside /\ UNCHANGED <<mutex_inbox, holder, replies>>
    BY <1>1, <1>6, InsideStepFacts DEF mutexVars
  <2>3. MutexAt(t)'
    BY <1>1, <2>1, <2>2 DEF MutexAt, Quiet, Sent, Inside
  <2> QED BY <2>1, <2>2, <2>3, MutexStays
<1>7. CASE Releases(t)
  <2>1. /\ pc[t] \in Inside /\ pc' = [pc EXCEPT ![t] = "waitV"]
        /\ mutex_inbox' = Append(mutex_inbox, [from |-> t, op |-> "V"])
        /\ UNCHANGED <<holder, replies>>
    BY <1>7 DEF Releases, At, Goes, Inside
  <2>2. Quiet(t) /\ t \notin replies
    BY <1>1, <2>1 DEF MutexAt
  <2>3. MutexAt(t)'
    BY <1>1, <1>2, <2>1, <2>2 DEF MutexAt, Inside
  <2> QED BY <1>2, <2>1, <2>2, <2>3 DEF MutexInv
<1>8. CASE Resumes(t)
  <2>1. /\ pc[t] = "waitV" /\ t \in replies /\ pc' = [pc EXCEPT ![t] = "run"]
        /\ replies' = replies \ {t} /\ UNCHANGED <<holder, mutex_inbox>>
    BY <1>8 DEF Resumes, At, Goes
  <2>2. MutexAt(t)'
    BY <1>1, <2>1 DEF MutexAt, Quiet, Sent, Inside
  <2> QED BY <1>3, <2>1, <2>2 DEF MutexInv
<1> QED BY <1>4, <1>5, <1>6, <1>7, <1>8 DEF PagerStep, InsideStep

LEMMA MutexStep == MutexInv /\ [Next]_vars => MutexInv'
<1> SUFFICES ASSUME MutexInv, [Next]_vars PROVE MutexInv'
  OBVIOUS
<1>1. TypeInv'
  BY TypeStep DEF MutexInv
<1>2. CASE UNCHANGED vars
  <2>1. UNCHANGED <<pc, mutex_inbox, holder, replies>>
    BY <1>2 DEF vars, mutexVars
  <2>2. \A u \in Thread : \A o \in {"P", "V"} : Sent(u, o)' <=> Sent(u, o)
    BY <2>1 DEF Sent
  <2>3. OneMessage'
    BY <2>1, <2>2 DEF MutexInv, OneMessage
  <2>4. \A u \in Thread : MutexAt(u)'
    BY <2>1, <2>2, MutexApart DEF MutexInv
  <2> QED BY <1>1, <2>3, <2>4 DEF MutexInv
<1> QED BY <1>1, <1>2, MutexProgram, MutexPagerStep, MutexEnding, MutexServing, MutexProc
        DEF Next, Ended, WaitsInVain

LEMMA MutexInvariance == Spec => []MutexInv
BY MutexInit, MutexStep, PTL DEF Spec

(* One pager at a time works on the swap pool, though any thread may send  *)
(* a V it has no right to, may be killed at any step, and though a thread  *)
(* that traps while it holds the mutex never comes back.                   *)
THEOREM SwapPoolExclusive == Spec => []MutualExclusion
<1>1. MutexInv => MutualExclusion
  BY DEF MutexInv, MutexAt, MutualExclusion
<1> QED BY <1>1, MutexInvariance, PTL
-----------------------------------------------------------------------------
(* Taking turns.  While the SST and its U-proc take turns, the place where *)
(* the state of a page fault is saved is used by one of them, and what the *)
(* pager reads from it at each step is what it began with.                 *)

Told == \A a \in test_inbox :
    pc[Sst(a)] = "dying" \/ (pc[Sst(a)] = "dead" /\ pc[Uproc(a)] = "dead")

OwnPage == \A t \in Thread :
    pc[t] \in Inside => loc[t].page = find_page_by_entryhi(FaultPage(t))

OneInv == MutexInv /\ InTurn /\ Told /\ ResumesItself /\ OwnPage

LEMMA Alone ==
    ASSUME InTurn, NEW t \in Thread, pc[t] \notin {"run", "idle", "receive", "dead"},
           NEW u \in Thread, u # t, AsidOf(u) = AsidOf(t)
    PROVE  pc[u] \in {"idle", "receive", "dead"}
<1>1. AsidOf(t) \in Asid /\ t \in {Uproc(AsidOf(t)), Sst(AsidOf(t))}
                        /\ u \in {Uproc(AsidOf(t)), Sst(AsidOf(t))}
  BY ThreadFacts
<1> QED BY <1>1 DEF InTurn, Handling

LEMMA OneInit == Init => OneInv
<1> SUFFICES ASSUME Init PROVE OneInv
  OBVIOUS
<1>1. \A t \in Thread : pc[t] \in {"run", "idle"}
  BY DEF Init
<1>2. test_inbox = {}
  BY DEF Init
<1> QED BY <1>1, <1>2, MutexInit, AsidFacts
        DEF OneInv, InTurn, Handling, Told, ResumesItself, OwnPage, Inside

(* An SST that has told test goes only on to its end.                      *)
LEMMA KeepsTold ==
    ASSUME OneInv, NEW t \in Thread, NEW place,
           pc' = [pc EXCEPT ![t] = place], pc[t] # "dead",
           test_inbox' = test_inbox, place = "dying" \/ pc[t] # "dying"
    PROVE  Told'
<1>1. pc \in [Thread -> Place]
  BY DEF OneInv, MutexInv, TypeInv, PagerTypeOK
<1>2. ASSUME NEW a \in test_inbox'
      PROVE  pc'[Sst(a)] = "dying" \/ (pc'[Sst(a)] = "dead" /\ pc'[Uproc(a)] = "dead")
  <2>1. /\ pc[Sst(a)] = "dying" \/ (pc[Sst(a)] = "dead" /\ pc[Uproc(a)] = "dead")
        /\ a \in Asid
    BY DEF OneInv, Told, MutexInv, TypeInv, PagerTypeOK
  <2> QED BY <1>1, <2>1, AsidFacts
<1> QED BY <1>2 DEF Told

(* A pager that goes on finds the state and the work it had.               *)
LEMMA KeepsOwn ==
    ASSUME OneInv,
           \A t \in Thread : InPager(t)' =>
              InPager(t) /\ exceptState'[AsidOf(t)] = exceptState[AsidOf(t)],
           \A t \in Thread : pc'[t] \in Inside =>
              pc[t] \in Inside /\ loc'[t].page = loc[t].page
    PROVE  ResumesItself' /\ OwnPage'
<1>1. ASSUME NEW t \in Thread, pc'[t] \in Inside \cup {"fault", "waitP", "waitV"}
      PROVE  exceptState'[AsidOf(t)].thread = t
  BY <1>1 DEF OneInv, ResumesItself, InPager
<1>2. ASSUME NEW t \in Thread, pc'[t] \in Inside
      PROVE  loc'[t].page = find_page_by_entryhi(FaultPage(t)')
  BY <1>2 DEF OneInv, OwnPage, InPager, FaultPage
<1>3. \A t \in Thread : find_page_by_entryhi(FaultPage(t))'
                           = find_page_by_entryhi(FaultPage(t)')
  BY DEF find_page_by_entryhi
<1> QED BY <1>1, <1>2, <1>3 DEF ResumesItself, OwnPage

LEMMA OneProgram ==
    ASSUME InTurn', OneInv, MutexInv', NEW t \in Thread, Program(t)
    PROVE  OneInv'
<1>1. /\ pc \in [Thread -> Place] /\ exceptState \in [Asid -> [thread : Thread \cup {NoThread},
                                                               page : Page \cup {NOPAGE}]]
      /\ AsidOf(t) \in Asid
  BY ThreadFacts DEF OneInv, MutexInv, TypeInv, PagerTypeOK
<1>2. pc[t] = "run" /\ UNCHANGED <<loc, test_inbox>>
  BY DEF Program, Store, uTLB_RefillHandler, PageFault, StoreToText, OtherTrap, MayTouch, At, PassUp
<1>3. PICK place \in {"run", "fault", "trap"} :
         /\ pc' = [pc EXCEPT ![t] = place]
         /\ \/ exceptState' = exceptState /\ place # "fault"
            \/ \E p : exceptState' = [exceptState EXCEPT ![AsidOf(t)] = [thread |-> t, page |-> p]]
  <2>1. ASSUME pc' = pc  PROVE pc' = [pc EXCEPT ![t] = "run"]
    BY <1>1, <1>2, <2>1
  <2> QED BY <2>1 DEF Program, Store, uTLB_RefillHandler, PageFault, StoreToText, OtherTrap,
                      PassUp, Goes
<1>4. Told'
  BY <1>2, <1>3, KeepsTold
<1>5. ASSUME NEW u \in Thread, u # t, InPager(u)'
      PROVE  /\ InPager(u) /\ exceptState'[AsidOf(u)] = exceptState[AsidOf(u)]
             /\ pc'[u] = pc[u]
  <2>1. pc'[u] = pc[u] /\ InPager(u)
    BY <1>1, <1>3, <1>5 DEF InPager
  <2>2. AsidOf(u) # AsidOf(t)
    BY <1>2, <2>1, Alone DEF OneInv, InPager, Inside
  <2> QED BY <1>1, <1>3, <2>1, <2>2, ThreadFacts
<1>6. ASSUME NEW u \in Thread, pc'[u] \in Inside \cup {"fault", "waitP", "waitV"}
      PROVE  exceptState'[AsidOf(u)].thread = u
  <2>1. CASE u = t
    <3>1. pc'[t] \in {"run", "fault", "trap"}
      BY <1>1, <1>3
    <3>2. place = "fault"
      BY <1>1, <1>3, <1>6, <2>1, <3>1 DEF Inside
    <3> QED BY <1>1, <1>3, <2>1, <3>2
  <2>2. CASE u # t
    BY <1>5, <1>6, <2>2 DEF OneInv, ResumesItself, InPager
  <2> QED BY <2>1, <2>2
<1>7. ASSUME NEW u \in Thread, pc'[u] \in Inside
      PROVE  loc'[u].page = find_page_by_entryhi(FaultPage(u)')
  <2>1. u # t
    BY <1>1, <1>3, <1>7 DEF Inside
  <2> QED BY <1>2, <1>5, <1>7, <2>1 DEF OneInv, OwnPage, InPager, FaultPage
<1>8. \A u \in Thread : find_page_by_entryhi(FaultPage(u))'
                           = find_page_by_entryhi(FaultPage(u)')
  BY DEF find_page_by_entryhi
<1> QED BY <1>4, <1>6, <1>7, <1>8 DEF OneInv, ResumesItself, OwnPage

LEMMA OneServing ==
    ASSUME InTurn', OneInv, MutexInv', NEW a \in Asid,
           Serving(a) \/ mark_free_pages(a)
    PROVE  OneInv'
<1>1. /\ pc \in [Thread -> Place]
      /\ UNCHANGED <<loc, exceptState>> /\ test_inbox' \subseteq test_inbox
      /\ test_inbox \subseteq Asid
  BY DEF Serving, UprocAsks, UprocReceives, SstAnswers, SstTerminates, mark_free_pages,
         OneInv, MutexInv, TypeInv, PagerTypeOK
<1>2. \A b \in Asid : /\ Uproc(b) \in Thread /\ Sst(b) \in Thread
                      /\ \A c \in Asid : Uproc(b) # Sst(c)
                      /\ \A c \in Asid : c # b => Uproc(b) # Uproc(c) /\ Sst(b) # Sst(c)
  BY DEF Uproc, Sst, Thread
<1>3. /\ \A b \in Asid : b # a => pc'[Uproc(b)] = pc[Uproc(b)] /\ pc'[Sst(b)] = pc[Sst(b)]
      /\ \/ pc'[Uproc(a)] = pc[Uproc(a)] /\ pc[Sst(a)] = "idle" /\ pc'[Sst(a)] = "run"
         \/ pc[Uproc(a)] = "run" /\ pc'[Uproc(a)] = "receive" /\ pc'[Sst(a)] = pc[Sst(a)]
         \/ pc[Sst(a)] = "run" /\ pc'[Sst(a)] = "idle" /\ pc'[Uproc(a)] \in {"run", pc[Uproc(a)]}
         \/ pc[Sst(a)] = "run" /\ pc'[Sst(a)] = "tell" /\ pc'[Uproc(a)] = "dead"
         \/ pc'[Sst(a)] = pc[Sst(a)] /\ pc'[Uproc(a)] = pc[Uproc(a)]
  BY <1>1, <1>2 DEF Serving, UprocAsks, UprocReceives, SstAnswers, SstTerminates,
                    mark_free_pages, At, Goes
<1>4. Told'
  <2>1. \A b \in test_inbox' :
           /\ pc[Sst(b)] = "dying" \/ (pc[Sst(b)] = "dead" /\ pc[Uproc(b)] = "dead")
           /\ b \in Asid
    BY <1>1 DEF OneInv, Told
  <2> QED BY <1>3, <2>1 DEF Told
<1>6. ASSUME NEW t \in Thread, InPager(t)'  PROVE pc'[t] = pc[t]
  <2>1. \A b \in Asid : InPager(Uproc(b))' => pc'[Uproc(b)] = pc[Uproc(b)]
    <3>1. ASSUME NEW b \in Asid, InPager(Uproc(b))'  PROVE pc'[Uproc(b)] = pc[Uproc(b)]
      <4>1. pc'[Uproc(b)] \notin {"receive", "dead", "run"}
        BY <3>1 DEF InPager, Inside
      <4> QED BY <1>3, <4>1
    <3> QED BY <3>1
  <2>2. \A b \in Asid : InPager(Sst(b))' => pc'[Sst(b)] = pc[Sst(b)]
    <3>1. ASSUME NEW b \in Asid, InPager(Sst(b))'  PROVE pc'[Sst(b)] = pc[Sst(b)]
      <4>1. pc'[Sst(b)] \notin {"run", "idle", "tell"}
        BY <3>1 DEF InPager, Inside
      <4> QED BY <1>3, <4>1
    <3> QED BY <3>1
  <2> QED BY <1>6, <2>1, <2>2, ThreadFacts
<1>7. ResumesItself' /\ OwnPage'
  <2>1. \A t \in Thread : InPager(t)' =>
           InPager(t) /\ exceptState'[AsidOf(t)] = exceptState[AsidOf(t)]
    BY <1>1, <1>6 DEF InPager
  <2>2. \A t \in Thread : pc'[t] \in Inside => pc[t] \in Inside /\ loc'[t].page = loc[t].page
    BY <1>1, <1>6 DEF InPager
  <2> QED BY <2>1, <2>2, KeepsOwn
<1> QED BY <1>4, <1>7 DEF OneInv

LEMMA OneEnding ==
    ASSUME InTurn', OneInv, MutexInv', NEW t \in Thread, Ending(t)
    PROVE  OneInv'
<1>1. /\ pc \in [Thread -> Place] /\ PagerTypeOK /\ test_inbox \subseteq Asid
      /\ AsidOf(t) \in Asid
  BY ThreadFacts DEF OneInv, MutexInv, TypeInv, PagerTypeOK
<1>2. CASE TrapSendsV(t) \/ TellsParent(t)
  <2>1. PICK place \in {"tell", "dying"} : pc' = [pc EXCEPT ![t] = place]
    BY <1>2 DEF TrapSendsV, TellsParent, Goes
  <2>2. /\ pc[t] \in {"trap", "tell"} /\ UNCHANGED <<loc, exceptState>>
        /\ \/ test_inbox' = test_inbox
           \/ t[1] = "sst" /\ test_inbox' = test_inbox \cup {AsidOf(t)} /\ pc'[t] = "dying"
    BY <1>1, <1>2 DEF TrapSendsV, TellsParent, At, Goes
  <2>4. ASSUME NEW a \in test_inbox'
        PROVE  pc'[Sst(a)] = "dying" \/ (pc'[Sst(a)] = "dead" /\ pc'[Uproc(a)] = "dead")
    <3>1. a \in Asid /\ Sst(a) \in Thread /\ Uproc(a) \in Thread
      BY <1>1, <2>2, AsidFacts
    <3>2. CASE a \in test_inbox
      <4>1. pc[Sst(a)] = "dying" \/ (pc[Sst(a)] = "dead" /\ pc[Uproc(a)] = "dead")
        BY <3>2 DEF OneInv, Told
      <4> QED BY <1>1, <2>1, <2>2, <3>1, <4>1
    <3>3. CASE a \notin test_inbox
      <4>1. t = Sst(a) /\ pc'[t] = "dying"
        BY <2>2, <3>3, ThreadFacts, AsidFacts
      <4> QED BY <4>1
    <3> QED BY <3>2, <3>3
  <2>5. \A u \in Thread : InPager(u)' => u # t /\ pc'[u] = pc[u]
    BY <1>1, <2>1 DEF InPager, Inside
  <2>6. ResumesItself' /\ OwnPage'
    <3>1. \A u \in Thread : InPager(u)' =>
             InPager(u) /\ exceptState'[AsidOf(u)] = exceptState[AsidOf(u)]
      BY <2>2, <2>5 DEF InPager
    <3>2. \A u \in Thread : pc'[u] \in Inside => pc[u] \in Inside /\ loc'[u].page = loc[u].page
      BY <2>2, <2>5 DEF InPager
    <3> QED BY <3>1, <3>2, KeepsOwn
  <2> QED BY <2>4, <2>6 DEF OneInv, Told
<1>3. CASE Dies(t)
  <2> DEFINE gone == IF t[1] = "sst" THEN {t, Uproc(AsidOf(t))} ELSE {t}
  <2>1. /\ pc' = [u \in Thread |-> IF u \in gone THEN "dead" ELSE pc[u]]
        /\ loc' = [u \in Thread |-> IF u \in gone THEN NoWork ELSE loc[u]]
        /\ Forgets(AsidOf(t), gone) /\ test_inbox' = test_inbox /\ pc[t] = "dying"
    BY <1>3 DEF Dies, At
  <2>2. \A a \in Asid : Sst(a) \in gone => Uproc(a) \in gone
    BY ThreadFacts, AsidFacts
  <2>3. \A a \in Asid : Sst(a) \in Thread /\ Uproc(a) \in Thread
    BY AsidFacts
  <2> HIDE DEF gone
  <2>4. Told'
    BY <1>1, <2>1, <2>2, <2>3 DEF OneInv, Told
  <2>5. \A u \in Thread : InPager(u)' => u \notin gone /\ pc'[u] = pc[u] /\ loc'[u] = loc[u]
    BY <2>1 DEF InPager, Inside
  <2>6. ResumesItself' /\ OwnPage'
    <3>1. \A u \in Thread : InPager(u)' =>
             InPager(u) /\ exceptState'[AsidOf(u)] = exceptState[AsidOf(u)]
      <4>1. ASSUME NEW u \in Thread, InPager(u)'
            PROVE  InPager(u) /\ exceptState'[AsidOf(u)] = exceptState[AsidOf(u)]
        <5>1. InPager(u) /\ u \notin gone
          BY <2>5, <4>1 DEF InPager
        <5> QED BY <1>1, <2>1, <5>1, ForgetsFacts
      <4> QED BY <4>1
    <3>2. \A u \in Thread : pc'[u] \in Inside => pc[u] \in Inside /\ loc'[u].page = loc[u].page
      BY <2>5 DEF InPager
    <3> QED BY <3>1, <3>2, KeepsOwn
  <2> QED BY <2>4, <2>6 DEF OneInv
<1> QED BY <1>2, <1>3 DEF Ending

LEMMA OneUnchanged ==
    ASSUME OneInv, MutexInv', InTurn', UNCHANGED <<pc, loc, exceptState, test_inbox>>
    PROVE  OneInv'
<1>1. Told'
  BY DEF OneInv, Told
<1>2. ResumesItself' /\ OwnPage'
  BY KeepsOwn DEF InPager
<1> QED BY <1>1, <1>2 DEF OneInv

LEMMA OnePagerStep ==
    ASSUME InTurn', OneInv, MutexInv', NEW t \in Thread, PagerStep(t)
    PROVE  OneInv'
<1>1. /\ pc \in [Thread -> Place] /\ TypeInv /\ PagerTypeOK /\ AsidOf(t) \in Asid
      /\ loc \in [Thread -> [page : Block \cup {NOPAGE}, frame : Frame \cup {-1},
                             asid : Asid \cup {NOPROC}]]
  BY ThreadFacts DEF OneInv, MutexInv, TypeInv, PagerTypeOK
<1>2. /\ InPager(t) /\ test_inbox' = test_inbox
      /\ \E place \in Place \ {"idle", "receive"} : pc' = [pc EXCEPT ![t] = place]
  <2>1. CASE InsideStep(t)
    BY <1>1, <2>1, InsideStepFacts DEF InPager, Place, Inside
  <2>2. CASE AsksMutex(t) \/ Enters(t) \/ Releases(t) \/ Resumes(t)
    BY <2>2 DEF AsksMutex, Enters, Releases, Resumes, At, Goes, InPager, Place, Inside
  <2> QED BY <2>1, <2>2 DEF PagerStep, InsideStep
<1>3. Told'
  <2>1. pc[t] \notin {"dead", "dying"}
    BY <1>2 DEF InPager, Inside
  <2> QED BY <1>2, <2>1, KeepsTold
<1>4. \A u \in Thread : u # t => pc'[u] = pc[u]
  BY <1>1, <1>2
<1>5. CASE Enters(t)
  <2>1. /\ pc[t] = "waitP" /\ exceptState' = exceptState /\ pc' = [pc EXCEPT ![t] = "scan"]
        /\ loc' = [loc EXCEPT ![t] =
              [page |-> find_page_by_entryhi(FaultPage(t)), frame |-> 0, asid |-> NOPROC]]
    BY <1>5 DEF Enters, At, Goes, FaultPage
  <2>2. ResumesItself'
    BY <1>1, <2>1 DEF OneInv, ResumesItself, Inside
  <2>3. ASSUME NEW u \in Thread, pc'[u] \in Inside
        PROVE  loc'[u].page = find_page_by_entryhi(FaultPage(u))
    BY <1>1, <2>1, <2>3 DEF OneInv, OwnPage
  <2>4. \A u \in Thread : find_page_by_entryhi(FaultPage(u))' = find_page_by_entryhi(FaultPage(u))
    BY <2>1 DEF FaultPage, find_page_by_entryhi
  <2> QED BY <1>3, <2>2, <2>3, <2>4 DEF OneInv, OwnPage
<1>6. CASE AsksMutex(t) \/ Releases(t) \/ InsideStep(t)
  <2>1. exceptState' = exceptState
    BY <1>1, <1>6, InsideStepFacts DEF AsksMutex, Releases
  <2>2. \A u \in Thread : pc'[u] \in Inside => pc[u] \in Inside
    <3>1. ASSUME AsksMutex(t) \/ Releases(t)
          PROVE  pc' = [pc EXCEPT ![t] = "waitP"] \/ pc' = [pc EXCEPT ![t] = "waitV"]
      BY <3>1 DEF AsksMutex, Releases, Goes
    <3>2. CASE AsksMutex(t) \/ Releases(t)
      BY <1>1, <3>1, <3>2 DEF Inside
    <3>3. CASE InsideStep(t)
      <4>1. pc[t] \in Inside
        BY <1>1, <3>3, InsideStepFacts
      <4> QED BY <1>4, <4>1
    <3> QED BY <1>6, <3>2, <3>3
  <2>3. ASSUME NEW u \in Thread, pc'[u] \in Inside  PROVE loc'[u].page = loc[u].page
    <3>1. CASE AsksMutex(t)
      BY <3>1 DEF AsksMutex
    <3>2. CASE Releases(t)
      <4>1. pc'[t] = "waitV" /\ loc' = [loc EXCEPT ![t] = NoWork]
        BY <1>1, <3>2 DEF Releases, Goes
      <4>2. u # t
        BY <2>3, <4>1 DEF Inside
      <4> QED BY <1>1, <4>1, <4>2
    <3>3. CASE InsideStep(t)
      <4>1. \/ loc' = loc
            \/ \E f : loc' = [loc EXCEPT ![t].frame = f]
            \/ \E b : loc' = [loc EXCEPT ![t].asid = b]
        BY <3>3 DEF InsideStep, getFrameIndex, ChecksFrame, Invalidates, WritesBack, FlashWrites,
                    FlashReads, FlashFails, Settles, Maps
      <4> QED BY <1>1, <4>1
    <3> QED BY <1>6, <3>1, <3>2, <3>3
  <2>4. \A u \in Thread : InPager(u)' => InPager(u)
    BY <1>2, <1>4 DEF InPager
  <2> QED BY <1>3, <2>1, <2>2, <2>3, <2>4, KeepsOwn DEF OneInv
<1>7. CASE Resumes(t)
  <2>1. /\ pc' = [pc EXCEPT ![t] = "run"] /\ loc' = loc /\ Forgets(AsidOf(t), {t})
    BY <1>7 DEF Resumes, Goes
  <2>2. \A u \in Thread : InPager(u)' => u # t /\ pc'[u] = pc[u]
    BY <1>1, <2>1 DEF InPager, Inside
  <2>3. \A u \in Thread : InPager(u)' =>
           InPager(u) /\ exceptState'[AsidOf(u)] = exceptState[AsidOf(u)]
    BY <1>1, <2>1, <2>2, ForgetsFacts DEF InPager
  <2>4. \A u \in Thread : pc'[u] \in Inside => pc[u] \in Inside /\ loc'[u].page = loc[u].page
    BY <2>1, <2>2 DEF InPager
  <2> QED BY <1>3, <2>3, <2>4, KeepsOwn DEF OneInv
<1> QED BY <1>5, <1>6, <1>7 DEF PagerStep, InsideStep

LEMMA OneStep ==
    ASSUME OneInv, InTurn', [Next]_vars
    PROVE  OneInv'
<1>1. MutexInv'
  BY MutexStep DEF OneInv
<1>2. CASE MutexTakes \/ MutexReleases
  BY <1>1, <1>2, OneUnchanged DEF MutexTakes, MutexReleases
<1>3. CASE UNCHANGED vars
  BY <1>1, <1>3, OneUnchanged DEF vars
<1> QED BY <1>1, <1>2, <1>3, OneProgram, OnePagerStep, OneEnding, OneServing
        DEF Next, Ended, WaitsInVain
-----------------------------------------------------------------------------
(* The steps that leave swap pool, page tables and flash alone, and every  *)
(* pager that is inside.                                                   *)
Aside ==
    \/ UNCHANGED vars
    \/ MutexTakes \/ MutexReleases
    \/ \E a \in Asid : Serving(a)
    \/ \E t \in Thread : \/ Program(t) \/ Ending(t)
                         \/ AsksMutex(t) \/ Enters(t) \/ Releases(t) \/ Resumes(t)

LEMMA StepKinds ==
    ASSUME [Next]_vars
    PROVE  \/ Aside
           \/ \E t \in Thread : InsideStep(t)
           \/ \E a \in Asid : mark_free_pages(a)
BY DEF Next, Ended, WaitsInVain, Aside, PagerStep, InsideStep

LEMMA AsideTables ==
    ASSUME Aside
    PROVE  UNCHANGED <<swap_pool_table, pgTbl, flash>>
<1>1. CASE UNCHANGED vars \/ MutexTakes \/ MutexReleases \/ \E a \in Asid : Serving(a)
  BY <1>1 DEF vars, tableVars, swapVars, storeVars, MutexTakes, MutexReleases, Serving, UprocAsks,
              UprocReceives, SstAnswers, SstTerminates
<1>2. CASE \E t \in Thread : Program(t) \/ Ending(t)
  BY <1>2 DEF tableVars, swapVars, storeVars, Program, Store, uTLB_RefillHandler, PageFault,
              StoreToText, OtherTrap, PassUp, Ending, TrapSendsV, TellsParent, Dies
<1>3. CASE \E t \in Thread : AsksMutex(t) \/ Enters(t) \/ Releases(t) \/ Resumes(t)
  BY <1>3 DEF tableVars, swapVars, storeVars, AsksMutex, Enters, Releases, Resumes
<1> QED BY <1>1, <1>2, <1>3 DEF Aside

LEMMA AsideThreads ==
    ASSUME TypeInv, Aside, NEW u \in Thread, pc'[u] \in Inside \ {"scan"}
    PROVE  pc'[u] = pc[u] /\ loc'[u] = loc[u]
<1>1. /\ pc \in [Thread -> Place]
      /\ loc \in [Thread -> [page : Block \cup {NOPAGE}, frame : Frame \cup {-1},
                             asid : Asid \cup {NOPROC}]]
      /\ pc'[u] \notin {"run", "idle", "receive", "fault", "waitP", "waitV", "trap", "tell",
                        "dying", "dead", "scan"}
  BY DEF TypeInv, PagerTypeOK, Inside
<1>2. CASE UNCHANGED vars \/ MutexTakes \/ MutexReleases
  BY <1>2 DEF vars, MutexTakes, MutexReleases
<1>3. CASE \E a \in Asid : Serving(a)
  <2>1. PICK a \in Asid : Serving(a)
    BY <1>3
  <2>2. UNCHANGED loc
    BY <2>1 DEF Serving, UprocAsks, UprocReceives, SstAnswers, SstTerminates
  <2>3. Uproc(a) \in Thread /\ Sst(a) \in Thread /\ Uproc(a) # Sst(a)
    BY AsidFacts
  <2>4. pc'[u] = pc[u]
    BY <1>1, <2>1, <2>3 DEF Serving, UprocAsks, UprocReceives, SstAnswers, SstTerminates, Goes
  <2> QED BY <2>2, <2>4
<1>4. CASE \E t \in Thread : Program(t)
  BY <1>1, <1>4 DEF Program, Store, uTLB_RefillHandler, PageFault, StoreToText, OtherTrap, PassUp,
                    Goes
<1>5. CASE \E t \in Thread : Ending(t)
  <2>1. CASE \E t \in Thread : TrapSendsV(t) \/ TellsParent(t)
    BY <1>1, <2>1 DEF TrapSendsV, TellsParent, Goes
  <2>2. CASE \E t \in Thread : Dies(t)
    BY <1>1, <2>2 DEF Dies
  <2> QED BY <1>5, <2>1, <2>2 DEF Ending
<1>6. CASE \E t \in Thread : AsksMutex(t) \/ Enters(t) \/ Releases(t) \/ Resumes(t)
  BY <1>1, <1>6 DEF AsksMutex, Enters, Releases, Resumes, Goes
<1> QED BY <1>2, <1>3, <1>4, <1>5, <1>6 DEF Aside

LEMMA InsideOthers ==
    ASSUME MutexInv, NEW t \in Thread, InsideStep(t), NEW u \in Thread, u # t
    PROVE  pc'[u] = pc[u] /\ loc'[u] = loc[u] /\ pc[u] \notin Inside
<1>1. /\ TypeInv /\ pc \in [Thread -> Place]
      /\ loc \in [Thread -> [page : Block \cup {NOPAGE}, frame : Frame \cup {-1},
                             asid : Asid \cup {NOPROC}]]
  BY DEF MutexInv, TypeInv, PagerTypeOK
<1>2. pc'[u] = pc[u] /\ pc[t] \in Inside
  BY <1>1, InsideStepFacts
<1>3. pc[u] \notin Inside
  BY <1>2 DEF MutexInv, MutexAt
<1>4. \/ loc' = loc
      \/ \E f : loc' = [loc EXCEPT ![t].frame = f]
      \/ \E b : loc' = [loc EXCEPT ![t].asid = b]
  BY DEF InsideStep, getFrameIndex, ChecksFrame, Invalidates, WritesBack, FlashWrites,
         FlashReads, FlashFails, Settles, Maps
<1> QED BY <1>1, <1>2, <1>3, <1>4

(* A process that still runs has run before.                               *)
LEMMA RanBefore ==
    ASSUME TypeInv, [Next]_vars, NEW a \in Asid, StillRuns(a)'
    PROVE  StillRuns(a)
<1> DEFINE R == Inside \cup {"run", "fault", "waitP", "waitV"}
<1>1. pc \in [Thread -> Place] /\ Uproc(a) \in Thread /\ Sst(a) \in Thread
  BY AsidFacts DEF TypeInv, PagerTypeOK
<1>2. ASSUME NEW t \in {Uproc(a), Sst(a)}, pc'[t] \in R  PROVE StillRuns(a)
  <2>1. CASE pc[t] \in R
    BY <2>1 DEF StillRuns
  <2>2. CASE pc[t] \notin R
    <3>1. t \in Thread /\ pc[t] # pc'[t] /\ pc[t] \notin {"run", "fault", "waitP", "waitV"}
          /\ pc[t] \notin Inside
      BY <1>1, <1>2, <2>2
    <3>2. pc'[t] \notin {"trap", "tell", "dying", "dead"}
      BY <1>2 DEF Inside
    <3>3. ASSUME NEW b \in Asid, UprocAsks(b) \/ UprocReceives(b) \/ SstAnswers(b)
          PROVE  StillRuns(a)
      <4>1. b = a /\ (pc[Uproc(b)] = "run" \/ pc[Sst(b)] = "run")
        BY <1>1, <3>1, <3>3 DEF UprocAsks, UprocReceives, SstAnswers, At, Goes, Uproc, Sst
      <4> QED BY <4>1 DEF StillRuns
    <3>4. CASE \E b \in Asid : Serving(b)
      <4>1. \A b \in Asid : ~ SstTerminates(b)
        BY <1>1, <3>1, <3>2 DEF SstTerminates, At
      <4> QED BY <3>3, <3>4, <4>1 DEF Serving
    <3>5. CASE \E u \in Thread : InsideStep(u)
      <4>1. PICK u \in Thread : InsideStep(u)
        BY <3>5
      <4> QED BY <1>1, <3>1, <4>1, InsideStepFacts
    <3>6. CASE \E u \in Thread : AsksMutex(u) \/ Enters(u) \/ Releases(u) \/ Resumes(u)
      BY <1>1, <3>1, <3>6 DEF AsksMutex, Enters, Releases, Resumes, At, Goes, Inside
    <3>7. CASE \E u \in Thread : Program(u)
      <4>1. \A u \in Thread : Program(u) => pc[u] = "run" /\ \A w \in Thread : w # u => pc'[w] = pc[w]
        BY <1>1 DEF Program, Store, uTLB_RefillHandler, PageFault, StoreToText, OtherTrap, MayTouch,
                    At, PassUp, Goes
      <4> QED BY <3>1, <3>7, <4>1
    <3>8. CASE \E u \in Thread : TrapSendsV(u) \/ TellsParent(u)
      BY <1>1, <3>1, <3>2, <3>8 DEF TrapSendsV, TellsParent, Goes
    <3>9. CASE \E u \in Thread : Dies(u)
      BY <1>1, <3>1, <3>2, <3>9 DEF Dies
    <3>10. pc' # pc
      BY <3>1
    <3> QED BY <3>4, <3>5, <3>6, <3>7, <3>8, <3>9, <3>10
            DEF Next, Ended, WaitsInVain, vars, MutexTakes, MutexReleases, mark_free_pages, PagerStep,
                InsideStep, Ending
  <2> QED BY <2>1, <2>2
<1> QED BY <1>2 DEF StillRuns
-----------------------------------------------------------------------------
(* Where a page is written back to.                                        *)

OwnersAgree == \A f \in Frame : swap_pool_table[f].asid \in {NOPROC, swap_pool_table[f].pte.asid}

(* sw_asid is read twice: when the frame is found taken, and for the write.*)
(* In between it can be lost, but only with the process whose page it is.  *)
VictimAt(t) ==
    /\ pc[t] \in {"invalidate", "writeBack", "writing"} => Victim(t).pte.asid \in Asid
    /\ pc[t] \in {"invalidate", "writeBack"} /\ Victim(t).asid = NOPROC =>
          ~ StillRuns(Victim(t).pte.asid)
    /\ pc[t] = "writing" =>
          \/ loc[t].asid = Victim(t).pte.asid
          \/ loc[t].asid = NOPROC /\ ~ StillRuns(Victim(t).pte.asid)

TargetInv == OneInv /\ OwnersAgree /\ \A t \in Thread : VictimAt(t)

LEMMA TargetInit == Init => TargetInv
<1> SUFFICES ASSUME Init PROVE TargetInv
  OBVIOUS
<1>1. \A t \in Thread : pc[t] \in {"run", "idle"}
  BY DEF Init
<1>2. \A f \in Frame : swap_pool_table[f].asid = NOPROC
  BY DEF Init
<1> QED BY <1>1, <1>2, OneInit DEF TargetInv, OwnersAgree, VictimAt

LEMMA ToldStopped ==
    ASSUME OneInv, NEW a \in test_inbox
    PROVE  a \in Asid /\ ~ StillRuns(a)
<1>1. a \in Asid
  BY DEF OneInv, MutexInv, TypeInv, PagerTypeOK
<1>2. pc[Sst(a)] \in {"dying", "dead"} /\ pc[Uproc(a)] \in {"idle", "receive", "dead"}
  BY <1>1, AsidFacts DEF OneInv, Told, InTurn, Handling
<1> QED BY <1>1, <1>2 DEF StillRuns, Inside

LEMMA RunsOn ==
    ASSUME TypeInv, [Next]_vars, NEW t \in Thread, Victim(t).pte.asid \in Asid,
           Victim(t)' = Victim(t), StillRuns(Victim(t).pte.asid)'
    PROVE  StillRuns(Victim(t).pte.asid)
<1>1. PICK b \in Asid : b = Victim(t).pte.asid
  OBVIOUS
<1>2. StillRuns(b)'
  BY <1>1 DEF StillRuns
<1> QED BY <1>1, <1>2, RanBefore

LEMMA TargetStep ==
    ASSUME TargetInv, InTurn', [Next]_vars
    PROVE  TargetInv'
<1>1. OneInv' /\ OneInv /\ MutexInv /\ TypeInv /\ Working
  BY OneStep DEF TargetInv, OneInv, MutexInv, TypeInv
<1>2. /\ pc \in [Thread -> Place]
      /\ loc \in [Thread -> [page : Block \cup {NOPAGE}, frame : Frame \cup {-1},
                             asid : Asid \cup {NOPROC}]]
      /\ swap_pool_table \in
            [Frame -> [asid : Asid \cup {NOPROC}, pageNo : Block \cup {0},
                       pte : [asid : Asid \cup {NOPROC}, slot : Slot]]]
  BY <1>1 DEF TypeInv, PagerTypeOK
<1>3. ASSUME NEW u \in Thread, swap_pool_table' = swap_pool_table,
             pc'[u] = pc[u], loc'[u] = loc[u]
      PROVE  VictimAt(u)'
  <2>1. VictimAt(u) /\ Victim(u)' = Victim(u)
    BY <1>3 DEF TargetInv, Victim
  <2>2. pc[u] \in {"invalidate", "writeBack", "writing"} =>
           (StillRuns(Victim(u).pte.asid)' => StillRuns(Victim(u).pte.asid))
    BY <1>1, <2>1, RunsOn DEF VictimAt
  <2> QED BY <1>3, <2>1, <2>2 DEF VictimAt
<1>4. CASE Aside
  <2>1. swap_pool_table' = swap_pool_table
    BY <1>4, AsideTables
  <2>2. ASSUME NEW u \in Thread  PROVE VictimAt(u)'
    <3>1. CASE pc'[u] \in Inside \ {"scan"}
      BY <1>1, <1>3, <1>4, <2>1, <3>1, AsideThreads
    <3>2. CASE pc'[u] \notin Inside \ {"scan"}
      BY <3>2 DEF VictimAt, Inside
    <3> QED BY <3>1, <3>2
  <2> QED BY <1>1, <2>1, <2>2 DEF TargetInv, OwnersAgree
<1>5. CASE \E a \in Asid : mark_free_pages(a)
  <2>1. PICK a \in Asid : mark_free_pages(a)
    BY <1>5
  <2>2. /\ pc' = pc /\ loc' = loc /\ ~ StillRuns(a)
        /\ swap_pool_table' =
              [f \in Frame |-> IF swap_pool_table[f].asid = a
                               THEN [swap_pool_table[f] EXCEPT !.asid = NOPROC]
                               ELSE swap_pool_table[f]]
    BY <1>1, <2>1, ToldStopped DEF mark_free_pages
  <2>3. \A f \in Frame : /\ swap_pool_table'[f].pte = swap_pool_table[f].pte
                         /\ swap_pool_table'[f].asid \in {NOPROC, swap_pool_table[f].asid}
                         /\ swap_pool_table[f].asid # a =>
                               swap_pool_table'[f].asid = swap_pool_table[f].asid
    BY <1>2, <2>2
  <2>4. OwnersAgree'
    BY <2>3 DEF TargetInv, OwnersAgree
  <2>5. ASSUME NEW u \in Thread  PROVE VictimAt(u)'
    <3>1. CASE pc[u] \in {"invalidate", "writeBack", "writing"}
      <4>1. loc[u].frame \in Frame
        BY <1>1, <3>1 DEF Working, Inside
      <4>2. PICK f \in Frame : f = loc[u].frame
        BY <4>1
      <4>3. /\ Victim(u) = swap_pool_table[f] /\ Victim(u)' = swap_pool_table'[f]
            /\ Victim(u)'.pte.asid = Victim(u).pte.asid
        BY <2>2, <2>3, <4>2 DEF Victim
      <4>4. \A b : StillRuns(b)' <=> StillRuns(b)
        BY <2>2 DEF StillRuns
      <4>5. StillRuns(Victim(u).pte.asid)' <=> StillRuns(Victim(u).pte.asid)
        BY <2>2, <4>3 DEF StillRuns
      <4>6. /\ VictimAt(u)
            /\ swap_pool_table[f].asid = a => swap_pool_table[f].pte.asid \in {a, NOPROC}
            /\ a # NOPROC /\ (swap_pool_table[f].asid = a => swap_pool_table[f].pte.asid = a)
        BY <2>1, PagerAssumption DEF TargetInv, OwnersAgree, NOPROC
      <4>7. CASE swap_pool_table[f].asid = a
        <5>1. ~ StillRuns(Victim(u).pte.asid)'
          BY <2>2, <4>3, <4>5, <4>6, <4>7
        <5> QED BY <2>2, <4>3, <4>5, <4>6, <5>1 DEF VictimAt
      <4>8. CASE swap_pool_table[f].asid # a
        <5>1. Victim(u)'.asid = Victim(u).asid
          BY <2>3, <4>2, <4>3, <4>8
        <5> QED BY <2>2, <4>3, <4>5, <4>6, <5>1 DEF VictimAt
      <4> QED BY <4>7, <4>8
    <3>2. CASE pc[u] \notin {"invalidate", "writeBack", "writing"}
      BY <2>2, <3>2 DEF VictimAt
    <3> QED BY <3>1, <3>2
  <2> QED BY <1>1, <2>4, <2>5 DEF TargetInv
<1>6. ASSUME NEW t \in Thread, InsideStep(t)  PROVE TargetInv'
  <2>1. pc[t] \in Inside /\ loc[t].frame \in Frame
    BY <1>1, <1>6, InsideStepFacts DEF Working
  <2>2. ASSUME NEW u \in Thread, u # t  PROVE VictimAt(u)'
    <3>1. pc'[u] = pc[u] /\ pc[u] \notin Inside
      BY <1>1, <1>6, <2>2, InsideOthers
    <3> QED BY <3>1 DEF VictimAt, Inside
  <2>3. CASE getFrameIndex(t)
    <3>1. swap_pool_table' = swap_pool_table
      BY <2>3 DEF getFrameIndex
    <3>2. pc'[t] \in {"scan", "check"}
      BY <1>2, <2>3 DEF getFrameIndex, Goes, At
    <3> QED BY <1>1, <2>2, <3>1, <3>2 DEF TargetInv, OwnersAgree, VictimAt
  <2>4. CASE ChecksFrame(t)
    <3>1. /\ UNCHANGED <<swap_pool_table, loc>>
          /\ pc'[t] = IF isFrameFree(loc[t].frame) THEN "readIn" ELSE "invalidate"
      BY <1>2, <2>4 DEF ChecksFrame, swapVars, Goes
    <3>2. VictimAt(t)'
      <4>1. PICK f \in Frame : f = loc[t].frame
        BY <2>1
      <4>2. swap_pool_table[f].asid \in {NOPROC, swap_pool_table[f].pte.asid}
            /\ swap_pool_table[f].asid \in Asid \cup {NOPROC}
        BY <1>2 DEF TargetInv, OwnersAgree
      <4> QED BY <3>1, <4>1, <4>2 DEF VictimAt, Victim, isFrameFree
    <3> QED BY <1>1, <2>2, <3>1, <3>2 DEF TargetInv, OwnersAgree
  <2>5. CASE Invalidates(t)
    <3>1. /\ UNCHANGED <<swap_pool_table, loc>>
          /\ pc[t] = "invalidate" /\ pc'[t] \in {"writeBack", "readIn"}
      BY <1>2, <2>5 DEF Invalidates, swapVars, At, Goes
    <3>2. VictimAt(t)'
      <4>1. VictimAt(t) /\ Victim(t)' = Victim(t)
        BY <3>1 DEF TargetInv, Victim
      <4>2. StillRuns(Victim(t).pte.asid)' => StillRuns(Victim(t).pte.asid)
        BY <1>1, <3>1, <4>1, RunsOn DEF VictimAt
      <4> QED BY <3>1, <4>1, <4>2 DEF VictimAt
    <3> QED BY <1>1, <2>2, <3>1, <3>2 DEF TargetInv, OwnersAgree
  <2>6. CASE WritesBack(t)
    <3>1. /\ swap_pool_table' = swap_pool_table
          /\ loc'[t].asid = Victim(t).asid /\ loc'[t].frame = loc[t].frame
          /\ pc[t] = "writeBack" /\ pc'[t] = "writing"
      BY <1>2, <2>6 DEF WritesBack, swapVars, At, Goes
    <3>2. VictimAt(t)'
      <4>1. PICK f \in Frame : f = loc[t].frame
        BY <2>1
      <4>2. /\ VictimAt(t) /\ Victim(t)' = Victim(t) /\ Victim(t) = swap_pool_table[f]
            /\ swap_pool_table[f].asid \in {NOPROC, swap_pool_table[f].pte.asid}
        BY <3>1, <4>1 DEF TargetInv, OwnersAgree, Victim
      <4>3. StillRuns(Victim(t).pte.asid)' => StillRuns(Victim(t).pte.asid)
        BY <1>1, <3>1, <4>2, RunsOn DEF VictimAt
      <4> QED BY <3>1, <4>2, <4>3 DEF VictimAt
    <3> QED BY <1>1, <2>2, <3>1, <3>2 DEF TargetInv, OwnersAgree
  <2>7. CASE FlashWrites(t) \/ FlashReads(t) \/ FlashFails(t) \/ Maps(t)
    <3>1. /\ swap_pool_table' = swap_pool_table
          /\ pc'[t] \in {"readIn", "settle", "trap", "release"}
      BY <1>2, <2>7 DEF FlashWrites, FlashReads, FlashFails, Maps, swapVars, Goes
    <3> QED BY <1>1, <2>2, <3>1 DEF TargetInv, OwnersAgree, VictimAt
  <2>8. CASE Settles(t)
    <3>1. pc'[t] \in {"map", "trap"}
      BY <1>2, <2>8 DEF Settles, Goes
    <3>2. \/ swap_pool_table' = swap_pool_table
          \/ swap_pool_table' = [swap_pool_table EXCEPT ![loc[t].frame] =
                [asid |-> AsidOf(t), pageNo |-> loc[t].page,
                 pte |-> [asid |-> AsidOf(t),
                          slot |-> SlotFor(AsidOf(t), FaultPage(t))]]]
      BY <2>8 DEF Settles
    <3>3. OwnersAgree'
      BY <1>2, <3>2 DEF TargetInv, OwnersAgree
    <3> QED BY <1>1, <2>2, <3>1, <3>3 DEF TargetInv, VictimAt
  <2> QED BY <1>6, <2>3, <2>4, <2>5, <2>6, <2>7, <2>8 DEF InsideStep
<1> QED BY <1>4, <1>5, <1>6, StepKinds

LEMMA TargetInvariance == Spec /\ []InTurn => []TargetInv
BY TargetInit, TargetStep, PTL DEF Spec

(* Though sw_asid is read for the write after interrupts have been enabled *)
(* again, and test may free the frame in between, a page is written to the *)
(* flash of the process it belongs to as long as that process runs; only a *)
(* page of a process that has ended can go astray, and none to a third's   *)
(* flash.                                                                  *)
THEOREM WritesToOwner == Spec /\ []InTurn => []WrittenToOwner
<1>1. TargetInv => WrittenToOwner
  BY DEF TargetInv, VictimAt, WrittenToOwner, Astray, At
<1> QED BY <1>1, TargetInvariance, PTL
-----------------------------------------------------------------------------
(* Page tables and TLB.  A page table is filled from its first entry and   *)
(* no page has two entries, so that the refill handler finds the one entry *)
(* that the pager wrote and may change.                                    *)

PackedRow(row) ==
    \A i, j \in Slot : /\ i < j /\ row[i].hi = NOPAGE => row[j].hi = NOPAGE
                       /\ row[i].hi = row[j].hi /\ row[i].hi # NOPAGE => i = j

(* What refill finds for a page in the page table row.                     *)
LoIn(row, p) ==
    IF \E i \in Slot : row[i].hi = p
    THEN row[CHOOSE i \in Slot : row[i].hi = p].lo
    ELSE Invalid

LEMMA LoInFacts ==
    ASSUME NEW row, PackedRow(row), NEW p, p # NOPAGE
    PROVE  /\ \A i \in Slot : row[i].hi = p => LoIn(row, p) = row[i].lo
           /\ (\A i \in Slot : row[i].hi # p) => LoIn(row, p) = Invalid
<1>1. ASSUME NEW i \in Slot, row[i].hi = p  PROVE LoIn(row, p) = row[i].lo
  <2>1. PICK j \in Slot : j = (CHOOSE k \in Slot : row[k].hi = p) /\ row[j].hi = p
    BY <1>1
  <2>2. j = i
    BY <1>1, <2>1 DEF PackedRow
  <2> QED BY <1>1, <2>1, <2>2 DEF LoIn
<1> QED BY <1>1 DEF LoIn

LEMMA RefillLoIn ==
    ASSUME NEW a, NEW p
    PROVE  RefillLo(a, p) = LoIn(pgTbl[a], p) /\ RefillLo(a, p)' = LoIn(pgTbl'[a], p)
BY DEF RefillLo, LoIn

Settled(t) ==
    pc[t] = "map" =>
        /\ Usable(AsidOf(t), FaultPage(t)) # {}
        /\ Victim(t).pte = [asid |-> AsidOf(t), slot |-> SlotFor(AsidOf(t), FaultPage(t))]

TlbInv ==
    /\ OneInv
    /\ \A a \in Asid : PackedRow(pgTbl[a])
    /\ \A t \in Thread : Settled(t)
    /\ TlbCoherent

LEMMA TlbInit == Init => TlbInv
<1> SUFFICES ASSUME Init PROVE TlbInv
  OBVIOUS
<1>1. /\ \A t \in Thread : pc[t] \in {"run", "idle"}
      /\ \A a \in Asid, i \in Slot : pgTbl[a][i].hi = NOPAGE
      /\ \A k \in Asid \X Page : tlb[k] = Absent
  BY DEF Init
<1>2. \A a \in Asid : \A p \in Pages[a] : tlb[<<a, p>>] = Absent
  BY <1>1, PageFacts
<1> QED BY <1>1, <1>2, OneInit DEF TlbInv, PackedRow, Settled, TlbCoherent

(* The state a pager works on stays while other threads take their steps.  *)
LEMMA StateStays ==
    ASSUME InTurn', OneInv, [Next]_vars, NEW u \in Thread, InPager(u), InPager(u)'
    PROVE  exceptState'[AsidOf(u)] = exceptState[AsidOf(u)]
<1>1. /\ PagerTypeOK /\ TypeInv /\ AsidOf(u) \in Asid
      /\ pc \in [Thread -> Place]
      /\ exceptState \in [Asid -> [thread : Thread \cup {NoThread}, page : Page \cup {NOPAGE}]]
  BY ThreadFacts DEF OneInv, MutexInv, TypeInv, PagerTypeOK
<1>2. CASE \E t \in Thread : Program(t)
  <2>1. PICK t \in Thread : Program(t)
    BY <1>2
  <2>2. pc[t] = "run"
    BY <2>1 DEF Program, Store, uTLB_RefillHandler, PageFault, StoreToText, OtherTrap, MayTouch, At
  <2>3. \/ exceptState' = exceptState
        \/ \E s : exceptState' = [exceptState EXCEPT ![AsidOf(t)] = s]
    BY <2>1 DEF Program, Store, uTLB_RefillHandler, PageFault, StoreToText, OtherTrap, PassUp
  <2>4. AsidOf(u) # AsidOf(t)
    BY <2>2, Alone DEF OneInv, InPager, Inside
  <2> QED BY <1>1, <2>3, <2>4, ThreadFacts
<1>3. CASE \E t \in Thread : InsideStep(t)
  BY <1>1, <1>3, InsideStepFacts
<1>4. ASSUME NEW t \in Thread, NEW gone, Forgets(AsidOf(t), gone), \A v \in gone : ~ InPager(v)'
      PROVE  exceptState'[AsidOf(u)] = exceptState[AsidOf(u)]
  BY <1>1, <1>4, ThreadFacts, ForgetsFacts
<1>5. CASE \E t \in Thread : Resumes(t)
  <2>1. PICK t \in Thread : Resumes(t)
    BY <1>5
  <2>2. Forgets(AsidOf(t), {t}) /\ pc'[t] = "run"
    BY <1>1, <2>1 DEF Resumes, Goes
  <2> QED BY <1>4, <2>2 DEF InPager, Inside
<1>6. CASE \E t \in Thread : Dies(t)
  <2>1. PICK t \in Thread : Dies(t)
    BY <1>6
  <2> DEFINE gone == IF t[1] = "sst" THEN {t, Uproc(AsidOf(t))} ELSE {t}
  <2>2. /\ Forgets(AsidOf(t), gone)
        /\ pc' = [v \in Thread |-> IF v \in gone THEN "dead" ELSE pc[v]]
    BY <2>1 DEF Dies
  <2>3. gone \subseteq Thread
    BY ThreadFacts, AsidFacts
  <2> HIDE DEF gone
  <2>4. \A v \in gone : ~ InPager(v)'
    BY <2>2, <2>3 DEF InPager, Inside
  <2> QED BY <1>4, <2>2, <2>4
<1>7. CASE exceptState' = exceptState
  BY <1>7
<1> QED BY <1>2, <1>3, <1>5, <1>6, <1>7
        DEF Next, Ended, WaitsInVain, vars, MutexTakes, MutexReleases, mark_free_pages, PagerStep,
            InsideStep, Ending, TrapSendsV, TellsParent, AsksMutex, Enters, Releases, Serving, UprocAsks,
            UprocReceives, SstAnswers, SstTerminates

(* Only refill changes the TLB without the page tables.                    *)
LEMMA AsideTlb ==
    ASSUME TlbInv, Aside
    PROVE  TlbCoherent'
<1>1. /\ PagerTypeOK /\ tlb \in [Asid \X Page -> EntryLo \cup {Absent}] /\ pgTbl' = pgTbl
      /\ \A a, p : RefillLo(a, p)' = RefillLo(a, p)
  BY AsideTables, RefillLoIn DEF TlbInv, OneInv, MutexInv, TypeInv, PagerTypeOK
<1>2. CASE tlb' = tlb
  BY <1>1, <1>2 DEF TlbInv, TlbCoherent
<1>3. CASE \E t \in Thread : \E p \in Page : uTLB_RefillHandler(t, p)
  <2>1. PICK t \in Thread, q \in Page, lost \in Asid \X Page :
           tlb' = [tlb EXCEPT ![lost] = Absent, ![<<AsidOf(t), q>>] = RefillLo(AsidOf(t), q)]
    BY <1>3 DEF uTLB_RefillHandler
  <2>2. ASSUME NEW a \in Asid, NEW p \in Pages[a]
        PROVE  tlb'[<<a, p>>] \in {Absent, RefillLo(a, p)}
    <3>1. <<a, p>> \in Asid \X Page /\ tlb[<<a, p>>] \in {Absent, RefillLo(a, p)}
      BY PageFacts DEF TlbInv, TlbCoherent
    <3>2. CASE <<a, p>> = <<AsidOf(t), q>>
      <4>1. tlb'[<<a, p>>] = RefillLo(AsidOf(t), q)
        BY <1>1, <2>1, <3>1, <3>2
      <4> QED BY <3>2, <4>1
    <3>3. CASE <<a, p>> # <<AsidOf(t), q>>
      <4>1. tlb'[<<a, p>>] = Absent \/ tlb'[<<a, p>>] = tlb[<<a, p>>]
        BY <1>1, <2>1, <3>1, <3>3
      <4> QED BY <3>1, <4>1
    <3> QED BY <3>2, <3>3
  <2> QED BY <1>1, <2>2 DEF TlbCoherent
<1>4. tlb' = tlb \/ \E t \in Thread : \E p \in Page : uTLB_RefillHandler(t, p)
  BY DEF Aside, vars, tableVars, MutexTakes, MutexReleases, Serving, UprocAsks, UprocReceives,
         SstAnswers, SstTerminates, Program, Store, PageFault, StoreToText, OtherTrap, PassUp, Ending,
         TrapSendsV, TellsParent, Dies, AsksMutex, Enters, Releases, Resumes
<1> QED BY <1>2, <1>3, <1>4

(* An entry may be written where the page is or would be looked for first, *)
(* and emptied where it is.                                                *)
LEMMA PackedWrite ==
    ASSUME NEW row, NEW s \in Slot, NEW e, PackedRow(row),
           row = [i \in Slot |-> row[i]],
           \/ e.hi = row[s].hi
           \/ /\ e.hi # NOPAGE /\ row[s].hi \in {NOPAGE, e.hi}
              /\ \A j \in Slot : row[j].hi \in {NOPAGE, e.hi} => s <= j
    PROVE  PackedRow([row EXCEPT ![s] = e])
<1> DEFINE new == [row EXCEPT ![s] = e]
<1>1. /\ new[s] = e /\ \A i \in Slot : i # s => new[i] = row[i]
      /\ Slot \subseteq Nat
  BY PagerAssumption DEF Slot
<1> HIDE DEF new
<1>2. CASE e.hi = row[s].hi
  <2>1. \A i \in Slot : new[i].hi = row[i].hi
    BY <1>1, <1>2
  <2>2. PackedRow(new)
    BY <2>1 DEF PackedRow
  <2> QED BY <2>2 DEF new
<1>3. CASE /\ e.hi # NOPAGE /\ row[s].hi \in {NOPAGE, e.hi}
           /\ \A j \in Slot : row[j].hi \in {NOPAGE, e.hi} => s <= j
  <2>1. ASSUME NEW j \in Slot, row[j].hi = e.hi  PROVE j = s
    <3>1. s <= j /\ s \in Nat /\ j \in Nat
      BY <1>1, <1>3, <2>1
    <3> QED BY <1>3, <2>1, <3>1 DEF PackedRow
  <2>2. ASSUME NEW i \in Slot, NEW j \in Slot, i < j, new[i].hi = NOPAGE
        PROVE  new[j].hi = NOPAGE
    <3>1. i # s /\ row[i].hi = NOPAGE
      BY <1>1, <1>3, <2>2
    <3>2. s <= i /\ i \in Nat /\ j \in Nat /\ s \in Nat
      BY <1>1, <1>3, <3>1
    <3>3. j # s /\ row[j].hi = NOPAGE
      BY <2>2, <3>1, <3>2 DEF PackedRow
    <3> QED BY <1>1, <3>3
  <2>3. ASSUME NEW i \in Slot, NEW j \in Slot, new[i].hi = new[j].hi, new[i].hi # NOPAGE
        PROVE  i = j
    <3>1. CASE i = s \/ j = s
      BY <1>1, <2>1, <2>3, <3>1
    <3>2. CASE i # s /\ j # s
      BY <1>1, <2>3, <3>2 DEF PackedRow
    <3> QED BY <3>1, <3>2
  <2>4. PackedRow(new)
    BY <2>2, <2>3 DEF PackedRow
  <2> QED BY <2>4 DEF new
<1> QED BY <1>2, <1>3

(* Page table and TLB change together.                                     *)
LEMMA WritesBoth ==
    ASSUME TlbInv, NEW b \in Asid, NEW s \in Slot, NEW h, NEW e, e.hi = h,
           pgTbl' = [pgTbl EXCEPT ![b][s] = e],
           tlb' = [tlb EXCEPT ![<<b, h>>] = IF @ = Absent THEN @ ELSE e.lo],
           pgTbl[b][s].hi \in {NOPAGE, h},
           PackedRow(pgTbl'[b])
    PROVE  (\A a \in Asid : PackedRow(pgTbl'[a])) /\ TlbCoherent'
<1>1. /\ pgTbl \in [Asid -> [Slot -> [hi : Page \cup {NOPAGE}, lo : EntryLo]]]
      /\ tlb \in [Asid \X Page -> EntryLo \cup {Absent}]
  BY DEF TlbInv, OneInv, MutexInv, TypeInv, PagerTypeOK
<1>2. /\ \A a \in Asid : a # b => pgTbl'[a] = pgTbl[a]
      /\ pgTbl'[b][s] = e /\ \A i \in Slot : i # s => pgTbl'[b][i] = pgTbl[b][i]
  BY <1>1
<1>3. ASSUME NEW a \in Asid  PROVE PackedRow(pgTbl'[a])
  BY <1>2 DEF TlbInv
<1>4. ASSUME NEW a \in Asid, NEW p \in Pages[a]
      PROVE  tlb'[<<a, p>>] \in {Absent, LoIn(pgTbl'[a], p)}
  <2>1. /\ <<a, p>> \in Asid \X Page /\ p # NOPAGE
        /\ tlb[<<a, p>>] \in {Absent, LoIn(pgTbl[a], p)}
    BY PageFacts, RefillLoIn DEF TlbInv, TlbCoherent
  <2>2. CASE a # b
    <3>1. tlb'[<<a, p>>] = tlb[<<a, p>>] /\ pgTbl'[a] = pgTbl[a]
      BY <1>1, <1>2, <2>1, <2>2
    <3> QED BY <2>1, <3>1
  <2>3. CASE a = b /\ p = h
    <3>1. LoIn(pgTbl'[b], p) = e.lo
      <4>1. PICK new : new = pgTbl'[b]
        OBVIOUS
      <4>2. PackedRow(new) /\ new[s].hi = p /\ new[s].lo = e.lo
        BY <1>2, <2>3, <4>1
      <4>3. LoIn(new, p) = e.lo
        BY <2>1, <4>2, LoInFacts
      <4> QED BY <4>1, <4>3
    <3>2. tlb'[<<b, h>>] = IF tlb[<<b, h>>] = Absent THEN Absent ELSE e.lo
      BY <1>1, <2>1, <2>3
    <3> QED BY <2>3, <3>1, <3>2
  <2>4. CASE a = b /\ p # h
    <3>1. tlb'[<<b, p>>] = tlb[<<b, p>>]
      BY <1>1, <2>1, <2>4
    <3>2. \A i \in Slot : /\ pgTbl'[b][i].hi = p <=> pgTbl[b][i].hi = p
                          /\ pgTbl[b][i].hi = p => pgTbl'[b][i] = pgTbl[b][i]
      BY <1>2, <2>1, <2>4
    <3>3. PackedRow(pgTbl[b])
      BY DEF TlbInv
    <3>4. LoIn(pgTbl'[b], p) = LoIn(pgTbl[b], p)
      <4>1. CASE \E i \in Slot : pgTbl[b][i].hi = p
        <5>1. PICK i \in Slot : pgTbl[b][i].hi = p
          BY <4>1
        <5>2. LoIn(pgTbl[b], p) = pgTbl[b][i].lo
          BY <2>1, <3>3, <5>1, LoInFacts
        <5>3. PICK new : new = pgTbl'[b]
          OBVIOUS
        <5>4. PackedRow(new) /\ new[i].hi = p /\ new[i].lo = pgTbl[b][i].lo
          BY <3>2, <5>1, <5>3
        <5>5. LoIn(new, p) = new[i].lo
          BY <2>1, <5>4, LoInFacts
        <5> QED BY <5>2, <5>3, <5>4, <5>5
      <4>2. CASE \A i \in Slot : pgTbl[b][i].hi # p
        BY <3>2, <4>2 DEF LoIn
      <4> QED BY <4>1, <4>2
    <3> QED BY <2>1, <2>4, <3>1, <3>4
  <2> QED BY <2>2, <2>3, <2>4
<1> QED BY <1>3, <1>4, RefillLoIn DEF TlbCoherent

(* The steps of a pager that leave the tables alone.                       *)
PlainStep(t) ==
    \/ getFrameIndex(t) \/ ChecksFrame(t) \/ WritesBack(t) \/ FlashWrites(t)
    \/ FlashReads(t) \/ FlashFails(t)

LEMMA PlainFacts ==
    ASSUME TypeInv, NEW t \in Thread, PlainStep(t)
    PROVE  /\ UNCHANGED <<pgTbl, tlb, swap_pool_table>> /\ mem' = mem
           /\ pc'[t] \in {"scan", "check", "readIn", "invalidate", "writing", "settle", "trap"}
<1>1. pc \in [Thread -> Place]
  BY DEF TypeInv, PagerTypeOK
<1>2. UNCHANGED <<pgTbl, tlb, swap_pool_table, mem>>
  BY DEF PlainStep, getFrameIndex, ChecksFrame, WritesBack, FlashWrites, FlashReads, FlashFails,
         tableVars, swapVars, storeVars
<1>3. pc'[t] \in {"scan", "check", "readIn", "invalidate", "writing", "settle", "trap"}
  BY <1>1 DEF PlainStep, getFrameIndex, ChecksFrame, WritesBack, FlashWrites, FlashReads,
              FlashFails, At, Goes
<1> QED BY <1>2, <1>3

LEMMA InsideSplit ==
    ASSUME NEW t \in Thread, InsideStep(t)
    PROVE  PlainStep(t) \/ Invalidates(t) \/ Settles(t) \/ Maps(t)
BY DEF InsideStep, PlainStep

LEMMA TlbSame ==
    ASSUME TlbCoherent, UNCHANGED <<pgTbl, tlb>>
    PROVE  TlbCoherent'
<1>1. ASSUME NEW a \in Asid, NEW p \in Pages[a]
      PROVE  tlb'[<<a, p>>] \in {Absent, LoIn(pgTbl'[a], p)}
  <2>1. tlb[<<a, p>>] \in {Absent, LoIn(pgTbl[a], p)}
    BY RefillLoIn DEF TlbCoherent
  <2> QED BY <2>1
<1> QED BY <1>1, RefillLoIn DEF TlbCoherent

LEMMA TlbInvalidates ==
    ASSUME TlbInv, NEW t \in Thread, Invalidates(t)
    PROVE  (\A a \in Asid : PackedRow(pgTbl'[a])) /\ TlbCoherent'
<1>1. /\ TypeInv /\ Working
      /\ pgTbl \in [Asid -> [Slot -> [hi : Page \cup {NOPAGE}, lo : EntryLo]]]
      /\ tlb \in [Asid \X Page -> EntryLo \cup {Absent}]
      /\ swap_pool_table \in
            [Frame -> [asid : Asid \cup {NOPROC}, pageNo : Block \cup {0},
                       pte : [asid : Asid \cup {NOPROC}, slot : Slot]]]
  BY DEF TlbInv, OneInv, MutexInv, TypeInv, PagerTypeOK
<1>2. /\ pc[t] = "invalidate"
      /\ pgTbl' = [pgTbl EXCEPT ![Victim(t).pte.asid][Victim(t).pte.slot].lo = Invalid]
      /\ update_tlb(Victim(t).pte.asid, VictimEntry(t).hi, Invalid)
  BY DEF Invalidates, At
<1>3. loc[t].frame \in Frame
  BY <1>1, <1>2 DEF Working, Inside
<1>4. PICK b \in Asid \cup {NOPROC}, s \in Slot : b = Victim(t).pte.asid /\ s = Victim(t).pte.slot
  BY <1>1, <1>3 DEF Victim
<1>5. CASE b = NOPROC
  <2>1. b \notin Asid /\ \A h : <<b, h>> \notin Asid \X Page
    BY <1>5, PagerAssumption DEF NOPROC
  <2>2. pgTbl' = pgTbl
    BY <1>1, <1>2, <1>4, <2>1
  <2>3. tlb' = tlb
    BY <1>1, <1>2, <1>4, <2>1 DEF update_tlb
  <2> QED BY <2>2, <2>3 DEF TlbInv, TlbCoherent, RefillLo
<1>6. CASE b \in Asid
  <2>1. PICK h : h = pgTbl[b][s].hi
    OBVIOUS
  <2>2. PICK e : e = [hi |-> h, lo |-> Invalid]
    OBVIOUS
  <2>3. pgTbl' = [pgTbl EXCEPT ![b][s] = e]
    <3>1. [pgTbl[b][s] EXCEPT !.lo = Invalid] = e
      <4>1. pgTbl[b][s] \in [hi : Page \cup {NOPAGE}, lo : EntryLo]
        BY <1>1, <1>6
      <4> QED BY <2>1, <2>2, <4>1
    <3> QED BY <1>1, <1>2, <1>4, <1>6, <3>1
  <2>4. tlb' = [tlb EXCEPT ![<<b, h>>] = IF @ = Absent THEN @ ELSE e.lo]
    BY <1>2, <1>4, <2>1, <2>2 DEF update_tlb, VictimEntry
  <2>5. PICK row : row = pgTbl[b]
    OBVIOUS
  <2>6. PackedRow(row) /\ row = [i \in Slot |-> row[i]] /\ e.hi = row[s].hi /\ e.hi = h
        /\ e.lo = Invalid
    BY <1>1, <1>6, <2>1, <2>2, <2>5 DEF TlbInv
  <2>7. PackedRow([row EXCEPT ![s] = e])
    BY <2>6, PackedWrite
  <2>8. pgTbl'[b] = [row EXCEPT ![s] = e]
    BY <1>1, <1>6, <2>3, <2>5
  <2>9. PackedRow(pgTbl'[b])
    BY <2>7, <2>8
  <2> QED BY <1>6, <2>1, <2>3, <2>4, <2>6, <2>9, WritesBoth
<1> QED BY <1>5, <1>6

LEMMA TlbMaps ==
    ASSUME TlbInv, NEW t \in Thread, Maps(t)
    PROVE  (\A a \in Asid : PackedRow(pgTbl'[a])) /\ TlbCoherent'
<1>1. /\ TypeInv /\ Working /\ Faulting
      /\ pgTbl \in [Asid -> [Slot -> [hi : Page \cup {NOPAGE}, lo : EntryLo]]]
      /\ tlb \in [Asid \X Page -> EntryLo \cup {Absent}]
  BY DEF TlbInv, OneInv, MutexInv, TypeInv, PagerTypeOK
<1>2. PICK lo : lo = [frame |-> loc[t].frame, dirty |-> need_dirty(AsidOf(t), loc[t].page)]
  OBVIOUS
<1>3. PICK b \in Asid, h \in Pages[AsidOf(t)], s \in Slot :
         /\ b = AsidOf(t) /\ h = FaultPage(t) /\ s = Victim(t).pte.slot
         /\ pgTbl[b][s].hi \in {NOPAGE, h} /\ \A j \in Usable(b, h) : s <= j
  <2>1. pc[t] = "map"
    BY DEF Maps, At
  <2>2. AsidOf(t) \in Asid /\ FaultPage(t) \in Pages[AsidOf(t)]
    BY <1>1, <2>1, ThreadFacts DEF Faulting, InPager, Inside
  <2>3. /\ Usable(AsidOf(t), FaultPage(t)) # {}
        /\ Victim(t).pte.slot = SlotFor(AsidOf(t), FaultPage(t))
    <3>1. Settled(t)
      BY DEF TlbInv
    <3>2. /\ Usable(AsidOf(t), FaultPage(t)) # {}
          /\ Victim(t).pte = [asid |-> AsidOf(t), slot |-> SlotFor(AsidOf(t), FaultPage(t))]
      BY <2>1, <3>1 DEF Settled
    <3> QED BY <3>2
  <2> QED BY <2>2, <2>3, SlotForFacts
<1>4. h # NOPAGE
  BY <1>3, ThreadFacts, PageFacts
<1>5. PICK e : e = [hi |-> h, lo |-> lo]
  OBVIOUS
<1>6. pgTbl' = [pgTbl EXCEPT ![b][s] = e]
  BY <1>2, <1>3, <1>5 DEF Maps
<1>7. tlb' = [tlb EXCEPT ![<<b, h>>] = IF @ = Absent THEN @ ELSE e.lo]
  BY <1>2, <1>3, <1>5 DEF Maps, update_tlb
<1>8. PICK row : row = pgTbl[b]
  OBVIOUS
<1>9. /\ PackedRow(row) /\ row = [i \in Slot |-> row[i]] /\ e.hi = h /\ e.hi # NOPAGE
      /\ row[s].hi \in {NOPAGE, e.hi}
      /\ \A j \in Slot : row[j].hi \in {NOPAGE, e.hi} => s <= j
  BY <1>1, <1>3, <1>4, <1>5, <1>8 DEF TlbInv, Usable
<1>10. PackedRow([row EXCEPT ![s] = e])
  BY <1>9, PackedWrite
<1>11. pgTbl'[b] = [row EXCEPT ![s] = e]
  BY <1>1, <1>6, <1>8
<1>12. PackedRow(pgTbl'[b])
  BY <1>10, <1>11
<1>13. pgTbl[b][s].hi \in {NOPAGE, h} /\ e.hi = h
  BY <1>3, <1>9
<1> QED BY <1>6, <1>7, <1>12, <1>13, WritesBoth

LEMMA TlbStep ==
    ASSUME TlbInv, InTurn', [Next]_vars
    PROVE  TlbInv'
<1>1. OneInv' /\ MutexInv /\ TypeInv /\ Working
  BY OneStep DEF TlbInv, OneInv, MutexInv, TypeInv
<1>2. /\ pc \in [Thread -> Place]
      /\ swap_pool_table \in
            [Frame -> [asid : Asid \cup {NOPROC}, pageNo : Block \cup {0},
                       pte : [asid : Asid \cup {NOPROC}, slot : Slot]]]
  BY <1>1 DEF TypeInv, PagerTypeOK
<1>3. ASSUME NEW u \in Thread, pgTbl' = pgTbl, pc'[u] = "map",
             pc[u] = "map", loc'[u] = loc[u],
             swap_pool_table'[loc[u].frame].pte = swap_pool_table[loc[u].frame].pte
      PROVE  Settled(u)'
  <2>1. exceptState'[AsidOf(u)] = exceptState[AsidOf(u)]
    BY <1>3, StateStays DEF TlbInv, InPager, Inside
  <2>2. /\ Usable(AsidOf(u), FaultPage(u))' = Usable(AsidOf(u), FaultPage(u))
        /\ SlotFor(AsidOf(u), FaultPage(u))' = SlotFor(AsidOf(u), FaultPage(u))
    BY <1>3, <2>1 DEF Usable, SlotFor, FaultPage
  <2>3. Victim(u)'.pte = Victim(u).pte
    BY <1>3 DEF Victim
  <2>4. Settled(u)
    BY DEF TlbInv
  <2> QED BY <1>3, <2>2, <2>3, <2>4 DEF Settled
<1>4. CASE Aside
  <2>1. UNCHANGED <<pgTbl, swap_pool_table>>
    BY <1>4, AsideTables
  <2>2. ASSUME NEW u \in Thread  PROVE Settled(u)'
    <3>1. CASE pc'[u] = "map"
      <4>1. pc'[u] = pc[u] /\ loc'[u] = loc[u]
        BY <1>1, <1>4, <3>1, AsideThreads DEF Inside
      <4> QED BY <1>3, <2>1, <3>1, <4>1
    <3> QED BY <3>1 DEF Settled
  <2>3. TlbCoherent'
    BY <1>4, AsideTlb
  <2> QED BY <1>1, <2>1, <2>2, <2>3 DEF TlbInv
<1>5. CASE \E a \in Asid : mark_free_pages(a)
  <2>1. PICK a \in Asid : mark_free_pages(a)
    BY <1>5
  <2>2. /\ UNCHANGED <<pc, loc, pgTbl, tlb>>
        /\ \A f \in Frame : swap_pool_table'[f].pte = swap_pool_table[f].pte
    BY <1>2, <2>1 DEF mark_free_pages, tableVars
  <2>3. ASSUME NEW u \in Thread  PROVE Settled(u)'
    <3>1. CASE pc'[u] = "map"
      <4>1. loc[u].frame \in Frame
        BY <1>1, <2>2, <3>1 DEF Working, Inside
      <4> QED BY <1>3, <2>2, <3>1, <4>1
    <3> QED BY <3>1 DEF Settled
  <2>4. TlbCoherent'
    BY <2>2, TlbSame DEF TlbInv
  <2> QED BY <1>1, <2>2, <2>3, <2>4 DEF TlbInv
<1>6. ASSUME NEW t \in Thread, InsideStep(t)  PROVE TlbInv'
  <2>1. ASSUME NEW u \in Thread, u # t  PROVE Settled(u)'
    <3>1. pc'[u] = pc[u] /\ pc[u] \notin Inside
      BY <1>1, <1>6, <2>1, InsideOthers
    <3> QED BY <3>1 DEF Settled, Inside
  <2>2. CASE PlainStep(t)
    <3>1. UNCHANGED <<pgTbl, tlb>> /\ pc'[t] # "map"
      BY <1>1, <2>2, PlainFacts
    <3>2. TlbCoherent'
      BY <3>1, TlbSame DEF TlbInv
    <3> QED BY <1>1, <2>1, <3>1, <3>2 DEF TlbInv, Settled
  <2>3. CASE Invalidates(t)
    <3>1. pc'[t] # "map"
      BY <1>2, <2>3 DEF Invalidates, Goes
    <3> QED BY <1>1, <2>1, <2>3, <3>1, TlbInvalidates DEF TlbInv, Settled
  <2>4. CASE Maps(t)
    <3>1. pc'[t] # "map"
      BY <1>2, <2>4 DEF Maps, Goes
    <3> QED BY <1>1, <2>1, <2>4, <3>1, TlbMaps DEF TlbInv, Settled
  <2>5. CASE Settles(t)
    <3>1. pc[t] = "settle" /\ UNCHANGED <<loc, exceptState, pgTbl, tlb>>
      BY <2>5 DEF Settles, At, tableVars
    <3>2. TlbCoherent'
      BY <3>1, TlbSame DEF TlbInv
    <3>3. Settled(t)'
      <4>1. CASE Usable(AsidOf(t), FaultPage(t)) = {}
        BY <1>2, <2>5, <4>1 DEF Settles, Goes, Settled
      <4>2. CASE Usable(AsidOf(t), FaultPage(t)) # {}
        <5>1. swap_pool_table' = [swap_pool_table EXCEPT ![loc[t].frame] =
                [asid |-> AsidOf(t), pageNo |-> loc[t].page,
                 pte |-> [asid |-> AsidOf(t), slot |-> SlotFor(AsidOf(t), FaultPage(t))]]]
          BY <2>5, <4>2 DEF Settles
        <5>2. loc[t].frame \in Frame
          BY <1>1, <3>1 DEF Working, Inside
        <5>3. Victim(t)'.pte = [asid |-> AsidOf(t), slot |-> SlotFor(AsidOf(t), FaultPage(t))]
          BY <1>2, <3>1, <5>1, <5>2 DEF Victim
        <5>4. /\ Usable(AsidOf(t), FaultPage(t))' = Usable(AsidOf(t), FaultPage(t))
              /\ SlotFor(AsidOf(t), FaultPage(t))' = SlotFor(AsidOf(t), FaultPage(t))
          BY <3>1 DEF Usable, SlotFor, FaultPage
        <5> QED BY <4>2, <5>3, <5>4 DEF Settled
      <4> QED BY <4>1, <4>2
    <3> QED BY <1>1, <2>1, <3>1, <3>2, <3>3 DEF TlbInv
  <2> QED BY <1>6, <2>2, <2>3, <2>4, <2>5, InsideSplit
<1> QED BY <1>4, <1>5, <1>6, StepKinds

LEMMA TlbInvariance == Spec /\ []InTurn => []TlbInv
BY TlbInit, TlbStep, PTL DEF Spec

(* Between two steps of a pager no program can use a translation that the  *)
(* page table has lost, or changed, whatever refills come between.         *)
THEOREM TranslationsRevoked == Spec /\ []InTurn => []TlbCoherent
<1>1. TlbInv => TlbCoherent
  BY DEF TlbInv
<1> QED BY <1>1, TlbInvariance, PTL
-----------------------------------------------------------------------------
(* The swap pool.  While a pager replaces a page, no running process sees  *)
(* the frame; when it maps the frame, the swap pool names it as the owner. *)

Evicting == {"writeBack", "writing", "readIn", "settle", "map"}

Cleared(t) ==
    pc[t] \in Evicting =>
        \A a \in Asid, i \in Slot :
            StillRuns(a) /\ Valid(pgTbl[a][i].lo) => pgTbl[a][i].lo.frame # loc[t].frame

Owned(t) ==
    pc[t] = "map" => /\ Victim(t).asid = AsidOf(t)
                     /\ Victim(t).pageNo = find_page_by_entryhi(FaultPage(t))

SwapInv ==
    /\ TlbInv
    /\ \A t \in Thread : Cleared(t) /\ Owned(t)
    /\ SwapExact

LEMMA SwapInit == Init => SwapInv
<1> SUFFICES ASSUME Init PROVE SwapInv
  OBVIOUS
<1>1. /\ \A t \in Thread : pc[t] \in {"run", "idle"}
      /\ \A a \in Asid, i \in Slot : pgTbl[a][i].lo = Invalid
  BY DEF Init
<1>2. \A a \in Asid, i \in Slot : ~ Valid(pgTbl[a][i].lo)
  BY <1>1 DEF Valid, Invalid
<1> QED BY <1>1, <1>2, TlbInit DEF SwapInv, Cleared, Owned, SwapExact, Evicting

LEMMA InsideRuns ==
    ASSUME NEW t \in Thread, pc[t] \in Inside
    PROVE  AsidOf(t) \in Asid /\ StillRuns(AsidOf(t))
BY ThreadFacts DEF StillRuns

(* What holds of the entries of running processes, with the names expanded.*)
LEMMA ExactEntry ==
    ASSUME SwapExact, NEW a \in Asid, NEW i \in Slot, StillRuns(a), Valid(pgTbl[a][i].lo)
    PROVE  /\ swap_pool_table[pgTbl[a][i].lo.frame].asid = a
           /\ swap_pool_table[pgTbl[a][i].lo.frame].pageNo = find_page_by_entryhi(pgTbl[a][i].hi)
           /\ swap_pool_table[pgTbl[a][i].lo.frame].pte = [asid |-> a, slot |-> i]
BY DEF SwapExact

LEMMA ExactStays ==
    ASSUME SwapInv, [Next]_vars,
           \A a \in Asid, i \in Slot :
              StillRuns(a) /\ Valid(pgTbl'[a][i].lo) =>
                 /\ pgTbl'[a][i] = pgTbl[a][i]
                 /\ swap_pool_table'[pgTbl[a][i].lo.frame] = swap_pool_table[pgTbl[a][i].lo.frame]
    PROVE  SwapExact'
<1>1. TypeInv
  BY DEF SwapInv, TlbInv, OneInv, MutexInv
<1>2. ASSUME NEW a \in Asid, NEW i \in Slot, StillRuns(a)', Valid(pgTbl'[a][i].lo)
      PROVE  /\ swap_pool_table'[pgTbl'[a][i].lo.frame].asid = a
             /\ swap_pool_table'[pgTbl'[a][i].lo.frame].pageNo = find_page_by_entryhi(pgTbl'[a][i].hi)
             /\ swap_pool_table'[pgTbl'[a][i].lo.frame].pte = [asid |-> a, slot |-> i]
  <2>1. StillRuns(a)
    BY <1>1, <1>2, RanBefore
  <2>2. pgTbl'[a][i] = pgTbl[a][i] /\ Valid(pgTbl[a][i].lo)
    BY <1>2, <2>1
  <2> QED BY <1>2, <2>1, <2>2, ExactEntry DEF SwapInv
<1>3. \A p : find_page_by_entryhi(p)' = find_page_by_entryhi(p)
  BY DEF find_page_by_entryhi
<1> QED BY <1>2, <1>3 DEF SwapExact, Valid, find_page_by_entryhi

LEMMA ClearedStays ==
    ASSUME SwapInv, [Next]_vars, NEW t \in Thread,
           pc[t] \in Evicting, loc'[t].frame = loc[t].frame,
           \A a \in Asid, i \in Slot :
              StillRuns(a) /\ Valid(pgTbl'[a][i].lo) => pgTbl'[a][i] = pgTbl[a][i]
    PROVE  Cleared(t)'
<1>1. TypeInv
  BY DEF SwapInv, TlbInv, OneInv, MutexInv
<1>2. ASSUME NEW a \in Asid, NEW i \in Slot, StillRuns(a)', Valid(pgTbl'[a][i].lo)
      PROVE  pgTbl'[a][i].lo.frame # loc'[t].frame
  <2>1. StillRuns(a)
    BY <1>1, <1>2, RanBefore
  <2>2. pgTbl'[a][i] = pgTbl[a][i] /\ Valid(pgTbl[a][i].lo)
    BY <1>2, <2>1
  <2> QED BY <2>1, <2>2 DEF SwapInv, Cleared
<1> QED BY <1>2 DEF Cleared, Valid

LEMMA SwapStep ==
    ASSUME SwapInv, InTurn', [Next]_vars
    PROVE  SwapInv'
<1>1. TlbInv' /\ TlbInv /\ OneInv /\ MutexInv /\ TypeInv /\ Working /\ SwapExact
  BY TlbStep DEF SwapInv, TlbInv, OneInv, MutexInv, TypeInv
<1>2. /\ pc \in [Thread -> Place]
      /\ loc \in [Thread -> [page : Block \cup {NOPAGE}, frame : Frame \cup {-1},
                             asid : Asid \cup {NOPROC}]]
      /\ pgTbl \in [Asid -> [Slot -> [hi : Page \cup {NOPAGE}, lo : EntryLo]]]
      /\ swap_pool_table \in
            [Frame -> [asid : Asid \cup {NOPROC}, pageNo : Block \cup {0},
                       pte : [asid : Asid \cup {NOPROC}, slot : Slot]]]
  BY <1>1 DEF TypeInv, PagerTypeOK
<1>3. ASSUME NEW u \in Thread, pc'[u] = "map", pc[u] = "map", loc'[u] = loc[u],
             swap_pool_table'[loc[u].frame] = swap_pool_table[loc[u].frame]
      PROVE  Owned(u)'
  <2>1. exceptState'[AsidOf(u)] = exceptState[AsidOf(u)]
    BY <1>1, <1>3, StateStays DEF InPager, Inside
  <2>2. FaultPage(u)' = FaultPage(u) /\ Victim(u)' = Victim(u)
    BY <1>3, <2>1 DEF FaultPage, Victim
  <2>3. Owned(u)
    BY DEF SwapInv
  <2>4. find_page_by_entryhi(FaultPage(u))' = find_page_by_entryhi(FaultPage(u))
    BY <2>2 DEF find_page_by_entryhi
  <2> QED BY <1>3, <2>2, <2>3, <2>4 DEF Owned
<1>4. CASE Aside
  <2>1. UNCHANGED <<pgTbl, swap_pool_table>>
    BY <1>4, AsideTables
  <2>2. ASSUME NEW u \in Thread  PROVE Cleared(u)' /\ Owned(u)'
    <3>1. CASE pc'[u] \in Evicting
      <4>1. pc'[u] = pc[u] /\ loc'[u] = loc[u]
        BY <1>1, <1>4, <3>1, AsideThreads DEF Evicting, Inside
      <4>2. Cleared(u)'
        BY <2>1, <3>1, <4>1, ClearedStays
      <4>3. Owned(u)'
        BY <1>3, <2>1, <4>1 DEF Owned
      <4> QED BY <4>2, <4>3
    <3> QED BY <3>1 DEF Cleared, Owned, Evicting
  <2>3. SwapExact'
    BY <2>1, ExactStays
  <2> QED BY <1>1, <2>2, <2>3 DEF SwapInv
<1>5. CASE \E a \in Asid : mark_free_pages(a)
  <2>1. PICK a \in Asid : mark_free_pages(a)
    BY <1>5
  <2>2. /\ UNCHANGED <<pc, loc, pgTbl>> /\ ~ StillRuns(a)
        /\ \A f \in Frame : swap_pool_table[f].asid # a =>
                               swap_pool_table'[f] = swap_pool_table[f]
    <3>1. ~ StillRuns(a)
      BY <1>1, <2>1, ToldStopped DEF mark_free_pages
    <3> QED BY <2>1, <3>1 DEF mark_free_pages, tableVars
  <2>3. ASSUME NEW b \in Asid, NEW i \in Slot, StillRuns(b), Valid(pgTbl[b][i].lo)
        PROVE  swap_pool_table'[pgTbl[b][i].lo.frame] = swap_pool_table[pgTbl[b][i].lo.frame]
    <3>1. swap_pool_table[pgTbl[b][i].lo.frame].asid = b
      BY <1>1, <2>3, ExactEntry
    <3>2. pgTbl[b][i].lo.frame \in Frame
      BY <1>2, <2>3 DEF EntryLo, Valid, Invalid
    <3> QED BY <2>2, <2>3, <3>1, <3>2
  <2>4. SwapExact'
    BY <2>2, <2>3, ExactStays
  <2>5. ASSUME NEW u \in Thread  PROVE Cleared(u)' /\ Owned(u)'
    <3>1. CASE pc[u] \in Evicting
      <4>1. Cleared(u)'
        BY <2>2, <3>1, ClearedStays
      <4>2. CASE pc[u] = "map"
        <5>1. loc[u].frame \in Frame /\ StillRuns(AsidOf(u))
          BY <1>1, <4>2, InsideRuns DEF Working, Inside
        <5>2. swap_pool_table[loc[u].frame].asid # a
          BY <2>2, <4>2, <5>1 DEF SwapInv, Owned, Victim
        <5> QED BY <1>3, <2>2, <4>1, <4>2, <5>1, <5>2
      <4> QED BY <2>2, <4>1, <4>2 DEF Owned
    <3> QED BY <2>2, <3>1 DEF Cleared, Owned, Evicting
  <2> QED BY <1>1, <2>4, <2>5 DEF SwapInv
<1>6. ASSUME NEW t \in Thread, InsideStep(t)  PROVE SwapInv'
  <2>1. ASSUME NEW u \in Thread, u # t  PROVE Cleared(u)' /\ Owned(u)'
    <3>1. pc'[u] = pc[u] /\ pc[u] \notin Inside
      BY <1>1, <1>6, <2>1, InsideOthers
    <3> QED BY <3>1 DEF Cleared, Owned, Evicting, Inside
  <2>2. pc[t] \in Inside /\ loc[t].frame \in Frame /\ AsidOf(t) \in Asid
    BY <1>1, <1>6, InsideStepFacts, ThreadFacts DEF Working
  <2>3. CASE PlainStep(t)
    <3>1. UNCHANGED <<pgTbl, swap_pool_table>> /\ pc'[t] # "map"
      BY <1>1, <2>3, PlainFacts
    <3>2. SwapExact'
      BY <3>1, ExactStays
    <3>3. Cleared(t)'
      <4>1. CASE ChecksFrame(t) /\ isFrameFree(loc[t].frame)
        <5>1. loc' = loc /\ swap_pool_table[loc[t].frame].asid = NOPROC
          BY <4>1 DEF ChecksFrame, isFrameFree
        <5>2. ASSUME NEW a \in Asid, NEW i \in Slot, StillRuns(a)', Valid(pgTbl'[a][i].lo)
              PROVE  pgTbl'[a][i].lo.frame # loc'[t].frame
          <6>1. StillRuns(a) /\ Valid(pgTbl[a][i].lo)
            BY <1>1, <3>1, <5>2, RanBefore
          <6>2. swap_pool_table[pgTbl[a][i].lo.frame].asid = a /\ a # NOPROC
            <7>1. swap_pool_table[pgTbl[a][i].lo.frame].asid = a
              BY <1>1, <6>1, ExactEntry
            <7>2. a # NOPROC
              BY PagerAssumption DEF NOPROC
            <7> QED BY <7>1, <7>2
          <6> QED BY <3>1, <5>1, <6>2
        <5> QED BY <5>2 DEF Cleared, Valid
      <4>2. CASE WritesBack(t) \/ FlashWrites(t) \/ FlashReads(t)
        <5>1. pc[t] \in Evicting /\ loc'[t].frame = loc[t].frame
          BY <1>2, <4>2 DEF WritesBack, FlashWrites, FlashReads, At, Evicting
        <5> QED BY <3>1, <5>1, ClearedStays
      <4>3. CASE \/ getFrameIndex(t) \/ FlashFails(t)
                 \/ ChecksFrame(t) /\ ~ isFrameFree(loc[t].frame)
        <5>1. pc'[t] \in {"scan", "check", "trap", "invalidate"}
          BY <1>2, <4>3 DEF getFrameIndex, FlashFails, ChecksFrame, Goes, At
        <5> QED BY <5>1 DEF Cleared, Evicting
      <4> QED BY <2>3, <4>1, <4>2, <4>3 DEF PlainStep
    <3> QED BY <1>1, <2>1, <3>1, <3>2, <3>3 DEF SwapInv, Owned
  <2>4. CASE Invalidates(t)
    <3>1. /\ UNCHANGED <<swap_pool_table, loc>>
          /\ pgTbl' = [pgTbl EXCEPT ![Victim(t).pte.asid][Victim(t).pte.slot].lo = Invalid]
          /\ pc'[t] \in {"writeBack", "readIn"}
      BY <1>2, <2>4 DEF Invalidates, swapVars, Goes
    <3>2. PICK b, s : b = Victim(t).pte.asid /\ s = Victim(t).pte.slot
      OBVIOUS
    <3>3. ASSUME NEW a \in Asid, NEW i \in Slot, Valid(pgTbl'[a][i].lo)
          PROVE  pgTbl'[a][i] = pgTbl[a][i] /\ ~ (a = b /\ i = s)
      <4>1. CASE a = b /\ i = s
        <5>1. pgTbl'[a][i].lo = Invalid
          BY <1>2, <3>1, <3>2, <4>1
        <5> QED BY <3>3, <5>1 DEF Valid, Invalid
      <4>2. CASE ~ (a = b /\ i = s)
        BY <1>2, <3>1, <3>2, <4>2
      <4> QED BY <4>1, <4>2
    <3>4. SwapExact'
      BY <3>1, <3>3, ExactStays
    <3>5. Cleared(t)'
      <4>1. ASSUME NEW a \in Asid, NEW i \in Slot, StillRuns(a)', Valid(pgTbl'[a][i].lo)
            PROVE  pgTbl'[a][i].lo.frame # loc'[t].frame
        <5>1. StillRuns(a) /\ Valid(pgTbl[a][i].lo) /\ pgTbl'[a][i] = pgTbl[a][i]
              /\ ~ (a = b /\ i = s)
          BY <1>1, <3>3, <4>1, RanBefore
        <5>2. swap_pool_table[pgTbl[a][i].lo.frame].pte = [asid |-> a, slot |-> i]
          BY <1>1, <5>1, ExactEntry
        <5>3. ASSUME pgTbl[a][i].lo.frame = loc[t].frame  PROVE FALSE
          <6>1. Victim(t).pte = [asid |-> a, slot |-> i]
            BY <5>2, <5>3 DEF Victim
          <6>2. b = a /\ s = i
            BY <3>2, <6>1
          <6> QED BY <5>1, <6>2
        <5> QED BY <3>1, <5>1, <5>3
      <4> QED BY <4>1 DEF Cleared, Valid
    <3> QED BY <1>1, <2>1, <3>1, <3>4, <3>5 DEF SwapInv, Owned
  <2>5. CASE Settles(t) /\ Usable(AsidOf(t), FaultPage(t)) = {}
    <3>1. UNCHANGED <<pgTbl, swap_pool_table>> /\ pc'[t] = "trap"
      BY <1>2, <2>5 DEF Settles, Goes, tableVars
    <3>2. SwapExact'
      BY <3>1, ExactStays
    <3> QED BY <1>1, <2>1, <3>1, <3>2 DEF SwapInv, Owned, Cleared, Evicting
  <2>6. CASE Settles(t) /\ Usable(AsidOf(t), FaultPage(t)) # {}
    <3>1. /\ pc[t] = "settle" /\ UNCHANGED <<pgTbl, loc, exceptState>>
          /\ swap_pool_table' = [swap_pool_table EXCEPT ![loc[t].frame] =
                [asid |-> AsidOf(t), pageNo |-> loc[t].page,
                 pte |-> [asid |-> AsidOf(t), slot |-> SlotFor(AsidOf(t), FaultPage(t))]]]
      BY <2>6 DEF Settles, At, tableVars
    <3>2. SwapExact'
      <4>1. \A a \in Asid, i \in Slot : StillRuns(a) /\ Valid(pgTbl[a][i].lo) =>
               swap_pool_table'[pgTbl[a][i].lo.frame] = swap_pool_table[pgTbl[a][i].lo.frame]
        <5>1. \A a \in Asid, i \in Slot : StillRuns(a) /\ Valid(pgTbl[a][i].lo) =>
                 pgTbl[a][i].lo.frame # loc[t].frame
          BY <3>1 DEF SwapInv, Cleared, Evicting
        <5>2. \A f : f # loc[t].frame => swap_pool_table'[f] = swap_pool_table[f]
          BY <1>2, <3>1
        <5> QED BY <5>1, <5>2
      <4> QED BY <3>1, <4>1, ExactStays
    <3>3. Cleared(t)'
      BY <3>1, ClearedStays DEF Evicting
    <3>4. Owned(t)'
      <4>1. Victim(t)'.asid = AsidOf(t) /\ Victim(t)'.pageNo = loc[t].page
        BY <1>2, <2>2, <3>1 DEF Victim
      <4>2. loc[t].page = find_page_by_entryhi(FaultPage(t))
        BY <1>1, <2>2 DEF OneInv, OwnPage
      <4>3. find_page_by_entryhi(FaultPage(t))' = find_page_by_entryhi(FaultPage(t))
        BY <3>1 DEF find_page_by_entryhi, FaultPage
      <4> QED BY <4>1, <4>2, <4>3 DEF Owned
    <3> QED BY <1>1, <2>1, <3>2, <3>3, <3>4 DEF SwapInv
  <2>7. CASE Maps(t)
    <3>1. /\ pc[t] = "map" /\ pc'[t] = "release" /\ UNCHANGED <<swap_pool_table, loc>>
      BY <1>2, <2>7 DEF Maps, At, Goes, swapVars
    <3>2. PICK s, e : /\ s = Victim(t).pte.slot
                      /\ e = [hi |-> FaultPage(t),
                              lo |-> [frame |-> loc[t].frame,
                                      dirty |-> need_dirty(AsidOf(t), loc[t].page)]]
                      /\ pgTbl' = [pgTbl EXCEPT ![AsidOf(t)][s] = e]
      BY <2>7 DEF Maps
    <3>3. ASSUME NEW a \in Asid, NEW i \in Slot, StillRuns(a)', Valid(pgTbl'[a][i].lo)
          PROVE  /\ swap_pool_table'[pgTbl'[a][i].lo.frame].asid = a
                 /\ swap_pool_table'[pgTbl'[a][i].lo.frame].pageNo
                       = find_page_by_entryhi(pgTbl'[a][i].hi)
                 /\ swap_pool_table'[pgTbl'[a][i].lo.frame].pte = [asid |-> a, slot |-> i]
      <4>1. CASE a = AsidOf(t) /\ i = s
        <5>1. pgTbl'[a][i] = e
          BY <1>2, <3>2, <4>1
        <5>2. pgTbl'[a][i].lo.frame = loc[t].frame /\ pgTbl'[a][i].hi = FaultPage(t)
          BY <3>2, <5>1
        <5>3. Settled(t) /\ Owned(t)
          BY <1>1 DEF SwapInv, TlbInv
        <5>4. Victim(t).pte = [asid |-> a, slot |-> i]
          BY <3>1, <3>2, <4>1, <5>3 DEF Settled
        <5> QED BY <3>1, <4>1, <5>2, <5>3, <5>4 DEF Owned, Victim
      <4>2. CASE ~ (a = AsidOf(t) /\ i = s)
        <5>1. pgTbl'[a][i] = pgTbl[a][i]
          BY <1>2, <3>2, <4>2
        <5>2. StillRuns(a)
          BY <1>1, <3>3, RanBefore
        <5> QED BY <1>1, <3>1, <3>3, <5>1, <5>2, ExactEntry
      <4> QED BY <4>1, <4>2
    <3>4. SwapExact'
      BY <3>3 DEF SwapExact, Valid, find_page_by_entryhi
    <3> QED BY <1>1, <2>1, <3>1, <3>4 DEF SwapInv, Owned, Cleared, Evicting
  <2> QED BY <1>6, <2>3, <2>4, <2>5, <2>6, <2>7, InsideSplit
<1> QED BY <1>4, <1>5, <1>6, StepKinds

LEMMA SwapInvariance == Spec /\ []InTurn => []SwapInv
BY SwapInit, SwapStep, PTL DEF Spec

(* A frame that a running process sees is in the swap pool as that page of *)
(* that process, at every step of a pager and after every trap in one: no  *)
(* frame is seen by two, and evicting it invalidates the entry that shows  *)
(* it.                                                                     *)
THEOREM FramesNotShared == Spec /\ []InTurn => []SwapExact
<1>1. SwapInv => SwapExact
  BY DEF SwapInv
<1> QED BY <1>1, SwapInvariance, PTL
-----------------------------------------------------------------------------
(* What the pages hold.  A page of a running process is in a frame, on its *)
(* way out or in the flash; each step of a pager moves one page from one   *)
(* of these places to the next.                                            *)

(* A page table has room for all pages, and no two pages share a block.    *)
Room == \A a \in Asid : IsFiniteSet(Pages[a]) /\ Cardinality(Pages[a]) <= MaxPages
OwnBlocks ==
    \A a \in Asid : \A p, q \in Pages[a] :
        find_page_by_entryhi(p) = find_page_by_entryhi(q) => p = q

Seeking == {"fault", "waitP", "scan", "check", "invalidate"} \cup Evicting
Leaving == {"writeBack", "writing"}

HisPages ==
    \A a \in Asid, i \in Slot :
        \/ pgTbl[a][i].hi \in Pages[a]
        \/ pgTbl[a][i].hi = NOPAGE /\ pgTbl[a][i].lo = Invalid

(* The page a pager is to bring in is not there.                           *)
NotMapped(t) ==
    pc[t] \in Seeking =>
        \A i \in Slot : pgTbl[AsidOf(t)][i].hi = FaultPage(t) => pgTbl[AsidOf(t)][i].lo = Invalid

(* A frame that the swap pool gives to a running process is seen by it.    *)
Backed ==
    \A g \in Frame :
        (\A t \in Thread : pc[t] \in Evicting => loc[t].frame # g) =>
            \A a \in Asid :
                StillRuns(a) /\ swap_pool_table[g].asid = a =>
                    /\ Valid(pgTbl[a][swap_pool_table[g].pte.slot].lo)
                    /\ pgTbl[a][swap_pool_table[g].pte.slot].lo.frame = g

OnWayOut(t) ==
    Victim(t).pte.asid \in Asid /\ StillRuns(Victim(t).pte.asid) =>
        /\ pc[t] \in {"invalidate"} \cup Leaving => Victim(t).asid = Victim(t).pte.asid
        /\ pc[t] \in Leaving =>
              /\ VictimEntry(t).hi \in Pages[Victim(t).pte.asid]
              /\ VictimEntry(t).lo = Invalid
              /\ Victim(t).pageNo = find_page_by_entryhi(VictimEntry(t).hi)
              /\ ram[loc[t].frame] = mem[Victim(t).pte.asid][VictimEntry(t).hi]

(* A page that has been read is what the program stored, and still in the  *)
(* flash too.                                                              *)
Read(t) ==
    pc[t] \in {"settle", "map"} =>
        /\ ram[loc[t].frame] = mem[AsidOf(t)][FaultPage(t)]
        /\ flash[AsidOf(t)][find_page_by_entryhi(FaultPage(t))] = mem[AsidOf(t)][FaultPage(t)]

InFrame ==
    \A a \in Asid, i \in Slot :
        StillRuns(a) /\ Valid(pgTbl[a][i].lo) =>
            /\ ram[pgTbl[a][i].lo.frame] = mem[a][pgTbl[a][i].hi]
            /\ ~ pgTbl[a][i].lo.dirty =>
                  flash[a][find_page_by_entryhi(pgTbl[a][i].hi)] = mem[a][pgTbl[a][i].hi]

Leaves(t, a, p) == pc[t] \in Leaving /\ Victim(t).pte.asid = a /\ VictimEntry(t).hi = p

InFlash ==
    \A a \in Asid : \A p \in Pages[a] :
        /\ StillRuns(a)
        /\ \A i \in Slot : pgTbl[a][i].hi = p => ~ Valid(pgTbl[a][i].lo)
        /\ \A t \in Thread : ~ Leaves(t, a, p)
        => flash[a][find_page_by_entryhi(p)] = mem[a][p]

Pagers == \A t \in Thread : NotMapped(t) /\ OnWayOut(t) /\ Read(t)

MemType ==
    /\ mem = [a \in Asid |-> mem[a]]
    /\ \A a \in Asid : mem[a] = [p \in Pages[a] |-> mem[a][p]]

StoreInv ==
    SwapInv /\ TargetInv /\ HisPages /\ Pagers /\ Backed /\ InFrame /\ InFlash /\ MemType

LEMMA StoreInit == Init => StoreInv
<1> SUFFICES ASSUME Init PROVE StoreInv
  OBVIOUS
<1>1. \A t \in Thread : pc[t] \in {"run", "idle"}
  BY DEF Init
<1>2. /\ \A a \in Asid, i \in Slot : pgTbl[a][i].hi = NOPAGE /\ pgTbl[a][i].lo = Invalid
      /\ \A f \in Frame : swap_pool_table[f].asid = NOPROC
      /\ NOPROC \notin Asid
  BY PagerAssumption DEF Init, NOPROC
<1>3. \A a \in Asid, i \in Slot : ~ Valid(pgTbl[a][i].lo)
  BY <1>2 DEF Valid, Invalid
<1>4. \A a \in Asid : \A p \in Pages[a] : flash[a][find_page_by_entryhi(p)] = mem[a][p]
  BY PageFacts DEF Init
<1>5. Pagers
  BY <1>1 DEF Pagers, NotMapped, OnWayOut, Read, Seeking, Evicting, Leaving
<1>6. HisPages
  BY <1>2 DEF HisPages
<1>7. Backed
  BY <1>2 DEF Backed
<1>8. InFrame
  BY <1>3 DEF InFrame
<1>9. InFlash
  BY <1>4 DEF InFlash
<1>10. MemType
  BY DEF Init, MemType
<1> QED BY <1>5, <1>6, <1>7, <1>8, <1>9, <1>10, SwapInit, TargetInit DEF StoreInv

(* The invariant implies the property.                                     *)
LEMMA StoreSees == StoreInv => SeesLastStore
<1> SUFFICES ASSUME StoreInv, NEW a \in Asid, StillRuns(a), NEW p \in Pages[a]
             PROVE  Contents(a, p) = mem[a][p]
  BY DEF SeesLastStore
<1> DEFINE out == {t \in Thread : /\ pc[t] \in {"writeBack", "writing"}
                                  /\ Victim(t).pte.asid = a
                                  /\ VictimEntry(t).hi = p}
<1>1. /\ PackedRow(pgTbl[a]) /\ p # NOPAGE
      /\ RefillLo(a, p) = LoIn(pgTbl[a], p)
      /\ tlb[<<a, p>>] \in {Absent, RefillLo(a, p)}
  BY PageFacts, RefillLoIn DEF StoreInv, SwapInv, TlbInv, TlbCoherent
<1>2. Valid(RefillLo(a, p)) => ram[RefillLo(a, p).frame] = mem[a][p]
  <2>1. ASSUME Valid(RefillLo(a, p))  PROVE ram[RefillLo(a, p).frame] = mem[a][p]
    <3>1. PICK i \in Slot : pgTbl[a][i].hi = p
      BY <1>1, <2>1, LoInFacts DEF Valid, Invalid
    <3>2. RefillLo(a, p) = pgTbl[a][i].lo
      BY <1>1, <3>1, LoInFacts
    <3> QED BY <2>1, <3>1, <3>2 DEF StoreInv, InFrame
  <2> QED BY <2>1
<1>3. Valid(tlb[<<a, p>>]) => tlb[<<a, p>>] = RefillLo(a, p)
  BY <1>1 DEF Valid, Absent
<1>4. \A t \in out : ram[loc[t].frame] = mem[a][p]
  BY DEF StoreInv, Pagers, OnWayOut, Leaving
<1>5. ~ Valid(RefillLo(a, p)) /\ out = {} => flash[a][find_page_by_entryhi(p)] = mem[a][p]
  <2>1. ASSUME ~ Valid(RefillLo(a, p)), out = {}
        PROVE  flash[a][find_page_by_entryhi(p)] = mem[a][p]
    <3>1. \A i \in Slot : pgTbl[a][i].hi = p => ~ Valid(pgTbl[a][i].lo)
      BY <1>1, <2>1, LoInFacts
    <3>2. \A t \in Thread : ~ Leaves(t, a, p)
      BY <2>1 DEF Leaves, Leaving
    <3> QED BY <3>1, <3>2 DEF StoreInv, InFlash
  <2> QED BY <2>1
<1>6. Contents(a, p) =
        CASE Valid(tlb[<<a, p>>]) -> ram[tlb[<<a, p>>].frame]
          [] ~Valid(tlb[<<a, p>>]) /\ Valid(RefillLo(a, p)) -> ram[RefillLo(a, p).frame]
          [] ~Valid(tlb[<<a, p>>]) /\ ~Valid(RefillLo(a, p)) /\ out # {} ->
                 ram[loc[CHOOSE t \in out : TRUE].frame]
          [] OTHER -> flash[a][find_page_by_entryhi(p)]
  BY DEF Contents
<1>7. out # {} => (CHOOSE t \in out : TRUE) \in out
  OBVIOUS
<1> HIDE DEF out
<1> QED BY <1>2, <1>3, <1>4, <1>5, <1>6, <1>7

LEMMA StoreTypes ==
    ASSUME StoreInv
    PROVE  /\ SwapInv /\ TlbInv /\ OneInv /\ MutexInv /\ TypeInv /\ SwapExact
           /\ pc \in [Thread -> Place]
           /\ loc \in [Thread -> [page : Block \cup {NOPAGE}, frame : Frame \cup {-1},
                                  asid : Asid \cup {NOPROC}]]
           /\ pgTbl \in [Asid -> [Slot -> [hi : Page \cup {NOPAGE}, lo : EntryLo]]]
           /\ swap_pool_table \in
                 [Frame -> [asid : Asid \cup {NOPROC}, pageNo : Block \cup {0},
                            pte : [asid : Asid \cup {NOPROC}, slot : Slot]]]
           /\ ram \in [Frame -> Val] /\ flash \in [Asid -> [Block -> Val]]
           /\ \A t \in Thread : pc[t] \in Inside =>
                 /\ loc[t].frame \in Frame /\ loc[t].page = find_page_by_entryhi(FaultPage(t))
           /\ \A t \in Thread : InPager(t) => FaultPage(t) \in Pages[AsidOf(t)]
<1>1. /\ SwapInv /\ TlbInv /\ OneInv /\ MutexInv /\ TypeInv /\ SwapExact
      /\ PagerTypeOK /\ Working /\ Faulting /\ OwnPage
  BY DEF StoreInv, SwapInv, TlbInv, OneInv, MutexInv, TypeInv
<1> QED BY <1>1 DEF PagerTypeOK, Working, Faulting, OwnPage

(* The entry a running process has for a page is one, and so is its frame. *)
LEMMA OneEntry ==
    ASSUME StoreInv, NEW a \in Asid, NEW i \in Slot, NEW j \in Slot,
           pgTbl[a][i].hi = pgTbl[a][j].hi, pgTbl[a][i].hi \in Pages[a]
    PROVE  i = j
<1>1. pgTbl[a][i].hi # NOPAGE
  BY PageFacts
<1> QED BY <1>1 DEF StoreInv, SwapInv, TlbInv, PackedRow

LEMMA OneFrame ==
    ASSUME StoreInv, NEW a \in Asid, NEW i \in Slot, NEW b \in Asid, NEW j \in Slot,
           StillRuns(a), StillRuns(b), Valid(pgTbl[a][i].lo), Valid(pgTbl[b][j].lo),
           pgTbl[a][i].lo.frame = pgTbl[b][j].lo.frame
    PROVE  a = b /\ i = j
<1>1. /\ swap_pool_table[pgTbl[a][i].lo.frame].pte = [asid |-> a, slot |-> i]
      /\ swap_pool_table[pgTbl[b][j].lo.frame].pte = [asid |-> b, slot |-> j]
  BY StoreTypes, ExactEntry
<1> QED BY <1>1

(* Steps that touch neither tables nor contents.                           *)
LEMMA StoreKeeps ==
    ASSUME StoreInv, [Next]_vars, UNCHANGED <<pgTbl, swap_pool_table, flash, ram, mem>>,
           \A u \in Thread : pc[u] \in Evicting => pc'[u] \in Evicting /\ loc'[u].frame = loc[u].frame,
           \A u \in Thread : pc[u] \in Leaving => pc'[u] \in Leaving
    PROVE  HisPages' /\ Backed' /\ InFrame' /\ InFlash'
<1>1. TypeInv
  BY StoreTypes
<1>2. HisPages'
  BY DEF StoreInv, HisPages
<1>3. Backed'
  <2>1. ASSUME NEW g \in Frame, \A t \in Thread : pc'[t] \in Evicting => loc'[t].frame # g,
               NEW a \in Asid, StillRuns(a)', swap_pool_table[g].asid = a
        PROVE  /\ Valid(pgTbl[a][swap_pool_table[g].pte.slot].lo)
               /\ pgTbl[a][swap_pool_table[g].pte.slot].lo.frame = g
    <3>1. \A t \in Thread : pc[t] \in Evicting => loc[t].frame # g
      BY <2>1
    <3>2. StillRuns(a)
      BY <1>1, <2>1, RanBefore
    <3> QED BY <2>1, <3>1, <3>2 DEF StoreInv, Backed
  <2> QED BY <2>1 DEF Backed, Evicting, Valid
<1>4. InFrame'
  <2>1. ASSUME NEW a \in Asid, NEW i \in Slot, StillRuns(a)', Valid(pgTbl[a][i].lo)
        PROVE  /\ ram[pgTbl[a][i].lo.frame] = mem[a][pgTbl[a][i].hi]
               /\ ~ pgTbl[a][i].lo.dirty =>
                     flash[a][find_page_by_entryhi(pgTbl[a][i].hi)] = mem[a][pgTbl[a][i].hi]
    BY <1>1, <2>1, RanBefore DEF StoreInv, InFrame
  <2> QED BY <2>1 DEF InFrame, Valid, find_page_by_entryhi
<1>5. InFlash'
  <2>1. ASSUME NEW a \in Asid, NEW p \in Pages[a], StillRuns(a)',
               \A i \in Slot : pgTbl[a][i].hi = p => ~ Valid(pgTbl[a][i].lo),
               \A t \in Thread : ~ Leaves(t, a, p)'
        PROVE  flash[a][find_page_by_entryhi(p)] = mem[a][p]
    <3>1. ASSUME NEW t \in Thread, Leaves(t, a, p)  PROVE FALSE
      <4>1. pc'[t] \in Leaving /\ loc'[t].frame = loc[t].frame
        BY <3>1 DEF Leaves, Leaving, Evicting
      <4>2. Victim(t)' = Victim(t) /\ VictimEntry(t)' = VictimEntry(t)
        BY <4>1 DEF Victim, VictimEntry
      <4>3. Leaves(t, a, p)'
        BY <3>1, <4>1, <4>2 DEF Leaves, Leaving
      <4> QED BY <2>1, <4>3
    <3>2. StillRuns(a)
      BY <1>1, <2>1, RanBefore
    <3> QED BY <2>1, <3>1, <3>2 DEF StoreInv, InFlash
  <2> QED BY <2>1 DEF InFlash, Valid, find_page_by_entryhi
<1> QED BY <1>2, <1>3, <1>4, <1>5

LEMMA PagerKeeps ==
    ASSUME InTurn', StoreInv, [Next]_vars,
           UNCHANGED <<pgTbl, swap_pool_table, flash, ram, mem>>,
           NEW u \in Thread, pc'[u] = pc[u], loc'[u] = loc[u]
    PROVE  NotMapped(u)' /\ OnWayOut(u)' /\ Read(u)'
<1>1. NotMapped(u) /\ OnWayOut(u) /\ Read(u)
  BY DEF StoreInv, Pagers
<1>2. CASE pc[u] \in Seeking
  <2>1. exceptState'[AsidOf(u)] = exceptState[AsidOf(u)]
    BY <1>2, StoreTypes, StateStays DEF InPager, Seeking, Evicting, Inside
  <2>2. FaultPage(u)' = FaultPage(u) /\ Victim(u)' = Victim(u) /\ VictimEntry(u)' = VictimEntry(u)
    BY <2>1 DEF FaultPage, Victim, VictimEntry
  <2>3. NotMapped(u)'
    BY <1>1, <2>2 DEF NotMapped, Seeking, Evicting
  <2>4. \A p : find_page_by_entryhi(p)' = find_page_by_entryhi(p)
    BY DEF find_page_by_entryhi
  <2>5. Read(u)'
    <3>1. find_page_by_entryhi(FaultPage(u))' = find_page_by_entryhi(FaultPage(u))
      BY <2>2 DEF find_page_by_entryhi
    <3> QED BY <1>1, <2>2, <3>1 DEF Read
  <2>6. OnWayOut(u)'
    <3>1. \A b \in Asid : StillRuns(b)' => StillRuns(b)
      BY StoreTypes, RanBefore
    <3>2. find_page_by_entryhi(VictimEntry(u).hi)' = find_page_by_entryhi(VictimEntry(u).hi)
      BY <2>2 DEF find_page_by_entryhi
    <3>3. ASSUME Victim(u).pte.asid \in Asid, StillRuns(Victim(u).pte.asid)'
          PROVE  StillRuns(Victim(u).pte.asid)
      <4>1. PICK b \in Asid : b = Victim(u).pte.asid
        BY <3>3
      <4>2. StillRuns(b)'
        BY <2>2, <3>3, <4>1 DEF StillRuns
      <4> QED BY <3>1, <4>1, <4>2
    <3> QED BY <1>1, <2>2, <3>2, <3>3 DEF OnWayOut, Leaving
  <2> QED BY <2>3, <2>5, <2>6
<1>3. CASE pc[u] \notin Seeking
  BY <1>3 DEF NotMapped, OnWayOut, Read, Seeking, Evicting, Leaving
<1> QED BY <1>2, <1>3

(* No step of another thread takes a pager out of its work.                *)
LEMMA AsideKeeps ==
    ASSUME OneInv, Aside, NEW u \in Thread, pc[u] \in Inside \ {"release"}
    PROVE  pc'[u] = pc[u] /\ loc'[u] = loc[u]
<1>1. /\ pc \in [Thread -> Place]
      /\ loc \in [Thread -> [page : Block \cup {NOPAGE}, frame : Frame \cup {-1},
                             asid : Asid \cup {NOPROC}]]
      /\ pc[u] \notin {"run", "idle", "receive", "fault", "waitP", "waitV", "trap", "tell",
                       "dying", "dead", "release"}
      /\ \A a \in Asid : /\ Uproc(a) \in Thread /\ Sst(a) \in Thread /\ Uproc(a) # Sst(a)
                         /\ pc[Sst(a)] \notin {"idle", "receive", "dead"} => u # Uproc(a)
  BY AsidFacts DEF OneInv, MutexInv, TypeInv, PagerTypeOK, Inside, InTurn, Handling
<1>2. CASE UNCHANGED vars \/ MutexTakes \/ MutexReleases
  BY <1>2 DEF vars, MutexTakes, MutexReleases
<1>3. CASE \E a \in Asid : Serving(a)
  <2>1. PICK a \in Asid : Serving(a)
    BY <1>3
  <2>2. UNCHANGED loc
    BY <2>1 DEF Serving, UprocAsks, UprocReceives, SstAnswers, SstTerminates
  <2>3. pc'[u] = pc[u]
    BY <1>1, <2>1 DEF Serving, UprocAsks, UprocReceives, SstAnswers, SstTerminates, At, Goes
  <2> QED BY <2>2, <2>3
<1>4. CASE \E t \in Thread : Program(t)
  BY <1>1, <1>4 DEF Program, Store, uTLB_RefillHandler, PageFault, StoreToText, OtherTrap, PassUp,
                    MayTouch, At, Goes
<1>5. CASE \E t \in Thread : TrapSendsV(t) \/ TellsParent(t)
  BY <1>1, <1>5 DEF TrapSendsV, TellsParent, At, Goes
<1>6. CASE \E t \in Thread : Dies(t)
  <2>1. PICK t \in Thread : Dies(t)
    BY <1>6
  <2> DEFINE gone == IF t[1] = "sst" THEN {t, Uproc(AsidOf(t))} ELSE {t}
  <2>2. /\ pc[t] = "dying"
        /\ pc' = [v \in Thread |-> IF v \in gone THEN "dead" ELSE pc[v]]
        /\ loc' = [v \in Thread |-> IF v \in gone THEN NoWork ELSE loc[v]]
    BY <2>1 DEF Dies, At
  <2>3. u \notin gone
    <3>1. u # t
      BY <1>1, <2>2
    <3>2. t[1] = "sst" => u # Uproc(AsidOf(t))
      BY <1>1, <2>2, ThreadFacts
    <3> QED BY <3>1, <3>2
  <2> HIDE DEF gone
  <2> QED BY <2>2, <2>3
<1>7. CASE \E t \in Thread : AsksMutex(t) \/ Enters(t) \/ Releases(t) \/ Resumes(t)
  BY <1>1, <1>7 DEF AsksMutex, Enters, Releases, Resumes, At, Goes
<1> QED BY <1>2, <1>3, <1>4, <1>5, <1>6, <1>7 DEF Aside, Ending

(* A thread that begins to look for a page has just missed it in the TLB.  *)
LEMMA BeginsToSeek ==
    ASSUME TypeInv, Aside, NEW u \in Thread, pc'[u] \in Seeking
    PROVE  pc[u] \in Seeking \/ \E p \in Page : PageFault(u, p)
<1>1. /\ pc \in [Thread -> Place]
      /\ pc'[u] \notin {"run", "idle", "receive", "waitV", "trap", "tell", "dying", "dead",
                        "release"}
  BY DEF TypeInv, PagerTypeOK, Seeking, Evicting
<1>2. CASE pc'[u] = pc[u]
  BY <1>2
<1>3. CASE pc'[u] \in Inside \ {"scan"}
  BY <1>2, <1>3, AsideThreads
<1>4. CASE pc'[u] \in {"fault", "waitP", "scan"} /\ pc'[u] # pc[u]
  <2>1. ~ (UNCHANGED vars \/ MutexTakes \/ MutexReleases)
    BY <1>4 DEF vars, MutexTakes, MutexReleases
  <2>2. ~ \E a \in Asid : Serving(a)
    BY <1>1, <1>4, AsidFacts DEF Serving, UprocAsks, UprocReceives, SstAnswers, SstTerminates, Goes
  <2>3. ~ \E t \in Thread : Ending(t)
    BY <1>1, <1>4 DEF Ending, TrapSendsV, TellsParent, Dies, Goes
  <2>4. CASE \E t \in Thread : Program(t)
    BY <1>1, <1>4, <2>4 DEF Program, Store, uTLB_RefillHandler, PageFault, StoreToText, OtherTrap,
                            PassUp, Goes
  <2>5. CASE \E t \in Thread : AsksMutex(t) \/ Enters(t) \/ Releases(t) \/ Resumes(t)
    <3>1. pc[u] \in {"fault", "waitP"}
      BY <1>1, <1>4, <2>5 DEF AsksMutex, Enters, Releases, Resumes, Goes, At
    <3> QED BY <3>1 DEF Seeking
  <2> QED BY <2>1, <2>2, <2>3, <2>4, <2>5 DEF Aside
<1> QED BY <1>2, <1>3, <1>4 DEF Seeking, Evicting, Inside

LEMMA StoreAside ==
    ASSUME InTurn', StoreInv, [Next]_vars, Aside, UNCHANGED <<ram, mem>>
    PROVE  HisPages' /\ Pagers' /\ Backed' /\ InFrame' /\ InFlash'
<1>1. UNCHANGED <<pgTbl, swap_pool_table, flash, ram, mem>>
  BY AsideTables
<1>2. \A u \in Thread : pc[u] \in Inside \ {"release"} => pc'[u] = pc[u] /\ loc'[u] = loc[u]
  BY StoreTypes, AsideKeeps
<1>3. HisPages' /\ Backed' /\ InFrame' /\ InFlash'
  BY <1>1, <1>2, StoreKeeps DEF Evicting, Leaving, Inside
<1>4. ASSUME NEW u \in Thread  PROVE NotMapped(u)' /\ OnWayOut(u)' /\ Read(u)'
  <2>1. CASE pc'[u] \in Inside \ {"scan"}
    <3>1. pc'[u] = pc[u] /\ loc'[u] = loc[u]
      BY <2>1, StoreTypes, AsideThreads
    <3> QED BY <1>1, <3>1, PagerKeeps
  <2>2. CASE pc'[u] \notin Inside \ {"scan"}
    <3>1. OnWayOut(u)' /\ Read(u)'
      BY <2>2 DEF OnWayOut, Read, Leaving, Inside
    <3>2. NotMapped(u)'
      <4>1. CASE pc'[u] \notin Seeking
        BY <4>1 DEF NotMapped, Seeking, Evicting
      <4>2. CASE pc'[u] \in Seeking /\ pc[u] \in Seeking
        <5>1. exceptState'[AsidOf(u)] = exceptState[AsidOf(u)]
          BY <4>2, StoreTypes, StateStays DEF InPager, Seeking, Evicting, Inside
        <5> QED BY <1>1, <4>2, <5>1 DEF StoreInv, Pagers, NotMapped, FaultPage, Seeking, Evicting
      <4>3. CASE \E p \in Page : PageFault(u, p)
        <5>1. PICK p : PageFault(u, p)
          BY <4>3
        <5>2. PICK a \in Asid : a = AsidOf(u)
          BY ThreadFacts
        <5>3. p \in Pages[a] /\ tlb[<<a, p>>] = Invalid
          BY <5>1, <5>2 DEF PageFault, MayTouch, TlbEntry
        <5>4. FaultPage(u)' = p
          <6>1. exceptState' = [exceptState EXCEPT ![AsidOf(u)] = [thread |-> u, page |-> p]]
            BY <5>1 DEF PageFault, PassUp
          <6>2. exceptState \in [Asid -> [thread : Thread \cup {NoThread}, page : Page \cup {NOPAGE}]]
            BY StoreTypes DEF TypeInv, PagerTypeOK
          <6> QED BY <5>2, <6>1, <6>2 DEF FaultPage
        <5>5. LoIn(pgTbl[a], p) = Invalid
          <6>1. tlb[<<a, p>>] \in {Absent, LoIn(pgTbl[a], p)}
            BY <5>3, RefillLoIn DEF StoreInv, SwapInv, TlbInv, TlbCoherent
          <6>2. Absent # Invalid
            BY DEF Absent, Invalid
          <6> QED BY <5>3, <6>1, <6>2
        <5>6. \A i \in Slot : pgTbl[a][i].hi = p => pgTbl[a][i].lo = Invalid
          <6>1. PackedRow(pgTbl[a]) /\ p # NOPAGE
            BY <5>3, PageFacts DEF StoreInv, SwapInv, TlbInv
          <6> QED BY <5>5, <6>1, LoInFacts
        <5> QED BY <1>1, <5>2, <5>4, <5>6 DEF NotMapped
      <4> QED BY <4>1, <4>2, <4>3, StoreTypes, BeginsToSeek
    <3> QED BY <3>1, <3>2
  <2> QED BY <2>1, <2>2
<1>5. Pagers'
  BY <1>4 DEF Pagers
<1> QED BY <1>3, <1>5

(* A store goes to the one frame in which the page is.                     *)
LEMMA StoreStores ==
    ASSUME InTurn', StoreInv, NEW t \in Thread, NEW p \in Page, NEW v \in Val,
           Store(t, p, v)
    PROVE  HisPages' /\ Pagers' /\ Backed' /\ InFrame' /\ InFlash' /\ MemType'
<1>1. /\ UNCHANGED <<pc, loc, exceptState, pgTbl, swap_pool_table, flash>>
      /\ pc[t] = "run" /\ p \in Pages[AsidOf(t)]
      /\ tlb[<<AsidOf(t), p>>].dirty /\ Valid(tlb[<<AsidOf(t), p>>])
      /\ ram' = [ram EXCEPT ![tlb[<<AsidOf(t), p>>].frame] = v]
      /\ mem' = [mem EXCEPT ![AsidOf(t)][p] = v]
  BY DEF Store, MayTouch, At, tableVars, swapVars, TlbEntry
<1>2. PICK a \in Asid : a = AsidOf(t) /\ StillRuns(a) /\ p \in Pages[a] /\ p # NOPAGE
  BY <1>1, ThreadFacts, PageFacts DEF StillRuns
<1>3. PICK i \in Slot : pgTbl[a][i].hi = p /\ pgTbl[a][i].lo = tlb[<<a, p>>]
  <2>1. tlb[<<a, p>>] \in {Absent, LoIn(pgTbl[a], p)} /\ PackedRow(pgTbl[a])
    BY <1>2, RefillLoIn DEF StoreInv, SwapInv, TlbInv, TlbCoherent
  <2>2. tlb[<<a, p>>] = LoIn(pgTbl[a], p)
    BY <1>1, <1>2, <2>1 DEF Valid, Absent
  <2> QED BY <1>1, <1>2, <2>1, <2>2, LoInFacts DEF Valid, Invalid
<1>4. PICK f \in Frame : /\ f = pgTbl[a][i].lo.frame /\ Valid(pgTbl[a][i].lo)
                         /\ pgTbl[a][i].lo.dirty
                         /\ ram' = [ram EXCEPT ![f] = v]
  <2>1. pgTbl[a][i].lo \in EntryLo /\ Valid(pgTbl[a][i].lo) /\ pgTbl[a][i].lo.dirty
    BY <1>1, <1>2, <1>3, StoreTypes
  <2>2. pgTbl[a][i].lo.frame \in Frame
    BY <2>1 DEF EntryLo, Valid, Invalid
  <2> QED BY <1>1, <1>2, <1>3, <2>1, <2>2
<1>5. /\ ram'[f] = v /\ \A g \in Frame : g # f => ram'[g] = ram[g]
      /\ mem'[a][p] = v
      /\ \A b \in Asid : \A q \in Pages[b] : ~ (b = a /\ q = p) => mem'[b][q] = mem[b][q]
      /\ MemType'
  <2>1. MemType /\ mem' = [mem EXCEPT ![a][p] = v]
    BY <1>1, <1>2 DEF StoreInv
  <2>2. PICK row : row = [q \in Pages[a] |-> mem[a][q]] /\ row = mem[a]
    BY <2>1 DEF MemType
  <2>3. PICK new : new = [row EXCEPT ![p] = v]
    OBVIOUS
  <2>4. mem' = [mem EXCEPT ![a] = new]
    BY <2>1, <2>2, <2>3
  <2>5. /\ new = [q \in Pages[a] |-> new[q]] /\ new[p] = v
        /\ \A q \in Pages[a] : q # p => new[q] = mem[a][q]
    BY <1>2, <2>2, <2>3
  <2>6. mem'[a] = new /\ \A b \in Asid : b # a => mem'[b] = mem[b]
    BY <2>1, <2>4 DEF MemType
  <2>7. MemType'
    <3>1. mem' = [b \in Asid |-> mem'[b]]
      BY <2>1, <2>4 DEF MemType
    <3>2. ASSUME NEW b \in Asid  PROVE mem'[b] = [q \in Pages[b] |-> mem'[b][q]]
      BY <2>1, <2>5, <2>6 DEF MemType
    <3> QED BY <3>1, <3>2 DEF MemType
  <2>8. ram'[f] = v /\ \A g \in Frame : g # f => ram'[g] = ram[g]
    BY <1>4, StoreTypes
  <2> QED BY <2>5, <2>6, <2>7, <2>8
<1>6. HisPages' /\ Backed'
  BY <1>1 DEF StoreInv, HisPages, Backed, StillRuns
<1>7. \A b \in Asid : StillRuns(b)' <=> StillRuns(b)
  BY <1>1 DEF StillRuns
<1>8. InFrame'
  <2>1. ASSUME NEW b \in Asid, NEW j \in Slot, StillRuns(b), Valid(pgTbl[b][j].lo)
        PROVE  /\ ram'[pgTbl[b][j].lo.frame] = mem'[b][pgTbl[b][j].hi]
               /\ ~ pgTbl[b][j].lo.dirty =>
                     flash[b][find_page_by_entryhi(pgTbl[b][j].hi)] = mem'[b][pgTbl[b][j].hi]
    <3>1. CASE b = a /\ j = i
      BY <1>3, <1>4, <1>5, <3>1
    <3>2. CASE ~ (b = a /\ j = i)
      <4>1. pgTbl[b][j].lo.frame \in Frame /\ pgTbl[b][j].lo.frame # f
        <5>1. pgTbl[b][j].lo.frame \in Frame
          BY <2>1, StoreTypes DEF EntryLo, Valid, Invalid
        <5>2. pgTbl[b][j].lo.frame # pgTbl[a][i].lo.frame
          BY <1>2, <1>4, <2>1, <3>2, OneFrame
        <5> QED BY <1>4, <5>1, <5>2
      <4>2. pgTbl[b][j].hi \in Pages[b]
        BY <2>1 DEF StoreInv, HisPages, Valid, Invalid
      <4>3. ~ (b = a /\ pgTbl[b][j].hi = p)
        BY <1>3, <3>2, <4>2, OneEntry
      <4> QED BY <1>5, <2>1, <4>1, <4>2, <4>3 DEF StoreInv, InFrame
    <3> QED BY <3>1, <3>2
  <2> QED BY <1>1, <1>7, <2>1 DEF InFrame, Valid, find_page_by_entryhi
<1>9. InFlash'
  <2>1. ASSUME NEW b \in Asid, NEW q \in Pages[b], StillRuns(b),
               \A j \in Slot : pgTbl[b][j].hi = q => ~ Valid(pgTbl[b][j].lo),
               \A u \in Thread : ~ Leaves(u, b, q)
        PROVE  flash[b][find_page_by_entryhi(q)] = mem'[b][q]
    <3>1. ~ (b = a /\ q = p)
      BY <1>3, <1>4, <2>1
    <3> QED BY <1>5, <2>1, <3>1 DEF StoreInv, InFlash
  <2>2. \A u \in Thread : \A b, q : Leaves(u, b, q)' <=> Leaves(u, b, q)
    BY <1>1 DEF Leaves, Victim, VictimEntry
  <2> QED BY <1>1, <1>7, <2>1, <2>2 DEF InFlash, Valid, find_page_by_entryhi
<1>10. ASSUME NEW u \in Thread  PROVE NotMapped(u)' /\ OnWayOut(u)' /\ Read(u)'
  <2>1. /\ NotMapped(u) /\ OnWayOut(u) /\ Read(u)
        /\ FaultPage(u)' = FaultPage(u) /\ Victim(u)' = Victim(u) /\ VictimEntry(u)' = VictimEntry(u)
    BY <1>1 DEF StoreInv, Pagers, FaultPage, Victim, VictimEntry
  <2>2. NotMapped(u)'
    BY <1>1, <2>1 DEF NotMapped
  <2>3. pc[u] \in Evicting => loc[u].frame \in Frame /\ loc[u].frame # f
    BY <1>2, <1>4, StoreTypes DEF SwapInv, Cleared, Evicting, Inside
  <2>4. Read(u)'
    <3>1. CASE pc[u] \in {"settle", "map"}
      <4>1. AsidOf(u) # a
        BY <1>1, <1>2, <3>1, StoreTypes, Alone DEF OneInv
      <4>2. AsidOf(u) \in Asid /\ FaultPage(u) \in Pages[AsidOf(u)]
        BY <3>1, StoreTypes, ThreadFacts DEF InPager, Inside
      <4>3. ram'[loc[u].frame] = ram[loc[u].frame]
        BY <1>5, <2>3, <3>1 DEF Evicting
      <4>4. mem'[AsidOf(u)][FaultPage(u)] = mem[AsidOf(u)][FaultPage(u)]
        BY <1>5, <4>1, <4>2
      <4>5. find_page_by_entryhi(FaultPage(u))' = find_page_by_entryhi(FaultPage(u))
        BY <2>1 DEF find_page_by_entryhi
      <4> QED BY <1>1, <2>1, <4>3, <4>4, <4>5 DEF Read
    <3>2. CASE pc[u] \notin {"settle", "map"}
      BY <1>1, <3>2 DEF Read
    <3> QED BY <3>1, <3>2
  <2>5. OnWayOut(u)'
    <3>1. ASSUME Victim(u).pte.asid \in Asid, StillRuns(Victim(u).pte.asid), pc[u] \in Leaving
          PROVE  ram'[loc[u].frame] = mem'[Victim(u).pte.asid][VictimEntry(u).hi]
      <4>1. PICK b \in Asid : b = Victim(u).pte.asid
        BY <3>1
      <4>2. /\ VictimEntry(u).hi \in Pages[b] /\ VictimEntry(u).lo = Invalid
            /\ ram[loc[u].frame] = mem[b][VictimEntry(u).hi]
        BY <2>1, <3>1, <4>1 DEF OnWayOut
      <4>3. ~ (b = a /\ VictimEntry(u).hi = p)
        <5>1. PICK s \in Slot : VictimEntry(u) = pgTbl[b][s]
          BY <2>3, <3>1, <4>1, StoreTypes DEF VictimEntry, Victim, Evicting, Leaving
        <5>2. CASE b = a /\ VictimEntry(u).hi = p
          <6>1. s = i
            BY <1>3, <4>2, <5>1, <5>2, OneEntry
          <6> QED BY <1>4, <4>2, <5>1, <5>2, <6>1 DEF Valid, Invalid
        <5> QED BY <5>2
      <4>4. ram'[loc[u].frame] = ram[loc[u].frame]
        BY <1>5, <2>3, <3>1 DEF Evicting, Leaving
      <4> QED BY <1>5, <4>1, <4>2, <4>3, <4>4
    <3>2. find_page_by_entryhi(VictimEntry(u).hi)' = find_page_by_entryhi(VictimEntry(u).hi)
      BY <2>1 DEF find_page_by_entryhi
    <3>3. StillRuns(Victim(u).pte.asid)' <=> StillRuns(Victim(u).pte.asid)
      BY <1>1, <2>1 DEF StillRuns
    <3> QED BY <1>1, <2>1, <3>1, <3>2, <3>3 DEF OnWayOut, Leaving
  <2> QED BY <2>2, <2>4, <2>5
<1> QED BY <1>5, <1>6, <1>8, <1>9, <1>10 DEF Pagers

(* test takes back the frames of a process that has ended.                 *)
LEMMA StoreFrees ==
    ASSUME InTurn', StoreInv, NEW a \in Asid, mark_free_pages(a)
    PROVE  HisPages' /\ Pagers' /\ Backed' /\ InFrame' /\ InFlash' /\ mem' = mem
<1>1. /\ UNCHANGED <<pc, loc, exceptState, pgTbl, ram, flash, mem>> /\ ~ StillRuns(a)
  BY StoreTypes, ToldStopped DEF mark_free_pages, tableVars, storeVars
<1>2. \A f \in Frame : /\ swap_pool_table'[f].pte = swap_pool_table[f].pte
                       /\ swap_pool_table'[f].pageNo = swap_pool_table[f].pageNo
                       /\ swap_pool_table'[f].asid =
                             IF swap_pool_table[f].asid = a THEN NOPROC
                             ELSE swap_pool_table[f].asid
  BY StoreTypes DEF mark_free_pages
<1>3. \A b \in Asid : (StillRuns(b)' <=> StillRuns(b)) /\ b # NOPROC
  BY <1>1, PagerAssumption DEF StillRuns, NOPROC
<1>4. HisPages' /\ InFrame'
  BY <1>1, <1>3 DEF StoreInv, HisPages, InFrame, Valid, find_page_by_entryhi
<1>5. Backed'
  <2>1. ASSUME NEW g \in Frame, \A t \in Thread : pc[t] \in Evicting => loc[t].frame # g,
               NEW b \in Asid, StillRuns(b), swap_pool_table'[g].asid = b
        PROVE  /\ Valid(pgTbl[b][swap_pool_table'[g].pte.slot].lo)
               /\ pgTbl[b][swap_pool_table'[g].pte.slot].lo.frame = g
    <3>1. swap_pool_table[g].asid = b /\ swap_pool_table'[g].pte = swap_pool_table[g].pte
      BY <1>2, <1>3, <2>1
    <3> QED BY <2>1, <3>1 DEF StoreInv, Backed
  <2> QED BY <1>1, <1>3, <2>1 DEF Backed, Valid
<1>6. ASSUME NEW u \in Thread, loc[u].frame \in Frame
      PROVE  /\ Victim(u)'.pte = Victim(u).pte /\ Victim(u)'.pageNo = Victim(u).pageNo
             /\ VictimEntry(u)' = VictimEntry(u)
             /\ Victim(u)'.asid = IF Victim(u).asid = a THEN NOPROC ELSE Victim(u).asid
  BY <1>1, <1>2, <1>6 DEF Victim, VictimEntry
<1>7. \A u \in Thread : pc[u] \in Seeking \ {"fault", "waitP"} => loc[u].frame \in Frame
  BY StoreTypes DEF Seeking, Evicting, Inside
<1>8. InFlash'
  <2>1. ASSUME NEW b \in Asid, NEW p \in Pages[b], StillRuns(b),
               \A i \in Slot : pgTbl[b][i].hi = p => ~ Valid(pgTbl[b][i].lo),
               \A u \in Thread : ~ Leaves(u, b, p)'
        PROVE  flash[b][find_page_by_entryhi(p)] = mem[b][p]
    <3>1. ASSUME NEW u \in Thread, Leaves(u, b, p)  PROVE FALSE
      <4>1. loc[u].frame \in Frame
        BY <1>7, <3>1 DEF Leaves, Leaving, Seeking, Evicting
      <4>2. Leaves(u, b, p)'
        BY <1>1, <1>6, <3>1, <4>1 DEF Leaves, Leaving
      <4> QED BY <2>1, <4>2
    <3> QED BY <2>1, <3>1 DEF StoreInv, InFlash
  <2> QED BY <1>1, <1>3, <2>1 DEF InFlash, Valid, find_page_by_entryhi
<1>9. ASSUME NEW u \in Thread  PROVE NotMapped(u)' /\ OnWayOut(u)' /\ Read(u)'
  <2>1. /\ NotMapped(u) /\ OnWayOut(u) /\ Read(u) /\ FaultPage(u)' = FaultPage(u)
    BY <1>1 DEF StoreInv, Pagers, FaultPage
  <2>2. NotMapped(u)' /\ Read(u)'
    BY <1>1, <2>1 DEF NotMapped, Read, find_page_by_entryhi
  <2>3. OnWayOut(u)'
    <3>1. CASE pc[u] \in {"invalidate"} \cup Leaving
      <4>1. loc[u].frame \in Frame
        BY <1>7, <3>1 DEF Leaving, Seeking, Evicting
      <4>2. ASSUME Victim(u).pte.asid \in Asid, StillRuns(Victim(u).pte.asid)
            PROVE  Victim(u)'.asid = Victim(u).asid
        <5>1. Victim(u).asid = Victim(u).pte.asid
          BY <2>1, <3>1, <4>2 DEF OnWayOut
        <5> QED BY <1>1, <1>6, <4>1, <4>2, <5>1
      <4>3. StillRuns(Victim(u).pte.asid)' => StillRuns(Victim(u).pte.asid)
        BY <1>1, <1>6, <4>1 DEF StillRuns
      <4>4. find_page_by_entryhi(VictimEntry(u).hi)' = find_page_by_entryhi(VictimEntry(u).hi)
        BY <1>6, <4>1 DEF find_page_by_entryhi
      <4>5. Victim(u).pte.asid' = Victim(u).pte.asid
        BY <1>6, <4>1
      <4> QED BY <1>1, <1>6, <2>1, <4>1, <4>2, <4>3, <4>4, <4>5 DEF OnWayOut, Leaving
    <3>2. CASE pc[u] \notin {"invalidate"} \cup Leaving
      BY <1>1, <3>2 DEF OnWayOut, Leaving
    <3> QED BY <3>1, <3>2
  <2> QED BY <2>2, <2>3
<1> QED BY <1>1, <1>4, <1>5, <1>8, <1>9 DEF Pagers

(* While one pager is inside, the others wait for it.                      *)
LEMMA OthersWait ==
    ASSUME InTurn', StoreInv, [Next]_vars, NEW t \in Thread, InsideStep(t),
           NEW u \in Thread, u # t,
           \A i \in Slot : AsidOf(u) # AsidOf(t) =>
              /\ pgTbl'[AsidOf(u)][i].hi = pgTbl[AsidOf(u)][i].hi
              /\ pgTbl'[AsidOf(u)][i].lo \in {Invalid, pgTbl[AsidOf(u)][i].lo}
    PROVE  /\ NotMapped(u)' /\ OnWayOut(u)' /\ Read(u)'
           /\ pc[u] \notin Inside /\ pc'[u] \notin Inside
           /\ \A a, p : ~ Leaves(u, a, p) /\ ~ Leaves(u, a, p)'
<1>1. pc'[u] = pc[u] /\ pc[u] \notin Inside
  BY StoreTypes, InsideOthers
<1>2. OnWayOut(u)' /\ Read(u)' /\ \A a, p : ~ Leaves(u, a, p) /\ ~ Leaves(u, a, p)'
  BY <1>1 DEF OnWayOut, Read, Leaves, Leaving, Inside
<1>3. NotMapped(u)'
  <2>1. CASE pc[u] \in {"fault", "waitP"}
    <3>1. AsidOf(u) # AsidOf(t)
      <4>1. pc[t] \in Inside
        BY StoreTypes, InsideStepFacts
      <4> QED BY <2>1, <4>1, StoreTypes, Alone DEF OneInv, Inside
    <3>2. exceptState' = exceptState
      BY StoreTypes, InsideStepFacts
    <3>3. FaultPage(u)' = FaultPage(u) /\ NotMapped(u)
      BY <3>2 DEF StoreInv, Pagers, FaultPage
    <3> QED BY <1>1, <2>1, <3>1, <3>3 DEF NotMapped, Seeking
  <2>2. CASE pc[u] \notin {"fault", "waitP"}
    BY <1>1, <2>2 DEF NotMapped, Seeking, Evicting, Inside
  <2> QED BY <2>1, <2>2
<1> QED BY <1>1, <1>2, <1>3

StoreGoal == HisPages' /\ Pagers' /\ Backed' /\ InFrame' /\ InFlash' /\ mem' = mem

(* The steps between two tables: a frame is chosen, and what is written of *)
(* it is prepared.                                                         *)
LEMMA StoreChooses ==
    ASSUME InTurn', StoreInv, [Next]_vars, NEW t \in Thread,
           getFrameIndex(t) \/ ChecksFrame(t) \/ WritesBack(t)
    PROVE  StoreGoal
<1>1. InsideStep(t) /\ PlainStep(t)
  BY DEF InsideStep, PlainStep
<1>2. /\ UNCHANGED <<pgTbl, swap_pool_table, flash, ram, mem, exceptState>>
  BY DEF getFrameIndex, ChecksFrame, WritesBack, tableVars, swapVars, storeVars
<1>3. \A u \in Thread : u # t => pc'[u] = pc[u] /\ loc'[u] = loc[u] /\ pc[u] \notin Inside
  BY <1>1, StoreTypes, InsideOthers
<1>4. \/ /\ pc[t] \in {"scan", "check"} /\ pc'[t] \in {"scan", "check", "readIn"}
      \/ /\ ChecksFrame(t) /\ ~ isFrameFree(loc[t].frame) /\ pc[t] = "check"
         /\ pc'[t] = "invalidate" /\ loc' = loc
      \/ /\ pc[t] = "writeBack" /\ pc'[t] = "writing" /\ loc'[t].frame = loc[t].frame
  BY StoreTypes DEF getFrameIndex, ChecksFrame, WritesBack, At, Goes
<1>5. HisPages' /\ Backed' /\ InFrame' /\ InFlash'
  <2>1. \A u \in Thread : /\ pc[u] \in Evicting =>
                                pc'[u] \in Evicting /\ loc'[u].frame = loc[u].frame
                          /\ pc[u] \in Leaving => pc'[u] \in Leaving
    BY <1>3, <1>4 DEF Evicting, Leaving, Inside
  <2> QED BY <1>2, <2>1, StoreKeeps
<1>6. ASSUME NEW u \in Thread, u # t  PROVE NotMapped(u)' /\ OnWayOut(u)' /\ Read(u)'
  BY <1>2, <1>3, <1>6, PagerKeeps
<1>7. NotMapped(t)' /\ Read(t)'
  <2>1. NotMapped(t) /\ FaultPage(t)' = FaultPage(t)
    BY <1>2 DEF StoreInv, Pagers, FaultPage
  <2> QED BY <1>2, <1>4, <2>1 DEF NotMapped, Read, Seeking, Evicting
<1>8. OnWayOut(t)'
  <2>1. CASE pc'[t] \in {"scan", "check", "readIn"}
    BY <2>1 DEF OnWayOut, Leaving
  <2>2. CASE ChecksFrame(t) /\ ~ isFrameFree(loc[t].frame) /\ pc[t] = "check"
             /\ pc'[t] = "invalidate" /\ loc' = loc
    <3>1. loc[t].frame \in Frame
      BY <2>2, StoreTypes DEF Inside
    <3>2. Victim(t)' = Victim(t) /\ Victim(t).asid # NOPROC
          /\ Victim(t).asid \in {NOPROC, Victim(t).pte.asid}
      BY <1>2, <2>2, <3>1 DEF Victim, isFrameFree, StoreInv, TargetInv, OwnersAgree
    <3> QED BY <2>2, <3>2 DEF OnWayOut, Leaving
  <2>3. CASE pc[t] = "writeBack" /\ pc'[t] = "writing" /\ loc'[t].frame = loc[t].frame
    <3>1. OnWayOut(t) /\ Victim(t)' = Victim(t) /\ VictimEntry(t)' = VictimEntry(t)
      BY <1>2, <2>3 DEF StoreInv, Pagers, Victim, VictimEntry
    <3>2. find_page_by_entryhi(VictimEntry(t).hi)' = find_page_by_entryhi(VictimEntry(t).hi)
      BY <3>1 DEF find_page_by_entryhi
    <3>3. ASSUME Victim(t).pte.asid \in Asid, StillRuns(Victim(t).pte.asid)'
          PROVE  StillRuns(Victim(t).pte.asid)
      <4>1. PICK b \in Asid : b = Victim(t).pte.asid
        BY <3>3
      <4>2. StillRuns(b)'
        BY <3>1, <3>3, <4>1 DEF StillRuns
      <4> QED BY <4>1, <4>2, StoreTypes, RanBefore
    <3> QED BY <1>2, <2>3, <3>1, <3>2, <3>3 DEF OnWayOut, Leaving
  <2> QED BY <1>4, <2>1, <2>2, <2>3
<1> QED BY <1>2, <1>5, <1>6, <1>7, <1>8 DEF Pagers, StoreGoal

(* The victim's page loses its frame, and is as it was in the flash if it  *)
(* has not been written to.                                                *)
LEMMA StoreInvalidates ==
    ASSUME InTurn', StoreInv, [Next]_vars, NEW t \in Thread, Invalidates(t)
    PROVE  StoreGoal
<1>1. /\ InsideStep(t) /\ pc[t] = "invalidate"
      /\ UNCHANGED <<loc, exceptState, swap_pool_table, ram, flash, mem>>
      /\ pgTbl' = [pgTbl EXCEPT ![Victim(t).pte.asid][Victim(t).pte.slot].lo = Invalid]
      /\ pc'[t] = IF VictimEntry(t).lo.dirty THEN "writeBack" ELSE "readIn"
  BY StoreTypes DEF InsideStep, Invalidates, At, Goes, swapVars, storeVars
<1>2. PICK f \in Frame, b \in Asid \cup {NOPROC}, s \in Slot, v \in {VictimEntry(t)} :
         /\ f = loc[t].frame /\ b = Victim(t).pte.asid /\ s = Victim(t).pte.slot
         /\ v = VictimEntry(t) /\ v = pgTbl[b][s]
         /\ Victim(t) = swap_pool_table[f]
         /\ swap_pool_table[f].pte.asid = b /\ swap_pool_table[f].pte.slot = s
  BY <1>1, StoreTypes DEF Inside, Victim, VictimEntry
<1>3. /\ \A a \in Asid, i \in Slot : ~ (a = b /\ i = s) => pgTbl'[a][i] = pgTbl[a][i]
      /\ b \in Asid => pgTbl'[b][s].hi = v.hi /\ pgTbl'[b][s].lo = Invalid
  <2>1. pgTbl' = [pgTbl EXCEPT ![b][s].lo = Invalid]
    BY <1>1, <1>2
  <2>2. \A a \in Asid, i \in Slot : ~ (a = b /\ i = s) => pgTbl'[a][i] = pgTbl[a][i]
    BY <2>1, StoreTypes
  <2>3. ASSUME b \in Asid  PROVE pgTbl'[b][s].hi = v.hi /\ pgTbl'[b][s].lo = Invalid
    <3>1. pgTbl'[b][s] = [v EXCEPT !.lo = Invalid]
      BY <1>2, <2>1, <2>3, StoreTypes
    <3>2. v \in [hi : Page \cup {NOPAGE}, lo : EntryLo]
      BY <1>2, <2>3, StoreTypes
    <3> QED BY <3>1, <3>2
  <2> QED BY <2>2, <2>3
<1>4. \A a \in Asid, i \in Slot :
         /\ pgTbl'[a][i].hi = pgTbl[a][i].hi
         /\ pgTbl'[a][i].lo \in {Invalid, pgTbl[a][i].lo}
         /\ Valid(pgTbl'[a][i].lo) => pgTbl'[a][i] = pgTbl[a][i] /\ ~ (a = b /\ i = s)
  <2>1. ASSUME NEW a \in Asid, NEW i \in Slot
        PROVE  /\ pgTbl'[a][i].hi = pgTbl[a][i].hi
               /\ pgTbl'[a][i].lo \in {Invalid, pgTbl[a][i].lo}
               /\ Valid(pgTbl'[a][i].lo) => pgTbl'[a][i] = pgTbl[a][i] /\ ~ (a = b /\ i = s)
    <3>1. CASE a = b /\ i = s
      BY <1>2, <1>3, <3>1 DEF Valid, Invalid
    <3>2. CASE ~ (a = b /\ i = s)
      BY <1>3, <3>2
    <3> QED BY <3>1, <3>2
  <2> QED BY <2>1
<1>5. \A u \in Thread : u # t =>
         /\ NotMapped(u)' /\ OnWayOut(u)' /\ Read(u)' /\ pc[u] \notin Inside /\ pc'[u] \notin Inside
         /\ \A a, p : ~ Leaves(u, a, p) /\ ~ Leaves(u, a, p)'
  BY <1>1, <1>4, OthersWait, ThreadFacts
<1>6. \A a \in Asid : StillRuns(a)' => StillRuns(a)
  BY StoreTypes, RanBefore
<1>7. \A u \in Thread : pc[u] \notin Evicting
  BY <1>1, <1>5 DEF Evicting, Inside
<1>8. ASSUME b \in Asid, StillRuns(b)
      PROVE  /\ Valid(v.lo) /\ v.lo.frame = f /\ v.hi \in Pages[b]
             /\ Victim(t).asid = b /\ Victim(t).pageNo = find_page_by_entryhi(v.hi)
             /\ ram[f] = mem[b][v.hi]
             /\ ~ v.lo.dirty => flash[b][find_page_by_entryhi(v.hi)] = mem[b][v.hi]
  <2>1. Victim(t).asid = b
    BY <1>1, <1>2, <1>8 DEF StoreInv, Pagers, OnWayOut
  <2>2. Valid(v.lo) /\ v.lo.frame = f
    <3>1. swap_pool_table[f].asid = b
      BY <1>2, <2>1
    <3>2. \A u \in Thread : pc[u] \in Evicting => loc[u].frame # f
      BY <1>7
    <3>3. /\ Valid(pgTbl[b][swap_pool_table[f].pte.slot].lo)
          /\ pgTbl[b][swap_pool_table[f].pte.slot].lo.frame = f
      BY <1>8, <3>1, <3>2 DEF StoreInv, Backed
    <3> QED BY <1>2, <3>3
  <2>3. v.hi \in Pages[b]
    BY <1>2, <1>8, <2>2 DEF StoreInv, HisPages, Valid, Invalid
  <2>4. Victim(t).pageNo = find_page_by_entryhi(v.hi)
    <3>1. swap_pool_table[pgTbl[b][s].lo.frame].pageNo = find_page_by_entryhi(pgTbl[b][s].hi)
      BY <1>2, <1>8, <2>2, StoreTypes, ExactEntry
    <3> QED BY <1>2, <2>2, <3>1
  <2> QED BY <1>2, <1>8, <2>1, <2>2, <2>3, <2>4 DEF StoreInv, InFrame
<1>9. HisPages'
  BY <1>4 DEF StoreInv, HisPages
<1>10. Backed'
  <2>1. ASSUME NEW g \in Frame, \A u \in Thread : pc'[u] \in Evicting => loc[u].frame # g,
               NEW a \in Asid, StillRuns(a)', swap_pool_table[g].asid = a
        PROVE  /\ Valid(pgTbl'[a][swap_pool_table[g].pte.slot].lo)
               /\ pgTbl'[a][swap_pool_table[g].pte.slot].lo.frame = g
    <3>1. g # f
      BY <1>1, <1>2, <2>1 DEF Evicting
    <3>2. /\ Valid(pgTbl[a][swap_pool_table[g].pte.slot].lo)
          /\ pgTbl[a][swap_pool_table[g].pte.slot].lo.frame = g
          /\ swap_pool_table[g].pte.slot \in Slot /\ StillRuns(a)
      BY <1>6, <1>7, <2>1, StoreTypes DEF StoreInv, Backed
    <3>3. ~ (a = b /\ swap_pool_table[g].pte.slot = s)
      BY <1>2, <1>8, <3>1, <3>2
    <3> QED BY <1>3, <3>2, <3>3
  <2> QED BY <1>1, <2>1 DEF Backed, Valid
<1>11. InFrame'
  <2>1. ASSUME NEW a \in Asid, NEW i \in Slot, StillRuns(a)', Valid(pgTbl'[a][i].lo)
        PROVE  /\ ram[pgTbl'[a][i].lo.frame] = mem[a][pgTbl'[a][i].hi]
               /\ ~ pgTbl'[a][i].lo.dirty =>
                     flash[a][find_page_by_entryhi(pgTbl'[a][i].hi)] = mem[a][pgTbl'[a][i].hi]
    <3>1. pgTbl'[a][i] = pgTbl[a][i] /\ StillRuns(a)
      BY <1>4, <1>6, <2>1
    <3> QED BY <2>1, <3>1 DEF StoreInv, InFrame
  <2>2. UNCHANGED <<ram, flash, mem>>
    BY <1>1
  <2> QED BY <2>1, <2>2 DEF InFrame, Valid, find_page_by_entryhi
<1>12. Victim(t)' = Victim(t) /\ (b \in Asid => VictimEntry(t)'.hi = v.hi /\ VictimEntry(t)'.lo = Invalid)
  BY <1>1, <1>2, <1>3 DEF Victim, VictimEntry
<1>13. InFlash'
  <2>1. ASSUME NEW a \in Asid, NEW p \in Pages[a], StillRuns(a)',
               \A i \in Slot : pgTbl'[a][i].hi = p => ~ Valid(pgTbl'[a][i].lo),
               \A u \in Thread : ~ Leaves(u, a, p)'
        PROVE  flash[a][find_page_by_entryhi(p)] = mem[a][p]
    <3>1. CASE a = b /\ p = v.hi
      <4>1. StillRuns(b) /\ b \in Asid
        BY <1>6, <2>1, <3>1
      <4>2. CASE v.lo.dirty
        <5>1. Leaves(t, a, p)'
          BY <1>1, <1>2, <1>12, <3>1, <4>1, <4>2 DEF Leaves, Leaving
        <5> QED BY <2>1, <5>1
      <4>3. CASE ~ v.lo.dirty
        BY <1>8, <3>1, <4>1, <4>3
      <4> QED BY <4>2, <4>3
    <3>2. CASE ~ (a = b /\ p = v.hi)
      <4>1. \A i \in Slot : pgTbl[a][i].hi = p => ~ Valid(pgTbl[a][i].lo)
        BY <1>2, <1>3, <2>1, <3>2
      <4>2. \A u \in Thread : ~ Leaves(u, a, p)
        BY <1>7 DEF Leaves, Leaving, Evicting
      <4> QED BY <1>6, <2>1, <4>1, <4>2 DEF StoreInv, InFlash
    <3> QED BY <3>1, <3>2
  <2> QED BY <1>1, <2>1 DEF InFlash, Valid, find_page_by_entryhi
<1>14. NotMapped(t)' /\ OnWayOut(t)' /\ Read(t)'
  <2>1. Read(t)'
    BY <1>1 DEF Read
  <2>2. NotMapped(t)'
    <3>1. FaultPage(t)' = FaultPage(t) /\ AsidOf(t) \in Asid
      BY <1>1, ThreadFacts DEF FaultPage
    <3>2. \A i \in Slot : pgTbl[AsidOf(t)][i].hi = FaultPage(t) => pgTbl[AsidOf(t)][i].lo = Invalid
      BY <1>1 DEF StoreInv, Pagers, NotMapped, Seeking
    <3>3. \A i \in Slot : pgTbl'[AsidOf(t)][i].hi = FaultPage(t) => pgTbl'[AsidOf(t)][i].lo = Invalid
      BY <1>4, <3>1, <3>2
    <3> QED BY <3>1, <3>3 DEF NotMapped
  <2>3. OnWayOut(t)'
    <3>1. ASSUME b \in Asid, StillRuns(b)'
          PROVE  /\ Victim(t).asid = b /\ v.hi \in Pages[b]
                 /\ Victim(t).pageNo = find_page_by_entryhi(v.hi) /\ ram[f] = mem[b][v.hi]
      BY <1>6, <1>8, <3>1
    <3>2. Victim(t)'.pte.asid = b /\ (StillRuns(Victim(t).pte.asid)' => StillRuns(b)')
      BY <1>2, <1>12 DEF StillRuns
    <3>3. b \in Asid => find_page_by_entryhi(VictimEntry(t).hi)' = find_page_by_entryhi(v.hi)
      BY <1>12 DEF find_page_by_entryhi
    <3> QED BY <1>1, <1>2, <1>12, <3>1, <3>2, <3>3 DEF OnWayOut
  <2> QED BY <2>1, <2>2, <2>3
<1> QED BY <1>1, <1>5, <1>9, <1>10, <1>11, <1>13, <1>14 DEF Pagers, StoreGoal

(* The page that leaves is in the flash, in its own block.                 *)
LEMMA StoreWrites ==
    ASSUME InTurn', OwnBlocks, StoreInv, [Next]_vars, NEW t \in Thread,
           FlashWrites(t)
    PROVE  StoreGoal
<1>1. /\ InsideStep(t) /\ pc[t] = "writing" /\ pc'[t] = "readIn" /\ loc[t].asid # NOPROC
      /\ UNCHANGED <<loc, exceptState, pgTbl, swap_pool_table, ram, mem>>
      /\ flash' = [flash EXCEPT ![loc[t].asid][Victim(t).pageNo] = ram[loc[t].frame]]
  BY StoreTypes DEF InsideStep, FlashWrites, Astray, At, Goes, swapVars, tableVars
<1>2. PICK f, b, s, n, v :
         /\ f \in Frame /\ b \in Asid /\ s \in Slot
         /\ f = loc[t].frame /\ b = loc[t].asid /\ b = Victim(t).pte.asid
         /\ s = Victim(t).pte.slot /\ n = Victim(t).pageNo
         /\ v = VictimEntry(t) /\ v = pgTbl[b][s]
  <2>1. loc[t].frame \in Frame /\ loc[t].asid \in Asid \cup {NOPROC}
    BY <1>1, StoreTypes DEF Inside
  <2>2. loc[t].asid = Victim(t).pte.asid
    BY <1>1 DEF StoreInv, TargetInv, VictimAt
  <2>3. Victim(t).pte.slot \in Slot
    BY <2>1, StoreTypes DEF Victim
  <2> QED BY <1>1, <2>1, <2>2, <2>3 DEF VictimEntry
<1>3. /\ \A a \in Asid, k \in Block : ~ (a = b /\ k = n) => flash'[a][k] = flash[a][k]
      /\ n \in Block => flash'[b][n] = ram[f]
  <2>1. flash' = [flash EXCEPT ![b][n] = ram[f]] /\ b \in Asid
    BY <1>1, <1>2
  <2> QED BY <2>1, StoreTypes
<1>4. StillRuns(b) => /\ v.hi \in Pages[b] /\ v.lo = Invalid /\ ~ Valid(v.lo)
                      /\ n = find_page_by_entryhi(v.hi) /\ ram[f] = mem[b][v.hi]
  <2>1. OnWayOut(t)
    BY DEF StoreInv, Pagers
  <2>2. StillRuns(b) <=> StillRuns(Victim(t).pte.asid)
    BY <1>2
  <2> QED BY <1>1, <1>2, <2>1, <2>2 DEF OnWayOut, Leaving, Valid, Invalid
<1>5. \A u \in Thread : u # t =>
         /\ NotMapped(u)' /\ OnWayOut(u)' /\ Read(u)' /\ pc[u] \notin Inside /\ pc'[u] \notin Inside
         /\ \A a, p : ~ Leaves(u, a, p) /\ ~ Leaves(u, a, p)'
  BY <1>1, OthersWait
<1>6. \A a \in Asid : StillRuns(a)' => StillRuns(a)
  BY StoreTypes, RanBefore
<1>7. ASSUME NEW a \in Asid, NEW p \in Pages[a], StillRuns(a), ~ (a = b /\ p = v.hi)
      PROVE  flash'[a][find_page_by_entryhi(p)] = flash[a][find_page_by_entryhi(p)]
  <2>1. find_page_by_entryhi(p) \in Block
    BY PageFacts
  <2>2. ~ (a = b /\ find_page_by_entryhi(p) = n)
    BY <1>4, <1>7 DEF OwnBlocks
  <2> QED BY <1>3, <2>1, <2>2
<1>8. HisPages'
  BY <1>1 DEF StoreInv, HisPages
<1>9. Backed'
  <2>1. ASSUME NEW g \in Frame, \A u \in Thread : pc'[u] \in Evicting => loc[u].frame # g,
               NEW a \in Asid, StillRuns(a)', swap_pool_table[g].asid = a
        PROVE  /\ Valid(pgTbl[a][swap_pool_table[g].pte.slot].lo)
               /\ pgTbl[a][swap_pool_table[g].pte.slot].lo.frame = g
    <3>1. \A u \in Thread : pc[u] \in Evicting => loc[u].frame # g
      BY <1>1, <1>5, <2>1 DEF Evicting, Inside
    <3> QED BY <1>6, <2>1, <3>1 DEF StoreInv, Backed
  <2> QED BY <1>1, <2>1 DEF Backed, Valid
<1>10. InFrame'
  <2>1. ASSUME NEW a \in Asid, NEW i \in Slot, StillRuns(a)', Valid(pgTbl[a][i].lo)
        PROVE  /\ ram[pgTbl[a][i].lo.frame] = mem[a][pgTbl[a][i].hi]
               /\ ~ pgTbl[a][i].lo.dirty =>
                     flash'[a][find_page_by_entryhi(pgTbl[a][i].hi)] = mem[a][pgTbl[a][i].hi]
    <3>1. StillRuns(a) /\ pgTbl[a][i].hi \in Pages[a]
      BY <1>6, <2>1 DEF StoreInv, HisPages, Valid, Invalid
    <3>2. ~ (a = b /\ pgTbl[a][i].hi = v.hi)
      <4>1. CASE a = b /\ pgTbl[a][i].hi = v.hi
        <5>1. i = s
          BY <1>2, <3>1, <4>1, OneEntry
        <5> QED BY <1>2, <1>4, <2>1, <3>1, <4>1, <5>1
      <4> QED BY <4>1
    <3> QED BY <1>7, <2>1, <3>1, <3>2 DEF StoreInv, InFrame
  <2>2. UNCHANGED <<pgTbl, ram, mem>>
    BY <1>1
  <2> QED BY <2>1, <2>2 DEF InFrame, Valid, find_page_by_entryhi
<1>11. InFlash'
  <2>1. ASSUME NEW a \in Asid, NEW p \in Pages[a], StillRuns(a)',
               \A i \in Slot : pgTbl[a][i].hi = p => ~ Valid(pgTbl[a][i].lo)
        PROVE  flash'[a][find_page_by_entryhi(p)] = mem[a][p]
    <3>1. StillRuns(a)
      BY <1>6, <2>1
    <3>2. CASE a = b /\ p = v.hi
      <4>1. n = find_page_by_entryhi(p) /\ n \in Block /\ ram[f] = mem[b][v.hi]
        BY <1>4, <3>1, <3>2, PageFacts
      <4> QED BY <1>3, <3>2, <4>1
    <3>3. CASE ~ (a = b /\ p = v.hi)
      <4>1. \A u \in Thread : ~ Leaves(u, a, p)
        BY <1>2, <1>5, <3>3 DEF Leaves
      <4>2. flash[a][find_page_by_entryhi(p)] = mem[a][p]
        BY <2>1, <3>1, <4>1 DEF StoreInv, InFlash
      <4> QED BY <1>7, <3>1, <3>3, <4>2
    <3> QED BY <3>2, <3>3
  <2>2. UNCHANGED <<pgTbl, mem>>
    BY <1>1
  <2> QED BY <2>1, <2>2 DEF InFlash, Valid, find_page_by_entryhi
<1>12. NotMapped(t)' /\ OnWayOut(t)' /\ Read(t)'
  <2>1. NotMapped(t) /\ FaultPage(t)' = FaultPage(t)
    BY <1>1 DEF StoreInv, Pagers, FaultPage
  <2> QED BY <1>1, <2>1 DEF NotMapped, OnWayOut, Read, Seeking, Evicting, Leaving
<1> QED BY <1>1, <1>5, <1>8, <1>9, <1>10, <1>11, <1>12 DEF Pagers, StoreGoal

(* A page is read into a frame that nobody sees.                           *)
LEMMA StoreReads ==
    ASSUME InTurn', StoreInv, [Next]_vars, NEW t \in Thread, FlashReads(t)
    PROVE  StoreGoal
<1>1. /\ InsideStep(t) /\ pc[t] = "readIn" /\ pc'[t] = "settle"
      /\ UNCHANGED <<loc, exceptState, pgTbl, swap_pool_table, flash, mem>>
      /\ ram' = [ram EXCEPT ![loc[t].frame] = flash[AsidOf(t)][loc[t].page]]
  BY StoreTypes DEF InsideStep, FlashReads, At, Goes, swapVars, tableVars
<1>2. PICK a \in Asid, p \in Pages[AsidOf(t)], f \in Frame :
         /\ a = AsidOf(t) /\ p = FaultPage(t) /\ f = loc[t].frame /\ StillRuns(a)
         /\ loc[t].page = find_page_by_entryhi(p)
  BY <1>1, StoreTypes, InsideRuns DEF Inside, InPager
<1>3. ram'[f] = flash[a][find_page_by_entryhi(p)] /\ \A g \in Frame : g # f => ram'[g] = ram[g]
  BY <1>1, <1>2, StoreTypes
<1>4. \A u \in Thread : u # t =>
         /\ NotMapped(u)' /\ OnWayOut(u)' /\ Read(u)' /\ pc[u] \notin Inside /\ pc'[u] \notin Inside
         /\ \A b, q : ~ Leaves(u, b, q) /\ ~ Leaves(u, b, q)'
  BY <1>1, OthersWait
<1>5. \A b \in Asid : StillRuns(b)' => StillRuns(b)
  BY StoreTypes, RanBefore
<1>6. HisPages'
  BY <1>1 DEF StoreInv, HisPages
<1>7. Backed'
  <2>1. ASSUME NEW g \in Frame, \A u \in Thread : pc'[u] \in Evicting => loc[u].frame # g,
               NEW b \in Asid, StillRuns(b)', swap_pool_table[g].asid = b
        PROVE  /\ Valid(pgTbl[b][swap_pool_table[g].pte.slot].lo)
               /\ pgTbl[b][swap_pool_table[g].pte.slot].lo.frame = g
    <3>1. \A u \in Thread : pc[u] \in Evicting => loc[u].frame # g
      BY <1>1, <1>4, <2>1 DEF Evicting, Inside
    <3> QED BY <1>5, <2>1, <3>1 DEF StoreInv, Backed
  <2> QED BY <1>1, <2>1 DEF Backed, Valid
<1>8. InFrame'
  <2>1. ASSUME NEW b \in Asid, NEW i \in Slot, StillRuns(b)', Valid(pgTbl[b][i].lo)
        PROVE  /\ ram'[pgTbl[b][i].lo.frame] = mem[b][pgTbl[b][i].hi]
               /\ ~ pgTbl[b][i].lo.dirty =>
                     flash[b][find_page_by_entryhi(pgTbl[b][i].hi)] = mem[b][pgTbl[b][i].hi]
    <3>1. StillRuns(b) /\ pgTbl[b][i].lo.frame \in Frame
      BY <1>5, <2>1, StoreTypes DEF EntryLo, Valid, Invalid
    <3>2. pgTbl[b][i].lo.frame # f
      BY <1>1, <1>2, <2>1, <3>1 DEF StoreInv, SwapInv, Cleared, Evicting
    <3> QED BY <1>3, <2>1, <3>1, <3>2 DEF StoreInv, InFrame
  <2>2. UNCHANGED <<pgTbl, flash, mem>>
    BY <1>1
  <2> QED BY <2>1, <2>2 DEF InFrame, Valid, find_page_by_entryhi
<1>9. InFlash'
  <2>1. \A u \in Thread : \A b, q : ~ Leaves(u, b, q)
    BY <1>1, <1>4 DEF Leaves, Leaving
  <2> QED BY <1>1, <1>5, <2>1 DEF StoreInv, InFlash, Valid, find_page_by_entryhi
<1>10. NotMapped(t) /\ FaultPage(t)' = FaultPage(t)
  BY <1>1 DEF StoreInv, Pagers, FaultPage
<1>11. Read(t)'
  <2>1. flash[a][find_page_by_entryhi(p)] = mem[a][p]
    <3>1. \A i \in Slot : pgTbl[a][i].hi = p => ~ Valid(pgTbl[a][i].lo)
      BY <1>1, <1>2, <1>10 DEF NotMapped, Seeking, Evicting, Valid, Invalid
    <3>2. \A u \in Thread : ~ Leaves(u, a, p)
      BY <1>1, <1>4 DEF Leaves, Leaving
    <3> QED BY <1>2, <3>1, <3>2 DEF StoreInv, InFlash
  <2>2. find_page_by_entryhi(FaultPage(t))' = find_page_by_entryhi(p)
    BY <1>2, <1>10 DEF find_page_by_entryhi
  <2> QED BY <1>1, <1>2, <1>3, <1>10, <2>1, <2>2 DEF Read
<1>12. NotMapped(t)' /\ OnWayOut(t)'
  BY <1>1, <1>10 DEF NotMapped, OnWayOut, Seeking, Evicting, Leaving
<1> QED BY <1>1, <1>4, <1>6, <1>7, <1>8, <1>9, <1>11, <1>12 DEF Pagers, StoreGoal

(* A page that is not in the page table finds an entry for itself.         *)
LEMMA FindsRoom ==
    ASSUME StoreInv, Room, NEW a \in Asid, NEW p \in Pages[a]
    PROVE  Usable(a, p) # {}
<1> SUFFICES ASSUME Usable(a, p) = {} PROVE FALSE
  OBVIOUS
<1> DEFINE other == Pages[a] \ {p}
           hi == [i \in Slot |-> pgTbl[a][i].hi]
<1>1. hi \in [Slot -> other]
  <2>1. \A i \in Slot : pgTbl[a][i].hi \notin {NOPAGE, p}
    BY DEF Usable
  <2>2. \A i \in Slot : pgTbl[a][i].hi \in Pages[a] \/ pgTbl[a][i].hi = NOPAGE
    BY DEF StoreInv, HisPages
  <2> QED BY <2>1, <2>2
<1>2. IsFiniteSet(other) /\ Cardinality(other) = Cardinality(Pages[a]) - 1
  BY FS_RemoveElement DEF Room
<1>3. IsFiniteSet(Slot) /\ Cardinality(Slot) = MaxPages
  BY PagerAssumption, CountTo DEF Slot
<1>4. Cardinality(other) < Cardinality(Slot)
  <2>1. Cardinality(Pages[a]) \in Nat /\ Cardinality(Pages[a]) <= MaxPages
    BY FS_CardinalityType DEF Room
  <2> QED BY <1>2, <1>3, <2>1, PagerAssumption
<1>5. PICK i \in Slot, j \in Slot : i # j /\ hi[i] = hi[j]
  <2> HIDE DEF hi, other
  <2> QED BY <1>1, <1>2, <1>3, <1>4, FS_PigeonHole
<1>6. pgTbl[a][i].hi = pgTbl[a][j].hi /\ pgTbl[a][i].hi \in Pages[a]
  BY <1>1, <1>5
<1> QED BY <1>5, <1>6, OneEntry

LEMMA StoreSettles ==
    ASSUME InTurn', Room, StoreInv, [Next]_vars, NEW t \in Thread, Settles(t)
    PROVE  StoreGoal
<1>1. /\ InsideStep(t) /\ pc[t] = "settle"
      /\ UNCHANGED <<loc, exceptState, pgTbl, ram, flash, mem>>
  BY DEF InsideStep, Settles, At, storeVars, tableVars
<1>2. PICK f \in Frame : f = loc[t].frame
  BY <1>1, StoreTypes DEF Inside
<1>3. /\ pc'[t] = "map"
      /\ \A g \in Frame : g # f => swap_pool_table'[g] = swap_pool_table[g]
  <2>1. Usable(AsidOf(t), FaultPage(t)) # {}
    BY <1>1, StoreTypes, ThreadFacts, FindsRoom DEF InPager, Inside
  <2> QED BY <1>2, <2>1, StoreTypes DEF Settles, Goes
<1>4. \A u \in Thread : u # t =>
         /\ NotMapped(u)' /\ OnWayOut(u)' /\ Read(u)' /\ pc[u] \notin Inside /\ pc'[u] \notin Inside
         /\ \A a, p : ~ Leaves(u, a, p) /\ ~ Leaves(u, a, p)'
  BY <1>1, OthersWait
<1>5. \A b \in Asid : StillRuns(b)' => StillRuns(b)
  BY StoreTypes, RanBefore
<1>6. HisPages'
  BY <1>1 DEF StoreInv, HisPages
<1>7. Backed'
  <2>1. ASSUME NEW g \in Frame, \A u \in Thread : pc'[u] \in Evicting => loc[u].frame # g,
               NEW b \in Asid, StillRuns(b)', swap_pool_table'[g].asid = b
        PROVE  /\ Valid(pgTbl[b][swap_pool_table'[g].pte.slot].lo)
               /\ pgTbl[b][swap_pool_table'[g].pte.slot].lo.frame = g
    <3>1. g # f
      BY <1>2, <1>3, <2>1 DEF Evicting
    <3>2. \A u \in Thread : pc[u] \in Evicting => loc[u].frame # g
      BY <1>2, <1>4, <3>1 DEF Evicting, Inside
    <3> QED BY <1>3, <1>5, <2>1, <3>1, <3>2 DEF StoreInv, Backed
  <2> QED BY <1>1, <2>1 DEF Backed, Valid
<1>8. InFrame'
  BY <1>1, <1>5 DEF StoreInv, InFrame, Valid, find_page_by_entryhi
<1>9. InFlash'
  <2>1. \A u \in Thread : \A b, q : ~ Leaves(u, b, q)
    BY <1>1, <1>4 DEF Leaves, Leaving
  <2> QED BY <1>1, <1>5, <2>1 DEF StoreInv, InFlash, Valid, find_page_by_entryhi
<1>10. NotMapped(t)' /\ OnWayOut(t)' /\ Read(t)'
  <2>1. NotMapped(t) /\ Read(t) /\ FaultPage(t)' = FaultPage(t)
    BY <1>1 DEF StoreInv, Pagers, FaultPage
  <2>2. find_page_by_entryhi(FaultPage(t))' = find_page_by_entryhi(FaultPage(t))
    BY <2>1 DEF find_page_by_entryhi
  <2> QED BY <1>1, <1>3, <2>1, <2>2 DEF NotMapped, OnWayOut, Read, Seeking, Evicting, Leaving
<1> QED BY <1>1, <1>4, <1>6, <1>7, <1>8, <1>9, <1>10 DEF Pagers, StoreGoal

(* The page is in its frame, and the entry was not in use.                 *)
LEMMA StoreMaps ==
    ASSUME InTurn', StoreInv, [Next]_vars, NEW t \in Thread, Maps(t)
    PROVE  StoreGoal
<1>1. /\ InsideStep(t) /\ pc[t] = "map" /\ pc'[t] = "release"
      /\ UNCHANGED <<loc, exceptState, swap_pool_table, ram, flash, mem>>
  BY StoreTypes DEF InsideStep, Maps, At, Goes, swapVars, storeVars
<1>2. PICK a, p, f, s, e :
         /\ a \in Asid /\ p \in Pages[AsidOf(t)] /\ f \in Frame /\ s \in Slot
         /\ a = AsidOf(t) /\ p = FaultPage(t) /\ f = loc[t].frame
         /\ swap_pool_table[f].pte = [asid |-> a, slot |-> s]
         /\ e = [hi |-> p, lo |-> [frame |-> f, dirty |-> need_dirty(a, loc[t].page)]]
         /\ pgTbl' = [pgTbl EXCEPT ![a][s] = e]
         /\ pgTbl[a][s].hi \in {NOPAGE, p}
  <2>1. AsidOf(t) \in Asid /\ FaultPage(t) \in Pages[AsidOf(t)] /\ loc[t].frame \in Frame
    BY <1>1, StoreTypes, ThreadFacts DEF InPager, Inside
  <2>2. /\ Usable(AsidOf(t), FaultPage(t)) # {}
        /\ Victim(t).pte = [asid |-> AsidOf(t), slot |-> SlotFor(AsidOf(t), FaultPage(t))]
    BY <1>1 DEF StoreInv, SwapInv, TlbInv, Settled
  <2>3. /\ SlotFor(AsidOf(t), FaultPage(t)) \in Slot
        /\ pgTbl[AsidOf(t)][SlotFor(AsidOf(t), FaultPage(t))].hi \in {NOPAGE, FaultPage(t)}
    BY <2>1, <2>2, SlotForFacts
  <2>4. Victim(t).pte.slot = SlotFor(AsidOf(t), FaultPage(t)) /\ Victim(t) = swap_pool_table[loc[t].frame]
    BY <2>2 DEF Victim
  <2>5. pgTbl' = [pgTbl EXCEPT ![AsidOf(t)][SlotFor(AsidOf(t), FaultPage(t))] =
                     [hi |-> FaultPage(t),
                      lo |-> [frame |-> loc[t].frame,
                              dirty |-> need_dirty(AsidOf(t), loc[t].page)]]]
    BY <2>4 DEF Maps
  <2> QED BY <2>1, <2>2, <2>3, <2>4, <2>5
<1>3. /\ pgTbl'[a][s] = e /\ e.hi = p /\ e.lo.frame = f /\ Valid(e.lo)
      /\ \A b \in Asid, i \in Slot : ~ (b = a /\ i = s) => pgTbl'[b][i] = pgTbl[b][i]
  <2>1. pgTbl'[a][s] = e
    BY <1>2, StoreTypes
  <2>2. \A b \in Asid, i \in Slot : ~ (b = a /\ i = s) => pgTbl'[b][i] = pgTbl[b][i]
    BY <1>2, StoreTypes
  <2>3. e.hi = p /\ e.lo.frame = f /\ Valid(e.lo)
    BY <1>2, FrameFacts DEF Valid
  <2> QED BY <2>1, <2>2, <2>3
<1>4. pgTbl[a][s].lo = Invalid /\ ~ Valid(pgTbl[a][s].lo)
  <2>1. p \in Nat /\ NOPAGE \notin Pages[a]
    BY <1>2, PagerAssumption DEF NOPAGE
  <2>2. NotMapped(t) /\ HisPages
    BY DEF StoreInv, Pagers
  <2>3. pgTbl[a][s].lo = Invalid
    BY <1>1, <1>2, <2>1, <2>2 DEF NotMapped, HisPages, Seeking, Evicting
  <2> QED BY <2>3 DEF Valid, Invalid
<1>5. \A u \in Thread : u # t =>
         /\ NotMapped(u)' /\ OnWayOut(u)' /\ Read(u)' /\ pc[u] \notin Inside /\ pc'[u] \notin Inside
         /\ \A b, q : ~ Leaves(u, b, q) /\ ~ Leaves(u, b, q)'
  <2>1. \A u \in Thread : \A i \in Slot :
           AsidOf(u) # AsidOf(t) => pgTbl'[AsidOf(u)][i] = pgTbl[AsidOf(u)][i]
    BY <1>2, <1>3, ThreadFacts
  <2> QED BY <1>1, <2>1, OthersWait
<1>6. \A b \in Asid : StillRuns(b)' => StillRuns(b)
  BY StoreTypes, RanBefore
<1>7. HisPages'
  BY <1>2, <1>3 DEF StoreInv, HisPages
<1>8. Backed'
  <2>1. ASSUME NEW g \in Frame, NEW b \in Asid, StillRuns(b)', swap_pool_table[g].asid = b
        PROVE  /\ Valid(pgTbl'[b][swap_pool_table[g].pte.slot].lo)
               /\ pgTbl'[b][swap_pool_table[g].pte.slot].lo.frame = g
    <3>1. CASE g = f
      <4>1. swap_pool_table[f].asid = a
        BY <1>1, <1>2 DEF StoreInv, SwapInv, Owned, Victim
      <4>2. swap_pool_table[f].pte.slot = s
        BY <1>2
      <4> QED BY <1>3, <2>1, <3>1, <4>1, <4>2
    <3>2. CASE g # f
      <4>1. \A u \in Thread : pc[u] \in Evicting => loc[u].frame # g
        BY <1>2, <1>5, <3>2 DEF Evicting, Inside
      <4>2. /\ Valid(pgTbl[b][swap_pool_table[g].pte.slot].lo)
            /\ pgTbl[b][swap_pool_table[g].pte.slot].lo.frame = g
            /\ swap_pool_table[g].pte.slot \in Slot
        BY <1>6, <2>1, <4>1, StoreTypes DEF StoreInv, Backed
      <4>3. ~ (b = a /\ swap_pool_table[g].pte.slot = s)
        BY <1>4, <4>2
      <4> QED BY <1>3, <4>2, <4>3
    <3> QED BY <3>1, <3>2
  <2> QED BY <1>1, <2>1 DEF Backed, Valid
<1>9. Read(t)
  BY DEF StoreInv, Pagers
<1>10. InFrame'
  <2>1. ASSUME NEW b \in Asid, NEW i \in Slot, StillRuns(b)', Valid(pgTbl'[b][i].lo)
        PROVE  /\ ram[pgTbl'[b][i].lo.frame] = mem[b][pgTbl'[b][i].hi]
               /\ ~ pgTbl'[b][i].lo.dirty =>
                     flash[b][find_page_by_entryhi(pgTbl'[b][i].hi)] = mem[b][pgTbl'[b][i].hi]
    <3>1. CASE b = a /\ i = s
      BY <1>1, <1>2, <1>3, <1>9, <3>1 DEF Read
    <3>2. CASE ~ (b = a /\ i = s)
      BY <1>3, <1>6, <2>1, <3>2 DEF StoreInv, InFrame
    <3> QED BY <3>1, <3>2
  <2>2. UNCHANGED <<ram, flash, mem>>
    BY <1>1
  <2> QED BY <2>1, <2>2 DEF InFrame, Valid, find_page_by_entryhi
<1>11. InFlash'
  <2>1. ASSUME NEW b \in Asid, NEW q \in Pages[b], StillRuns(b)',
               \A i \in Slot : pgTbl'[b][i].hi = q => ~ Valid(pgTbl'[b][i].lo)
        PROVE  flash[b][find_page_by_entryhi(q)] = mem[b][q]
    <3>1. \A i \in Slot : pgTbl[b][i].hi = q => ~ Valid(pgTbl[b][i].lo)
      BY <1>3, <1>4, <2>1
    <3>2. \A u \in Thread : ~ Leaves(u, b, q)
      BY <1>1, <1>5 DEF Leaves, Leaving
    <3> QED BY <1>6, <2>1, <3>1, <3>2 DEF StoreInv, InFlash
  <2> QED BY <1>1, <2>1 DEF InFlash, Valid, find_page_by_entryhi
<1>12. NotMapped(t)' /\ OnWayOut(t)' /\ Read(t)'
  BY <1>1 DEF NotMapped, OnWayOut, Read, Seeking, Evicting, Leaving
<1> QED BY <1>1, <1>5, <1>7, <1>8, <1>10, <1>11, <1>12 DEF Pagers, StoreGoal

LEMMA StoreStep ==
    ASSUME "flash" \notin Liberty, Room, OwnBlocks, StoreInv, InTurn', [Next]_vars
    PROVE  StoreInv'
<1>1. SwapInv' /\ TargetInv'
  BY SwapStep, TargetStep DEF StoreInv
<1>2. ASSUME StoreGoal  PROVE StoreInv'
  <2>1. MemType'
    BY <1>2 DEF StoreGoal, StoreInv, MemType
  <2> QED BY <1>1, <1>2, <2>1 DEF StoreGoal, StoreInv
<1>3. CASE \E t \in Thread, p \in Page, v \in Val : Store(t, p, v)
  BY <1>1, <1>3, StoreStores DEF StoreInv
<1>4. CASE Aside /\ ~ \E t \in Thread, p \in Page, v \in Val : Store(t, p, v)
  <2>1. UNCHANGED <<ram, mem>>
    <3>1. CASE UNCHANGED vars \/ MutexTakes \/ MutexReleases \/ \E a \in Asid : Serving(a)
      BY <3>1 DEF vars, storeVars, MutexTakes, MutexReleases, Serving, UprocAsks, UprocReceives,
                  SstAnswers, SstTerminates
    <3>2. CASE \E t \in Thread : Program(t) \/ Ending(t)
      BY <1>4, <3>2 DEF storeVars, Program, uTLB_RefillHandler, PageFault, StoreToText, OtherTrap,
                        PassUp, Ending, TrapSendsV, TellsParent, Dies
    <3>3. CASE \E t \in Thread : AsksMutex(t) \/ Enters(t) \/ Releases(t) \/ Resumes(t)
      BY <3>3 DEF storeVars, AsksMutex, Enters, Releases, Resumes
    <3> QED BY <1>4, <3>1, <3>2, <3>3 DEF Aside
  <2>2. StoreGoal
    BY <1>4, <2>1, StoreAside DEF StoreGoal
  <2> QED BY <1>2, <2>2
<1>5. CASE \E a \in Asid : mark_free_pages(a)
  <2>1. StoreGoal
    BY <1>5, StoreFrees DEF StoreGoal
  <2> QED BY <1>2, <2>1
<1>6. CASE \E t \in Thread : InsideStep(t)
  <2>1. PICK t \in Thread : InsideStep(t)
    BY <1>6
  <2>2. ~ FlashFails(t)
    BY DEF FlashFails
  <2>3. StoreGoal
    BY <2>1, <2>2, StoreChooses, StoreInvalidates, StoreWrites, StoreReads, StoreSettles, StoreMaps
       DEF InsideStep
  <2> QED BY <1>2, <2>3
<1> QED BY <1>3, <1>4, <1>5, <1>6, StepKinds

(* Paging is invisible: as long as a process runs, each of its pages, in a *)
(* frame, on its way out or in the flash, holds what its programs stored   *)
(* last, whatever the pagers of the others do.  This needs a U-proc and an *)
(* SST that take turns, a flash that does not fail, a page table with an   *)
(* entry for every page, and pages that do not share a block of the flash. *)
(* mark_free_pages may come at any time, up to the write it sends astray.  *)
THEOREM PagingInvisible ==
    ASSUME "flash" \notin Liberty, Room, OwnBlocks
    PROVE  Spec /\ []InTurn => []SeesLastStore
<1>1. StoreInv /\ InTurn' /\ [Next]_vars => StoreInv'
  BY StoreStep
<1> QED BY <1>1, StoreInit, StoreSees, PTL DEF Spec

(* The behaviours of TurnSpec are those of Spec in which the threads take  *)
(* turns.                                                                  *)
LEMMA TurnsAreTaken == TurnSpec => Spec /\ []InTurn
<1>1. Init => InTurn
  BY OneInit DEF OneInv
<1>2. InTurn /\ [Next /\ InTurn']_vars => InTurn'
  BY DEF InTurn, Handling, vars
<1>3. [Next /\ InTurn']_vars => [Next]_vars
  OBVIOUS
<1> QED BY <1>1, <1>2, <1>3, PTL DEF TurnSpec, Spec
=============================================================================
