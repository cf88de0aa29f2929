# KebabOS: a TLA+ verification project

KebabOS is a small microkernel-style operating system for the µRISC-V
emulator. This directory holds TLA+ modules of its kernel, the TLC
configurations that check them on small instances, and proofs checked by TLAPS.

Run a configuration with `tlc -config X.cfg M`, and the proofs with `tlapm M.tla` for M
= `DataLemmas`, `IpcProofs`, `InterruptsProofs`, `PagerProofs`,
`SupportProofs`, `NucleusProofs`, `ServicesProofs`, `QueuesProofs`.

## 1. Inventory of the system

| part | code | state | operations |
|---|---|---|---|
| list primitives | `headers/listx.h` | intrusive circular lists | add, del, empty, next |
| PCB pool, queues, tree | `phase1/pcb.c` | `pcbFree_h`, the queues linked by `p_list` and by `p_io`, `p_child`/`p_sib`/`p_parent` | `allocPcb`, `freePcb`, `isPcbValid`, insert/remove/search of a queue, `insertChild`, `outChild` |
| message pool and inboxes | `phase1/msg.c` | `msgFree_h`, one inbox per PCB | `allocMsg`, `freeMsg`, `insertMessage`, `popMessage` |
| IPC | `phase2/exceptions.c` | the saved registers in `p_s`, `do_io`, `softblock_count` | SYS1 (`send_message`, `deliver_message`), SYS2 (`blockSys`) |
| traps | `phase2/exceptions.c` | — | `pass_up_or_die`, `uTLB_RefillHandler` |
| scheduler | `phase2/scheduler.c` | `current_process`, `ready_queue`, `process_count`, `softblock_count` | dispatch, WAIT, HALT, PANIC |
| interrupts | `phase2/interrupts.c` | device registers, timers | PLT, interval timer, devices; the last two become messages to the SSI |
| SSI | `phase2/ssi.c` | `pcb_blocked_on_device[]`, `pcb_blocked_on_clock` | CREATEPROCESS, TERMPROCESS, DOIO, CLOCKWAIT, GETTIME, GETSUPPORTPTR, GETPROCESSID; answers to interrupts |
| termination | `phase2/utils.c` | — | `terminate_process`, recursive, called by the SSI and by the nucleus |
| test process, SSTs | `phase3/initProc.c`, `phase3/sst.c` | number of U-procs | creation of the mutex process and the SSTs, service loop |
| pager | `phase3/vmSupport.c` | swap pool table, page tables, TLB, mutex | `TLB_ExceptionHandler`, `mark_free_pages`, `mutex_proc` |
| support level | `phase3/sysSupport.c`, `phase3/support.c`, `phase3/utils3.c` | support structures and their pool | SYS1/SYS2 of U-procs, program traps, `p_create`, `p_term` |

How they interact. A process enters the nucleus by SYS1 and SYS2 only; every
other service is a request sent by SYS1 to the SSI (address 2,
`SSI_FAKE_ADDR`) and an answer awaited with SYS2. The SSI is itself a process:
it receives requests, works on the lists and counters the nucleus works on,
and answers with SYS1. Device and interval timer interrupts become messages to
the SSI with sender 1. Nucleus code runs with interrupts disabled. The SSI
runs with interrupts enabled; only the functions of `phase1` disable them for
their own duration.

What is hard.

* **Blocked is inferred.** The code keeps no "blocked" state: `send_message`
  takes a process that is not current and not ready for one that waits in
  SYS2, and reads from its saved register `a1` whom it waits for.
* **The SSI can be preempted anywhere** between two list operations, inside
  `process_count++`, inside `terminate_process`; other processes and the
  nucleus read and change the same state meanwhile.
* **Requests travel.** A request is in the SSI's inbox, then in a queue, then
  in an interrupt, then in an answer. Its sender may die at each stage, and
  its PCB may be reused.
* **Two counters decide the machine's fate.** HALT, WAIT and PANIC follow from
  `process_count` and `softblock_count`, kept by increments at several places.
* **Shared structures of phase 3.** All pagers share the swap pool; an SST and its
  U-proc share one support structure: page table, saved states, and the
  element of the free list it becomes.
* **Devices do not wait.** The interrupt handler reads MIP, then a bitmap, then a
  status; devices end their commands in between. A terminal is two devices with one
  interrupt.
* **Pools.** PCBs and messages are finite; `MSGNOGOOD` and `NOPROC` must leave
  the state alone.

What makes each part correct.

* IPC: per-sender FIFO, no loss, no duplicate, selective receive, no lost
  wakeup; messages are free or in an inbox.
* Scheduler: every process is in exactly one place; PANIC only in a deadlock,
  WAIT only if something will end it, HALT only when the SSI alone is left.
* SSI: each request is served once and its own answer comes back, even with
  preemption at every step; each request is eventually answered.
* Creation and termination: family links agree, counters are exact when
  nothing is under way, a dead process leaves nothing in any queue.
* Lists: every walk comes back to its head; a PCB is in one list per link field;
  a free PCB is in no other list.
* Interrupts: the numberings of a device agree; the handler finds something to
  serve; everybody gets the status of the command he gave.
* Pager: mutual exclusion on the swap pool; page table, swap table and TLB
  agree; a process reads from each page what it stored there last, wherever
  the page has been meanwhile; a thread resumes its own state.
* Support: what a U-proc asks to print is printed once and in order; test ends
  the system only when all SSTs have ended, and does end it.

## 2. Modules

| module | what it is | proved about |
|---|---|---|
| `Ipc` | SYS1, SYS2, scheduler, PLT and device interrupts, pools | yes |
| `Channels` | abstract specification: FIFO channels with selective receive | refined by `Ipc` (TLC and proof) |
| `DataLemmas` | lemmas on appending to, and removing from, sequences; the least element of a set of numbers; what loops over numbers compute | proofs |
| `IpcProofs` | inductive invariant of `IpcSpec` and what follows | proofs |
| `Nucleus` | extends `Ipc` with the SSI, creation, termination, devices, the clock and client programs | yes |
| `MixedCalls` | extends `Nucleus` with programs that take other messages while they wait for a device or the clock | no |
| `NucleusProofs` | types; places, families and answers of programs that keep the discipline | proofs |
| `ServicesProofs` | what becomes of requests, and what the counters say | proofs |
| `Lists` | `listx.h`: nodes, links, insertion, removal, walks | yes |
| `Queues` | extends `Lists` with `pcb.c` and `msg.c` on that memory, called in the order of phase 2 | yes |
| `QueueSpec` | abstract specification: every list is a sequence, and a step changes one or two of them at their ends | refined by `Queues` (TLC and proof) |
| `QueuesProofs` | rings and walks; what each call of `phase1` does to them; inductive invariant of `Queues` and what follows | proofs |
| `Interrupts` | command registers, status, MIP, bitmaps, payloads, device queues and their numbering | yes |
| `InterruptsProofs` | the numberings agree; the stages of a command | proofs |
| `Pager` | TLB refill, `tlb_handler`, swap pool, mutex process, `mark_free_pages` | yes |
| `PagerProofs` | types, mutual exclusion; flash, TLB, swap pool and contents of pages | proofs |
| `Support` | test, SSTs, U-procs, support-level exceptions, support pool | yes |
| `SupportProofs` | when test ends; what devices print; types | proofs |
| `MCIpc`, `MCNucleus`, `MCInterrupts`, `MCPager`, `MCSupport` | values of constants for TLC, and two initial families for `Nucleus` | |

How they compose. `Nucleus` is `Ipc` with the SSI's state added: SYS1, SYS2 and
the scheduler are the operators of `Ipc`. `Queues` is the level below both: what
is a sequence there is a ring of pointers here, and `QueueSpec` is the statement
of what `Ipc` and `Nucleus` take for granted of `phase1`. `Interrupts` details the
one action `DeviceInterrupt` of `Nucleus`. `Pager` and `Support` stand on the
nucleus: they take it that a message arrives once and in order, which is what `Ipc`
and `Channels` show, and split phase 3 in two, memory and messages.

Operators named after a fault (`SendQueuesUnchecked`, `TermKeepsReady`, ...)
and commented "Faulty variant" are used by no specification. Each is a bug one
could make in the definition that follows it; a property of the runs was found
violated with it in place.

### How the models correspond to the code

**Atomicity.** A handler of the nucleus, from the trap to the `LDST` of the
scheduler, is one action (interrupts are off). It includes the call of
`scheduler()` at its end, which is the operator `Scheduler`. A step of the SSI
is one call of a `phase1` function, one system call, or one *half* of an
increment or decrement of a global counter: a load and a store are two steps,
and an interrupt may come between them. `terminate_process` run by the nucleus
(on a trap) goes through the same steps as when run by the SSI, with `cpu =
"kernel"`, so nothing else moves.

**State.** `pcbFree`, `ready_queue`, `msg_inbox`, `p_child`, the device queues
and the clock queue are sequences; the message pool is the number of free
messages. `blocked` holds the PCBs whose saved state lies inside SYS2, a fact
about `p_s` the code never stores in one field; `Wakes`, the guard of
`send_message`, does not read it. `reg_a1[p]` is the saved register that
`send_message` reads; a preempted process has arbitrary data there, which is no
sender's name (`SCRATCH`). `frame` is the C stack of `terminate_process`:
the arguments of the active calls, innermost first.

**Addresses.** PCBs are integers above the special values of the code
(`ANYMESSAGE`, `PARENT` = 0, `INTERRUPT_HANDLER_MSG` = 1, `SSI_FAKE_ADDR` = 2).
`ssi_pcb_real` and `test_pcb` are the PCBs `main()` gets from the pool.

**Counters** are unsigned and wrap at `CountMod`.

**Data.** A payload is a record with a field `op`; a request also names a
device or a process. GETTIME stands for the three services that return a
field of the asker; `BAD` for an unknown service code, on which the SSI
terminates the sender.

**Lists.** In `Lists` a node is the address of a `list_head`: structure times
stride plus the offset of the field, so that `container_of` is a division, as in the
code. `links` is the memory of all nodes. `insert` and `list_del` assign in the
code's order; `list_del` leaves the entry's own pointers alone, `INIT_LIST_HEAD`
does not. In `Queues` a function of `phase1` is an operator from memory to memory
(it runs with interrupts off). Payloads and requests are left open: any process
may be the object of any call, so `Queues` allows more orders than `Nucleus`.

**Interrupts.** Lines, device numbers, register addresses and the shifts of the
payload have their real values; the status is cut to the char the payload has
room for. An entry of the handler is three kinds of steps: reading MIP,
serving the timer, serving one line; devices complete commands between them.

**Pager.** A step of `tlb_handler` is what it does between two accesses to shared
state, or with interrupts off. `loc[t]` holds its locals. A page is its number;
`find_page_by_entryhi` gives its block. The two DOIOs of a flash command and the
wait for it are one step (`FlashReads`, `FlashWrites`), for nobody else uses that
process's flash between them as long as SST and U-proc take turns. A write for an owner that is
`NOPROC` is for a device the machine does not have, and never ends (`Astray`). The TLB may
lose any entry whenever one is written. `mem` records what was stored last and
is read by properties only.

**Support.** A step of a process ends with a system call. The SSI serves a
request in one step. A character is its position in the sequence of
all the U-proc asks to print on the device, so that a repeated, lost or
overtaken one shows in `printed`.

### The client programs of `Nucleus`

A client sends one request and receives one answer, as `p_create` and `p_term`
(`utils3.c`) do and as the test processes of `p2test.c` do. Not covered: the
printer loop of `sst.c`, which sends two DOIO requests and receives once.

The kernel does not survive every program, and the passing runs state under
which *discipline* it is correct. It is the one the programs in phase 3 keep
on purpose or by how they are built:

* a process that asks for its own termination has an empty inbox, and its
  descendants are blocked in a plain receive (`MayDie`, `AtRest`);
* a process terminates a child only when that child's whole family is so
  blocked (`MayTerminate`); TERMPROCESS of an address that is no PCB's is
  always allowed;
* a trap kills a process whose inbox is empty and whose descendants are at
  rest or wait in a device queue (`MayTrap`);
* plain messages go to a live parent or child that is not ending (`MaySend`);
* a device has one user at a time.

`Liberty` lifts two of these rules. With "kill" a process terminates a child at
any time, with "send" it sends to any process that is not half built. Section 5
tells what then goes wrong. What remains excluded even then, and is listed as a
hazard, is a send to a PCB between `allocPcb` and `insertProcQ`, by a process that
still knows the address of the PCB's former owner.

### What the other modules assume

Each of them has a `Liberty` of its own. The passing runs leave out the elements
below unless the tables of section 3 name them.

| module | element | what it lets happen |
|---|---|---|
| `Queues` | "die" | a process dies that the SSI, or another `terminate_process`, has in hand |
| | "clock" | a process dies while it waits for the clock |
| `Pager` | "flash" | a flash command fails |
| `Support` | "early" | a U-proc runs before test has stored its SST in `sst_pcbs` |
| | "trap" | a program traps |

Nothing in the code excludes "early": it is a matter of timing.

**SST and U-proc in turn.** A request of a U-proc is a SEND and a RECEIVE, two system calls,
and nothing keeps its SST from running between them. `Pager` has it so: `UprocAsks` and
`UprocReceives` are two actions, and after the first both threads run, may page, trap and die in any
order, on one saved state and one page table. The authors met this (the comment in
`sst.c:132-207` tells of weeks spent on it), and the delay they put against it is commented
out (`sst.c:209-210`). `Spec` contains these behaviours, and `PagerTypeOK` and `MutualExclusion`
are proved of it. What else a pager promises does not survive them; it is stated of
the behaviours in which `InTurn` is always true: while one of the two threads is in the pager or on its way to
its end, the other waits for a message. `TurnSpec` is `Spec` with that restriction
(`TurnsAreTaken`). `InTurn` is an assumption on timing: the programs of the repository usually
keep it, the code does not enforce it, and run `finds_state_overwritten` shows it broken.
`mark_free_pages` may run at any time in either specification.

## 3. Runs, bounds and what they show

| run | instance | states |
|---|---|---|
| `ipc` | SSI, test, one free PCB; pool of 3 messages | 71 k |
| `nucleus_tree` | 3 PCBs, no device; CREATE, TERM, BAD, GETTIME, plain messages | 0.4 M |
| `nucleus_family` | 4 PCBs, a chain of three generations or two siblings; 2 devices; DOIO, traps, receives | 2.5 M |
| `nucleus_live` | 3 PCBs, 1 device, clock; fairness | 0.2 M |
| `queues` | 3 PCBs, 2 messages, 1 device queue, the clock | 0.6 M |
| `interrupts` | printers 0 and 7, terminal 7 (4 units); 3 processes; timer; fairness | 68 k |
| `pager` | 2 ASIDs, 2 frames, 3 pages, page tables of 2, contents 0 and 1; in turn | 2.1 M |
| `pager_live` | 2 ASIDs, 1 frame, 3 pages, page tables of 1; "flash"; in turn; fairness | 0.1 M |
| `support` | 2 ASIDs, one request and TERMINATE each; strings of 0, 1, 2 characters; "trap"; fairness | 0.5 M |

* **ipc.** Two processes call SYS1 and SYS2 with any legal arguments, in any
  order. One free PCB gives the destination that does not exist. Three
  messages are the fewest with which a selective receive can pass over one
  message and still find two of the wanted sender, and few enough that the
  pool is exhausted in many states. Checked: every live process is in exactly one place
  (`Placement`); a process is never blocked while a message it accepts is in
  its inbox (`NoLostWakeup`); `softblock_count` is the number of blocked
  processes whose `do_io` is set, in every state (`SoftblockExact`: here any message clears
  `do_io`, the awaited answer or another, so this says that flag and counter
  agree, not that a request is outstanding; that is `SoftblockCount` of `Nucleus`); no message leaks
  from the pool to a population that does not change (`MsgPoolExact`); and the whole
  implements `Channels` (`ImplementsChannels`).
* **nucleus_tree.** Reuse of the one spare PCB after every kind of
  termination. `EveryPcbPlaced`, `ProcessCount`, `HaltAtTheEnd`. A second
  child finds the pool empty and CREATEPROCESS answers `NOPROC`.
* **nucleus_family.** A trap kills a process whose descendants wait for a
  device, and somebody is left for what remains of their requests to harm: that
  takes three generations; siblings make `terminate_process` loop as well as
  recurse. `FamilyTree` at every step of it; `DeviceQueuesLive`: no device
  queue keeps a dead process; `SoftblockCount`: the counter is the
  number of processes blocked on I/O or clock requests. `RequestAtOneStage`: a request outstanding is at
  exactly one of its six stages and nothing of an old one is left.
  `AnswersMatch`: what a process receives from the SSI answers what it asked.
  `WaitEnds`: WAIT is entered only if a pending command or the clock will wake
  somebody. `PanicIsDeadlock`: PANIC only if every live process is blocked and each but the
  SSI waits for a message of another process, with no request outstanding; it is stated by the
  calls of the programs, not by the flag that the counter follows. Two devices are enough for an
  answer to go to the wrong queue. The run starts where
  the family has just been created (`FamilyInit` of `MCNucleus`, states that
  `Spec` with four PCBs reaches).
* **nucleus_live.** `RequestsAnswered`: every request is answered, or the
  machine has halted. `WaitEnds` here is about the clock, and about
  requests made while a process is being created; `RequestAtOneStage` holds
  for the clock by its theorem.
* **queues.** `RingsClose`: every list that somebody may still walk comes back
  to its head in both directions and holds only its own kind of entries; so no
  entry is in two of them. `FreeIsNowhereElse`: a free PCB is in no list but
  the free list. `ImplementsQueues`: read from their heads, the lists are the
  sequences of `QueueSpec`, and each step is one of its steps. Three PCBs give
  a child that dies in every condition and is created again, two messages an
  inbox with a middle; both pools run empty.
* **interrupts.** Two devices on a line and two lines test both priorities,
  and the terminal both sub-devices; the devices have the first and last
  number. Two of the three processes can have ended commands on one
  line while a third keeps issuing them. `CommandUnderWay`: a command is
  executing, ended or reported, and its process is in the queue in which the
  report will look. `NoPanic`: a line of the copy of MIP has a device to serve.
  `OwnStatus`: a process is answered with the status of its command.
  `IoAnswered`: no unit is starved by those served before it. A unit is
  commanded only when nobody uses it, as in phase 3, where each SST has a
  printer and a terminal of its own.
* **pager.** Two frames for three pages: frames are taken from oneself and
  from the other process. `MutualExclusion` in spite of the V's that traps
  send; `SwapExact`, `TlbCoherent`: swap pool, page table and TLB agree between any two
  steps; `WrittenToOwner`: what a running process owns is written back to its own flash, and nothing to that of a
  third, although test frees frames in the middle; `SeesLastStore`: paging is invisible to the programs.
  Page tables are large enough (`MaxPages` 2).
* **pager_live.** Everything too small: one frame, so every fault evicts; page
  tables of one entry, so an ASID with two pages ends by the trap inside the
  pager; flash commands that fail. `FaultServed`: whoever asks for the mutex goes on or dies, unless the holder's
  write has gone astray. `FramesReturned`: from some time on no frame belongs to a process that has told test
  of its end.
* **support.** `OutputAsAsked` with strings that are empty and strings longer
  than one; `NobodyCutOff`; `MachineHalts`, unless a U-proc has trapped: its SST
  then may wait for it for ever (`Stranded`). That is how the code behaves; the property says that
  nothing else keeps the machine from halting.

Bounds. `MaxMsg` in `Nucleus` exceeds the number of messages that can be in
transit (one request or answer per process, one completion per device, `MaxTicks`
clock ticks, `MaxData` plain messages per inbox), so that an exhausted pool is
the business of runs `ipc` and `queues`. `MaxTicks = 1` lets a tick
arrive at any moment, but not two before the SSI takes up the first; the second
would only repeat an already emptied queue. `MaxData = 1` is one plain message
waiting in each inbox. `CountMod` is one more than the number of PCBs, so that a
counter decremented below zero is seen. `MaxRequests = 1` in `Support` is one
write or GET_TOD before TERMINATE; a second request finds the SST in the state the
first one found it in. `ProgramLimit`, `StackTop` and `FirstStackBlock` of
`MCPager` are small numbers in the order of the code's.

Deadlock is checked in every run that is to pass. A stopped machine (HALT, PANIC, all
programs ended) takes a step that changes nothing for ever.

### Fairness

`FairSpec` assumes:

* strong fairness of the SSI's steps and of each client's receive of an
  answer. The timer is loaded anew at each dispatch (`scheduler.c:55`) with
  5 ms, and the ready queue is round robin: a process that is made ready is
  dispatched again and again, and each time gets at least one call done.
  Weak fairness would not do, because a PLT disables these steps between
  dispatches;
* weak fairness of the end of a time slice. The timer is reloaded on every
  return from the nucleus, so a process that calls it more often than every
  5 ms never loses the CPU. In the run for liveness, clients make at most two
  calls before they block, so slices do end;
* weak fairness of a termination by the nucleus: it runs without
  interrupts;
* weak fairness of every device that executes a command, and of the interval
  timer.

No fairness is assumed of a client's wish to make a request.

`Interrupts`: weak fairness of each device that executes a command and of the
handler, which runs without interrupts; strong fairness of the SSI taking up its
inbox, for a pending interrupt disables that again and again. None of new
commands or of the timer.

`Pager`: weak fairness of each pager and of a thread that is ending, of the mutex
process and of test. They are ready processes in a round robin, and a step is
shorter than a time slice; a flash command ends, well or not, unless it is for no flash. None of
what programs do. The fairness is that of `FairTurnSpec`, of behaviours in turn; in them a thread that
is in the pager or ending is never kept from its next step by the restriction, for its companion waits.

`Support`: weak fairness of each process and device. The choice between requests is
the U-proc's, but the bound on requests makes it ask for TERMINATE at last; the run
says nothing of programs that never do.

## 4. Proofs

A theorem is proved for every value of the constants that satisfies the `ASSUME` of its
module: `IpcAssumption` (at least two PCBs, a pool of any size, a counter that does not
wrap below the number of PCBs, a population between two and the number of PCBs),
`InterruptsAssumption` (attached units among the lines 17 to 21 and the devices 0 to 7;
any processes), `ListsAssumption` (at least two PCBs, any number of messages and devices)
and `QueuesAssumption`, `NucleusAssumption` (any devices, services and bounds; payloads are those of
the services), `PagerAssumption` (at least one frame and one page table entry; pages
are numbers) and `SupportAssumption` (at least one U-proc; strings of any length). What else a theorem needs of
the constants is in its statement.

| theorem | says | needs besides |
|---|---|---|
| `IpcProofs`: `TypeCorrect` | `[]TypeOK` | |
| `EveryProcessPlaced` | `[]Placement` | |
| `WakeupNeverLost` | `[]NoLostWakeup` | |
| `CountsSoftBlocked` | `[]SoftblockExact` | |
| `ChannelsImplemented` | `ImplementsChannels`: refines `Channels` | |
| `NoMessageLeaks` | `[]MsgPoolExact` | |
| `NucleusProofs`: `NucleusTypeInvariance` | `[]NucleusTypeOK` | |
| `OrderlyInvariance` | `[]Orderly` | discipline |
| `EveryPcbPlacedInvariance` | `[]EveryPcbPlaced` | discipline |
| `FamilyTreeInvariance` | `[]FamilyTree` | discipline |
| `DeviceQueuesLiveInvariance` | `[]DeviceQueuesLive` | discipline |
| `AnswersMatchInvariance` | `AnswersMatch` (of steps) | discipline |
| `ServicesProofs`: `RequestAtOneStageInvariance` | `[]RequestAtOneStage` | discipline, `[](msgFree > 0)` |
| `ProcessCountInvariance` | `[]ProcessCount` | discipline, no "TRAP" in `Services` |
| `HaltAtTheEndInvariance` | `[]HaltAtTheEnd` | discipline, no "TRAP" in `Services` |
| `SoftblockCountInvariance` | `[]SoftblockCount` | discipline, `[](msgFree > 0)` |
| `WaitEndsInvariance` | `[]WaitEnds` | discipline, `[](msgFree > 0)` |
| `PanicIsDeadlockInvariance` | `[]PanicIsDeadlock` | discipline, `[](msgFree > 0)` |
| `QueuesProofs`: `QueuesTypes` | `[]QueuesTypeOK` | discipline |
| `RingsInvariance` | `[]RingsClose` | discipline |
| `FreeInvariance` | `[]FreeIsNowhereElse` | discipline |
| `QueuesRefine` | `ImplementsQueues`: refines `QueueSpec` | discipline |
| `InterruptsProofs`: `NumbersDistinct` | two units, two device queues | |
| `InterruptsTypeInvariance` | `[]InterruptsTypeOK` | |
| `HandlerNeverPanics` | `[]NoPanic` | |
| `CommandsUnderWay` | `[]CommandUnderWay` | |
| `AnswersOwnStatus` | `OwnStatus` (of steps) | |
| `PagerProofs`: `PagerTypeInvariance` | `[]PagerTypeOK` | |
| `SwapPoolExclusive` | `[]MutualExclusion` | |
| `WritesToOwner` | `[]WrittenToOwner` | `[]InTurn` |
| `TranslationsRevoked` | `[]TlbCoherent` | `[]InTurn` |
| `FramesNotShared` | `[]SwapExact` | `[]InTurn` |
| `PagingInvisible` | `[]SeesLastStore` | `[]InTurn`, no "flash", `Room`, `OwnBlocks` |
| `SupportProofs`: `EndsAfterAll` | `[]NobodyCutOff` | |
| `PrintsAsAsked` | `[]OutputAsAsked` | |
| `SupportTypeInvariance` | `[]SupportTypeOK` | |

The last column is what makes the theorem true, not what makes it easy: section 5 shows
what happens without it, and the proofs tell where each is used. "discipline" is
`Liberty = {}`, the rules of section 2 under which alone these properties hold; for `Queues` they say
that nobody dies whom the SSI or another `terminate_process` has in hand, or who waits for the clock.
For `Nucleus` it includes that a program takes no other message before the answer it waits for.
`[](msgFree > 0)` says that the message pool is never exhausted: the SSI and the programs
ignore `MSGNOGOOD` (`exceptions.c:201`), so that with an empty pool requests and answers do get lost. `[]InTurn` is a
matter of timing that the code does not enforce (section 2), and "flash" is a device that fails.
`Room` (a page table has an entry for each page) and `OwnBlocks` (no two pages of a process
share a block of the flash) hold of a program of at most 31 pages with one page of stack,
the layout for which `MAXPAGES` is 32 and `find_page_by_entryhi` gives the stack block 31. Theorems with nothing in the column hold with every `Liberty`:
mutual exclusion whatever traps and whoever pages when, `PrintsAsAsked` and `EndsAfterAll` even when
programs trap and when a U-proc runs before its SST is known.

### Ipc

`IInv` is `TypeOK /\ Placement /\ CurrentRuns`. `TypeOK` and
`Placement` are not inductive together: a handler is entered with `cpu = "run"`
and one must know that a process is current then, that none is current in WAIT,
and that the SSI stays live, or an interrupt could address a free PCB. That is
`CurrentRuns`. Its preservation has one lemma for the scheduler, whose four
cases all keep the set of placed processes, and one step for each handler.
The point on which it turns is `Wakes`: with `Placement`, a live PCB that
is neither ready nor current is blocked, so the code's test is right.

The other theorems are invariants relative to `IInv`. `NoLostWakeup`: a
message enters an inbox only in `SendQueues`, where `Wakes` is false, and a
process blocks only when nothing matches. `SoftblockExact`: `do_io` of a
blocked process changes only when it is woken, so the counter moves with the
set; `CountMod > MaxProc` rules out the wrap, by the cardinality theorems on
finite sets.

`ImplementsChannels` is a refinement, step by step: a channel is what of an inbox came from one
sender. `SentByAppend`, `SentByRemove` and `SentByNobody` say what `Append`, `RemoveAt` and
an inbox without a match mean for it; the oldest match that `popMessage` takes is the head of its
channel. Each branch of `send_message` is then `Send`, `HandOver` or a stutter, and each of SYS2
`Receive` or `Suspend`. A receiver that `Channels` takes to be waiting for the sender is never
passed over: again `Placement`, through `Wakes`. A PLT interrupt leaves a register without a
sender's name, but only in a process that is not suspended. `MsgPoolExact` compares the sums before
and after by their partial sums (`HeldChange`): they agree up to the PCB whose inbox changes,
and from there on differ by what it changes.

### Nucleus

`Base` holds whatever programs do: types; that the SSI lives, is never blocked
in the middle of a service and has a well-formed request in hand while it serves one; that
a frame of `terminate_process` has the arguments its step needs. It needs to know what may be
in which inbox, for what the SSI does depends on a payload that a program has written.

`Orderly` is what the discipline adds. It was checked with TLC on
the instances of the runs before it was proved. Its parts need each other:

* `Places`: no queue holds a PCB twice, no PCB is in two of free list, ready queue, `blocked` and
  `current_process`; who is neither under construction nor dying is in one of them.
* `Unready`: a process that `terminate_process` has taken out of the ready queue does not come
  back. Only a message could bring it back, hence
* `Waiting`: a blocked process waits for an answer of the SSI, or for anyone's message, and its
  saved `a1` says so; only live processes that are ready to run or wait have calls.
* `Family`: child lists and parent fields agree, at every step of creation and termination.
* `Staged`: the six stages of a request exclude each other, and a process is at a stage only
  for what it has asked. A dead process is at no stage, but for the one of a request that
  terminates its own sender.
* `Stacks`: `terminate_process` is never called for a process it is at work on, and has unlinked
  its argument from the parent and from the device queues before it turns to the children.
* `Doomed`: the point on which all turns. A request to terminate lies in the SSI's inbox, then in
  hand, then is carried out call by call, and processes run all the time: why are the
  victims still there, blocked and with an empty inbox, when their turn comes? There is a function
  `doom` from PCBs to whose request (or trap) will terminate them. It covers the roots of each
  termination under way and all that hangs from them, and no more (it is in every closed set
  that holds the roots), so two terminations never meet; and the doomed are `Meek`: blocked in a
  plain receive, or the one who has asked to be terminated, or on a trap waiting for a device.
  Nobody sends to them, for only parent and children may, the former being
  doomed or waiting for the termination it has asked for.

`EveryPcbPlaced`, `FamilyTree` and `DeviceQueuesLive` follow from one state of it,
`AnswersMatch` from the step in which the answer is handed over or taken from the inbox.
`RequestAtOneStage` says two things: at most one stage is `Staged`; at least one
is `Heeded`, an invariant relative to `Orderly`, in whose proof each place a request
is moved from must be matched by the one it is moved to, and each SYS1 by a free message.

`CountsAgree` says what `process_count` is in the middle of things: the number of live PCBs but the one
under creation, until its increment is stored, and the victims whose decrement is. Between a
load and a store the value loaded must still be the counter, and that is why traps are excluded: one may
terminate processes between the two (the row on `ssi.c:125` in section 5). HALT needs more than the number
1: that the one process is the SSI and nothing is under construction, which follows because a
creation always has a live asker who is counted.

`Softs` does the same for `softblock_count`, which three pieces of code change by three criteria:
SYS2 and a message by the receiver's `do_io`, `terminate_process` by whether it has found its victim in a
device queue. It says that the marks agree with the calls, that the SSI never terminates a marked process
(it asks for no service while it waits for one, and the doomed are `Meek`), and that a
victim of a trap is marked just if `was_blocked` will be set. Here load and store are safe: both
are in one handler run with interrupts disabled.

`Waits` is what `WaitEnds` takes besides `Heeded` and `Softs`. The scheduler waits if `softblock_count`
is positive; by `Softs` some process then is blocked on a device or the clock, and by `Heeded` its request
is at some stage. `Listening` excludes the inboxes: the SSI does not sleep over a message, nor a process
over its answer. What remains is a queue, and `Attendance` says that a device somebody queues for is at
work, or has a report in the SSI's inbox or hand, or is about to get its command. Taking the report ends
that, so nobody may be left in the queue: each device has one user (`OneUser`).

`PanicIsDeadlock` needs besides these that the scheduler panics with an empty ready queue and
`softblock_count` zero (`PanicsIdle`). By `Softs` nobody then waits for a device or the clock. Who waits for
another answer of the SSI has, by `Heeded`, a request at some stage: in the SSI's inbox, or in its hand, and the
SSI would be ready; or in the inbox as an answer, and the process would be ready. So nobody waits for the SSI.

### Queues

These proofs go from single pointers to the refinement, in four layers.

*Rings.* `Holds(l, h, s)` says that the ring of head `h` holds the sequence `s`: each node and
the one behind it point at each other. A walk over such a ring yields `s` (`EntriesAlong`): the
walk is a recursive function over numbers, so that induction reaches it. The model's walk
is cut off at the number of entries there can be; that no sequence without repetitions is longer
is a pigeonhole argument (`NoRoomForMore`).

*Operations.* `Sound(l, H)` says that the lists of all heads in `H` are such rings, with
entries of their kind and none in two of them. `SoundTail`, `SoundFront`, `SoundDelete` and
`ClearedNode` state for any sound memory what `list_add_tail`, `list_add`, `list_del` and
`INIT_LIST_HEAD` do: one sequence changes as one would expect, all others stay. What makes them true
is that an entry is inserted only when it is in no list; that nobody else holds it is what
every caller has to know.

*Invariant.* `QueuesInvariant` is what callers know. `Intact` is `Sound` for the heads of the
kernel and of each PCB in use; the heads inside a free PCB may hold anything, and `allocPcb`
makes them anew. Of the entries outside of lists it says:

* `FreeAlone`: the `p_sib` and `p_io` of a free PCB are in no list;
* `Runs`: the running process is not ready, nor is it free;
* `InService`: the PCB the SSI has in hand between two calls lacks the entry that the
  next call inserts, although processes and handlers have run in between;
* `Dies`: a PCB on the stack of `terminate_process` is out of the lists of all stages passed.
  As for `Nucleus`, what is needed is more than that. The function goes on to children, at a later
  time: `Doomed` says that there is a set that holds the stack, is closed
  under children, has nobody on the clock, and meets neither what the SSI serves nor the stack of the
  other `terminate_process`. The discipline establishes it when the termination starts, for
  there `Family` is computed in rounds, and as many rounds as PCBs reach everybody (`Reached`);
* `AllTied`: a PCB with a parent is in that parent's child list, so that a victim without
  children left is nobody's parent when it is freed.

`RingsClose`, `FreeIsNowhereElse` and `QueuesTypeOK` follow from one state of it.

*Refinement.* `LinesOf` reads the lists of a memory, and each action is shown to make of
them the lines of one step of `QueueSpec`, or the same ones. One thing had to be added:
`Waiting`, that nobody is ready while the scheduler waits. Else an interrupt could post a message
and dispatch somebody in one action, which is two steps of `QueueSpec`.

### Interrupts

A unit is numbered three times: by the address of its command register
(`comm_add_to_number`), by line, number and sub-terminal in the handler, and by the payload
it makes of them (`Index`). `Numbers` and `ReportIndex` show that all are `Number(u)`, and
`NumbersDistinct` that it determines the unit; divisions are removed by giving the
solver quotient and remainder (`Division`).

`InterruptsInv` says of every unit at which `Stage` it is: idle, or commanded by one process
that is alone in the unit's queue, with the command executing, ended or reported. "Reported"
names the one message in the inbox. Each step moves one unit to its next stage; that the
others stay is what `NumbersDistinct` is for, and `RemoveAt` of one report does
not touch another's. `LinesServed` (each line of the handler's copy of MIP has a pending device)
holds because only the handler acknowledges, one line at a time. `NoPanic`
and `CommandUnderWay` follow from it, and `OwnStatus` from the stage "reported" at the step
in which the SSI answers.

### Pager

`TypeInv` adds two things to the types: what a pager is to bring in is a page of its
process (`Faulting`), although its SST may have overwritten the state it is read from, and
what it works on is a frame (`Working`).

`MutexInv`: each thread has at most one message in the mutex process's inbox, and is nowhere,
queued, holding or released according to where it is (`MutexAt`). The V that a trap sends
without holding the mutex is ignored because it is not the holder's.

What follows is of behaviours in turn: each step has `InTurn'` as an assumption. `OneInv`: the saved
state is that of the thread in the pager (`ResumesItself`), the page it works on is the one that
state names (`OwnPage`), and an ASID in test's inbox has no thread that runs (`Told`).

`TargetInv` is about the one writer of the swap pool that does not take the mutex. The owner recorded for a
frame is the owner of its page table entry, or `NOPROC` (`OwnersAgree`); a pager's argument is the
owner, or `NOPROC` if test freed the frame, and test does so only after the owner's SST
has told it of its end. A pager that dies of a failed write leaves the record as it is.

`TlbInv`: page tables are filled from the front and name no page twice, so that the
entry a refill finds is the one the pager writes (`PackedRow`). `SwapInv`: while a frame is being
replaced no running process sees it (`Cleared`), and before it is mapped the swap pool names the new
owner (`Owned`). A process that dies in the middle leaves rows nobody reads: hence the condition
`StillRuns`.

`StoreInv` follows a page through its three places: in a frame (`InFrame`: contents are what was
stored; a clean one is in the flash too), on its way out (`OnWayOut`), in the flash
(`InFlash`), and being read in (`Read`). The faulting page is in none of the frames (`NotMapped`), and a
frame that the swap pool gives to somebody is seen by him (`Backed`), so that no page is
lost between two owners. `Room` is used in one place, the pigeonhole of
`FindsRoom`: the page finds an entry.

### Support

`SupInv` holds the types of what is in each inbox and that whoever runs has a support
structure; the loops over ASIDs of `initSupports` and of `freeSupport` in `FreeAfter` are recursive
functions, whose values are given by `Upwards` and `Repeated` of `DataLemmas`.

`HeardInv`: the messages in test's inbox come from different SSTs, which have all got to
`p_term(SELF)` and are not yet counted; so `heard` is the number of `released`, and when it is `UPROCMAX`
all are.

`OutputInv` says for one ASID, independently of the others, what is under way between U-proc,
SST, SSI and device: at most one request and one answer (`OneEach`); the U-proc waits while
it is served (`OneRequest`); the SST waits for what it has asked of the SSI, but for `data0`
of the printer, which is asked for and not awaited (`OneAnswer`); and how many characters are out
compared with how many were asked for (`Counts`). `Commanded` is the point of the proof: the
printer takes two requests for each character and the first is not answered, yet the SSI
serves an SST's requests in their order (`Before`), so the character latched when
the command starts is the one that comes next.

### Lemmas and what stays with TLC

`DataLemmas` states what `Append`, `Tail` and `RemoveAt` do to the elements of a
sequence, to its being free of repetitions, and to how many of a kind are in it and in which order.
It has the least element of a set of numbers, which several loops of
the code look for, and induction over numbers in the form in which the provers can use it: by
the well-foundedness of inclusion among finite intervals. The sums and the channels of `Ipc` are
recursive functions over numbers, so that this induction reaches them.

Only model-checked: `RequestsAnswered`, `IoAnswered`, `FaultServed`, `FramesReturned` and `MachineHalts`,
for liveness under fairness needs ENABLED. All other properties of
the passing runs are theorems. The three runs that expect a violation
are counterexamples, and need no proof.

## 5. Where the code and its comments disagree

Each run checks one property that states a comment of the code, and TLC finds
it violated.

| run | property | what happens |
|---|---|---|
| `finds_terminated_not_ready` | `TerminatedNotReady` | A message sent to a process between its removal from the ready queue and `freePcb` makes it ready again; the PCB is then free and ready (`utils.c:21`). |
| `finds_clock_ring` | `RingsClose` | The clock queue is linked by `p_io` but searched for `p_list`: a process that dies there stays linked. When its PCB is allocated again, `p_io` is initialised inside the ring, and the loop of `answer_wait_for_clock` never ends (`utils.c:28`, `ssi.c:211`). |
| `finds_state_overwritten` | `ResumesItself` | A U-proc goes on after its SEND; it and its SST both fault, and the state that one has saved is overwritten by the other's, which its pager will load (`sst.c:212`). |

The first needs "send" (`Nucleus`), the second "clock" (`Queues`), the third nothing but `Spec` of `Pager`.

More that the code means to keep and some programs or orders break. No
run of the table above checks these; each shows up when the module is run with
the change named here.

| what | how to see it |
|---|---|
| A process terminated between its DOIO and `do_io()` has been counted and is not uncounted (`utils.c:38`). | `SoftblockCount` of `Nucleus`, "kill" |
| A DOIO request whose sender has died is queued all the same (`ssi.c:157`). | `DeviceQueuesLive` of `Nucleus`, "kill" |
| The child is ready before it is counted; it may die first, and the scheduler halts while test waits (`ssi.c:125`). | `HaltAtTheEnd`, TRAP added to `Services` of `MCNucleusTree.cfg` |
| A process traps while the SSI is terminating it: its PCB is freed twice. | `RingsClose` of `Queues`, "die" |
| A process sends DOIO, takes a message of its child, which clears `do_io`, and waits for the answer uncounted. With nobody ready the scheduler panics, the device at work (`exceptions.c:122`, `scheduler.c:39`). No program of the repository mixes its calls this way. | `PanicIsDeadlock` of `MixedCalls` with `SPECIFICATION MixedSpec`, `Services = {"CREATE", "DOIO", "DATA", "RECV"}`, `MaxTicks = 0` in `MCNucleusLive.cfg` |
| `mark_free_pages` between a pager's invalidation of a frame and its reading of `sw_asid`: the page is addressed to `NOPROC`, which has no flash (`vmSupport.c:92`). It takes no overlap of SST and U-proc. | `FlashTarget` of `Pager` with `MCPagerLive.cfg` |
| What `InTurn` excludes: SST and U-proc load the same page twice, evict a frame of each other's. | `SwapExact`, `TlbCoherent`, `SeesLastStore` of `Pager` with `Spec` instead of `TurnSpec` in `MCPager.cfg` |
| An SST terminates its U-proc while that is inside the swap pool, or waits for the mutex: it is not given back, nobody gets a page again. | deadlock of `Pager` with `Spec` instead of `TurnSpec` in `MCPager.cfg` |
| A failed flash write loses the victim's page. | `SeesLastStore` of `Pager`, "flash" in `MCPager.cfg` |
| A trap inside the pager (page table full) leaves a stale entry in the swap pool; a later victim is not in the frame that is emptied. | `EvictsOwnFrame` of `Pager` with `Pages <- MCPagesMany`, `Val = {0}` in `MCPager.cfg` (82 steps; quickly under the constraint that SSTs stay idle) |
| `text_pages = { -1 }` sets one element: `.text` of the other ASIDs is mapped writable (`vmSupport.c:8`). | `TextProtected` of `Pager` with `TextSize` 1 for ASID 2 in `MCPager.cfg` |
| The support structure is freed by the U-proc and by its SST (`utils.c:46`). | `SupportFreedOnce` of `Support` |
| An SST that traps tells test, which frees the frames of a U-proc that still runs. | `ReleasedIsDead` of `Support` |
| A U-proc's message to PARENT before `sst_pcbs` is set goes to nobody. | deadlock of `Support`, "early" |

## 6. Not modelled, and why

* CPU time accounting (`update_cpu_time`, `tod_timer`): nothing else depends on it.
* The value of the time slice, and so whether a slice ends (`scheduler.c:55`): it
  needs real time; section "Fairness" says for which programs it is assumed.
* The mask of interrupts in WAIT: the model takes the scheduler's comment that
  the PLT is disabled there. `MIE_ALL ^ MIE_MTIE_MASK` toggles another bit than
  the machine timer's; what that does depends on the hardware. Listed as a hazard.
* Where a payload is stored: an exception raised by the nucleus while it
  stores one (`exceptions.c:174`) would nest handlers. Listed as a hazard.
* PCB reuse in phase 3: processes of `Support` have identities. `initProc.c:71`
  reads the PCB of a sender that may be gone; listed as a hazard.
* An exhausted message pool under the SSI: what a lost answer or interrupt does to its
  client follows from `SendFails`; the hazard is listed, no property is left to check.
* `p_pid`: never used to address a process.
* `mkEmptyProcQ`, `removeChild`, `mkEmptyMessageQ`, `pushMessage`, `headMessage`:
  called by `p1test.c` only.
* The saved state of general exceptions, processor states and stacks.
* The test programs of `phase1`, `phase2` and `phase3/testers`, but for the pattern of
  `print()`.

## 7. Plan

Done: the modules of section 2.

Next, in this order:

1. A timer model for the time slice.
2. Reusable PCB addresses in `Support`.
