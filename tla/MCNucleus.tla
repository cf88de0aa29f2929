----------------------------- MODULE MCNucleus -----------------------------
EXTENDS Nucleus

(* States Spec reaches once test and its child have asked for a child each *)
(* (a chain) or test for two (siblings): test runs after its answer and    *)
(* the others are ready, and have run, but for the last of a chain.        *)
Elder == test_pcb - 1
Younger == test_pcb - 2
Shape == {"chain", "siblings"}

ParentOfYounger(shape) == IF shape = "chain" THEN Elder ELSE test_pcb
AnswerTo(shape, p) ==
    CASE p = Elder /\ shape = "chain" -> Younger
      [] p = test_pcb -> IF shape = "chain" THEN Elder ELSE Younger
      [] OTHER -> NULL

FamilyIs(shape) ==
    /\ p_parent = [p \in Pcb |-> CASE p = Elder -> test_pcb
                                   [] p = Younger -> ParentOfYounger(shape)
                                   [] OTHER -> NULL]
    /\ p_child = [p \in Pcb |-> SelectSeq(<<Elder, Younger>>,
                                          LAMBDA c : p # NULL /\ p_parent[c] = p)]
    /\ ready_queue = IF shape = "chain" THEN <<Younger, Elder>> ELSE <<Elder, Younger>>
    /\ reg_a1 = [p \in Pcb |-> CASE p = test_pcb -> SSI_FAKE_ADDR
                                 [] p = Elder \/ (p = Younger /\ shape = "siblings")
                                      -> SCRATCH
                                 [] OTHER -> ANYMESSAGE]
    /\ received = [p \in Pcb |->
                      IF AnswerTo(shape, p) = NULL THEN NoMessage
                      ELSE [sender |-> SSI_FAKE_ADDR,
                            payload |-> [op |-> "CREATED", arg |-> AnswerTo(shape, p)]]]

FamilyInit ==
    /\ pcbFree = [i \in 1..(MaxProc - 4) |-> test_pcb - 2 - i]
    /\ \E shape \in Shape : FamilyIs(shape)
    /\ current_process = test_pcb
    /\ process_count = 4
    /\ softblock_count = 0
    /\ do_io = [p \in Pcb |-> FALSE]
    /\ msg_inbox = [p \in Pcb |-> <<>>]
    /\ msgFree = MaxMsg
    /\ blocked = {ssi_pcb_real}
    /\ ret = DELIVERED
    /\ cpu = "run"
    /\ pcb_blocked_on_device = [d \in Device |-> <<>>]
    /\ pcb_blocked_on_clock = <<>>
    /\ busy = {}
    /\ ssi = [pc |-> "dispatch", p |-> NULL, tmp |-> 0]
    /\ frame = [a \in Actor |-> NoFrame]
    /\ call = [p \in Pcb |-> NoCall]

FamilySpec == FamilyInit /\ [][Next]_vars
=============================================================================
