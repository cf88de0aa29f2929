----------------------------- MODULE MixedCalls ------------------------------
(***************************************************************************)
(* Programs that take a message of another process while a request of      *)
(* theirs for a device or the clock is outstanding.  The nucleus lets them *)
(* (SYS2 takes any sender), but no program of the repository does, and the *)
(* programs of module Nucleus do not.                                      *)
(***************************************************************************)
EXTENDS Nucleus

(* The message has come, so that SYS2 does not block.                      *)
ReceivesMeanwhile(p, q) ==
    /\ "RECV" \in Services
    /\ Client(p) /\ call[p].op \in {"DOIO", "CLOCKWAIT"}
    /\ Matching(p, q) # {}
    /\ SysReceive(p, q)
    /\ UNCHANGED <<call, clientKeeps>>

MixedNext == Next \/ \E p, q \in Pcb \ {ssi_pcb_real} : ReceivesMeanwhile(p, q)

MixedSpec == Init /\ [][MixedNext]_vars
=============================================================================
