------------------------------ MODULE Channels ------------------------------
(***************************************************************************)
(* What SYS1 and SYS2 promise to the processes that call them, with no     *)
(* pool, no queues of PCBs and no CPU: one FIFO channel for every sender   *)
(* and receiver.  A receiver names the sender it wants or accepts any; it  *)
(* is suspended only while no channel it accepts from holds a message, and *)
(* while it is suspended the next message from such a sender goes straight *)
(* to it.  A message is never lost, duplicated or overtaken by a later one *)
(* of the same sender.  A send may fail, and then nothing happens: that is *)
(* a stuttering step here.                                                 *)
(***************************************************************************)
EXTENDS Naturals, Sequences

CONSTANTS
    Proc,     (* the receivers                                              *)
    From,     (* the names senders are known by                             *)
    Any,      (* the request to accept every sender                         *)
    Data,     (* the payloads                                               *)
    Nothing   (* the result of a receive that has not returned              *)

VARIABLES
    chan,     (* chan[s][p]: what s sent to p and p has not received        *)
    want,     (* want[p]: {} or, while p is suspended, the senders it takes *)
    got       (* got[p]: sender and payload returned by p's last receive    *)

chanVars == <<chan, want, got>>

Accepted(src) == IF src = Any THEN From ELSE {src}

ChanInit ==
    /\ chan = [s \in From |-> [p \in Proc |-> <<>>]]
    /\ want \in [Proc -> {{}, From}]
    /\ got = [p \in Proc |-> Nothing]

Send(s, p, d) ==
    /\ s \notin want[p]
    /\ chan' = [chan EXCEPT ![s][p] = Append(@, d)]
    /\ UNCHANGED <<want, got>>

HandOver(s, p, d) ==
    /\ s \in want[p]
    /\ want' = [want EXCEPT ![p] = {}]
    /\ got' = [got EXCEPT ![p] = [sender |-> s, payload |-> d]]
    /\ UNCHANGED chan

Receive(p, src) ==
    /\ want[p] = {}
    /\ \E s \in Accepted(src) :
          /\ chan[s][p] # <<>>
          /\ got' = [got EXCEPT
                        ![p] = [sender |-> s, payload |-> Head(chan[s][p])]]
          /\ chan' = [chan EXCEPT ![s][p] = Tail(@)]
    /\ UNCHANGED want

Suspend(p, src) ==
    /\ want[p] = {}
    /\ \A s \in Accepted(src) : chan[s][p] = <<>>
    /\ want' = [want EXCEPT ![p] = Accepted(src)]
    /\ got' = [got EXCEPT ![p] = Nothing]
    /\ UNCHANGED chan

ChanNext ==
    \E p \in Proc :
        \/ \E s \in From, d \in Data : Send(s, p, d) \/ HandOver(s, p, d)
        \/ \E src \in From \cup {Any} : Receive(p, src) \/ Suspend(p, src)

ChanSpec == ChanInit /\ [][ChanNext]_chanVars
=============================================================================
