----------------------------- MODULE PacketQueue -----------------------------
(***************************************************************************)
(* What a packet connection promises its two ends: in each direction a     *)
(* bounded queue that neither loses, repeats, reorders nor invents a       *)
(* packet.  sent[e] and received[e] are the packets written for end e and  *)
(* those read by it, since the beginning.                                  *)
(***************************************************************************)
EXTENDS Naturals, Sequences

CONSTANTS End, Packet, Capacity

VARIABLES sent, received

vars == <<sent, received>>

Init ==
  /\ sent = [e \in End |-> <<>>]
  /\ received = [e \in End |-> <<>>]

Send(e, p) ==
  /\ Len(sent[e]) - Len(received[e]) < Capacity
  /\ sent' = [sent EXCEPT ![e] = Append(@, p)]
  /\ UNCHANGED received

\* The oldest packet not yet received.
Receive(e) ==
  /\ Len(received[e]) < Len(sent[e])
  /\ received' = [received EXCEPT ![e] = Append(@, sent[e][Len(@) + 1])]
  /\ UNCHANGED sent

Next == \E e \in End : Receive(e) \/ \E p \in Packet : Send(e, p)

Spec == Init /\ [][Next]_vars

=============================================================================
