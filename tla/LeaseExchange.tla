---------------------------- MODULE LeaseExchange ----------------------------
(***************************************************************************)
(* What a four-message DHCP exchange promises, whatever the network does:  *)
(* a dial chooses one server at most, only the chosen server grants it a   *)
(* lease, and a dial holds a lease only if that server has granted it.     *)
(* A server may grant a lease the dial never hears of.                     *)
(***************************************************************************)
CONSTANTS Dial, Server, NoServer

VARIABLES
  chosen,    \* the server a dial has turned to, NoServer before
  granted,   \* the dials the chosen server has granted a lease
  bound      \* the dials that hold a lease

vars == <<chosen, granted, bound>>

Init ==
  /\ chosen = [d \in Dial |-> NoServer]
  /\ granted = {}
  /\ bound = {}

Choose(d, s) ==
  /\ chosen[d] = NoServer
  /\ chosen' = [chosen EXCEPT ![d] = s]
  /\ UNCHANGED <<granted, bound>>

Grant(d) ==
  /\ chosen[d] # NoServer
  /\ granted' = granted \cup {<<d, chosen[d]>>}
  /\ UNCHANGED <<chosen, bound>>

Bind(d) ==
  /\ <<d, chosen[d]>> \in granted
  /\ bound' = bound \cup {d}
  /\ UNCHANGED <<chosen, granted>>

Next == \E d \in Dial : (\E s \in Server : Choose(d, s)) \/ Grant(d) \/ Bind(d)

Spec == Init /\ [][Next]_vars

=============================================================================
