-------------------------------- MODULE Relay --------------------------------
(***************************************************************************)
(* The network side of a DHCPv6 client: a raw connection to the network    *)
(* or, when V6MsgType is RelayForward, a packet pair with a RelayAgent     *)
(* behind it.  The agent is two goroutines, recvAccess from the client to  *)
(* the network and recvNetwork back.                                       *)
(*                                                                         *)
(* The network keeps every packet it has carried: a packet may be read     *)
(* late, again, out of order or never.  Nobody closes the pair or sets its *)
(* deadlines, so it is its two channels.  The client sends valid messages  *)
(* with a client id: recvAccess forwards them all.                         *)
(***************************************************************************)
EXTENDS Naturals, Sequences

CONSTANT PairDepth   \* maxChDepth of conpair

ASSUME RelayAssumption == PairDepth \in Nat \ {0}

VARIABLES
  relayed,    \* V6MsgType is RelayForward, not Solicit
  up,         \* messages in the pair on their way to the agent
  down,       \* messages in the pair on their way to the client
  accessPc,   \* recvAccess, "off" without agent
  networkPc,  \* recvNetwork
  wire        \* packets the network has carried

relayVars == <<relayed, up, down, accessPc, networkPc, wire>>

\* The packet a message travels in.
Packet(type, m) == [type |-> type, payload |-> <<m>>]

Forward(m) == Packet(IF relayed THEN "RelayForward" ELSE "Message", m)
Return(m) == Packet(IF relayed THEN "RelayReply" ELSE "Message", m)

\* A relay reply without its relay message option.
HollowReply == [type |-> "RelayReply", payload |-> <<>>]

RelayInit ==
  /\ relayed \in BOOLEAN
  /\ up = <<>>
  /\ down = <<>>
  /\ accessPc = IF relayed THEN "run" ELSE "off"
  /\ networkPc = accessPc
  /\ wire = {}

\* WriteTo of the client: blocks while the pair is full.
ClientWrite(m) ==
  IF relayed
  THEN /\ Len(up) < PairDepth
       /\ up' = Append(up, m)
       /\ UNCHANGED <<relayed, down, accessPc, networkPc, wire>>
  ELSE /\ wire' = wire \cup {Forward(m)}
       /\ UNCHANGED <<relayed, up, down, accessPc, networkPc>>

\* ReadFrom of the client's receive loop.
ClientRead(m) ==
  IF relayed
  THEN /\ down # <<>>
       /\ m = Head(down)
       /\ down' = Tail(down)
       /\ UNCHANGED <<relayed, up, accessPc, networkPc, wire>>
  ELSE /\ Return(m) \in wire
       /\ UNCHANGED relayVars

\* The message sent on as it is, without encapsulation.
RecvAccessPlain ==
  /\ accessPc = "run"
  /\ up # <<>>
  /\ up' = Tail(up)
  /\ wire' = wire \cup {Packet("Message", Head(up))}
  /\ UNCHANGED <<relayed, down, accessPc, networkPc>>

RecvAccess ==
  /\ accessPc = "run"
  /\ up # <<>>
  /\ up' = Tail(up)
  /\ wire' = wire \cup {Forward(Head(up))}
  /\ UNCHANGED <<relayed, down, accessPc, networkPc>>

\* Any error of the write to the network ends the goroutine.
RecvAccessAborts ==
  /\ accessPc = "run"
  /\ up # <<>>
  /\ up' = Tail(up)
  /\ accessPc' = "stopped"
  /\ UNCHANGED <<relayed, down, networkPc, wire>>

\* A channel to the client without bound.
RecvNetworkUnbounded(p) ==
  /\ networkPc = "run"
  /\ p \in wire
  /\ p.type = "RelayReply"
  /\ p.payload # <<>>
  /\ down' = down \o p.payload
  /\ UNCHANGED <<relayed, up, accessPc, networkPc, wire>>

\* Only relay replies are passed on; the write blocks while the pair is full.
RecvNetwork(p) ==
  /\ networkPc = "run"
  /\ p \in wire
  /\ p.type = "RelayReply"
  /\ p.payload # <<>>
  /\ Len(down) < PairDepth
  /\ down' = down \o p.payload
  /\ UNCHANGED <<relayed, up, accessPc, networkPc, wire>>

\* An error of the read from the network, other than a timeout.
RecvNetworkAborts ==
  /\ networkPc = "run"
  /\ networkPc' = "stopped"
  /\ UNCHANGED <<relayed, up, down, accessPc, wire>>

RelayAgent ==
  \/ RecvAccess
  \/ RecvAccessAborts
  \/ \E p \in wire : RecvNetwork(p)
  \/ RecvNetworkAborts

\* msg.Options.RelayMessage() is nil and its ToBytes is called.
HollowReplyRead == networkPc = "run" /\ HollowReply \in wire

=============================================================================
