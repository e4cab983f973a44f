------------------------------- MODULE DialV6 -------------------------------
(***************************************************************************)
(* One client that dials with DHCPv6, again and again, the exchange of     *)
(* each dial message by message: Solicit and Advertise, Request and Reply, *)
(* directly or through its relay agent, with a set of servers.             *)
(*                                                                         *)
(* External: nclient6, which sends a message up to MaxTries times, drops   *)
(* what has another transaction id or type, and gives each message an id   *)
(* of its own; and the servers, which answer a message once, obey the      *)
(* server id of a Request, and carry both ids in every answer.             *)
(***************************************************************************)
EXTENDS Relay, FiniteSets

CONSTANTS
  Server,
  NoServer,    \* the server id of a message without one
  Needs,       \* what the client may be configured to need: NeedNA, NeedPD
  MaxTries,    \* transmissions of one message: 3 in nclient6
  MaxDials,    \* bound of the model: dials of the client
  MaxFaults    \* bound of the model: answers that lack something asked for

ASSUME DialV6Assumption ==
  /\ IsFiniteSet(Server) /\ NoServer \notin Server
  /\ Needs \subseteq SUBSET {"na", "pd"}
  /\ MaxTries \in Nat \ {0}
  /\ MaxDials \in Nat
  /\ MaxFaults \in Nat

VARIABLES
  need,      \* NeedNA and NeedPD
  pc,        \* dialv6: "idle", "send" or "wait" for an answer
  dial,      \* number of the dial, 0 before the first
  tries,     \* transmissions of msg so far
  msg,       \* <<>> or the message being exchanged, of type <<...>>
  proc,      \* "running" or "panicked"
  asked,     \* history: the messages the client has built
  granted,   \* history: the Replies by which servers have committed leases
  leases     \* history: the Replies that became dc.d6Lease

dialVars == <<need, pc, dial, tries, msg, proc, asked, granted, leases>>
vars == <<relayVars, dialVars>>

\* The identity associations of a message: one may be missing, carry a status
\* but no address or prefix, or carry one.
IA == {"na", "pd"}
Content == {"absent", "empty", "assigned"}
Question == [type : {"Solicit", "Request"}, xid : Nat,
             sid : Server \cup {NoServer}, ia : [IA -> Content]]
Answer == [type : {"Advertise", "Reply"}, xid : Nat,
           sid : Server, ia : [IA -> Content]]

DialV6TypeOK ==
  /\ relayed \in BOOLEAN
  /\ up \in Seq(Question) /\ Len(up) <= PairDepth
  /\ down \in Seq(Answer) /\ Len(down) <= PairDepth
  /\ {accessPc, networkPc} \subseteq {"off", "run", "stopped"}
  /\ need \in Needs
  /\ pc \in {"idle", "send", "wait"}
  /\ dial \in 0..MaxDials
  /\ tries \in 0..MaxTries
  /\ msg \in Seq(Question) /\ Len(msg) <= 1
  /\ pc # "idle" => Len(msg) = 1
  /\ proc \in {"running", "panicked"}
  /\ asked \subseteq Question
  /\ granted \subseteq Answer
  /\ leases \subseteq Answer

DialV6Init ==
  /\ RelayInit
  /\ need \in Needs
  /\ pc = "idle"
  /\ dial = 0
  /\ tries = 0
  /\ msg = <<>>
  /\ proc = "running"
  /\ asked = {}
  /\ granted = {}
  /\ leases = {}

\* What servers can see, and what they have said.
Questions == {q \in asked : Forward(q) \in wire}
Answers == {a.payload[1] : a \in {p \in wire : p.payload # <<>> /\
                                   p.payload[1].type \in {"Advertise", "Reply"}}}

-----------------------------------------------------------------------------
(* dialv6, over nclient6's SendAndRead.                                    *)

SolicitId(d) == 2 * d - 1
RequestId(d) == 2 * d

\* buildSolicit: an empty IA for each kind the client needs.
BuildSolicit(d) ==
  [type |-> "Solicit", xid |-> SolicitId(d), sid |-> NoServer,
   ia |-> [i \in IA |-> IF i \in need THEN "empty" ELSE "absent"]]

\* A Request that leaves the prefix out.
NewRequestWithoutPD(adv) ==
  [type |-> "Request", xid |-> RequestId(dial), sid |-> adv.sid,
   ia |-> [adv.ia EXCEPT !["pd"] = "absent"]]

\* A Request that names no server.
NewRequestWithoutServer(adv) ==
  [type |-> "Request", xid |-> RequestId(dial), sid |-> NoServer, ia |-> adv.ia]

\* The server id and the IAs are those of the Advertise.
NewRequestFromAdv(adv) ==
  [type |-> "Request", xid |-> RequestId(dial), sid |-> adv.sid, ia |-> adv.ia]

\* checkResp looks at IA_NA, then at IA_PD; an absent one is a nil dereference.
Satisfies(m, i) == i \in need => m.ia[i] = "assigned"
CheckOk(m) == \A i \in IA : Satisfies(m, i)
CheckPanics(m) ==
  \/ "na" \in need /\ m.ia["na"] = "absent"
  \/ Satisfies(m, "na") /\ "pd" \in need /\ m.ia["pd"] = "absent"

\* A message to be exchanged next.
Begin(m) ==
  /\ msg' = <<m>>
  /\ asked' = asked \cup {m}
  /\ tries' = 0
  /\ pc' = "send"

End == pc' = "idle" /\ msg' = <<>> /\ tries' = 0 /\ UNCHANGED asked

StartDial ==
  /\ pc = "idle"
  /\ dial < MaxDials
  /\ dial' = dial + 1
  /\ Begin(BuildSolicit(dial + 1))
  /\ UNCHANGED <<relayVars, need, proc, granted, leases>>

Send ==
  /\ pc = "send"
  /\ ClientWrite(msg[1])
  /\ tries' = tries + 1
  /\ pc' = "wait"
  /\ UNCHANGED <<need, dial, msg, proc, asked, granted, leases>>

\* The raw connection reports an error, the pair never does.
SendFails ==
  /\ pc = "send"
  /\ ~relayed
  /\ End
  /\ UNCHANGED <<relayVars, need, dial, proc, granted, leases>>

\* Retransmissions that are not counted.
TimeoutUncounted ==
  /\ pc = "wait"
  /\ pc' = "send"
  /\ tries' = 0
  /\ UNCHANGED <<relayVars, need, dial, msg, proc, asked, granted, leases>>

\* No answer in time: another try, or the dial fails.
Timeout ==
  /\ pc = "wait"
  /\ IF tries < MaxTries
     THEN pc' = "send" /\ UNCHANGED <<tries, msg, asked>>
     ELSE End
  /\ UNCHANGED <<relayVars, need, dial, proc, granted, leases>>

Expected == IF msg[1].type = "Solicit" THEN "Advertise" ELSE "Reply"
Matches(m) == pc = "wait" /\ m.xid = msg[1].xid /\ m.type = Expected

\* A Reply taken without checkResp.
TakeUnchecked(m) ==
  IF m.type = "Advertise"
  THEN Begin(NewRequestFromAdv(m)) /\ UNCHANGED <<proc, leases>>
  ELSE leases' = leases \cup {m} /\ End /\ UNCHANGED proc

\* The dial goes on with the answer: an Advertise makes the Request, a Reply
\* the lease; one that does not have what is needed fails the dial.
Take(m) ==
  IF CheckPanics(m)
  THEN proc' = "panicked" /\ UNCHANGED <<pc, tries, msg, asked, leases>>
  ELSE /\ IF CheckOk(m) /\ m.type = "Advertise"
          THEN Begin(NewRequestFromAdv(m)) /\ UNCHANGED leases
          ELSE /\ leases' = IF CheckOk(m) THEN leases \cup {m} ELSE leases
               /\ End
       /\ UNCHANGED proc

\* What does not match the message being exchanged is dropped.
Receive(m) ==
  /\ ClientRead(m)
  /\ IF Matches(m) THEN Take(m) ELSE UNCHANGED <<pc, tries, msg, proc, asked, leases>>
  /\ UNCHANGED <<need, dial, granted>>

Dialv6 ==
  \/ StartDial
  \/ Send \/ SendFails
  \/ Timeout
  \/ \E m \in Answers : Receive(m)

\* ToBytes of a nil relay message, in the goroutine recvNetwork.
RelayPanics ==
  /\ HollowReplyRead
  /\ proc' = "panicked"
  /\ UNCHANGED <<relayVars, need, pc, dial, tries, msg, asked, granted, leases>>

-----------------------------------------------------------------------------
(* The servers.                                                            *)

\* Left out of the answer although asked for.
Omits(a) == \E q \in asked, i \in IA :
  q.xid = a.xid /\ q.ia[i] # "absent" /\ a.ia[i] = "absent"

Refuses(a) == \E q \in asked, i \in IA :
  q.xid = a.xid /\ q.ia[i] # "absent" /\ a.ia[i] # "assigned"

Faults == Cardinality({a \in Answers : Refuses(a)})
          + (IF HollowReply \in wire THEN 1 ELSE 0)

\* A Solicit is for every server, a Request for the one it names, or for all
\* if it names none.
Addressed(q, s) == q.sid \in {s, NoServer}

AnswerType(q) == IF q.type = "Solicit" THEN "Advertise" ELSE "Reply"

\* An answer has no IA that was not asked for.
Fits(ia, q) == \A i \in IA : q.ia[i] = "absent" => ia[i] = "absent"

ServerAnswers(s) ==
  /\ \E q \in Questions, ia \in [IA -> Content] :
       LET a == [type |-> AnswerType(q), xid |-> q.xid, sid |-> s, ia |-> ia]
       IN  /\ Addressed(q, s)
           /\ \A b \in Answers : ~(b.xid = q.xid /\ b.sid = s)
           /\ Fits(ia, q)
           /\ Refuses(a) => Faults < MaxFaults
           /\ wire' = wire \cup {Return(a)}
           /\ granted' = IF a.type = "Reply" THEN granted \cup {a} ELSE granted
  /\ UNCHANGED <<relayed, up, down, accessPc, networkPc>>
  /\ UNCHANGED <<need, pc, dial, tries, msg, proc, asked, leases>>

ServerForgetsMessage ==
  /\ relayed
  /\ Questions # {}
  /\ Faults < MaxFaults
  /\ wire' = wire \cup {HollowReply}
  /\ UNCHANGED <<relayed, up, down, accessPc, networkPc>>
  /\ UNCHANGED <<need, pc, dial, tries, msg, proc, asked, granted, leases>>

-----------------------------------------------------------------------------
Relaying == RelayAgent /\ UNCHANGED dialVars

Step ==
  \/ Dialv6
  \/ Relaying
  \/ RelayPanics
  \/ \E s \in Server : ServerAnswers(s)
  \/ ServerForgetsMessage

\* Nobody reads the full pair any more: the write of the client never returns.
Blocked == pc = "send" /\ accessPc = "stopped" /\ Len(up) = PairDepth

Ended == proc = "panicked" \/ (pc = "idle" /\ dial = MaxDials) \/ Blocked

DialV6Next ==
  \/ proc = "running" /\ Step
  \/ Ended /\ UNCHANGED vars

Spec == DialV6Init /\ [][DialV6Next]_vars

\* The client's goroutines and recvAccess run; a message that can be sent is
\* sent and a timeout comes.  The network and the servers owe nothing.
Fairness ==
  /\ WF_vars(proc = "running" /\ (Send \/ SendFails))
  /\ WF_vars(proc = "running" /\ Timeout)
  /\ WF_vars(proc = "running" /\ (RecvAccess \/ RecvAccessAborts) /\ UNCHANGED dialVars)

FairSpec == Spec /\ Fairness

-----------------------------------------------------------------------------
\* How far the dials have come, as LeaseExchange sees them.
Chosen ==
  [d \in 1..MaxDials |->
     IF \E q \in asked : q.xid = RequestId(d)
     THEN (CHOOSE q \in asked : q.xid = RequestId(d)).sid
     ELSE NoServer]
Granted ==
  {t \in (1..MaxDials) \X Server :
     \E r \in granted : r.xid = RequestId(t[1]) /\ r.sid = t[2]}
Bound == {d \in 1..MaxDials : \E r \in leases : r.xid = RequestId(d)}

Exchange == INSTANCE LeaseExchange WITH
  Dial <- 1..MaxDials, chosen <- Chosen, granted <- Granted, bound <- Bound

\* Whatever the network repeats, delays or loses, with a relay agent or
\* without: a dial turns to one server, no other server commits a lease for
\* it, and the lease it ends with was committed for it and not for an earlier
\* dial (sched.go:436-480, 1090-1108).
ImplementsLeaseExchange == Exchange!Spec

\* A lease is a Reply that has an address or a prefix for everything the
\* client is configured to need, and its server has committed it
\* (sched.go:408-421, 452-455).
LeaseComplete ==
  \A r \in leases : r \in granted /\ \A i \in need : r.ia[i] = "assigned"

\* The process panics only if a server has left out an IA it was asked for, or
\* the relay message of a relay reply: a refusal that says so, a late or a
\* repeated answer never crashes it (sched.go:411-417, relay.go:186).
PanicsOnlyOnOmission ==
  proc = "panicked" => HollowReply \in wire \/ \E a \in Answers : Omits(a)

\* The relay agent is transparent: what it puts on the network the client has
\* built, what it hands the client a server has sent (relay.go:143-153, 186).
RelayTransparent ==
  /\ {up[k] : k \in DOMAIN up} \subseteq asked
  /\ {down[k] : k \in DOMAIN down} \subseteq Answers
  /\ \A p \in wire : p.type = "RelayForward" => p.payload[1] \in asked
  /\ relayed => \A p \in wire : p.type # "Message"

\* Every dial comes to an end, in success, failure or a panic, unless the relay
\* agent has given up and the client is blocked on the full pair
\* (sched.go:436-480, relay.go:153-157, conpair.go:60).
DialEnds == pc # "idle" ~> pc = "idle" \/ proc = "panicked" \/ Blocked

=============================================================================
