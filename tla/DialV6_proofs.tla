---------------------------- MODULE DialV6_proofs ----------------------------
(***************************************************************************)
(* The DHCPv6 dial for every set of servers, every depth of the pair and   *)
(* every number of tries, dials and faults: its safety properties, and     *)
(* that it implements LeaseExchange.                                       *)
(***************************************************************************)
EXTENDS DialV6, SequenceTheorems, TLAPS

\* Nothing is on the network that neither the client built nor a server sent.
WireInv ==
  \A p \in wire :
    \/ relayed /\ p = HollowReply
    \/ \E q \in asked : p = Forward(q)
    \/ \E a \in Answers : a \in Answer /\ p = Return(a)

\* The questions of different messages have different ids, those of a dial its
\* own two, and each asks for all the client needs.
AskedInv ==
  /\ \A q \in asked :
       \E d \in 1..dial :
         \/ q.type = "Solicit" /\ q.xid = SolicitId(d)
         \/ q.type = "Request" /\ q.xid = RequestId(d) /\ q.sid \in Server
  /\ \A q, r \in asked : q.xid = r.xid => q = r
  /\ \A q \in asked, i \in need : q.ia[i] # "absent"

\* The message being exchanged; a Request follows the Solicit of its dial.
MsgInv ==
  pc # "idle" =>
    /\ dial >= 1
    /\ pc = "send" => tries < MaxTries
    /\ msg[1] \in asked
    /\ \/ /\ msg[1].type = "Solicit"
          /\ msg[1].xid = SolicitId(dial)
          /\ \A q \in asked : q.xid # RequestId(dial)
       \/ /\ msg[1].type = "Request"
          /\ msg[1].xid = RequestId(dial)

\* Every Reply a client may see has been committed, by the server the Request
\* of that id was for.
GrantedInv ==
  /\ \A a \in Answers : a.type = "Reply" => a \in granted
  /\ \A r \in granted :
       /\ r.type = "Reply"
       /\ \E q \in asked : q.type = "Request" /\ q.xid = r.xid /\ q.sid = r.sid

DialInv ==
  /\ DialV6TypeOK
  /\ WireInv
  /\ RelayTransparent
  /\ AskedInv
  /\ MsgInv
  /\ GrantedInv
  /\ LeaseComplete
  /\ PanicsOnlyOnOmission

-----------------------------------------------------------------------------
(* The pair's channels and the messages.                                   *)

LEMMA Queued ==
  ASSUME NEW S, NEW q \in Seq(S), NEW m \in S
  PROVE  /\ Append(q, m) \in Seq(S)
         /\ Len(Append(q, m)) = Len(q) + 1
         /\ Len(q) \in Nat
         /\ q \o <<m>> = Append(q, m)
         /\ \A k \in DOMAIN Append(q, m) :
              Append(q, m)[k] = m \/ \E j \in DOMAIN q : Append(q, m)[k] = q[j]
<1>1. /\ Append(q, m) \in Seq(S)
      /\ Len(Append(q, m)) = Len(q) + 1
      /\ \A i \in 1..Len(q) : Append(q, m)[i] = q[i]
      /\ Append(q, m)[Len(q) + 1] = m
  BY AppendProperties
<1>2. Len(q) \in Nat /\ DOMAIN q = 1..Len(q)
  BY LenProperties
<1>3. q \o <<m>> = Append(q, m)
  BY AppendIsConcat
<1>4. DOMAIN Append(q, m) = 1..(Len(q) + 1)
  BY <1>1, LenProperties
<1>5. ASSUME NEW k \in DOMAIN Append(q, m), Append(q, m)[k] # m
      PROVE  \E j \in DOMAIN q : Append(q, m)[k] = q[j]
  <2>1. k \in 1..Len(q)
    BY <1>1, <1>2, <1>4, <1>5
  <2> QED  BY <1>1, <1>2, <2>1
<1> QED  BY <1>1, <1>2, <1>3, <1>5

LEMMA Dequeued ==
  ASSUME NEW S, NEW q \in Seq(S), q # <<>>
  PROVE  /\ Head(q) \in S
         /\ Tail(q) \in Seq(S)
         /\ Len(q) \in Nat
         /\ Len(Tail(q)) = Len(q) - 1
         /\ \E j \in DOMAIN q : Head(q) = q[j]
         /\ \A k \in DOMAIN Tail(q) : \E j \in DOMAIN q : Tail(q)[k] = q[j]
<1>1. /\ Head(q) \in S
      /\ Tail(q) \in Seq(S)
      /\ Len(Tail(q)) = Len(q) - 1
      /\ \A i \in 1..Len(Tail(q)) : Tail(q)[i] = q[i + 1]
  BY HeadTailProperties
<1>2. Len(q) \in Nat \ {0} /\ DOMAIN q = 1..Len(q)
  BY LenProperties, EmptySeq
<1>3. Head(q) = q[1]
  OBVIOUS
<1>4. DOMAIN Tail(q) = 1..Len(Tail(q))
  BY <1>1, LenProperties
<1>5. ASSUME NEW k \in DOMAIN Tail(q)
      PROVE  \E j \in DOMAIN q : Tail(q)[k] = q[j]
  <2>1. k + 1 \in DOMAIN q /\ Tail(q)[k] = q[k + 1]
    BY <1>1, <1>2, <1>4
  <2> QED  BY <2>1
<1> QED  BY <1>1, <1>2, <1>3, <1>5

\* Solicits and Requests never share an id.
LEMMA MessageIds ==
  ASSUME NEW d \in Nat, NEW e \in Nat
  PROVE  /\ SolicitId(d) # RequestId(e)
         /\ SolicitId(d) = SolicitId(e) => d = e
         /\ RequestId(d) = RequestId(e) => d = e
BY DEF SolicitId, RequestId

LEMMA SolicitBuilt ==
  ASSUME need \in SUBSET IA, NEW d \in Nat, d >= 1
  PROVE  /\ BuildSolicit(d) \in Question
         /\ BuildSolicit(d).type = "Solicit"
         /\ BuildSolicit(d).xid = SolicitId(d)
         /\ \A i \in need : BuildSolicit(d).ia[i] # "absent"
<1>1. SolicitId(d) \in Nat
  BY DEF SolicitId
<1>2. [i \in IA |-> IF i \in need THEN "empty" ELSE "absent"] \in [IA -> Content]
  BY DEF Content
<1> QED  BY <1>1, <1>2 DEF BuildSolicit, Question

LEMMA RequestBuilt ==
  ASSUME dial \in Nat, NEW a \in Answer
  PROVE  /\ NewRequestFromAdv(a) \in Question
         /\ NewRequestFromAdv(a).type = "Request"
         /\ NewRequestFromAdv(a).xid = RequestId(dial)
         /\ NewRequestFromAdv(a).sid = a.sid /\ a.sid \in Server
         /\ NewRequestFromAdv(a).ia = a.ia
<1>1. RequestId(dial) \in Nat
  BY DEF RequestId
<1> QED  BY <1>1 DEF NewRequestFromAdv, Question, Answer

-----------------------------------------------------------------------------
(* What the network carries.                                               *)

\* The answers are the messages that travel as a server sends them.
LEMMA AnswerSent ==
  asked \subseteq Question /\ WireInv =>
    \A a : a \in Answers <=> a \in Answer /\ Return(a) \in wire
<1> SUFFICES ASSUME asked \subseteq Question, WireInv, NEW a
             PROVE  a \in Answers <=> a \in Answer /\ Return(a) \in wire
  OBVIOUS
<1>1. ASSUME a \in Answers PROVE a \in Answer /\ Return(a) \in wire
  <2>1. PICK p \in wire : /\ p.payload # <<>>
                          /\ a = p.payload[1]
                          /\ a.type \in {"Advertise", "Reply"}
    BY <1>1 DEF Answers
  <2>2. CASE p = HollowReply
    BY <2>1, <2>2 DEF HollowReply
  <2>3. ASSUME NEW q \in asked, p = Forward(q) PROVE FALSE
    <3>1. a = q
      BY <2>1, <2>3 DEF Forward, Packet
    <3> QED  BY <2>1, <3>1 DEF Question
  <2>4. ASSUME NEW b \in Answer, p = Return(b) PROVE a = b
    BY <2>1, <2>4 DEF Return, Packet
  <2> QED  BY <2>1, <2>2, <2>3, <2>4 DEF WireInv
<1>2. ASSUME a \in Answer, Return(a) \in wire PROVE a \in Answers
  <2>1. Return(a).payload = <<a>> /\ a.type \in {"Advertise", "Reply"}
    BY <1>2 DEF Return, Packet, Answer
  <2>2. Return(a).payload # <<>> /\ Return(a).payload[1] = a
    BY <2>1
  <2> QED  BY <1>2, <2>1, <2>2 DEF Answers
<1> QED  BY <1>1, <1>2

\* The part of RelayTransparent that is about the network.
LEMMA WireTransparent ==
  WireInv => /\ \A p \in wire : p.type = "RelayForward" => p.payload[1] \in asked
             /\ relayed => \A p \in wire : p.type # "Message"
<1> SUFFICES ASSUME WireInv, NEW p \in wire
             PROVE  /\ p.type = "RelayForward" => p.payload[1] \in asked
                    /\ relayed => p.type # "Message"
  OBVIOUS
<1>1. CASE relayed /\ p = HollowReply
  BY <1>1 DEF HollowReply
<1>2. ASSUME NEW q \in asked, p = Forward(q)
      PROVE  p.payload[1] \in asked /\ (relayed => p.type # "Message")
  BY <1>2 DEF Forward, Packet
<1>3. ASSUME NEW a \in Answer, p = Return(a)
      PROVE  p.type # "RelayForward" /\ (relayed => p.type # "Message")
  BY <1>3 DEF Return, Packet
<1> QED  BY <1>1, <1>2, <1>3 DEF WireInv

\* What is carried stays, with all that can be read from it.
LEMMA AnswersKept == wire \subseteq wire' => Answers \subseteq Answers'
BY DEF Answers

\* How a packet put on the network changes the answers in it.
LEMMA QuestionCarried ==
  ASSUME NEW q \in Question, NEW t, wire' = wire \cup {Packet(t, q)}
  PROVE  Answers' = Answers
<1>1. Packet(t, q).payload[1] = q /\ q.type \notin {"Advertise", "Reply"}
  BY DEF Packet, Question
<1> QED  BY <1>1 DEF Answers

LEMMA AnswerCarried ==
  ASSUME NEW a \in Answer, wire' = wire \cup {Return(a)}
  PROVE  Answers' = Answers \cup {a}
<1>1. Return(a).payload = <<a>> /\ a.type \in {"Advertise", "Reply"}
  BY DEF Return, Packet, Answer
<1>2. Return(a).payload # <<>> /\ Return(a).payload[1] = a
  BY <1>1
<1>3. \A b : b \in Answers' <=> b \in Answers \/ b = a
  BY <1>1, <1>2 DEF Answers
<1> QED  BY <1>3

LEMMA HollowCarried == wire' = wire \cup {HollowReply} => Answers' = Answers
<1>1. HollowReply.payload = <<>>
  BY DEF HollowReply
<1> QED  BY <1>1 DEF Answers

-----------------------------------------------------------------------------
(* What keeps the parts of the invariant.                                  *)

LEMMA WireKept ==
  ASSUME DialInv, relayed' = relayed, asked \subseteq asked', wire \subseteq wire',
         \A p \in wire' :
           \/ p \in wire
           \/ relayed /\ p = HollowReply
           \/ \E q \in asked : p = Forward(q)
           \/ \E a \in Answers' : a \in Answer /\ p = Return(a)
  PROVE  WireInv'
<1>1. Answers \subseteq Answers'
  BY AnswersKept
<1>2. \A m : Forward(m)' = Forward(m) /\ Return(m)' = Return(m)
  BY DEF Forward, Return
<1> SUFFICES ASSUME NEW p \in wire'
             PROVE  \/ relayed' /\ p = HollowReply
                    \/ \E q \in asked' : p = Forward(q)'
                    \/ \E a \in Answers' : a \in Answer /\ p = Return(a)'
  BY DEF WireInv
<1>3. \/ relayed /\ p = HollowReply
      \/ \E q \in asked : p = Forward(q)
      \/ \E a \in Answers' : a \in Answer /\ p = Return(a)
  BY <1>1 DEF DialInv, WireInv
<1> QED  BY <1>2, <1>3

\* The pair's part of RelayTransparent is enough.
LEMMA TransparentKept ==
  ASSUME WireInv',
         \A k \in DOMAIN up' : up'[k] \in asked',
         \A k \in DOMAIN down' : down'[k] \in Answers'
  PROVE  RelayTransparent'
<1>1. WireInv' =>
        (/\ \A p \in wire : p.type = "RelayForward" => p.payload[1] \in asked
         /\ relayed => \A p \in wire : p.type # "Message")'
  BY WireTransparent, PTL
<1> QED  BY <1>1 DEF RelayTransparent

LEMMA PanicKept ==
  ASSUME DialInv, proc' = proc, asked \subseteq asked', wire \subseteq wire'
  PROVE  PanicsOnlyOnOmission'
<1>1. Answers \subseteq Answers'
  BY AnswersKept
<1>2. \A a : Omits(a) => Omits(a)'
  BY DEF Omits
<1> QED  BY <1>1, <1>2 DEF DialInv, PanicsOnlyOnOmission

LEMMA GrantedKept ==
  ASSUME DialInv, Answers' = Answers, granted' = granted, asked \subseteq asked'
  PROVE  GrantedInv'
BY DEF DialInv, GrantedInv

LEMMA LeaseKept ==
  ASSUME DialInv, leases' = leases, granted \subseteq granted', need' = need
  PROVE  LeaseComplete'
BY DEF DialInv, LeaseComplete

LEMMA AskedKept ==
  ASSUME DialInv, UNCHANGED <<asked, need, dial>>
  PROVE  AskedInv'
BY DEF DialInv, AskedInv

\* A new message with an id of its own.
LEMMA AskedGrows ==
  ASSUME DialInv, NEW q \in Question, asked' = asked \cup {q}, need' = need,
         dial' \in Nat, dial' >= dial,
         \E d \in 1..dial' :
           \/ q.type = "Solicit" /\ q.xid = SolicitId(d)
           \/ q.type = "Request" /\ q.xid = RequestId(d) /\ q.sid \in Server,
         \A r \in asked : r.xid # q.xid,
         \A i \in need : q.ia[i] # "absent"
  PROVE  AskedInv'
<1>1. dial \in Nat
  BY DEF DialInv, DialV6TypeOK
<1>2. ASSUME NEW r \in asked'
      PROVE  \E d \in 1..dial' :
               \/ r.type = "Solicit" /\ r.xid = SolicitId(d)
               \/ r.type = "Request" /\ r.xid = RequestId(d) /\ r.sid \in Server
  <2>1. CASE r = q
    BY <2>1
  <2>2. CASE r \in asked
    <3>1. PICK d \in 1..dial :
            \/ r.type = "Solicit" /\ r.xid = SolicitId(d)
            \/ r.type = "Request" /\ r.xid = RequestId(d) /\ r.sid \in Server
      BY <2>2 DEF DialInv, AskedInv
    <3>2. d \in 1..dial'
      BY <1>1
    <3> QED  BY <3>1, <3>2
  <2> QED  BY <2>1, <2>2
<1>3. \A r, t \in asked' : r.xid = t.xid => r = t
  BY DEF DialInv, AskedInv
<1>4. \A r \in asked', i \in need' : r.ia[i] # "absent"
  BY DEF DialInv, AskedInv
<1> QED  BY <1>2, <1>3, <1>4 DEF AskedInv

\* Steps of the client that leave network, pair and servers alone.
LEMMA NetKept ==
  ASSUME DialInv, UNCHANGED <<relayed, up, down, wire, granted>>, asked \subseteq asked'
  PROVE  Answers' = Answers /\ WireInv' /\ RelayTransparent' /\ GrantedInv'
<1>1. Answers' = Answers
  BY DEF Answers
<1>2. WireInv'
  BY WireKept
<1>3. /\ \A k \in DOMAIN up' : up'[k] \in asked'
      /\ \A k \in DOMAIN down' : down'[k] \in Answers'
  BY <1>1 DEF DialInv, RelayTransparent
<1> QED  BY <1>1, <1>2, <1>3, TransparentKept, GrantedKept

-----------------------------------------------------------------------------
(* The invariant, action by action.                                        *)

LEMMA NeedIsIA == DialInv => need \in SUBSET IA
BY DialV6Assumption DEF DialInv, DialV6TypeOK, IA

LEMMA EmptyQueue == ASSUME NEW S PROVE <<>> \in Seq(S) /\ Len(<<>>) = 0
BY EmptySeq

LEMMA OneMessage ==
  ASSUME NEW q \in Question
  PROVE  <<q>> \in Seq(Question) /\ Len(<<q>>) = 1 /\ <<q>>[1] = q
OBVIOUS

LEMMA InitInv == DialV6Init => DialInv
<1> SUFFICES ASSUME DialV6Init PROVE DialInv
  OBVIOUS
<1> USE DEF DialV6Init, RelayInit
<1>1. DialV6TypeOK
  BY EmptyQueue, RelayAssumption, DialV6Assumption DEF DialV6TypeOK
<1>2. WireInv /\ Answers = {}
  BY DEF WireInv, Answers
<1>3. DOMAIN up = {} /\ DOMAIN down = {}
  OBVIOUS
<1> QED
  BY <1>1, <1>2, <1>3 DEF DialInv, RelayTransparent, AskedInv, MsgInv, GrantedInv,
    LeaseComplete, PanicsOnlyOnOmission

LEMMA StartInv == DialInv /\ StartDial => DialInv'
<1> SUFFICES ASSUME DialInv, StartDial PROVE DialInv'
  OBVIOUS
<1> DEFINE q == BuildSolicit(dial + 1)
<1>1. /\ UNCHANGED <<relayVars, need, proc, granted, leases>>
      /\ dial < MaxDials /\ dial' = dial + 1
      /\ msg' = <<q>> /\ asked' = asked \cup {q} /\ tries' = 0 /\ pc' = "send"
  BY DEF StartDial, Begin
<1>2. /\ dial \in Nat /\ dial' \in 0..MaxDials
      /\ asked \subseteq Question
  BY <1>1, DialV6Assumption DEF DialInv, DialV6TypeOK
<1>3. /\ q \in Question /\ q.type = "Solicit" /\ q.xid = SolicitId(dial')
      /\ \A i \in need : q.ia[i] # "absent"
  BY <1>1, <1>2, NeedIsIA, SolicitBuilt
<1> HIDE DEF q
<1>4. \A r \in asked : r.xid # SolicitId(dial') /\ r.xid # RequestId(dial')
  <2> SUFFICES ASSUME NEW r \in asked
               PROVE  r.xid # SolicitId(dial') /\ r.xid # RequestId(dial')
    OBVIOUS
  <2>1. PICK d \in 1..dial : r.xid \in {SolicitId(d), RequestId(d)}
    BY DEF DialInv, AskedInv
  <2>2. d \in Nat /\ dial' \in Nat /\ d # dial'
    BY <1>1, <1>2
  <2> QED  BY <2>1, <2>2, MessageIds
<1>5. DialV6TypeOK'
  BY <1>1, <1>2, <1>3, OneMessage, DialV6Assumption DEF DialInv, DialV6TypeOK, relayVars
<1>6. AskedInv'
  BY <1>1, <1>2, <1>3, <1>4, AskedGrows
<1>7. MsgInv'
  <2>1. msg'[1] = q /\ q \in asked'
    BY <1>1
  <2>2. q.xid # RequestId(dial')
    BY <1>1, <1>2, <1>3, MessageIds
  <2>3. \A r \in asked' : r.xid # RequestId(dial')
    BY <1>1, <1>4, <2>2
  <2> QED  BY <1>1, <1>2, <1>3, <2>1, <2>3, DialV6Assumption DEF MsgInv
<1>8. WireInv' /\ RelayTransparent' /\ GrantedInv'
  BY <1>1, NetKept DEF relayVars
<1>9. LeaseComplete' /\ PanicsOnlyOnOmission'
  BY <1>1, LeaseKept, PanicKept DEF relayVars
<1> QED  BY <1>5, <1>6, <1>7, <1>8, <1>9 DEF DialInv

\* SendFails and Timeout: the message is tried again, or dropped.
LEMMA RetryInv == DialInv /\ (SendFails \/ Timeout) => DialInv'
<1> SUFFICES ASSUME DialInv, SendFails \/ Timeout PROVE DialInv'
  OBVIOUS
<1>1. /\ UNCHANGED <<relayVars, need, dial, proc, granted, leases, asked>>
      /\ \/ pc' = "send" /\ pc = "wait" /\ UNCHANGED <<tries, msg>>
         \/ pc' = "idle" /\ msg' = <<>> /\ tries' = 0
  BY DEF SendFails, Timeout, End
<1>2. DialV6TypeOK'
  <2>1. <<>> \in Seq(Question) /\ Len(<<>>) = 0
    BY EmptyQueue
  <2>2. /\ msg' \in Seq(Question) /\ Len(msg') <= 1
        /\ pc' # "idle" => Len(msg') = 1
    <3>1. CASE pc' = "send" /\ pc = "wait" /\ UNCHANGED <<tries, msg>>
      BY <3>1 DEF DialInv, DialV6TypeOK
    <3>2. CASE pc' = "idle" /\ msg' = <<>> /\ tries' = 0
      <4>1. msg' \in Seq(Question) /\ Len(msg') = 0
        BY <2>1, <3>2, Zenon
      <4> QED  BY <3>2, <4>1
    <3> QED  BY <1>1, <3>1, <3>2
  <2>3. pc' \in {"idle", "send", "wait"} /\ tries' \in 0..MaxTries
    BY <1>1, DialV6Assumption DEF DialInv, DialV6TypeOK
  <2> QED  BY <1>1, <2>2, <2>3 DEF DialInv, DialV6TypeOK, relayVars
<1>3. MsgInv'
  <2>1. pc' = "send" => tries' < MaxTries
    BY DEF SendFails, Timeout, End
  <2> QED  BY <1>1, <2>1 DEF DialInv, MsgInv
<1>4. WireInv' /\ RelayTransparent' /\ GrantedInv'
  BY <1>1, NetKept DEF relayVars
<1>5. AskedInv' /\ LeaseComplete' /\ PanicsOnlyOnOmission'
  BY <1>1, AskedKept, LeaseKept, PanicKept DEF relayVars
<1> QED  BY <1>2, <1>3, <1>4, <1>5 DEF DialInv

LEMMA SendInv == DialInv /\ Send => DialInv'
<1> SUFFICES ASSUME DialInv, Send PROVE DialInv'
  OBVIOUS
<1> DEFINE q == msg[1]
<1>1. /\ pc = "send" /\ pc' = "wait" /\ tries' = tries + 1
      /\ UNCHANGED <<need, dial, msg, proc, asked, granted, leases>>
      /\ UNCHANGED <<relayed, down, accessPc, networkPc>>
      /\ \/ /\ relayed /\ Len(up) < PairDepth
            /\ up' = Append(up, q) /\ UNCHANGED wire
         \/ wire' = wire \cup {Forward(q)} /\ UNCHANGED up
  BY DEF Send, ClientWrite
<1>2. q \in asked /\ asked \subseteq Question /\ q \in Question
  BY <1>1 DEF DialInv, DialV6TypeOK, MsgInv
<1> HIDE DEF q
<1>3. /\ up' \in Seq(Question) /\ Len(up') <= PairDepth
      /\ \A k \in DOMAIN up' : up'[k] \in asked'
  <2>1. up \in Seq(Question) /\ Len(up) <= PairDepth /\ \A k \in DOMAIN up : up[k] \in asked
    BY DEF DialInv, DialV6TypeOK, RelayTransparent
  <2>2. CASE UNCHANGED up
    BY <1>1, <2>1, <2>2
  <2>3. CASE Len(up) < PairDepth /\ up' = Append(up, q)
    <3>1. /\ Append(up, q) \in Seq(Question)
          /\ Len(Append(up, q)) = Len(up) + 1 /\ Len(up) \in Nat
          /\ \A k \in DOMAIN Append(up, q) :
               Append(up, q)[k] = q \/ \E j \in DOMAIN up : Append(up, q)[k] = up[j]
      BY <1>2, <2>1, Queued
    <3> QED  BY <1>1, <1>2, <2>1, <2>3, <3>1, RelayAssumption
  <2> QED  BY <1>1, <2>2, <2>3
<1>4. DialV6TypeOK'
  <2>1. tries < MaxTries
    BY <1>1 DEF DialInv, MsgInv
  <2> QED  BY <1>1, <1>3, <2>1, DialV6Assumption DEF DialInv, DialV6TypeOK
<1>5. Answers' = Answers
  <2>1. CASE UNCHANGED wire
    BY <2>1 DEF Answers
  <2>2. CASE wire' = wire \cup {Forward(q)}
    BY <1>2, <2>2, QuestionCarried DEF Forward
  <2> QED  BY <1>1, <2>1, <2>2
<1>6. WireInv'
  BY <1>1, <1>2, WireKept
<1>7. \A k \in DOMAIN down' : down'[k] \in Answers'
  BY <1>1, <1>5 DEF DialInv, RelayTransparent
<1>8. RelayTransparent' /\ GrantedInv'
  BY <1>1, <1>3, <1>5, <1>6, <1>7, TransparentKept, GrantedKept
<1>9. MsgInv'
  BY <1>1 DEF DialInv, MsgInv
<1>10. AskedInv' /\ LeaseComplete' /\ PanicsOnlyOnOmission'
  BY <1>1, AskedKept, LeaseKept, PanicKept
<1> QED  BY <1>4, <1>6, <1>8, <1>9, <1>10 DEF DialInv

\* What reading does, wherever it reads from.
LEMMA ClientReads ==
  ASSUME DialInv, NEW m \in Answers, ClientRead(m)
  PROVE  /\ m \in Answer
         /\ UNCHANGED <<relayed, up, accessPc, networkPc, wire>>
         /\ Answers' = Answers
         /\ down' \in Seq(Answer) /\ Len(down') <= PairDepth
         /\ \A k \in DOMAIN down' : down'[k] \in Answers
<1>1. /\ down \in Seq(Answer) /\ Len(down) <= PairDepth
      /\ \A k \in DOMAIN down : down[k] \in Answers
      /\ asked \subseteq Question
  BY DEF DialInv, DialV6TypeOK, RelayTransparent
<1>2. m \in Answer
  BY <1>1, AnswerSent DEF DialInv
<1>3. /\ UNCHANGED <<relayed, up, accessPc, networkPc, wire>>
      /\ down' = down \/ (down # <<>> /\ down' = Tail(down))
  BY DEF ClientRead, relayVars
<1>4. Answers' = Answers
  BY <1>3 DEF Answers
<1>5. CASE down # <<>> /\ down' = Tail(down)
  <2>1. /\ Tail(down) \in Seq(Answer) /\ Len(Tail(down)) = Len(down) - 1
        /\ Len(down) \in Nat
        /\ \A k \in DOMAIN Tail(down) : \E j \in DOMAIN down : Tail(down)[k] = down[j]
    BY <1>1, <1>5, Dequeued
  <2>2. \A k \in DOMAIN Tail(down) : Tail(down)[k] \in Answers
    BY <1>1, <2>1
  <2>3. Len(Tail(down)) <= PairDepth
    BY <1>1, <2>1, RelayAssumption
  <2> QED  BY <1>2, <1>3, <1>4, <1>5, <2>1, <2>2, <2>3
<1> QED  BY <1>1, <1>2, <1>3, <1>4, <1>5

\* The parts of the invariant a received answer leaves to the network.
LEMMA ReadKept ==
  ASSUME DialInv, NEW m \in Answers, Receive(m), asked \subseteq asked'
  PROVE  WireInv' /\ RelayTransparent' /\ GrantedInv'
<1>1. ClientRead(m) /\ UNCHANGED <<need, dial, granted>>
  BY DEF Receive
<1>2. /\ UNCHANGED <<relayed, up, wire>> /\ Answers' = Answers
      /\ \A k \in DOMAIN down' : down'[k] \in Answers'
  BY <1>1, ClientReads
<1>3. WireInv'
  BY <1>2, WireKept
<1>4. \A k \in DOMAIN up' : up'[k] \in asked'
  BY <1>2 DEF DialInv, RelayTransparent
<1> QED  BY <1>1, <1>2, <1>3, <1>4, TransparentKept, GrantedKept

\* The Advertise that makes the Request.
LEMMA AdvertiseInv ==
  ASSUME DialInv, NEW m \in Answers, Receive(m), Matches(m), CheckOk(m),
         m.type = "Advertise",
         Begin(NewRequestFromAdv(m)), UNCHANGED <<leases, proc>>
  PROVE  DialInv'
<1> DEFINE q == NewRequestFromAdv(m)
<1>1. /\ ClientRead(m) /\ UNCHANGED <<need, dial, granted, leases, proc>>
      /\ msg' = <<q>> /\ asked' = asked \cup {q} /\ tries' = 0 /\ pc' = "send"
  BY DEF Receive, Begin
<1>2. /\ m \in Answer
      /\ UNCHANGED <<relayed, up, accessPc, networkPc, wire>>
      /\ down' \in Seq(Answer) /\ Len(down') <= PairDepth
  BY <1>1, ClientReads
<1>3. dial \in Nat /\ asked \subseteq Question
  BY DialV6Assumption DEF DialInv, DialV6TypeOK
<1>4. /\ q \in Question /\ q.type = "Request" /\ q.xid = RequestId(dial)
      /\ q.sid \in Server /\ q.ia = m.ia
  BY <1>2, <1>3, RequestBuilt
<1> HIDE DEF q
<1>5. /\ pc = "wait" /\ dial >= 1
      /\ \A r \in asked : r.xid # RequestId(dial)
  <2>1. pc = "wait" /\ msg[1].type = "Solicit"
    BY DEF Matches, Expected
  <2> QED  BY <2>1 DEF DialInv, MsgInv
<1>6. \A i \in need : q.ia[i] # "absent"
  BY <1>4, NeedIsIA DEF CheckOk, Satisfies
<1>7. DialV6TypeOK'
  BY <1>1, <1>2, <1>4, OneMessage, DialV6Assumption DEF DialInv, DialV6TypeOK
<1>8. AskedInv'
  <2>1. dial \in 1..dial'
    BY <1>1, <1>3, <1>5
  <2> QED  BY <1>1, <1>3, <1>4, <1>5, <1>6, <2>1, AskedGrows
<1>9. MsgInv'
  BY <1>1, <1>4, <1>5, DialV6Assumption DEF MsgInv
<1>10. WireInv' /\ RelayTransparent' /\ GrantedInv'
  BY <1>1, ReadKept
<1>11. LeaseComplete' /\ PanicsOnlyOnOmission'
  BY <1>1, <1>2, LeaseKept, PanicKept
<1> QED  BY <1>7, <1>8, <1>9, <1>10, <1>11 DEF DialInv

\* The answer that ends the dial, with a lease or without.
LEMMA ReplyInv ==
  ASSUME DialInv, NEW m \in Answers, Receive(m), Matches(m), End, UNCHANGED proc,
         \/ leases' = leases
         \/ leases' = leases \cup {m} /\ CheckOk(m) /\ m.type # "Advertise"
  PROVE  DialInv'
<1>1. /\ ClientRead(m) /\ UNCHANGED <<need, dial, granted, proc, asked>>
      /\ pc' = "idle" /\ msg' = <<>> /\ tries' = 0
  BY DEF Receive, End
<1>2. /\ m \in Answer
      /\ UNCHANGED <<relayed, up, accessPc, networkPc, wire>>
      /\ down' \in Seq(Answer) /\ Len(down') <= PairDepth
  BY <1>1, ClientReads
<1>3. DialV6TypeOK'
  <2>1. <<>> \in Seq(Question) /\ Len(<<>>) = 0
    BY EmptyQueue
  <2>2. leases' \subseteq Answer
    BY <1>2 DEF DialInv, DialV6TypeOK
  <2> QED  BY <1>1, <1>2, <2>1, <2>2, DialV6Assumption DEF DialInv, DialV6TypeOK
<1>4. LeaseComplete'
  <2>1. CASE leases' = leases
    BY <1>1, <2>1, LeaseKept
  <2>2. CASE leases' = leases \cup {m} /\ CheckOk(m) /\ m.type # "Advertise"
    <3>1. m.type = "Reply"
      BY <1>2, <2>2 DEF Answer
    <3>2. m \in granted
      BY <3>1 DEF DialInv, GrantedInv
    <3>3. \A i \in need : m.ia[i] = "assigned"
      BY <2>2, NeedIsIA DEF CheckOk, Satisfies
    <3> QED  BY <1>1, <2>2, <3>2, <3>3 DEF DialInv, LeaseComplete
  <2> QED  BY <2>1, <2>2
<1>5. MsgInv'
  BY <1>1 DEF MsgInv
<1>6. WireInv' /\ RelayTransparent' /\ GrantedInv'
  BY <1>1, ReadKept
<1>7. AskedInv' /\ PanicsOnlyOnOmission'
  BY <1>1, <1>2, AskedKept, PanicKept
<1> QED  BY <1>3, <1>4, <1>5, <1>6, <1>7 DEF DialInv

\* The answer is dropped, or the client panics on it.
LEMMA DropInv ==
  ASSUME DialInv, NEW m \in Answers, Receive(m),
         UNCHANGED <<pc, tries, msg, asked, leases>>,
         \/ UNCHANGED proc
         \/ Matches(m) /\ CheckPanics(m) /\ proc' = "panicked"
  PROVE  DialInv'
<1>1. ClientRead(m) /\ UNCHANGED <<need, dial, granted>>
  BY DEF Receive
<1>2. /\ m \in Answer /\ Answers' = Answers
      /\ UNCHANGED <<relayed, up, accessPc, networkPc, wire>>
      /\ down' \in Seq(Answer) /\ Len(down') <= PairDepth
  BY <1>1, ClientReads
<1>3. DialV6TypeOK'
  BY <1>1, <1>2, DialV6Assumption DEF DialInv, DialV6TypeOK
<1>4. PanicsOnlyOnOmission'
  <2>1. CASE UNCHANGED proc
    BY <1>1, <1>2, <2>1, PanicKept
  <2>2. CASE Matches(m) /\ CheckPanics(m)
    <3>1. msg[1] \in asked /\ msg[1].xid = m.xid
      BY <2>2 DEF Matches, DialInv, MsgInv
    <3>2. PICK i \in need : m.ia[i] = "absent"
      BY <2>2 DEF CheckPanics
    <3>3. i \in IA /\ msg[1].ia[i] # "absent"
      BY <3>1, NeedIsIA DEF DialInv, AskedInv
    <3>4. Omits(m)
      BY <3>1, <3>2, <3>3 DEF Omits
    <3>5. Omits(m)'
      BY <3>4 DEF Omits
    <3> QED  BY <1>2, <3>5 DEF PanicsOnlyOnOmission
  <2> QED  BY <2>1, <2>2
<1>5. MsgInv'
  BY <1>1 DEF DialInv, MsgInv
<1>6. WireInv' /\ RelayTransparent' /\ GrantedInv'
  BY ReadKept
<1>7. AskedInv' /\ LeaseComplete'
  BY <1>1, AskedKept, LeaseKept
<1> QED  BY <1>3, <1>4, <1>5, <1>6, <1>7 DEF DialInv

\* What becomes of an answer.
LEMMA ReceiveEffect ==
  ASSUME NEW m, Receive(m)
  PROVE  \/ /\ UNCHANGED <<pc, tries, msg, asked, leases>>
            /\ UNCHANGED proc \/ (Matches(m) /\ CheckPanics(m) /\ proc' = "panicked")
         \/ /\ Matches(m) /\ CheckOk(m) /\ m.type = "Advertise"
            /\ Begin(NewRequestFromAdv(m)) /\ UNCHANGED <<leases, proc>>
         \/ /\ Matches(m) /\ End /\ UNCHANGED proc
            /\ \/ leases' = leases
               \/ leases' = leases \cup {m} /\ CheckOk(m) /\ m.type # "Advertise"
<1>1. CASE ~Matches(m)
  BY <1>1 DEF Receive
<1>2. CASE Matches(m) /\ CheckPanics(m)
  BY <1>2 DEF Receive, Take
<1>3. CASE Matches(m) /\ ~CheckPanics(m)
  BY <1>3 DEF Receive, Take
<1> QED  BY <1>1, <1>2, <1>3

LEMMA ReceiveInv == ASSUME DialInv, NEW m \in Answers, Receive(m) PROVE DialInv'
BY ReceiveEffect, DropInv, AdvertiseInv, ReplyInv

\* Steps of the agent and of the servers keep what is the client's own.
LEMMA ClientKept ==
  ASSUME DialInv, UNCHANGED <<need, pc, dial, tries, msg, asked, leases>>,
         granted \subseteq granted'
  PROVE  AskedInv' /\ MsgInv' /\ LeaseComplete'
<1>1. MsgInv'
  BY DEF DialInv, MsgInv
<1> QED  BY <1>1, AskedKept, LeaseKept

\* recvAccess takes a message from the pair, and forwards it or gives up.
LEMMA AccessInv ==
  ASSUME DialInv, RecvAccess \/ RecvAccessAborts, UNCHANGED dialVars
  PROVE  DialInv'
<1> DEFINE q == Head(up)
<1>1. /\ up # <<>> /\ up' = Tail(up)
      /\ UNCHANGED <<relayed, down, networkPc>>
      /\ UNCHANGED <<need, pc, dial, tries, msg, proc, asked, granted, leases>>
      /\ accessPc' \in {accessPc, "stopped"}
      /\ UNCHANGED wire \/ wire' = wire \cup {Forward(q)}
  BY DEF RecvAccess, RecvAccessAborts, dialVars
<1>2. /\ up \in Seq(Question) /\ Len(up) <= PairDepth
      /\ \A k \in DOMAIN up : up[k] \in asked
      /\ asked \subseteq Question
  BY DEF DialInv, DialV6TypeOK, RelayTransparent
<1>3. /\ q \in asked
      /\ up' \in Seq(Question) /\ Len(up') <= PairDepth
      /\ \A k \in DOMAIN up' : up'[k] \in asked'
  <2>1. /\ Tail(up) \in Seq(Question) /\ Len(Tail(up)) = Len(up) - 1 /\ Len(up) \in Nat
        /\ \E j \in DOMAIN up : q = up[j]
        /\ \A k \in DOMAIN Tail(up) : \E j \in DOMAIN up : Tail(up)[k] = up[j]
    BY <1>1, <1>2, Dequeued
  <2>2. q \in asked /\ \A k \in DOMAIN Tail(up) : Tail(up)[k] \in asked
    BY <1>2, <2>1
  <2>3. Len(Tail(up)) <= PairDepth
    BY <1>2, <2>1, RelayAssumption
  <2> QED  BY <1>1, <2>1, <2>2, <2>3
<1> HIDE DEF q
<1>4. DialV6TypeOK'
  BY <1>1, <1>3 DEF DialInv, DialV6TypeOK
<1>5. Answers' = Answers
  <2>1. CASE UNCHANGED wire
    BY <2>1 DEF Answers
  <2>2. CASE wire' = wire \cup {Forward(q)}
    BY <1>2, <1>3, <2>2, QuestionCarried DEF Forward
  <2> QED  BY <1>1, <2>1, <2>2
<1>6. WireInv'
  BY <1>1, <1>3, WireKept
<1>7. \A k \in DOMAIN down' : down'[k] \in Answers'
  BY <1>1, <1>5 DEF DialInv, RelayTransparent
<1>8. RelayTransparent' /\ GrantedInv'
  BY <1>1, <1>3, <1>5, <1>6, <1>7, TransparentKept, GrantedKept
<1>9. AskedInv' /\ MsgInv' /\ LeaseComplete' /\ PanicsOnlyOnOmission'
  BY <1>1, ClientKept, PanicKept
<1> QED  BY <1>4, <1>6, <1>8, <1>9 DEF DialInv

\* What is in a relay reply a server has sent.
LEMMA ReplyCarries ==
  ASSUME DialInv, NEW p \in wire, p.type = "RelayReply", p.payload # <<>>
  PROVE  \E a \in Answers : a \in Answer /\ p.payload = <<a>>
<1>1. p # HollowReply
  BY DEF HollowReply
<1>2. \A q : p # Forward(q)
  BY DEF Forward, Packet
<1>3. PICK a \in Answers : a \in Answer /\ p = Return(a)
  BY <1>1, <1>2 DEF DialInv, WireInv
<1> QED  BY <1>3 DEF Return, Packet

\* recvNetwork passes a relay reply on, or gives up.
LEMMA NetworkInv ==
  ASSUME DialInv, (\E p \in wire : RecvNetwork(p)) \/ RecvNetworkAborts, UNCHANGED dialVars
  PROVE  DialInv'
<1>1. /\ UNCHANGED <<relayed, up, accessPc, wire>>
      /\ UNCHANGED <<need, pc, dial, tries, msg, proc, asked, granted, leases>>
      /\ networkPc' \in {networkPc, "stopped"}
  BY DEF RecvNetwork, RecvNetworkAborts, dialVars
<1>2. /\ down \in Seq(Answer) /\ Len(down) <= PairDepth
      /\ \A k \in DOMAIN down : down[k] \in Answers
      /\ \A k \in DOMAIN up : up[k] \in asked
  BY DEF DialInv, DialV6TypeOK, RelayTransparent
<1>3. /\ down' \in Seq(Answer) /\ Len(down') <= PairDepth
      /\ \A k \in DOMAIN down' : down'[k] \in Answers
  <2>1. CASE RecvNetworkAborts
    BY <1>2, <2>1 DEF RecvNetworkAborts
  <2>2. CASE \E p \in wire : RecvNetwork(p)
    <3>1. PICK p \in wire : RecvNetwork(p)
      BY <2>2
    <3>2. PICK a \in Answers : a \in Answer /\ p.payload = <<a>>
      BY <3>1, ReplyCarries DEF RecvNetwork
    <3>3. /\ Append(down, a) \in Seq(Answer)
          /\ Len(Append(down, a)) = Len(down) + 1 /\ Len(down) \in Nat
          /\ down \o <<a>> = Append(down, a)
          /\ \A k \in DOMAIN Append(down, a) :
               Append(down, a)[k] = a \/ \E j \in DOMAIN down : Append(down, a)[k] = down[j]
      BY <1>2, <3>2, Queued
    <3>4. down' = Append(down, a) /\ Len(down) < PairDepth
      BY <3>1, <3>2, <3>3 DEF RecvNetwork
    <3>5. Len(Append(down, a)) <= PairDepth
      BY <3>3, <3>4, RelayAssumption
    <3>6. \A k \in DOMAIN Append(down, a) : Append(down, a)[k] \in Answers
      BY <1>2, <3>2, <3>3
    <3> QED  BY <3>3, <3>4, <3>5, <3>6
  <2> QED  BY <2>1, <2>2
<1>4. DialV6TypeOK'
  BY <1>1, <1>3 DEF DialInv, DialV6TypeOK
<1>5. Answers' = Answers
  BY <1>1 DEF Answers
<1>6. WireInv'
  BY <1>1, WireKept
<1>7. RelayTransparent' /\ GrantedInv'
  BY <1>1, <1>2, <1>3, <1>5, <1>6, TransparentKept, GrantedKept
<1>8. AskedInv' /\ MsgInv' /\ LeaseComplete' /\ PanicsOnlyOnOmission'
  BY <1>1, ClientKept, PanicKept
<1> QED  BY <1>4, <1>6, <1>7, <1>8 DEF DialInv

LEMMA RelayPanicsInv == ASSUME DialInv, RelayPanics PROVE DialInv'
<1>1. /\ UNCHANGED <<relayVars, need, pc, dial, tries, msg, asked, granted, leases>>
      /\ proc' = "panicked" /\ HollowReply \in wire
  BY DEF RelayPanics, HollowReplyRead
<1>2. DialV6TypeOK'
  BY <1>1 DEF DialInv, DialV6TypeOK, relayVars
<1>3. PanicsOnlyOnOmission'
  BY <1>1 DEF PanicsOnlyOnOmission, relayVars
<1>4. WireInv' /\ RelayTransparent' /\ GrantedInv'
  BY <1>1, NetKept DEF relayVars
<1>5. AskedInv' /\ MsgInv' /\ LeaseComplete'
  BY <1>1, ClientKept
<1> QED  BY <1>2, <1>3, <1>4, <1>5 DEF DialInv

\* A step of the servers: a packet more on the network.
LEMMA ServerKept ==
  ASSUME DialInv,
         UNCHANGED <<relayed, up, down, accessPc, networkPc>>,
         UNCHANGED <<need, pc, dial, tries, msg, proc, asked, leases>>,
         wire \subseteq wire', granted \subseteq granted', granted' \subseteq Answer,
         WireInv', GrantedInv'
  PROVE  DialInv'
<1>1. DialV6TypeOK'
  BY DEF DialInv, DialV6TypeOK
<1>2. Answers \subseteq Answers'
  BY AnswersKept
<1>3. RelayTransparent'
  <2>1. /\ \A k \in DOMAIN up' : up'[k] \in asked'
        /\ \A k \in DOMAIN down' : down'[k] \in Answers'
    BY <1>2 DEF DialInv, RelayTransparent
  <2> QED  BY <2>1, TransparentKept
<1>4. AskedInv' /\ MsgInv' /\ LeaseComplete' /\ PanicsOnlyOnOmission'
  BY ClientKept, PanicKept
<1> QED  BY <1>1, <1>3, <1>4 DEF DialInv

\* What a server has done when it has answered.
LEMMA AnswerGiven ==
  ASSUME DialInv, NEW s \in Server, ServerAnswers(s)
  PROVE  \E a \in Answer, q \in asked :
           /\ wire' = wire \cup {Return(a)}
           /\ granted' = IF a.type = "Reply" THEN granted \cup {a} ELSE granted
           /\ a.sid = s /\ a.xid = q.xid /\ a.type = AnswerType(q)
           /\ Addressed(q, s)
<1>1. PICK q \in Questions, ia \in [IA -> Content] :
        LET a == [type |-> AnswerType(q), xid |-> q.xid, sid |-> s, ia |-> ia]
        IN  /\ Addressed(q, s)
            /\ wire' = wire \cup {Return(a)}
            /\ granted' = IF a.type = "Reply" THEN granted \cup {a} ELSE granted
  BY DEF ServerAnswers
<1> DEFINE a == [type |-> AnswerType(q), xid |-> q.xid, sid |-> s, ia |-> ia]
<1>2. q \in asked /\ q \in Question
  BY DEF Questions, DialInv, DialV6TypeOK
<1>3. a \in Answer
  BY <1>2 DEF AnswerType, Answer, Question
<1> QED  BY <1>1, <1>2, <1>3

LEMMA AnswersInv == ASSUME DialInv, NEW s \in Server, ServerAnswers(s) PROVE DialInv'
<1>1. /\ UNCHANGED <<relayed, up, down, accessPc, networkPc>>
      /\ UNCHANGED <<need, pc, dial, tries, msg, proc, asked, leases>>
  BY DEF ServerAnswers
<1>2. PICK a \in Answer, q \in asked :
        /\ wire' = wire \cup {Return(a)}
        /\ granted' = IF a.type = "Reply" THEN granted \cup {a} ELSE granted
        /\ a.sid = s /\ a.xid = q.xid /\ a.type = AnswerType(q)
        /\ Addressed(q, s)
  BY AnswerGiven
<1>3. Answers' = Answers \cup {a}
  BY <1>2, AnswerCarried
<1>4. WireInv'
  BY <1>1, <1>2, <1>3, WireKept
<1>5. a.type = "Reply" => q.type = "Request" /\ q.sid = a.sid
  <2>1. ASSUME a.type = "Reply"
        PROVE  q.type = "Request" /\ q.sid \in Server
    <3>1. q.type # "Solicit"
      BY <1>2, <2>1 DEF AnswerType
    <3> QED  BY <3>1 DEF DialInv, AskedInv
  <2> QED  BY <1>2, <2>1, DialV6Assumption DEF Addressed
<1>6. GrantedInv'
  <2>1. \A b \in Answers' : b.type = "Reply" => b \in granted'
    BY <1>2, <1>3 DEF DialInv, GrantedInv
  <2>2. ASSUME NEW r \in granted'
        PROVE  /\ r.type = "Reply"
               /\ \E t \in asked' : t.type = "Request" /\ t.xid = r.xid /\ t.sid = r.sid
    <3>1. CASE r \in granted
      BY <1>1, <3>1 DEF DialInv, GrantedInv
    <3>2. CASE r = a /\ a.type = "Reply"
      BY <1>1, <1>2, <1>5, <3>2
    <3> QED  BY <1>2, <3>1, <3>2
  <2> QED  BY <2>1, <2>2 DEF GrantedInv
<1>7. /\ wire \subseteq wire' /\ granted \subseteq granted'
      /\ granted' \subseteq Answer
  BY <1>2 DEF DialInv, DialV6TypeOK
<1> QED  BY <1>1, <1>4, <1>6, <1>7, ServerKept

LEMMA ForgetsInv == ASSUME DialInv, ServerForgetsMessage PROVE DialInv'
<1>1. /\ UNCHANGED <<relayed, up, down, accessPc, networkPc>>
      /\ UNCHANGED <<need, pc, dial, tries, msg, proc, asked, granted, leases>>
      /\ relayed /\ wire' = wire \cup {HollowReply}
  BY DEF ServerForgetsMessage
<1>2. Answers' = Answers
  BY <1>1, HollowCarried
<1>3. WireInv'
  BY <1>1, WireKept
<1>4. GrantedInv'
  BY <1>1, <1>2, GrantedKept
<1>5. granted' \subseteq Answer
  BY <1>1 DEF DialInv, DialV6TypeOK
<1> QED  BY <1>1, <1>3, <1>4, <1>5, ServerKept

LEMMA StutterInv == ASSUME DialInv, UNCHANGED vars PROVE DialInv'
<1>1. /\ UNCHANGED <<relayed, up, down, accessPc, networkPc, wire>>
      /\ UNCHANGED <<need, pc, dial, tries, msg, proc, asked, granted, leases>>
  BY DEF vars, relayVars, dialVars
<1>2. WireInv' /\ GrantedInv'
  BY <1>1, NetKept
<1>3. granted' \subseteq Answer
  BY <1>1 DEF DialInv, DialV6TypeOK
<1> QED  BY <1>1, <1>2, <1>3, ServerKept

LEMMA NextInv == DialInv /\ [DialV6Next]_vars => DialInv'
<1> SUFFICES ASSUME DialInv, [DialV6Next]_vars PROVE DialInv'
  OBVIOUS
<1>1. CASE UNCHANGED vars
  BY <1>1, StutterInv
<1>2. CASE Dialv6
  BY <1>2, StartInv, SendInv, RetryInv, ReceiveInv DEF Dialv6
<1>3. CASE Relaying
  BY <1>3, AccessInv, NetworkInv DEF Relaying, RelayAgent
<1>4. CASE RelayPanics
  BY <1>4, RelayPanicsInv
<1>5. CASE \E s \in Server : ServerAnswers(s)
  BY <1>5, AnswersInv
<1>6. CASE ServerForgetsMessage
  BY <1>6, ForgetsInv
<1> QED  BY <1>1, <1>2, <1>3, <1>4, <1>5, <1>6 DEF DialV6Next, Step

\* Every reachable state of the dial satisfies the invariant.
THEOREM DialInvariance == Spec => []DialInv
<1>1. DialV6Init => DialInv
  BY InitInv
<1>2. DialInv /\ [DialV6Next]_vars => DialInv'
  BY NextInv
<1> QED  BY <1>1, <1>2, PTL DEF Spec

\* The types of the dial: the pair never holds more than it can.
THEOREM DialTypeCorrect == Spec => []DialV6TypeOK
<1>1. DialInv => DialV6TypeOK
  BY DEF DialInv
<1> QED  BY <1>1, DialInvariance, PTL

\* Leases are complete, and committed by their server (sched.go:408-421, 452-455).
THEOREM LeasesComplete == Spec => []LeaseComplete
<1>1. DialInv => LeaseComplete
  BY DEF DialInv
<1> QED  BY <1>1, DialInvariance, PTL

\* Only a server's omission crashes the process (sched.go:411-417, relay.go:186).
THEOREM OmissionPanics == Spec => []PanicsOnlyOnOmission
<1>1. DialInv => PanicsOnlyOnOmission
  BY DEF DialInv
<1> QED  BY <1>1, DialInvariance, PTL

\* The relay agent changes and invents nothing (relay.go:143-153, 186).
THEOREM AgentTransparent == Spec => []RelayTransparent
<1>1. DialInv => RelayTransparent
  BY DEF DialInv
<1> QED  BY <1>1, DialInvariance, PTL

-----------------------------------------------------------------------------
(* The refinement of LeaseExchange.                                        *)

\* A dial has turned to the server its Request names.
ChosenByRequest ==
  /\ Chosen = [d \in 1..MaxDials |-> Chosen[d]]
  /\ \A d \in 1..MaxDials :
       /\ \A q \in asked : q.xid = RequestId(d) => Chosen[d] = q.sid
       /\ (\A q \in asked : q.xid # RequestId(d)) => Chosen[d] = NoServer

LEMMA ChosenIs == AskedInv => ChosenByRequest
<1> SUFFICES ASSUME AskedInv, NEW d \in 1..MaxDials
             PROVE  /\ \A q \in asked : q.xid = RequestId(d) => Chosen[d] = q.sid
                    /\ (\A q \in asked : q.xid # RequestId(d)) => Chosen[d] = NoServer
  BY DEF ChosenByRequest, Chosen
<1>1. Chosen[d] = IF \E q \in asked : q.xid = RequestId(d)
                  THEN (CHOOSE q \in asked : q.xid = RequestId(d)).sid
                  ELSE NoServer
  BY DEF Chosen
<1>2. ASSUME NEW q \in asked, q.xid = RequestId(d)
      PROVE  Chosen[d] = q.sid
  <2> DEFINE r == CHOOSE r \in asked : r.xid = RequestId(d)
  <2>1. r \in asked /\ r.xid = RequestId(d)
    BY <1>2
  <2> HIDE DEF r
  <2>2. r = q
    BY <1>2, <2>1 DEF AskedInv
  <2> QED  BY <1>1, <1>2, <2>2 DEF r
<1> QED  BY <1>1, <1>2

LEMMA ChosenIsNext == AskedInv' => ChosenByRequest'
BY ChosenIs, PTL

LEMMA ChosenStays ==
  ASSUME DialInv, AskedInv', asked \subseteq asked',
         \A q \in asked', d \in 1..MaxDials : q.xid = RequestId(d) => q \in asked
  PROVE  Chosen' = Chosen
<1>1. ChosenByRequest /\ ChosenByRequest'
  BY ChosenIs, ChosenIsNext DEF DialInv
<1>2. ASSUME NEW d \in 1..MaxDials PROVE Chosen'[d] = Chosen[d]
  <2>1. RequestId(d)' = RequestId(d)
    BY DEF RequestId
  <2>2. CASE \E q \in asked : q.xid = RequestId(d)
    <3>1. PICK q \in asked : q.xid = RequestId(d)
      BY <2>2
    <3> QED  BY <1>1, <2>1, <3>1 DEF ChosenByRequest
  <2>3. CASE \A q \in asked : q.xid # RequestId(d)
    BY <1>1, <2>1, <2>3 DEF ChosenByRequest
  <2> QED  BY <2>2, <2>3
<1> QED  BY <1>1, <1>2 DEF ChosenByRequest

\* Taking an Advertise chooses its server.
LEMMA AdvertiseChooses ==
  ASSUME DialInv, DialInv', NEW m \in Answers, Receive(m), Matches(m),
         m.type = "Advertise", Begin(NewRequestFromAdv(m)), UNCHANGED leases
  PROVE  \E d \in 1..MaxDials, s \in Server : Exchange!Choose(d, s)
<1> DEFINE q == NewRequestFromAdv(m)
<1>1. asked' = asked \cup {q} /\ granted' = granted /\ leases' = leases
  BY DEF Receive, Begin
<1>2. m \in Answer /\ dial \in 0..MaxDials /\ MaxDials \in Nat
  BY ClientReads, DialV6Assumption DEF Receive, DialInv, DialV6TypeOK
<1>3. /\ q.xid = RequestId(dial) /\ q.sid = m.sid /\ m.sid \in Server
  BY <1>2, RequestBuilt
<1> HIDE DEF q
<1>4. /\ dial \in 1..MaxDials
      /\ \A r \in asked : r.xid # RequestId(dial)
  <2>1. pc = "wait" /\ msg[1].type = "Solicit"
    BY DEF Matches, Expected
  <2> QED  BY <1>2, <2>1 DEF DialInv, MsgInv
<1>5. ChosenByRequest /\ ChosenByRequest'
  BY ChosenIs, ChosenIsNext DEF DialInv
<1>6. \A d \in 1..MaxDials : RequestId(d)' = RequestId(d)
  BY DEF RequestId
<1>7. Chosen[dial] = NoServer /\ Chosen'[dial] = m.sid
  <2>1. \A r \in asked' : r.xid = RequestId(dial) => Chosen'[dial] = r.sid
    BY <1>4, <1>5, <1>6 DEF ChosenByRequest
  <2>2. Chosen'[dial] = m.sid
    BY <1>1, <1>3, <2>1
  <2>3. Chosen[dial] = NoServer
    BY <1>4, <1>5 DEF ChosenByRequest
  <2> QED  BY <2>2, <2>3
<1>8. ASSUME NEW d \in 1..MaxDials, d # dial PROVE Chosen'[d] = Chosen[d]
  <2>1. q.xid # RequestId(d)
    BY <1>2, <1>3, <1>8, MessageIds
  <2>2. CASE \E r \in asked : r.xid = RequestId(d)
    <3>1. PICK r \in asked : r.xid = RequestId(d)
      BY <2>2
    <3> QED  BY <1>1, <1>5, <1>6, <3>1 DEF ChosenByRequest
  <2>3. CASE \A r \in asked : r.xid # RequestId(d)
    BY <1>1, <1>5, <1>6, <2>1, <2>3 DEF ChosenByRequest
  <2> QED  BY <2>2, <2>3
<1>9. Chosen' = [Chosen EXCEPT ![dial] = m.sid]
  BY <1>4, <1>5, <1>7, <1>8 DEF ChosenByRequest
<1>10. Granted' = Granted /\ Bound' = Bound
  BY <1>1 DEF Granted, Bound, RequestId
<1> QED  BY <1>3, <1>4, <1>7, <1>9, <1>10 DEF Exchange!Choose

\* A Reply a server sends grants the lease of a dial that has chosen it.
LEMMA ReplyGrants ==
  ASSUME DialInv, DialInv', NEW a \in Answer, a.type = "Reply",
         granted' = granted \cup {a}, UNCHANGED <<asked, leases>>
  PROVE  \E d \in 1..MaxDials : Exchange!Grant(d)
<1>1. PICK q \in asked : q.type = "Request" /\ q.xid = a.xid /\ q.sid = a.sid
  BY DEF DialInv, GrantedInv
<1>2. PICK d \in 1..dial : q.xid = RequestId(d) /\ q.sid \in Server
  BY <1>1 DEF DialInv, AskedInv
<1>3. d \in 1..MaxDials /\ MaxDials \in Nat
  BY DialV6Assumption DEF DialInv, DialV6TypeOK
<1>4. Chosen[d] = a.sid /\ a.sid # NoServer /\ a.sid \in Server
  BY <1>1, <1>2, <1>3, ChosenIs, DialV6Assumption DEF DialInv, ChosenByRequest
<1>5. Chosen' = Chosen /\ Bound' = Bound
  BY DEF Chosen, Bound, RequestId
<1>6. Granted' = Granted \cup {<<d, a.sid>>}
  <2>1. ASSUME NEW e \in 1..MaxDials, NEW s \in Server
        PROVE  <<e, s>> \in Granted' <=> <<e, s>> \in Granted \/ (e = d /\ s = a.sid)
    <3>1. a.xid = RequestId(e) <=> e = d
      BY <1>1, <1>2, <1>3, MessageIds
    <3> QED  BY <2>1, <3>1 DEF Granted, RequestId
  <2>2. /\ Granted \subseteq (1..MaxDials) \X Server
        /\ Granted' \subseteq (1..MaxDials) \X Server
    BY DEF Granted
  <2> QED  BY <1>3, <1>4, <2>1, <2>2
<1> QED  BY <1>3, <1>4, <1>5, <1>6 DEF Exchange!Grant

\* A Reply that makes a lease is that of the server the dial has chosen.
LEMMA LeaseBinds ==
  ASSUME DialInv, NEW m \in Answers, Receive(m), Matches(m), m.type # "Advertise",
         leases' = leases \cup {m}, UNCHANGED asked
  PROVE  \E d \in 1..MaxDials : Exchange!Bind(d)
<1>1. granted' = granted /\ m \in Answer /\ m.type = "Reply"
  BY ClientReads DEF Receive, Answer
<1>2. m.xid = RequestId(dial) /\ dial \in 1..MaxDials /\ MaxDials \in Nat
  <2>1. pc = "wait" /\ msg[1].type # "Solicit" /\ m.xid = msg[1].xid
    BY <1>1 DEF Matches, Expected
  <2>2. dial \in 0..MaxDials /\ MaxDials \in Nat
    BY DialV6Assumption DEF DialInv, DialV6TypeOK
  <2> QED  BY <2>1, <2>2 DEF DialInv, MsgInv
<1>3. m \in granted
  BY <1>1 DEF DialInv, GrantedInv
<1>4. PICK q \in asked : q.xid = m.xid /\ q.sid = m.sid
  BY <1>3 DEF DialInv, GrantedInv
<1>5. Chosen[dial] = m.sid /\ m.sid \in Server
  BY <1>1, <1>2, <1>4, ChosenIs DEF DialInv, ChosenByRequest, Answer
<1>6. <<dial, Chosen[dial]>> \in Granted
  BY <1>2, <1>3, <1>5 DEF Granted
<1>7. Chosen' = Chosen /\ Granted' = Granted
  BY <1>1 DEF Chosen, Granted, RequestId
<1>8. Bound' = Bound \cup {dial}
  <2>1. ASSUME NEW d \in 1..MaxDials
        PROVE  d \in Bound' <=> d \in Bound \/ d = dial
    <3>1. m.xid = RequestId(d) <=> d = dial
      BY <1>2, MessageIds
    <3> QED  BY <3>1 DEF Bound, RequestId
  <2> QED  BY <1>2, <2>1 DEF Bound
<1> QED  BY <1>2, <1>6, <1>7, <1>8 DEF Exchange!Bind

LEMMA OthersStutter ==
  ASSUME UNCHANGED <<asked, granted, leases>>
  PROVE  UNCHANGED Exchange!vars
BY DEF Exchange!vars, Chosen, Granted, Bound, RequestId

LEMMA StartStutters ==
  ASSUME DialInv, DialInv', StartDial
  PROVE  UNCHANGED Exchange!vars
<1>1. /\ asked' = asked \cup {BuildSolicit(dial + 1)}
      /\ UNCHANGED <<granted, leases>>
      /\ dial \in Nat
  BY DialV6Assumption DEF StartDial, Begin, DialInv, DialV6TypeOK
<1>2. BuildSolicit(dial + 1).xid = SolicitId(dial + 1)
  BY DEF BuildSolicit
<1>3. \A d \in 1..MaxDials : BuildSolicit(dial + 1).xid # RequestId(d)
  BY <1>1, <1>2, MessageIds
<1>4. Chosen' = Chosen
  BY <1>1, <1>3, ChosenStays DEF DialInv
<1>5. Granted' = Granted /\ Bound' = Bound
  BY <1>1 DEF Granted, Bound, RequestId
<1> QED  BY <1>4, <1>5 DEF Exchange!vars

LEMMA StepRefines ==
  DialInv /\ DialInv' /\ [DialV6Next]_vars => [Exchange!Next]_(Exchange!vars)
<1> SUFFICES ASSUME DialInv, DialInv', [DialV6Next]_vars
             PROVE  Exchange!Next \/ UNCHANGED Exchange!vars
  OBVIOUS
<1>1. CASE UNCHANGED <<asked, granted, leases>>
  BY <1>1, OthersStutter
<1>2. CASE UNCHANGED vars
  BY <1>1, <1>2 DEF vars, dialVars
<1>3. CASE StartDial
  BY <1>3, StartStutters
<1>4. ASSUME NEW m \in Answers, Receive(m)
      PROVE  Exchange!Next \/ UNCHANGED Exchange!vars
  <2>1. UNCHANGED granted
    BY <1>4 DEF Receive
  <2>2. CASE UNCHANGED <<asked, leases>>
    BY <1>1, <2>1, <2>2
  <2>3. CASE /\ Matches(m) /\ m.type = "Advertise"
             /\ Begin(NewRequestFromAdv(m)) /\ UNCHANGED leases
    BY <1>4, <2>3, AdvertiseChooses DEF Exchange!Next
  <2>4. CASE /\ Matches(m) /\ UNCHANGED asked
             /\ leases' = leases \cup {m} /\ m.type # "Advertise"
    BY <1>4, <2>4, LeaseBinds DEF Exchange!Next
  <2> QED  BY <1>4, <2>2, <2>3, <2>4, ReceiveEffect DEF End
<1>5. ASSUME NEW s \in Server, ServerAnswers(s)
      PROVE  Exchange!Next \/ UNCHANGED Exchange!vars
  <2>1. UNCHANGED <<asked, leases>>
    BY <1>5 DEF ServerAnswers
  <2>2. PICK a \in Answer :
          granted' = IF a.type = "Reply" THEN granted \cup {a} ELSE granted
    BY <1>5, AnswerGiven
  <2>3. CASE a.type = "Reply"
    BY <2>1, <2>2, <2>3, ReplyGrants DEF Exchange!Next
  <2>4. CASE a.type # "Reply"
    BY <1>1, <2>1, <2>2, <2>4
  <2> QED  BY <2>3, <2>4
<1>6. CASE Send \/ SendFails \/ Timeout
  BY <1>1, <1>6 DEF Send, SendFails, Timeout, End
<1>7. CASE Relaying \/ RelayPanics \/ ServerForgetsMessage
  BY <1>1, <1>7 DEF Relaying, RelayPanics, ServerForgetsMessage, dialVars
<1> QED
  BY <1>2, <1>3, <1>4, <1>5, <1>6, <1>7 DEF DialV6Next, Step, Dialv6

\* A dial turns to one server, only that one commits a lease for it, and its
\* lease was committed for it, whatever the network does (sched.go:436-480).
THEOREM DialRefinement == Spec => ImplementsLeaseExchange
<1>1. DialV6Init => Exchange!Init
  BY DEF DialV6Init, Exchange!Init, Chosen, Granted, Bound
<1>2. DialInv /\ DialInv' /\ [DialV6Next]_vars => [Exchange!Next]_(Exchange!vars)
  BY StepRefines
<1> QED
  BY <1>1, <1>2, DialInvariance, PTL DEF Spec, ImplementsLeaseExchange, Exchange!Spec

=============================================================================
