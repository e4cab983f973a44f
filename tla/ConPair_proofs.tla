--------------------------- MODULE ConPair_proofs ---------------------------
(***************************************************************************)
(* The packet pair for every set of packets and every capacity: its safety *)
(* properties, and that it implements PacketQueue.                         *)
(***************************************************************************)
EXTENDS ConPair, SequenceTheorems, TLAPS

\* A waiting writer has its packet in hand.
WritersHavePackets ==
  \A e \in End : pc[e]["write"] = "waiting" => pending[e] # <<>>

\* A channel is closed by its peer only.
ClosedByPeer == \A e \in End : closed[e] => Peer(e) \in closers

ConPairInv ==
  /\ ConPairTypeOK
  /\ WritersHavePackets
  /\ NoStaleTimeout
  /\ EndIsFinal
  /\ ClosedByPeer
  /\ PanicsOnlyAfterOwnClose

-----------------------------------------------------------------------------
LEMMA PeerEnd == \A e \in End : Peer(e) \in End /\ Peer(Peer(e)) = e
BY DEF Peer, End

LEMMA AppendedPacket ==
  ASSUME NEW q \in Seq(Packet), NEW p \in Packet
  PROVE  /\ q \o <<p>> \in Seq(Packet)
         /\ q \o <<p>> = Append(q, p)
         /\ Len(q \o <<p>>) = Len(q) + 1
         /\ q \o <<p>> # <<>>
<1>1. <<p>> \in Seq(Packet) /\ Len(<<p>>) = 1
  OBVIOUS
<1>2. q \o <<p>> \in Seq(Packet) /\ Len(q \o <<p>>) = Len(q) + 1
  BY <1>1, ConcatProperties
<1>3. q \o <<p>> = Append(q, p)
  BY AppendIsConcat
<1>4. Len(q) \in Nat /\ Len(<<>>) = 0
  BY LenProperties, EmptySeq
<1> QED  BY <1>2, <1>3, <1>4

LEMMA TakenPacket ==
  ASSUME NEW q \in Seq(Packet), q # <<>>
  PROVE  /\ Head(q) \in Packet
         /\ Tail(q) \in Seq(Packet)
         /\ Len(q) \in Nat
         /\ Len(Tail(q)) = Len(q) - 1
         /\ q = <<Head(q)>> \o Tail(q)
<1>1. Head(q) \in Packet /\ Tail(q) \in Seq(Packet) /\ Len(q) \in Nat
      /\ Len(Tail(q)) = Len(q) - 1
      /\ \A i \in 1..Len(Tail(q)) : Tail(q)[i] = q[i + 1]
  BY HeadTailProperties, LenProperties
<1>2. <<Head(q)>> \in Seq(Packet) /\ Len(<<Head(q)>>) = 1 /\ <<Head(q)>>[1] = Head(q)
  BY <1>1
<1>3. /\ <<Head(q)>> \o Tail(q) \in Seq(Packet)
      /\ Len(<<Head(q)>> \o Tail(q)) = Len(q)
      /\ \A i \in 1..Len(q) : (<<Head(q)>> \o Tail(q))[i] =
             IF i <= 1 THEN <<Head(q)>>[i] ELSE Tail(q)[i - 1]
  BY <1>1, <1>2, ConcatProperties
<1>4. ASSUME NEW i \in 1..Len(q)
      PROVE  q[i] = (<<Head(q)>> \o Tail(q))[i]
  <2>1. CASE i = 1
    BY <2>1, <1>2, <1>3
  <2>2. CASE i # 1
    BY <2>2, <1>1, <1>3
  <2> QED  BY <2>1, <2>2
<1>5. q = <<Head(q)>> \o Tail(q)
  BY <1>3, <1>4, SeqEqual
<1> QED  BY <1>1, <1>5

-----------------------------------------------------------------------------
(* The invariant.                                                          *)

LEMMA InitInv == Init => ConPairInv
<1> SUFFICES ASSUME Init PROVE ConPairInv
  OBVIOUS
<1>1. <<>> \in Seq(Packet) /\ Len(<<>>) = 0
  BY EmptySeq
<1>2. ConPairTypeOK
  BY <1>1, ConPairAssumption DEF Init, ConPairTypeOK
<1> QED
  BY <1>2 DEF Init, ConPairInv, WritersHavePackets, NoStaleTimeout, EndIsFinal,
    ClosedByPeer, PanicsOnlyAfterOwnClose, End, Op

\* A new value for one operation of one end.
LEMMA OneChanged ==
  ASSUME NEW S, NEW f \in [End -> [Op -> S]], NEW e \in End, NEW o \in Op, NEW v \in S
  PROVE  /\ [f EXCEPT ![e][o] = v] \in [End -> [Op -> S]]
         /\ \A d \in End, q \in Op :
              [f EXCEPT ![e][o] = v][d][q] = IF d = e /\ q = o THEN v ELSE f[d][q]
OBVIOUS

LEMMA GotoPc ==
  ASSUME ConPairTypeOK, NEW e \in End, NEW o \in Op,
         NEW l \in {"idle", "waiting", "stuck"}, Goto(e, o, l)
  PROVE  /\ pc' \in [End -> [Op -> {"idle", "waiting", "stuck"}]]
         /\ \A d \in End, q \in Op :
              pc'[d][q] = IF d = e /\ q = o THEN l ELSE pc[d][q]
<1>1. pc \in [End -> [Op -> {"idle", "waiting", "stuck"}]]
  BY DEF ConPairTypeOK
<1>2. pc' = [pc EXCEPT ![e][o] = l]
  BY DEF Goto
<1> QED  BY <1>1, <1>2, OneChanged

LEMMA TickChanged ==
  ASSUME ConPairTypeOK, NEW e \in End, NEW o \in Op, NEW b \in BOOLEAN,
         tick' = [tick EXCEPT ![e][o] = b]
  PROVE  /\ tick' \in [End -> [Op -> BOOLEAN]]
         /\ tick'[e][o] = b
         /\ \A d \in End, q \in Op : ~(d = e /\ q = o) => tick'[d][q] = tick[d][q]
<1>1. tick \in [End -> [Op -> BOOLEAN]]
  BY DEF ConPairTypeOK
<1>2. [tick EXCEPT ![e][o] = b] \in [End -> [Op -> BOOLEAN]]
  BY <1>1
<1>3. [tick EXCEPT ![e][o] = b][e][o] = b
  BY <1>1
<1>4. \A d \in End, q \in Op :
         ~(d = e /\ q = o) => [tick EXCEPT ![e][o] = b][d][q] = tick[d][q]
  BY <1>1
<1>5. tick' \in [End -> [Op -> BOOLEAN]]
  BY <1>2
<1>6. tick'[e][o] = b
  BY <1>3
<1>7. \A d \in End, q \in Op : ~(d = e /\ q = o) => tick'[d][q] = tick[d][q]
  BY <1>4
<1> QED  BY <1>5, <1>6, <1>7

LEMMA TickTaken ==
  ASSUME ConPairTypeOK, NEW e \in End, NEW o \in Op,
         tick' = [tick EXCEPT ![e][o] = FALSE]
  PROVE  /\ tick' \in [End -> [Op -> BOOLEAN]]
         /\ ~tick'[e][o]
         /\ \A d \in End, q \in Op : ~(d = e /\ q = o) => tick'[d][q] = tick[d][q]
<1>1. tick \in [End -> [Op -> BOOLEAN]]
  BY DEF ConPairTypeOK
<1>2. tick' \in [End -> [Op -> BOOLEAN]]
  BY <1>1
<1>3. ~tick'[e][o]
  <2>1. tick'[e][o] = FALSE
    BY <1>1
  <2> QED  BY <2>1
<1>4. \A d \in End, q \in Op : ~(d = e /\ q = o) => tick'[d][q] = tick[d][q]
  BY <1>1
<1> QED  BY <1>2, <1>3, <1>4

\* Steps of the timers leave the packets alone.
LEMMA DeadlineInv ==
  ASSUME ConPairInv, NEW e \in End, NEW o \in Op, SetDeadline(e, o) \/ Expire(e, o)
  PROVE  ConPairInv'
<1> USE DEF ConPairInv
<1>1. UNCHANGED <<ch, closed, pending, panicked, history>>
  BY DEF SetDeadline, Expire
<1>2. CASE UNCHANGED <<timer, tick>> /\ Goto(e, o, "stuck")
  <2>1. /\ pc' \in [End -> [Op -> {"idle", "waiting", "stuck"}]]
        /\ \A d \in End, q \in Op :
             pc'[d][q] = IF d = e /\ q = o THEN "stuck" ELSE pc[d][q]
    BY <1>2, GotoPc
  <2>2. ConPairTypeOK'
    BY <1>1, <1>2, <2>1 DEF ConPairTypeOK, history
  <2>3. WritersHavePackets'
    BY <1>1, <2>1 DEF WritersHavePackets, Op
  <2> QED
    BY <1>1, <1>2, <2>2, <2>3 DEF NoStaleTimeout, EndIsFinal, ClosedByPeer,
      PanicsOnlyAfterOwnClose, history
<1>3. ASSUME pc' = pc,
             timer' \in [End -> [Op -> {"never", "set", "off"}]],
             tick' \in [End -> [Op -> BOOLEAN]],
             tick'[e][o] => timer'[e][o] = "off",
             \A d \in End, q \in Op : ~(d = e /\ q = o) => timer'[d][q] = timer[d][q],
             \A d \in End, q \in Op : ~(d = e /\ q = o) => tick'[d][q] = tick[d][q]
      PROVE  ConPairInv'
  <2>1. ConPairTypeOK'
    BY <1>1, <1>3 DEF ConPairTypeOK, history
  <2>2. NoStaleTimeout'
    BY <1>3 DEF NoStaleTimeout
  <2> QED
    BY <1>1, <1>3, <2>1, <2>2 DEF WritersHavePackets, EndIsFinal, ClosedByPeer,
      PanicsOnlyAfterOwnClose, history
<1>4. CASE SetDeadline(e, o)
  <2>1. \/ UNCHANGED <<timer, tick>> /\ Goto(e, o, "stuck")
        \/ /\ timer' = [timer EXCEPT ![e][o] = "set"]
           /\ tick' = [tick EXCEPT ![e][o] = FALSE]
           /\ pc' = pc
    BY <1>4 DEF SetDeadline
  <2>2. CASE UNCHANGED <<timer, tick>> /\ Goto(e, o, "stuck")
    BY <1>2, <2>2
  <2>3. CASE /\ timer' = [timer EXCEPT ![e][o] = "set"]
             /\ tick' = [tick EXCEPT ![e][o] = FALSE]
             /\ pc' = pc
    <3>1. /\ tick' \in [End -> [Op -> BOOLEAN]]
          /\ ~tick'[e][o]
          /\ \A d \in End, q \in Op :
               ~(d = e /\ q = o) => tick'[d][q] = tick[d][q]
      BY <2>3, TickTaken
    <3>2. /\ timer' \in [End -> [Op -> {"never", "set", "off"}]]
          /\ \A d \in End, q \in Op :
               ~(d = e /\ q = o) => timer'[d][q] = timer[d][q]
      BY <2>3 DEF ConPairTypeOK
    <3> QED  BY <1>3, <2>3, <3>1, <3>2
  <2> QED  BY <2>1, <2>2, <2>3
<1>5. CASE Expire(e, o)
  <2>1. /\ timer' = [timer EXCEPT ![e][o] = "off"]
        /\ tick' = [tick EXCEPT ![e][o] = TRUE]
        /\ pc' = pc
    BY <1>5 DEF Expire
  <2>2. /\ tick' \in [End -> [Op -> BOOLEAN]]
        /\ \A d \in End, q \in Op :
             ~(d = e /\ q = o) => tick'[d][q] = tick[d][q]
    BY <2>1, TickChanged, Zenon
  <2>3. /\ timer' \in [End -> [Op -> {"never", "set", "off"}]]
        /\ timer'[e][o] = "off"
        /\ \A d \in End, q \in Op :
             ~(d = e /\ q = o) => timer'[d][q] = timer[d][q]
    BY <2>1 DEF ConPairTypeOK
  <2> QED  BY <1>3, <2>1, <2>2, <2>3
<1> QED  BY <1>4, <1>5

LEMMA TimeoutInv ==
  ASSUME ConPairInv, NEW e \in End, NEW o \in Op, Timeout(e, o)
  PROVE  ConPairInv'
<1> USE DEF ConPairInv
<1>1. UNCHANGED <<ch, closed, timer, panicked, history>>
  BY DEF Timeout
<1>2. /\ tick' \in [End -> [Op -> BOOLEAN]]
      /\ pc' \in [End -> [Op -> {"idle", "waiting", "stuck"}]]
      /\ pending' \in [End -> {<<>>} \cup {<<p>> : p \in Packet}]
  BY DEF Timeout, Goto, ConPairTypeOK
<1>3. NoStaleTimeout'
  BY DEF Timeout, NoStaleTimeout, ConPairTypeOK
<1>4. ConPairTypeOK'
  BY <1>1, <1>2 DEF ConPairTypeOK, history
<1>5. WritersHavePackets'
  BY DEF Timeout, Goto, WritersHavePackets, ConPairTypeOK, Op
<1> QED
  BY <1>1, <1>3, <1>4, <1>5
    DEF EndIsFinal, ClosedByPeer, PanicsOnlyAfterOwnClose, history

LEMMA ReadInv ==
  ASSUME ConPairInv, NEW e \in End, ReadFrom(e) \/ ReadPacket(e) \/ ReadClosed(e)
  PROVE  ConPairInv'
<1> USE DEF ConPairInv
<1>1. UNCHANGED <<closed, timer, tick, pending, panicked, closers>>
  BY DEF ReadFrom, ReadPacket, ReadClosed, history
<1>2. /\ pc' \in [End -> [Op -> {"idle", "waiting", "stuck"}]]
      /\ \A f \in End : pc'[f]["write"] = pc[f]["write"]
  <2>1. PICK l \in {"idle", "waiting"} : Goto(e, "read", l)
    BY DEF ReadFrom, ReadPacket, ReadClosed
  <2>2. "read" \in Op /\ "write" \in Op
    BY DEF Op
  <2> QED  BY <2>1, <2>2, GotoPc
<1>3. CASE ReadPacket(e)
  <2>1. ch[e] \in Seq(Packet) /\ ch[e] # <<>> /\ delivered[e] \in Seq(Packet)
    BY <1>3 DEF ReadPacket, ConPairTypeOK
  <2>2. Tail(ch[e]) \in Seq(Packet) /\ Len(Tail(ch[e])) = Len(ch[e]) - 1
        /\ Len(ch[e]) \in Nat /\ Head(ch[e]) \in Packet
    BY <2>1, TakenPacket
  <2>3. Append(delivered[e], Head(ch[e])) \in Seq(Packet)
    BY <2>1, <2>2, AppendProperties
  <2>4. /\ ch' \in [End -> Seq(Packet)]
        /\ delivered' \in [End -> Seq(Packet)]
        /\ ch' = [ch EXCEPT ![e] = Tail(ch[e])]
    BY <1>3, <2>2, <2>3 DEF ReadPacket, ConPairTypeOK
  <2>5. \A f \in End : Len(ch'[f]) <= maxChDepth
    <3> SUFFICES ASSUME NEW f \in End PROVE Len(ch'[f]) <= maxChDepth
      OBVIOUS
    <3>1. CASE f = e
      BY <3>1, <2>2, <2>4, ConPairAssumption DEF ConPairTypeOK
    <3>2. CASE f # e
      BY <3>2, <2>4 DEF ConPairTypeOK
    <3> QED  BY <3>1, <3>2
  <2>6. sawEnd' = sawEnd
    BY <1>3 DEF ReadPacket
  <2>7. EndIsFinal'
    BY <1>1, <2>1, <2>4, <2>6 DEF EndIsFinal, ConPairTypeOK
  <2>8. ConPairTypeOK'
    BY <1>1, <1>2, <2>4, <2>5, <2>6 DEF ConPairTypeOK
  <2> QED
    BY <1>1, <1>2, <2>7, <2>8 DEF WritersHavePackets, NoStaleTimeout,
      ClosedByPeer, PanicsOnlyAfterOwnClose
<1>4. CASE ReadFrom(e) \/ ReadClosed(e)
  <2>1. ch' = ch /\ delivered' = delivered
    BY <1>4 DEF ReadFrom, ReadClosed, history
  <2>2. sawEnd' \in [End -> BOOLEAN]
    BY <1>4 DEF ReadFrom, ReadClosed, history, ConPairTypeOK
  <2>3. EndIsFinal'
    BY <1>4 DEF ReadFrom, ReadClosed, history, EndIsFinal, ConPairTypeOK
  <2>4. ConPairTypeOK'
    BY <1>1, <1>2, <2>1, <2>2 DEF ConPairTypeOK
  <2> QED
    BY <1>1, <1>2, <2>3, <2>4 DEF WritersHavePackets, NoStaleTimeout,
      ClosedByPeer, PanicsOnlyAfterOwnClose
<1> QED  BY <1>3, <1>4

\* What a packet handed over changes.
LEMMA Delivery ==
  ASSUME ConPairInv, NEW e \in End, WritePacket(e)
  PROVE  \E p \in Packet :
           /\ pending[e] = <<p>>
           /\ ch' = [ch EXCEPT ![Peer(e)] = Append(ch[Peer(e)], p)]
<1>1. pending[e] # <<>> /\ pending[e] \in {<<>>} \cup {<<p>> : p \in Packet}
  BY DEF ConPairInv, WritersHavePackets, WritePacket, ConPairTypeOK
<1>2. PICK p \in Packet : pending[e] = <<p>>
  BY <1>1
<1>3. Peer(e) \in End /\ ch[Peer(e)] \in Seq(Packet)
  BY PeerEnd DEF ConPairInv, ConPairTypeOK
<1>4. ch[Peer(e)] \o pending[e] = Append(ch[Peer(e)], p)
  BY <1>2, <1>3, AppendedPacket
<1>5. ch' = [ch EXCEPT ![Peer(e)] = ch[Peer(e)] \o pending[e]]
  BY DEF WritePacket
<1> QED  BY <1>2, <1>4, <1>5

LEMMA WriteInv ==
  ASSUME ConPairInv, NEW e \in End,
         \/ \E p \in Packet : WriteTo(e, p)
         \/ WritePacket(e)
         \/ WriteOnClosed(e)
  PROVE  ConPairInv'
<1> USE DEF ConPairInv
<1>e. Peer(e) \in End /\ Peer(Peer(e)) = e
  BY PeerEnd
<1>1. UNCHANGED <<closed, timer, tick, history>>
  BY DEF WriteTo, WritePacket, WriteOnClosed
<1>2. CASE \E p \in Packet : WriteTo(e, p)
  <2>1. PICK p \in Packet : WriteTo(e, p)
    BY <1>2
  <2>2. UNCHANGED <<ch, panicked>>
    BY <2>1 DEF WriteTo
  <2>3. /\ pc' \in [End -> [Op -> {"idle", "waiting", "stuck"}]]
        /\ pending' \in [End -> {<<>>} \cup {<<q>> : q \in Packet}]
    BY <2>1 DEF WriteTo, Goto, ConPairTypeOK
  <2>4. WritersHavePackets'
    BY <2>1 DEF WriteTo, Goto, WritersHavePackets, ConPairTypeOK, Op
  <2>5. ConPairTypeOK'
    BY <1>1, <2>2, <2>3 DEF ConPairTypeOK, history
  <2> QED
    BY <1>1, <2>2, <2>4, <2>5 DEF NoStaleTimeout, EndIsFinal, ClosedByPeer,
      PanicsOnlyAfterOwnClose, history
<1>3. CASE WritePacket(e)
  <2>1. PICK p \in Packet : ch' = [ch EXCEPT ![Peer(e)] = Append(ch[Peer(e)], p)]
    BY <1>3, Delivery
  <2>2. /\ panicked' = panicked
        /\ ~closed[Peer(e)]
        /\ Len(ch[Peer(e)]) < maxChDepth
        /\ pc' \in [End -> [Op -> {"idle", "waiting", "stuck"}]]
        /\ pending' \in [End -> {<<>>} \cup {<<q>> : q \in Packet}]
    BY <1>3 DEF WritePacket, Goto, ConPairTypeOK
  <2>3. /\ Append(ch[Peer(e)], p) \in Seq(Packet)
        /\ Len(Append(ch[Peer(e)], p)) = Len(ch[Peer(e)]) + 1
        /\ Len(ch[Peer(e)]) \in Nat
    BY <1>e, AppendProperties, LenProperties DEF ConPairTypeOK
  <2>4. ch' \in [End -> Seq(Packet)]
    BY <2>1, <2>3 DEF ConPairTypeOK
  <2>5. \A f \in End : Len(ch'[f]) <= maxChDepth
    <3> SUFFICES ASSUME NEW f \in End PROVE Len(ch'[f]) <= maxChDepth
      OBVIOUS
    <3>1. CASE f = Peer(e)
      BY <3>1, <2>1, <2>2, <2>3, ConPairAssumption DEF ConPairTypeOK
    <3>2. CASE f # Peer(e)
      BY <3>2, <2>1 DEF ConPairTypeOK
    <3> QED  BY <3>1, <3>2
  <2>6. WritersHavePackets'
    BY <1>3 DEF WritePacket, Goto, WritersHavePackets, ConPairTypeOK, Op
  <2>7. EndIsFinal'
    <3> SUFFICES ASSUME NEW f \in End, sawEnd[f] PROVE closed[f] /\ ch'[f] = <<>>
      BY <1>1 DEF EndIsFinal, history
    <3>1. closed[f] /\ ch[f] = <<>>
      BY DEF EndIsFinal
    <3>2. f # Peer(e)
      BY <3>1, <2>2
    <3> QED  BY <3>1, <3>2, <2>1 DEF ConPairTypeOK
  <2>8. ConPairTypeOK'
    BY <1>1, <2>2, <2>4, <2>5 DEF ConPairTypeOK, history
  <2> QED
    BY <1>1, <2>2, <2>6, <2>7, <2>8 DEF NoStaleTimeout, ClosedByPeer,
      PanicsOnlyAfterOwnClose, history
<1>4. CASE WriteOnClosed(e)
  <2>1. UNCHANGED <<ch, pc, pending>> /\ panicked' = e /\ closed[Peer(e)]
    BY <1>4 DEF WriteOnClosed
  <2>2. e \in closers
    BY <2>1, <1>e DEF ClosedByPeer
  <2> QED
    BY <1>1, <2>1, <2>2 DEF ConPairTypeOK, WritersHavePackets, NoStaleTimeout,
      EndIsFinal, ClosedByPeer, PanicsOnlyAfterOwnClose, history
<1> QED  BY <1>2, <1>3, <1>4

LEMMA CloseInv ==
  ASSUME ConPairInv, NEW e \in End, Close(e)
  PROVE  ConPairInv'
<1> USE DEF ConPairInv
<1>e. Peer(e) \in End /\ Peer(Peer(e)) = e
  BY PeerEnd
<1>1. UNCHANGED <<ch, timer, tick, pc, pending, delivered, sawEnd>>
      /\ closers' = closers \cup {e}
  BY DEF Close
<1>2. closed' \in [End -> BOOLEAN] /\ panicked' \in {"no"} \cup End
  BY <1>e DEF Close, ConPairTypeOK
<1>3. \A f \in End : /\ closed[f] => closed'[f]
                     /\ closed'[f] => closed[f] \/ f = Peer(e)
  BY <1>e DEF Close, ConPairTypeOK
<1>4. ClosedByPeer'
  BY <1>e, <1>1, <1>3 DEF ClosedByPeer
<1>5. PanicsOnlyAfterOwnClose'
  BY <1>1 DEF Close, PanicsOnlyAfterOwnClose
<1>6. ConPairTypeOK'
  BY <1>1, <1>2 DEF ConPairTypeOK
<1> QED
  BY <1>1, <1>3, <1>4, <1>5, <1>6 DEF WritersHavePackets, NoStaleTimeout, EndIsFinal

LEMMA NextInv == ConPairInv /\ [Next]_vars => ConPairInv'
<1> SUFFICES ASSUME ConPairInv, [Next]_vars PROVE ConPairInv'
  OBVIOUS
<1>1. CASE UNCHANGED vars
  BY <1>1 DEF vars, history, ConPairInv, ConPairTypeOK, WritersHavePackets,
    NoStaleTimeout, EndIsFinal, ClosedByPeer, PanicsOnlyAfterOwnClose
<1>2. ASSUME NEW e \in End, Step(e)
      PROVE  ConPairInv'
  <2>1. ASSUME NEW o \in Op, SetDeadline(e, o) \/ Expire(e, o)
        PROVE  ConPairInv'
    BY <2>1, DeadlineInv
  <2>2. ASSUME NEW o \in Op, Timeout(e, o)
        PROVE  ConPairInv'
    BY <2>2, TimeoutInv
  <2>3. CASE ReadFrom(e) \/ ReadPacket(e) \/ ReadClosed(e)
    BY <2>3, ReadInv
  <2>4. CASE (\E p \in Packet : WriteTo(e, p)) \/ WritePacket(e) \/ WriteOnClosed(e)
    BY <2>4, WriteInv
  <2>5. CASE Close(e)
    BY <2>5, CloseInv
  <2> QED
    BY <1>2, <2>1, <2>2, <2>3, <2>4, <2>5 DEF Step, Read, Write, Op
<1> QED  BY <1>1, <1>2 DEF Next

\* Every reachable state of the pair satisfies the invariant.
THEOREM PairInvariance == Spec => []ConPairInv
<1>1. Init => ConPairInv
  BY InitInv
<1>2. ConPairInv /\ [Next]_vars => ConPairInv'
  BY NextInv
<1> QED  BY <1>1, <1>2, PTL DEF Spec

\* The types of the pair: no channel ever exceeds its capacity.
THEOREM PairTypeCorrect == Spec => []ConPairTypeOK
<1>1. ConPairInv => ConPairTypeOK
  BY DEF ConPairInv
<1> QED  BY <1>1, PairInvariance, PTL

\* No deadline leaves an expiry behind for the next (conpair.go:76-79, 84-87).
THEOREM DeadlinesFresh == Spec => []NoStaleTimeout
<1>1. ConPairInv => NoStaleTimeout
  BY DEF ConPairInv
<1> QED  BY <1>1, PairInvariance, PTL

\* An empty read is the end of the stream (conpair.go:50-53).
THEOREM EmptyReadIsEnd == Spec => []EndIsFinal
<1>1. ConPairInv => EndIsFinal
  BY DEF ConPairInv
<1> QED  BY <1>1, PairInvariance, PTL

\* Nobody panics for what the other end does (conpair.go:60, 67).
THEOREM PeerNeverPanics == Spec => []PanicsOnlyAfterOwnClose
<1>1. ConPairInv => PanicsOnlyAfterOwnClose
  BY DEF ConPairInv
<1> QED  BY <1>1, PairInvariance, PTL

-----------------------------------------------------------------------------
(* The refinement of PacketQueue.                                          *)

Sent == [e \in End |-> delivered[e] \o ch[e]]

\* The packets written for an end, after a read and after a write.
LEMMA TakenIsSent ==
  ASSUME NEW d \in Seq(Packet), NEW q \in Seq(Packet), q # <<>>
  PROVE  /\ Append(d, Head(q)) \o Tail(q) = d \o q
         /\ Len(d) < Len(d \o q)
         /\ (d \o q)[Len(d) + 1] = Head(q)
<1>1. Head(q) \in Packet /\ Tail(q) \in Seq(Packet) /\ Len(q) \in Nat \ {0}
      /\ q = <<Head(q)>> \o Tail(q)
  BY TakenPacket, EmptySeq
<1>2. <<Head(q)>> \in Seq(Packet) /\ Append(d, Head(q)) = d \o <<Head(q)>>
  BY <1>1, AppendIsConcat
<1>3. (d \o <<Head(q)>>) \o Tail(q) = d \o (<<Head(q)>> \o Tail(q))
  BY <1>1, <1>2, ConcatAssociative
<1>4. Append(d, Head(q)) \o Tail(q) = d \o q
  BY <1>1, <1>2, <1>3
<1>5. /\ Len(d) \in Nat
      /\ Len(d \o q) = Len(d) + Len(q)
      /\ \A i \in 1..(Len(d) + Len(q)) :
           (d \o q)[i] = IF i <= Len(d) THEN d[i] ELSE q[i - Len(d)]
  BY ConcatProperties, LenProperties
<1>6. (d \o q)[Len(d) + 1] = q[1]
  BY <1>1, <1>5
<1>7. q[1] = Head(q)
  OBVIOUS
<1> QED  BY <1>1, <1>4, <1>5, <1>6, <1>7

LEMMA WrittenIsSent ==
  ASSUME NEW d \in Seq(Packet), NEW q \in Seq(Packet), NEW p \in Packet
  PROVE  /\ d \o Append(q, p) = Append(d \o q, p)
         /\ Len(d \o q) - Len(d) = Len(q)
<1>1. <<p>> \in Seq(Packet) /\ d \o q \in Seq(Packet)
  BY ConcatProperties
<1>2. (d \o q) \o <<p>> = d \o (q \o <<p>>)
  BY <1>1, ConcatAssociative
<1>3. Append(q, p) = q \o <<p>> /\ Append(d \o q, p) = (d \o q) \o <<p>>
  BY <1>1, AppendIsConcat
<1>4. Len(d \o q) = Len(d) + Len(q) /\ Len(d) \in Nat /\ Len(q) \in Nat
  BY ConcatProperties, LenProperties
<1> QED  BY <1>2, <1>3, <1>4

LEMMA ReadIsReceive ==
  ASSUME ConPairInv, NEW e \in End, ReadPacket(e)
  PROVE  Queue!Receive(e)
<1>1. /\ ch[e] \in Seq(Packet) /\ delivered[e] \in Seq(Packet) /\ ch[e] # <<>>
      /\ ch' = [ch EXCEPT ![e] = Tail(ch[e])]
      /\ delivered' = [delivered EXCEPT ![e] = Append(delivered[e], Head(ch[e]))]
      /\ ch \in [End -> Seq(Packet)] /\ delivered \in [End -> Seq(Packet)]
  BY DEF ReadPacket, ConPairInv, ConPairTypeOK
<1>2. /\ Append(delivered[e], Head(ch[e])) \o Tail(ch[e]) = delivered[e] \o ch[e]
      /\ Len(delivered[e]) < Len(delivered[e] \o ch[e])
      /\ (delivered[e] \o ch[e])[Len(delivered[e]) + 1] = Head(ch[e])
  BY <1>1, TakenIsSent
<1>3. Sent[e] = delivered[e] \o ch[e]
  BY DEF Sent
<1>4. Sent' = Sent
  <2>1. ASSUME NEW f \in End
        PROVE  delivered'[f] \o ch'[f] = delivered[f] \o ch[f]
    <3>1. CASE f = e
      BY <3>1, <1>1, <1>2
    <3>2. CASE f # e
      BY <3>2, <1>1
    <3> QED  BY <3>1, <3>2
  <2> QED  BY <2>1 DEF Sent
<1> QED  BY <1>1, <1>2, <1>3, <1>4 DEF Queue!Receive, Sent

LEMMA WriteIsSend ==
  ASSUME ConPairInv, NEW e \in End, WritePacket(e)
  PROVE  \E p \in Packet : Queue!Send(Peer(e), p)
<1>1. PICK p \in Packet : ch' = [ch EXCEPT ![Peer(e)] = Append(ch[Peer(e)], p)]
  BY Delivery
<1>2. /\ Peer(e) \in End
      /\ Len(ch[Peer(e)]) < maxChDepth
      /\ delivered' = delivered
      /\ ch \in [End -> Seq(Packet)] /\ delivered \in [End -> Seq(Packet)]
  BY PeerEnd DEF WritePacket, history, ConPairInv, ConPairTypeOK
<1>3. /\ delivered[Peer(e)] \o Append(ch[Peer(e)], p)
           = Append(delivered[Peer(e)] \o ch[Peer(e)], p)
      /\ Len(delivered[Peer(e)] \o ch[Peer(e)]) - Len(delivered[Peer(e)])
           = Len(ch[Peer(e)])
  BY <1>2, WrittenIsSent
<1>4. Sent' = [Sent EXCEPT ![Peer(e)] = Append(Sent[Peer(e)], p)]
  <2>1. ASSUME NEW f \in End
        PROVE  delivered'[f] \o ch'[f] =
                 IF f = Peer(e) THEN Append(Sent[f], p) ELSE Sent[f]
    <3>1. CASE f = Peer(e)
      BY <3>1, <1>1, <1>2, <1>3 DEF Sent
    <3>2. CASE f # Peer(e)
      BY <3>2, <1>1, <1>2 DEF Sent
    <3> QED  BY <3>1, <3>2
  <2> QED  BY <2>1 DEF Sent
<1>5. Queue!Send(Peer(e), p)
  BY <1>2, <1>3, <1>4 DEF Queue!Send, Sent
<1> QED  BY <1>5

LEMMA OthersStutter ==
  ASSUME ConPairInv, NEW e \in End, Step(e), ~ReadPacket(e), ~WritePacket(e)
  PROVE  UNCHANGED <<ch, delivered>>
BY DEF Step, SetDeadline, Expire, ReadFrom, Read, Timeout, ReadClosed, WriteTo,
  Write, WriteOnClosed, Close, history

LEMMA StepRefines == ConPairInv /\ [Next]_vars => [Queue!Next]_(Queue!vars)
<1> SUFFICES ASSUME ConPairInv, [Next]_vars
             PROVE  Queue!Next \/ UNCHANGED Queue!vars
  OBVIOUS
<1>1. CASE UNCHANGED <<ch, delivered>>
  BY <1>1 DEF Queue!vars
<1>2. CASE UNCHANGED vars
  BY <1>1, <1>2 DEF vars, history
<1>3. ASSUME NEW e \in End, Step(e)
      PROVE  Queue!Next \/ UNCHANGED Queue!vars
  <2>1. CASE ReadPacket(e)
    BY <2>1, ReadIsReceive DEF Queue!Next
  <2>2. CASE WritePacket(e)
    BY <2>2, WriteIsSend, PeerEnd DEF Queue!Next
  <2>3. CASE ~ReadPacket(e) /\ ~WritePacket(e)
    BY <1>1, <1>3, <2>3, OthersStutter
  <2> QED  BY <2>1, <2>2, <2>3
<1> QED  BY <1>2, <1>3 DEF Next

\* Each direction of the pair is a bounded queue: nothing is lost, repeated,
\* reordered or invented, whatever times out or closes (conpair.go:46-69).
THEOREM PairRefinement == Spec => ImplementsPacketQueue
<1>1. Init => Queue!Init
  <2> SUFFICES ASSUME Init PROVE Queue!Init
    OBVIOUS
  <2>1. <<>> \o <<>> = <<>>
    BY EmptySeq, ConcatEmptySeq
  <2> QED  BY <2>1 DEF Init, Queue!Init
<1>2. ConPairInv /\ [Next]_vars => [Queue!Next]_(Queue!vars)
  BY StepRefines
<1> QED
  BY <1>1, <1>2, PairInvariance, PTL DEF Spec, ImplementsPacketQueue, Queue!Spec

=============================================================================
