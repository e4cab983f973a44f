------------------------------- MODULE ConPair -------------------------------
(***************************************************************************)
(* The two ends of conpair.PacketConnPair.  Each end has a channel its     *)
(* packets arrive in, a read timer and a write timer.  At an end one       *)
(* goroutine reads and one writes, each setting the deadline of its own    *)
(* operation; either may close the end.  Packets fit in the buffers.       *)
(*                                                                         *)
(* Timers are those of Go before 1.23 (go.mod says 1.20): an expiry stays  *)
(* in the timer's channel until somebody takes it.                         *)
(***************************************************************************)
EXTENDS Naturals, Sequences

End == {"A", "B"}
Op == {"read", "write"}

CONSTANTS
  Packet,      \* what may be written
  maxChDepth,  \* capacity of a channel, 32 in the code
  MaxPackets,  \* bound of the model: packets written for each end
  Timed        \* bound of the model: the operations that set deadlines

ASSUME ConPairAssumption ==
  /\ maxChDepth \in Nat \ {0}
  /\ MaxPackets \in [End -> Nat]
  /\ Timed \subseteq End \X Op

VARIABLES
  ch,         \* the channel an end reads from
  closed,     \* that channel is closed
  timer,      \* readTimer and wrtTimer: "never", "set" or "off" (expired)
  tick,       \* the channel C of the timer holds an expiry
  pc,         \* what the reader and the writer of an end are doing
  pending,    \* the packet a waiting writer wants to send, <<>> without one
  panicked,   \* "no", or the end whose caller panicked
  delivered,  \* history: the packets an end has read
  sawEnd,     \* history: a read of the end returned no packet and no error
  closers     \* history: the ends Close has been called on

history == <<delivered, sawEnd, closers>>
vars == <<ch, closed, timer, tick, pc, pending, panicked, history>>

Peer(e) == IF e = "A" THEN "B" ELSE "A"

ConPairTypeOK ==
  /\ ch \in [End -> Seq(Packet)]
  /\ \A e \in End : Len(ch[e]) <= maxChDepth
  /\ closed \in [End -> BOOLEAN]
  /\ timer \in [End -> [Op -> {"never", "set", "off"}]]
  /\ tick \in [End -> [Op -> BOOLEAN]]
  /\ pc \in [End -> [Op -> {"idle", "waiting", "stuck"}]]
  /\ pending \in [End -> {<<>>} \cup {<<p>> : p \in Packet}]
  /\ panicked \in {"no"} \cup End
  /\ delivered \in [End -> Seq(Packet)]
  /\ sawEnd \in [End -> BOOLEAN]
  /\ closers \subseteq End

\* NewPacketConnPair: the timers are set to the largest duration there is.
Init ==
  /\ ch = [e \in End |-> <<>>]
  /\ closed = [e \in End |-> FALSE]
  /\ timer = [e \in End |-> [o \in Op |-> "never"]]
  /\ tick = [e \in End |-> [o \in Op |-> FALSE]]
  /\ pc = [e \in End |-> [o \in Op |-> "idle"]]
  /\ pending = [e \in End |-> <<>>]
  /\ panicked = "no"
  /\ delivered = [e \in End |-> <<>>]
  /\ sawEnd = [e \in End |-> FALSE]
  /\ closers = {}

Goto(e, o, l) == pc' = [pc EXCEPT ![e][o] = l]

-----------------------------------------------------------------------------
(* SetReadDeadline and SetWriteDeadline (SetDeadline is one after the      *)
(* other), and the expiry of a deadline.                                   *)

\* The timer restarted without draining its channel.
SetDeadlineOnly(e, o) ==
  /\ <<e, o>> \in Timed
  /\ pc[e][o] = "idle"
  /\ timer' = [timer EXCEPT ![e][o] = "set"]
  /\ UNCHANGED <<ch, closed, tick, pc, pending, panicked, history>>

\* if !timer.Stop() { <-timer.C }; timer.Reset(...).  An expired timer whose
\* expiry was taken by a read or write leaves the caller waiting for another.
SetDeadline(e, o) ==
  /\ <<e, o>> \in Timed
  /\ pc[e][o] = "idle"
  /\ IF timer[e][o] = "off" /\ ~tick[e][o]
     THEN Goto(e, o, "stuck") /\ UNCHANGED <<timer, tick>>
     ELSE /\ timer' = [timer EXCEPT ![e][o] = "set"]
          /\ tick' = [tick EXCEPT ![e][o] = FALSE]
          /\ UNCHANGED pc
  /\ UNCHANGED <<ch, closed, pending, panicked, history>>

Expire(e, o) ==
  /\ timer[e][o] = "set"
  /\ timer' = [timer EXCEPT ![e][o] = "off"]
  /\ tick' = [tick EXCEPT ![e][o] = TRUE]
  /\ UNCHANGED <<ch, closed, pc, pending, panicked, history>>

\* A timed out read that took a packet with it.
TimeoutDropsPacket(e, o) ==
  /\ pc[e][o] = "waiting"
  /\ tick[e][o]
  /\ tick' = [tick EXCEPT ![e][o] = FALSE]
  /\ Goto(e, o, "idle")
  /\ ch' = [ch EXCEPT ![e] = IF o = "read" /\ @ # <<>> THEN Tail(@) ELSE @]
  /\ UNCHANGED <<closed, timer, pending, panicked, history>>

\* WriteTo without the case of its timer.
TimeoutForReads(e, o) ==
  /\ o = "read"
  /\ pc[e][o] = "waiting"
  /\ tick[e][o]
  /\ tick' = [tick EXCEPT ![e][o] = FALSE]
  /\ Goto(e, o, "idle")
  /\ UNCHANGED <<ch, closed, timer, pending, panicked, history>>

\* The case of the select that returns timeoutErr.
Timeout(e, o) ==
  /\ pc[e][o] = "waiting"
  /\ tick[e][o]
  /\ tick' = [tick EXCEPT ![e][o] = FALSE]
  /\ pending' = IF o = "write" THEN [pending EXCEPT ![e] = <<>>] ELSE pending
  /\ Goto(e, o, "idle")
  /\ UNCHANGED <<ch, closed, timer, panicked, history>>

-----------------------------------------------------------------------------
(* ReadFrom.                                                               *)

ReadFrom(e) ==
  /\ pc[e]["read"] = "idle"
  /\ Goto(e, "read", "waiting")
  /\ UNCHANGED <<ch, closed, timer, tick, pending, panicked, history>>

ReadPacket(e) ==
  /\ pc[e]["read"] = "waiting"
  /\ ch[e] # <<>>
  /\ ch' = [ch EXCEPT ![e] = Tail(@)]
  /\ delivered' = [delivered EXCEPT ![e] = Append(@, Head(ch[e]))]
  /\ Goto(e, "read", "idle")
  /\ UNCHANGED <<closed, timer, tick, pending, panicked, sawEnd, closers>>

\* The end of the stream reported as soon as the peer has closed.
ReadClosedAtOnce(e) ==
  /\ pc[e]["read"] = "waiting"
  /\ closed[e]
  /\ Goto(e, "read", "idle")
  /\ sawEnd' = [sawEnd EXCEPT ![e] = TRUE]
  /\ UNCHANGED <<ch, closed, timer, tick, pending, panicked, delivered, closers>>

\* A closed and drained channel yields nil at once: n = 0, err = nil.
ReadClosed(e) ==
  /\ pc[e]["read"] = "waiting"
  /\ closed[e]
  /\ ch[e] = <<>>
  /\ Goto(e, "read", "idle")
  /\ sawEnd' = [sawEnd EXCEPT ![e] = TRUE]
  /\ UNCHANGED <<ch, closed, timer, tick, pending, panicked, delivered, closers>>

-----------------------------------------------------------------------------
(* WriteTo and Close.                                                      *)

WriteTo(e, p) ==
  /\ pc[e]["write"] = "idle"
  /\ Len(delivered[Peer(e)]) + Len(ch[Peer(e)]) < MaxPackets[Peer(e)]
  /\ pending' = [pending EXCEPT ![e] = <<p>>]
  /\ Goto(e, "write", "waiting")
  /\ UNCHANGED <<ch, closed, timer, tick, panicked, history>>

\* A channel without bound.
WritePacketUnbounded(e) ==
  /\ pc[e]["write"] = "waiting"
  /\ ~closed[Peer(e)]
  /\ ch' = [ch EXCEPT ![Peer(e)] = @ \o pending[e]]
  /\ pending' = [pending EXCEPT ![e] = <<>>]
  /\ Goto(e, "write", "idle")
  /\ UNCHANGED <<closed, timer, tick, panicked, history>>

\* peer.ch <- p
WritePacket(e) ==
  /\ pc[e]["write"] = "waiting"
  /\ ~closed[Peer(e)]
  /\ Len(ch[Peer(e)]) < maxChDepth
  /\ ch' = [ch EXCEPT ![Peer(e)] = @ \o pending[e]]
  /\ pending' = [pending EXCEPT ![e] = <<>>]
  /\ Goto(e, "write", "idle")
  /\ UNCHANGED <<closed, timer, tick, panicked, history>>

\* A send on a closed channel panics, also one that was waiting already.
WriteOnClosed(e) ==
  /\ pc[e]["write"] = "waiting"
  /\ closed[Peer(e)]
  /\ panicked' = e
  /\ UNCHANGED <<ch, closed, timer, tick, pc, pending, history>>

\* Close of the end's own channel instead of its peer's.
CloseOwn(e) ==
  /\ IF closed[e] THEN panicked' = e /\ UNCHANGED closed
     ELSE closed' = [closed EXCEPT ![e] = TRUE] /\ UNCHANGED panicked
  /\ closers' = closers \cup {e}
  /\ UNCHANGED <<ch, timer, tick, pc, pending, delivered, sawEnd>>

\* close(peer.ch), which panics if the end has been closed before.
Close(e) ==
  /\ IF closed[Peer(e)] THEN panicked' = e /\ UNCHANGED closed
     ELSE closed' = [closed EXCEPT ![Peer(e)] = TRUE] /\ UNCHANGED panicked
  /\ closers' = closers \cup {e}
  /\ UNCHANGED <<ch, timer, tick, pc, pending, delivered, sawEnd>>

-----------------------------------------------------------------------------
\* The select of ReadFrom and of WriteTo.
Read(e) == Timeout(e, "read") \/ ReadPacket(e) \/ ReadClosed(e)
Write(e) == Timeout(e, "write") \/ WritePacket(e) \/ WriteOnClosed(e)

Step(e) ==
  \/ \E o \in Op : SetDeadline(e, o) \/ Expire(e, o)
  \/ ReadFrom(e) \/ Read(e)
  \/ \E p \in Packet : WriteTo(e, p)
  \/ Write(e)
  \/ Close(e)

Next ==
  \/ panicked = "no" /\ \E e \in End : Step(e)
  \/ panicked # "no" /\ UNCHANGED vars

Spec == Init /\ [][Next]_vars

\* A select with a ready case takes one; a deadline that was set expires.
\* Nobody has to read, write, close or set a deadline.
Fairness ==
  \A e \in End :
    /\ WF_vars(panicked = "no" /\ Read(e))
    /\ WF_vars(panicked = "no" /\ Write(e))
    /\ \A o \in Op : WF_vars(panicked = "no" /\ Expire(e, o))

FairSpec == Spec /\ Fairness

-----------------------------------------------------------------------------
\* A new deadline forgets the expiry of the one before: an expiry waits in the
\* channel of a timer only if the deadline set last has passed, so no read or
\* write times out ahead of its deadline (conpair.go:76-79, 84-87).
NoStaleTimeout == \A e \in End, o \in Op : tick[e][o] => timer[e][o] = "off"

\* A read that returns nothing marks the end of the stream: no packet was
\* left behind, and none will follow (conpair.go:50-53 against 67).
EndIsFinal == \A e \in End : sawEnd[e] => closed[e] /\ ch[e] = <<>>

\* Closing an end never makes the caller of the other end panic: whoever
\* panics, in a write or in a second close, has called Close itself
\* (conpair.go:60, 67).
PanicsOnlyAfterOwnClose == panicked # "no" => panicked \in closers

\* A read or write that waits when its deadline is set, or has just passed,
\* returns, whatever the peer does (conpair.go:46-64).
DeadlineEnds ==
  \A e \in End, o \in Op :
    pc[e][o] = "waiting" /\ (timer[e][o] = "set" \/ tick[e][o])
      ~> pc[e][o] = "idle" \/ panicked # "no"

\* Whatever times out or closes in between, each direction is a bounded queue:
\* packets are read in the order they were written, each of them once.
Queue == INSTANCE PacketQueue WITH
  Capacity <- maxChDepth,
  sent     <- [e \in End |-> delivered[e] \o ch[e]],
  received <- delivered

ImplementsPacketQueue == Queue!Spec

=============================================================================
