-------------------------- MODULE ResultCollector --------------------------
(***************************************************************************)
(* The result channel of the scheduler and the goroutine that drains it:   *)
(* every transaction of every client sends one dialResult, collectResults  *)
(* folds them into the summary until the channel is closed and empty.      *)
(*                                                                         *)
(* Dora and ThreeR extend this module and provide the senders.             *)
(***************************************************************************)
EXTENDS ResultSummary

CONSTANT DialResultChanLen   \* capacity of dialResultCh

ASSUME DialResultChanLenAssumption == DialResultChanLen \in Nat \ {0}

VARIABLES
  dialResultCh,   \* the buffered channel, oldest result first
  chClosed,       \* close(dialResultCh) has been executed
  summary,        \* sch.summary
  collectorPc     \* "loop" in the range loop, "done" after otherTG.Done

collectorVars == <<dialResultCh, chClosed, summary, collectorPc>>

CollectorTypeOK ==
  /\ dialResultCh \in Seq(Result)
  /\ Len(dialResultCh) <= DialResultChanLen
  /\ chClosed \in BOOLEAN
  /\ summary \in Summary
  /\ collectorPc \in {"loop", "done"}

CollectorInit ==
  /\ dialResultCh = <<>>
  /\ chClosed = FALSE
  /\ summary = NewSummary
  /\ collectorPc = "loop"

\* The send as it would be on a channel without a bound.
SendResultUnbounded(r) ==
  /\ ~chClosed
  /\ dialResultCh' = Append(dialResultCh, r)
  /\ UNCHANGED <<chClosed, summary, collectorPc>>

\* dc.dialResultCh <- r: blocks while the buffer is full.  On a closed
\* channel the Go runtime panics instead, which the senders model.
SendResult(r) ==
  /\ ~chClosed
  /\ Len(dialResultCh) < DialResultChanLen
  /\ dialResultCh' = Append(dialResultCh, r)
  /\ UNCHANGED <<chClosed, summary, collectorPc>>

CloseResults ==
  /\ chClosed' = TRUE
  /\ UNCHANGED <<dialResultCh, summary, collectorPc>>

\* One iteration of the range loop over the channel.
CollectResult ==
  /\ collectorPc = "loop"
  /\ dialResultCh # <<>>
  /\ summary' = Collect(summary, Head(dialResultCh))
  /\ dialResultCh' = Tail(dialResultCh)
  /\ UNCHANGED <<chClosed, collectorPc>>

\* The loop left as soon as the channel is closed, with results still queued.
CollectorExitEarly ==
  /\ collectorPc = "loop"
  /\ chClosed
  /\ collectorPc' = "done"
  /\ UNCHANGED <<dialResultCh, chClosed, summary>>

\* The loop left when the channel happens to be empty, as a receive that
\* does not block would.
CollectorExitWhenEmpty ==
  /\ collectorPc = "loop"
  /\ dialResultCh = <<>>
  /\ collectorPc' = "done"
  /\ UNCHANGED <<dialResultCh, chClosed, summary>>

\* The range loop ends on a closed channel only once it is empty.
CollectorExit ==
  /\ collectorPc = "loop"
  /\ chClosed
  /\ dialResultCh = <<>>
  /\ collectorPc' = "done"
  /\ UNCHANGED <<dialResultCh, chClosed, summary>>

=============================================================================
