---------------------------- MODULE ResultStats ----------------------------
(***************************************************************************)
(* The collector under every bounded sequence of results: senders submit   *)
(* any result a dial, release, renew or rebind can produce, in any order   *)
(* and at any pace, and the channel is closed at some point.  What the     *)
(* collector has then summed up step by step is compared with a reference  *)
(* that looks at all the results at once.                                  *)
(***************************************************************************)
EXTENDS ResultCollector, FiniteSetsExt

CONSTANTS
  MaxResults,   \* bound of the model: results submitted
  MaxTime       \* bound of the model: times are 0..MaxTime

ASSUME StatsAssumption ==
  /\ MaxResults \in Nat
  /\ MaxTime \in 0..(MaxDuration - 1)
  /\ MaxTime <= FarFuture

VARIABLE submitted   \* history: the results sent, oldest first

vars == <<collectorVars, submitted>>

StatsInit == CollectorInit /\ submitted = <<>>

\* The clock is monotonic: a transaction finishes no earlier than it starts.
Submit ==
  \E action \in Action, ok \in BOOLEAN, start \in 0..MaxTime :
    \E finish \in start..MaxTime :
      LET r == [action |-> action, ok |-> ok, start |-> start, finish |-> finish]
      IN  /\ Len(submitted) < MaxResults
          /\ SendResult(r)
          /\ submitted' = Append(submitted, r)

Close == ~chClosed /\ CloseResults /\ UNCHANGED submitted

Consume == (CollectResult \/ CollectorExit) /\ UNCHANGED submitted

\* Not a deadlock: the collector has returned.
Over == collectorPc = "done" /\ UNCHANGED vars

StatsNext == Submit \/ Close \/ Consume \/ Over

Spec == StatsInit /\ [][StatsNext]_vars

-----------------------------------------------------------------------------
(* The reference.                                                          *)

Results == {submitted[i] : i \in DOMAIN submitted}

Dials == {i \in DOMAIN submitted : DialSucceeded(submitted[i])}
Failures == {i \in DOMAIN submitted : ~submitted[i].ok}
OfAction(a) == {i \in DOMAIN submitted : submitted[i].action = a}
Succeeded(a) == {i \in OfAction(a) : submitted[i].ok}
FastDials == {i \in Dials : submitted[i].finish - submitted[i].start < Second}

DialTime(i) == CompleteTime(submitted[i])
DialsAfter(i) == {j \in Dials : j > i}

-----------------------------------------------------------------------------
\* When collectResults returns, every counter has the value a count over all
\* results gives: Total all of them, Failed the failures of any action, Success
\* the successful dials only.  The counter of an action misses none of its
\* successes and takes in no other action; no more is claimed, since the code
\* counts failures with them and README.md:128 does not (sched.go:860-880).
CountersExact ==
  collectorPc = "done" =>
    /\ summary.Total = Len(submitted)
    /\ summary.Failed = Cardinality(Failures)
    /\ summary.Success = Cardinality(Dials)
    /\ summary.Released \in Cardinality(Succeeded("release"))..Cardinality(OfAction("release"))
    /\ summary.Renewed \in Cardinality(Succeeded("renew"))..Cardinality(OfAction("renew"))
    /\ summary.Rebinded \in Cardinality(Succeeded("rebind"))..Cardinality(OfAction("rebind"))
    /\ summary.LessThanSecond = Cardinality(FastDials)

\* The duration shown spans from the earliest start to the latest finish in
\* whatever order the results arrive, the slowest dial is the slowest of the
\* successful ones, and the average is over the last AvgWindow of them only
\* (sched.go:850-859, 876-883, 890; dhcplt.go:71).
TimesExact ==
  collectorPc = "done" /\ submitted # <<>> =>
    /\ summary.TotalTime = Max({r.finish : r \in Results})
                             - Min({r.start : r \in Results})
    /\ summary.Longest = Max({0} \cup {DialTime(i) : i \in Dials})
    /\ Len(summary.window) = Min({AvgWindow, Cardinality(Dials)})
    /\ \A i \in Dials :
         LET after == Cardinality(DialsAfter(i))
         IN  after < AvgWindow =>
               summary.window[Len(summary.window) - after] = DialTime(i)

\* When the first result is a successful dial, the fastest dial shown is the
\* fastest of all, in whatever order the others arrive (sched.go:884-893).
ShortestExact ==
  collectorPc = "done" /\ submitted # <<>> /\ DialSucceeded(Head(submitted)) =>
    summary.Shortest = Min({DialTime(i) : i \in Dials})

=============================================================================
