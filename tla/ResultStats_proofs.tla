------------------------- MODULE ResultStats_proofs -------------------------
(***************************************************************************)
(* The statistics of collectResults are those a look at all results at     *)
(* once gives, for every number of results, capacity of the channel and    *)
(* size of the window: the three properties of ResultStats, from one       *)
(* inductive invariant.                                                    *)
(***************************************************************************)
EXTENDS ResultStats, ResultCollector_proofs

-----------------------------------------------------------------------------
(* What one iteration of collectResults does to the times.                 *)

SameSpan(s, t) == t.begin = s.begin /\ t.end = s.end /\ t.TotalTime = s.TotalTime

SameDialTimes(s, t) ==
  /\ t.window = s.window
  /\ t.LessThanSecond = s.LessThanSecond
  /\ t.Longest = s.Longest
  /\ t.Shortest = s.Shortest

LEMMA SpanTimes ==
  ASSUME NEW s \in Summary, NEW r \in Result
  PROVE  LET t == Span(s, r) IN
         /\ t.begin = Lesser(r.start, s.begin)
         /\ t.end = Greater(r.finish, s.end)
         /\ t.TotalTime = t.end - t.begin
         /\ SameDialTimes(s, t)
<1> DEFINE b == Lesser(r.start, s.begin)
           e == Greater(r.finish, s.end)
           d == e - b
<1> HIDE DEF b, e, d
<1> DEFINE t == [s EXCEPT !.begin = b, !.end = e, !.TotalTime = d]
<1>1. t.begin = b /\ t.end = e /\ t.TotalTime = d /\ SameDialTimes(s, t)
  BY DEF Summary, SameDialTimes
<1>2. Span(s, r) = t
  BY Zenon DEF Span, b, e, d
<1> QED BY <1>1, <1>2 DEF b, e, d

LEMMA CountTimes ==
  ASSUME NEW s \in Summary, NEW r \in Result
  PROVE  SameSpan(s, Count(s, r)) /\ SameDialTimes(s, Count(s, r))
<1> DEFINE rel == s.Released + One(r.action = "release")
           reb == s.Rebinded + One(r.action = "rebind")
           ren == s.Renewed + One(r.action = "renew")
           f   == s.Failed + One(~r.ok)
           ok  == s.Success + One(DialSucceeded(r))
           n   == s.Total + 1
<1> HIDE DEF rel, reb, ren, f, ok, n
<1> DEFINE t == [s EXCEPT !.Total = n, !.Released = rel, !.Rebinded = reb,
                          !.Renewed = ren, !.Failed = f, !.Success = ok]
<1>1. SameSpan(s, t) /\ SameDialTimes(s, t)
  BY DEF Summary, SameSpan, SameDialTimes
<1>2. Count(s, r) = t
  BY Zenon DEF Count, rel, reb, ren, f, ok, n
<1> QED BY <1>1, <1>2

\* The times of t are those of s with the dial r, if it is a success.
DialCollected(s, r, t) ==
  IF DialSucceeded(r)
  THEN /\ t.window = AvgAdd(s.window, CompleteTime(r))
       /\ t.LessThanSecond = s.LessThanSecond + One(CompleteTime(r) < Second)
       /\ t.Longest = Greater(CompleteTime(r), s.Longest)
       /\ t.Shortest = Lesser(CompleteTime(r), s.Shortest)
  ELSE SameDialTimes(s, t)

LEMMA DialTimesTimes ==
  ASSUME NEW s \in Summary, NEW r \in Result
  PROVE  SameSpan(s, DialTimes(s, r)) /\ DialCollected(s, r, DialTimes(s, r))
<1> DEFINE c     == CompleteTime(r)
           w     == AvgAdd(s.window, c)
           n     == s.LessThanSecond + One(c < Second)
           long  == Greater(c, s.Longest)
           short == Lesser(c, s.Shortest)
<1> HIDE DEF w, n, long, short
<1> DEFINE t == [s EXCEPT !.window = w, !.LessThanSecond = n,
                          !.Longest = long, !.Shortest = short]
<1>1. /\ SameSpan(s, t)
      /\ t.window = w /\ t.LessThanSecond = n /\ t.Longest = long /\ t.Shortest = short
  BY DEF Summary, SameSpan
<1>2. DialTimes(s, r) = IF DialSucceeded(r) THEN t ELSE s
  BY Zenon DEF DialTimes, w, n, long, short
<1> HIDE DEF t
<1>3. CASE DialSucceeded(r)
  BY <1>1, <1>2, <1>3 DEF DialCollected, w, n, long, short
<1>4. CASE ~DialSucceeded(r)
  BY <1>2, <1>4 DEF DialCollected, SameSpan, SameDialTimes
<1> QED BY <1>3, <1>4

Shown(n) == IF n = MaxDuration THEN 0 ELSE n

LEMMA CollectTimes ==
  ASSUME NEW s \in Summary, NEW r \in Result
  PROVE  LET t == Collect(s, r) IN
         /\ t.begin = Lesser(r.start, s.begin)
         /\ t.end = Greater(r.finish, s.end)
         /\ t.TotalTime = t.end - t.begin
         /\ IF DialSucceeded(r)
            THEN /\ t.window = AvgAdd(s.window, CompleteTime(r))
                 /\ t.LessThanSecond = s.LessThanSecond + One(CompleteTime(r) < Second)
                 /\ t.Longest = Greater(CompleteTime(r), s.Longest)
                 /\ t.Shortest = Shown(Lesser(CompleteTime(r), s.Shortest))
            ELSE /\ t.window = s.window
                 /\ t.LessThanSecond = s.LessThanSecond
                 /\ t.Longest = s.Longest
                 /\ t.Shortest = Shown(s.Shortest)
<1> DEFINE a == Span(s, r)   b == Count(a, r)   c == DialTimes(b, r)   d == ShowShortest(c)
<1>1. /\ a \in Summary /\ SameDialTimes(s, a)
      /\ a.begin = Lesser(r.start, s.begin)
      /\ a.end = Greater(r.finish, s.end)
      /\ a.TotalTime = a.end - a.begin
  BY SpanType, SpanTimes
<1> HIDE DEF a
<1>2. b \in Summary /\ SameSpan(a, b) /\ SameDialTimes(a, b)
  BY <1>1, CountType, CountTimes
<1> HIDE DEF b
<1>3. c \in Summary /\ SameSpan(b, c) /\ DialCollected(b, r, c)
  BY <1>2, DialTimesType, DialTimesTimes
<1> HIDE DEF c
<1>4. /\ SameSpan(c, d) /\ d.window = c.window /\ d.LessThanSecond = c.LessThanSecond
      /\ d.Longest = c.Longest /\ d.Shortest = Shown(c.Shortest)
  BY <1>3 DEF ShowShortest, Summary, SameSpan, Shown
<1> HIDE DEF d
<1>5. Collect(s, r) = d
  BY DEF Collect, a, b, c, d
<1>6. /\ d.begin = a.begin /\ d.end = a.end /\ d.TotalTime = a.TotalTime
  BY <1>2, <1>3, <1>4, Zenon DEF SameSpan
<1>7. SameDialTimes(s, b)
  BY <1>1, <1>2, Zenon DEF SameDialTimes
<1>8. CASE DialSucceeded(r)
  <2>1. /\ c.window = AvgAdd(s.window, CompleteTime(r))
        /\ c.LessThanSecond = s.LessThanSecond + One(CompleteTime(r) < Second)
        /\ c.Longest = Greater(CompleteTime(r), s.Longest)
        /\ c.Shortest = Lesser(CompleteTime(r), s.Shortest)
    BY <1>3, <1>7, <1>8, Zenon DEF DialCollected, SameDialTimes
  <2> QED BY <1>1, <1>4, <1>5, <1>6, <1>8, <2>1, Zenon
<1>9. CASE ~DialSucceeded(r)
  <2>1. /\ c.window = s.window /\ c.LessThanSecond = s.LessThanSecond
        /\ c.Longest = s.Longest /\ c.Shortest = s.Shortest
    BY <1>3, <1>7, <1>9, Zenon DEF DialCollected, SameDialTimes
  <2> QED BY <1>1, <1>4, <1>5, <1>6, <1>9, <2>1, Zenon
<1> QED BY <1>8, <1>9

-----------------------------------------------------------------------------
(* The inductive invariant.                                                *)

\* A result finishes no earlier than it starts, and within the bound.
ResultsInv ==
  /\ submitted \in Seq(Result)
  /\ \A i \in DOMAIN submitted :
       submitted[i].start <= submitted[i].finish /\ submitted[i].finish <= MaxTime

\* Collected are the results first submitted; the others are in the channel.
QueueInv ==
  /\ Len(submitted) = summary.Total + Len(dialResultCh)
  /\ \A k \in DOMAIN dialResultCh : dialResultCh[k] = submitted[summary.Total + k]
  /\ collectorPc = "done" => chClosed /\ dialResultCh = <<>>

Fast == {r \in Result : DialSucceeded(r) /\ CompleteTime(r) < Second}
FastSent == summary.LessThanSecond + Queued(dialResultCh, Fast)

\* What has been sent is what has been submitted, kind by kind.
CountsInv ==
  /\ SuccessSent = Queued(submitted, Dialled)
  /\ FailedSent = Queued(submitted, NotOk)
  /\ ReleasedSent = Queued(submitted, Of("release"))
  /\ RenewedSent = Queued(submitted, Of("renew"))
  /\ RebindedSent = Queued(submitted, Of("rebind"))
  /\ FastSent = Queued(submitted, Fast)

Collected == 1..summary.Total
CollectedDials == {i \in Collected : DialSucceeded(submitted[i])}

\* The span of the results collected.
SpanInv ==
  IF summary.Total = 0 THEN summary.begin = FarFuture /\ summary.end = 0
  ELSE /\ \A i \in Collected :
            summary.begin <= submitted[i].start /\ submitted[i].finish <= summary.end
       /\ \E i \in Collected : summary.begin = submitted[i].start
       /\ \E i \in Collected : summary.end = submitted[i].finish
       /\ summary.TotalTime = summary.end - summary.begin

\* The slowest and the fastest of the dials collected.
ExtremesInv ==
  /\ \A i \in CollectedDials : DialTime(i) <= summary.Longest
  /\ summary.Longest = 0 \/ \E i \in CollectedDials : DialTime(i) = summary.Longest
  /\ summary.Total = 0 => summary.Shortest = MaxDuration
  /\ summary.Total > 0 =>
       IF DialSucceeded(submitted[1])
       THEN /\ \A i \in CollectedDials : summary.Shortest <= DialTime(i)
            /\ \E i \in CollectedDials : DialTime(i) = summary.Shortest
       ELSE summary.Shortest = 0

Later(i) == {j \in CollectedDials : j > i}

\* The last of the dials collected, each as far from the end of the window as
\* there are dials after it.
WindowInv ==
  /\ Len(summary.window) = Lesser(AvgWindow, Cardinality(CollectedDials))
  /\ \A i \in CollectedDials :
       Cardinality(Later(i)) < AvgWindow =>
         summary.window[Len(summary.window) - Cardinality(Later(i))] = DialTime(i)

StatsInv ==
  /\ CollectorTypeOK
  /\ ResultsInv
  /\ QueueInv
  /\ CountsInv
  /\ SpanInv
  /\ ExtremesInv
  /\ WindowInv

-----------------------------------------------------------------------------
(* What the steps do.                                                      *)

LEMMA TimesFit == MaxTime \in Nat /\ MaxTime < MaxDuration /\ MaxTime <= FarFuture
BY StatsAssumption, DurationAssumption

LEMMA SubmitDoes ==
  ASSUME Submit
  PROVE  \E r \in Result :
           /\ SendResult(r) /\ submitted' = Append(submitted, r)
           /\ r.start <= r.finish /\ r.finish <= MaxTime
<1>1. PICK action \in Action, ok \in BOOLEAN, start \in 0..MaxTime :
        \E finish \in start..MaxTime :
          LET r == [action |-> action, ok |-> ok, start |-> start, finish |-> finish]
          IN  SendResult(r) /\ submitted' = Append(submitted, r)
  BY DEF Submit
<1>2. PICK finish \in start..MaxTime :
        LET r == [action |-> action, ok |-> ok, start |-> start, finish |-> finish]
        IN  SendResult(r) /\ submitted' = Append(submitted, r)
  BY <1>1
<1> DEFINE r == [action |-> action, ok |-> ok, start |-> start, finish |-> finish]
<1>3. r \in Result /\ r.start <= r.finish /\ r.finish <= MaxTime
  BY TimesFit DEF Result
<1>4. SendResult(r) /\ submitted' = Append(submitted, r)
  BY <1>2
<1> HIDE DEF r
<1> QED BY <1>3, <1>4

LEMMA CollectedFacts ==
  ASSUME StatsInv
  PROVE  /\ summary.Total \in Nat /\ Len(submitted) \in Nat
         /\ summary.Total <= Len(submitted)
         /\ Collected \subseteq DOMAIN submitted
         /\ IsFiniteSet(CollectedDials) /\ CollectedDials \subseteq Collected
         /\ \A i \in DOMAIN submitted : submitted[i] \in Result /\ DialTime(i) \in 0..MaxTime
<1>1. submitted \in Seq(Result) /\ dialResultCh \in Seq(Result) /\ summary \in Summary
  BY DEF StatsInv, ResultsInv, CollectorTypeOK
<1>2. summary.Total \in Nat /\ Len(submitted) \in Nat /\ Len(dialResultCh) \in Nat
  BY <1>1, CountsType
<1>3. Len(submitted) = summary.Total + Len(dialResultCh)
  BY DEF StatsInv, QueueInv
<1>4. Collected \subseteq DOMAIN submitted
  <2>1. DOMAIN submitted = 1..Len(submitted)
    BY <1>1
  <2>2. summary.Total <= Len(submitted)
    BY <1>2, <1>3
  <2> QED BY <1>2, <2>1, <2>2 DEF Collected
<1>5. IsFiniteSet(Collected)
  <2>1. 1 \in Int /\ summary.Total \in Int
    BY <1>2
  <2> QED BY <2>1, FS_Interval, Zenon DEF Collected
<1>6. CollectedDials \subseteq Collected
  BY DEF CollectedDials
<1>7. IsFiniteSet(CollectedDials)
  BY <1>5, <1>6, FS_Subset
<1>8. ASSUME NEW i \in DOMAIN submitted
      PROVE  submitted[i] \in Result /\ DialTime(i) \in 0..MaxTime
  <2>1. submitted[i] \in Result
    BY <1>1, <1>8
  <2>2. submitted[i].start <= submitted[i].finish /\ submitted[i].finish <= MaxTime
    BY <1>8 DEF StatsInv, ResultsInv
  <2>3. submitted[i].start \in Nat /\ submitted[i].finish \in Nat
    BY <2>1 DEF Result
  <2> QED BY <2>1, <2>2, <2>3, TimesFit DEF DialTime, CompleteTime, Greater
<1> QED BY <1>2, <1>3, <1>4, <1>6, <1>7, <1>8

\* The next result collected is the next of those submitted.
LEMMA CollectDoes ==
  ASSUME StatsInv, CollectResult, submitted' = submitted
  PROVE  /\ summary.Total + 1 \in DOMAIN submitted
         /\ submitted[summary.Total + 1] = Head(dialResultCh)
         /\ summary' = Collect(summary, submitted[summary.Total + 1])
         /\ summary'.Total = summary.Total + 1
         /\ dialResultCh' = Tail(dialResultCh) /\ dialResultCh # <<>>
         /\ Collected' = Collected \cup {summary.Total + 1}
         /\ DialSucceeded(submitted[summary.Total + 1]) =>
              CollectedDials' = CollectedDials \cup {summary.Total + 1}
         /\ ~DialSucceeded(submitted[summary.Total + 1]) =>
              CollectedDials' = CollectedDials
<1> DEFINE n == summary.Total
<1>1. submitted \in Seq(Result) /\ dialResultCh \in Seq(Result) /\ summary \in Summary
  BY DEF StatsInv, ResultsInv, CollectorTypeOK
<1>2. n \in Nat /\ Len(submitted) = n + Len(dialResultCh)
  BY CollectedFacts DEF StatsInv, QueueInv
<1>3. /\ dialResultCh # <<>> /\ dialResultCh' = Tail(dialResultCh)
      /\ summary' = Collect(summary, Head(dialResultCh))
  BY DEF CollectResult
<1>4. Len(dialResultCh) \in Nat \ {0} /\ 1 \in DOMAIN dialResultCh
      /\ Head(dialResultCh) = dialResultCh[1]
  BY <1>1, <1>3
<1>5. dialResultCh[1] = submitted[n + 1]
  BY <1>4 DEF StatsInv, QueueInv
<1>6. n + 1 \in DOMAIN submitted /\ submitted[n + 1] \in Result
  BY <1>1, <1>2, <1>4
<1>7. summary'.Total = n + 1
  <2>1. Head(dialResultCh) \in Result
    BY <1>4, <1>5, <1>6
  <2>2. CountsOneMore(summary, Head(dialResultCh), summary')
    BY <1>1, <1>3, <2>1, CollectType
  <2> QED BY <2>2, Zenon DEF CountsOneMore
<1>8. Collected' = Collected \cup {n + 1}
  BY <1>2, <1>7 DEF Collected
<1>9. CollectedDials' = {i \in Collected' : DialSucceeded(submitted[i])}
  BY DEF CollectedDials
<1> HIDE DEF n
<1>10. /\ DialSucceeded(submitted[n + 1]) => CollectedDials' = CollectedDials \cup {n + 1}
       /\ ~DialSucceeded(submitted[n + 1]) => CollectedDials' = CollectedDials
  BY <1>8, <1>9 DEF CollectedDials
<1> QED BY <1>3, <1>4, <1>5, <1>6, <1>7, <1>8, <1>10 DEF n

\* A result submitted changes nothing of those collected.
LEMMA SubmitKeepsCollected ==
  ASSUME StatsInv, Submit
  PROVE  /\ summary' = summary
         /\ Collected' = Collected /\ CollectedDials' = CollectedDials
         /\ \A i \in Collected : submitted'[i] = submitted[i]
<1>1. PICK r \in Result : SendResult(r) /\ submitted' = Append(submitted, r)
  BY SubmitDoes
<1>2. summary' = summary
  BY <1>1 DEF SendResult
<1>3. submitted \in Seq(Result)
  BY DEF StatsInv, ResultsInv
<1>4. \A i \in DOMAIN submitted : submitted'[i] = submitted[i]
  BY <1>1, <1>3
<1>5. \A i \in Collected : submitted'[i] = submitted[i]
  BY <1>4, CollectedFacts
<1>6. Collected' = Collected
  BY <1>2 DEF Collected
<1> QED BY <1>2, <1>5, <1>6 DEF CollectedDials

-----------------------------------------------------------------------------
(* The invariant holds initially and every step keeps it.                  *)

LEMMA StatsInitially == StatsInit => StatsInv
<1> SUFFICES ASSUME StatsInit PROVE StatsInv
  OBVIOUS
<1>1. /\ dialResultCh = <<>> /\ chClosed = FALSE /\ summary = NewSummary
      /\ collectorPc = "loop" /\ submitted = <<>>
  BY DEF StatsInit, CollectorInit
<1>2. /\ summary \in Summary
      /\ summary.Total = 0 /\ summary.Success = 0 /\ summary.Failed = 0
      /\ summary.Released = 0 /\ summary.Renewed = 0 /\ summary.Rebinded = 0
  BY <1>1, NewSummaryType
<1>3. /\ summary.begin = FarFuture /\ summary.end = 0 /\ summary.LessThanSecond = 0
      /\ summary.Longest = 0 /\ summary.Shortest = MaxDuration /\ summary.window = <<>>
  BY <1>1 DEF NewSummary
<1>4. CollectorTypeOK
  <2>1. dialResultCh \in Seq(Result) /\ Len(dialResultCh) = 0
    BY <1>1
  <2>2. Len(dialResultCh) <= DialResultChanLen
    BY <2>1, DialResultChanLenAssumption
  <2>3. chClosed \in BOOLEAN /\ collectorPc \in {"loop", "done"}
    BY <1>1
  <2> QED BY <1>2, <2>1, <2>2, <2>3 DEF CollectorTypeOK
<1>5. ResultsInv /\ QueueInv
  BY <1>1, <1>2 DEF ResultsInv, QueueInv
<1>6. \A S : Queued(dialResultCh, S) = 0 /\ Queued(submitted, S) = 0
  <2>1. <<>> \in Seq(Result)
    OBVIOUS
  <2> QED BY <1>1, <2>1, QueuedType
<1>7. CountsInv
  BY <1>2, <1>3, <1>6 DEF CountsInv, SuccessSent, FailedSent, ReleasedSent, RenewedSent,
                          RebindedSent, FastSent
<1>8. SpanInv
  BY <1>2, <1>3 DEF SpanInv
<1>9. CollectedDials = {} /\ Cardinality(CollectedDials) = 0
  <2>1. Collected = {}
    BY <1>2 DEF Collected
  <2>2. CollectedDials = {}
    BY <2>1 DEF CollectedDials
  <2> QED BY <2>2, FS_EmptySet
<1>10. ExtremesInv
  BY <1>2, <1>3, <1>9 DEF ExtremesInv
<1>11. WindowInv
  BY <1>3, <1>9, DurationAssumption DEF WindowInv, Lesser
<1> QED BY <1>4, <1>5, <1>7, <1>8, <1>10, <1>11 DEF StatsInv

LEMMA ResultsKept ==
  ASSUME StatsInv, [StatsNext]_vars
  PROVE  CollectorTypeOK' /\ ResultsInv'
<1>1. CollectorTypeOK /\ ResultsInv
  BY DEF StatsInv
<1>2. CASE Submit
  <2>1. PICK r \in Result : /\ SendResult(r) /\ submitted' = Append(submitted, r)
                            /\ r.start <= r.finish /\ r.finish <= MaxTime
    BY <1>2, SubmitDoes
  <2>2. CollectorTypeOK'
    BY <1>1, <2>1, CollectorTypes
  <2>3. /\ submitted' \in Seq(Result) /\ DOMAIN submitted' = DOMAIN submitted \cup {Len(submitted) + 1}
        /\ submitted'[Len(submitted) + 1] = r
        /\ \A i \in DOMAIN submitted : submitted'[i] = submitted[i]
    BY <1>1, <2>1 DEF ResultsInv
  <2> QED BY <1>1, <2>1, <2>2, <2>3 DEF ResultsInv
<1>3. CASE Close \/ Consume \/ Over \/ UNCHANGED vars
  <2>1. submitted' = submitted
    BY <1>3 DEF Close, Consume, Over, vars
  <2>2. CollectorTypeOK'
    BY <1>1, <1>3, CollectorTypes DEF Close, Consume, Over, vars
  <2> QED BY <1>1, <2>1, <2>2 DEF ResultsInv
<1> QED BY <1>2, <1>3 DEF StatsNext

LEMMA QueueKept ==
  ASSUME StatsInv, [StatsNext]_vars
  PROVE  QueueInv'
<1>1. /\ QueueInv /\ submitted \in Seq(Result) /\ dialResultCh \in Seq(Result)
      /\ summary.Total \in Nat
  BY CollectedFacts DEF StatsInv, ResultsInv, CollectorTypeOK
<1>2. CASE Submit
  <2>1. PICK r \in Result : SendResult(r) /\ submitted' = Append(submitted, r)
    BY <1>2, SubmitDoes
  <2>2. /\ dialResultCh' = Append(dialResultCh, r) /\ ~chClosed
        /\ UNCHANGED <<chClosed, summary, collectorPc>>
    BY <2>1 DEF SendResult
  <2>3. Len(submitted') = Len(submitted) + 1 /\ Len(dialResultCh') = Len(dialResultCh) + 1
    BY <1>1, <2>1, <2>2
  <2> DEFINE n == summary.Total
             m == Len(dialResultCh)
  <2>4. n \in Nat /\ m \in Nat /\ Len(submitted) = n + m /\ DOMAIN dialResultCh = 1..m
    BY <1>1 DEF QueueInv
  <2>5. /\ DOMAIN dialResultCh' = 1..(m + 1)
        /\ \A k \in 1..m : dialResultCh'[k] = dialResultCh[k]
        /\ dialResultCh'[m + 1] = r
    BY <1>1, <2>2
  <2>6. /\ \A i \in 1..Len(submitted) : submitted'[i] = submitted[i]
        /\ submitted'[Len(submitted) + 1] = r
    BY <1>1, <2>1
  <2>7. \A k \in 1..m : dialResultCh[k] = submitted[n + k]
    BY <1>1, <2>4 DEF QueueInv
  <2> HIDE DEF n, m
  <2>8. ASSUME NEW k \in 1..(m + 1)
        PROVE  dialResultCh'[k] = submitted'[n + k]
    <3>1. CASE k = m + 1
      <4>1. n + k = Len(submitted) + 1
        BY <2>4, <3>1
      <4>2. submitted'[n + k] = r
        BY <2>4, <2>6, <4>1
      <4> QED BY <2>4, <2>5, <3>1, <4>2
    <3>2. CASE k # m + 1
      <4>1. k \in 1..m /\ n + k \in 1..Len(submitted)
        BY <2>4, <3>2
      <4> QED BY <2>5, <2>6, <2>7, <4>1
    <3> QED BY <3>1, <3>2
  <2>9. collectorPc' # "done"
    BY <1>1, <2>2 DEF QueueInv
  <2>10. Len(submitted') = summary'.Total + Len(dialResultCh')
    BY <2>2, <2>3, <2>4 DEF n, m
  <2> QED BY <2>2, <2>5, <2>8, <2>9, <2>10 DEF QueueInv, n
<1>3. CASE CollectResult /\ submitted' = submitted
  <2> DEFINE n == summary.Total
             m == Len(dialResultCh)
  <2>1. /\ summary'.Total = n + 1 /\ dialResultCh' = Tail(dialResultCh) /\ dialResultCh # <<>>
        /\ collectorPc' # "done"
    BY <1>3, CollectDoes DEF CollectResult
  <2>2. /\ m \in Nat \ {0} /\ Len(submitted) = n + m
        /\ Len(dialResultCh') = m - 1 /\ DOMAIN dialResultCh' = 1..(m - 1)
        /\ \A k \in 1..m : dialResultCh[k] = submitted[n + k]
        /\ \A k \in 1..(m - 1) : dialResultCh'[k] = dialResultCh[k + 1]
    BY <1>1, <2>1 DEF QueueInv
  <2> HIDE DEF n, m
  <2>3. Len(submitted') = (n + 1) + (m - 1)
    BY <1>1, <1>3, <2>2 DEF n
  <2>4. ASSUME NEW k \in 1..(m - 1)
        PROVE  dialResultCh'[k] = submitted'[(n + 1) + k]
    <3>1. n \in Nat /\ m \in Nat
      BY <1>1, <2>2 DEF n
    <3>2. k + 1 \in 1..m /\ n + (k + 1) = (n + 1) + k
      BY <3>1
    <3> QED BY <1>3, <2>2, <3>2
  <2> QED BY <2>1, <2>2, <2>3, <2>4 DEF QueueInv
<1>4. CASE Close
  BY <1>1, <1>4 DEF Close, CloseResults, QueueInv
<1>5. CASE CollectorExit /\ submitted' = submitted
  BY <1>1, <1>5 DEF CollectorExit, QueueInv
<1>6. CASE UNCHANGED vars
  BY <1>1, <1>6 DEF vars, collectorVars, QueueInv
<1> QED BY <1>2, <1>3, <1>4, <1>5, <1>6 DEF StatsNext, Consume, Over

LEMMA FastOne ==
  ASSUME NEW r \in Result
  PROVE  One(r \in Fast) =
           IF DialSucceeded(r) THEN One(CompleteTime(r) < Second) ELSE 0
BY DEF One, Fast

\* The fast dials are counted like the others.
LEMMA FastSentKept ==
  ASSUME CollectorTypeOK
  PROVE  /\ summary.LessThanSecond \in Nat /\ FastSent \in Nat
         /\ \A r \in Result : SendResult(r) => FastSent' = FastSent + One(r \in Fast)
         /\ CollectResult => FastSent' = FastSent
<1>1. summary \in Summary /\ dialResultCh \in Seq(Result)
  BY DEF CollectorTypeOK
<1>2. summary.LessThanSecond \in Nat /\ Queued(dialResultCh, Fast) \in Nat
  BY <1>1, QueuedType DEF Summary
<1>3. ASSUME NEW r \in Result, SendResult(r)
      PROVE  FastSent' = FastSent + One(r \in Fast)
  <2>1. summary' = summary /\ dialResultCh' = Append(dialResultCh, r)
    BY <1>3 DEF SendResult
  <2>2. Queued(dialResultCh', Fast) = Queued(dialResultCh, Fast) + One(r \in Fast)
    BY <1>1, <2>1, QueuedAppend
  <2>3. One(r \in Fast) \in Nat
    BY DEF One
  <2> QED BY <1>2, <2>1, <2>2, <2>3 DEF FastSent
<1>4. ASSUME CollectResult
      PROVE  FastSent' = FastSent
  <2> DEFINE r == Head(dialResultCh)
  <2>1. /\ dialResultCh # <<>> /\ dialResultCh' = Tail(dialResultCh)
        /\ summary' = Collect(summary, r)
    BY <1>4 DEF CollectResult
  <2>2. r \in Result /\ dialResultCh' \in Seq(Result)
    BY <1>1, <2>1
  <2>3. Queued(dialResultCh, Fast) = Queued(dialResultCh', Fast) + One(r \in Fast)
    BY <1>1, <2>1, QueuedTail
  <2>4. Queued(dialResultCh', Fast) \in Nat
    BY <2>2, QueuedType
  <2> HIDE DEF r
  <2>5. summary'.LessThanSecond = summary.LessThanSecond + One(r \in Fast)
    <3>1. CASE DialSucceeded(r)
      BY <1>1, <2>1, <2>2, <3>1, CollectTimes, FastOne
    <3>2. CASE ~DialSucceeded(r)
      <4>1. summary'.LessThanSecond = summary.LessThanSecond /\ One(r \in Fast) = 0
        BY <1>1, <2>1, <2>2, <3>2, CollectTimes, FastOne
      <4> QED BY <1>2, <4>1
    <3> QED BY <3>1, <3>2
  <2>6. One(r \in Fast) \in Nat
    BY DEF One
  <2> QED BY <1>2, <2>3, <2>4, <2>5, <2>6 DEF FastSent
<1> QED BY <1>2, <1>3, <1>4 DEF FastSent

LEMMA CountsKept ==
  ASSUME StatsInv, [StatsNext]_vars
  PROVE  CountsInv'
<1>1. CollectorTypeOK /\ CountsInv /\ submitted \in Seq(Result)
  BY DEF StatsInv, ResultsInv
<1>2. CASE Submit
  <2>1. PICK r \in Result : SendResult(r) /\ submitted' = Append(submitted, r)
    BY <1>2, SubmitDoes
  <2>2. /\ SuccessSent' = SuccessSent + One(DialSucceeded(r))
        /\ FailedSent' = FailedSent + One(~r.ok)
        /\ ReleasedSent' = ReleasedSent + One(r.action = "release")
        /\ RenewedSent' = RenewedSent + One(r.action = "renew")
        /\ RebindedSent' = RebindedSent + One(r.action = "rebind")
        /\ FastSent' = FastSent + One(r \in Fast)
    BY <1>1, <2>1, SendCounts, FastSentKept, Zenon
  <2>3. OneIs(r)
    BY KindsOf
  <2>4. ASSUME NEW S, NEW one, One(r \in S) = one
        PROVE  Queued(submitted', S) = Queued(submitted, S) + one
    BY <1>1, <2>1, <2>4, QueuedAppend
  <2>5. /\ Queued(submitted', Dialled) = Queued(submitted, Dialled) + One(DialSucceeded(r))
        /\ Queued(submitted', NotOk) = Queued(submitted, NotOk) + One(~r.ok)
        /\ Queued(submitted', Fast) = Queued(submitted, Fast) + One(r \in Fast)
    BY <2>3, <2>4, Zenon DEF OneIs
  <2>6. Queued(submitted', Of("release"))
          = Queued(submitted, Of("release")) + One(r.action = "release")
    <3>1. One(r \in Of("release")) = One(r.action = "release")
      BY <2>3, Zenon DEF OneIs
    <3> QED BY <2>4, <3>1, Zenon
  <2>7. Queued(submitted', Of("renew"))
          = Queued(submitted, Of("renew")) + One(r.action = "renew")
    <3>1. One(r \in Of("renew")) = One(r.action = "renew")
      BY <2>3, Zenon DEF OneIs
    <3> QED BY <2>4, <3>1, Zenon
  <2>8. Queued(submitted', Of("rebind"))
          = Queued(submitted, Of("rebind")) + One(r.action = "rebind")
    <3>1. One(r \in Of("rebind")) = One(r.action = "rebind")
      BY <2>3, Zenon DEF OneIs
    <3> QED BY <2>4, <3>1, Zenon
  <2> QED BY <1>1, <2>2, <2>5, <2>6, <2>7, <2>8, Zenon DEF CountsInv
<1>3. CASE CollectResult /\ submitted' = submitted
  <2>1. UNCHANGED allSent /\ FastSent' = FastSent
    BY <1>1, <1>3, CollectCounts, FastSentKept
  <2> QED BY <1>1, <1>3, <2>1 DEF CountsInv, allSent
<1>4. CASE UNCHANGED <<summary, dialResultCh, submitted>>
  BY <1>1, <1>4 DEF CountsInv, SuccessSent, FailedSent, ReleasedSent, RenewedSent,
                    RebindedSent, FastSent
<1> QED BY <1>2, <1>3, <1>4
        DEF StatsNext, Close, CloseResults, Consume, CollectorExit, Over, vars, collectorVars

LEMMA SpanKept ==
  ASSUME StatsInv, [StatsNext]_vars
  PROVE  SpanInv'
<1>1. SpanInv /\ summary.Total \in Nat /\ summary \in Summary
  BY CollectedFacts DEF StatsInv, CollectorTypeOK
<1>2. CASE Submit
  BY <1>1, <1>2, SubmitKeepsCollected DEF SpanInv
<1>3. CASE CollectResult /\ submitted' = submitted
  <2> DEFINE n == summary.Total
             r == submitted[n + 1]
             b == summary.begin
             e == summary.end
  <2>1. /\ n + 1 \in DOMAIN submitted /\ summary' = Collect(summary, r)
        /\ summary'.Total = n + 1 /\ Collected' = Collected \cup {n + 1}
    BY <1>3, CollectDoes
  <2>2. r \in Result /\ r.start <= r.finish /\ r.finish <= MaxTime
    BY <2>1, CollectedFacts DEF StatsInv, ResultsInv
  <2>3. /\ r.start \in Nat /\ r.finish \in Nat /\ b \in Nat /\ e \in Nat
    BY <1>1, <2>2 DEF Result, Summary
  <2>4. /\ summary'.begin = Lesser(r.start, b)
        /\ summary'.end = Greater(r.finish, e)
        /\ summary'.TotalTime = summary'.end - summary'.begin
    BY <1>1, <2>1, <2>2, CollectTimes
  <2>5. summary'.Total # 0
    BY <1>1, <2>1
  <2>6. \A i \in Collected : i \in DOMAIN submitted /\ submitted[i] \in Result
    BY CollectedFacts
  <2>7. \A i \in Collected : submitted[i].start \in Nat /\ submitted[i].finish \in Nat
    BY <2>6 DEF Result
  <2> DEFINE b1 == Lesser(r.start, b)
             e1 == Greater(r.finish, e)
  <2>8. /\ b1 <= b /\ b1 <= r.start /\ (b1 = b \/ b1 = r.start) /\ b1 \in Nat
        /\ e <= e1 /\ r.finish <= e1 /\ (e1 = e \/ e1 = r.finish) /\ e1 \in Nat
    BY <2>3 DEF Lesser, Greater
  <2> HIDE DEF r, b1, e1, n, b, e
  <2>9. CASE n = 0
    <3>1. Collected = {}
      BY <2>9 DEF Collected, n
    <3>2. b1 = r.start /\ e1 = r.finish
      <4>1. b = FarFuture /\ e = 0
        BY <1>1, <2>9 DEF SpanInv, n, b, e
      <4> QED BY <2>2, <2>3, <2>8, <4>1, TimesFit
    <3> QED BY <1>3, <2>1, <2>3, <2>4, <2>5, <2>8, <3>1, <3>2 DEF SpanInv, r, b1, e1
  <2>10. CASE n # 0
    <3>1. /\ \A i \in Collected : b <= submitted[i].start /\ submitted[i].finish <= e
          /\ \E i \in Collected : b = submitted[i].start
          /\ \E i \in Collected : e = submitted[i].finish
      BY <1>1, <2>10 DEF SpanInv, n, b, e
    <3>2. \A i \in Collected : b1 <= submitted[i].start /\ submitted[i].finish <= e1
      BY <2>3, <2>7, <2>8, <3>1
    <3>3. \A i \in Collected' : b1 <= submitted[i].start /\ submitted[i].finish <= e1
      BY <2>1, <2>8, <3>2 DEF r
    <3>4. \E i \in Collected' : b1 = submitted[i].start
      BY <2>1, <2>8, <3>1 DEF r
    <3>5. \E i \in Collected' : e1 = submitted[i].finish
      BY <2>1, <2>8, <3>1 DEF r
    <3> QED BY <1>3, <2>4, <2>5, <3>3, <3>4, <3>5 DEF SpanInv, b1, e1
  <2> QED BY <2>9, <2>10
<1>4. CASE UNCHANGED <<summary, submitted>>
  BY <1>1, <1>4 DEF SpanInv, Collected
<1> QED BY <1>2, <1>3, <1>4
        DEF StatsNext, Close, CloseResults, Consume, CollectorExit, Over, vars, collectorVars

LEMMA ExtremesKept ==
  ASSUME StatsInv, [StatsNext]_vars
  PROVE  ExtremesInv'
<1>1. ExtremesInv /\ summary.Total \in Nat /\ summary \in Summary
  BY CollectedFacts DEF StatsInv, CollectorTypeOK
<1>2. CASE Submit
  <2>1. /\ summary' = summary /\ CollectedDials' = CollectedDials
        /\ \A i \in Collected : submitted'[i] = submitted[i]
    BY <1>2, SubmitKeepsCollected
  <2>2. \A i \in CollectedDials : DialTime(i)' = DialTime(i)
    BY <2>1, CollectedFacts DEF DialTime
  <2>3. summary.Total > 0 => submitted'[1] = submitted[1]
    BY <1>1, <2>1 DEF Collected
  <2> QED BY <1>1, <2>1, <2>2, <2>3 DEF ExtremesInv
<1>3. CASE CollectResult /\ submitted' = submitted
  <2> PICK n \in Nat : n = summary.Total
    BY <1>1
  <2> DEFINE r == submitted[n + 1]
             t == DialTime(n + 1)
             long == summary.Longest
             short == summary.Shortest
  <2>1. /\ n + 1 \in DOMAIN submitted /\ summary' = Collect(summary, r)
        /\ summary'.Total = n + 1
        /\ DialSucceeded(r) => CollectedDials' = CollectedDials \cup {n + 1}
        /\ ~DialSucceeded(r) => CollectedDials' = CollectedDials
    BY <1>3, CollectDoes
  <2>2. r \in Result /\ t \in 0..MaxTime /\ t = CompleteTime(r)
    BY <2>1, CollectedFacts DEF DialTime
  <2>3. long \in Nat /\ short \in Nat /\ n \in Nat /\ MaxDuration \in Nat \ {0} /\ MaxTime \in Nat
        /\ MaxTime < MaxDuration
    BY <1>1, TimesFit, DurationAssumption DEF Summary
  <2>4. \A i \in CollectedDials : DialTime(i) \in 0..MaxTime /\ DialTime(i)' = DialTime(i)
    BY <1>3, CollectedFacts DEF DialTime
  <2>5. \A i \in {n + 1} : DialTime(i)' = t
    BY <1>3 DEF DialTime
  <2>6. summary'.Total > 0 /\ summary'.Total # 0
    BY <2>1, <2>3
  <2>7. /\ DialSucceeded(r) => /\ summary'.Longest = Greater(t, long)
                               /\ summary'.Shortest = Shown(Lesser(t, short))
        /\ ~DialSucceeded(r) => summary'.Longest = long /\ summary'.Shortest = Shown(short)
    BY <1>1, <2>1, <2>2, CollectTimes
  <2>8. CollectedDials = {} \/ n > 0
    BY <2>3 DEF CollectedDials, Collected
  <2>9. n = 0 => CollectedDials = {} /\ short = MaxDuration /\ r = submitted[1]
    BY <1>1, <2>3, <2>8 DEF ExtremesInv
  <2>10. n > 0 => IF DialSucceeded(submitted[1])
                  THEN /\ \A i \in CollectedDials : short <= DialTime(i)
                       /\ \E i \in CollectedDials : DialTime(i) = short
                  ELSE short = 0
    BY <1>1 DEF ExtremesInv
  <2>11. n > 0 => short <= MaxTime
    BY <2>3, <2>4, <2>10
  <2>12. /\ \A i \in CollectedDials : DialTime(i) <= long
         /\ long = 0 \/ \E i \in CollectedDials : DialTime(i) = long
    BY <1>1 DEF ExtremesInv
  <2> HIDE DEF r, t, long, short
  <2>13. /\ \A i \in CollectedDials' : DialTime(i)' <= summary'.Longest
         /\ summary'.Longest = 0 \/ \E i \in CollectedDials' : DialTime(i)' = summary'.Longest
    <3>1. CASE DialSucceeded(r)
      <4> DEFINE g == Greater(t, long)
      <4>1. long <= g /\ t <= g /\ (g = long \/ g = t) /\ g \in Nat
        BY <2>2, <2>3 DEF Greater
      <4>2. summary'.Longest = g
        BY <2>7, <3>1
      <4> HIDE DEF g
      <4>3. \A i \in CollectedDials : DialTime(i)' <= g
        BY <2>3, <2>4, <2>12, <4>1
      <4>4. g = t \/ g = 0 \/ \E i \in CollectedDials : DialTime(i)' = g
        BY <2>4, <2>12, <4>1
      <4>5. CollectedDials' = CollectedDials \cup {n + 1} /\ \A i \in {n + 1} : DialTime(i)' = t
        BY <2>1, <2>5, <3>1
      <4> QED BY <4>1, <4>2, <4>3, <4>4, <4>5
    <3>2. CASE ~DialSucceeded(r)
      BY <2>1, <2>4, <2>7, <2>12, <3>2
    <3> QED BY <3>1, <3>2
  <2>14. IF DialSucceeded(submitted[1])
         THEN /\ \A i \in CollectedDials' : summary'.Shortest <= DialTime(i)'
              /\ \E i \in CollectedDials' : DialTime(i)' = summary'.Shortest
         ELSE summary'.Shortest = 0
    <3>1. CASE n = 0
      <4>1. CASE DialSucceeded(r)
        <5>1. summary'.Shortest = t
          BY <2>2, <2>3, <2>7, <2>9, <3>1, <4>1 DEF Lesser, Shown
        <5>2. CollectedDials' = {n + 1} /\ \A i \in {n + 1} : DialTime(i)' = t
          BY <2>1, <2>5, <2>9, <3>1, <4>1
        <5> QED BY <2>2, <2>3, <2>9, <3>1, <4>1, <5>1, <5>2
      <4>2. CASE ~DialSucceeded(r)
        BY <2>7, <2>9, <3>1, <4>2 DEF Shown
      <4> QED BY <4>1, <4>2
    <3>2. CASE n > 0 /\ DialSucceeded(submitted[1])
      <4>1. CASE DialSucceeded(r)
        <5> DEFINE l == Lesser(t, short)
        <5>1. l <= short /\ l <= t /\ (l = short \/ l = t) /\ l \in Nat /\ l <= MaxTime
          BY <2>2, <2>3, <2>11, <3>2 DEF Lesser
        <5>2. summary'.Shortest = l
          BY <2>3, <2>7, <4>1, <5>1 DEF Shown
        <5> HIDE DEF l
        <5>3. CollectedDials' = CollectedDials \cup {n + 1} /\ \A i \in {n + 1} : DialTime(i)' = t
          BY <2>1, <2>5, <4>1
        <5>4. \A i \in CollectedDials : l <= DialTime(i)'
          BY <2>3, <2>4, <2>10, <3>2, <5>1
        <5>5. l = t \/ \E i \in CollectedDials : DialTime(i)' = l
          BY <2>4, <2>10, <3>2, <5>1
        <5> QED BY <3>2, <5>1, <5>2, <5>3, <5>4, <5>5
      <4>2. CASE ~DialSucceeded(r)
        <5>1. summary'.Shortest = short /\ CollectedDials' = CollectedDials
          BY <2>1, <2>3, <2>7, <2>11, <3>2, <4>2 DEF Shown
        <5> QED BY <2>4, <2>10, <3>2, <5>1
      <4> QED BY <4>1, <4>2
    <3>3. CASE n > 0 /\ ~DialSucceeded(submitted[1])
      BY <2>2, <2>3, <2>7, <2>10, <3>3 DEF Lesser, Shown
    <3> QED BY <2>3, <3>1, <3>2, <3>3
  <2> QED BY <1>3, <2>6, <2>13, <2>14 DEF ExtremesInv
<1>4. CASE UNCHANGED <<summary, submitted>>
  BY <1>1, <1>4 DEF ExtremesInv, CollectedDials, Collected, DialTime
<1> QED BY <1>2, <1>3, <1>4
        DEF StatsNext, Close, CloseResults, Consume, CollectorExit, Over, vars, collectorVars

\* A value added to the window is its last; the others stay as far from the one
\* before, as long as they fit.
LEMMA AvgAddItems ==
  ASSUME NEW w \in Seq(Nat), NEW t \in Nat, Len(w) <= AvgWindow
  PROVE  /\ Len(AvgAdd(w, t)) = Lesser(AvgWindow, Len(w) + 1)
         /\ AvgAdd(w, t)[Len(AvgAdd(w, t))] = t
         /\ \A a \in Nat : a + 1 < AvgWindow /\ a < Len(w) =>
              AvgAdd(w, t)[Len(AvgAdd(w, t)) - (a + 1)] = w[Len(w) - a]
<1> DEFINE kept == IF Len(w) = AvgWindow THEN Tail(w) ELSE w
           v == AvgAdd(w, t)
           m == Len(w)
           k == Len(kept)
<1>1. AvgWindow \in Nat \ {0} /\ m \in Nat
  BY DurationAssumption
<1>2. kept \in Seq(Nat) /\ k \in Nat
      /\ (m = AvgWindow => k = m - 1 /\ \A i \in 1..k : kept[i] = w[i + 1])
      /\ (m # AvgWindow => k = m /\ \A i \in 1..k : kept[i] = w[i])
  <2>1. CASE m = AvgWindow
    <3>1. w # <<>> /\ kept = Tail(w)
      BY <1>1, <2>1
    <3> HIDE DEF kept
    <3> QED BY <1>1, <2>1, <3>1, HeadTailProperties
  <2>2. CASE m # AvgWindow
    BY <1>1, <2>2
  <2> QED BY <2>1, <2>2
<1>3. v = Append(kept, t)
  BY DEF AvgAdd
<1> HIDE DEF kept, v
<1>4. /\ Len(v) = k + 1 /\ v[k + 1] = t
      /\ \A i \in 1..k : v[i] = kept[i]
  BY <1>2, <1>3, AppendProperties
<1> HIDE DEF k, m
<1>5. k + 1 = Lesser(AvgWindow, m + 1)
  BY <1>1, <1>2 DEF Lesser, m
<1>6. ASSUME NEW a \in Nat, a + 1 < AvgWindow, a < m
      PROVE  v[Len(v) - (a + 1)] = w[m - a]
  <2>1. Len(v) - (a + 1) = k - a
    BY <1>2, <1>4
  <2>2. CASE m = AvgWindow
    <3>1. k - a \in 1..k /\ (k - a) + 1 = m - a
      BY <1>1, <1>2, <1>6, <2>2
    <3> QED BY <1>2, <1>4, <2>1, <2>2, <3>1
  <2>3. CASE m # AvgWindow
    <3>1. k - a \in 1..k /\ k - a = m - a
      BY <1>1, <1>2, <1>6, <2>3
    <3> QED BY <1>2, <1>4, <2>1, <2>3, <3>1
  <2> QED BY <2>2, <2>3
<1> QED BY <1>4, <1>5, <1>6 DEF v, m

LEMMA LaterFewer ==
  ASSUME StatsInv, NEW i \in CollectedDials
  PROVE  /\ Cardinality(Later(i)) \in Nat /\ IsFiniteSet(Later(i))
         /\ Cardinality(CollectedDials) \in Nat
         /\ Cardinality(Later(i)) < Cardinality(CollectedDials)
<1>1. IsFiniteSet(CollectedDials) /\ i \in Nat
  BY CollectedFacts DEF Collected
<1>2. Later(i) \subseteq CollectedDials \ {i}
  BY <1>1 DEF Later
<1>3. /\ IsFiniteSet(CollectedDials \ {i})
      /\ Cardinality(CollectedDials \ {i}) = Cardinality(CollectedDials) - 1
  BY <1>1, FS_RemoveElement
<1>4. IsFiniteSet(Later(i)) /\ Cardinality(Later(i)) <= Cardinality(CollectedDials \ {i})
  BY <1>2, <1>3, FS_Subset
<1>5. Cardinality(Later(i)) \in Nat /\ Cardinality(CollectedDials) \in Nat
  BY <1>1, <1>4, FS_CardinalityType
<1> QED BY <1>3, <1>4, <1>5

LEMMA WindowKept ==
  ASSUME StatsInv, [StatsNext]_vars
  PROVE  WindowInv'
<1>1. WindowInv /\ summary.Total \in Nat /\ summary \in Summary
  BY CollectedFacts DEF StatsInv, CollectorTypeOK
<1>2. CASE Submit
  <2>1. /\ summary' = summary /\ CollectedDials' = CollectedDials
        /\ \A i \in Collected : submitted'[i] = submitted[i]
    BY <1>2, SubmitKeepsCollected
  <2>2. \A i \in CollectedDials : DialTime(i)' = DialTime(i)
    BY <2>1, CollectedFacts DEF DialTime
  <2> QED BY <1>1, <2>1, <2>2 DEF WindowInv, Later
<1>3. CASE CollectResult /\ submitted' = submitted
  <2> PICK n \in Nat : n = summary.Total
    BY <1>1
  <2> DEFINE r == submitted[n + 1]
             t == CompleteTime(r)
             w == summary.window
             D == CollectedDials
             c(i) == Cardinality(Later(i))
  <2>1. /\ n + 1 \in DOMAIN submitted /\ summary' = Collect(summary, r)
        /\ DialSucceeded(r) => CollectedDials' = D \cup {n + 1}
        /\ ~DialSucceeded(r) => CollectedDials' = D
    BY <1>3, CollectDoes
  <2>2. r \in Result /\ t \in Nat
    BY <2>1, CollectedFacts, TimesFit DEF DialTime
  <2>3. \A i \in Nat : DialTime(i)' = DialTime(i)
    BY <1>3 DEF DialTime
  <2>4. IsFiniteSet(D) /\ \A i \in D : i \in Nat /\ i < n + 1
    BY CollectedFacts DEF Collected
  <2>5. CASE ~DialSucceeded(r)
    <3>1. summary'.window = w /\ CollectedDials' = D
      BY <1>1, <2>1, <2>2, <2>5, CollectTimes
    <3> QED BY <1>1, <2>3, <2>4, <3>1 DEF WindowInv, Later
  <2>6. CASE DialSucceeded(r)
    <3>1. summary'.window = AvgAdd(w, t) /\ CollectedDials' = D \cup {n + 1}
      BY <1>1, <2>1, <2>2, <2>6, CollectTimes
    <3>2. Cardinality(CollectedDials') = Cardinality(D) + 1 /\ Cardinality(D) \in Nat
      <4>1. n + 1 \notin D
        BY <2>4
      <4>2. Cardinality(D \cup {n + 1}) = Cardinality(D) + 1
        BY <2>4, <4>1, FS_AddElement
      <4> QED BY <2>4, <3>1, <4>2, FS_CardinalityType
    <3>3. ASSUME NEW i \in D
          PROVE  Cardinality(Later(i)') = c(i) + 1
      <4>1. i \in Nat /\ i < n + 1 /\ n + 1 \notin D
        BY <2>4
      <4>2. Later(i)' = Later(i) \cup {n + 1} /\ n + 1 \notin Later(i)
        BY <3>1, <4>1 DEF Later
      <4> QED BY <4>2, LaterFewer, FS_AddElement
    <3>4. ASSUME NEW i \in {n + 1}
          PROVE  Cardinality(Later(i)') = 0
      <4>1. Later(i)' = {}
        BY <2>4, <3>1 DEF Later
      <4> QED BY <4>1, FS_EmptySet
    <3>5. w \in Seq(Nat) /\ Len(w) \in Nat /\ Len(w) = Lesser(AvgWindow, Cardinality(D))
          /\ AvgWindow \in Nat \ {0}
      BY <1>1, DurationAssumption DEF Summary, WindowInv
    <3>6. Len(w) <= AvgWindow /\ Lesser(AvgWindow, Len(w) + 1) = Lesser(AvgWindow, Cardinality(D) + 1)
      BY <3>2, <3>5 DEF Lesser
    <3> DEFINE v == AvgAdd(w, t)
    <3>7. /\ Len(v) = Lesser(AvgWindow, Cardinality(D) + 1)
          /\ v[Len(v)] = t /\ Len(v) \in Nat
          /\ \A a \in Nat : a + 1 < AvgWindow /\ a < Len(w) =>
               v[Len(v) - (a + 1)] = w[Len(w) - a]
      <4>1. Lesser(AvgWindow, Cardinality(D) + 1) \in Nat
        BY <3>2, <3>5 DEF Lesser
      <4> QED BY <2>2, <3>5, <3>6, <4>1, AvgAddItems
    <3> HIDE DEF v, w
    <3>8. ASSUME NEW i \in D, Cardinality(Later(i)') < AvgWindow
          PROVE  v[Len(v) - Cardinality(Later(i)')] = DialTime(i)
      <4>1. c(i) \in Nat /\ c(i) < Cardinality(D)
        BY LaterFewer
      <4>2. c(i) + 1 < AvgWindow /\ Cardinality(Later(i)') = c(i) + 1
        BY <3>3, <3>8
      <4>3. c(i) < Len(w) /\ c(i) < AvgWindow
        BY <3>2, <3>5, <4>1, <4>2 DEF Lesser
      <4>4. w[Len(w) - c(i)] = DialTime(i)
        BY <1>1, <4>3 DEF WindowInv, w
      <4> QED BY <3>7, <4>1, <4>2, <4>3, <4>4
    <3>9. ASSUME NEW i \in {n + 1}
          PROVE  v[Len(v) - Cardinality(Later(i)')] = DialTime(i)
      BY <3>4, <3>7 DEF DialTime
    <3>10. \A i \in CollectedDials' : DialTime(i)' = DialTime(i)
      BY <2>3, <2>4, <3>1
    <3>11. \A i \in CollectedDials' :
             Cardinality(Later(i)') < AvgWindow =>
               v[Len(v) - Cardinality(Later(i)')] = DialTime(i)'
      BY <3>1, <3>8, <3>9, <3>10
    <3>12. summary'.window = v
      BY <3>1 DEF v
    <3> QED BY <3>2, <3>7, <3>11, <3>12 DEF WindowInv
  <2> QED BY <2>5, <2>6
<1>4. CASE UNCHANGED <<summary, submitted>>
  BY <1>1, <1>4 DEF WindowInv, Later, CollectedDials, Collected, DialTime
<1> QED BY <1>2, <1>3, <1>4
        DEF StatsNext, Close, CloseResults, Consume, CollectorExit, Over, vars, collectorVars

LEMMA StatsKept == StatsInv /\ [StatsNext]_vars => StatsInv'
BY ResultsKept, QueueKept, CountsKept, SpanKept, ExtremesKept, WindowKept DEF StatsInv

\* The inductive invariant: from it the theorems below follow.
THEOREM StatsInvariance == Spec => []StatsInv
BY StatsInitially, StatsKept, PTL DEF Spec

-----------------------------------------------------------------------------
(* What the invariant says when the collector has returned.                *)

\* Nothing is left in the channel: all results have been collected.
LEMMA AllCollected ==
  ASSUME StatsInv, collectorPc = "done"
  PROVE  /\ dialResultCh = <<>>
         /\ summary.Total = Len(submitted) /\ Collected = DOMAIN submitted
         /\ CollectedDials = Dials
         /\ \A i \in Dials : Later(i) = DialsAfter(i)
<1>1. dialResultCh = <<>>
  BY DEF StatsInv, QueueInv
<1>2. Len(dialResultCh) = 0 /\ submitted \in Seq(Result)
  BY <1>1 DEF StatsInv, ResultsInv
<1>3. summary.Total = Len(submitted)
  BY <1>2, CollectedFacts DEF StatsInv, QueueInv
<1>4. Collected = DOMAIN submitted
  BY <1>2, <1>3 DEF Collected
<1>5. CollectedDials = Dials
  BY <1>4 DEF CollectedDials, Dials
<1> QED BY <1>1, <1>3, <1>4, <1>5 DEF Later, DialsAfter

\* The results of a kind are those at its places.
LEMMA PlacesOfKind ==
  ASSUME StatsInv
  PROVE  /\ Places(submitted, Dialled) = Dials
         /\ Places(submitted, NotOk) = Failures
         /\ \A a : Places(submitted, Of(a)) = OfAction(a)
         /\ Places(submitted, Fast) = FastDials
<1>1. \A i \in DOMAIN submitted : submitted[i] \in Result
  BY CollectedFacts
<1>2. \A i \in DOMAIN submitted :
        CompleteTime(submitted[i]) = submitted[i].finish - submitted[i].start
  <2>1. ASSUME NEW i \in DOMAIN submitted
        PROVE  CompleteTime(submitted[i]) = submitted[i].finish - submitted[i].start
    <3>1. submitted[i].start \in Nat /\ submitted[i].finish \in Nat
      BY <1>1, <2>1 DEF Result
    <3>2. submitted[i].start <= submitted[i].finish
      BY <2>1 DEF StatsInv, ResultsInv
    <3> QED BY <3>1, <3>2 DEF CompleteTime, Greater
  <2> QED BY <2>1
<1>3. Places(submitted, Dialled) = Dials /\ Places(submitted, NotOk) = Failures
  BY <1>1, Zenon DEF Places, Dialled, Dials, NotOk, Failures
<1>4. \A a : Places(submitted, Of(a)) = OfAction(a)
  BY <1>1, Zenon DEF Places, Of, OfAction
<1>5. Places(submitted, Fast) = FastDials
  BY <1>1, <1>2 DEF Places, Fast, FastDials, Dials
<1> QED BY <1>3, <1>4, <1>5

LEMMA MaxIs ==
  ASSUME NEW S \in SUBSET Int, NEW m \in S, \A x \in S : x <= m
  PROVE  Max(S) = m
<1>1. \A x \in S : m >= x
  OBVIOUS
<1>2. Max(S) \in S /\ \A x \in S : Max(S) >= x
  BY <1>1, Zenon DEF Max
<1>3. PICK n : n = Max(S)
  OBVIOUS
<1>4. n \in Int /\ m \in Int /\ n >= m /\ n <= m
  BY <1>2, <1>3
<1>5. n = m
  BY <1>4
<1> QED BY <1>3, <1>5

LEMMA MinIs ==
  ASSUME NEW S \in SUBSET Int, NEW m \in S, \A x \in S : m <= x
  PROVE  Min(S) = m
<1>1. Min(S) \in S /\ \A x \in S : Min(S) <= x
  BY Zenon DEF Min
<1>2. PICK n : n = Min(S)
  OBVIOUS
<1>3. n \in Int /\ m \in Int /\ n >= m /\ n <= m
  BY <1>1, <1>2
<1>4. n = m
  BY <1>3
<1> QED BY <1>2, <1>4

\* The successes of an action are some of its results.
LEMMA SomeSucceed ==
  ASSUME StatsInv, NEW a
  PROVE  /\ Cardinality(Succeeded(a)) \in Nat /\ Cardinality(OfAction(a)) \in Nat
         /\ Cardinality(Succeeded(a)) <= Cardinality(OfAction(a))
<1>1. submitted \in Seq(Result)
  BY CollectedFacts DEF StatsInv, ResultsInv
<1>2. IsFiniteSet(DOMAIN submitted)
  <2>1. DOMAIN submitted = 1..Len(submitted) /\ Len(submitted) \in Nat
    BY <1>1
  <2> QED BY <2>1, FS_Interval
<1>3. OfAction(a) \subseteq DOMAIN submitted /\ Succeeded(a) \subseteq OfAction(a)
  BY DEF OfAction, Succeeded
<1>4. IsFiniteSet(OfAction(a)) /\ IsFiniteSet(Succeeded(a))
  BY <1>2, <1>3, FS_Subset
<1> QED BY <1>3, <1>4, FS_Subset, FS_CardinalityType

\* The counters of the statistics say how many results there are, fail and are
\* successful or fast dials, and those of the other actions lie between their
\* successes and their results, whatever the results, the order in which they
\* arrive and the time they wait (sched.go:860-880).
THEOREM StatsCounted == Spec => []CountersExact
<1>1. StatsInv => CountersExact
  <2> SUFFICES ASSUME StatsInv, collectorPc = "done"
               PROVE  /\ summary.Total = Len(submitted)
                      /\ summary.Failed = Cardinality(Failures)
                      /\ summary.Success = Cardinality(Dials)
                      /\ summary.Released \in
                           Cardinality(Succeeded("release"))..Cardinality(OfAction("release"))
                      /\ summary.Renewed \in
                           Cardinality(Succeeded("renew"))..Cardinality(OfAction("renew"))
                      /\ summary.Rebinded \in
                           Cardinality(Succeeded("rebind"))..Cardinality(OfAction("rebind"))
                      /\ summary.LessThanSecond = Cardinality(FastDials)
    BY DEF CountersExact
  <2>1. dialResultCh = <<>> /\ summary.Total = Len(submitted)
    BY AllCollected
  <2>2. /\ summary.Success = SuccessSent /\ summary.Failed = FailedSent
        /\ summary.Released = ReleasedSent /\ summary.Renewed = RenewedSent
        /\ summary.Rebinded = RebindedSent
    BY <2>1, SentType DEF StatsInv
  <2>3. summary.LessThanSecond = FastSent
    <3>1. Queued(dialResultCh, Fast) = 0
      BY <2>1, QueuedType DEF StatsInv, CollectorTypeOK
    <3>2. summary.LessThanSecond \in Nat
      BY DEF StatsInv, CollectorTypeOK, Summary
    <3> QED BY <3>1, <3>2 DEF FastSent
  <2>4. /\ summary.Failed = Cardinality(Failures)
        /\ summary.Success = Cardinality(Dials)
        /\ summary.Released = Cardinality(OfAction("release"))
        /\ summary.Renewed = Cardinality(OfAction("renew"))
        /\ summary.Rebinded = Cardinality(OfAction("rebind"))
        /\ summary.LessThanSecond = Cardinality(FastDials)
    BY <2>1, <2>2, <2>3, PlacesOfKind, Zenon DEF StatsInv, CountsInv, Queued
  <2>5. \A a : Cardinality(OfAction(a)) \in
               Cardinality(Succeeded(a))..Cardinality(OfAction(a))
    <3>1. SUFFICES ASSUME NEW a
                   PROVE  Cardinality(OfAction(a)) \in
                            Cardinality(Succeeded(a))..Cardinality(OfAction(a))
      OBVIOUS
    <3> QED BY SomeSucceed
  <2> QED BY <2>1, <2>4, <2>5
<1> QED BY <1>1, StatsInvariance, PTL

\* The duration, the slowest dial and the average are those of all results,
\* in whatever order they arrive (sched.go:850-859, 876-883, 890).
THEOREM StatsTimed == Spec => []TimesExact
<1>1. StatsInv => TimesExact
  <2> SUFFICES ASSUME StatsInv, collectorPc = "done", submitted # <<>>
               PROVE  /\ summary.TotalTime = Max({r.finish : r \in Results})
                                               - Min({r.start : r \in Results})
                      /\ summary.Longest = Max({0} \cup {DialTime(i) : i \in Dials})
                      /\ Len(summary.window) = Min({AvgWindow, Cardinality(Dials)})
                      /\ \A i \in Dials :
                           LET after == Cardinality(DialsAfter(i))
                           IN  after < AvgWindow =>
                                 summary.window[Len(summary.window) - after] = DialTime(i)
    BY DEF TimesExact
  <2>1. /\ summary.Total # 0 /\ Collected = DOMAIN submitted /\ CollectedDials = Dials
        /\ \A i \in Dials : Later(i) = DialsAfter(i)
    BY AllCollected DEF StatsInv, ResultsInv
  <2>2. \A i \in DOMAIN submitted : /\ submitted[i].start \in Nat /\ submitted[i].finish \in Nat
                                    /\ DialTime(i) \in Nat
    BY CollectedFacts, TimesFit DEF Result
  <2>3. SpanInv /\ ExtremesInv /\ WindowInv /\ summary \in Summary
    BY DEF StatsInv, CollectorTypeOK
  <2>4. Max({r.finish : r \in Results}) = summary.end
    <3>1. {r.finish : r \in Results} = {submitted[i].finish : i \in DOMAIN submitted}
      BY DEF Results
    <3>2. PICK i \in DOMAIN submitted : summary.end = submitted[i].finish
      BY <2>1, <2>3 DEF SpanInv
    <3>3. \A j \in DOMAIN submitted : submitted[j].finish <= summary.end
      BY <2>1, <2>3 DEF SpanInv
    <3> DEFINE S == {submitted[k].finish : k \in DOMAIN submitted}
    <3>4. S \in SUBSET Int /\ summary.end \in S /\ \A x \in S : x <= summary.end
      BY <2>2, <3>2, <3>3
    <3> HIDE DEF S
    <3>5. Max(S) = summary.end
      BY <3>4, MaxIs
    <3> QED BY <3>1, <3>5 DEF S
  <2>5. Min({r.start : r \in Results}) = summary.begin
    <3>1. {r.start : r \in Results} = {submitted[i].start : i \in DOMAIN submitted}
      BY DEF Results
    <3>2. PICK i \in DOMAIN submitted : summary.begin = submitted[i].start
      BY <2>1, <2>3 DEF SpanInv
    <3>3. \A j \in DOMAIN submitted : summary.begin <= submitted[j].start
      BY <2>1, <2>3 DEF SpanInv
    <3> DEFINE S == {submitted[k].start : k \in DOMAIN submitted}
    <3>4. S \in SUBSET Int /\ summary.begin \in S /\ \A x \in S : summary.begin <= x
      BY <2>2, <3>2, <3>3
    <3> HIDE DEF S
    <3>5. Min(S) = summary.begin
      BY <3>4, MinIs
    <3> QED BY <3>1, <3>5 DEF S
  <2>6. summary.TotalTime = summary.end - summary.begin
    BY <2>1, <2>3 DEF SpanInv
  <2>7. Dials \subseteq DOMAIN submitted
    BY DEF Dials
  <2>8. Max({0} \cup {DialTime(i) : i \in Dials}) = summary.Longest
    <3> DEFINE S == {0} \cup {DialTime(i) : i \in Dials}
    <3>1. S \in SUBSET Int
      BY <2>2, <2>7
    <3>2. summary.Longest \in S /\ summary.Longest \in Nat
      BY <2>1, <2>3 DEF ExtremesInv, Summary
    <3>3. \A x \in S : x <= summary.Longest
      BY <2>1, <2>3, <3>2 DEF ExtremesInv
    <3> HIDE DEF S
    <3>4. Max(S) = summary.Longest
      BY <3>1, <3>2, <3>3, MaxIs
    <3> QED BY <3>4 DEF S
  <2>9. Len(summary.window) = Min({AvgWindow, Cardinality(Dials)})
    <3> DEFINE n == Cardinality(Dials)
               S == {AvgWindow, n}
               l == Lesser(AvgWindow, n)
    <3>1. n \in Nat /\ AvgWindow \in Nat
      BY <2>1, CollectedFacts, FS_CardinalityType, DurationAssumption
    <3> HIDE DEF n
    <3>2. S \in SUBSET Int /\ l \in S /\ \A x \in S : l <= x
      BY <3>1 DEF Lesser
    <3> HIDE DEF S, l
    <3>3. Min(S) = l
      BY <3>2, MinIs
    <3> QED BY <2>1, <2>3, <3>3 DEF WindowInv, S, l, n
  <2>10. \A i \in Dials :
           Cardinality(DialsAfter(i)) < AvgWindow =>
             summary.window[Len(summary.window) - Cardinality(DialsAfter(i))] = DialTime(i)
    BY <2>1, <2>3 DEF WindowInv
  <2> QED BY <2>4, <2>5, <2>6, <2>8, <2>9, <2>10
<1> QED BY <1>1, StatsInvariance, PTL

\* The fastest dial shown is the fastest of all dials if the first result is
\* one (sched.go:884-893).
THEOREM StatsShortest == Spec => []ShortestExact
<1>1. StatsInv => ShortestExact
  <2> SUFFICES ASSUME StatsInv, collectorPc = "done", submitted # <<>>,
                      DialSucceeded(Head(submitted))
               PROVE  summary.Shortest = Min({DialTime(i) : i \in Dials})
    BY DEF ShortestExact
  <2>1. /\ submitted \in Seq(Result) /\ summary.Total \in Nat /\ summary.Total # 0
        /\ CollectedDials = Dials
    BY AllCollected, CollectedFacts DEF StatsInv, ResultsInv
  <2>2. Head(submitted) = submitted[1]
    BY <2>1
  <2>3. /\ \A i \in Dials : summary.Shortest <= DialTime(i)
        /\ \E i \in Dials : DialTime(i) = summary.Shortest
    BY <2>1, <2>2 DEF StatsInv, ExtremesInv
  <2> DEFINE S == {DialTime(i) : i \in Dials}
  <2>4. \A i \in Dials : DialTime(i) \in Nat
    BY CollectedFacts, TimesFit DEF Dials
  <2>5. S \in SUBSET Int /\ summary.Shortest \in S /\ \A x \in S : summary.Shortest <= x
    BY <2>3, <2>4
  <2> HIDE DEF S
  <2>6. Min(S) = summary.Shortest
    BY <2>5, MinIs
  <2> QED BY <2>6 DEF S
<1> QED BY <1>1, StatsInvariance, PTL

=============================================================================
