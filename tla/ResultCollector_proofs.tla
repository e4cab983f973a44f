----------------------- MODULE ResultCollector_proofs -----------------------
(***************************************************************************)
(* Lemmas about the statistics and the collector, for every result, window *)
(* size and channel capacity: the senders of Dora and ThreeR rest on them. *)
(***************************************************************************)
EXTENDS ResultCollector, TLAPS, SequenceTheorems, FiniteSetTheorems, FunctionTheorems

\* The counters of two summaries agree.
SameCounts(s, t) ==
  /\ t.Total = s.Total
  /\ t.Success = s.Success
  /\ t.Failed = s.Failed
  /\ t.Released = s.Released
  /\ t.Renewed = s.Renewed
  /\ t.Rebinded = s.Rebinded

\* The counters of t are those of s with one result more.
CountsOneMore(s, r, t) ==
  /\ t.Total = s.Total + 1
  /\ t.Success = s.Success + One(DialSucceeded(r))
  /\ t.Failed = s.Failed + One(~r.ok)
  /\ t.Released = s.Released + One(r.action = "release")
  /\ t.Renewed = s.Renewed + One(r.action = "renew")
  /\ t.Rebinded = s.Rebinded + One(r.action = "rebind")

-----------------------------------------------------------------------------
(* The steps of collectResults.                                            *)

LEMMA SpanType ==
  ASSUME NEW s \in Summary, NEW r \in Result
  PROVE  Span(s, r) \in Summary /\ SameCounts(s, Span(s, r))
<1> DEFINE b == Lesser(r.start, s.begin)
           e == Greater(r.finish, s.end)
<1>1. b \in Nat /\ e \in Nat
  BY DEF Lesser, Greater, Summary, Result
<1>2. e - b \in Int
  BY <1>1
<1> HIDE DEF b, e
<1> DEFINE d == e - b
<1>3. d \in Int
  BY <1>2
<1> HIDE DEF d
<1>4. [s EXCEPT !.begin = b, !.end = e, !.TotalTime = d] \in Summary
  BY <1>1, <1>3, Zenon DEF Summary
<1>5. SameCounts(s, [s EXCEPT !.begin = b, !.end = e, !.TotalTime = d])
  BY DEF Summary, SameCounts
<1>6. Span(s, r) = [s EXCEPT !.begin = b, !.end = e, !.TotalTime = d]
  BY Zenon DEF Span, b, e, d
<1> QED  BY <1>4, <1>5, <1>6

LEMMA CountType ==
  ASSUME NEW s \in Summary, NEW r \in Result
  PROVE  Count(s, r) \in Summary /\ CountsOneMore(s, r, Count(s, r))
<1> DEFINE rel == s.Released + One(r.action = "release")
           reb == s.Rebinded + One(r.action = "rebind")
           ren == s.Renewed + One(r.action = "renew")
           f   == s.Failed + One(~r.ok)
           ok  == s.Success + One(DialSucceeded(r))
           n   == s.Total + 1
<1>1. /\ rel \in Nat /\ reb \in Nat /\ ren \in Nat
      /\ f \in Nat /\ ok \in Nat /\ n \in Nat
  <2>1. /\ s.Total \in Nat /\ s.Released \in Nat /\ s.Rebinded \in Nat
        /\ s.Renewed \in Nat /\ s.Failed \in Nat /\ s.Success \in Nat
    BY DEF Summary
  <2>2. /\ One(r.action = "release") \in Nat /\ One(r.action = "rebind") \in Nat
        /\ One(r.action = "renew") \in Nat /\ One(~r.ok) \in Nat
        /\ One(DialSucceeded(r)) \in Nat
    BY DEF One
  <2> QED  BY <2>1, <2>2
<1> HIDE DEF rel, reb, ren, f, ok, n
<1> DEFINE t == [s EXCEPT !.Total = n, !.Released = rel, !.Rebinded = reb,
                          !.Renewed = ren, !.Failed = f, !.Success = ok]
<1>2. t \in Summary
  BY <1>1, Zenon DEF Summary
<1>3. /\ t.Total = n /\ t.Released = rel /\ t.Rebinded = reb
      /\ t.Renewed = ren /\ t.Failed = f /\ t.Success = ok
  BY DEF Summary
<1>4. Count(s, r) = t
  BY Zenon DEF Count, rel, reb, ren, f, ok, n
<1> HIDE DEF t
<1> QED  BY <1>2, <1>3, <1>4, Zenon DEF CountsOneMore, rel, reb, ren, f, ok, n

\* The moving average holds natural numbers.
LEMMA AvgAddType ==
  ASSUME NEW w \in Seq(Nat), NEW t \in Nat
  PROVE  AvgAdd(w, t) \in Seq(Nat)
<1>1. CASE Len(w) = AvgWindow
  <2>1. w # <<>>
    BY <1>1, DurationAssumption
  <2>2. Tail(w) \in Seq(Nat)
    BY <2>1
  <2> QED  BY <1>1, <2>2 DEF AvgAdd
<1>2. CASE Len(w) # AvgWindow
  BY <1>2 DEF AvgAdd
<1> QED  BY <1>1, <1>2

LEMMA DialTimesType ==
  ASSUME NEW s \in Summary, NEW r \in Result
  PROVE  DialTimes(s, r) \in Summary /\ SameCounts(s, DialTimes(s, r))
<1> DEFINE t     == CompleteTime(r)
           w     == AvgAdd(s.window, t)
           n     == s.LessThanSecond + One(t < Second)
           long  == Greater(t, s.Longest)
           short == Lesser(t, s.Shortest)
<1>1. t \in Nat
  BY DEF CompleteTime, Greater, Result
<1> HIDE DEF t
<1>2. w \in Seq(Nat)
  BY <1>1, AvgAddType DEF Summary
<1>3. n \in Nat /\ long \in Nat /\ short \in Nat
  <2>1. s.LessThanSecond \in Nat /\ s.Longest \in Nat /\ s.Shortest \in Nat
    BY DEF Summary
  <2>2. n \in Nat
    BY <2>1 DEF One
  <2>3. long \in Nat /\ short \in Nat
    BY <1>1, <2>1 DEF Greater, Lesser
  <2> QED  BY <2>2, <2>3
<1> HIDE DEF w, n, long, short
<1> DEFINE u == [s EXCEPT !.window = w, !.LessThanSecond = n,
                          !.Longest = long, !.Shortest = short]
<1>4. u \in Summary
  BY <1>2, <1>3, Zenon DEF Summary
<1>5. SameCounts(s, u) /\ SameCounts(s, s)
  BY DEF Summary, SameCounts
<1>6. DialTimes(s, r) = IF DialSucceeded(r) THEN u ELSE s
  BY Zenon DEF DialTimes, t, w, n, long, short
<1> QED  BY <1>4, <1>5, <1>6

LEMMA ShowShortestType ==
  ASSUME NEW s \in Summary
  PROVE  ShowShortest(s) \in Summary /\ SameCounts(s, ShowShortest(s))
BY DEF ShowShortest, Summary, SameCounts

\* Folding a result into the summary keeps every field in its range and
\* counts the result exactly once, under what it says.
LEMMA CollectType ==
  ASSUME NEW s \in Summary, NEW r \in Result
  PROVE  Collect(s, r) \in Summary /\ CountsOneMore(s, r, Collect(s, r))
<1> DEFINE a == Span(s, r)   b == Count(a, r)   c == DialTimes(b, r)   d == ShowShortest(c)
<1>1. a \in Summary /\ SameCounts(s, a)
  BY SpanType
<1> HIDE DEF a
<1>2. b \in Summary /\ CountsOneMore(a, r, b)
  BY <1>1, CountType
<1> HIDE DEF b
<1>3. c \in Summary /\ SameCounts(b, c)
  BY <1>2, DialTimesType
<1> HIDE DEF c
<1>4. d \in Summary /\ SameCounts(c, d)
  BY <1>3, ShowShortestType
<1> HIDE DEF d
<1>5. CountsOneMore(s, r, d)
  BY <1>1, <1>2, <1>3, <1>4, Zenon DEF SameCounts, CountsOneMore
<1> QED  BY <1>4, <1>5 DEF Collect, a, b, c, d

LEMMA NewSummaryType ==
  /\ NewSummary \in Summary
  /\ NewSummary.Total = 0 /\ NewSummary.Success = 0 /\ NewSummary.Failed = 0
  /\ NewSummary.Released = 0 /\ NewSummary.Renewed = 0 /\ NewSummary.Rebinded = 0
BY DurationAssumption DEF NewSummary, Summary

LEMMA CountsType ==
  ASSUME NEW s \in Summary
  PROVE  /\ s.Total \in Nat /\ s.Success \in Nat /\ s.Failed \in Nat
         /\ s.Released \in Nat /\ s.Renewed \in Nat /\ s.Rebinded \in Nat
BY DEF Summary

-----------------------------------------------------------------------------
(* The results of a kind in a queue.                                       *)

Places(q, S) == {k \in DOMAIN q : q[k] \in S}
Queued(q, S) == Cardinality(Places(q, S))

LEMMA QueuedType ==
  ASSUME NEW R, NEW q \in Seq(R), NEW S
  PROVE  /\ IsFiniteSet(Places(q, S)) /\ Queued(q, S) \in Nat
         /\ q = <<>> => Queued(q, S) = 0
         /\ R \subseteq S => Queued(q, S) = Len(q)
<1>1. Len(q) \in Nat /\ DOMAIN q = 1..Len(q)
  BY LenProperties
<1>2. IsFiniteSet(1..Len(q)) /\ Cardinality(1..Len(q)) = Len(q)
  BY <1>1, FS_Interval
<1>3. IsFiniteSet(Places(q, S))
  BY <1>1, <1>2, FS_Subset DEF Places
<1>4. ASSUME q = <<>>
      PROVE  Queued(q, S) = 0
  <2>1. Places(q, S) = {}
    BY <1>4 DEF Places
  <2> QED  BY <2>1, FS_EmptySet DEF Queued
<1>5. ASSUME R \subseteq S
      PROVE  Queued(q, S) = Len(q)
  <2>1. \A k \in 1..Len(q) : q[k] \in S
    BY <1>1, <1>5, ElementOfSeq
  <2>2. Places(q, S) = 1..Len(q)
    BY <1>1, <2>1 DEF Places
  <2> QED  BY <1>2, <2>2 DEF Queued
<1> QED  BY <1>3, <1>4, <1>5, FS_CardinalityType DEF Queued

LEMMA QueuedAppend ==
  ASSUME NEW R, NEW q \in Seq(R), NEW r \in R, NEW S
  PROVE  Queued(Append(q, r), S) = Queued(q, S) + One(r \in S)
<1> DEFINE p == Append(q, r)
           n == Len(q) + 1
<1>1. /\ Len(q) \in Nat /\ DOMAIN q = 1..Len(q)
      /\ p \in Seq(R) /\ Len(p) = n
      /\ \A i \in 1..Len(q) : p[i] = q[i]
      /\ p[n] = r
  BY LenProperties, AppendProperties
<1>2. DOMAIN p = 1..n
  BY <1>1, LenProperties
<1> HIDE DEF p
<1>3. n \notin Places(q, S)
  BY <1>1 DEF Places
<1>4. IsFiniteSet(Places(q, S)) /\ Queued(q, S) \in Nat
  BY QueuedType
<1>5. CASE r \in S
  <2>1. Places(p, S) = Places(q, S) \cup {n}
    BY <1>1, <1>2, <1>5 DEF Places
  <2>2. Cardinality(Places(q, S) \cup {n}) = Cardinality(Places(q, S)) + 1
    BY <1>3, <1>4, FS_AddElement, Zenon
  <2> QED  BY <1>4, <1>5, <2>1, <2>2 DEF Queued, One, p
<1>6. CASE r \notin S
  <2>1. Places(p, S) = Places(q, S)
    BY <1>1, <1>2, <1>6 DEF Places
  <2> QED  BY <1>4, <1>6, <2>1 DEF Queued, One, p
<1> QED  BY <1>5, <1>6

LEMMA QueuedTail ==
  ASSUME NEW R, NEW q \in Seq(R), q # <<>>, NEW S
  PROVE  Queued(q, S) = Queued(Tail(q), S) + One(Head(q) \in S)
<1> DEFINE t == Tail(q)
           later == Places(q, S) \ {1}
           f == [k \in Places(t, S) |-> k + 1]
<1>1. /\ Len(q) \in Nat \ {0} /\ DOMAIN q = 1..Len(q)
      /\ t \in Seq(R) /\ Len(t) = Len(q) - 1
      /\ \A i \in 1..Len(t) : t[i] = q[i + 1]
      /\ Head(q) = q[1]
  BY LenProperties, EmptySeq, HeadTailProperties
<1>2. DOMAIN t = 1..(Len(q) - 1)
  BY <1>1, LenProperties
<1> HIDE DEF t
<1>3. /\ IsFiniteSet(Places(t, S)) /\ Queued(t, S) \in Nat
      /\ IsFiniteSet(Places(q, S)) /\ Queued(q, S) \in Nat
  BY <1>1, QueuedType
<1>4. f \in Bijection(Places(t, S), later)
  <2>1. \A k \in Places(t, S) : k \in Nat /\ k + 1 \in later
    BY <1>1, <1>2 DEF Places
  <2>2. ASSUME NEW k \in later
        PROVE  k - 1 \in Places(t, S) /\ (k - 1) + 1 = k
    <3>1. k \in 1..Len(q) /\ k # 1 /\ q[k] \in S
      BY <1>1 DEF Places
    <3>2. k - 1 \in 1..(Len(q) - 1) /\ (k - 1) + 1 = k
      BY <1>1, <3>1
    <3>3. t[k - 1] = q[k]
      BY <1>1, <3>2
    <3> QED  BY <1>2, <3>1, <3>2, <3>3 DEF Places
  <2> HIDE DEF later
  <2>3. f \in [Places(t, S) -> later]
    BY <2>1
  <2>4. \A j, k \in Places(t, S) : f[j] = f[k] => j = k
    BY <2>1
  <2>5. \A k \in later : \E j \in Places(t, S) : f[j] = k
    BY <2>2
  <2> QED  BY <2>3, <2>4, <2>5, Fun_IsBij
<1>5. Cardinality(later) = Queued(t, S)
  BY <1>3, <1>4, FS_Bijection DEF ExistsBijection, Queued
<1>6. 1 \in Places(q, S) <=> Head(q) \in S
  BY <1>1 DEF Places
<1>7. Cardinality(later) =
        IF 1 \in Places(q, S) THEN Cardinality(Places(q, S)) - 1 ELSE Cardinality(Places(q, S))
  BY <1>3, FS_RemoveElement, Zenon
<1> QED  BY <1>3, <1>5, <1>6, <1>7 DEF Queued, One, t

-----------------------------------------------------------------------------
(* The channel and the collector.                                          *)

\* What the channel and the collector do keeps their state well typed.
LEMMA CollectorTypes ==
  ASSUME CollectorTypeOK
  PROVE  /\ \A r \in Result : SendResult(r) => CollectorTypeOK'
         /\ CloseResults => CollectorTypeOK'
         /\ CollectResult => CollectorTypeOK'
         /\ CollectorExit => CollectorTypeOK'
         /\ UNCHANGED collectorVars => CollectorTypeOK'
<1>1. ASSUME NEW r \in Result, SendResult(r)
      PROVE  CollectorTypeOK'
  <2> DEFINE q == Append(dialResultCh, r)
  <2>1. q \in Seq(Result) /\ Len(q) = Len(dialResultCh) + 1
    BY DEF CollectorTypeOK
  <2>2. Len(q) <= DialResultChanLen
    BY <1>1, <2>1, DialResultChanLenAssumption DEF SendResult, CollectorTypeOK
  <2> QED  BY <1>1, <2>1, <2>2 DEF SendResult, CollectorTypeOK
<1>2. CloseResults => CollectorTypeOK'
  BY DEF CloseResults, CollectorTypeOK
<1>3. CollectResult => CollectorTypeOK'
  <2> SUFFICES ASSUME CollectResult PROVE CollectorTypeOK'
    OBVIOUS
  <2>1. Head(dialResultCh) \in Result /\ Tail(dialResultCh) \in Seq(Result)
    BY DEF CollectResult, CollectorTypeOK
  <2>2. Len(Tail(dialResultCh)) <= DialResultChanLen
    BY DialResultChanLenAssumption DEF CollectResult, CollectorTypeOK
  <2>3. summary' \in Summary
    BY <2>1, CollectType DEF CollectResult, CollectorTypeOK
  <2> QED  BY <2>1, <2>2, <2>3 DEF CollectResult, CollectorTypeOK
<1>4. CollectorExit => CollectorTypeOK'
  BY DEF CollectorExit, CollectorTypeOK
<1>5. UNCHANGED collectorVars => CollectorTypeOK'
  BY DEF collectorVars, CollectorTypeOK
<1> QED  BY <1>1, <1>2, <1>3, <1>4, <1>5

Dialled == {r \in Result : DialSucceeded(r)}
NotOk == {r \in Result : ~r.ok}
Of(a) == {r \in Result : r.action = a}

OneIs(r) ==
  /\ One(r \in Result) = 1
  /\ One(r \in Dialled) = One(DialSucceeded(r))
  /\ One(r \in NotOk) = One(~r.ok)
  /\ One(r \in Of("release")) = One(r.action = "release")
  /\ One(r \in Of("renew")) = One(r.action = "renew")
  /\ One(r \in Of("rebind")) = One(r.action = "rebind")

LEMMA KindsOf ==
  ASSUME NEW r \in Result
  PROVE  OneIs(r)
BY DEF OneIs, One, Dialled, NotOk, Of

\* What has been sent: counted by the collector, or still in the channel.
TotalSent == summary.Total + Queued(dialResultCh, Result)
SuccessSent == summary.Success + Queued(dialResultCh, Dialled)
FailedSent == summary.Failed + Queued(dialResultCh, NotOk)
ReleasedSent == summary.Released + Queued(dialResultCh, Of("release"))
RenewedSent == summary.Renewed + Queued(dialResultCh, Of("renew"))
RebindedSent == summary.Rebinded + Queued(dialResultCh, Of("rebind"))

allSent == <<TotalSent, SuccessSent, FailedSent, ReleasedSent, RenewedSent, RebindedSent>>

\* A result sent is counted at once, under what it says; collecting it then
\* changes nothing, and in the end all that was sent is in the summary.
LEMMA SentType ==
  ASSUME CollectorTypeOK
  PROVE  /\ TotalSent \in Nat /\ SuccessSent \in Nat /\ FailedSent \in Nat
         /\ ReleasedSent \in Nat /\ RenewedSent \in Nat /\ RebindedSent \in Nat
         /\ dialResultCh = <<>> =>
              /\ summary.Total = TotalSent
              /\ summary.Success = SuccessSent
              /\ summary.Failed = FailedSent
              /\ summary.Released = ReleasedSent
              /\ summary.Renewed = RenewedSent
              /\ summary.Rebinded = RebindedSent
<1>1. ASSUME NEW S, NEW n \in Nat
      PROVE  /\ n + Queued(dialResultCh, S) \in Nat
             /\ dialResultCh = <<>> => n = n + Queued(dialResultCh, S)
  <2>1. /\ Queued(dialResultCh, S) \in Nat
        /\ dialResultCh = <<>> => Queued(dialResultCh, S) = 0
    BY QueuedType DEF CollectorTypeOK
  <2> QED  BY <2>1
<1>2. /\ summary.Total \in Nat /\ summary.Success \in Nat /\ summary.Failed \in Nat
      /\ summary.Released \in Nat /\ summary.Renewed \in Nat /\ summary.Rebinded \in Nat
  BY CountsType DEF CollectorTypeOK
<1> QED  BY <1>1, <1>2, Zenon
         DEF TotalSent, SuccessSent, FailedSent, ReleasedSent, RenewedSent, RebindedSent

LEMMA SendCounts ==
  ASSUME CollectorTypeOK, NEW r \in Result, SendResult(r)
  PROVE  /\ TotalSent' = TotalSent + 1
         /\ SuccessSent' = SuccessSent + One(DialSucceeded(r))
         /\ FailedSent' = FailedSent + One(~r.ok)
         /\ ReleasedSent' = ReleasedSent + One(r.action = "release")
         /\ RenewedSent' = RenewedSent + One(r.action = "renew")
         /\ RebindedSent' = RebindedSent + One(r.action = "rebind")
<1>1. dialResultCh \in Seq(Result)
      /\ summary' = summary /\ dialResultCh' = Append(dialResultCh, r)
  BY DEF CollectorTypeOK, SendResult
<1>2. ASSUME NEW S, NEW n \in Nat, NEW one, One(r \in S) = one
      PROVE  n + Queued(dialResultCh', S) = (n + Queued(dialResultCh, S)) + one
  <2>1. /\ Queued(dialResultCh', S) = Queued(dialResultCh, S) + One(r \in S)
        /\ Queued(dialResultCh, S) \in Nat
    BY <1>1, QueuedAppend, QueuedType
  <2>2. One(r \in S) \in Nat
    BY DEF One
  <2> QED  BY <1>2, <2>1, <2>2
<1>3. OneIs(r)
  BY KindsOf
<1>4. /\ summary.Total \in Nat /\ summary.Success \in Nat /\ summary.Failed \in Nat
      /\ summary.Released \in Nat /\ summary.Renewed \in Nat /\ summary.Rebinded \in Nat
  BY CountsType DEF CollectorTypeOK
<1>5. TotalSent' = TotalSent + 1
  <2>1. One(r \in Result) = 1 /\ summary.Total \in Nat
    BY <1>3, <1>4, Zenon DEF OneIs
  <2>2. summary.Total + Queued(dialResultCh', Result)
          = (summary.Total + Queued(dialResultCh, Result)) + 1
    BY <1>2, <2>1, Zenon
  <2> QED  BY <1>1, <2>2, Zenon DEF TotalSent
<1>6. SuccessSent' = SuccessSent + One(DialSucceeded(r))
  <2>1. One(r \in Dialled) = One(DialSucceeded(r)) /\ summary.Success \in Nat
    BY <1>3, <1>4, Zenon DEF OneIs
  <2>2. summary.Success + Queued(dialResultCh', Dialled)
          = (summary.Success + Queued(dialResultCh, Dialled)) + One(DialSucceeded(r))
    BY <1>2, <2>1, Zenon
  <2> QED  BY <1>1, <2>2, Zenon DEF SuccessSent
<1>7. FailedSent' = FailedSent + One(~r.ok)
  <2>1. One(r \in NotOk) = One(~r.ok) /\ summary.Failed \in Nat
    BY <1>3, <1>4, Zenon DEF OneIs
  <2>2. summary.Failed + Queued(dialResultCh', NotOk)
          = (summary.Failed + Queued(dialResultCh, NotOk)) + One(~r.ok)
    BY <1>2, <2>1, Zenon
  <2> QED  BY <1>1, <2>2, Zenon DEF FailedSent
<1>8. ReleasedSent' = ReleasedSent + One(r.action = "release")
  <2>1. One(r \in Of("release")) = One(r.action = "release") /\ summary.Released \in Nat
    BY <1>3, <1>4, Zenon DEF OneIs
  <2>2. summary.Released + Queued(dialResultCh', Of("release"))
          = (summary.Released + Queued(dialResultCh, Of("release"))) + One(r.action = "release")
    BY <1>2, <2>1, Zenon
  <2> QED  BY <1>1, <2>2, Zenon DEF ReleasedSent
<1>9. RenewedSent' = RenewedSent + One(r.action = "renew")
  <2>1. One(r \in Of("renew")) = One(r.action = "renew") /\ summary.Renewed \in Nat
    BY <1>3, <1>4, Zenon DEF OneIs
  <2>2. summary.Renewed + Queued(dialResultCh', Of("renew"))
          = (summary.Renewed + Queued(dialResultCh, Of("renew"))) + One(r.action = "renew")
    BY <1>2, <2>1, Zenon
  <2> QED  BY <1>1, <2>2, Zenon DEF RenewedSent
<1>10. RebindedSent' = RebindedSent + One(r.action = "rebind")
  <2>1. One(r \in Of("rebind")) = One(r.action = "rebind") /\ summary.Rebinded \in Nat
    BY <1>3, <1>4, Zenon DEF OneIs
  <2>2. summary.Rebinded + Queued(dialResultCh', Of("rebind"))
          = (summary.Rebinded + Queued(dialResultCh, Of("rebind"))) + One(r.action = "rebind")
    BY <1>2, <2>1, Zenon
  <2> QED  BY <1>1, <2>2, Zenon DEF RebindedSent
<1> QED  BY <1>5, <1>6, <1>7, <1>8, <1>9, <1>10

LEMMA CollectCounts ==
  ASSUME CollectorTypeOK, CollectResult
  PROVE  UNCHANGED allSent
<1> DEFINE r == Head(dialResultCh)
<1>1. /\ dialResultCh \in Seq(Result) /\ summary \in Summary
      /\ dialResultCh # <<>>
      /\ summary' = Collect(summary, r) /\ dialResultCh' = Tail(dialResultCh)
  BY DEF CollectorTypeOK, CollectResult
<1>2. r \in Result /\ dialResultCh' \in Seq(Result)
  BY <1>1
<1>3. ASSUME NEW S, NEW n \in Nat, NEW one, One(r \in S) = one
      PROVE  (n + one) + Queued(dialResultCh', S) = n + Queued(dialResultCh, S)
  <2>1. /\ Queued(dialResultCh, S) = Queued(dialResultCh', S) + One(r \in S)
        /\ Queued(dialResultCh', S) \in Nat
    BY <1>1, <1>2, QueuedTail, QueuedType
  <2>2. One(r \in S) \in Nat
    BY DEF One
  <2> HIDE DEF r
  <2> QED  BY <1>3, <2>1, <2>2
<1> HIDE DEF r
<1>4. OneIs(r)
  BY <1>2, KindsOf
<1>5. CountsOneMore(summary, r, summary')
  BY <1>1, <1>2, CollectType
<1>6. /\ summary.Total \in Nat /\ summary.Success \in Nat /\ summary.Failed \in Nat
      /\ summary.Released \in Nat /\ summary.Renewed \in Nat /\ summary.Rebinded \in Nat
  BY CountsType DEF CollectorTypeOK
<1>7. TotalSent' = TotalSent
  <2>1. One(r \in Result) = 1 /\ summary.Total \in Nat
    BY <1>4, <1>6, Zenon DEF OneIs
  <2>2. (summary.Total + 1) + Queued(dialResultCh', Result)
          = summary.Total + Queued(dialResultCh, Result)
    BY <1>3, <2>1, Zenon
  <2>3. summary'.Total = summary.Total + 1
    BY <1>5, Zenon DEF CountsOneMore
  <2> QED  BY <2>2, <2>3, Zenon DEF TotalSent
<1>8. SuccessSent' = SuccessSent
  <2>1. One(r \in Dialled) = One(DialSucceeded(r)) /\ summary.Success \in Nat
    BY <1>4, <1>6, Zenon DEF OneIs
  <2>2. (summary.Success + One(DialSucceeded(r))) + Queued(dialResultCh', Dialled)
          = summary.Success + Queued(dialResultCh, Dialled)
    BY <1>3, <2>1, Zenon
  <2>3. summary'.Success = summary.Success + One(DialSucceeded(r))
    BY <1>5, Zenon DEF CountsOneMore
  <2> QED  BY <2>2, <2>3, Zenon DEF SuccessSent
<1>9. FailedSent' = FailedSent
  <2>1. One(r \in NotOk) = One(~r.ok) /\ summary.Failed \in Nat
    BY <1>4, <1>6, Zenon DEF OneIs
  <2>2. (summary.Failed + One(~r.ok)) + Queued(dialResultCh', NotOk)
          = summary.Failed + Queued(dialResultCh, NotOk)
    BY <1>3, <2>1, Zenon
  <2>3. summary'.Failed = summary.Failed + One(~r.ok)
    BY <1>5, Zenon DEF CountsOneMore
  <2> QED  BY <2>2, <2>3, Zenon DEF FailedSent
<1>10. ReleasedSent' = ReleasedSent
  <2>1. One(r \in Of("release")) = One(r.action = "release") /\ summary.Released \in Nat
    BY <1>4, <1>6, Zenon DEF OneIs
  <2>2. (summary.Released + One(r.action = "release")) + Queued(dialResultCh', Of("release"))
          = summary.Released + Queued(dialResultCh, Of("release"))
    BY <1>3, <2>1, Zenon
  <2>3. summary'.Released = summary.Released + One(r.action = "release")
    BY <1>5, Zenon DEF CountsOneMore
  <2> QED  BY <2>2, <2>3, Zenon DEF ReleasedSent
<1>11. RenewedSent' = RenewedSent
  <2>1. One(r \in Of("renew")) = One(r.action = "renew") /\ summary.Renewed \in Nat
    BY <1>4, <1>6, Zenon DEF OneIs
  <2>2. (summary.Renewed + One(r.action = "renew")) + Queued(dialResultCh', Of("renew"))
          = summary.Renewed + Queued(dialResultCh, Of("renew"))
    BY <1>3, <2>1, Zenon
  <2>3. summary'.Renewed = summary.Renewed + One(r.action = "renew")
    BY <1>5, Zenon DEF CountsOneMore
  <2> QED  BY <2>2, <2>3, Zenon DEF RenewedSent
<1>12. RebindedSent' = RebindedSent
  <2>1. One(r \in Of("rebind")) = One(r.action = "rebind") /\ summary.Rebinded \in Nat
    BY <1>4, <1>6, Zenon DEF OneIs
  <2>2. (summary.Rebinded + One(r.action = "rebind")) + Queued(dialResultCh', Of("rebind"))
          = summary.Rebinded + Queued(dialResultCh, Of("rebind"))
    BY <1>3, <2>1, Zenon
  <2>3. summary'.Rebinded = summary.Rebinded + One(r.action = "rebind")
    BY <1>5, Zenon DEF CountsOneMore
  <2> QED  BY <2>2, <2>3, Zenon DEF RebindedSent
<1> QED  BY <1>7, <1>8, <1>9, <1>10, <1>11, <1>12 DEF allSent

=============================================================================
