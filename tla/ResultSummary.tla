--------------------------- MODULE ResultSummary ---------------------------
(***************************************************************************)
(* The result of one DHCP transaction (dialResult), the statistics kept    *)
(* over all of them (resultSummary) and the body of the loop by which      *)
(* collectResults folds one result into the statistics.  Pure operators:   *)
(* ResultCollector runs them over the result channel.                      *)
(*                                                                         *)
(* Times are natural numbers.  The fields the statistics never read (L2EP, *)
(* IsDHCPv6) are left out, and so are the progress line and the rendering  *)
(* of the summary.                                                         *)
(***************************************************************************)
EXTENDS Integers, Sequences

CONSTANTS
  MaxDuration,  \* maxDuration: the "no dial has succeeded yet" value of Shortest
  FarFuture,    \* the initial beginTime, ten years from now
  Second,       \* time.Second
  AvgWindow     \* size of the moving average window, mv.New(5)

ASSUME DurationAssumption ==
  /\ MaxDuration \in Nat \ {0}
  /\ FarFuture \in Nat
  /\ Second \in Nat
  /\ AvgWindow \in Nat \ {0}

Action == {"dora", "release", "renew", "rebind"}

Result == [action : Action, ok : BOOLEAN, start : Nat, finish : Nat]

\* begin and end are the locals beginTime and endTime of collectResults,
\* window the values the moving average AvgSuccessTime still holds.
Summary ==
  [Total : Nat, Success : Nat, Failed : Nat,
   Released : Nat, Renewed : Nat, Rebinded : Nat, LessThanSecond : Nat,
   Shortest : Nat, Longest : Nat, TotalTime : Int,
   begin : Nat, end : Nat, window : Seq(Nat)]

NewSummary ==
  [Total |-> 0, Success |-> 0, Failed |-> 0,
   Released |-> 0, Renewed |-> 0, Rebinded |-> 0, LessThanSecond |-> 0,
   Shortest |-> MaxDuration, Longest |-> 0, TotalTime |-> 0,
   begin |-> FarFuture, end |-> 0, window |-> <<>>]

-----------------------------------------------------------------------------
One(b) == IF b THEN 1 ELSE 0
Lesser(a, b) == IF a < b THEN a ELSE b
Greater(a, b) == IF a > b THEN a ELSE b

DialSucceeded(r) == r.ok /\ r.action = "dora"
CompleteTime(r) == Greater(r.finish - r.start, 0)

\* The duration of the whole test, from the first start to the last finish.
Span(s, r) ==
  LET begin == Lesser(r.start, s.begin)
      end   == Greater(r.finish, s.end)
  IN  [s EXCEPT !.begin = begin, !.end = end, !.TotalTime = end - begin]

\* The two switches: an action counter whatever the outcome, then Failed, or
\* Success for a dial.
Count(s, r) ==
  [s EXCEPT !.Total    = @ + 1,
            !.Released = @ + One(r.action = "release"),
            !.Rebinded = @ + One(r.action = "rebind"),
            !.Renewed  = @ + One(r.action = "renew"),
            !.Failed   = @ + One(~r.ok),
            !.Success  = @ + One(DialSucceeded(r))]

\* A full moving average forgets its oldest value.
AvgAdd(w, t) == Append(IF Len(w) = AvgWindow THEN Tail(w) ELSE w, t)

\* A dial slower than every earlier one not tried as the fastest.
DialTimesEither(s, r) ==
  LET t == CompleteTime(r)
  IN  IF DialSucceeded(r)
      THEN [s EXCEPT !.window         = AvgAdd(@, t),
                     !.LessThanSecond = @ + One(t < Second),
                     !.Longest        = Greater(t, @),
                     !.Shortest       = IF t > s.Longest THEN @ ELSE Lesser(t, @)]
      ELSE s

\* The statistics over the successful dials only.
DialTimes(s, r) ==
  LET t == CompleteTime(r)
  IN  IF DialSucceeded(r)
      THEN [s EXCEPT !.window         = AvgAdd(@, t),
                     !.LessThanSecond = @ + One(t < Second),
                     !.Longest        = Greater(t, @),
                     !.Shortest       = Lesser(t, @)]
      ELSE s

\* Shortest is shown as 0 as long as no dial has succeeded.
ShowShortest(s) == [s EXCEPT !.Shortest = IF @ = MaxDuration THEN 0 ELSE @]

\* The same counters with a released transaction not counted in Total.
CollectSkippingRelease(s, r) ==
  IF r.action = "release" THEN s
  ELSE ShowShortest(DialTimes(Count(Span(s, r), r), r))

\* Fold a result in, but let the latest finish overwrite endTime.
CollectLastFinish(s, r) ==
  [ShowShortest(DialTimes(Count(Span(s, r), r), r)) EXCEPT
     !.end = r.finish, !.TotalTime = r.finish - Lesser(r.start, s.begin)]

\* One iteration of collectResults.
Collect(s, r) == ShowShortest(DialTimes(Count(Span(s, r), r), r))

=============================================================================
