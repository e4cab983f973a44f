---------------------------- MODULE ThreeR_proofs ----------------------------
(***************************************************************************)
(* Release, renew and rebind runs, for every lease file, every set of      *)
(* enabled stacks, every action and every channel capacity: the summary is *)
(* exactly what was reported.                                              *)
(***************************************************************************)
EXTENDS ThreeR, ResultCollector_proofs

ReportedPcs == {"okReported", "failReported"}

\* A client is launched once, and a stack of it is started once.
LaunchInv ==
  \A c \in Client :
    /\ c \in todo => allPc[c] = "idle"
    /\ c \in todo \/ allPc[c] \in {"conns", "clients", "first"} =>
         \A s \in Stack : stackPc[c][s] = "off"
    /\ allPc[c] = "second" /\ StackAt("second") \in Stack =>
         stackPc[c][StackAt("second")] = "off"

\* The results sent with an action.
Sent(action) == {t \in Reported : ReportedAction(t[2]) = action}

\* What has been sent is what the transactions have reported.
SentInv ==
  /\ TotalSent = Cardinality(Reported)
  /\ ReleasedSent = Cardinality(Sent("release"))
  /\ RenewedSent = Cardinality(Sent("renew"))
  /\ RebindedSent = Cardinality(Sent("rebind"))
  /\ FailedSent = Cardinality(FailedV4)
  /\ SuccessSent = 0

DoneInv == collectorPc = "done" => chClosed /\ dialResultCh = <<>>

ThreeRInv ==
  /\ ThreeRTypeOK
  /\ LaunchInv
  /\ SentInv
  /\ DoneInv

\* A transaction reports, with the outcome its program counter says.
Reports(c, s, ok) ==
  /\ stackPc[c][s] = IF ok THEN "ok" ELSE "fail"
  /\ IF chClosed
     THEN /\ proc' = "sendOnClosed"
          /\ UNCHANGED <<collectorVars, stackPc>>
     ELSE /\ SendResult(NewResult(s, ok))
          /\ Goto(c, s, IF ok THEN "okReported" ELSE "failReported")
          /\ UNCHANGED proc
  /\ UNCHANGED <<leased, runPc, todo, threeRWG, allPc>>

-----------------------------------------------------------------------------
(* Type correctness.                                                       *)

LEMMA ActionsReported ==
  ASSUME NEW s \in Stack, NEW ok \in BOOLEAN
  PROVE  /\ NewResult(s, ok) \in Result
         /\ NewResult(s, ok).action = ReportedAction(s)
         /\ NewResult(s, ok).ok = (ok \/ s = "v6")
         /\ ReportedAction(s) \in {"release", "renew", "rebind"}
<1>1. ReportedAction(s) \in {"release", "renew", "rebind"}
  BY ThreeRAssumption DEF ReportedAction
<1>2. ReportedOk(s, ok) \in BOOLEAN
  BY DEF ReportedOk
<1>3. NewResult(s, ok) \in Result
  BY <1>1, <1>2 DEF NewResult, Result, Action
<1> QED  BY <1>1, <1>3 DEF NewResult, ReportedOk

\* One program counter of a transaction changes.
LEMMA StackTypes ==
  ASSUME ThreeRTypeOK, NEW c \in Client, NEW s \in Stack,
         NEW pc \in {"off", "exchange", "ok", "fail", "okReported", "failReported"},
         Goto(c, s, pc)
  PROVE  /\ stackPc' \in [Client -> [Stack ->
              {"off", "exchange", "ok", "fail", "okReported", "failReported"}]]
         /\ \A d \in Client, t \in Stack :
              stackPc'[d][t] = IF d = c /\ t = s THEN pc ELSE stackPc[d][t]
BY DEF Goto, ThreeRTypeOK

LEMMA RunTypes ==
  ASSUME ThreeRTypeOK, Run \/ CollectStep
  PROVE  ThreeRTypeOK'
<1>c. CollectorTypeOK
  BY DEF ThreeRTypeOK
<1>1. CASE Run
  <2>1. CollectorTypeOK'
    BY <1>c, <1>1, CollectorTypes
       DEF Run, Launch, WaitAll, CloseChannel, WaitCollector, Exit
  <2> QED  BY <1>1, <2>1
           DEF Run, Launch, WaitAll, CloseChannel, WaitCollector, Exit, ThreeRTypeOK
<1>2. CASE CollectStep
  <2>1. CollectorTypeOK'
    BY <1>c, <1>2, CollectorTypes DEF CollectStep
  <2> QED  BY <1>2, <2>1 DEF CollectStep, threeRVars, ThreeRTypeOK
<1> QED  BY <1>1, <1>2

LEMMA ClientTypes ==
  ASSUME ThreeRTypeOK, NEW c \in Client, ThreeRAll(c) \/ \E s \in Stack : Transact(c, s)
  PROVE  ThreeRTypeOK'
<1>c. CollectorTypeOK
  BY DEF ThreeRTypeOK
<1>1. CASE MakeConns(c) \/ MakeClients(c) \/ MakeClientsFails(c) \/ AllReturns(c)
  <2>1. CollectorTypeOK'
    BY <1>c, <1>1, CollectorTypes DEF MakeConns, MakeClients, MakeClientsFails, AllReturns
  <2> QED  BY <1>1, <2>1
           DEF MakeConns, MakeClients, MakeClientsFails, AllReturns, GotoAll, ThreeRTypeOK
<1>2. ASSUME NEW pos \in {"first", "second"}, StartStack(c, pos)
      PROVE  ThreeRTypeOK'
  <2>1. CollectorTypeOK'
    BY <1>c, <1>2, CollectorTypes DEF StartStack
  <2>2. stackPc' \in [Client -> [Stack ->
          {"off", "exchange", "ok", "fail", "okReported", "failReported"}]]
    <3>1. CASE StackAt(pos) \in Stack \cap leased[c]
      BY <1>2, <3>1, StackTypes DEF StartStack, Goto
    <3>2. CASE StackAt(pos) \notin Stack \cap leased[c]
      BY <1>2, <3>2 DEF StartStack, ThreeRTypeOK
    <3> QED  BY <3>1, <3>2
  <2> QED  BY <1>2, <2>1, <2>2 DEF StartStack, GotoAll, After, ThreeRTypeOK
<1>3. ASSUME NEW s \in Stack, Transact(c, s)
      PROVE  ThreeRTypeOK'
  <2>1. CASE Exchange(c, s)
    <3>1. CollectorTypeOK'
      BY <1>c, <2>1, CollectorTypes DEF Exchange
    <3> QED  BY <2>1, <3>1, StackTypes DEF Exchange, ThreeRTypeOK
  <2>2. ASSUME NEW ok \in BOOLEAN, Reports(c, s, ok)
        PROVE  ThreeRTypeOK'
    <3>1. CASE chClosed
      <4>1. CollectorTypeOK'
        BY <1>c, <2>2, <3>1, CollectorTypes DEF Reports
      <4> QED  BY <2>2, <3>1, <4>1 DEF Reports, ThreeRTypeOK
    <3>2. CASE ~chClosed
      <4>1. CollectorTypeOK'
        BY <1>c, <2>2, <3>2, CollectorTypes, ActionsReported DEF Reports
      <4> QED  BY <2>2, <3>2, <4>1, StackTypes DEF Reports, ThreeRTypeOK
    <3> QED  BY <3>1, <3>2
  <2> QED  BY <1>3, <2>1, <2>2 DEF Transact, ReportOutcome, Reports
<1> QED  BY <1>1, <1>2, <1>3 DEF ThreeRAll

-----------------------------------------------------------------------------
(* What the steps do to the sets of reported transactions.                 *)

LEMMA ReportedIs ==
  \A c \in Client, s \in Stack :
    /\ <<c, s>> \in Reported <=> stackPc[c][s] \in ReportedPcs
    /\ <<c, s>> \in FailedV4 <=> s = "v4" /\ stackPc[c][s] = "failReported"
BY DEF Reported, FailedV4, Transaction, Pc, ReportedPcs

\* A program counter that changes before the report changes none of them.
LEMMA Unchanged ==
  ASSUME \A c \in Client, s \in Stack :
           stackPc'[c][s] = stackPc[c][s] \/
             (stackPc[c][s] \notin ReportedPcs /\ stackPc'[c][s] \notin ReportedPcs)
  PROVE  Reported' = Reported /\ FailedV4' = FailedV4
<1>1. \A t \in Transaction :
        /\ Pc(t)' \in ReportedPcs <=> Pc(t) \in ReportedPcs
        /\ Pc(t)' = "failReported" <=> Pc(t) = "failReported"
  BY DEF Transaction, Pc, ReportedPcs
<1>2. Reported' = Reported
  BY <1>1 DEF Reported, ReportedPcs, Transaction
<1> QED  BY <1>1, <1>2 DEF FailedV4, Reported, Transaction

LEMMA ReportAdds ==
  ASSUME ThreeRTypeOK, NEW c \in Client, NEW s \in Stack, NEW ok \in BOOLEAN,
         stackPc[c][s] = IF ok THEN "ok" ELSE "fail",
         Goto(c, s, IF ok THEN "okReported" ELSE "failReported")
  PROVE  /\ <<c, s>> \notin Reported
         /\ Reported' = Reported \cup {<<c, s>>}
         /\ FailedV4' = IF s = "v4" /\ ~ok THEN FailedV4 \cup {<<c, s>>} ELSE FailedV4
<1> DEFINE pc == IF ok THEN "okReported" ELSE "failReported"
<1>1. \A d \in Client, t \in Stack :
        stackPc'[d][t] = IF d = c /\ t = s THEN pc ELSE stackPc[d][t]
  BY StackTypes
<1>2. /\ stackPc[c][s] \notin ReportedPcs
      /\ pc \in ReportedPcs /\ (pc = "failReported" <=> ~ok)
  BY DEF ReportedPcs
<1> HIDE DEF pc
<1>3. ASSUME NEW x \in Client \X Stack
      PROVE  /\ x \in Reported' <=> x \in Reported \cup {<<c, s>>}
             /\ x \in FailedV4' <=> x \in FailedV4 \/ (x = <<c, s>> /\ s = "v4" /\ ~ok)
  <2>1. PICK d \in Client, t \in Stack : x = <<d, t>>
    OBVIOUS
  <2>2. /\ x \in Reported <=> stackPc[d][t] \in ReportedPcs
        /\ x \in Reported' <=> stackPc'[d][t] \in ReportedPcs
        /\ x \in FailedV4 <=> t = "v4" /\ stackPc[d][t] = "failReported"
        /\ x \in FailedV4' <=> t = "v4" /\ stackPc'[d][t] = "failReported"
    BY <2>1 DEF Reported, FailedV4, Transaction, Pc, ReportedPcs
  <2>3. CASE d = c /\ t = s
    <3>1. x = <<c, s>> /\ stackPc'[d][t] = pc
      BY <1>1, <2>1, <2>3
    <3>2. stackPc[d][t] # "failReported"
      BY <1>2, <2>3 DEF ReportedPcs
    <3> QED  BY <1>2, <2>2, <2>3, <3>1, <3>2
  <2>4. CASE ~(d = c /\ t = s)
    <3>1. x # <<c, s>> /\ stackPc'[d][t] = stackPc[d][t]
      BY <1>1, <2>1, <2>4
    <3> QED  BY <2>2, <3>1
  <2> QED  BY <2>3, <2>4
<1>4. /\ Reported \subseteq Client \X Stack /\ Reported' \subseteq Client \X Stack
      /\ FailedV4 \subseteq Client \X Stack /\ FailedV4' \subseteq Client \X Stack
  BY DEF Reported, FailedV4, Transaction
<1>5. <<c, s>> \notin Reported
  BY <1>2, ReportedIs
<1>6. Reported' = Reported \cup {<<c, s>>}
  BY <1>3, <1>4
<1>7. CASE s = "v4" /\ ~ok
  <2>1. FailedV4' = FailedV4 \cup {<<c, s>>}
    BY <1>3, <1>4, <1>7
  <2> QED  BY <1>5, <1>6, <1>7, <2>1
<1>8. CASE ~(s = "v4" /\ ~ok)
  <2>1. FailedV4' = FailedV4
    BY <1>3, <1>4, <1>8
  <2> QED  BY <1>5, <1>6, <1>8, <2>1
<1> QED  BY <1>7, <1>8

LEMMA Finite ==
  ASSUME NEW U \in SUBSET (Client \X Stack)
  PROVE  /\ IsFiniteSet(U) /\ Cardinality(U) \in Nat
         /\ \A x : x \notin U => Cardinality(U \cup {x}) = Cardinality(U) + 1
<1>1. IsFiniteSet({"v4", "v6"})
  <2>1. {"v4", "v6"} = {"v4"} \cup {"v6"}
    OBVIOUS
  <2>2. IsFiniteSet({"v4"})
    BY FS_Singleton
  <2>3. IsFiniteSet({"v4"} \cup {"v6"})
    BY <2>2, FS_AddElement
  <2> QED  BY <2>1, <2>3
<1>2. IsFiniteSet(Client) /\ IsFiniteSet(Stack)
  BY <1>1, ThreeRAssumption, FS_Subset
<1>3. IsFiniteSet(Client \X Stack)
  BY <1>2, FS_Product
<1>4. IsFiniteSet(U) /\ Cardinality(U) \in Nat
  BY <1>3, FS_Subset, FS_CardinalityType
<1>5. ASSUME NEW x, x \notin U
      PROVE  Cardinality(U \cup {x}) = Cardinality(U) + 1
  BY <1>4, <1>5, FS_AddElement, Zenon
<1> QED  BY <1>4, <1>5

LEMMA CardinalityBetween ==
  ASSUME NEW V \in SUBSET (Client \X Stack), NEW U \in SUBSET V, NEW T \in SUBSET U
  PROVE  Cardinality(U) \in Cardinality(T)..Cardinality(V)
<1>1. IsFiniteSet(V) /\ IsFiniteSet(U)
  <2>1. U \in SUBSET (Client \X Stack)
    OBVIOUS
  <2> QED  BY <2>1, Finite
<1>2. Cardinality(U) <= Cardinality(V) /\ Cardinality(T) <= Cardinality(U)
  BY <1>1, FS_Subset
<1>3. IsFiniteSet(T)
  BY <1>1, FS_Subset
<1> QED  BY <1>1, <1>2, <1>3, FS_CardinalityType

\* A report keeps what is sent equal to what is reported.
LEMMA ReportKeeps ==
  ASSUME ThreeRTypeOK, SentInv, NEW c \in Client, NEW s \in Stack, NEW ok \in BOOLEAN,
         stackPc[c][s] = IF ok THEN "ok" ELSE "fail",
         Goto(c, s, IF ok THEN "okReported" ELSE "failReported"),
         SendResult(NewResult(s, ok))
  PROVE  SentInv'
<1> DEFINE t == <<c, s>>
           r == NewResult(s, ok)
<1>1. /\ t \notin Reported
      /\ Reported' = Reported \cup {t}
      /\ FailedV4' = IF s = "v4" /\ ~ok THEN FailedV4 \cup {t} ELSE FailedV4
  BY ReportAdds
<1>2. /\ r \in Result
      /\ r.action = ReportedAction(s)
      /\ r.ok = (ok \/ s = "v6")
      /\ ReportedAction(s) \in {"release", "renew", "rebind"}
  BY ActionsReported
<1>3. /\ TotalSent' = TotalSent + 1
      /\ SuccessSent' = SuccessSent + One(DialSucceeded(r))
      /\ FailedSent' = FailedSent + One(~r.ok)
      /\ ReleasedSent' = ReleasedSent + One(r.action = "release")
      /\ RenewedSent' = RenewedSent + One(r.action = "renew")
      /\ RebindedSent' = RebindedSent + One(r.action = "rebind")
  BY <1>2, SendCounts DEF ThreeRTypeOK
<1> HIDE DEF r
<1>4. /\ Reported \subseteq Client \X Stack /\ FailedV4 \subseteq Reported
      /\ \A a : Sent(a) \subseteq Reported
  BY DEF Reported, FailedV4, Sent, Transaction
<1>5. TotalSent' = Cardinality(Reported')
  <2>1. Cardinality(Reported \cup {t}) = Cardinality(Reported) + 1
    BY <1>1, <1>4, Finite
  <2> QED  BY <1>1, <1>3, <2>1 DEF SentInv
<1>6. SuccessSent' = 0
  <2>1. One(DialSucceeded(r)) = 0
    BY <1>2 DEF DialSucceeded, One
  <2> QED  BY <1>3, <2>1 DEF SentInv
<1>7. FailedSent' = Cardinality(FailedV4')
  <2>1. Cardinality(FailedV4) \in Nat
        /\ Cardinality(FailedV4 \cup {t}) = Cardinality(FailedV4) + 1
    <3>1. FailedV4 \subseteq Client \X Stack /\ t \notin FailedV4
      BY <1>1, <1>4
    <3> QED  BY <3>1, Finite
  <2>2. CASE s = "v4" /\ ~ok
    <3>1. One(~r.ok) = 1
      BY <1>2, <2>2 DEF One
    <3> QED  BY <1>1, <1>3, <2>1, <2>2, <3>1 DEF SentInv
  <2>3. CASE ~(s = "v4" /\ ~ok)
    <3>1. s = "v4" \/ s = "v6"
      BY ThreeRAssumption
    <3>2. One(~r.ok) = 0
      BY <1>2, <2>3, <3>1 DEF One
    <3> QED  BY <1>1, <1>3, <2>1, <2>3, <3>2 DEF SentInv
  <2> QED  BY <2>2, <2>3
<1>8. ASSUME NEW a
      PROVE  Cardinality(Sent(a)') = Cardinality(Sent(a)) + One(r.action = a)
  <2>1. Cardinality(Sent(a)) \in Nat
        /\ Cardinality(Sent(a) \cup {t}) = Cardinality(Sent(a)) + 1
    <3>1. Sent(a) \subseteq Client \X Stack /\ t \notin Sent(a)
      BY <1>1, <1>4
    <3> QED  BY <3>1, Finite
  <2>2. CASE ReportedAction(s) = a
    <3>1. Sent(a)' = Sent(a) \cup {t}
      BY <1>1, <2>2 DEF Sent
    <3>2. One(r.action = a) = 1
      BY <1>2, <2>2 DEF One
    <3> QED  BY <2>1, <3>1, <3>2
  <2>3. CASE ReportedAction(s) # a
    <3>1. Sent(a)' = Sent(a)
      BY <1>1, <2>3 DEF Sent
    <3>2. One(r.action = a) = 0
      BY <1>2, <2>3 DEF One
    <3> QED  BY <2>1, <3>1, <3>2
  <2> QED  BY <2>2, <2>3
<1>9. /\ ReleasedSent' = Cardinality(Sent("release")')
      /\ RenewedSent' = Cardinality(Sent("renew")')
      /\ RebindedSent' = Cardinality(Sent("rebind")')
  BY <1>3, <1>8, Zenon DEF SentInv
<1> QED  BY <1>5, <1>6, <1>7, <1>9 DEF SentInv

\* So does every step that neither sends nor collects.
LEMMA SentFrame ==
  ASSUME SentInv, UNCHANGED <<summary, dialResultCh>>,
         Reported' = Reported, FailedV4' = FailedV4
  PROVE  SentInv'
<1>1. \A a : Sent(a)' = Sent(a)
  BY DEF Sent
<1> QED  BY <1>1
         DEF SentInv, TotalSent, SuccessSent, FailedSent, ReleasedSent, RenewedSent,
             RebindedSent

-----------------------------------------------------------------------------
(* The steps.                                                              *)

LEMMA RunKeeps ==
  ASSUME ThreeRInv, Run \/ CollectStep
  PROVE  ThreeRInv'
<1>t. ThreeRTypeOK /\ ThreeRTypeOK'
  BY RunTypes DEF ThreeRInv
<1>1. UNCHANGED stackPc
  BY DEF Run, Launch, WaitAll, CloseChannel, WaitCollector, Exit, CollectStep, threeRVars
<1>2. Reported' = Reported /\ FailedV4' = FailedV4
  BY <1>1, Unchanged
<1>3. LaunchInv'
  <2>1. ASSUME NEW c \in Client, Launch(c)
        PROVE  LaunchInv'
    <3>1. /\ todo' = todo \ {c} /\ c \in todo
          /\ \A d \in Client : allPc'[d] = IF d = c THEN "conns" ELSE allPc[d]
      BY <1>t, <2>1 DEF Launch, ThreeRTypeOK
    <3> QED  BY <1>1, <3>1 DEF ThreeRInv, LaunchInv, StackAt
  <2>2. CASE UNCHANGED <<todo, allPc>>
    BY <1>1, <2>2 DEF ThreeRInv, LaunchInv, StackAt
  <2> QED  BY <2>1, <2>2
           DEF Run, WaitAll, CloseChannel, WaitCollector, Exit, CollectStep, threeRVars
<1>4. SentInv' /\ DoneInv'
  <2>1. CASE Run
    <3>1. UNCHANGED <<summary, dialResultCh, collectorPc>> /\ (chClosed => chClosed')
      BY <2>1 DEF Run, Launch, WaitAll, CloseChannel, WaitCollector, Exit, CloseResults,
                  collectorVars
    <3> QED  BY <1>2, <3>1, SentFrame DEF ThreeRInv, DoneInv
  <2>2. CASE CollectResult /\ CollectStep
    <3>1. UNCHANGED allSent
      BY <1>t, <2>2, CollectCounts DEF ThreeRTypeOK
    <3>2. \A a : Sent(a)' = Sent(a)
      BY <1>2 DEF Sent
    <3>3. SentInv'
      BY <1>2, <3>1, <3>2 DEF ThreeRInv, SentInv, allSent
    <3>4. DoneInv'
      BY <2>2 DEF CollectResult, ThreeRInv, DoneInv
    <3> QED  BY <3>3, <3>4
  <2>3. CASE CollectorExit
    <3>1. UNCHANGED <<summary, dialResultCh>>
      BY <2>3 DEF CollectorExit
    <3>2. DoneInv'
      BY <2>3 DEF CollectorExit, DoneInv
    <3> QED  BY <1>2, <3>1, <3>2, SentFrame DEF ThreeRInv
  <2> QED  BY <2>1, <2>2, <2>3 DEF CollectStep
<1> QED  BY <1>t, <1>3, <1>4 DEF ThreeRInv

LEMMA AllKeeps ==
  ASSUME ThreeRInv, NEW c \in Client, ThreeRAll(c)
  PROVE  ThreeRInv'
<1>t. ThreeRTypeOK /\ ThreeRTypeOK'
  BY ClientTypes DEF ThreeRInv
<1>1. UNCHANGED <<summary, dialResultCh, chClosed, collectorPc, todo>>
  BY DEF ThreeRAll, MakeConns, MakeClients, MakeClientsFails, StartStack, AllReturns,
         collectorVars
<1>2. DoneInv'
  BY <1>1 DEF ThreeRInv, DoneInv
<1>3. CASE MakeConns(c) \/ MakeClients(c) \/ MakeClientsFails(c) \/ AllReturns(c)
  <2>1. UNCHANGED stackPc
    BY <1>3 DEF MakeConns, MakeClients, MakeClientsFails, AllReturns
  <2>2. SentInv'
    BY <1>1, <2>1, Unchanged, SentFrame DEF ThreeRInv
  <2>3. /\ allPc[c] # "idle"
        /\ \A d \in Client : allPc'[d] = allPc[d] \/
             /\ d = c
             /\ allPc'[c] \in {"conns", "clients", "first"} =>
                  allPc[c] \in {"conns", "clients", "first"}
             /\ allPc'[c] # "second"
    BY <1>t, <1>3
       DEF MakeConns, MakeClients, MakeClientsFails, AllReturns, GotoAll, ThreeRTypeOK
  <2>4. LaunchInv'
    BY <1>1, <2>1, <2>3 DEF ThreeRInv, LaunchInv, StackAt
  <2> QED  BY <1>t, <1>2, <2>2, <2>4 DEF ThreeRInv
<1>4. ASSUME NEW pos \in {"first", "second"}, StartStack(c, pos)
      PROVE  ThreeRInv'
  <2>1. /\ allPc[c] = pos
        /\ \A d \in Client : allPc'[d] = IF d = c THEN After(pos) ELSE allPc[d]
    BY <1>t, <1>4 DEF StartStack, GotoAll, ThreeRTypeOK
  <2>2. \A d \in Client, t \in Stack :
          stackPc'[d][t] = stackPc[d][t] \/
            (d = c /\ t = StackAt(pos) /\ stackPc'[d][t] = "exchange")
    <3>1. CASE StackAt(pos) \in Stack \cap leased[c]
      BY <1>t, <1>4, <3>1, StackTypes DEF StartStack, Goto
    <3>2. CASE StackAt(pos) \notin Stack \cap leased[c]
      BY <1>4, <3>2 DEF StartStack
    <3> QED  BY <3>1, <3>2
  <2>3. StackAt(pos) \in Stack => stackPc[c][StackAt(pos)] = "off"
    BY <2>1 DEF ThreeRInv, LaunchInv
  <2>4. SentInv'
    <3>1. \A d \in Client, t \in Stack :
            stackPc'[d][t] = stackPc[d][t] \/
              (stackPc[d][t] \notin ReportedPcs /\ stackPc'[d][t] \notin ReportedPcs)
      BY <2>2, <2>3 DEF ReportedPcs
    <3> QED  BY <1>1, <3>1, Unchanged, SentFrame DEF ThreeRInv
  <2>5. LaunchInv'
    <3>1. SUFFICES ASSUME NEW d \in Client
                   PROVE  /\ d \in todo => allPc'[d] = "idle"
                          /\ d \in todo \/ allPc'[d] \in {"conns", "clients", "first"} =>
                               \A s \in Stack : stackPc'[d][s] = "off"
                          /\ allPc'[d] = "second" /\ StackAt("second") \in Stack =>
                               stackPc'[d][StackAt("second")] = "off"
      BY <1>1 DEF LaunchInv, StackAt
    <3>2. CASE d # c
      BY <2>1, <2>2, <3>2 DEF ThreeRInv, LaunchInv
    <3>3. CASE d = c
      <4>1. c \notin todo /\ allPc'[c] \in {"second", "wait"}
        BY <2>1 DEF ThreeRInv, LaunchInv, After
      <4>2. ASSUME allPc'[c] = "second", StackAt("second") \in Stack
            PROVE  stackPc'[c][StackAt("second")] = "off"
        <5>1. pos = "first"
          BY <2>1, <4>2 DEF After
        <5>2. StackAt("second") # StackAt(pos)
          BY <5>1, ThreeRAssumption DEF StackAt
        <5>3. stackPc[c][StackAt("second")] = "off"
          BY <2>1, <4>2, <5>1 DEF ThreeRInv, LaunchInv
        <5> QED  BY <2>2, <4>2, <5>2, <5>3
      <4> QED  BY <3>3, <4>1, <4>2
    <3> QED  BY <3>2, <3>3
  <2> QED  BY <1>t, <1>2, <2>4, <2>5 DEF ThreeRInv
<1> QED  BY <1>3, <1>4 DEF ThreeRAll

LEMMA TransactKeeps ==
  ASSUME ThreeRInv, NEW c \in Client, NEW s \in Stack, Transact(c, s)
  PROVE  ThreeRInv'
<1>t. ThreeRTypeOK /\ ThreeRTypeOK'
  BY ClientTypes DEF ThreeRInv
<1>1. stackPc[c][s] \in {"exchange", "ok", "fail"}
  BY DEF Transact, Exchange, ReportOutcome
<1>2. \A d \in Client, t \in Stack : (d = c /\ t = s) \/ stackPc'[d][t] = stackPc[d][t]
  BY <1>t DEF Transact, Exchange, ReportOutcome, Goto, ThreeRTypeOK
<1>3. UNCHANGED <<todo, allPc>>
  BY DEF Transact, Exchange, ReportOutcome
<1>4. LaunchInv'
  <2>1. ASSUME NEW d \in Client, NEW t \in Stack, stackPc[d][t] = "off"
        PROVE  stackPc'[d][t] = "off"
    BY <1>1, <1>2, <2>1
  <2> QED  BY <1>3, <2>1 DEF ThreeRInv, LaunchInv, StackAt
<1>5. CASE Exchange(c, s)
  <2>1. UNCHANGED <<summary, dialResultCh, chClosed, collectorPc>>
    BY <1>5 DEF Exchange, collectorVars
  <2>2. stackPc[c][s] \notin ReportedPcs /\ stackPc'[c][s] \notin ReportedPcs
    BY <1>t, <1>5 DEF Exchange, Goto, ReportedPcs, ThreeRTypeOK
  <2>3. SentInv'
    BY <1>2, <2>1, <2>2, Unchanged, SentFrame DEF ThreeRInv
  <2> QED  BY <1>t, <1>4, <2>1, <2>3 DEF ThreeRInv, DoneInv
<1>6. ASSUME NEW ok \in BOOLEAN, Reports(c, s, ok)
      PROVE  ThreeRInv'
  <2>1. CASE chClosed
    <3>1. UNCHANGED <<summary, dialResultCh, chClosed, collectorPc, stackPc>>
      BY <1>6, <2>1 DEF Reports, collectorVars
    <3> QED  BY <1>t, <1>4, <3>1, Unchanged, SentFrame DEF ThreeRInv, DoneInv
  <2>2. CASE ~chClosed
    <3>1. SentInv'
      BY <1>t, <1>6, <2>2, ReportKeeps DEF Reports, ThreeRInv
    <3>2. DoneInv'
      BY <1>6, <2>2 DEF Reports, SendResult, ThreeRInv, DoneInv
    <3> QED  BY <1>t, <1>4, <3>1, <3>2 DEF ThreeRInv
  <2> QED  BY <2>1, <2>2
<1> QED  BY <1>5, <1>6 DEF Transact, ReportOutcome, Reports

-----------------------------------------------------------------------------
(* The theorems.                                                           *)

LEMMA InvInit == ThreeRInit => ThreeRInv
<1> SUFFICES ASSUME ThreeRInit PROVE ThreeRInv
  OBVIOUS
<1>1. CollectorTypeOK
  <2>1. <<>> \in Seq(Result) /\ Len(<<>>) <= DialResultChanLen
    BY DialResultChanLenAssumption
  <2> QED  BY <2>1, NewSummaryType DEF ThreeRInit, CollectorInit, CollectorTypeOK
<1>2. ThreeRTypeOK
  BY <1>1 DEF ThreeRInit, ThreeRTypeOK
<1>3. LaunchInv /\ DoneInv
  BY DEF ThreeRInit, CollectorInit, LaunchInv, DoneInv, StackAt
<1>4. Reported = {} /\ FailedV4 = {} /\ \A a : Sent(a) = {}
  BY DEF ThreeRInit, Reported, FailedV4, Sent, Transaction, Pc
<1>5. /\ TotalSent = 0 /\ SuccessSent = 0 /\ FailedSent = 0
      /\ ReleasedSent = 0 /\ RenewedSent = 0 /\ RebindedSent = 0
  <2>1. dialResultCh = <<>> /\ summary = NewSummary
    BY DEF ThreeRInit, CollectorInit
  <2> QED  BY <1>1, <2>1, SentType, NewSummaryType
<1>6. SentInv
  BY <1>4, <1>5, FS_EmptySet DEF SentInv
<1> QED  BY <1>2, <1>3, <1>6 DEF ThreeRInv

LEMMA InvNext == ThreeRInv /\ [ThreeRNext]_vars => ThreeRInv'
<1> SUFFICES ASSUME ThreeRInv, [ThreeRNext]_vars PROVE ThreeRInv'
  OBVIOUS
<1>1. CASE Step
  BY <1>1, RunKeeps, AllKeeps, TransactKeeps DEF Step
<1>2. CASE UNCHANGED vars
  <2>1. UNCHANGED <<summary, dialResultCh, chClosed, collectorPc, stackPc>>
    BY <1>2 DEF vars, collectorVars, threeRVars
  <2>2. CollectorTypeOK'
    BY <1>2, CollectorTypes DEF vars, ThreeRInv, ThreeRTypeOK
  <2>3. ThreeRTypeOK'
    BY <1>2, <2>2 DEF vars, threeRVars, ThreeRInv, ThreeRTypeOK
  <2>4. SentInv'
    BY <2>1, Unchanged, SentFrame DEF ThreeRInv
  <2>5. LaunchInv' /\ DoneInv'
    BY <1>2, <2>1 DEF vars, threeRVars, ThreeRInv, LaunchInv, DoneInv, StackAt
  <2> QED  BY <2>3, <2>4, <2>5 DEF ThreeRInv
<1> QED  BY <1>1, <1>2 DEF ThreeRNext, Ended

\* The inductive invariant: from it the theorems below follow.
THEOREM ThreeRInvariance == Spec => []ThreeRInv
BY InvInit, InvNext, PTL DEF Spec

\* Every variable has its type: the result channel holds no more than its
\* capacity, whatever the transactions do (sched.go:907-932).
THEOREM ThreeRTypeCorrect == Spec => []ThreeRTypeOK
<1>1. ThreeRInv => ThreeRTypeOK
  BY DEF ThreeRInv
<1> QED  BY <1>1, ThreeRInvariance, PTL

\* Every report is under one of the three actions: the v6 ones are releases,
\* the v4 ones have the action of the run.
LEMMA ReportsSplit ==
  ASSUME ThreeRTypeOK
  PROVE  /\ Cardinality(Sent("release")) + Cardinality(Sent("renew"))
              + Cardinality(Sent("rebind")) = Cardinality(Reported)
         /\ \A a \in {"release", "renew", "rebind"} : Sent(a) \in SUBSET Reported
         /\ SucceededV4 \in SUBSET Sent(Act)
<1> DEFINE Rel == Sent("release")
           Ren == Sent("renew")
           Reb == Sent("rebind")
<1>1. /\ Reported \in SUBSET (Client \X Stack)
      /\ \A a : Sent(a) \in SUBSET Reported
  BY DEF Reported, Sent, Transaction
<1>2. \A t \in Reported : ReportedAction(t[2]) \in {"release", "renew", "rebind"}
  BY <1>1, ActionsReported
<1>3. /\ Rel \cup (Ren \cup Reb) = Reported
      /\ Rel \cap (Ren \cup Reb) = {} /\ Ren \cap Reb = {}
  BY <1>2 DEF Sent
<1>4. /\ IsFiniteSet(Rel) /\ IsFiniteSet(Ren) /\ IsFiniteSet(Reb)
      /\ Cardinality(Rel) \in Nat /\ Cardinality(Ren) \in Nat /\ Cardinality(Reb) \in Nat
  BY <1>1, Finite
<1> HIDE DEF Rel, Ren, Reb
<1>5. /\ IsFiniteSet(Ren \cup Reb)
      /\ Cardinality(Ren \cup Reb) = Cardinality(Ren) + Cardinality(Reb)
  <2>1. /\ IsFiniteSet(Ren \cup Reb)
        /\ Cardinality(Ren \cup Reb)
             = Cardinality(Ren) + Cardinality(Reb) - Cardinality(Ren \cap Reb)
    BY <1>4, FS_Union, Zenon
  <2>2. Cardinality(Ren \cap Reb) = 0
    BY <1>3, FS_EmptySet
  <2> QED  BY <1>4, <2>1, <2>2
<1>6. Cardinality(Reported) = Cardinality(Rel) + Cardinality(Ren \cup Reb)
  <2>1. Cardinality(Rel \cup (Ren \cup Reb))
          = Cardinality(Rel) + Cardinality(Ren \cup Reb) - Cardinality(Rel \cap (Ren \cup Reb))
    BY <1>4, <1>5, FS_Union, Zenon
  <2>2. Cardinality(Rel \cap (Ren \cup Reb)) = 0
    BY <1>3, FS_EmptySet
  <2>3. Cardinality(Reported) = Cardinality(Rel \cup (Ren \cup Reb))
    BY <1>3
  <2> QED  BY <1>4, <1>5, <2>1, <2>2, <2>3
<1>7. SucceededV4 \in SUBSET Sent(Act)
  BY DEF SucceededV4, Succeeded, Sent, ReportedAction
<1> QED  BY <1>1, <1>4, <1>5, <1>6, <1>7 DEF Rel, Ren, Reb

\* When the collector has ended, its summary is of the results that were sent:
\* the total is theirs, and no success of them is missing under the three
\* actions (sched.go:843-898, 1028).
THEOREM ReportedSummed == Spec => []SummaryOfReported
<1>1. ThreeRInv => SummaryOfReported
  <2> SUFFICES ASSUME ThreeRInv, collectorPc = "done" PROVE SummaryOfReported
    BY DEF SummaryOfReported
  <2>1. dialResultCh = <<>> /\ CollectorTypeOK /\ ThreeRTypeOK
    BY DEF ThreeRInv, ThreeRTypeOK, DoneInv
  <2>2. /\ summary.Total = Cardinality(Reported)
        /\ summary.Released = Cardinality(Sent("release"))
        /\ summary.Renewed = Cardinality(Sent("renew"))
        /\ summary.Rebinded = Cardinality(Sent("rebind"))
        /\ summary.Failed = Cardinality(FailedV4)
        /\ summary.Success = 0
    BY <2>1, SentType DEF ThreeRInv, SentInv
  <2>3. /\ Succeeded \in SUBSET Reported /\ Failed \in SUBSET Reported
        /\ FailedV4 \in SUBSET Failed /\ Reported \in SUBSET (Client \X Stack)
    BY DEF Succeeded, Failed, FailedV4, Reported, Transaction
  <2>4. ActionCount(Act) = Cardinality(Sent(Act))
    BY <2>2, ThreeRAssumption DEF ActionCount
  <2>5. Cardinality(Sent(Act)) \in Cardinality(SucceededV4)..Cardinality(Reported)
    <3>1. Sent(Act) \in SUBSET Reported /\ SucceededV4 \in SUBSET Sent(Act)
      BY <2>1, ReportsSplit, ThreeRAssumption
    <3> QED  BY <2>3, <3>1, CardinalityBetween
  <2>6. Cardinality(Reported) \in Cardinality(Succeeded)..Cardinality(Reported)
    BY <2>3, CardinalityBetween
  <2>7. Cardinality(FailedV4) \in Cardinality(FailedV4)..Cardinality(Failed)
    BY <2>3, CardinalityBetween
  <2>8. Cardinality(Sent("release")) + Cardinality(Sent("renew"))
          + Cardinality(Sent("rebind")) = Cardinality(Reported)
    BY <2>1, ReportsSplit
  <2> QED  BY <2>2, <2>4, <2>5, <2>6, <2>7, <2>8 DEF SummaryOfReported
<1> QED  BY <1>1, ThreeRInvariance, PTL

=============================================================================
