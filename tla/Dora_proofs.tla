---------------------------- MODULE Dora_proofs ----------------------------
(***************************************************************************)
(* Theorems about Dora, for every number of clients, every set of enabled  *)
(* stacks, every channel capacity and every configuration.                 *)
(***************************************************************************)
EXTENDS Dora, ResultCollector_proofs

-----------------------------------------------------------------------------
(* Type correctness.                                                       *)

LEMMA NewResultType ==
  ASSUME NEW a \in Action, NEW ok \in BOOLEAN
  PROVE  NewResult(a, ok) \in Result
BY DEF NewResult, Result

\* What the saver and its channels do keeps their state well typed.
LEMMA SaverTypes ==
  ASSUME SaverTypeOK
  PROVE  /\ StartSaver => SaverTypeOK'
         /\ \A c \in Client, s \in Stack, l \in Lease :
              SendLease(c, s, l) => SaverTypeOK'
         /\ \A s \in Stack : SaveOne(s) => SaverTypeOK'
         /\ \A done : StopSaving(done) => SaverTypeOK'
         /\ WriteLeases => SaverTypeOK'
         /\ UNCHANGED saverVars => SaverTypeOK'
<1>1. StartSaver => SaverTypeOK'
  BY DEF StartSaver, SaverTypeOK
<1>2. ASSUME NEW c \in Client, NEW s \in Stack, NEW l \in Lease,
             SendLease(c, s, l)
      PROVE  SaverTypeOK'
  <2> DEFINE m == [id |-> c, lease |-> l]
             q == Append(saveChan[s], m)
  <2>1. q \in Seq(LeaseWithID) /\ Len(q) = Len(saveChan[s]) + 1
    <3>1. m \in LeaseWithID
      BY DEF LeaseWithID
    <3>2. saveChan[s] \in Seq(LeaseWithID)
      BY DEF SaverTypeOK
    <3> HIDE DEF m
    <3> QED  BY <3>1, <3>2
  <2>2. Len(q) <= SaveChanDepth
    BY <1>2, <2>1, SaverAssumption DEF SendLease, SaverTypeOK
  <2> HIDE DEF q
  <2>3. saveChan' = [saveChan EXCEPT ![s] = q]
    BY <1>2 DEF SendLease, q
  <2> QED  BY <1>2, <2>1, <2>2, <2>3 DEF SendLease, SaverTypeOK
<1>3. ASSUME NEW s \in Stack, SaveOne(s)
      PROVE  SaverTypeOK'
  <2> DEFINE m == Head(saveChan[s])
             q == Tail(saveChan[s])
  <2>0. saveChan[s] \in Seq(LeaseWithID) /\ saveChan[s] # <<>>
    BY <1>3 DEF SaveOne, SaverTypeOK
  <2>1. m \in LeaseWithID
    BY <2>0
  <2>2. q \in Seq(LeaseWithID) /\ Len(q) = Len(saveChan[s]) - 1
    BY <2>0
  <2>3. Len(q) <= SaveChanDepth
    BY <2>2, SaverAssumption DEF SaverTypeOK
  <2> HIDE DEF m, q
  <2>4. /\ saveChan' = [saveChan EXCEPT ![s] = q]
        /\ leaseMap' = Merge(leaseMap, m.id, s, m.lease)
    BY <1>3 DEF SaveOne, m, q
  <2>5. leaseMap' \in [Client -> [Stack -> Lease]]
    BY <2>1, <2>4 DEF Merge, SaverTypeOK, LeaseWithID
  <2> QED  BY <1>3, <2>2, <2>3, <2>4, <2>5 DEF SaveOne, SaverTypeOK
<1>4. \A done : StopSaving(done) => SaverTypeOK'
  BY DEF StopSaving, SaverTypeOK
<1>5. WriteLeases => SaverTypeOK'
  BY DEF WriteLeases, SaverTypeOK
<1>6. UNCHANGED saverVars => SaverTypeOK'
  BY DEF saverVars, SaverTypeOK
<1> QED  BY <1>1, <1>2, <1>3, <1>4, <1>5, <1>6

\* The actions of run itself.
LEMMA RunTypes ==
  ASSUME DoraTypeOK, Run
  PROVE  DoraTypeOK'
<1>c. CollectorTypeOK /\ SaverTypeOK /\ RunTypeOK /\ ClientTypeOK
  BY DEF DoraTypeOK
<1>u. UNCHANGED collectorVars => CollectorTypeOK'
  BY <1>c, CollectorTypes
<1>v. UNCHANGED saverVars => SaverTypeOK'
  BY <1>c, SaverTypes
<1>w. (CloseResults => CollectorTypeOK') /\ (StartSaver => SaverTypeOK')
  BY <1>c, CollectorTypes, SaverTypes
<1> USE <1>c, <1>u, <1>v, <1>w DEF DoraTypeOK, RunPcs
<1>0. summary \in Summary
  BY DEF CollectorTypeOK
<1>1. CASE StartRun
  BY <1>1 DEF StartRun, RunTypeOK, ClientTypeOK, clientVars
<1>2. ASSUME NEW c \in Client, LaunchDial(c)
      PROVE  DoraTypeOK'
  BY <1>2 DEF LaunchDial, RunTypeOK, ClientTypeOK
<1>3. CASE WaitDials
  BY <1>3 DEF WaitDials, RunTypeOK, ClientTypeOK, clientVars
<1>4. CASE Settle
  BY <1>4, DoraAssumption DEF Settle, RunTypeOK, ClientTypeOK, clientVars
<1>5. CASE WaitSaver
  BY <1>5 DEF WaitSaver, RunTypeOK, ClientTypeOK, clientVars
<1>6. CASE PrintInitial
  BY <1>0, <1>6 DEF PrintInitial, RunTypeOK, ClientTypeOK, clientVars
<1>7. CASE CreateOtherClnts
  BY <1>7 DEF CreateOtherClnts, RunTypeOK, ClientTypeOK, clientVars
<1>8. CASE CreateOtherFails
  BY <1>8 DEF CreateOtherFails, RunTypeOK, ClientTypeOK, clientVars
<1>9. ASSUME NEW c \in Client, LaunchFlap(c)
      PROVE  DoraTypeOK'
  <2>1. flapWG' \subseteq Client
    BY <1>9 DEF LaunchFlap, RunTypeOK
  <2>2. flapPc' \in [Client -> FlapPcs]
    BY <1>9 DEF LaunchFlap, ClientTypeOK, FlapPcs
  <2>3. todo' \subseteq Client
    BY <1>9 DEF LaunchFlap, RunTypeOK
  <2>4. RunTypeOK'
    BY <1>9, <2>1, <2>3 DEF LaunchFlap, RunTypeOK
  <2>5. ClientTypeOK'
    BY <1>9, <2>2 DEF LaunchFlap, ClientTypeOK
  <2> QED  BY <1>9, <2>4, <2>5 DEF LaunchFlap
<1>10. CASE WaitFlaps
  BY <1>0, <1>10 DEF WaitFlaps, RunTypeOK, ClientTypeOK, clientVars
<1>11. CASE CloseChannel
  BY <1>11 DEF CloseChannel, RunTypeOK, ClientTypeOK, clientVars
<1>12. CASE WaitCollector
  BY <1>12 DEF WaitCollector, RunTypeOK, ClientTypeOK, clientVars
<1>13. CASE Exit
  BY <1>13 DEF Exit, RunTypeOK, ClientTypeOK, clientVars, runVars
<1> QED  BY <1>1, <1>2, <1>3, <1>4, <1>5, <1>6, <1>7, <1>8, <1>9, <1>10,
            <1>11, <1>12, <1>13 DEF Run

\* The collector, the saver, and the events that end or interrupt the run.
LEMMA OtherTypes ==
  ASSUME DoraTypeOK, CtrlC \/ CollectStep \/ SaveStep \/ WriteFails \/ ExchangePanics
  PROVE  DoraTypeOK'
<1>c. CollectorTypeOK /\ SaverTypeOK /\ RunTypeOK /\ ClientTypeOK
  BY DEF DoraTypeOK
<1>u. UNCHANGED collectorVars => CollectorTypeOK'
  BY <1>c, CollectorTypes
<1>v. UNCHANGED saverVars => SaverTypeOK'
  BY <1>c, SaverTypes
<1>w. CollectResult \/ CollectorExit => CollectorTypeOK'
  BY <1>c, CollectorTypes
<1>x. /\ \A s \in Stack : SaveOne(s) => SaverTypeOK'
      /\ StopSaving(SaveCtxDone) => SaverTypeOK'
      /\ WriteLeases => SaverTypeOK'
  BY <1>c, SaverTypes
<1> USE <1>c, <1>u, <1>v, <1>w, <1>x DEF DoraTypeOK
<1>1. CASE CtrlC
  BY <1>1 DEF CtrlC, RunTypeOK, ClientTypeOK, runVars, clientVars
<1>2. CASE CollectStep
  BY <1>2 DEF CollectStep, RunTypeOK, ClientTypeOK, runVars, clientVars
<1>3. CASE SaveStep
  BY <1>3 DEF SaveStep, RunTypeOK, ClientTypeOK, runVars, clientVars
<1>4. CASE WriteFails \/ ExchangePanics
  BY <1>4 DEF WriteFails, ExchangePanics, Panic, Panics, RunTypeOK, ClientTypeOK, runVars,
              clientVars
<1> QED  BY <1>1, <1>2, <1>3, <1>4

LEMMA GotoType ==
  ASSUME ClientTypeOK, NEW c \in Client, NEW s \in Stack, NEW pc \in StackPcs,
         Goto(c, s, pc)
  PROVE  stackPc' \in [Client -> [Stack -> StackPcs]]
BY DEF Goto, ClientTypeOK

LEMMA EndsType ==
  ASSUME ClientTypeOK, NEW c \in Client, NEW s \in Stack, NEW pc \in StackPcs,
         NEW o \in Outcome, Ends(c, s, o, pc)
  PROVE  /\ stackPc' \in [Client -> [Stack -> StackPcs]]
         /\ outcomes' \in [Outcome -> Nat]
<1>1. outcomes[o] + 1 \in Nat
  BY DEF ClientTypeOK
<1>2. outcomes' \in [Outcome -> Nat]
  BY <1>1 DEF Ends, ClientTypeOK
<1> QED  BY <1>2, GotoType DEF Ends

\* dialAll and the dials it runs.
LEMMA DialTypes ==
  ASSUME DoraTypeOK, NEW c \in Client,
         DialAll(c) \/ \E s \in Stack : Dial(c, s)
  PROVE  DoraTypeOK'
<1>c. CollectorTypeOK /\ SaverTypeOK /\ RunTypeOK /\ ClientTypeOK
  BY DEF DoraTypeOK
<1>u. UNCHANGED collectorVars => CollectorTypeOK'
  BY <1>c, CollectorTypes
<1>v. UNCHANGED saverVars => SaverTypeOK'
  BY <1>c, SaverTypes
<1>w. \A r \in Result : SendResult(r) => CollectorTypeOK'
  BY <1>c, CollectorTypes
<1>x. \A s \in Stack, l \in Lease : SendLease(c, s, l) => SaverTypeOK'
  BY <1>c, SaverTypes
<1> USE <1>c, <1>u, <1>v DEF DoraTypeOK
<1>1. ASSUME NEW pos \in {"first", "second"}, DialStack(c, pos)
      PROVE  DoraTypeOK'
  <2>1. stackPc' \in [Client -> [Stack -> StackPcs]]
    <3>1. CASE StackAt(pos) \in Stack
      <4>1. Goto(c, StackAt(pos), "exchange")
        BY <1>1, <3>1 DEF DialStack, Goto
      <4>2. "exchange" \in StackPcs
        BY DEF StackPcs, DialPcs
      <4> QED  BY <3>1, <4>1, <4>2, GotoType
    <3>2. CASE StackAt(pos) \notin Stack
      BY <1>1, <3>2 DEF DialStack, ClientTypeOK
    <3> QED  BY <3>1, <3>2
  <2>2. dialPc' \in [Client -> {"idle", "first", "second", "wait"}]
    BY <1>1 DEF DialStack, ClientTypeOK, After
  <2>3. subWG' \in [Client -> SUBSET Stack]
    <3>1. CASE StackAt(pos) \in Stack
      <4>1. subWG[c] \cup {StackAt(pos)} \in SUBSET Stack
        BY <3>1 DEF ClientTypeOK
      <4>2. subWG' = [subWG EXCEPT ![c] = subWG[c] \cup {StackAt(pos)}]
        BY <1>1, <3>1 DEF DialStack, ClientTypeOK
      <4> QED  BY <4>1, <4>2 DEF ClientTypeOK
    <3>2. CASE StackAt(pos) \notin Stack
      BY <1>1, <3>2 DEF DialStack, ClientTypeOK
    <3> QED  BY <3>1, <3>2
  <2>4. ClientTypeOK'
    BY <1>1, <2>1, <2>2, <2>3 DEF DialStack, ClientTypeOK
  <2> QED  BY <1>1, <2>4 DEF DialStack, RunTypeOK, runVars
<1>2. CASE DialAllWait(c)
  BY <1>2 DEF DialAllWait, DialAllReturns, RunTypeOK, ClientTypeOK, FlapPcs
<1>3. ASSUME NEW s \in Stack, Dial(c, s)
      PROVE  DoraTypeOK'
  <2>e. {"dialled", "dialFailed"} \subseteq Outcome
    BY DEF Outcome
  <2>h. {"apply", "save", "dialOk", "dialFail", "reported"} \subseteq StackPcs
    BY DEF StackPcs, DialPcs
  <2>f. ASSUME NEW o \in {"dialled", "dialFailed"}, NEW pc \in StackPcs,
               Ends(c, s, o, pc)
        PROVE  /\ stackPc' \in [Client -> [Stack -> StackPcs]]
               /\ outcomes' \in [Outcome -> Nat]
    BY <2>e, <2>f, EndsType
  <2>g. ASSUME NEW applied \in BOOLEAN, AfterLease(c, s, applied)
        PROVE  /\ stackPc' \in [Client -> [Stack -> StackPcs]]
               /\ outcomes' \in [Outcome -> Nat]
    <3>1. CASE Ends(c, s, "dialled", "dialOk")
      BY <2>f, <2>h, <3>1
    <3>2. CASE /\ Goto(c, s, "apply") \/ Goto(c, s, "save")
               /\ UNCHANGED outcomes
      BY <2>h, <3>2, GotoType DEF ClientTypeOK
    <3> QED  BY <2>g, <3>1, <3>2 DEF AfterLease
  <2>1. CASE ExchangeOk(c, s)
    <3>1. lease' \in [Client -> [Stack -> Lease]]
      BY <2>1 DEF ExchangeOk, ClientTypeOK, Lease
    <3> QED  BY <2>1, <2>g, <3>1 DEF ExchangeOk, RunTypeOK, ClientTypeOK, runVars
  <2>2. CASE ExchangeFails(c, s)
    BY <2>2, <2>f, <2>h DEF ExchangeFails, RunTypeOK, ClientTypeOK, runVars
  <2>3. CASE ApplyOnInterface(c, s)
    <3>1. AfterLease(c, s, TRUE) \/ Ends(c, s, "dialFailed", "dialFail")
      BY <2>3 DEF ApplyOnInterface
    <3> QED  BY <2>3, <2>f, <2>g, <2>h, <3>1
             DEF ApplyOnInterface, RunTypeOK, ClientTypeOK, runVars
  <2>4. CASE HandToSaver(c, s)
    <3>1. SaverTypeOK'
      BY <1>x, <2>4 DEF HandToSaver, ClientTypeOK
    <3> QED  BY <2>4, <2>f, <2>h, <3>1
             DEF HandToSaver, RunTypeOK, ClientTypeOK, runVars
  <2>5. CASE ReportDial(c, s)
    <3>1. NewResult("dora", stackPc[c][s] = "dialOk") \in Result
      BY NewResultType DEF Action
    <3>2. CollectorTypeOK' /\ proc' \in {"running", "exited", "fatal"} \cup Panics
      BY <1>w, <2>5, <3>1 DEF ReportDial, Report, RunTypeOK, Panics
    <3> QED  BY <2>5, <2>h, <3>2, GotoType
             DEF ReportDial, RunTypeOK, ClientTypeOK, runVars
  <2>6. CASE DialDone(c, s)
    BY <2>6, GotoType DEF DialDone, RunTypeOK, ClientTypeOK, StackPcs, runVars
  <2> QED  BY <1>3, <2>1, <2>2, <2>3, <2>4, <2>5, <2>6 DEF Dial
<1> QED  BY <1>1, <1>2, <1>3 DEF DialAll

\* flapFunc and the releases it runs.
LEMMA FlapTypes ==
  ASSUME DoraTypeOK, NEW c \in Client, Flap(c)
  PROVE  DoraTypeOK'
<1>c. CollectorTypeOK /\ SaverTypeOK /\ RunTypeOK /\ ClientTypeOK
  BY DEF DoraTypeOK
<1>u. UNCHANGED collectorVars => CollectorTypeOK'
  BY <1>c, CollectorTypes
<1>v. UNCHANGED saverVars => SaverTypeOK'
  BY <1>c, SaverTypes
<1>w. \A r \in Result : SendResult(r) => CollectorTypeOK'
  BY <1>c, CollectorTypes
<1> USE <1>c, <1>u, <1>v DEF DoraTypeOK
<1>1. CASE FlapStop(c)
  BY <1>1 DEF FlapStop, FlapGoto, RunTypeOK, ClientTypeOK, FlapPcs
<1>2. CASE FlapUp(c)
  BY <1>2 DEF FlapUp, FlapGoto, RunTypeOK, ClientTypeOK, FlapPcs, runVars
<1>3. ASSUME NEW s \in {"v4", "v6"}, FlapRelease(c, s)
      PROVE  DoraTypeOK'
  <2>0. stackPc' \in [Client -> [Stack -> StackPcs]]
    <3>1. CASE Goto(c, s, "release") /\ s \in Stack
      BY <3>1, GotoType DEF StackPcs, ReleasePcs
    <3> QED  BY <1>3, <3>1 DEF FlapRelease, ClientTypeOK
  <2>1. ClientTypeOK'
    BY <1>3, <2>0 DEF FlapRelease, FlapGoto, Busy, NextCheck,
                      ClientTypeOK, FlapPcs
  <2> QED  BY <1>3, <2>1 DEF FlapRelease, RunTypeOK, runVars
<1>4. ASSUME NEW s \in Stack, Release(c, s)
      PROVE  DoraTypeOK'
  <2>1. CASE otherClnt[c][s]
    <3>1. ClientTypeOK'
      <4>1. \/ Ends(c, s, "released", "releaseOk")
            \/ Ends(c, s, "releaseFailed", "releaseFail")
        BY <1>4, <2>1 DEF Release
      <4>2. /\ stackPc' \in [Client -> [Stack -> StackPcs]]
            /\ outcomes' \in [Outcome -> Nat]
        BY <4>1, EndsType DEF Outcome, StackPcs, ReleasePcs
      <4> QED  BY <1>4, <2>1, <4>2 DEF Release, ClientTypeOK
    <3> QED  BY <1>4, <2>1, <3>1 DEF Release, RunTypeOK, runVars
  <2>2. CASE ~otherClnt[c][s]
    BY <1>4, <2>2 DEF Release, Panic, RunTypeOK, ClientTypeOK, Panics,
                      runVars, clientVars
  <2> QED  BY <2>1, <2>2
<1>5. ASSUME NEW s \in Stack, ReportRelease(c, s)
      PROVE  DoraTypeOK'
  <2>1. NewResult("release", ReleaseReported(s, stackPc[c][s] = "releaseOk"))
          \in Result
    BY NewResultType DEF Action, ReleaseReported
  <2>2. CollectorTypeOK' /\ proc' \in {"running", "exited", "fatal"} \cup Panics
    BY <1>w, <1>5, <2>1 DEF ReportRelease, Report, RunTypeOK, Panics
  <2>3. ClientTypeOK'
    BY <1>5, GotoType
       DEF ReportRelease, FlapGoto, NextCheck, ClientTypeOK, FlapPcs, StackPcs
  <2> QED  BY <1>5, <2>2, <2>3 DEF ReportRelease, RunTypeOK, runVars
<1>6. CASE FlapMid(c)
  BY <1>6 DEF FlapMid, FlapGoto, RunTypeOK, ClientTypeOK, FlapPcs, runVars
<1>7. CASE Redial(c)
  BY <1>7 DEF Redial, FlapGoto, RunTypeOK, ClientTypeOK, FlapPcs, runVars
<1> QED  BY <1>1, <1>2, <1>3, <1>4, <1>5, <1>6, <1>7 DEF Flap

LEMMA TypeInit == DoraInit => DoraTypeOK
<1> SUFFICES ASSUME DoraInit PROVE DoraTypeOK
  OBVIOUS
<1>1. CollectorTypeOK
  <2>1. Len(dialResultCh) <= DialResultChanLen /\ dialResultCh \in Seq(Result)
    BY DialResultChanLenAssumption DEF DoraInit, CollectorInit
  <2> QED  BY <2>1, NewSummaryType DEF DoraInit, CollectorInit, CollectorTypeOK
<1>2. SaverTypeOK
  BY SaverAssumption DEF DoraInit, SaverInit, SaverTypeOK, Lease, NoLease
<1>3. RunTypeOK
  BY NewSummaryType DEF DoraInit, RunTypeOK, RunPcs
<1>4. ClientTypeOK
  BY DEF DoraInit, ClientTypeOK, FlapPcs, StackPcs, Lease, NoLease
<1> QED  BY <1>1, <1>2, <1>3, <1>4 DEF DoraTypeOK

LEMMA TypeNext == DoraTypeOK /\ [DoraNext]_vars => DoraTypeOK'
<1> SUFFICES ASSUME DoraTypeOK, [DoraNext]_vars
             PROVE  DoraTypeOK'
  OBVIOUS
<1>1. CASE Step
  BY <1>1, RunTypes, OtherTypes, DialTypes, FlapTypes DEF Step
<1>2. CASE UNCHANGED vars
  BY <1>2, CollectorTypes, SaverTypes
     DEF vars, DoraTypeOK, RunTypeOK, ClientTypeOK, runVars, clientVars
<1> QED  BY <1>1, <1>2 DEF DoraNext, Ended

\* Every variable keeps its type.
THEOREM TypeCorrect == Spec => []DoraTypeOK
BY TypeInit, TypeNext, PTL DEF Spec

-----------------------------------------------------------------------------
(* The inductive invariant.                                                *)

Inv == WaitGroupsExact /\ PhaseInv /\ ClientInv /\ ClosingInv /\ NeverSendsOnClosed

LEMMA RunInv ==
  ASSUME DoraInv, proc = "running", Run
  PROVE  Inv'
<1> USE DEF DoraInv, Inv, NeverSendsOnClosed, DoraTypeOK, RunTypeOK, ClientTypeOK
<1>1. CASE StartRun
  BY <1>1 DEF StartRun, WaitGroupsExact, PhaseInv, ClientInv, ClosingInv,
              collectorVars, clientVars
<1>2. ASSUME NEW c \in Client, LaunchDial(c)
      PROVE  Inv'
  <2>1. flapPc[c] = "off" /\ dialPc[c] = "idle"
    BY <1>2 DEF LaunchDial, WaitGroupsExact, PhaseInv
  <2>2. ClientInv'
    BY <1>2, <2>1 DEF LaunchDial, ClientInv
  <2>3. WaitGroupsExact'
    BY <1>2, <2>1 DEF LaunchDial, WaitGroupsExact
  <2>4. PhaseInv' /\ ClosingInv'
    BY <1>2 DEF LaunchDial, PhaseInv, ClosingInv, collectorVars
  <2> QED  BY <1>2, <2>2, <2>3, <2>4 DEF LaunchDial
<1>3. CASE WaitDials
  BY <1>3 DEF WaitDials, WaitGroupsExact, PhaseInv, ClientInv, ClosingInv,
              collectorVars, clientVars
<1>4. CASE Settle
  BY <1>4 DEF Settle, WaitGroupsExact, PhaseInv, ClientInv, ClosingInv,
              collectorVars, clientVars
<1>5. CASE WaitSaver
  BY <1>5 DEF WaitSaver, WaitGroupsExact, PhaseInv, ClientInv, ClosingInv,
              collectorVars, clientVars
<1>6. CASE PrintInitial
  BY <1>6 DEF PrintInitial, WaitGroupsExact, PhaseInv, ClientInv, ClosingInv,
              collectorVars, clientVars
<1>7. CASE CreateOtherClnts
  BY <1>7 DEF CreateOtherClnts, WaitGroupsExact, PhaseInv, ClientInv, ClosingInv,
              collectorVars, clientVars
<1>8. CASE CreateOtherFails
  BY <1>8 DEF CreateOtherFails, WaitGroupsExact, PhaseInv, ClientInv, ClosingInv,
              collectorVars, clientVars
<1>9. ASSUME NEW c \in Client, LaunchFlap(c)
      PROVE  Inv'
  <2>1. flapPc[c] = "off" /\ dialPc[c] = "idle" /\ c \notin flapWG
    BY <1>9 DEF LaunchFlap, WaitGroupsExact, PhaseInv
  <2>2. ClientInv'
    <3>1. /\ UNCHANGED <<dialPc, subWG, stackPc>>
          /\ \A d \in Client : d # c => flapPc'[d] = flapPc[d]
          /\ flapPc'[c] \in {"off", "up"}
      BY <1>9, <2>1 DEF LaunchFlap
    <3>2. \A s \in Stack : stackPc[c][s] \notin ReleasePcs /\ flapPc'[c] # Busy(s)
      BY <2>1, <3>1 DEF ClientInv, Busy
    <3> QED  BY <2>1, <3>1, <3>2 DEF ClientInv
  <2>3. WaitGroupsExact'
    <3>1. /\ UNCHANGED <<dialWG, dialPc, subWG, stackPc>>
          /\ \/ flapWG' = flapWG \cup {c} /\ flapPc' = [flapPc EXCEPT ![c] = "up"]
             \/ UNCHANGED <<flapWG, flapPc>>
      BY <1>9 DEF LaunchFlap
    <3>2. c \notin dialWG
      BY <2>1 DEF WaitGroupsExact
    <3>3. CASE UNCHANGED <<flapWG, flapPc>>
      BY <3>1, <3>3 DEF WaitGroupsExact
    <3>4. CASE flapWG' = flapWG \cup {c} /\ flapPc' = [flapPc EXCEPT ![c] = "up"]
      <4>1. \A d \in Client : d # c => flapPc'[d] = flapPc[d]
        BY <3>4
      <4>2. flapPc'[c] = "up"
        BY <3>4
      <4> QED  BY <3>1, <3>2, <3>4, <4>1, <4>2 DEF WaitGroupsExact
    <3> QED  BY <3>1, <3>3, <3>4
  <2>4. PhaseInv' /\ ClosingInv'
    BY <1>9 DEF LaunchFlap, PhaseInv, ClosingInv, collectorVars
  <2> QED  BY <1>9, <2>2, <2>3, <2>4 DEF LaunchFlap
<1>10. CASE WaitFlaps
  BY <1>10 DEF WaitFlaps, WaitGroupsExact, PhaseInv, ClientInv, ClosingInv,
               collectorVars, clientVars
<1>11. CASE CloseChannel
  BY <1>11 DEF CloseChannel, CloseResults, WaitGroupsExact, PhaseInv, ClientInv,
               ClosingInv, clientVars
<1>12. CASE WaitCollector
  BY <1>12 DEF WaitCollector, WaitGroupsExact, PhaseInv, ClientInv, ClosingInv,
               collectorVars, clientVars
<1>13. CASE Exit
  BY <1>13 DEF Exit, WaitGroupsExact, PhaseInv, ClientInv, ClosingInv,
               collectorVars, clientVars, runVars
<1> QED  BY <1>1, <1>2, <1>3, <1>4, <1>5, <1>6, <1>7, <1>8, <1>9, <1>10,
            <1>11, <1>12, <1>13 DEF Run

LEMMA OtherInv ==
  ASSUME DoraInv, proc = "running", CtrlC \/ CollectStep \/ SaveStep \/ WriteFails \/ ExchangePanics
  PROVE  Inv'
<1> USE DEF DoraInv, Inv, NeverSendsOnClosed
<1>1. UNCHANGED <<runVars, clientVars>>
  BY DEF CtrlC, CollectStep, SaveStep, WriteFails, ExchangePanics, Panic
<1>2. UNCHANGED chClosed
  BY DEF CtrlC, CollectStep, CollectResult, CollectorExit, SaveStep, WriteFails,
         ExchangePanics, Panic,
         collectorVars
<1>3. WaitGroupsExact' /\ PhaseInv' /\ ClientInv'
  BY <1>1, <1>2 DEF WaitGroupsExact, PhaseInv, ClientInv, runVars, clientVars
<1>4. proc' \in {"running", "fatal", "nilIA"}
  BY DEF CtrlC, CollectStep, SaveStep, WriteFails, ExchangePanics, Panic
<1>5. ClosingInv'
  <2>1. CASE CollectStep
    BY <1>1, <1>4, <2>1 DEF CollectStep, CollectResult, CollectorExit, ClosingInv,
                            runVars
  <2>2. CASE UNCHANGED collectorVars
    BY <1>1, <1>4, <2>2 DEF ClosingInv, collectorVars, runVars
  <2> QED  BY <2>1, <2>2 DEF CtrlC, SaveStep, WriteFails, ExchangePanics, Panic
<1> QED  BY <1>3, <1>4, <1>5

\* A stack that dials belongs to a client in one of the two phases that dial,
\* so the result channel is open.
LEMMA DialOpen ==
  ASSUME DoraInv, NEW c \in Client, dialPc[c] # "idle"
  PROVE  /\ \/ runPc = "dial" /\ flapPc[c] = "off"
            \/ runPc = "flap" /\ flapPc[c] = "redial"
         /\ ~chClosed
         /\ collectorPc # "done"
<1> USE DEF DoraInv, DoraTypeOK, CollectorTypeOK
<1>1. CASE flapPc[c] = "off"
  BY <1>1 DEF WaitGroupsExact, PhaseInv, ClosingInv
<1>2. CASE flapPc[c] # "off"
  BY <1>2 DEF WaitGroupsExact, PhaseInv, ClosingInv, ClientInv
<1> QED  BY <1>1, <1>2

\* The same for a stack that is being released.
LEMMA ReleaseOpen ==
  ASSUME DoraInv, NEW c \in Client, flapPc[c] # "off"
  PROVE  runPc = "flap" /\ ~chClosed /\ collectorPc # "done"
BY DEF DoraInv, WaitGroupsExact, PhaseInv, ClosingInv

\* A stack that dials is in the WaitGroup of a dialAll that waits for it.
LEMMA DialingBusy ==
  ASSUME DoraInv, NEW c \in Client, NEW s \in Stack, stackPc[c][s] \in DialPcs
  PROVE  s \in subWG[c] /\ dialPc[c] \in {"second", "wait"}
BY DEF DoraInv, WaitGroupsExact, ClientInv, DoraTypeOK, ClientTypeOK

LEMMA DialInv ==
  ASSUME DoraInv, proc = "running", NEW c \in Client,
         DialAll(c) \/ \E s \in Stack : Dial(c, s)
  PROVE  Inv'
<1> USE DEF DoraInv, Inv, NeverSendsOnClosed, DoraTypeOK, ClientTypeOK
<1>1. ASSUME NEW pos \in {"first", "second"}, DialStack(c, pos)
      PROVE  Inv'
  <2> DEFINE s == StackAt(pos)
  <2>1. dialPc[c] = pos /\ dialPc' = [dialPc EXCEPT ![c] = After(pos)]
    BY <1>1 DEF DialStack
  <2>2. \A t \in Stack : stackPc[c][t] \notin ReleasePcs
    BY <2>1, SaverAssumption DEF ClientInv, Busy
  <2>3. WaitGroupsExact'
    BY <1>1, <2>1 DEF DialStack, WaitGroupsExact, DialPcs, After, runVars
  <2>4. PhaseInv' /\ ClosingInv'
    BY <1>1 DEF DialStack, PhaseInv, ClosingInv, collectorVars, runVars
  <2>5. \A t \in Stack : stackPc'[c][t] \notin ReleasePcs
    BY <1>1, <2>2 DEF DialStack, ReleasePcs
  <2>6. subWG[c] \subseteq IF pos = "first" THEN {} ELSE {StackAt("first")}
    BY <2>1 DEF ClientInv
  <2>7. dialPc'[c] = "second" => subWG'[c] \subseteq {StackAt("first")}
    BY <1>1, <2>1, <2>6 DEF DialStack, After
  <2>8. ASSUME NEW d \in Client, d # c
        PROVE  /\ dialPc'[d] = dialPc[d]
               /\ subWG'[d] = subWG[d]
               /\ stackPc'[d] = stackPc[d]
    BY <1>1, <2>8 DEF DialStack
  <2>9. dialPc'[c] \in {"second", "wait"} /\ flapPc' = flapPc
    BY <1>1, <2>1 DEF DialStack, After
  <2>10. \A t \in Stack : flapPc[c] # Busy(t)
    BY <2>1, <2>2 DEF ClientInv
  <2>11. ClientInv'
    BY <2>1, <2>5, <2>7, <2>8, <2>9, <2>10 DEF ClientInv
  <2> QED  BY <1>1, <2>3, <2>4, <2>11 DEF DialStack
<1>2. CASE DialAllWait(c)
  <2>1. flapPc[c] \in {"off", "redial"} /\ dialPc[c] = "wait"
    BY <1>2 DEF DialAllWait, ClientInv
  <2>2. WaitGroupsExact'
    BY <1>2, <2>1 DEF DialAllWait, DialAllReturns, WaitGroupsExact
  <2>3. PhaseInv' /\ ClosingInv'
    BY <1>2 DEF DialAllWait, DialAllReturns, PhaseInv, ClosingInv, collectorVars
  <2>4. ClientInv'
    BY <1>2, <2>1, SaverAssumption DEF DialAllWait, DialAllReturns, ClientInv, Busy
  <2> QED  BY <1>2, <2>2, <2>3, <2>4 DEF DialAllWait, DialAllReturns
<1>3. ASSUME NEW s \in Stack, Dial(c, s)
      PROVE  Inv'
  <2>1. stackPc[c][s] \in DialPcs
    BY <1>3 DEF Dial, ExchangeOk, ExchangeFails, ApplyOnInterface, HandToSaver,
                ReportDial, DialDone, DialPcs
  <2>2. s \in subWG[c] /\ dialPc[c] \in {"second", "wait"}
    BY <2>1, DialingBusy
  <2>3. ~chClosed /\ collectorPc # "done"
    BY <2>2, DialOpen
  <2>4. UNCHANGED <<runVars, dialPc, flapPc, chClosed, collectorPc>>
    BY <1>3, <2>3
       DEF Dial, ExchangeOk, ExchangeFails, ApplyOnInterface, HandToSaver,
           ReportDial, Report, SendResult, DialDone, collectorVars
  <2>5. PhaseInv' /\ ClosingInv'
    <3>1. proc' = "running"
      BY <1>3, <2>3
         DEF Dial, ExchangeOk, ExchangeFails, ApplyOnInterface, HandToSaver,
             ReportDial, Report, DialDone
    <3> QED  BY <2>3, <2>4, <3>1 DEF PhaseInv, ClosingInv, runVars
  <2>6. \/ /\ subWG' = subWG
           /\ \E pc \in DialPcs : Goto(c, s, pc)
        \/ /\ subWG' = [subWG EXCEPT ![c] = @ \ {s}]
           /\ Goto(c, s, "off")
    BY <1>3 DEF Dial, ExchangeOk, ExchangeFails, ApplyOnInterface, HandToSaver,
                ReportDial, DialDone, AfterLease, Ends, DialPcs
  <2>7. WaitGroupsExact'
    <3>1. \A d \in Client : /\ d \in dialWG' <=> dialPc'[d] # "idle" /\ flapPc'[d] = "off"
                            /\ d \in flapWG' <=> flapPc'[d] # "off"
      BY <2>4 DEF WaitGroupsExact, runVars
    <3>2. ASSUME NEW d \in Client, NEW t \in Stack
          PROVE  t \in subWG'[d] <=> stackPc'[d][t] \in DialPcs
      <4>1. t \in subWG[d] <=> stackPc[d][t] \in DialPcs
        BY DEF WaitGroupsExact
      <4>2. CASE subWG' = subWG /\ \E pc \in DialPcs : Goto(c, s, pc)
        BY <2>1, <4>1, <4>2 DEF Goto
      <4>3. CASE subWG' = [subWG EXCEPT ![c] = @ \ {s}] /\ Goto(c, s, "off")
        <5>1. "off" \notin DialPcs
          BY DEF DialPcs
        <5> QED  BY <4>1, <4>3, <5>1 DEF Goto
      <4> QED  BY <2>6, <4>2, <4>3
    <3> QED  BY <3>1, <3>2 DEF WaitGroupsExact
  <2>8. ClientInv'
    <3>1. stackPc[c][s] \notin ReleasePcs /\ stackPc'[c][s] \notin ReleasePcs
      BY <2>1, <2>6 DEF Goto, DialPcs, ReleasePcs
    <3>2. \A d \in Client, t \in Stack :
            stackPc'[d][t] \in ReleasePcs <=> stackPc[d][t] \in ReleasePcs
      <4> SUFFICES ASSUME NEW d \in Client, NEW t \in Stack
                   PROVE  stackPc'[d][t] \in ReleasePcs
                            <=> stackPc[d][t] \in ReleasePcs
        OBVIOUS
      <4>1. CASE d = c /\ t = s
        BY <3>1, <4>1
      <4>2. CASE ~(d = c /\ t = s)
        <5>1. PICK pc : Goto(c, s, pc)
          BY <2>6
        <5>2. stackPc'[d][t] = stackPc[d][t]
          BY <4>2, <5>1 DEF Goto
        <5> QED  BY <5>2
      <4> QED  BY <4>1, <4>2
    <3>3. \A d \in Client : subWG'[d] \subseteq subWG[d]
      BY <2>6
    <3> QED  BY <2>4, <3>2, <3>3 DEF ClientInv
  <2>9. proc' # "sendOnClosed"
    BY <1>3, <2>3
       DEF Dial, ExchangeOk, ExchangeFails, ApplyOnInterface, HandToSaver,
           ReportDial, Report, DialDone
  <2> QED  BY <2>5, <2>7, <2>8, <2>9
<1> QED  BY <1>1, <1>2, <1>3 DEF DialAll

\* What moves in flapFunc is a client that flaps and is not dialling again.
LEMMA FlapAwake ==
  ASSUME DoraInv, NEW c \in Client, Flap(c)
  PROVE  flapPc[c] # "off" /\ flapPc[c] # "redial"
<1>1. ASSUME NEW s \in Stack, stackPc[c][s] \in ReleasePcs
      PROVE  flapPc[c] = Busy(s)
  BY <1>1 DEF DoraInv, ClientInv
<1> QED
  BY <1>1 DEF Flap, FlapStop, FlapUp, FlapRelease, Release, ReportRelease, FlapMid,
              Redial, ReleasePcs, Busy

LEMMA FlapInv ==
  ASSUME DoraInv, proc = "running", NEW c \in Client, Flap(c)
  PROVE  Inv'
<1> USE DEF DoraInv, Inv, NeverSendsOnClosed, DoraTypeOK, ClientTypeOK
<1>0. flapPc[c] # "off" /\ flapPc[c] # "redial"
  BY FlapAwake
<1>1. ~chClosed /\ collectorPc # "done" /\ runPc = "flap"
  BY <1>0, ReleaseOpen
<1>2. dialPc[c] = "idle" /\ c \notin dialWG /\ c \in flapWG /\ subWG[c] = {}
  BY <1>0 DEF ClientInv, WaitGroupsExact
<1>3. \A s \in Stack : stackPc[c][s] \notin DialPcs
  BY <1>2 DEF WaitGroupsExact
<1>4. CASE FlapStop(c)
  BY <1>0, <1>1, <1>2, <1>4, SaverAssumption
     DEF FlapStop, FlapGoto, WaitGroupsExact, PhaseInv, ClientInv, ClosingInv, Busy,
         collectorVars
<1>5. CASE FlapUp(c) \/ FlapMid(c)
  BY <1>0, <1>1, <1>2, <1>5, SaverAssumption
     DEF FlapUp, FlapMid, FlapGoto, WaitGroupsExact, PhaseInv, ClientInv, ClosingInv,
         Busy, collectorVars, runVars
<1>6. ASSUME NEW s \in {"v4", "v6"}, FlapRelease(c, s)
      PROVE  Inv'
  <2>1. WaitGroupsExact'
    BY <1>0, <1>2, <1>3, <1>6
       DEF FlapRelease, FlapGoto, Goto, Busy, NextCheck, DialPcs, WaitGroupsExact,
           runVars
  <2>2. ClientInv'
    <3>1. \A t \in Stack : stackPc[c][t] \notin ReleasePcs
      BY <1>6, SaverAssumption DEF ClientInv, FlapRelease, Busy
    <3>2. CASE s \in Stack /\ Goto(c, s, "release") /\ FlapGoto(c, Busy(s))
      BY <1>2, <1>6, <3>1, <3>2, SaverAssumption
         DEF FlapRelease, FlapGoto, Goto, Busy, ReleasePcs, ClientInv
    <3>3. CASE FlapGoto(c, NextCheck(s)) /\ UNCHANGED stackPc
      BY <1>2, <1>6, <3>1, <3>3, SaverAssumption
         DEF FlapRelease, FlapGoto, Busy, NextCheck, ClientInv
    <3> QED  BY <1>6, <3>2, <3>3 DEF FlapRelease
  <2>3. PhaseInv' /\ ClosingInv'
    BY <1>6 DEF FlapRelease, PhaseInv, ClosingInv, collectorVars, runVars
  <2> QED  BY <1>6, <2>1, <2>2, <2>3 DEF FlapRelease
<1>7. ASSUME NEW s \in Stack, Release(c, s)
      PROVE  Inv'
  <2>1. CASE otherClnt[c][s]
    <3>1. \E pc \in ReleasePcs : Goto(c, s, pc)
      BY <1>7, <2>1 DEF Release, Ends, ReleasePcs
    <3>2. stackPc[c][s] \in ReleasePcs
      BY <1>7 DEF Release, ReleasePcs
    <3>3. UNCHANGED <<collectorVars, runVars, proc, dialPc, subWG, flapPc>>
      BY <1>7, <2>1 DEF Release
    <3>4. WaitGroupsExact'
      BY <3>1, <3>2, <3>3 DEF Goto, WaitGroupsExact, DialPcs, ReleasePcs, runVars
    <3>5. ClientInv'
      BY <3>1, <3>2, <3>3 DEF Goto, ClientInv
    <3> QED
      BY <3>3, <3>4, <3>5 DEF PhaseInv, ClosingInv, collectorVars, runVars
  <2>2. CASE ~otherClnt[c][s]
    BY <1>7, <2>2 DEF Release, Panic, WaitGroupsExact, PhaseInv, ClientInv, ClosingInv,
                      collectorVars, runVars, clientVars
  <2> QED  BY <2>1, <2>2
<1>8. ASSUME NEW s \in Stack, ReportRelease(c, s)
      PROVE  Inv'
  <2>1. flapPc[c] = Busy(s)
    BY <1>8 DEF ReportRelease, ReleasePcs, ClientInv
  <2>2. /\ Goto(c, s, "off") /\ FlapGoto(c, NextCheck(s))
        /\ UNCHANGED <<runVars, dialPc, subWG, chClosed, collectorPc, proc>>
    BY <1>1, <1>8 DEF ReportRelease, Report, SendResult
  <2>3. WaitGroupsExact'
    BY <1>0, <1>2, <1>3, <2>2
       DEF Goto, FlapGoto, NextCheck, WaitGroupsExact, DialPcs, runVars
  <2>4. ClientInv'
    BY <1>2, <2>1, <2>2, SaverAssumption
       DEF Goto, FlapGoto, NextCheck, Busy, ClientInv, ReleasePcs
  <2>5. PhaseInv' /\ ClosingInv'
    BY <1>1, <2>2 DEF PhaseInv, ClosingInv, runVars
  <2> QED  BY <2>2, <2>3, <2>4, <2>5
<1>9. CASE Redial(c)
  BY <1>0, <1>1, <1>2, <1>9, SaverAssumption
     DEF Redial, FlapGoto, WaitGroupsExact, PhaseInv, ClientInv, ClosingInv, Busy,
         collectorVars, runVars
<1> QED  BY <1>4, <1>5, <1>6, <1>7, <1>8, <1>9 DEF Flap

\* The inductive invariant holds in every reachable state.
THEOREM Invariance == Spec => []DoraInv
<1>1. DoraInit => DoraInv
  <2> SUFFICES ASSUME DoraInit PROVE Inv
    BY TypeInit DEF DoraInv, Inv
  <2>1. WaitGroupsExact
    BY DEF DoraInit, WaitGroupsExact, DialPcs
  <2>2. PhaseInv /\ ClosingInv /\ NeverSendsOnClosed
    BY DEF DoraInit, CollectorInit, PhaseInv, ClosingInv, NeverSendsOnClosed
  <2>3. ClientInv
    BY SaverAssumption DEF DoraInit, ClientInv, ReleasePcs, Busy
  <2> QED  BY <2>1, <2>2, <2>3 DEF Inv
<1>2. DoraInv /\ [DoraNext]_vars => DoraInv'
  <2> SUFFICES ASSUME DoraInv, [DoraNext]_vars
               PROVE  Inv'
    BY TypeNext DEF DoraInv, Inv
  <2>1. CASE proc = "running" /\ Step
    BY <2>1, RunInv, OtherInv, DialInv, FlapInv DEF Step
  <2>2. CASE UNCHANGED vars
    BY <2>2 DEF vars, runVars, clientVars, collectorVars, DoraInv, Inv,
                WaitGroupsExact, PhaseInv, ClientInv, ClosingInv, NeverSendsOnClosed
  <2> QED  BY <2>1, <2>2 DEF DoraNext, Ended
<1> QED  BY <1>1, <1>2, PTL DEF Spec

\* No goroutine ever sends on the closed result channel.
THEOREM NoLateSend == Spec => []NeverSendsOnClosed
BY Invariance, PTL DEF DoraInv

\* The WaitGroups count exactly the goroutines at work.
THEOREM WaitGroupsCorrect == Spec => []WaitGroupsExact
BY Invariance, PTL DEF DoraInv

\* A client never releases a stack while one of its stacks dials.
THEOREM ReleaseAfterDial == Spec => []NoReleaseWhileDialling
<1>1. DoraInv => NoReleaseWhileDialling
  <2> SUFFICES ASSUME DoraInv, NEW c \in Client, NEW s \in Stack, NEW t \in Stack,
                      stackPc[c][s] \in ReleasePcs, stackPc[c][t] \in DialPcs
               PROVE  FALSE
    BY DEF NoReleaseWhileDialling
  <2>1. flapPc[c] = Busy(s)
    BY DEF DoraInv, ClientInv
  <2>2. dialPc[c] # "idle"
    BY DialingBusy
  <2> QED  BY <2>1, <2>2, DialOpen DEF Busy
<1> QED  BY <1>1, Invariance, PTL

-----------------------------------------------------------------------------
(* The lease file.  While the clients dial for the first time a lease is    *)
(* with its dial, in a channel or in the map of the saver.                  *)

Initial == runPc \in {"start", "dial", "settle", "saveWait", "initial"}

\* The stack of a client has not finished its first exchange.
Undialled(c, s) ==
  \/ runPc = "start"
  \/ runPc = "dial" /\ c \in todo
  \/ dialPc[c] = "first"
  \/ dialPc[c] = "second" /\ s = StackAt("second")
  \/ stackPc[c][s] = "exchange"

InChan(c, s) == \E k \in DOMAIN saveChan[s] : saveChan[s][k].id = c

LeaseSafe(c, s) ==
  /\ Undialled(c, s) => lease[c][s] = NoLease
  /\ stackPc[c][s] = "save" => lease[c][s] # NoLease
  /\ stackPc[c][s] # "apply"
  /\ leaseMap[c][s] \in {NoLease, lease[c][s]}
  /\ \A k \in DOMAIN saveChan[s] :
       saveChan[s][k].id = c =>
         saveChan[s][k].lease = lease[c][s] /\ lease[c][s] # NoLease
  /\ leaseMap[c][s] = lease[c][s] \/ stackPc[c][s] = "save" \/ InChan(c, s)

DialledInv ==
  Initial /\ SaveLease /\ ~ApplyLease =>
    \A c \in Client, s \in Stack : LeaseSafe(c, s)

\* The saver runs from the start of the dialling until it is told to stop.
SaverInv ==
  /\ saverPc # "off" => SaveLease
  /\ SaveLease /\ saverPc = "off" => runPc = "start"
  /\ saverPc \in {"encode", "saved"} => saveCancelled \/ interrupted
  /\ saveCancelled => runPc \notin {"start", "dial", "settle"}

DrainedInv ==
  SettleTime /\ ~interrupted /\ saveCancelled /\ runPc \in {"saveWait", "initial"}
    => \A s \in Stack : saveChan[s] = <<>>

\* What changes neither the lease, nor the map, nor the channel, moves the
\* dial into or out of the hand-over only before its first exchange is over.
LEMMA LeaseKept ==
  ASSUME NEW c, NEW s, LeaseSafe(c, s),
         UNCHANGED <<lease[c][s], leaseMap[c][s], saveChan[s]>>,
         Undialled(c, s)' => Undialled(c, s),
         \/ stackPc'[c][s] = stackPc[c][s]
         \/ /\ stackPc'[c][s] \notin {"save", "apply"}
            /\ stackPc[c][s] # "save" \/ Undialled(c, s)
  PROVE  LeaseSafe(c, s)'
<1>1. saveChan'[s] = saveChan[s] /\ lease'[c][s] = lease[c][s] /\ leaseMap'[c][s] = leaseMap[c][s]
  OBVIOUS
<1>2. InChan(c, s)' <=> InChan(c, s)
  BY <1>1 DEF InChan
<1>3. /\ Undialled(c, s)' => lease'[c][s] = NoLease
      /\ stackPc'[c][s] = "save" => lease'[c][s] # NoLease
      /\ stackPc'[c][s] # "apply"
      /\ leaseMap'[c][s] \in {NoLease, lease'[c][s]}
      /\ leaseMap'[c][s] = lease'[c][s] \/ stackPc'[c][s] = "save" \/ InChan(c, s)'
  <2> HIDE DEF Undialled, InChan
  <2> QED  BY <1>1, <1>2 DEF LeaseSafe
<1>4. \A k \in DOMAIN saveChan'[s] :
        saveChan'[s][k].id = c =>
          saveChan'[s][k].lease = lease'[c][s] /\ lease'[c][s] # NoLease
  BY <1>1 DEF LeaseSafe
<1> QED  BY <1>3, <1>4 DEF LeaseSafe

\* All that moves in a client during the initial dialling is its dial.
LEMMA InitialOff ==
  ASSUME DoraInv, Initial, NEW c \in Client
  PROVE  flapPc[c] = "off" /\ \A s \in Stack : stackPc[c][s] \notin ReleasePcs
<1>1. flapPc[c] = "off"
  BY ReleaseOpen DEF Initial
<1> QED  BY <1>1 DEF DoraInv, ClientInv, Busy

LEMMA RunSafe ==
  ASSUME DoraInv, Initial, SaveLease, Run, Initial',
         NEW c \in Client, NEW s \in Stack, LeaseSafe(c, s)
  PROVE  LeaseSafe(c, s)'
<1>1. UNCHANGED <<lease, leaseMap, saveChan, stackPc>>
  BY DEF Run, StartRun, StartSaver, LaunchDial, WaitDials, Settle, WaitSaver, PrintInitial,
         CreateOtherClnts, CreateOtherFails, LaunchFlap, WaitFlaps, CloseChannel,
         WaitCollector, Exit, saverVars, clientVars
<1>2. Undialled(c, s)' => Undialled(c, s)
  <2>1. CASE StartRun
    BY <2>1 DEF StartRun, Undialled
  <2>2. ASSUME NEW d \in Client, LaunchDial(d)
        PROVE  Undialled(c, s)' => Undialled(c, s)
    BY <2>2 DEF LaunchDial, Undialled, DoraInv, DoraTypeOK, ClientTypeOK
  <2>3. CASE WaitDials \/ Settle \/ WaitSaver \/ PrintInitial
    BY <2>3 DEF WaitDials, Settle, WaitSaver, PrintInitial, Undialled, clientVars
  <2>4. CASE Exit
    BY <2>4 DEF Exit, Undialled, runVars, clientVars
  <2> QED  BY <2>1, <2>2, <2>3, <2>4
           DEF Run, Initial, CreateOtherClnts, CreateOtherFails, LaunchFlap, WaitFlaps,
               CloseChannel, WaitCollector
<1> QED  BY <1>1, <1>2, LeaseKept

LEMMA SaveOneSafe ==
  ASSUME DoraTypeOK, NEW t \in Stack, SaveOne(t), UNCHANGED <<runVars, clientVars>>,
         NEW c \in Client, NEW s \in Stack, LeaseSafe(c, s)
  PROVE  LeaseSafe(c, s)'
<1>1. UNCHANGED <<lease, stackPc>> /\ Undialled(c, s)' = Undialled(c, s)
  BY DEF runVars, clientVars, Undialled
<1>2. CASE s # t
  <2>1. UNCHANGED <<leaseMap[c][s], saveChan[s]>>
    BY <1>2 DEF SaveOne, Merge, DoraTypeOK, SaverTypeOK
  <2> QED  BY <1>1, <2>1, LeaseKept
<1>3. CASE s = t
  <2> DEFINE q == saveChan[s]
             m == Head(q)
  <2>1. /\ q \in Seq(LeaseWithID) /\ q # <<>> /\ saveChan'[s] = Tail(q)
        /\ leaseMap' = [leaseMap EXCEPT ![m.id][s] = m.lease]
    BY <1>3 DEF SaveOne, Merge, DoraTypeOK, SaverTypeOK
  <2>2. /\ Len(q) \in Nat \ {0} /\ DOMAIN q = 1..Len(q) /\ m = q[1] /\ m \in LeaseWithID
        /\ DOMAIN Tail(q) = 1..(Len(q) - 1)
        /\ \A k \in 1..(Len(q) - 1) : Tail(q)[k] = q[k + 1]
    BY <2>1
  <2> HIDE DEF q, m
  <2>3. \A k \in 1..Len(q) :
          q[k].id = c => q[k].lease = lease[c][s] /\ lease[c][s] # NoLease
    BY <2>2 DEF LeaseSafe, q
  <2>4. \A k \in DOMAIN saveChan'[s] :
          saveChan'[s][k].id = c =>
            saveChan'[s][k].lease = lease[c][s] /\ lease[c][s] # NoLease
    BY <2>1, <2>2, <2>3
  <2>5. m.id \in Client /\ m.lease \in Lease
    BY <2>2 DEF LeaseWithID
  <2>6. CASE m.id = c
    <3>1. leaseMap'[c][s] = m.lease
      BY <2>1, <2>5, <2>6 DEF DoraTypeOK, SaverTypeOK
    <3>2. m.lease = lease[c][s]
      BY <2>2, <2>3, <2>6
    <3> QED  BY <1>1, <2>4, <3>1, <3>2 DEF LeaseSafe
  <2>7. CASE m.id # c
    <3>1. leaseMap'[c][s] = leaseMap[c][s]
      BY <2>1, <2>5, <2>7 DEF DoraTypeOK, SaverTypeOK
    <3>2. ASSUME InChan(c, s)
          PROVE  InChan(c, s)'
      <4>1. PICK k \in 1..Len(q) : q[k].id = c
        BY <2>2, <3>2 DEF InChan, q
      <4>2. k - 1 \in 1..(Len(q) - 1) /\ (k - 1) + 1 = k
        BY <2>2, <2>7, <4>1
      <4>3. Tail(q)[k - 1] = q[k]
        BY <2>2, <4>2
      <4> QED  BY <2>1, <2>2, <4>1, <4>2, <4>3 DEF InChan
    <3> QED  BY <1>1, <2>4, <3>1, <3>2 DEF LeaseSafe
  <2> QED  BY <2>6, <2>7
<1> QED  BY <1>2, <1>3

LEMMA OtherSafe ==
  ASSUME DoraInv, CtrlC \/ CollectStep \/ SaveStep \/ WriteFails \/ ExchangePanics,
         NEW c \in Client, NEW s \in Stack, LeaseSafe(c, s)
  PROVE  LeaseSafe(c, s)'
<1>1. UNCHANGED <<runVars, clientVars>>
  BY DEF CtrlC, CollectStep, SaveStep, WriteFails, ExchangePanics, Panic
<1>2. CASE UNCHANGED <<leaseMap, saveChan>>
  <2>1. UNCHANGED <<lease, stackPc>> /\ Undialled(c, s)' = Undialled(c, s)
    BY <1>1 DEF runVars, clientVars, Undialled
  <2> QED  BY <1>2, <2>1, LeaseKept
<1>3. ASSUME NEW t \in Stack, SaveOne(t)
      PROVE  LeaseSafe(c, s)'
  BY <1>1, <1>3, SaveOneSafe DEF DoraInv
<1> QED  BY <1>2, <1>3 DEF CtrlC, CollectStep, SaveStep, WriteFails, ExchangePanics,
         Panic, StopSaving,
                            WriteLeases, saverVars

\* A dial that is under way has been launched: its client is visited, and
\* its turn in dialAll is past.
LEMMA DialLaunched ==
  ASSUME DoraInv, Initial, NEW c \in Client, NEW s \in Stack, stackPc[c][s] \in DialPcs
  PROVE  runPc = "dial" /\ (Undialled(c, s) => stackPc[c][s] = "exchange")
<1>1. s \in subWG[c] /\ dialPc[c] \in {"second", "wait"}
  BY DialingBusy
<1>2. runPc = "dial" /\ c \in dialWG
  BY <1>1, DialOpen DEF Initial, DoraInv, WaitGroupsExact
<1>3. c \notin todo
  BY <1>2 DEF DoraInv, PhaseInv
<1>4. dialPc[c] = "second" => s # StackAt("second")
  BY <1>1, DoraAssumption DEF DoraInv, ClientInv, StackAt
<1> QED  BY <1>1, <1>2, <1>3, <1>4 DEF Undialled

LEMMA DialAllSafe ==
  ASSUME DoraInv, Initial, NEW d \in Client, DialAll(d),
         NEW c \in Client, NEW s \in Stack, LeaseSafe(c, s)
  PROVE  LeaseSafe(c, s)'
<1> USE DEF DoraInv, DoraTypeOK, ClientTypeOK
<1>1. ASSUME NEW pos \in {"first", "second"}, DialStack(d, pos)
      PROVE  LeaseSafe(c, s)'
  <2>1. UNCHANGED <<lease, leaseMap, saveChan, runPc, todo>>
    BY <1>1 DEF DialStack, saverVars, runVars
  <2>2. CASE c = d /\ s = StackAt(pos)
    <3>1. stackPc'[c][s] = "exchange" /\ Undialled(c, s)
      BY <1>1, <2>2 DEF DialStack, Undialled
    <3> QED  BY <2>1, <3>1, LeaseKept
  <2>3. CASE ~(c = d /\ s = StackAt(pos))
    <3>1. stackPc'[c][s] = stackPc[c][s]
      BY <1>1, <2>3 DEF DialStack
    <3>2. Undialled(c, s)' => Undialled(c, s)
      BY <1>1, <2>1, <2>3, <3>1 DEF DialStack, After, Undialled
    <3> QED  BY <2>1, <3>1, <3>2, LeaseKept
  <2> QED  BY <2>2, <2>3
<1>2. CASE DialAllWait(d)
  <2>1. UNCHANGED <<lease, leaseMap, saveChan, runPc, todo, stackPc>>
    BY <1>2 DEF DialAllWait, DialAllReturns, saverVars
  <2>2. Undialled(c, s)' => Undialled(c, s)
    BY <1>2, <2>1 DEF DialAllWait, DialAllReturns, Undialled
  <2> QED  BY <2>1, <2>2, LeaseKept
<1> QED  BY <1>1, <1>2 DEF DialAll

LEMMA DialSafe ==
  ASSUME DoraInv, Initial, SaveLease, ~ApplyLease,
         NEW d \in Client, NEW t \in Stack, Dial(d, t),
         NEW c \in Client, NEW s \in Stack, LeaseSafe(c, s)
  PROVE  LeaseSafe(c, s)'
<1> USE DEF DoraInv, DoraTypeOK, ClientTypeOK
<1>1. UNCHANGED <<runPc, todo, dialPc, leaseMap>>
  BY DEF Dial, ExchangeOk, ExchangeFails, ApplyOnInterface, HandToSaver, SendLease,
         ReportDial, DialDone, runVars, saverVars
<1>2. ASSUME NEW pc, Goto(d, t, pc)
      PROVE  stackPc'[c][s] = IF c = d /\ s = t THEN pc ELSE stackPc[c][s]
  BY <1>2 DEF Goto
<1>3. CASE ~(c = d /\ s = t)
  <2>1. stackPc'[c][s] = stackPc[c][s]
    BY <1>2, <1>3 DEF Dial, ExchangeOk, ExchangeFails, ApplyOnInterface, AfterLease,
                      HandToSaver, ReportDial, DialDone, Ends
  <2>2. Undialled(c, s)' <=> Undialled(c, s)
    BY <1>1, <2>1 DEF Undialled
  <2>3. lease'[c][s] = lease[c][s]
    <3>1. lease' = lease \/ lease' = [lease EXCEPT ![d][t] = @ + 1]
      BY DEF Dial, ExchangeOk, ExchangeFails, ApplyOnInterface, HandToSaver,
             ReportDial, DialDone
    <3> QED  BY <1>3, <3>1
  <2>4. CASE saveChan'[s] = saveChan[s]
    BY <1>1, <2>1, <2>2, <2>3, <2>4, LeaseKept
  <2>5. CASE saveChan'[s] # saveChan[s]
    <3> DEFINE q == saveChan[s]
               m == [id |-> d, lease |-> lease[d][t]]
    <3>1. HandToSaver(d, t) /\ s = t
      BY <2>5 DEF Dial, ExchangeOk, ExchangeFails, ApplyOnInterface, HandToSaver,
                  SendLease, ReportDial, DialDone, saverVars, SaverTypeOK
    <3>2. q \in Seq(LeaseWithID) /\ saveChan'[s] = Append(q, m)
      BY <3>1 DEF HandToSaver, SendLease, SaverTypeOK
    <3>3. m.id # c /\ m \in LeaseWithID
      BY <1>3, <3>1 DEF LeaseWithID, Lease
    <3> HIDE DEF m
    <3>4. /\ Len(q) \in Nat /\ DOMAIN q = 1..Len(q)
          /\ DOMAIN Append(q, m) = 1..(Len(q) + 1)
          /\ \A k \in 1..Len(q) : Append(q, m)[k] = q[k]
          /\ Append(q, m)[Len(q) + 1] = m
      BY <3>2, <3>3
    <3>5. \A k \in DOMAIN saveChan'[s] :
            saveChan'[s][k].id = c => k \in DOMAIN q /\ saveChan'[s][k] = q[k]
      BY <3>2, <3>3, <3>4
    <3>6. InChan(c, s) => InChan(c, s)'
      BY <3>2, <3>4 DEF InChan
    <3>7. \A k \in DOMAIN saveChan'[s] :
            saveChan'[s][k].id = c =>
              saveChan'[s][k].lease = lease'[c][s] /\ lease'[c][s] # NoLease
      BY <2>3, <3>5 DEF LeaseSafe
    <3> QED  BY <1>1, <2>1, <2>2, <2>3, <3>6, <3>7 DEF LeaseSafe
  <2> QED  BY <2>4, <2>5
<1>4. CASE c = d /\ s = t
  <2>u. ASSUME stackPc'[c][s] # "exchange", stackPc[c][s] \in DialPcs
        PROVE  Undialled(c, s)' => FALSE
    <3>1. runPc = "dial" /\ (Undialled(c, s) => stackPc[c][s] = "exchange")
      BY <2>u, DialLaunched
    <3>2. s \in subWG[c] /\ dialPc[c] \in {"second", "wait"}
      BY <2>u, DialingBusy
    <3>3. c \in dialWG /\ c \notin todo
      BY <3>1, <3>2, DialOpen DEF WaitGroupsExact, PhaseInv
    <3>4. dialPc[c] = "second" => s # StackAt("second")
      BY <3>2, DoraAssumption DEF ClientInv, StackAt
    <3> QED  BY <1>1, <2>u, <3>1, <3>2, <3>3, <3>4 DEF Undialled
  <2>1. CASE ExchangeOk(d, t)
    <3>1. /\ stackPc[c][s] = "exchange" /\ stackPc'[c][s] = "save"
          /\ lease'[c][s] = lease[c][s] + 1 /\ saveChan' = saveChan
      BY <1>2, <1>4, <2>1 DEF ExchangeOk, AfterLease, saverVars
    <3>2. lease[c][s] = NoLease
      BY <3>1 DEF LeaseSafe, Undialled
    <3>3. lease'[c][s] # NoLease /\ leaseMap'[c][s] = NoLease
      BY <1>1, <3>1, <3>2 DEF LeaseSafe, NoLease
    <3>4. ~Undialled(c, s)'
      BY <2>u, <3>1 DEF DialPcs
    <3>5. \A k \in DOMAIN saveChan'[s] : saveChan'[s][k].id # c
      BY <3>1, <3>2 DEF LeaseSafe
    <3> QED  BY <3>1, <3>3, <3>4, <3>5 DEF LeaseSafe
  <2>2. CASE ExchangeFails(d, t)
    <3>1. /\ stackPc[c][s] = "exchange" /\ stackPc'[c][s] = "dialFail"
          /\ UNCHANGED <<lease, saveChan>>
      BY <1>2, <1>4, <2>2 DEF ExchangeFails, Ends, saverVars
    <3>2. Undialled(c, s)
      BY <3>1 DEF Undialled
    <3> QED  BY <1>1, <3>1, <3>2, LeaseKept
  <2>3. CASE ApplyOnInterface(d, t)
    BY <1>4, <2>3 DEF ApplyOnInterface, LeaseSafe
  <2>4. CASE HandToSaver(d, t)
    <3> DEFINE q == saveChan[s]
               m == [id |-> c, lease |-> lease[c][s]]
    <3>1. /\ stackPc[c][s] = "save" /\ stackPc'[c][s] = "dialOk" /\ lease' = lease
          /\ q \in Seq(LeaseWithID) /\ saveChan'[s] = Append(q, m)
      BY <1>2, <1>4, <2>4 DEF HandToSaver, SendLease, Ends, SaverTypeOK
    <3>2. m \in LeaseWithID /\ m.id = c /\ m.lease = lease[c][s]
      BY DEF LeaseWithID, Lease
    <3> HIDE DEF m
    <3>3. /\ Len(q) \in Nat /\ DOMAIN q = 1..Len(q)
          /\ DOMAIN Append(q, m) = 1..(Len(q) + 1)
          /\ \A k \in 1..Len(q) : Append(q, m)[k] = q[k]
          /\ Append(q, m)[Len(q) + 1] = m
      BY <3>1, <3>2
    <3>4. ~Undialled(c, s)'
      BY <2>u, <3>1 DEF DialPcs
    <3>5. lease[c][s] # NoLease
      BY <3>1 DEF LeaseSafe
    <3>6. \A k \in DOMAIN saveChan'[s] :
            saveChan'[s][k].id = c =>
              saveChan'[s][k].lease = lease'[c][s] /\ lease'[c][s] # NoLease
      <4>1. \A k \in 1..Len(q) : q[k].id = c => q[k].lease = lease[c][s]
        BY <3>3 DEF LeaseSafe
      <4> HIDE DEF q
      <4> QED  BY <3>1, <3>2, <3>3, <3>5, <4>1
    <3>7. InChan(c, s)'
      <4>1. Len(q) + 1 \in DOMAIN saveChan'[s] /\ saveChan'[s][Len(q) + 1] = m
        BY <3>1, <3>3
      <4> QED  BY <3>2, <4>1 DEF InChan
    <3> QED  BY <1>1, <3>1, <3>4, <3>6, <3>7 DEF LeaseSafe
  <2>5. CASE ReportDial(d, t) \/ DialDone(d, t)
    <3>1. /\ stackPc[c][s] \in {"dialOk", "dialFail", "reported"}
          /\ stackPc'[c][s] \in {"reported", "off"}
          /\ UNCHANGED <<lease, saveChan>>
      BY <1>2, <1>4, <2>5 DEF ReportDial, DialDone, saverVars
    <3>2. ~Undialled(c, s)'
      BY <2>u, <3>1 DEF DialPcs
    <3> QED  BY <1>1, <3>1, <3>2, LeaseKept
  <2> QED  BY <2>1, <2>2, <2>3, <2>4, <2>5 DEF Dial
<1> QED  BY <1>3, <1>4

\* The phases of run follow each other.
LEMMA InitialPast ==
  ASSUME DoraInv, Step, Initial'
  PROVE  Initial
<1>1. CASE Run
  BY <1>1 DEF Run, StartRun, LaunchDial, WaitDials, Settle, WaitSaver, PrintInitial,
         CreateOtherClnts, CreateOtherFails, LaunchFlap, WaitFlaps, CloseChannel,
         WaitCollector, Exit, Initial, runVars
<1>2. CASE CtrlC \/ CollectStep \/ SaveStep \/ WriteFails \/ ExchangePanics
  BY <1>2 DEF CtrlC, CollectStep, SaveStep, WriteFails, ExchangePanics, Panic, Initial, runVars
<1>3. ASSUME NEW c \in Client, DialAll(c) \/ \E s \in Stack : Dial(c, s)
      PROVE  Initial
  BY <1>3 DEF DialAll, DialStack, DialAllWait, DialAllReturns, Dial, ExchangeOk,
              ExchangeFails, ApplyOnInterface, HandToSaver, ReportDial, DialDone,
              Initial, runVars
<1>4. ASSUME NEW c \in Client, Flap(c)
      PROVE  Initial
  <2>1. runPc = "flap"
    BY <1>4, FlapAwake, ReleaseOpen
  <2> QED  BY <1>4, <2>1 DEF Flap, FlapStop, FlapUp, FlapRelease, Release, Panic,
              ReportRelease, FlapMid, Redial, Initial, runVars
<1> QED  BY <1>1, <1>2, <1>3, <1>4 DEF Step

LEMMA NextDialled ==
  ASSUME DoraInv, DialledInv, [DoraNext]_vars
  PROVE  DialledInv'
<1>1. CASE Step
  <2> SUFFICES ASSUME Initial', SaveLease, ~ApplyLease, NEW c \in Client, NEW s \in Stack
               PROVE  LeaseSafe(c, s)'
    BY DEF DialledInv
  <2>1. Initial
    BY <1>1, InitialPast
  <2>2. LeaseSafe(c, s)
    BY <2>1 DEF DialledInv
  <2>3. ~\E d \in Client : Flap(d)
    BY <2>1, FlapAwake, InitialOff
  <2> QED  BY <1>1, <2>1, <2>2, <2>3, RunSafe, OtherSafe, DialAllSafe, DialSafe DEF Step
<1>2. CASE UNCHANGED vars
  <2>1. /\ UNCHANGED <<runPc, todo, dialPc, stackPc, lease, leaseMap, saveChan>>
    BY <1>2 DEF vars, saverVars, runVars, clientVars
  <2> QED  BY <2>1 DEF DialledInv, Initial, LeaseSafe, Undialled, InChan
<1> QED  BY <1>1, <1>2 DEF DoraNext, Ended

LEMMA NextSaver ==
  ASSUME DoraInv, SaverInv, DrainedInv, [DoraNext]_vars
  PROVE  SaverInv' /\ DrainedInv'
<1> USE DEF DoraInv, DoraTypeOK, SaverTypeOK, RunTypeOK
<1>1. CASE Run
  <2>1. CASE StartRun
    BY <1>1, <2>1 DEF StartRun, StartSaver, saverVars, SaverInv, DrainedInv
  <2>2. CASE Settle
    BY <2>2 DEF Settle, Drained, saverVars, SaverInv, DrainedInv
  <2>3. CASE Run /\ ~StartRun /\ ~Settle
    <3>1. /\ UNCHANGED <<saverPc, saveChan, saveCancelled, interrupted>>
          /\ runPc' \in {"start", "dial", "settle"} => runPc \in {"start", "dial", "settle"}
          /\ runPc = "start" => runPc' = "start"
          /\ runPc' \in {"saveWait", "initial"} => runPc \in {"saveWait", "initial"}
      <4>1. CASE (\E c \in Client : LaunchDial(c)) \/ WaitDials \/ WaitSaver \/ PrintInitial
        BY <4>1 DEF LaunchDial, WaitDials, WaitSaver, PrintInitial, saverVars
      <4>2. CASE CreateOtherClnts \/ CreateOtherFails \/ \E c \in Client : LaunchFlap(c)
        BY <4>2 DEF CreateOtherClnts, CreateOtherFails, LaunchFlap, saverVars
      <4>3. CASE WaitFlaps \/ CloseChannel \/ WaitCollector \/ Exit
        BY <4>3 DEF WaitFlaps, CloseChannel, WaitCollector, Exit, saverVars, runVars
      <4> QED  BY <2>3, <4>1, <4>2, <4>3 DEF Run
    <3> QED  BY <3>1 DEF SaverInv, DrainedInv
  <2> QED  BY <1>1, <2>1, <2>2, <2>3
<1>2. CASE CtrlC \/ CollectStep \/ WriteFails \/ ExchangePanics
  BY <1>2 DEF CtrlC, CollectStep, WriteFails, ExchangePanics, Panic, saverVars, runVars,
              SaverInv, DrainedInv
<1>3. CASE SaveStep
  <2>1. UNCHANGED <<runPc, saveCancelled, interrupted>>
    BY <1>3 DEF SaveStep, runVars
  <2>2. SaverInv'
    BY <1>3, <2>1 DEF SaveStep, SaveOne, StopSaving, WriteLeases, SaveCtxDone, SaverInv
  <2>3. DrainedInv'
    BY <1>3, <2>1 DEF SaveStep, SaveOne, StopSaving, WriteLeases, DrainedInv
  <2> QED  BY <2>2, <2>3
<1>4. ASSUME NEW c \in Client, DialAll(c) \/ Flap(c) \/ \E s \in Stack : Dial(c, s)
      PROVE  SaverInv' /\ DrainedInv'
  <2>1. UNCHANGED <<runPc, saveCancelled, interrupted, saverPc>>
    BY <1>4 DEF DialAll, DialStack, DialAllWait, DialAllReturns, Dial, ExchangeOk,
              ExchangeFails, ApplyOnInterface, HandToSaver, SendLease, ReportDial,
              DialDone, Flap, FlapStop, FlapUp, FlapRelease, Release, Panic,
              ReportRelease, FlapMid, Redial, runVars, saverVars
  <2>2. CASE UNCHANGED saveChan
    BY <2>1, <2>2 DEF SaverInv, DrainedInv
  <2>3. ASSUME NEW s \in Stack, HandToSaver(c, s)
        PROVE  runPc \notin {"saveWait", "initial"}
    <3>1. stackPc[c][s] \in DialPcs
      BY <2>3 DEF HandToSaver, DialPcs
    <3> QED  BY <3>1, DialingBusy, DialOpen
  <2>4. UNCHANGED saveChan \/ \E s \in Stack : HandToSaver(c, s)
    BY <1>4 DEF DialAll, DialStack, DialAllWait, DialAllReturns, Dial, ExchangeOk,
              ExchangeFails, ApplyOnInterface, ReportDial,
              DialDone, Flap, FlapStop, FlapUp, FlapRelease, Release, Panic,
              ReportRelease, FlapMid, Redial, saverVars
  <2> QED  BY <2>1, <2>2, <2>3, <2>4 DEF SaverInv, DrainedInv
<1>5. CASE UNCHANGED vars
  BY <1>5 DEF vars, runVars, saverVars, SaverInv, DrainedInv
<1> QED  BY <1>1, <1>2, <1>3, <1>4, <1>5 DEF DoraNext, Ended, Step

\* If nobody interrupts the run and the second of sleep is long enough, the
\* lease file holds exactly the leases the clients hold.
THEOREM LeaseFile == Spec => []LeaseFileComplete
<1>1. DoraInit => DialledInv /\ SaverInv /\ DrainedInv
  <2> SUFFICES ASSUME DoraInit PROVE DialledInv /\ SaverInv /\ DrainedInv
    OBVIOUS
  <2>1. \A c \in Client, s \in Stack : LeaseSafe(c, s)
    BY DEF DoraInit, SaverInit, LeaseSafe
  <2> QED  BY <2>1 DEF DialledInv, DoraInit, SaverInit, SaverInv, DrainedInv
<1>2. DoraInv /\ DialledInv /\ SaverInv /\ DrainedInv => LeaseFileComplete
  <2> SUFFICES ASSUME DoraInv, DialledInv, SaverInv, DrainedInv,
                      SettleTime, ~ApplyLease, ~interrupted, saverPc = "saved",
                      runPc \in {"saveWait", "initial"}
               PROVE  leaseMap = lease
    BY DEF LeaseFileComplete
  <2>1. SaveLease /\ saveCancelled /\ Initial
    BY DEF SaverInv, Initial
  <2>2. ASSUME NEW c \in Client, NEW s \in Stack
        PROVE  leaseMap[c][s] = lease[c][s]
    <3>1. LeaseSafe(c, s)
      BY <2>1 DEF DialledInv
    <3>2. ~InChan(c, s)
      BY <2>1 DEF DrainedInv, InChan
    <3>3. stackPc[c][s] # "save"
      BY <2>1, DialLaunched DEF DialPcs
    <3> QED  BY <3>1, <3>2, <3>3 DEF LeaseSafe
  <2>3. /\ leaseMap \in [Client -> [Stack -> Lease]]
        /\ lease \in [Client -> [Stack -> Lease]]
    BY DEF DoraInv, DoraTypeOK, SaverTypeOK, ClientTypeOK
  <2> QED  BY <2>2, <2>3
<1> QED  BY <1>1, <1>2, NextDialled, NextSaver, Invariance, PTL DEF Spec

-----------------------------------------------------------------------------
(* Results: every result of the run is reported once, the summary accounts *)
(* for all of them, and the run implements TestRun.                        *)
(*                                                                         *)
(* Every step of the run has one of four effects on the results: none, a   *)
(* transaction ends, a result is sent, a result is collected.              *)

\* The transaction of a client and stack ends in one of the outcomes and waits
\* in the program counter of that outcome for its report ...
PcOf(o) ==
  CASE o = "dialled" -> "dialOk"
    [] o = "dialFailed" -> "dialFail"
    [] o = "released" -> "releaseOk"
    [] o = "releaseFailed" -> "releaseFail"

\* ... which is the result of that program counter.
ResultOf(s, pc) ==
  IF pc \in {"dialOk", "dialFail"} THEN NewResult("dora", pc = "dialOk")
  ELSE NewResult("release", ReleaseReported(s, pc = "releaseOk"))

Keeps ==
  /\ UNCHANGED <<summary, dialResultCh, outcomes>>
  /\ \/ UNCHANGED stackPc
     \/ \E c \in Client, s \in Stack, pc \in StackPcs \ PendingPcs :
          stackPc[c][s] \notin PendingPcs /\ Goto(c, s, pc)

Executes(c, s, o) ==
  /\ stackPc[c][s] \notin PendingPcs
  /\ Ends(c, s, o, PcOf(o))
  /\ UNCHANGED <<summary, dialResultCh, proc>>

Sends(c, s) ==
  /\ stackPc[c][s] \in PendingPcs
  /\ \E pc \in StackPcs \ PendingPcs : Goto(c, s, pc)
  /\ SendResult(ResultOf(s, stackPc[c][s]))
  /\ UNCHANGED <<outcomes, proc>>

Collects ==
  /\ CollectResult
  /\ UNCHANGED <<stackPc, outcomes, proc>>

Effect ==
  \/ Keeps
  \/ Collects
  \/ \E c \in Client, s \in Stack : Sends(c, s) \/ \E o \in Outcome : Executes(c, s, o)

-----------------------------------------------------------------------------
(* The effect of each kind of step.                                        *)

LEMMA EndsExecutes ==
  ASSUME NEW c \in Client, NEW s \in Stack, NEW o \in Outcome,
         stackPc[c][s] \notin PendingPcs,
         Ends(c, s, o, PcOf(o)), UNCHANGED <<summary, dialResultCh, proc>>
  PROVE  Executes(c, s, o)
BY DEF Executes

LEMMA ReportSends ==
  ASSUME NEW c \in Client, NEW s \in Stack, NEW pc \in StackPcs \ PendingPcs,
         stackPc[c][s] \in PendingPcs, ~chClosed,
         Report(ResultOf(s, stackPc[c][s])), Goto(c, s, pc), UNCHANGED outcomes
  PROVE  Sends(c, s)
BY DEF Report, Sends

LEMMA RunEffect ==
  ASSUME Run \/ CtrlC \/ CollectStep \/ SaveStep \/ WriteFails \/ ExchangePanics
  PROVE  Effect
<1>1. UNCHANGED <<stackPc, outcomes>>
  BY DEF Run, StartRun, LaunchDial, WaitDials, Settle, WaitSaver, PrintInitial,
         CreateOtherClnts, CreateOtherFails, LaunchFlap, WaitFlaps, CloseChannel,
         WaitCollector, Exit, CtrlC, CollectStep, SaveStep, WriteFails, ExchangePanics,
         Panic, clientVars
<1>2. CASE Run \/ CtrlC \/ SaveStep \/ WriteFails \/ ExchangePanics
  <2>1. UNCHANGED <<summary, dialResultCh>>
    BY <1>2
       DEF Run, StartRun, LaunchDial, WaitDials, Settle, WaitSaver, PrintInitial,
           CreateOtherClnts, CreateOtherFails, LaunchFlap, WaitFlaps, CloseChannel,
           CloseResults, WaitCollector, Exit, CtrlC, SaveStep, WriteFails, ExchangePanics, Panic,
           collectorVars
  <2> QED  BY <1>1, <2>1 DEF Effect, Keeps
<1>3. CASE CollectStep
  BY <1>1, <1>3 DEF CollectStep, CollectorExit, Effect, Keeps, Collects
<1> QED  BY <1>2, <1>3

\* The program counters in which nothing waits to be reported.
LEMMA Quiet ==
  /\ {"off", "exchange", "apply", "save", "reported", "release"}
       \subseteq StackPcs \ PendingPcs
  /\ PendingPcs \subseteq StackPcs
BY DEF StackPcs, DialPcs, ReleasePcs, PendingPcs

LEMMA DialEffect ==
  ASSUME DoraInv, NEW c \in Client, DialAll(c) \/ \E s \in Stack : Dial(c, s)
  PROVE  Effect
<1>1. ASSUME NEW pos \in {"first", "second"}, DialStack(c, pos)
      PROVE  Keeps
  <2>1. UNCHANGED <<summary, dialResultCh, outcomes>>
    BY <1>1 DEF DialStack, collectorVars
  <2>2. CASE StackAt(pos) \in Stack
    <3> DEFINE s == StackAt(pos)
    <3>1. Goto(c, s, "exchange") /\ dialPc[c] = pos
      BY <1>1, <2>2 DEF DialStack, Goto
    <3>2. s \notin subWG[c]
      <4>1. StackAt("second") # StackAt("first")
        BY DoraAssumption DEF StackAt
      <4> QED  BY <3>1, <4>1 DEF DoraInv, ClientInv
    <3>3. stackPc[c][s] \notin DialPcs
      BY <2>2, <3>2 DEF DoraInv, WaitGroupsExact
    <3>4. stackPc[c][s] \notin ReleasePcs
      BY <2>2, <3>1, SaverAssumption DEF DoraInv, ClientInv, Busy
    <3>5. stackPc[c][s] \notin PendingPcs
      BY <3>3, <3>4 DEF PendingPcs, DialPcs, ReleasePcs
    <3> QED  BY <2>1, <2>2, <3>1, <3>5, Quiet DEF Keeps
  <2>3. CASE StackAt(pos) \notin Stack
    BY <1>1, <2>1, <2>3 DEF DialStack, Keeps
  <2> QED  BY <2>2, <2>3
<1>2. CASE DialAllWait(c)
  BY <1>2 DEF DialAllWait, DialAllReturns, Effect, Keeps, collectorVars
<1>3. ASSUME NEW s \in Stack, Dial(c, s)
      PROVE  Effect
  <2>p. /\ {"dialled", "dialFailed"} \subseteq Outcome
        /\ PcOf("dialled") = "dialOk" /\ PcOf("dialFailed") = "dialFail"
    BY DEF Outcome, PcOf
  <2>a. ASSUME NEW applied \in BOOLEAN, AfterLease(c, s, applied),
               stackPc[c][s] \notin PendingPcs,
               UNCHANGED <<summary, dialResultCh, proc>>
        PROVE  Effect
    <3>1. CASE Ends(c, s, "dialled", "dialOk")
      BY <2>a, <2>p, <3>1, EndsExecutes DEF Effect
    <3>2. CASE /\ Goto(c, s, "apply") \/ Goto(c, s, "save")
               /\ UNCHANGED outcomes
      BY <2>a, <3>2, Quiet DEF Keeps, Effect
    <3> QED  BY <2>a, <3>1, <3>2 DEF AfterLease
  <2>b. ASSUME Ends(c, s, "dialFailed", "dialFail") \/ Ends(c, s, "dialled", "dialOk"),
               stackPc[c][s] \notin PendingPcs,
               UNCHANGED <<summary, dialResultCh, proc>>
        PROVE  Effect
    BY <2>b, <2>p, EndsExecutes DEF Effect
  <2>1. CASE ExchangeOk(c, s)
    BY <2>1, <2>a, Quiet DEF ExchangeOk, collectorVars
  <2>2. CASE ExchangeFails(c, s)
    BY <2>2, <2>b, Quiet DEF ExchangeFails, collectorVars
  <2>3. CASE ApplyOnInterface(c, s)
    BY <2>3, <2>a, <2>b, Quiet DEF ApplyOnInterface, collectorVars
  <2>4. CASE HandToSaver(c, s)
    BY <2>4, <2>b, Quiet DEF HandToSaver, collectorVars
  <2>5. CASE ReportDial(c, s)
    <3>1. stackPc[c][s] \in PendingPcs /\ stackPc[c][s] \in DialPcs
      BY <2>5 DEF ReportDial, PendingPcs, DialPcs
    <3>2. ~chClosed
      BY <3>1, DialingBusy, DialOpen
    <3>3. Report(ResultOf(s, stackPc[c][s]))
      BY <2>5 DEF ReportDial, ResultOf
    <3>4. Goto(c, s, "reported") /\ UNCHANGED outcomes
      BY <2>5 DEF ReportDial
    <3>5. Sends(c, s)
      BY <3>1, <3>2, <3>3, <3>4, Quiet, ReportSends
    <3> QED  BY <3>5 DEF Effect
  <2>6. CASE DialDone(c, s)
    BY <2>6, Quiet DEF DialDone, Keeps, Effect, collectorVars
  <2> QED  BY <1>3, <2>1, <2>2, <2>3, <2>4, <2>5, <2>6 DEF Dial
<1> QED  BY <1>1, <1>2, <1>3 DEF DialAll, Effect

LEMMA FlapEffect ==
  ASSUME DoraInv, NEW c \in Client, Flap(c)
  PROVE  Effect
<1>1. CASE FlapStop(c) \/ FlapUp(c) \/ FlapMid(c) \/ Redial(c)
  BY <1>1 DEF FlapStop, FlapUp, FlapMid, Redial, Effect, Keeps, collectorVars
<1>2. ASSUME NEW s \in {"v4", "v6"}, FlapRelease(c, s)
      PROVE  Keeps
  <2>1. UNCHANGED <<summary, dialResultCh, outcomes>>
    BY <1>2 DEF FlapRelease, collectorVars
  <2>2. CASE s \in Stack /\ Goto(c, s, "release")
    <3>1. flapPc[c] = s /\ s # "off" /\ s # "redial" /\ s # Busy(s)
      BY <1>2 DEF FlapRelease, Busy
    <3>2. stackPc[c][s] \notin ReleasePcs /\ subWG[c] = {}
      BY <2>2, <3>1 DEF DoraInv, ClientInv
    <3>3. stackPc[c][s] \notin DialPcs
      BY <2>2, <3>2 DEF DoraInv, WaitGroupsExact
    <3>4. stackPc[c][s] \notin PendingPcs
      BY <3>2, <3>3 DEF PendingPcs, DialPcs, ReleasePcs
    <3> QED  BY <2>1, <2>2, <3>4, Quiet DEF Keeps
  <2>3. CASE UNCHANGED stackPc
    BY <2>1, <2>3 DEF Keeps
  <2> QED  BY <1>2, <2>2, <2>3 DEF FlapRelease
<1>3. ASSUME NEW s \in Stack, Release(c, s)
      PROVE  Effect
  <2>1. CASE otherClnt[c][s]
    <3>1. /\ \/ Ends(c, s, "released", "releaseOk")
             \/ Ends(c, s, "releaseFailed", "releaseFail")
          /\ UNCHANGED <<summary, dialResultCh, proc>>
      BY <1>3, <2>1 DEF Release, collectorVars
    <3>2. stackPc[c][s] \notin PendingPcs
      BY <1>3, Quiet DEF Release
    <3>3. /\ {"released", "releaseFailed"} \subseteq Outcome
          /\ PcOf("released") = "releaseOk" /\ PcOf("releaseFailed") = "releaseFail"
      BY DEF Outcome, PcOf
    <3> QED  BY <3>1, <3>2, <3>3, EndsExecutes DEF Effect
  <2>2. CASE ~otherClnt[c][s]
    BY <1>3, <2>2 DEF Release, Panic, Keeps, Effect, collectorVars, clientVars
  <2> QED  BY <2>1, <2>2
<1>4. ASSUME NEW s \in Stack, ReportRelease(c, s)
      PROVE  Sends(c, s)
  <2>1. stackPc[c][s] \in PendingPcs /\ stackPc[c][s] \in ReleasePcs
    BY <1>4 DEF ReportRelease, PendingPcs, ReleasePcs
  <2>2. ~chClosed
    <3>1. flapPc[c] = Busy(s)
      BY <2>1 DEF DoraInv, ClientInv
    <3> QED  BY <3>1, ReleaseOpen DEF Busy
  <2>3. Report(ResultOf(s, stackPc[c][s]))
    BY <1>4 DEF ReportRelease, ResultOf
  <2>4. Goto(c, s, "off") /\ UNCHANGED outcomes
    BY <1>4 DEF ReportRelease
  <2> QED  BY <2>1, <2>2, <2>3, <2>4, Quiet, ReportSends
<1> QED  BY <1>1, <1>2, <1>3, <1>4 DEF Flap, Effect

LEMMA StepEffect ==
  ASSUME DoraInv, Step
  PROVE  Effect
BY RunEffect, DialEffect, FlapEffect DEF Step

-----------------------------------------------------------------------------
(* Conservation.                                                           *)

\* Only finitely many transactions are in progress.
LEMMA TransactionsFinite ==
  ASSUME NEW U \in SUBSET (Client \X Stack)
  PROVE  IsFiniteSet(U) /\ Cardinality(U) \in Nat
<1>1. IsFiniteSet({"v4", "v6"})
  <2>1. {"v4", "v6"} = {"v4"} \cup {"v6"}
    OBVIOUS
  <2>2. IsFiniteSet({"v4"})
    BY FS_Singleton
  <2>3. IsFiniteSet({"v4"} \cup {"v6"})
    BY <2>2, FS_AddElement
  <2> QED  BY <2>1, <2>3
<1>2. IsFiniteSet(Client) /\ IsFiniteSet(Stack)
  BY <1>1, DoraAssumption, SaverAssumption, FS_Subset
<1>3. IsFiniteSet(Client \X Stack)
  BY <1>2, FS_Product
<1> QED  BY <1>3, FS_Subset, FS_CardinalityType

LEMMA UnreportedFinite ==
  /\ IsFiniteSet(Unreported)
  /\ Cardinality(Unreported) \in Nat
BY TransactionsFinite DEF Unreported

LEMMA ExecutedType ==
  ASSUME DoraTypeOK
  PROVE  Executed \in Nat
BY DEF Executed, DoraTypeOK, ClientTypeOK, Outcome

LEMMA ExecutedGrows ==
  ASSUME DoraTypeOK, NEW o \in Outcome,
         outcomes' = [outcomes EXCEPT ![o] = @ + 1]
  PROVE  Executed' = Executed + 1
<1>1. \A x \in Outcome : outcomes'[x] = IF x = o THEN outcomes[x] + 1 ELSE outcomes[x]
  BY DEF DoraTypeOK, ClientTypeOK
<1>2. \A x \in Outcome : outcomes[x] \in Nat
  BY DEF DoraTypeOK, ClientTypeOK
<1> QED  BY <1>1, <1>2 DEF Executed, Outcome

\* What a result says, from the program counter it is the result of.
LEMMA ResultsAre ==
  ASSUME NEW s \in Stack, NEW pc
  PROVE  /\ ResultOf(s, pc) \in Result
         /\ pc \in PendingPcs =>
              /\ DialSucceeded(ResultOf(s, pc)) <=> pc = "dialOk"
              /\ ResultOf(s, pc).action = "release" <=> pc \in {"releaseOk", "releaseFail"}
              /\ pc = "dialFail" => ~ResultOf(s, pc).ok
              /\ ~ResultOf(s, pc).ok => pc \in {"dialFail", "releaseFail"}
<1>1. CASE pc \in {"dialOk", "dialFail"}
  <2>1. ResultOf(s, pc) = NewResult("dora", pc = "dialOk")
    BY <1>1 DEF ResultOf
  <2>2. /\ NewResult("dora", pc = "dialOk") \in Result
        /\ NewResult("dora", pc = "dialOk").action = "dora"
        /\ NewResult("dora", pc = "dialOk").ok <=> pc = "dialOk"
    BY NewResultType DEF NewResult, Action
  <2> QED  BY <1>1, <2>1, <2>2 DEF DialSucceeded, PendingPcs
<1>2. CASE pc \notin {"dialOk", "dialFail"}
  <2> DEFINE ok == ReleaseReported(s, pc = "releaseOk")
  <2>1. ResultOf(s, pc) = NewResult("release", ok)
    BY <1>2 DEF ResultOf
  <2>2. ok \in BOOLEAN /\ (pc = "releaseOk" => ok)
    BY DEF ReleaseReported
  <2> HIDE DEF ok
  <2>3. /\ NewResult("release", ok) \in Result
        /\ NewResult("release", ok).action = "release"
        /\ NewResult("release", ok).ok = ok
    BY <2>2, NewResultType DEF NewResult, Action
  <2> QED  BY <1>2, <2>1, <2>2, <2>3 DEF DialSucceeded, PendingPcs
<1> QED  BY <1>1, <1>2

\* The transactions whose program counter is one of P.
Waiting(P) == {cs \in Client \X Stack : stackPc[cs[1]][cs[2]] \in P}

LEMMA WaitingIs ==
  /\ Unreported = Waiting(PendingPcs)
  /\ \A P : /\ IsFiniteSet(Waiting(P)) /\ Cardinality(Waiting(P)) \in Nat
            /\ \A c \in Client, s \in Stack :
                 <<c, s>> \in Waiting(P) <=> stackPc[c][s] \in P
<1>1. Unreported = Waiting(PendingPcs)
  BY DEF Unreported, Waiting
<1>2. ASSUME NEW P
      PROVE  /\ IsFiniteSet(Waiting(P)) /\ Cardinality(Waiting(P)) \in Nat
             /\ \A c \in Client, s \in Stack :
                  <<c, s>> \in Waiting(P) <=> stackPc[c][s] \in P
  <2>1. Waiting(P) \in SUBSET (Client \X Stack)
    BY DEF Waiting
  <2>2. IsFiniteSet(Waiting(P)) /\ Cardinality(Waiting(P)) \in Nat
    BY <2>1, TransactionsFinite
  <2> QED  BY <2>2 DEF Waiting
<1> QED  BY <1>1, <1>2

\* One program counter changes.
LEMMA GotoWaits ==
  ASSUME DoraTypeOK, NEW c \in Client, NEW s \in Stack, NEW pc, Goto(c, s, pc), NEW P
  PROVE  Cardinality(Waiting(P)') + One(stackPc[c][s] \in P)
           = Cardinality(Waiting(P)) + One(pc \in P)
<1> DEFINE t == <<c, s>>
           W == Waiting(P)
           W1 == Waiting(P)'
<1>1. \A d \in Client, u \in Stack :
        stackPc'[d][u] = IF d = c /\ u = s THEN pc ELSE stackPc[d][u]
  BY DEF Goto, DoraTypeOK, ClientTypeOK
<1>2. ASSUME NEW x \in Client \X Stack, x # t
      PROVE  x \in W1 <=> x \in W
  <2>1. PICK d \in Client, u \in Stack : x = <<d, u>>
    OBVIOUS
  <2> QED  BY <1>1, <1>2, <2>1 DEF Waiting
<1>3. /\ W \subseteq Client \X Stack /\ W1 \subseteq Client \X Stack
      /\ t \in W <=> stackPc[c][s] \in P
      /\ t \in W1 <=> pc \in P
  BY <1>1 DEF Waiting
<1>4. /\ IsFiniteSet(W) /\ Cardinality(W) \in Nat
      /\ IsFiniteSet(W1) /\ Cardinality(W1) \in Nat
  BY <1>3, TransactionsFinite
<1> HIDE DEF W, W1
<1>5. CASE t \in W
  <2>1. CASE t \in W1
    <3>1. W1 = W
      BY <1>2, <1>3, <1>5, <2>1
    <3> QED  BY <1>3, <1>4, <1>5, <2>1, <3>1 DEF One, W, W1
  <2>2. CASE t \notin W1
    <3>1. W = W1 \cup {t}
      BY <1>2, <1>3, <1>5, <2>2
    <3>2. Cardinality(W1 \cup {t}) = Cardinality(W1) + 1
      BY <1>4, <2>2, FS_AddElement, Zenon
    <3> QED  BY <1>3, <1>4, <1>5, <2>2, <3>1, <3>2 DEF One, W, W1
  <2> QED  BY <2>1, <2>2
<1>6. CASE t \notin W
  <2>1. CASE t \in W1
    <3>1. W1 = W \cup {t}
      BY <1>2, <1>3, <1>6, <2>1
    <3>2. Cardinality(W \cup {t}) = Cardinality(W) + 1
      BY <1>4, <1>6, FS_AddElement, Zenon
    <3> QED  BY <1>3, <1>4, <1>6, <2>1, <3>1, <3>2 DEF One, W, W1
  <2>2. CASE t \notin W1
    <3>1. W1 = W
      BY <1>2, <1>3, <1>6, <2>2
    <3> QED  BY <1>3, <1>4, <1>6, <2>2, <3>1 DEF One, W, W1
  <2> QED  BY <2>1, <2>2
<1> QED  BY <1>5, <1>6

\* What each effect does to the transactions that wait in some of the pending
\* program counters.
LEMMA EffectWaits ==
  ASSUME DoraTypeOK, NEW P \in SUBSET PendingPcs
  PROVE  /\ Keeps => Cardinality(Waiting(P)') = Cardinality(Waiting(P))
         /\ Collects => Cardinality(Waiting(P)') = Cardinality(Waiting(P))
         /\ \A c \in Client, s \in Stack :
              /\ Sends(c, s) =>
                   Cardinality(Waiting(P)') + One(stackPc[c][s] \in P)
                     = Cardinality(Waiting(P))
              /\ \A o \in Outcome :
                   Executes(c, s, o) =>
                     Cardinality(Waiting(P)') = Cardinality(Waiting(P)) + One(PcOf(o) \in P)
<1>1. /\ Cardinality(Waiting(P)) \in Nat
      /\ Cardinality(Waiting(P)') \in Nat
      /\ One(FALSE) = 0 /\ \A b : One(b) \in Nat
  <2>1. Waiting(P) \in SUBSET (Client \X Stack) /\ Waiting(P)' \in SUBSET (Client \X Stack)
    BY DEF Waiting
  <2> QED  BY <2>1, TransactionsFinite DEF One
<1>2. ASSUME UNCHANGED stackPc
      PROVE  Waiting(P)' = Waiting(P)
  BY <1>2 DEF Waiting
<1>3. ASSUME NEW c \in Client, NEW s \in Stack, NEW pc, Goto(c, s, pc)
      PROVE  /\ pc \notin P => Cardinality(Waiting(P)') + One(stackPc[c][s] \in P)
                                 = Cardinality(Waiting(P))
             /\ stackPc[c][s] \notin P => Cardinality(Waiting(P)')
                                            = Cardinality(Waiting(P)) + One(pc \in P)
  <2>1. Cardinality(Waiting(P)') + One(stackPc[c][s] \in P)
           = Cardinality(Waiting(P)) + One(pc \in P)
    BY <1>3, GotoWaits
  <2>2. pc \notin P => One(pc \in P) = 0
    BY DEF One
  <2>3. stackPc[c][s] \notin P => One(stackPc[c][s] \in P) = 0
    BY DEF One
  <2>4. One(pc \in P) \in Nat /\ One(stackPc[c][s] \in P) \in Nat
    BY DEF One
  <2> QED  BY <1>1, <2>1, <2>2, <2>3, <2>4
<1>4. ASSUME Keeps
      PROVE  Cardinality(Waiting(P)') = Cardinality(Waiting(P))
  <2>1. CASE UNCHANGED stackPc
    BY <1>2, <2>1
  <2>2. ASSUME NEW c \in Client, NEW s \in Stack, NEW pc \in StackPcs \ PendingPcs,
               stackPc[c][s] \notin PendingPcs, Goto(c, s, pc)
        PROVE  Cardinality(Waiting(P)') = Cardinality(Waiting(P))
    <3>1. One(pc \in P) = 0
      BY <2>2 DEF One
    <3>2. Cardinality(Waiting(P)') = Cardinality(Waiting(P)) + One(pc \in P)
      BY <1>3, <2>2
    <3> QED  BY <1>1, <3>1, <3>2
  <2> QED  BY <1>4, <2>1, <2>2 DEF Keeps
<1>5. Collects => Cardinality(Waiting(P)') = Cardinality(Waiting(P))
  BY <1>2 DEF Collects
<1>6. ASSUME NEW c \in Client, NEW s \in Stack, Sends(c, s)
      PROVE  Cardinality(Waiting(P)') + One(stackPc[c][s] \in P) = Cardinality(Waiting(P))
  <2>1. PICK pc \in StackPcs \ PendingPcs : Goto(c, s, pc)
    BY <1>6 DEF Sends
  <2> QED  BY <1>3, <2>1
<1>7. ASSUME NEW c \in Client, NEW s \in Stack, NEW o \in Outcome, Executes(c, s, o)
      PROVE  Cardinality(Waiting(P)') = Cardinality(Waiting(P)) + One(PcOf(o) \in P)
  <2>1. Goto(c, s, PcOf(o)) /\ stackPc[c][s] \notin P
    BY <1>7 DEF Executes, Ends
  <2> QED  BY <1>3, <2>1
<1> QED  BY <1>4, <1>5, <1>6, <1>7

\* What each effect does to the three places a transaction can be in.
LEMMA EffectCounts ==
  ASSUME DoraTypeOK, DoraTypeOK', Effect
  PROVE  \/ /\ Executed' = Executed
            /\ summary'.Total = summary.Total
            /\ Len(dialResultCh') + Cardinality(Unreported')
                 = Len(dialResultCh) + Cardinality(Unreported)
         \/ /\ Executed' = Executed + 1
            /\ summary'.Total = summary.Total
            /\ Len(dialResultCh') = Len(dialResultCh)
            /\ Cardinality(Unreported') = Cardinality(Unreported) + 1
            /\ UNCHANGED proc
         \/ /\ Executed' = Executed
            /\ summary'.Total = summary.Total + 1
            /\ Len(dialResultCh') + 1 = Len(dialResultCh)
            /\ Cardinality(Unreported') = Cardinality(Unreported)
            /\ UNCHANGED proc
<1>t. /\ summary \in Summary /\ dialResultCh \in Seq(Result)
      /\ Cardinality(Unreported) \in Nat /\ Cardinality(Unreported') \in Nat
  <2>1. Unreported' \in SUBSET (Client \X Stack)
    BY DEF Unreported
  <2> QED  BY <2>1, UnreportedFinite, TransactionsFinite DEF DoraTypeOK, CollectorTypeOK
<1>u. Unreported = Waiting(PendingPcs) /\ Unreported' = Waiting(PendingPcs)'
  BY DEF Unreported, Waiting
<1>1. CASE Keeps
  <2>1. Cardinality(Unreported') = Cardinality(Unreported)
    BY <1>u, <1>1, EffectWaits
  <2> QED  BY <1>1, <2>1 DEF Keeps, Executed
<1>2. ASSUME NEW c \in Client, NEW s \in Stack, NEW o \in Outcome, Executes(c, s, o)
      PROVE  /\ Executed' = Executed + 1
             /\ Cardinality(Unreported') = Cardinality(Unreported) + 1
             /\ UNCHANGED <<summary, dialResultCh, proc>>
  <2>1. Executed' = Executed + 1
    BY <1>2, ExecutedGrows DEF Executes, Ends
  <2>2. One(PcOf(o) \in PendingPcs) = 1
    BY DEF One, PcOf, PendingPcs, Outcome
  <2>3. Cardinality(Unreported') = Cardinality(Unreported) + One(PcOf(o) \in PendingPcs)
    BY <1>u, <1>2, EffectWaits
  <2> QED  BY <1>2, <2>1, <2>2, <2>3 DEF Executes
<1>3. ASSUME NEW c \in Client, NEW s \in Stack, Sends(c, s)
      PROVE  /\ Len(dialResultCh') = Len(dialResultCh) + 1
             /\ Cardinality(Unreported') + 1 = Cardinality(Unreported)
             /\ summary' = summary /\ Executed' = Executed
  <2>1. ResultOf(s, stackPc[c][s]) \in Result
    BY ResultsAre
  <2>2. Len(dialResultCh') = Len(dialResultCh) + 1
    BY <1>t, <1>3, <2>1 DEF Sends, SendResult
  <2>3. One(stackPc[c][s] \in PendingPcs) = 1
    BY <1>3 DEF Sends, One
  <2>4. Cardinality(Unreported') + One(stackPc[c][s] \in PendingPcs) = Cardinality(Unreported)
    BY <1>u, <1>3, EffectWaits
  <2> QED  BY <1>3, <2>2, <2>3, <2>4 DEF Sends, SendResult, Executed
<1>4. CASE Collects
  <2>1. Head(dialResultCh) \in Result
    BY <1>t, <1>4 DEF Collects, CollectResult
  <2>2. summary'.Total = summary.Total + 1
    BY <1>t, <1>4, <2>1, CollectType DEF Collects, CollectResult, CountsOneMore
  <2>3. Len(dialResultCh') + 1 = Len(dialResultCh)
    BY <1>t, <1>4 DEF Collects, CollectResult
  <2>4. Cardinality(Unreported') = Cardinality(Unreported)
    BY <1>u, <1>4, EffectWaits
  <2> QED  BY <1>4, <2>2, <2>3, <2>4 DEF Collects, Executed
<1>5. Len(dialResultCh) \in Nat
  BY <1>t
<1> QED  BY <1>t, <1>1, <1>2, <1>3, <1>4, <1>5 DEF Effect

LEMMA NextConserves ==
  ASSUME DoraInv, DoraInv', ResultsConserved, [DoraNext]_vars
  PROVE  ResultsConserved'
<1>1. CASE Step
  <2>1. DoraTypeOK /\ DoraTypeOK' /\ Effect
    BY <1>1, StepEffect DEF DoraInv
  <2>2. /\ Executed \in Nat /\ summary.Total \in Nat /\ Len(dialResultCh) \in Nat
        /\ Cardinality(Unreported) \in Nat
    BY <2>1, ExecutedType, UnreportedFinite DEF DoraTypeOK, CollectorTypeOK, Summary
  <2>3. Len(dialResultCh') \in Nat /\ Cardinality(Unreported') \in Nat
    BY <2>1, TransactionsFinite DEF Unreported, DoraTypeOK, CollectorTypeOK
  <2> DEFINE e == Executed   t == summary.Total   q == Len(dialResultCh)
             u == Cardinality(Unreported)
             e1 == Executed'   t1 == summary'.Total   q1 == Len(dialResultCh')
             u1 == Cardinality(Unreported')
  <2>4. e \in Nat /\ t \in Nat /\ q \in Nat /\ u \in Nat /\ q1 \in Nat /\ u1 \in Nat
    BY <2>2, <2>3
  <2>5. e = t + q + u
    BY DEF ResultsConserved
  <2>6. \/ e1 = e /\ t1 = t /\ q1 + u1 = q + u
        \/ e1 = e + 1 /\ t1 = t /\ q1 = q /\ u1 = u + 1
        \/ e1 = e /\ t1 = t + 1 /\ q1 + 1 = q /\ u1 = u
    BY <2>1, EffectCounts
  <2>7. e1 = t1 + q1 + u1
    <3> HIDE DEF e, t, q, u, e1, t1, q1, u1
    <3> QED  BY <2>4, <2>5, <2>6
  <2> QED  BY <2>7 DEF ResultsConserved
<1>2. CASE UNCHANGED vars
  BY <1>2 DEF vars, collectorVars, clientVars, ResultsConserved, Executed, Unreported
<1> QED  BY <1>1, <1>2 DEF DoraNext, Ended

\* No result is lost or counted twice.
THEOREM Conservation == Spec => []ResultsConserved
<1>1. DoraInit => ResultsConserved
  <2> SUFFICES ASSUME DoraInit PROVE ResultsConserved
    OBVIOUS
  <2>1. Executed = 0 /\ summary.Total = 0 /\ Len(dialResultCh) = 0
    BY NewSummaryType DEF DoraInit, CollectorInit, Executed, Outcome
  <2>2. Unreported = {}
    BY DEF DoraInit, Unreported, PendingPcs
  <2> QED  BY <2>1, <2>2, FS_EmptySet DEF ResultsConserved
<1> QED  BY <1>1, NextConserves, Invariance, PTL DEF Spec

-----------------------------------------------------------------------------
(* The end of a run.                                                       *)

\* When the result channel is closed nobody has a result left to send.
LEMMA ClosedIsQuiet ==
  ASSUME DoraInv, chClosed
  PROVE  \A P \in SUBSET PendingPcs : Waiting(P) = {}
<1>1. \A c \in Client : dialPc[c] = "idle" /\ flapPc[c] = "off"
  BY DialOpen, ReleaseOpen
<1>2. ASSUME NEW c \in Client, NEW s \in Stack
      PROVE  stackPc[c][s] \notin PendingPcs
  <2>1. stackPc[c][s] \notin DialPcs
    BY <1>1, DialingBusy
  <2>2. stackPc[c][s] \notin ReleasePcs
    BY <1>1 DEF DoraInv, ClientInv, Busy
  <2> QED  BY <2>1, <2>2 DEF PendingPcs, DialPcs, ReleasePcs
<1> QED  BY <1>2 DEF Waiting

\* When the collector has returned as well everything is in the summary.
LEMMA ClosedIsComplete ==
  ASSUME DoraInv, ResultsConserved, collectorPc = "done"
  PROVE  Executed = summary.Total
<1>1. chClosed /\ dialResultCh = <<>>
  BY DEF DoraInv, ClosingInv
<1>2. Unreported = {}
  BY <1>1, ClosedIsQuiet, WaitingIs
<1>3. Cardinality(Unreported) = 0
  BY <1>2, FS_EmptySet
<1>4. Len(dialResultCh) = 0
  BY <1>1
<1>5. summary.Total \in Nat
  BY DEF DoraInv, DoraTypeOK, CollectorTypeOK, Summary
<1> QED  BY <1>3, <1>4, <1>5 DEF ResultsConserved

-----------------------------------------------------------------------------
(* What the final summary says.                                            *)

\* Each counter of the summary, with the results still in the channel and the
\* outcomes still to be sent, agrees with the outcomes it is about: a release
\* counts as released whatever its outcome, a failed one may count as failed.
OutcomesInv ==
  /\ outcomes["dialled"] = SuccessSent + Cardinality(Waiting({"dialOk"}))
  /\ outcomes["released"] + outcomes["releaseFailed"]
       = ReleasedSent + Cardinality(Waiting({"releaseOk", "releaseFail"}))
  /\ outcomes["dialFailed"] <= FailedSent + Cardinality(Waiting({"dialFail"}))
  /\ FailedSent + Cardinality(Waiting({"dialFail", "releaseFail"}))
       <= outcomes["dialFailed"] + outcomes["releaseFailed"]

\* The two ways such a sum moves: k of those that wait are sent, or k more
\* end and wait.
LEMMA SumKept ==
  ASSUME NEW a, NEW a1, NEW n \in Nat, NEW n1, NEW w \in Nat, NEW w1 \in Nat, NEW k \in Nat,
         a = n + w,
         \/ a1 = a /\ n1 = n + k /\ w1 + k = w
         \/ a1 = a + k /\ n1 = n /\ w1 = w + k
  PROVE  a1 = n1 + w1
OBVIOUS

\* What was sent, after each effect.
LEMMA EffectSent ==
  ASSUME DoraTypeOK
  PROVE  /\ Keeps \/ Collects => UNCHANGED allSent
         /\ \A c \in Client, s \in Stack :
              /\ Sends(c, s) =>
                   /\ SuccessSent' = SuccessSent + One(stackPc[c][s] \in {"dialOk"})
                   /\ ReleasedSent' =
                        ReleasedSent + One(stackPc[c][s] \in {"releaseOk", "releaseFail"})
                   /\ FailedSent' \in Nat
                   /\ FailedSent + One(stackPc[c][s] \in {"dialFail"}) <= FailedSent'
                   /\ FailedSent'
                        <= FailedSent + One(stackPc[c][s] \in {"dialFail", "releaseFail"})
              /\ \A o \in Outcome : Executes(c, s, o) => UNCHANGED allSent
<1>c. CollectorTypeOK
  BY DEF DoraTypeOK
<1>1. ASSUME UNCHANGED <<summary, dialResultCh>>
      PROVE  UNCHANGED allSent
  BY <1>1 DEF allSent, TotalSent, SuccessSent, FailedSent, ReleasedSent, RenewedSent,
              RebindedSent
<1>2. Keeps \/ Collects => UNCHANGED allSent
  BY <1>c, <1>1, CollectCounts DEF Keeps, Collects
<1>3. ASSUME NEW c \in Client, NEW s \in Stack, Sends(c, s)
      PROVE  /\ SuccessSent' = SuccessSent + One(stackPc[c][s] \in {"dialOk"})
             /\ ReleasedSent' =
                  ReleasedSent + One(stackPc[c][s] \in {"releaseOk", "releaseFail"})
             /\ FailedSent' \in Nat
             /\ FailedSent + One(stackPc[c][s] \in {"dialFail"}) <= FailedSent'
             /\ FailedSent'
                  <= FailedSent + One(stackPc[c][s] \in {"dialFail", "releaseFail"})
  <2> DEFINE pc == stackPc[c][s]
             r == ResultOf(s, pc)
  <2>1. pc \in PendingPcs /\ SendResult(r)
    BY <1>3 DEF Sends
  <2> HIDE DEF pc
  <2>2. /\ r \in Result
        /\ DialSucceeded(r) <=> pc \in {"dialOk"}
        /\ r.action = "release" <=> pc \in {"releaseOk", "releaseFail"}
        /\ pc = "dialFail" => ~r.ok
        /\ ~r.ok => pc \in {"dialFail", "releaseFail"}
    BY <2>1, ResultsAre
  <2> HIDE DEF r
  <2>3. /\ SuccessSent' = SuccessSent + One(DialSucceeded(r))
        /\ ReleasedSent' = ReleasedSent + One(r.action = "release")
        /\ FailedSent' = FailedSent + One(~r.ok)
    BY <1>c, <2>1, <2>2, SendCounts
  <2>4. /\ One(DialSucceeded(r)) = One(pc \in {"dialOk"})
        /\ One(r.action = "release") = One(pc \in {"releaseOk", "releaseFail"})
        /\ One(~r.ok) \in Nat
        /\ One(pc \in {"dialFail"}) \in Nat /\ One(pc \in {"dialFail"}) <= One(~r.ok)
        /\ One(pc \in {"dialFail", "releaseFail"}) \in Nat
        /\ One(~r.ok) <= One(pc \in {"dialFail", "releaseFail"})
    BY <2>2 DEF One
  <2>5. FailedSent \in Nat
    BY <1>c, SentType
  <2> QED  BY <2>3, <2>4, <2>5 DEF pc
<1>4. ASSUME NEW c \in Client, NEW s \in Stack, NEW o \in Outcome, Executes(c, s, o)
      PROVE  UNCHANGED allSent
  BY <1>1, <1>4 DEF Executes
<1> QED  BY <1>2, <1>3, <1>4

\* What the outcomes count, after each effect.
LEMMA EffectOutcomes ==
  ASSUME DoraTypeOK
  PROVE  /\ Keeps \/ Collects => UNCHANGED outcomes
         /\ \A c \in Client, s \in Stack :
              /\ Sends(c, s) => UNCHANGED outcomes
              /\ \A o \in Outcome : Executes(c, s, o) =>
                   /\ outcomes'["dialled"] = outcomes["dialled"] + One(PcOf(o) \in {"dialOk"})
                   /\ outcomes'["released"] + outcomes'["releaseFailed"]
                        = (outcomes["released"] + outcomes["releaseFailed"])
                            + One(PcOf(o) \in {"releaseOk", "releaseFail"})
                   /\ outcomes'["dialFailed"]
                        = outcomes["dialFailed"] + One(PcOf(o) \in {"dialFail"})
                   /\ outcomes'["dialFailed"] + outcomes'["releaseFailed"]
                        = (outcomes["dialFailed"] + outcomes["releaseFailed"])
                            + One(PcOf(o) \in {"dialFail", "releaseFail"})
<1>1. ASSUME NEW c \in Client, NEW s \in Stack, NEW o \in Outcome, Executes(c, s, o)
      PROVE  /\ outcomes'["dialled"] = outcomes["dialled"] + One(PcOf(o) \in {"dialOk"})
             /\ outcomes'["released"] + outcomes'["releaseFailed"]
                  = (outcomes["released"] + outcomes["releaseFailed"])
                      + One(PcOf(o) \in {"releaseOk", "releaseFail"})
             /\ outcomes'["dialFailed"]
                  = outcomes["dialFailed"] + One(PcOf(o) \in {"dialFail"})
             /\ outcomes'["dialFailed"] + outcomes'["releaseFailed"]
                  = (outcomes["dialFailed"] + outcomes["releaseFailed"])
                      + One(PcOf(o) \in {"dialFail", "releaseFail"})
  <2>1. \A x \in Outcome : /\ outcomes[x] \in Nat
                           /\ outcomes'[x] = IF x = o THEN outcomes[x] + 1 ELSE outcomes[x]
    BY <1>1 DEF Executes, Ends, DoraTypeOK, ClientTypeOK
  <2>2. CASE o = "dialled"
    BY <2>1, <2>2 DEF Outcome, PcOf, One
  <2>3. CASE o = "dialFailed"
    BY <2>1, <2>3 DEF Outcome, PcOf, One
  <2>4. CASE o = "released"
    BY <2>1, <2>4 DEF Outcome, PcOf, One
  <2>5. CASE o = "releaseFailed"
    BY <2>1, <2>5 DEF Outcome, PcOf, One
  <2> QED  BY <2>2, <2>3, <2>4, <2>5 DEF Outcome
<1> QED  BY <1>1 DEF Keeps, Collects, Sends

LEMMA NextOutcomes ==
  ASSUME DoraInv, OutcomesInv, [DoraNext]_vars
  PROVE  OutcomesInv'
<1> DEFINE DialOk == {"dialOk"}
           Rel == {"releaseOk", "releaseFail"}
           Lost == {"dialFail"}
           Failing == {"dialFail", "releaseFail"}
           w(P) == Cardinality(Waiting(P))
           w1(P) == Cardinality(Waiting(P)')
<1>t. DoraTypeOK /\ SuccessSent \in Nat /\ ReleasedSent \in Nat /\ FailedSent \in Nat
  BY SentType DEF DoraInv, DoraTypeOK
<1>p. \A P : w(P) \in Nat /\ w1(P) \in Nat
  <2>1. \A P : /\ Waiting(P) \in SUBSET (Client \X Stack)
               /\ Waiting(P)' \in SUBSET (Client \X Stack)
    BY DEF Waiting
  <2> QED  BY <2>1, TransactionsFinite
<1>o. \A b : One(b) \in Nat
  BY DEF One
<1>d. /\ DialOk \in SUBSET PendingPcs /\ Rel \in SUBSET PendingPcs
      /\ Lost \in SUBSET PendingPcs /\ Failing \in SUBSET PendingPcs
  BY DEF PendingPcs
<1>f. outcomes["dialFailed"] \in Nat /\ outcomes["releaseFailed"] \in Nat
  BY <1>t DEF DoraTypeOK, ClientTypeOK, Outcome
<1>i. /\ outcomes["dialled"] = SuccessSent + w(DialOk)
      /\ outcomes["released"] + outcomes["releaseFailed"] = ReleasedSent + w(Rel)
      /\ outcomes["dialFailed"] <= FailedSent + w(Lost)
      /\ FailedSent + w(Failing) <= outcomes["dialFailed"] + outcomes["releaseFailed"]
  BY DEF OutcomesInv
<1>g. SUFFICES
        /\ outcomes'["dialled"] = SuccessSent' + w1(DialOk)
        /\ outcomes'["released"] + outcomes'["releaseFailed"] = ReleasedSent' + w1(Rel)
        /\ outcomes'["dialFailed"] <= FailedSent' + w1(Lost)
        /\ FailedSent' + w1(Failing) <= outcomes'["dialFailed"] + outcomes'["releaseFailed"]
  BY DEF OutcomesInv
<1>1. CASE Keeps \/ Collects
  <2>1. UNCHANGED <<outcomes, SuccessSent, ReleasedSent, FailedSent>>
    BY <1>t, <1>1, EffectSent, EffectOutcomes DEF allSent
  <2>2. \A P \in SUBSET PendingPcs : w1(P) = w(P)
    BY <1>t, <1>1, EffectWaits
  <2> HIDE DEF w, w1
  <2> QED  BY <1>i, <1>d, <2>1, <2>2
<1>2. ASSUME NEW c \in Client, NEW s \in Stack, Sends(c, s)
      PROVE  /\ outcomes'["dialled"] = SuccessSent' + w1(DialOk)
             /\ outcomes'["released"] + outcomes'["releaseFailed"] = ReleasedSent' + w1(Rel)
             /\ outcomes'["dialFailed"] <= FailedSent' + w1(Lost)
             /\ FailedSent' + w1(Failing)
                  <= outcomes'["dialFailed"] + outcomes'["releaseFailed"]
  <2> DEFINE k(P) == One(stackPc[c][s] \in P)
  <2>1. \A P \in SUBSET PendingPcs : w1(P) + k(P) = w(P)
    BY <1>t, <1>2, EffectWaits
  <2>2. /\ SuccessSent' = SuccessSent + k(DialOk)
        /\ ReleasedSent' = ReleasedSent + k(Rel)
        /\ FailedSent' \in Nat
        /\ FailedSent + k(Lost) <= FailedSent' /\ FailedSent' <= FailedSent + k(Failing)
    BY <1>t, <1>2, EffectSent
  <2>3. outcomes' = outcomes
    BY <1>2 DEF Sends
  <2>4. \A P : k(P) \in Nat
    BY <1>o
  <2> HIDE DEF w, w1, k, DialOk, Rel, Lost, Failing
  <2>5. outcomes'["dialled"] = SuccessSent' + w1(DialOk)
    BY <1>t, <1>p, <1>d, <1>i, <2>1, <2>2, <2>3, <2>4, SumKept
  <2>6. outcomes'["released"] + outcomes'["releaseFailed"] = ReleasedSent' + w1(Rel)
    BY <1>t, <1>p, <1>d, <1>i, <2>1, <2>2, <2>3, <2>4, SumKept
  <2>7. outcomes'["dialFailed"] <= FailedSent' + w1(Lost)
    BY <1>t, <1>p, <1>d, <1>f, <1>i, <2>1, <2>2, <2>3, <2>4
  <2>8. FailedSent' + w1(Failing) <= outcomes'["dialFailed"] + outcomes'["releaseFailed"]
    BY <1>t, <1>p, <1>d, <1>f, <1>i, <2>1, <2>2, <2>3, <2>4
  <2> QED  BY <2>5, <2>6, <2>7, <2>8
<1>3. ASSUME NEW c \in Client, NEW s \in Stack, NEW o \in Outcome, Executes(c, s, o)
      PROVE  /\ outcomes'["dialled"] = SuccessSent' + w1(DialOk)
             /\ outcomes'["released"] + outcomes'["releaseFailed"] = ReleasedSent' + w1(Rel)
             /\ outcomes'["dialFailed"] <= FailedSent' + w1(Lost)
             /\ FailedSent' + w1(Failing)
                  <= outcomes'["dialFailed"] + outcomes'["releaseFailed"]
  <2> DEFINE k(P) == One(PcOf(o) \in P)
  <2>1. \A P \in SUBSET PendingPcs : w1(P) = w(P) + k(P)
    BY <1>t, <1>3, EffectWaits
  <2>2. UNCHANGED <<SuccessSent, ReleasedSent, FailedSent>>
    BY <1>t, <1>3, EffectSent DEF allSent
  <2>3. /\ outcomes'["dialled"] = outcomes["dialled"] + k(DialOk)
        /\ outcomes'["released"] + outcomes'["releaseFailed"]
             = (outcomes["released"] + outcomes["releaseFailed"]) + k(Rel)
        /\ outcomes'["dialFailed"] = outcomes["dialFailed"] + k(Lost)
        /\ outcomes'["dialFailed"] + outcomes'["releaseFailed"]
             = (outcomes["dialFailed"] + outcomes["releaseFailed"]) + k(Failing)
    BY <1>t, <1>3, EffectOutcomes
  <2>4. \A P : k(P) \in Nat
    BY <1>o
  <2> HIDE DEF w, w1, k, DialOk, Rel, Lost, Failing
  <2>5. outcomes'["dialled"] = SuccessSent' + w1(DialOk)
    BY <1>t, <1>p, <1>d, <1>i, <2>1, <2>2, <2>3, <2>4, SumKept
  <2>6. outcomes'["released"] + outcomes'["releaseFailed"] = ReleasedSent' + w1(Rel)
    BY <1>t, <1>p, <1>d, <1>i, <2>1, <2>2, <2>3, <2>4, SumKept
  <2>7. outcomes'["dialFailed"] <= FailedSent' + w1(Lost)
    BY <1>t, <1>p, <1>d, <1>f, <1>i, <2>1, <2>2, <2>3, <2>4
  <2>8. FailedSent' + w1(Failing) <= outcomes'["dialFailed"] + outcomes'["releaseFailed"]
    BY <1>t, <1>p, <1>d, <1>f, <1>i, <2>1, <2>2, <2>3, <2>4
  <2> QED  BY <2>5, <2>6, <2>7, <2>8
<1>4. CASE UNCHANGED vars
  <2>1. UNCHANGED <<outcomes, SuccessSent, ReleasedSent, FailedSent>>
    BY <1>4 DEF vars, collectorVars, clientVars, SuccessSent, ReleasedSent, FailedSent
  <2>2. \A P : w1(P) = w(P)
    BY <1>4 DEF vars, clientVars, Waiting
  <2> HIDE DEF w, w1
  <2> QED  BY <1>i, <2>1, <2>2
<1>5. Step => Effect
  BY StepEffect
<1> HIDE DEF w, w1, DialOk, Rel, Lost, Failing
<1> QED  BY <1>1, <1>2, <1>3, <1>4, <1>5 DEF DoraNext, Ended, Effect

LEMMA InitOutcomes == DoraInit => OutcomesInv
<1> SUFFICES ASSUME DoraInit PROVE OutcomesInv
  OBVIOUS
<1>1. \A P \in SUBSET PendingPcs : Waiting(P) = {}
  BY DEF DoraInit, Waiting, PendingPcs
<1>2. /\ {"dialOk"} \in SUBSET PendingPcs
      /\ {"releaseOk", "releaseFail"} \in SUBSET PendingPcs
      /\ {"dialFail"} \in SUBSET PendingPcs
      /\ {"dialFail", "releaseFail"} \in SUBSET PendingPcs
  BY DEF PendingPcs
<1>3. /\ Cardinality(Waiting({"dialOk"})) = 0
      /\ Cardinality(Waiting({"releaseOk", "releaseFail"})) = 0
      /\ Cardinality(Waiting({"dialFail"})) = 0
      /\ Cardinality(Waiting({"dialFail", "releaseFail"})) = 0
  BY <1>1, <1>2, FS_EmptySet
<1>4. SuccessSent = 0 /\ ReleasedSent = 0 /\ FailedSent = 0
  <2>1. CollectorTypeOK
    BY TypeInit DEF DoraTypeOK
  <2> QED  BY <2>1, SentType, NewSummaryType DEF DoraInit, CollectorInit
<1>5. \A o \in Outcome : outcomes[o] = 0
  BY DEF DoraInit
<1> QED  BY <1>3, <1>4, <1>5 DEF OutcomesInv, Outcome

\* When collectResults has returned, the summary has every transaction of the
\* run and every successful dial, at least the failures of dials and the
\* releases that succeeded, and nothing beyond what failed or was released
\* (sched.go:843-898, 1028-1029).
THEOREM SummaryFinal == Spec => []FinalSummary
<1>1. DoraInv /\ ResultsConserved /\ OutcomesInv => FinalSummary
  <2> SUFFICES ASSUME DoraInv, ResultsConserved, OutcomesInv, collectorPc = "done"
               PROVE  /\ summary.Total = Executed
                      /\ summary.Success = outcomes["dialled"]
                      /\ summary.Released \in
                           outcomes["released"] .. (outcomes["released"] + outcomes["releaseFailed"])
                      /\ summary.Failed \in
                           outcomes["dialFailed"] ..
                             (outcomes["dialFailed"] + outcomes["releaseFailed"])
    BY DEF FinalSummary
  <2>1. chClosed /\ dialResultCh = <<>> /\ CollectorTypeOK
    BY DEF DoraInv, ClosingInv, DoraTypeOK
  <2>2. /\ summary.Success = SuccessSent /\ SuccessSent \in Nat
        /\ summary.Released = ReleasedSent /\ ReleasedSent \in Nat
        /\ summary.Failed = FailedSent /\ FailedSent \in Nat
    BY <2>1, SentType
  <2>3. /\ Waiting({"dialOk"}) = {}
        /\ Waiting({"releaseOk", "releaseFail"}) = {}
        /\ Waiting({"dialFail"}) = {}
        /\ Waiting({"dialFail", "releaseFail"}) = {}
    <3>1. /\ {"dialOk"} \in SUBSET PendingPcs
          /\ {"releaseOk", "releaseFail"} \in SUBSET PendingPcs
          /\ {"dialFail"} \in SUBSET PendingPcs
          /\ {"dialFail", "releaseFail"} \in SUBSET PendingPcs
      BY DEF PendingPcs
    <3> QED  BY <2>1, <3>1, ClosedIsQuiet
  <2>4. Cardinality({}) = 0
    BY FS_EmptySet
  <2>5. summary.Total = Executed
    BY ClosedIsComplete
  <2>6. \A o \in Outcome : outcomes[o] \in Nat
    BY DEF DoraInv, DoraTypeOK, ClientTypeOK
  <2>7. /\ outcomes["released"] \in Nat /\ outcomes["releaseFailed"] \in Nat
        /\ outcomes["dialFailed"] \in Nat
        /\ summary.Released \in Nat /\ summary.Failed \in Nat
    BY <2>2, <2>6 DEF Outcome
  <2>8. /\ Cardinality(Waiting({"dialOk"})) = 0
        /\ Cardinality(Waiting({"releaseOk", "releaseFail"})) = 0
        /\ Cardinality(Waiting({"dialFail"})) = 0
        /\ Cardinality(Waiting({"dialFail", "releaseFail"})) = 0
    BY <2>3, <2>4
  <2>9. /\ outcomes["dialled"] = summary.Success
        /\ outcomes["released"] + outcomes["releaseFailed"] = summary.Released
        /\ outcomes["dialFailed"] <= summary.Failed
        /\ summary.Failed <= outcomes["dialFailed"] + outcomes["releaseFailed"]
    BY <2>2, <2>7, <2>8 DEF OutcomesInv
  <2> QED  BY <2>5, <2>7, <2>9
<1> QED  BY <1>1, InitOutcomes, NextOutcomes, Invariance, Conservation, PTL DEF Spec

-----------------------------------------------------------------------------
(* The refinement of TestRun.                                              *)

\* How a step can end the process: only main's return exits it, and that
\* leaves the results as they are.
LEMMA EndingKeeps ==
  ASSUME DoraInv, Step, proc = "running"
  PROVE  proc' = "exited" =>
           /\ runPc = "returned"
           /\ UNCHANGED <<chClosed, summary, outcomes>>
<1>1. CASE Run
  BY <1>1 DEF Run, StartRun, LaunchDial, WaitDials, Settle, WaitSaver, PrintInitial,
         CreateOtherClnts, CreateOtherFails, LaunchFlap, WaitFlaps, CloseChannel,
         WaitCollector, Exit, collectorVars, clientVars
<1>2. CASE CtrlC \/ CollectStep \/ SaveStep \/ WriteFails \/ ExchangePanics
  BY <1>2 DEF CtrlC, CollectStep, SaveStep, WriteFails, ExchangePanics, Panic
<1>3. ASSUME NEW c \in Client, DialAll(c) \/ \E s \in Stack : Dial(c, s)
      PROVE  proc' # "exited"
  BY <1>3 DEF DialAll, DialStack, DialAllWait, DialAllReturns, Dial, ExchangeOk,
              ExchangeFails, ApplyOnInterface, HandToSaver, ReportDial, Report,
              DialDone
<1>4. ASSUME NEW c \in Client, Flap(c)
      PROVE  proc' # "exited"
  BY <1>4 DEF Flap, FlapStop, FlapUp, FlapRelease, Release, Panic, ReportRelease,
              Report, FlapMid, Redial
<1> QED  BY <1>1, <1>2, <1>3, <1>4 DEF Step

LEMMA StepRefines ==
  ASSUME DoraInv, DoraInv', ResultsConserved, [DoraNext]_vars
  PROVE  [Abstract!Next]_(Abstract!vars)
<1> USE DEF Abstract!Next, Abstract!vars
<1>1. CASE UNCHANGED vars
  BY <1>1 DEF vars, collectorVars, clientVars, Executed, Over
<1>2. CASE proc = "running" /\ Step
  <2>1. DoraTypeOK /\ DoraTypeOK' /\ Effect
    BY <1>2, StepEffect DEF DoraInv
  <2>2. /\ Executed \in Nat /\ summary.Total \in Nat /\ Len(dialResultCh) \in Nat
        /\ Cardinality(Unreported) \in Nat
    BY <2>1, ExecutedType, UnreportedFinite DEF DoraTypeOK, CollectorTypeOK, Summary
  <2>3. Over = "no"
    BY <1>2 DEF Over
  <2>4. CASE Executed' = Executed /\ summary'.Total = summary.Total
    <3>1. CASE proc' = "running"
      BY <2>3, <2>4, <3>1 DEF Over
    <3>2. CASE proc' = "exited" /\ chClosed'
      <4>1. /\ runPc = "returned" /\ chClosed
        BY <1>2, <3>2, EndingKeeps
      <4>2. collectorPc = "done"
        BY <4>1 DEF DoraInv, ClosingInv
      <4>3. Executed = summary.Total
        BY <4>2, ClosedIsComplete
      <4> QED  BY <2>3, <2>4, <3>2, <4>3 DEF Over, Abstract!Finish
    <3>3. CASE proc' # "running" /\ ~(proc' = "exited" /\ chClosed')
      BY <2>3, <2>4, <3>3 DEF Over, Abstract!Abort
    <3> QED  BY <3>1, <3>2, <3>3
  <2>5. CASE /\ Executed' = Executed + 1 /\ summary'.Total = summary.Total
             /\ UNCHANGED proc
    BY <1>2, <2>3, <2>5 DEF Over, Abstract!Execute
  <2>6. CASE /\ Executed' = Executed /\ summary'.Total = summary.Total + 1
             /\ Len(dialResultCh') + 1 = Len(dialResultCh)
             /\ UNCHANGED proc
    <3>1. Len(dialResultCh') \in Nat
      BY <2>1 DEF DoraTypeOK, CollectorTypeOK
    <3>2. summary.Total < Executed
      BY <2>2, <2>6, <3>1 DEF ResultsConserved
    <3> QED  BY <1>2, <2>3, <2>6, <3>2 DEF Over, Abstract!ReportOne
  <2> QED  BY <2>1, <2>4, <2>5, <2>6, EffectCounts
<1> QED  BY <1>1, <1>2 DEF DoraNext, Ended

\* A DORA run implements the abstract test run: every transaction is reported
\* once, and a run that finishes has reported all of them.
THEOREM Refinement == Spec => ImplementsTestRun
<1>1. DoraInit => Abstract!Init
  BY NewSummaryType DEF DoraInit, CollectorInit, Abstract!Init, Executed, Outcome, Over
<1>2. DoraInv /\ DoraInv' /\ ResultsConserved /\ [DoraNext]_vars
        => [Abstract!Next]_(Abstract!vars)
  BY StepRefines
<1> QED  BY <1>1, <1>2, Invariance, Conservation, PTL
         DEF Spec, ImplementsTestRun, Abstract!Spec

=============================================================================
