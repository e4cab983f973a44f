-------------------------------- MODULE Dora --------------------------------
(***************************************************************************)
(* The DORA branch of Sched.run: every client dials its enabled stacks     *)
(* concurrently, successful leases go to the lease saver, every outcome    *)
(* goes to the result collector, and after the initial dialling clients    *)
(* may flap (release and dial again) until Ctrl-C.                         *)
(*                                                                         *)
(* Goroutines: run itself, collectResults, saveLeaseToFiles, one dialAll   *)
(* per client, one dialv4 / dialv6 per dialAll and stack, one flapFunc per *)
(* flapping client, handleCtrlC.  A WaitGroup is the set of the goroutines *)
(* that were added and have not called Done.                               *)
(***************************************************************************)
EXTENDS ResultCollector, LeaseSaver, FiniteSets

CONSTANTS
  V4First,        \* StackDelay >= 0: dialAll starts v4 before v6
  SaveLease,      \* setup.SaveLease
  ApplyLease,     \* setup.ApplyLease
  FlapNum,        \* setup.Flapping.FlapNum
  MaxFlaps,       \* bound of the model: flaps per client
  Interruptible,  \* the operator may press Ctrl-C
  SettleTime      \* one second is enough to drain the save and result channels

ASSUME DoraAssumption ==
  /\ IsFiniteSet(Client)
  /\ {V4First, SaveLease, ApplyLease, Interruptible, SettleTime} \subseteq BOOLEAN
  /\ FlapNum \in 0..Cardinality(Client)   \* conf.go:203
  /\ MaxFlaps \in Nat

VARIABLES
  proc,          \* the process: "running", "exited", "fatal" or why it panicked
  interrupted,   \* handleCtrlC has cancelled ctx
  saveCancelled, \* savecancelf has been called
  runPc,         \* program counter of Sched.run
  todo,          \* clients the current range loop over ClntList has yet to visit
  dialWG,        \* the WaitGroup wg of the initial dialling
  dialPc,        \* program counter of dialAll, per client
  subWG,         \* the WaitGroup subwg of dialAll, per client
  stackPc,       \* program counter of dialv4/dialv6 and releasev4/releaseOrRenewV6
  lease,         \* d4Lease and d6Lease
  otherClnt,     \* d4OtherClnt and d6OtherClnt are not nil
  flapPc,        \* program counter of flapFunc, per client
  flapWG,        \* the WaitGroup wg of the flapping phase
  flaps,         \* number of flaps a client has begun
  printed,       \* the summary last shown to the user
  outcomes       \* history: how many transactions ended in each way

runVars == <<saveCancelled, runPc, todo, dialWG, flapWG, printed, otherClnt>>
clientVars == <<dialPc, subWG, stackPc, lease, flapPc, flaps, outcomes>>
vars == <<collectorVars, saverVars, runVars, clientVars, proc, interrupted>>

Outcome == {"dialled", "dialFailed", "released", "releaseFailed"}

DialPcs == {"exchange", "apply", "save", "dialOk", "dialFail", "reported"}
ReleasePcs == {"release", "releaseOk", "releaseFail"}
PendingPcs == {"dialOk", "dialFail", "releaseOk", "releaseFail"}
StackPcs == {"off"} \cup DialPcs \cup ReleasePcs
FlapPcs == {"off", "up", "v4", "v4busy", "mid", "v6", "v6busy", "down", "redial"}
RunPcs == {"start", "dial", "settle", "saveWait", "initial", "flapPrep",
           "flap", "close", "collectWait", "returned"}
Panics == {"sendOnClosed", "nilClient", "nilIA"}

RunTypeOK ==
  /\ proc \in {"running", "exited", "fatal"} \cup Panics
  /\ interrupted \in BOOLEAN
  /\ saveCancelled \in BOOLEAN
  /\ runPc \in RunPcs
  /\ todo \subseteq Client
  /\ dialWG \subseteq Client
  /\ flapWG \subseteq Client
  /\ otherClnt \in [Client -> [Stack -> BOOLEAN]]
  /\ printed \in Summary

ClientTypeOK ==
  /\ dialPc \in [Client -> {"idle", "first", "second", "wait"}]
  /\ subWG \in [Client -> SUBSET Stack]
  /\ stackPc \in [Client -> [Stack -> StackPcs]]
  /\ lease \in [Client -> [Stack -> Lease]]
  /\ flapPc \in [Client -> FlapPcs]
  /\ flaps \in [Client -> Nat]
  /\ outcomes \in [Outcome -> Nat]

DoraTypeOK == CollectorTypeOK /\ SaverTypeOK /\ RunTypeOK /\ ClientTypeOK

DoraInit ==
  /\ CollectorInit
  /\ SaverInit
  /\ proc = "running"
  /\ interrupted = FALSE
  /\ saveCancelled = FALSE
  /\ runPc = "start"
  /\ todo = {}
  /\ dialWG = {}
  /\ dialPc = [c \in Client |-> "idle"]
  /\ subWG = [c \in Client |-> {}]
  /\ stackPc = [c \in Client |-> [s \in Stack |-> "off"]]
  /\ lease = [c \in Client |-> [s \in Stack |-> NoLease]]
  /\ otherClnt = [c \in Client |-> [s \in Stack |-> FALSE]]
  /\ flapPc = [c \in Client |-> "off"]
  /\ flapWG = {}
  /\ flaps = [c \in Client |-> 0]
  /\ printed = NewSummary
  /\ outcomes = [o \in Outcome |-> 0]

Panic(why) ==
  /\ proc' = why
  /\ UNCHANGED <<collectorVars, saverVars, runVars, clientVars, interrupted>>

-----------------------------------------------------------------------------
(* handleCtrlC: cancels ctx, and with it the saver's context.              *)

CtrlC ==
  /\ Interruptible
  /\ ~interrupted
  /\ interrupted' = TRUE
  /\ UNCHANGED <<collectorVars, saverVars, runVars, clientVars, proc>>

-----------------------------------------------------------------------------
(* Sched.run.                                                              *)

StartRun ==
  /\ runPc = "start"
  /\ runPc' = "dial"
  /\ todo' = Client
  /\ IF SaveLease THEN StartSaver ELSE UNCHANGED saverVars
  /\ UNCHANGED <<collectorVars, clientVars, proc, interrupted,
                 saveCancelled, dialWG, flapWG, printed, otherClnt>>

\* wg.Add(1); go c.dialAll(wg).  The order of a range over a map is arbitrary.
LaunchDial(c) ==
  /\ runPc = "dial"
  /\ c \in todo
  /\ todo' = todo \ {c}
  /\ dialWG' = dialWG \cup {c}
  /\ dialPc' = [dialPc EXCEPT ![c] = "first"]
  /\ UNCHANGED <<collectorVars, saverVars, proc, interrupted, saveCancelled,
                 runPc, flapWG, printed, otherClnt,
                 subWG, stackPc, lease, flapPc, flaps, outcomes>>

\* wg.Wait() of the initial dialling.
WaitDials ==
  /\ runPc = "dial"
  /\ todo = {}
  /\ dialWG = {}
  /\ runPc' = "settle"
  /\ UNCHANGED <<collectorVars, saverVars, clientVars, proc, interrupted,
                 saveCancelled, todo, dialWG, flapWG, printed, otherClnt>>

\* What a second of sleep gives the two consumers time for.
Drained ==
  /\ dialResultCh = <<>>
  /\ saverPc = "loop" => \A s \in Stack : saveChan[s] = <<>>

\* The one second sleep, then savecancelf().
Settle ==
  /\ runPc = "settle"
  /\ SettleTime => Drained
  /\ saveCancelled' = SaveLease
  /\ runPc' = IF SaveLease THEN "saveWait" ELSE "initial"
  /\ UNCHANGED <<collectorVars, saverVars, clientVars, proc, interrupted,
                 todo, dialWG, flapWG, printed, otherClnt>>

\* saveWG.Wait()
WaitSaver ==
  /\ runPc = "saveWait"
  /\ saverPc = "saved"
  /\ runPc' = "initial"
  /\ UNCHANGED <<collectorVars, saverVars, clientVars, proc, interrupted,
                 saveCancelled, todo, dialWG, flapWG, printed, otherClnt>>

\* The initial results are printed; flapping follows if it is configured.
PrintInitial ==
  /\ runPc = "initial"
  /\ printed' = summary
  /\ runPc' = IF FlapNum > 0 THEN "flapPrep" ELSE "close"
  /\ UNCHANGED <<collectorVars, saverVars, clientVars, proc, interrupted,
                 saveCancelled, todo, dialWG, flapWG, otherClnt>>

\* A second client is created for every stack that holds a lease now.
CreateOtherClnts ==
  /\ runPc = "flapPrep"
  /\ otherClnt' = [c \in Client |-> [s \in Stack |->
                     otherClnt[c][s] \/ lease[c][s] # NoLease]]
  /\ runPc' = "flap"
  /\ todo' = Client
  /\ UNCHANGED <<collectorVars, saverVars, clientVars, proc, interrupted,
                 saveCancelled, dialWG, flapWG, printed>>

\* createV4OtherClnt or createV6OtherClnt fails: run returns at once, the
\* result channel stays open.
CreateOtherFails ==
  /\ runPc = "flapPrep"
  /\ \E c \in Client, s \in Stack : lease[c][s] # NoLease
  /\ runPc' = "returned"
  /\ UNCHANGED <<collectorVars, saverVars, clientVars, proc, interrupted,
                 saveCancelled, todo, dialWG, flapWG, printed, otherClnt>>

\* The loop counter i, which the loop never increments.
FlapIndex == 0

\* if i < FlapNum { wg.Add(1); go flapFunc(ctx, dc, wg) }
LaunchFlap(c) ==
  /\ runPc = "flap"
  /\ c \in todo
  /\ todo' = todo \ {c}
  /\ IF FlapIndex < FlapNum
     THEN /\ flapWG' = flapWG \cup {c}
          /\ flapPc' = [flapPc EXCEPT ![c] = "up"]
     ELSE UNCHANGED <<flapWG, flapPc>>
  /\ UNCHANGED <<collectorVars, saverVars, proc, interrupted, saveCancelled,
                 runPc, dialWG, printed, otherClnt,
                 dialPc, subWG, stackPc, lease, flaps, outcomes>>

\* The flapping phase left at once, its clients still at work.
WaitFlapsSkipped ==
  /\ runPc = "flap"
  /\ todo = {}
  /\ printed' = summary
  /\ runPc' = "close"
  /\ UNCHANGED <<collectorVars, saverVars, clientVars, proc, interrupted,
                 saveCancelled, todo, dialWG, flapWG, otherClnt>>

\* wg.Wait() of the flapping phase, then the final result is printed.
WaitFlaps ==
  /\ runPc = "flap"
  /\ todo = {}
  /\ flapWG = {}
  /\ printed' = summary
  /\ runPc' = "close"
  /\ UNCHANGED <<collectorVars, saverVars, clientVars, proc, interrupted,
                 saveCancelled, todo, dialWG, flapWG, otherClnt>>

\* The close forgotten: the collector waits for results for ever.
CloseForgotten ==
  /\ runPc = "close"
  /\ runPc' = "collectWait"
  /\ UNCHANGED <<collectorVars, saverVars, clientVars, proc, interrupted,
                 saveCancelled, todo, dialWG, flapWG, printed, otherClnt>>

\* close(sch.dialResultCh)
CloseChannel ==
  /\ runPc = "close"
  /\ CloseResults
  /\ runPc' = "collectWait"
  /\ UNCHANGED <<saverVars, clientVars, proc, interrupted,
                 saveCancelled, todo, dialWG, flapWG, printed, otherClnt>>

\* run returning right after the close, without otherTG.Wait().
WaitCollectorSkipped ==
  /\ runPc = "collectWait"
  /\ runPc' = "returned"
  /\ UNCHANGED <<collectorVars, saverVars, clientVars, proc, interrupted,
                 saveCancelled, todo, dialWG, flapWG, printed, otherClnt>>

\* otherTG.Wait()
WaitCollector ==
  /\ runPc = "collectWait"
  /\ collectorPc = "done"
  /\ runPc' = "returned"
  /\ UNCHANGED <<collectorVars, saverVars, clientVars, proc, interrupted,
                 saveCancelled, todo, dialWG, flapWG, printed, otherClnt>>

\* taskWG.Done wakes main, which returns: every goroutine dies with it.
Exit ==
  /\ runPc = "returned"
  /\ proc' = "exited"
  /\ UNCHANGED <<collectorVars, saverVars, runVars, clientVars, interrupted>>

Run ==
  \/ StartRun
  \/ \E c \in Client : LaunchDial(c)
  \/ WaitDials
  \/ Settle
  \/ WaitSaver
  \/ PrintInitial
  \/ CreateOtherClnts
  \/ CreateOtherFails
  \/ \E c \in Client : LaunchFlap(c)
  \/ WaitFlaps
  \/ CloseChannel
  \/ WaitCollector
  \/ Exit

-----------------------------------------------------------------------------
(* collectResults and saveLeaseToFiles inside the run.                     *)

CollectStep ==
  /\ CollectResult \/ CollectorExit
  /\ UNCHANGED <<saverVars, runVars, clientVars, proc, interrupted>>

SaveCtxDone == interrupted \/ saveCancelled

SaveStep ==
  /\ \/ \E s \in Stack : SaveOne(s)
     \/ StopSaving(SaveCtxDone)
     \/ WriteLeases
  /\ UNCHANGED <<collectorVars, runVars, clientVars, proc, interrupted>>

\* log.Fatalf when the map cannot be encoded or the file not written.
WriteFails ==
  /\ saverPc = "encode"
  /\ proc' = "fatal"
  /\ UNCHANGED <<collectorVars, saverVars, runVars, clientVars, interrupted>>

-----------------------------------------------------------------------------
(* dialAll, called by its own goroutine or, when flapping, by flapFunc.    *)

\* The stack dialled at the given position of dialAll.
StackAt(pos) == IF (pos = "first") = V4First THEN "v4" ELSE "v6"

After(pos) == IF pos = "first" THEN "second" ELSE "wait"

\* if dc.d4 != nil { subwg.Add(1); go ... dialv4(subwg) }, and v6 likewise.
DialStack(c, pos) ==
  /\ dialPc[c] = pos
  /\ dialPc' = [dialPc EXCEPT ![c] = After(pos)]
  /\ LET s == StackAt(pos)
     IN  IF s \in Stack
         THEN /\ subWG' = [subWG EXCEPT ![c] = @ \cup {s}]
              /\ stackPc' = [stackPc EXCEPT ![c][s] = "exchange"]
         ELSE UNCHANGED <<subWG, stackPc>>
  /\ UNCHANGED <<collectorVars, saverVars, runVars, proc, interrupted,
                 lease, flapPc, flaps, outcomes>>

\* dialAll returns: to flapFunc if it called, else its goroutine calls wg.Done.
DialAllReturns(c) ==
  /\ dialPc' = [dialPc EXCEPT ![c] = "idle"]
  /\ IF flapPc[c] = "redial"
     THEN flapPc' = [flapPc EXCEPT ![c] = "up"] /\ UNCHANGED dialWG
     ELSE dialWG' = dialWG \ {c} /\ UNCHANGED flapPc
  /\ UNCHANGED <<collectorVars, saverVars, proc, interrupted, saveCancelled,
                 runPc, todo, flapWG, printed, otherClnt,
                 subWG, stackPc, lease, flaps, outcomes>>

\* subwg.Wait() left out: dialAll returns once both stacks are launched.
DialAllWaitSkipped(c) ==
  /\ dialPc[c] = "wait"
  /\ DialAllReturns(c)

\* subwg.Wait(): every launched stack has called Done.
DialAllWait(c) ==
  /\ dialPc[c] = "wait"
  /\ subWG[c] = {}
  /\ DialAllReturns(c)

-----------------------------------------------------------------------------
(* dialv4 and dialv6.                                                      *)

Goto(c, s, pc) == stackPc' = [stackPc EXCEPT ![c][s] = pc]

\* The deferred functions and the apply and save branches see only the
\* outcome: count it, and remember it until it is reported.
Ends(c, s, o, pc) ==
  /\ Goto(c, s, pc)
  /\ outcomes' = [outcomes EXCEPT ![o] = @ + 1]

\* What follows a lease: its application, its save, or the result.
\* A dial with nothing left to do has succeeded.
AfterLease(c, s, applied) ==
  IF ApplyLease /\ ~applied THEN Goto(c, s, "apply") /\ UNCHANGED outcomes
  ELSE IF SaveLease THEN Goto(c, s, "save") /\ UNCHANGED outcomes
  ELSE Ends(c, s, "dialled", "dialOk")

\* The exchange with the server gives a lease.
ExchangeOk(c, s) ==
  /\ stackPc[c][s] = "exchange"
  /\ lease' = [lease EXCEPT ![c][s] = @ + 1]
  /\ AfterLease(c, s, FALSE)
  /\ UNCHANGED <<collectorVars, saverVars, runVars, proc, interrupted,
                 dialPc, subWG, flapPc, flaps>>

\* An error returned before the deferred send is in place.
ExchangeFailsSilently(c, s) ==
  /\ stackPc[c][s] = "exchange"
  /\ Ends(c, s, "dialFailed", "reported")
  /\ UNCHANGED <<collectorVars, saverVars, runVars, proc, interrupted,
                 dialPc, subWG, lease, flapPc, flaps>>

\* No answer, an unusable answer or an error: the old lease pointer stays.
ExchangeFails(c, s) ==
  /\ stackPc[c][s] = "exchange"
  /\ Ends(c, s, "dialFailed", "dialFail")
  /\ UNCHANGED <<collectorVars, saverVars, runVars, proc, interrupted,
                 dialPc, subWG, lease, flapPc, flaps>>

\* checkResp dereferences an identity association the server left out; DialV6
\* has the messages that lead there.
ExchangePanics ==
  /\ "v6" \in Stack
  /\ \E c \in Client : stackPc[c]["v6"] = "exchange"
  /\ Panic("nilIA")

\* lease.Apply on the interface; its error ends the dial as a failure.
ApplyOnInterface(c, s) ==
  /\ stackPc[c][s] = "apply"
  /\ \/ AfterLease(c, s, TRUE)
     \/ Ends(c, s, "dialFailed", "dialFail")
  /\ UNCHANGED <<collectorVars, saverVars, runVars, proc, interrupted,
                 dialPc, subWG, lease, flapPc, flaps>>

\* The lease is handed to the saver: blocks while the channel is full.
HandToSaver(c, s) ==
  /\ stackPc[c][s] = "save"
  /\ SendLease(c, s, lease[c][s])
  /\ Ends(c, s, "dialled", "dialOk")
  /\ UNCHANGED <<collectorVars, runVars, proc, interrupted,
                 dialPc, subWG, lease, flapPc, flaps>>

\* Times are abstracted here: ResultSummary treats them.
NewResult(action, ok) ==
  [action |-> action, ok |-> ok, start |-> 0, finish |-> 1]

\* The send of a result, which panics on a closed channel.
Report(r) ==
  IF chClosed
  THEN proc' = "sendOnClosed" /\ UNCHANGED collectorVars
  ELSE SendResult(r) /\ UNCHANGED proc

\* The deferred send of the dial result.
ReportDial(c, s) ==
  /\ stackPc[c][s] \in {"dialOk", "dialFail"}
  /\ Report(NewResult("dora", stackPc[c][s] = "dialOk"))
  /\ Goto(c, s, "reported")
  /\ UNCHANGED <<saverVars, runVars, interrupted,
                 dialPc, subWG, lease, flapPc, flaps, outcomes>>

\* The other order of the two deferred calls: Done before the result is sent.
DialDoneEarly(c, s) ==
  /\ stackPc[c][s] \in {"dialOk", "dialFail", "reported"}
  /\ s \in subWG[c]
  /\ subWG' = [subWG EXCEPT ![c] = @ \ {s}]
  /\ UNCHANGED <<collectorVars, saverVars, runVars, proc, interrupted,
                 stackPc, dialPc, lease, flapPc, flaps, outcomes>>

\* The first defer runs last: wg.Done() after the result has been sent.
DialDone(c, s) ==
  /\ stackPc[c][s] = "reported"
  /\ Goto(c, s, "off")
  /\ subWG' = [subWG EXCEPT ![c] = @ \ {s}]
  /\ UNCHANGED <<collectorVars, saverVars, runVars, proc, interrupted,
                 dialPc, lease, flapPc, flaps, outcomes>>

Dial(c, s) ==
  \/ ExchangeOk(c, s)
  \/ ExchangeFails(c, s)
  \/ ApplyOnInterface(c, s)
  \/ HandToSaver(c, s)
  \/ ReportDial(c, s)
  \/ DialDone(c, s)

DialAll(c) ==
  \/ DialStack(c, "first")
  \/ DialStack(c, "second")
  \/ DialAllWait(c)

-----------------------------------------------------------------------------
(* flapFunc, releasev4 and releaseOrRenewV6 as it calls them.              *)

FlapGoto(c, pc) == flapPc' = [flapPc EXCEPT ![c] = pc]

Busy(s) == IF s = "v4" THEN "v4busy" ELSE "v6busy"
NextCheck(s) == IF s = "v4" THEN "mid" ELSE "down"

\* The same exit without the deferred wg.Done.
FlapStopForgetsDone(c) ==
  /\ flapPc[c] \in {"up", "mid", "down"}
  /\ interrupted
  /\ FlapGoto(c, "off")
  /\ UNCHANGED <<collectorVars, saverVars, runVars, proc, interrupted,
                 dialPc, subWG, stackPc, lease, flaps, outcomes>>

\* ctx.Done is seen at one of the checks: the deferred wg.Done, and out.
FlapStop(c) ==
  /\ flapPc[c] \in {"up", "mid", "down"}
  /\ interrupted
  /\ FlapGoto(c, "off")
  /\ flapWG' = flapWG \ {c}
  /\ UNCHANGED <<collectorVars, saverVars, proc, interrupted, saveCancelled,
                 runPc, todo, dialWG, printed, otherClnt,
                 dialPc, subWG, stackPc, lease, flaps, outcomes>>

\* The random stay with the lease, between MinInterval and MaxInterval.  (The
\* two are assumed to differ: rand.Int63n(0) panics.)
FlapUp(c) ==
  /\ flapPc[c] = "up"
  /\ ~interrupted
  /\ flaps[c] < MaxFlaps
  /\ FlapGoto(c, "v4")
  /\ flaps' = [flaps EXCEPT ![c] = @ + 1]
  /\ UNCHANGED <<collectorVars, saverVars, runVars, proc, interrupted,
                 dialPc, subWG, stackPc, lease, outcomes>>

\* if dc.d4Lease != nil { err = dc.releasev4(nil) }, and v6 likewise.
FlapRelease(c, s) ==
  /\ flapPc[c] = s
  /\ IF s \in Stack /\ lease[c][s] # NoLease
     THEN Goto(c, s, "release") /\ FlapGoto(c, Busy(s))
     ELSE FlapGoto(c, NextCheck(s)) /\ UNCHANGED stackPc
  /\ UNCHANGED <<collectorVars, saverVars, runVars, proc, interrupted,
                 dialPc, subWG, lease, flaps, outcomes>>

\* Up to three tries with the other client, a nil pointer if the stack held
\* no lease when flapping was prepared.
Release(c, s) ==
  /\ stackPc[c][s] = "release"
  /\ IF otherClnt[c][s]
     THEN /\ \/ Ends(c, s, "released", "releaseOk")
             \/ Ends(c, s, "releaseFailed", "releaseFail")
          /\ UNCHANGED <<collectorVars, saverVars, runVars, proc, interrupted,
                         dialPc, subWG, lease, flapPc, flaps>>
     ELSE Panic("nilClient")

\* The result of a failed release: only releasev4 records the failure.
ReleaseReported(s, ok) == ok \/ s = "v6"

\* The deferred send of the release result, then back to flapFunc.
ReportRelease(c, s) ==
  /\ stackPc[c][s] \in {"releaseOk", "releaseFail"}
  /\ Report(NewResult("release",
                      ReleaseReported(s, stackPc[c][s] = "releaseOk")))
  /\ Goto(c, s, "off")
  /\ FlapGoto(c, NextCheck(s))
  /\ UNCHANGED <<saverVars, runVars, interrupted,
                 dialPc, subWG, lease, flaps, outcomes>>

FlapMid(c) ==
  /\ flapPc[c] = "mid"
  /\ ~interrupted
  /\ FlapGoto(c, "v6")
  /\ UNCHANGED <<collectorVars, saverVars, runVars, proc, interrupted,
                 dialPc, subWG, stackPc, lease, flaps, outcomes>>

\* After StayDownDur: dc.dialAll(nil).
Redial(c) ==
  /\ flapPc[c] = "down"
  /\ ~interrupted
  /\ FlapGoto(c, "redial")
  /\ dialPc' = [dialPc EXCEPT ![c] = "first"]
  /\ UNCHANGED <<collectorVars, saverVars, runVars, proc, interrupted,
                 subWG, stackPc, lease, flaps, outcomes>>

Flap(c) ==
  \/ FlapStop(c)
  \/ FlapUp(c)
  \/ \E s \in {"v4", "v6"} : FlapRelease(c, s)
  \/ \E s \in Stack : Release(c, s) \/ ReportRelease(c, s)
  \/ FlapMid(c)
  \/ Redial(c)

-----------------------------------------------------------------------------
Step ==
  \/ Run
  \/ CtrlC
  \/ CollectStep
  \/ SaveStep
  \/ WriteFails
  \/ ExchangePanics
  \/ \E c \in Client : DialAll(c) \/ Flap(c)
  \/ \E c \in Client, s \in Stack : Dial(c, s)

\* Nothing runs once the process has ended.
Ended == proc # "running" /\ UNCHANGED vars

DoraNext ==
  \/ proc = "running" /\ Step
  \/ Ended

Spec == DoraInit /\ [][DoraNext]_vars

\* The Go scheduler runs every goroutine that can run; a dial ends because
\* the DHCP clients time out.  Nobody is obliged to press Ctrl-C, and writing
\* the lease file is not obliged to fail.
Fairness ==
  /\ WF_vars(proc = "running" /\ Run)
  /\ WF_vars(proc = "running" /\ CollectStep)
  /\ WF_vars(proc = "running" /\ SaveStep)
  /\ \A c \in Client :
       /\ WF_vars(proc = "running" /\ DialAll(c))
       /\ WF_vars(proc = "running" /\ Flap(c))
       /\ \A s \in Stack : WF_vars(proc = "running" /\ Dial(c, s))

FairSpec == Spec /\ Fairness

-----------------------------------------------------------------------------
(* Safety.                                                                 *)

\* Transactions whose outcome is known and whose result is not yet sent.
Unreported ==
  {cs \in Client \X Stack : stackPc[cs[1]][cs[2]] \in PendingPcs}

Executed ==
  outcomes["dialled"] + outcomes["dialFailed"]
    + outcomes["released"] + outcomes["releaseFailed"]

\* No goroutine is left behind the close of the result channel: a send on it
\* would panic (sched.go:430, 530, 652, 677 against sched.go:1028).
NeverSendsOnClosed == proc # "sendOnClosed"

\* The three kinds of WaitGroup count exactly the goroutines at work, so a
\* Wait returns neither too early nor never: subwg the running dials of its
\* dialAll, wg the clients that dial initially, the other wg the clients that
\* flap (sched.go:404, 518, 293, 938-941, 970, 1017-1022).
WaitGroupsExact ==
  \A c \in Client :
    /\ \A s \in Stack : s \in subWG[c] <=> stackPc[c][s] \in DialPcs
    /\ c \in dialWG <=> dialPc[c] # "idle" /\ flapPc[c] = "off"
    /\ c \in flapWG <=> flapPc[c] # "off"

\* No transaction result is lost or counted twice on its way from the client
\* through the channel into the summary (sched.go:427-431 to 849-860).
ResultsConserved ==
  Executed = summary.Total + Len(dialResultCh) + Cardinality(Unreported)

\* When collectResults has returned, the summary has every transaction of the
\* run in Total and every successful dial in Success; it has lost no failure of
\* a dial and no release that succeeded, and shows no more failures and
\* releases than there were (sched.go:843-898, 1028-1029). Where a failed
\* release is counted is not said: the code counts it as released, and for
\* DHCPv6 not as failed, which README.md:128 and dhcplt.go:85 contradict.
FinalSummary ==
  collectorPc = "done" =>
    /\ summary.Total = Executed
    /\ summary.Success = outcomes["dialled"]
    /\ summary.Released \in
         outcomes["released"] .. (outcomes["released"] + outcomes["releaseFailed"])
    /\ summary.Failed \in
         outcomes["dialFailed"] .. (outcomes["dialFailed"] + outcomes["releaseFailed"])

\* If nobody interrupts the run and the second of sleep is long enough, the
\* lease file holds, for every client and stack, exactly the lease the client
\* holds when the initial dialling is over (sched.go:556-560, 942-947).
LeaseFileComplete ==
  /\ SettleTime /\ ~ApplyLease /\ ~interrupted
  /\ saverPc = "saved"
  /\ runPc \in {"saveWait", "initial"}
  => leaseMap = lease

\* A flapping client never releases a stack while one of its dials is still
\* running: dialAll(nil) returns only after both stacks (sched.go:1011, 342).
NoReleaseWhileDialling ==
  \A c \in Client, s, t \in Stack :
    stackPc[c][s] \in ReleasePcs => stackPc[c][t] \notin DialPcs

-----------------------------------------------------------------------------
(* The inductive invariant behind the safety properties: which goroutines  *)
(* can be where in each phase of run.                                      *)

\* A goroutine is launched once: the loops of run visit a client they have
\* not launched yet, and each phase is over when the next begins.
PhaseInv ==
  /\ runPc = "dial" => todo \cap dialWG = {}
  /\ runPc = "flap" => todo \cap flapWG = {}
  /\ dialWG # {} => runPc = "dial"
  /\ flapWG # {} => runPc = "flap"
  /\ chClosed => runPc \in {"collectWait", "returned"}

\* Inside a client: dialAll launches its stacks in order and leaves none
\* behind; flapFunc is in one place at a time.
ClientInv ==
  \A c \in Client :
    /\ dialPc[c] \in {"idle", "first"} => subWG[c] = {}
    /\ dialPc[c] = "second" => subWG[c] \subseteq {StackAt("first")}
    /\ flapPc[c] # "off" => (flapPc[c] = "redial" <=> dialPc[c] # "idle")
    /\ \A s \in Stack :
         stackPc[c][s] \in ReleasePcs <=> flapPc[c] = Busy(s)

\* No goroutine is left to disturb what the collector has summed up.
ClosingInv ==
  /\ collectorPc = "done" => chClosed /\ dialResultCh = <<>>
  /\ runPc = "collectWait" => chClosed
  /\ runPc = "returned" /\ chClosed => collectorPc = "done"
  /\ proc = "exited" => runPc = "returned"

DoraInv ==
  /\ DoraTypeOK
  /\ WaitGroupsExact
  /\ PhaseInv
  /\ ClientInv
  /\ ClosingInv
  /\ NeverSendsOnClosed

-----------------------------------------------------------------------------
(* Liveness, under FairSpec.                                               *)

\* A run without flapping comes to an end by itself.
RunEnds == <>(proc # "running")

\* Ctrl-C ends a flapping run (dhcplt.go:142-145, the checks of flapFunc).
CtrlCStops == interrupted ~> proc # "running"

\* A flapping client that dials again finishes dialling, as long as the save
\* channel, which nobody reads any more, has room (sched.go:505, 556, 1011).
RedialEnds ==
  \A c \in Client : flapPc[c] = "redial" ~>
    (flapPc[c] # "redial" \/ proc # "running")

-----------------------------------------------------------------------------
(* The run implements TestRun: what it executes and what it reports.       *)

Over ==
  IF proc = "running" THEN "no"
  ELSE IF proc = "exited" /\ chClosed THEN "finished" ELSE "aborted"

Abstract == INSTANCE TestRun WITH
  executed <- Executed, reported <- summary.Total, over <- Over

\* Dialling, saving and flapping refine the abstract test run: results are
\* reported one by one, and the run finishes only with all of them reported.
ImplementsTestRun == Abstract!Spec

-----------------------------------------------------------------------------
\* A flapping client can release every lease it holds (README.md:30).
NoNilClient == proc # "nilClient"

=============================================================================
