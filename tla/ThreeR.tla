------------------------------- MODULE ThreeR -------------------------------
(***************************************************************************)
(* The release, renew and rebind branch of Sched.run: the clients are the  *)
(* entries of the lease file, each runs threeRAll, which starts one        *)
(* transaction per enabled stack, and every transaction sends its result   *)
(* to the collector.                                                       *)
(*                                                                         *)
(* Ctrl-C only cancels the context of a running IPv4 renew or rebind,      *)
(* which then fails like any other, so it is not modelled separately.      *)
(***************************************************************************)
EXTENDS ResultCollector, FiniteSets

CONSTANTS
  Client,    \* the keys of the lease file
  Stack,     \* the enabled stacks, EnableV4 and EnableV6
  Act,       \* setup.Action
  V4First    \* StackDelay >= 0: threeRAll starts v4 before v6

ASSUME ThreeRAssumption ==
  /\ IsFiniteSet(Client)
  /\ Stack \subseteq {"v4", "v6"}
  /\ Act \in {"release", "renew", "rebind"}
  /\ V4First \in BOOLEAN

VARIABLES
  leased,    \* the stacks a client has a lease for in the file: d4Lease, d6Lease
  proc,      \* the process: "running", "exited", "fatal" or why it panicked
  runPc,     \* program counter of Sched.run
  todo,      \* clients the loop over ClntList has yet to visit
  threeRWG,  \* the WaitGroup threeRWG
  allPc,     \* program counter of threeRAll, per client
  stackPc    \* program counter of the transaction, per client and stack

threeRVars == <<leased, proc, runPc, todo, threeRWG, allPc, stackPc>>
vars == <<collectorVars, threeRVars>>

ThreeRTypeOK ==
  /\ CollectorTypeOK
  /\ leased \in [Client -> SUBSET {"v4", "v6"}]
  /\ proc \in {"running", "exited", "fatal", "nilLease", "sendOnClosed"}
  /\ runPc \in {"launch", "close", "collectWait", "returned"}
  /\ todo \subseteq Client
  /\ threeRWG \subseteq Client
  /\ allPc \in [Client -> {"idle", "conns", "clients", "first", "second", "wait"}]
  /\ stackPc \in [Client -> [Stack ->
       {"off", "exchange", "ok", "fail", "okReported", "failReported"}]]

\* An entry of the file holds a lease of at least one stack.
ThreeRInit ==
  /\ CollectorInit
  /\ leased \in [Client -> {{"v4"}, {"v6"}, {"v4", "v6"}}]
  /\ proc = "running"
  /\ runPc = "launch"
  /\ todo = Client
  /\ threeRWG = {}
  /\ allPc = [c \in Client |-> "idle"]
  /\ stackPc = [c \in Client |-> [s \in Stack |-> "off"]]

-----------------------------------------------------------------------------
(* Sched.run.                                                              *)

\* threeRWG.Add(1); go c.threeRAll(ctx, threeRWG, act)
Launch(c) ==
  /\ runPc = "launch"
  /\ c \in todo
  /\ todo' = todo \ {c}
  /\ threeRWG' = threeRWG \cup {c}
  /\ allPc' = [allPc EXCEPT ![c] = "conns"]
  /\ UNCHANGED <<collectorVars, leased, proc, runPc, stackPc>>

\* threeRWG.Wait(), and the summary is printed.
WaitAll ==
  /\ runPc = "launch"
  /\ todo = {}
  /\ threeRWG = {}
  /\ runPc' = "close"
  /\ UNCHANGED <<collectorVars, leased, proc, todo, threeRWG, allPc, stackPc>>

\* The close forgotten: the collector waits for results for ever.
CloseForgotten ==
  /\ runPc = "close"
  /\ runPc' = "collectWait"
  /\ UNCHANGED <<collectorVars, leased, proc, todo, threeRWG, allPc, stackPc>>

\* close(sch.dialResultCh)
CloseChannel ==
  /\ runPc = "close"
  /\ CloseResults
  /\ runPc' = "collectWait"
  /\ UNCHANGED <<leased, proc, todo, threeRWG, allPc, stackPc>>

\* otherTG.Wait()
WaitCollector ==
  /\ runPc = "collectWait"
  /\ collectorPc = "done"
  /\ runPc' = "returned"
  /\ UNCHANGED <<collectorVars, leased, proc, todo, threeRWG, allPc, stackPc>>

\* main returns when run has, and with it every goroutine ends.
Exit ==
  /\ runPc = "returned"
  /\ proc' = "exited"
  /\ UNCHANGED <<collectorVars, leased, runPc, todo, threeRWG, allPc, stackPc>>

Run ==
  \/ \E c \in Client : Launch(c)
  \/ WaitAll
  \/ CloseChannel
  \/ WaitCollector
  \/ Exit

CollectStep == (CollectResult \/ CollectorExit) /\ UNCHANGED threeRVars

-----------------------------------------------------------------------------
(* threeRAll.                                                              *)

GotoAll(c, pc) == allPc' = [allPc EXCEPT ![c] = pc]

\* The EtherConn of every enabled stack is made from the lease of that stack,
\* before anything asks whether there is one.
MakeConns(c) ==
  /\ allPc[c] = "conns"
  /\ IF Stack \subseteq leased[c]
     THEN GotoAll(c, "clients") /\ UNCHANGED proc
     ELSE proc' = "nilLease" /\ UNCHANGED allPc
  /\ UNCHANGED <<collectorVars, leased, runPc, todo, threeRWG, stackPc>>

\* createV4OtherClnt and createV6OtherClnt, for the stacks with a lease.
MakeClients(c) ==
  /\ allPc[c] = "clients"
  /\ GotoAll(c, "first")
  /\ UNCHANGED <<collectorVars, leased, proc, runPc, todo, threeRWG, stackPc>>

\* log.Fatal when one of them fails.
MakeClientsFails(c) ==
  /\ allPc[c] = "clients"
  /\ proc' = "fatal"
  /\ UNCHANGED <<collectorVars, leased, runPc, todo, threeRWG, allPc, stackPc>>

\* The stack started at the given position.
StackAt(pos) == IF (pos = "first") = V4First THEN "v4" ELSE "v6"

After(pos) == IF pos = "first" THEN "second" ELSE "wait"

\* if dc.d4OtherClnt != nil { go ... }, and v6 likewise.
StartStack(c, pos) ==
  /\ allPc[c] = pos
  /\ GotoAll(c, After(pos))
  /\ IF StackAt(pos) \in Stack \cap leased[c]
     THEN stackPc' = [stackPc EXCEPT ![c][StackAt(pos)] = "exchange"]
     ELSE UNCHANGED stackPc
  /\ UNCHANGED <<collectorVars, leased, proc, runPc, todo, threeRWG>>

\* d4 and d6 are the clients of the DORA branch, nil here: subwg.Wait() is
\* skipped and threeRWG.Done() runs while the transactions go on.
AllReturns(c) ==
  /\ allPc[c] = "wait"
  /\ GotoAll(c, "idle")
  /\ threeRWG' = threeRWG \ {c}
  /\ UNCHANGED <<collectorVars, leased, proc, runPc, todo, stackPc>>

ThreeRAll(c) ==
  \/ MakeConns(c)
  \/ MakeClients(c)
  \/ MakeClientsFails(c)
  \/ StartStack(c, "first")
  \/ StartStack(c, "second")
  \/ AllReturns(c)

-----------------------------------------------------------------------------
(* releasev4, renewOrRebindv4 and releaseOrRenewV6.                        *)

Goto(c, s, pc) == stackPc' = [stackPc EXCEPT ![c][s] = pc]

\* The exchange succeeds, or fails (after three tries where it is repeated).
\* For a rebind the DHCPv6 side sends a RELEASE: only a renew is a RENEW.
Exchange(c, s) ==
  /\ stackPc[c][s] = "exchange"
  /\ \E pc \in {"ok", "fail"} : Goto(c, s, pc)
  /\ UNCHANGED <<collectorVars, leased, proc, runPc, todo, threeRWG, allPc>>

\* What the result says: releaseOrRenewV6 always reports a release that
\* succeeded, the IPv4 functions report the action and its outcome.
ReportedAction(s) == IF s = "v6" THEN "release" ELSE Act
ReportedOk(s, ok) == ok \/ s = "v6"

NewResult(s, ok) ==
  [action |-> ReportedAction(s), ok |-> ReportedOk(s, ok),
   start |-> 0, finish |-> 1]

\* The deferred send, which panics on a closed channel.
ReportOutcome(c, s) ==
  \E ok \in BOOLEAN :
    /\ stackPc[c][s] = IF ok THEN "ok" ELSE "fail"
    /\ IF chClosed
       THEN /\ proc' = "sendOnClosed"
            /\ UNCHANGED <<collectorVars, stackPc>>
       ELSE /\ SendResult(NewResult(s, ok))
            /\ Goto(c, s, IF ok THEN "okReported" ELSE "failReported")
            /\ UNCHANGED proc
    /\ UNCHANGED <<leased, runPc, todo, threeRWG, allPc>>

Transact(c, s) == Exchange(c, s) \/ ReportOutcome(c, s)

-----------------------------------------------------------------------------
Step ==
  \/ Run
  \/ CollectStep
  \/ \E c \in Client : ThreeRAll(c)
  \/ \E c \in Client, s \in Stack : Transact(c, s)

\* Nothing runs once the process has ended.
Ended == proc # "running" /\ UNCHANGED vars

ThreeRNext ==
  \/ proc = "running" /\ Step
  \/ Ended

Spec == ThreeRInit /\ [][ThreeRNext]_vars

\* Every goroutine that can run does: the DHCP clients have timeouts.
Fairness ==
  /\ WF_vars(proc = "running" /\ Run)
  /\ WF_vars(proc = "running" /\ CollectStep)
  /\ \A c \in Client :
       /\ WF_vars(proc = "running" /\ ThreeRAll(c))
       /\ \A s \in Stack : WF_vars(proc = "running" /\ Transact(c, s))

FairSpec == Spec /\ Fairness

-----------------------------------------------------------------------------
Transaction == Client \X Stack
Pc(t) == stackPc[t[1]][t[2]]

Reported == {t \in Transaction : Pc(t) \in {"okReported", "failReported"}}
FailedV4 == {t \in Reported : t[2] = "v4" /\ Pc(t) = "failReported"}
Failed == {t \in Reported : Pc(t) = "failReported"}
Succeeded == Reported \ Failed
SucceededV4 == {t \in Succeeded : t[2] = "v4"}

ActionCount(action) ==
  CASE action = "release" -> summary.Released
    [] action = "renew" -> summary.Renewed
    [] OTHER -> summary.Rebinded

\* Whatever the interleaving, the collector ends with a summary of the results
\* that were sent before the channel was closed, none lost and none counted
\* twice: the total is theirs, no dial is among them, the three actions
\* together count no more than them and every success among them, and no
\* failure is invented (sched.go:843-898, 1028). Which failures are counted,
\* and under which action a success is, is what SuccessesCounted is about.
SummaryOfReported ==
  collectorPc = "done" =>
    /\ summary.Total = Cardinality(Reported)
    /\ summary.Success = 0
    /\ summary.Released + summary.Renewed + summary.Rebinded
         \in Cardinality(Succeeded)..Cardinality(Reported)
    /\ ActionCount(Act) \in Cardinality(SucceededV4)..Cardinality(Reported)
    /\ summary.Failed \in Cardinality(FailedV4)..Cardinality(Failed)

\* The run always comes to an end, exited or panicked: no result sent too
\* late and no lost client leaves it hanging (sched.go:919, 1028-1029).
ThreeREnds == <>(proc # "running")

-----------------------------------------------------------------------------
\* A run that ends normally reports every release, renew or rebind it did:
\* "one DORA or one release is counted as one transaction" (README.md:127).
AllReported ==
  proc = "exited" => Reported = Transaction

\* The count of the action of the run is the number of its transactions that
\* succeeded: "Success renew:%d" (dhcplt.go:83). The DHCPv6 ones are reported
\* as releases, and as successes whatever their outcome (sched.go:666-678).
SuccessesCounted ==
  collectorPc = "done" => ActionCount(Act) = Cardinality(Succeeded)

=============================================================================
