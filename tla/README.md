# Verification of dhcplt

dhcplt is a DHCPv4/DHCPv6 load tester: it emulates many clients that obtain
leases from a server, optionally release and re-establish them ("flapping"),
save the leases to a file, and in a later run release, renew or rebind what the
file holds.  It is a program of goroutines, bounded channels and WaitGroups;
this project models that machinery in TLA+, checks it with TLC on small
instances and proves its central invariants with TLAPS.

## 1. The system

| Component | State | Operations | Talks to |
|---|---|---|---|
| Scheduler, DORA run (`sched.go` run, dialAll, dialv4, dialv6, flapFunc, releasev4, releaseOrRenewV6) | program counters of the goroutines, three kinds of WaitGroup, each client's leases and its second ("other") DHCP clients | dial every client, wait, stop the saver, print, flap, close the result channel, wait for the collector | collector and saver over channels; DHCP servers; `handleCtrlC` through a context |
| Scheduler, 3R run (threeRAll, renewOrRebindv4, the releases) | clients read from the lease file, `threeRWG` | start one transaction per client and stack, close, wait | collector over the result channel |
| Result collector (collectResults, resultSummary) | `dialResultCh`, `summary`, begin and end of the test | fold one result at a time until the channel is closed and empty | every transaction |
| Lease saver (saveLeaseToFiles) | `saveV4Chan`, `saveV6Chan`, `leaseMap`, the file | merge leases into one entry per client; on the end of its context write the file | successful dials; the scheduler, which cancels it |
| DHCP exchanges (dialv4, dialv6) | messages in flight, timers of the DHCP libraries | Discover/Solicit to ACK/Reply, retries, checks of the answer | servers, relay |
| Client generation (`setup.go`, NewSched) | MAC address and VLAN list of the last client, `ClntList` | next MAC, next VLANs, exclusions, option strings, Router Solicitation, one `DClient` each | configuration, ND proxy |
| Lease file (`lease.go`, `v4lease.go`) | encoded map of leases | load, filter, build release messages, apply to the interface | saver, 3R run |
| Packet connection pair (`conpair`) | two bounded channels, two timers each | read, write, deadlines, close | DHCPv6 client, relay |
| DHCPv6 relay (`dhcpv6relay`) | none besides its connections | wrap client messages, unwrap replies | conpair, network |
| ND proxy (`ndproxy.go`) | table of targets | answer neighbour solicitations | packet relay |
| Configuration, `main`, logging | settings | parse, validate, start the run, Ctrl-C | all |

Three behaviours are hard to get right and hard to test.

* **Who may still send when a channel is closed or abandoned.**  `run` closes
  `dialResultCh` and stops the saver; only WaitGroup bookkeeping spread over
  five functions keeps a transaction from sending on the closed channel or from
  blocking on a channel nobody reads.
* **What the numbers mean.**  A summary is only right if every result reaches
  the collector once and is counted under the right action, in every order of
  arrival.
* **How the run ends**: by itself, by Ctrl-C at any moment, with dials,
  releases and the saver at any point of their work.

What makes each component correct:

* *DORA run*: every transaction is reported; no send on the closed channel;
  WaitGroups neither too early nor stuck; no release while the client's own
  dial runs; a run without flapping ends; Ctrl-C ends the others.
* *3R run*: the same for its transactions.
* *Collector*: the statistics are those of the set of results received.
* *Saver*: the file holds the leases the clients hold.
* *Exchanges*: a lease is accepted only if the answer carries what was asked
  for, and comes from the server and the dial it was asked of; a lost message is
  repeated or ends as a failure.
* *Client generation*: the n-th client has the n-th identity, no two share one.
* *Lease file*: it lists what servers hold; a release run gives all of it back,
  a renew run none.
* *conpair / relay*: packets in order, none lost, repeated or invented; a
  deadline ends a read; the agent changes no message.
* *ND proxy*: an address is answered for with its own client's MAC and VLANs.
* *Configuration*: settings that are accepted let the clients be made.

## 2. Modules

| Module | Models | Used by |
|---|---|---|
| `ResultSummary` | `dialResult`, `resultSummary`, the loop body of collectResults, as pure operators | `ResultCollector` |
| `ResultCollector` | `dialResultCh` and the goroutine collectResults | `Dora`, `ThreeR`, `ResultStats` |
| `LeaseSaver` | saveLeaseToFiles and its channels | `Dora`, `LeaseLife` |
| `Dora` | `Sched.run` for DORA and everything it starts | run directly, the proofs |
| `TestRun` | the abstract promise of a load test | refined by `Dora` |
| `ThreeR` | `Sched.run` for release, renew, rebind | `MCThreeR` |
| `ResultStats` | the collector fed with arbitrary results, and a reference | run directly |
| `ConPair` | both ends of a `PacketConnPair` | `MCConPair` |
| `PacketQueue` | the abstract promise of a packet connection | refined by `ConPair` |
| `Relay` | the relay agent between its pair and the network | `DialV6` |
| `DialV6` | dialv6 message by message, with the servers and the network | run directly |
| `LeaseExchange` | the abstract promise of a four-message exchange | refined by `DialV6` |
| `LeaseLife` | consecutive runs of the program over one lease file | run directly, the proofs |
| `ClientSetup` | testSetup.init, client generation, NewSched, the ND proxy | `MCClientSetup` |
| `ResultCollector_proofs` | lemmas about the statistics, the result channel and what was sent over it | the proofs of `Dora`, `ThreeR` and `ResultStats` |
| `Dora_proofs` | theorems about the DORA run: its control, the lease file, its results | |
| `ResultStats_proofs` | theorems about the statistics | |
| `ThreeR_proofs` | theorems about the 3R run | |
| `ConPair_proofs` | theorems about the pair | |
| `DialV6_proofs` | theorems about the DHCPv6 dial over relay and network | |
| `LeaseLife_proofs` | theorems about consecutive runs over one lease file | |
| `ClientSetup_proofs` | theorems about the setup, the clients made and the proxy | |

### Dora

The goroutines and their program counters:

| Code | Model |
|---|---|
| `Sched.run`, sched.go:902-1030 | `runPc`, `todo` (the range loop over `ClntList`), actions of `Run` |
| dialAll, 290-345, in a goroutine or called by flapFunc | `dialPc[c]`: `DialStack(c, pos)`, `DialAllWait(c)` |
| dialv4, 517-579 and dialv6, 403-515 | `stackPc[c][s]`: `ExchangeOk`/`ExchangeFails`/`ExchangePanics`, `ApplyOnInterface`, `HandToSaver`, `ReportDial`, `DialDone` |
| flapFunc, 969-1013 | `flapPc[c]`: `FlapUp`, `FlapRelease`, `FlapMid`, `Redial`, `FlapStop` |
| releasev4, 619-659 and releaseOrRenewV6, 661-695, called by flapFunc | `stackPc[c][s]`: `Release`, `ReportRelease` |
| collectResults, 843-898 | `CollectStep` |
| saveLeaseToFiles, lease.go:269-308 | `SaveStep`, `WriteFails` |
| handleCtrlC, dhcplt.go:141-145 | `CtrlC` |
| `subwg`, the two `wg` | the sets `subWG[c]`, `dialWG`, `flapWG` of goroutines that have not called Done |
| the end of `main`, `log.Fatalf`, a panic | `proc` leaves `"running"`: no goroutine moves again |

The deferred functions of dialv4 and dialv6 run in reverse order, so a dial
sends its result before it calls Done: `ReportDial` comes before `DialDone`.
A send on a channel is enabled while the buffer has room, a send on the closed
result channel panics.  A release happens inside flapFunc and uses the client
created at sched.go:951-966; a nil one panics.

A DHCP exchange is one step that yields a lease, fails, or for DHCPv6 ends the
process: checkResp dereferences the missing IA of an answer (sched.go:411, 416).
`DialV6` opens the DHCPv6 exchange up.  A lease is the
ordinal of the exchange that obtained it for its client and stack, which is
enough to tell a fresh lease in the file from a stale one; the pointer stays as
it is when a dial or a release fails or succeeds, as in the code.  `outcomes`
is a history variable: how many transactions ended in each way.

Sleeps are steps without a duration.  The second slept before the saver is
stopped is the exception: with `SettleTime = TRUE` it is long enough for both
consumers to have emptied their channels, with `FALSE` nothing is assumed.
`FlapUp` assumes `MinInterval` and `MaxInterval` differ.

### ThreeR

One client per entry of the lease file, each with a lease of one stack or both
(`leased`, chosen at the start).  `MakeConns` dereferences the lease of every
enabled stack (sched.go:195-204) and panics if there is none.  `AllReturns`
does not wait for the transactions: the condition of sched.go:283 reads `d4`
and `d6`, which only the DORA branch sets.  The model includes what the results
say rather than what happened: releaseOrRenewV6 reports every DHCPv6
transaction as a successful release.

### ResultSummary, ResultCollector, LeaseSaver

Time is a natural number; Go's begin and end of the test are the fields
`begin` and `end` of the summary.  `Collect` is the loop body, decomposed into
`Span` (duration), `Count` (the two switches), `DialTimes` (successful dials)
and `ShowShortest` (the placeholder).  The saver is not told which select case
is taken: with its context done and leases queued it may do either.

### TestRun

Transactions are executed, reported one at a time, and the run finishes only
with everything reported, or aborts.  `Dora` maps `executed` to the outcomes so
far, `reported` to `summary.Total`, `over` to the end of the process: an exit
after the result channel was closed finishes; a fatal error, a panic or the
early return of sched.go:955-964 aborts.

### ConPair, PacketQueue

An end has the channel its packets arrive in, two timers and two callers, one
that reads and one that writes.  Beginning a read or write and the select case
that ends it are separate steps, so a peer may write, close or let a deadline
expire in between.  A timer is `"never"` (the largest duration), `"set"` or
`"off"`, and `tick` says whether its channel holds an expiry nobody has taken;
this is what timers do in Go before 1.23, which go.mod asks for.  `SetDeadline`
models `if !Stop() { <-C }`: with a timer that is off and whose expiry a read
or write has consumed, the caller waits for ever (`"stuck"`).  `ReadClosed` is
the zero value of a closed channel, returned as an empty packet without error.
A write to a closed end and a second close panic.  `PacketQueue` is the promise:
per direction a bounded FIFO; the refinement maps what was sent to
`delivered[e] \o ch[e]`.  Three history variables serve the properties: what was
read, whether a read came back empty, and who has called Close.

### Relay, DialV6, LeaseExchange

`Relay` has the client's side of the network in both forms the code knows: the
raw connection, or the pair with the agent's two goroutines behind it
(`relayed`, from `V6MsgType`).  In `NewSched` nobody closes the pair or sets a
deadline on it, so here it is two bounded channels; that they are queues is what
`ConPair` shows.  `wire` is the set of packets ever on the network and nothing
leaves it: reading one again is a repetition or a late arrival, never reading
one is a loss, and sets have no order.

`DialV6` is one client that dials again and again, as flapping clients do, over
one nclient6 client: `Send`, `Timeout` and `Receive` are its SendAndRead, with a
fresh transaction id per message; what has another id or type is dropped.
`Take` is what dialv6 does with an answer: checkResp, then the Request made from
the Advertise, or the lease made from the Reply.  An IA is absent, empty (a
status code) or assigned; checkResp tells the three apart by failing on the
second and dereferencing nil on the first.  Servers answer each message at most
once, as they please, a Request only if it names them or no server.

`LeaseExchange` knows dials that choose a server, servers that grant and dials
that are bound.  Its steps are the Request built, the Reply made and the lease
taken.

### LeaseLife

Runs of the program follow each other; a run is a DORA run with `savelease` or
a release, renew or rebind run.  The DORA run keeps the saver (`LeaseSaver`, the
module `Dora` uses), the flapping and the end of the run; dials are single steps.  The write of
the file is two steps, since os.WriteFile truncates it first.  With `MayFlap` the run may
go on after the write (`StartFlapping`), for every client, as in the code: each
client releases its IPv4 and its IPv6 lease, the ones on file included, and dials again
(`cycle`, `FlapOn`); those dials queue their leases for a saver that has ended, so they
are never saved and a dial waits when the channel is full.  Only Ctrl-C ends the
flapping.  `Crash` ends a
run anywhere and stands for a panic, log.Fatal, a kill and a run that returns
with transactions under way.  A transaction sends its message (again), may see
it answered, and returns confirmed or not.  Messages stay on the wire for ever, so
that one run's release may be handled during a later one.

The client numbers its leases (`granted`: the run and the address of each), but a server
knows only who a client is, the stack and the address (`Binding`), and may grant the same address
again.  A late release therefore takes away the lease granted since, as
with real servers.  Servers hold the
identity associations of a lease separately, because a release gives back the
ones it names.  Answers that are lost after the server has granted the lease are left to
`DialV6`.  The history variable `clean` says that every run so far has ended by
itself; `kept` that only renew runs have used the file since it was written and no
release, old or new, names an address on it.

### ClientSetup

MAC addresses and VLAN IDs are numbers below `MacSize` and `VLANSize`; two tags
are one number with the inner tag in the low digits, which is how
`myaddr.IncreaseVLANIDs` counts.  `InitSetup` includes the line that empties
`ExcludedVLANs`, so exclusions exist only for callers that build a `testSetup`
themselves, as the repository's tests do (`direct`).  `Acceptable` has the checks of
init that depend on the settings modelled, those of `FlapNum` and of the flapping
intervals among them.  `GenClient` is one turn of the
loop of genClientConfigurations, `NewClient` one of NewSched, preceded by the
Router Solicitation when the settings ask for it.  Clients with the same id
overwrite each other in `ClntList`, and clients with the same MAC in the table of
the proxy, as in the code.

## 3. Runs

| Run | Question | Instance |
|---|---|---|
| `dora_dial` | is a plain run complete and finite, and the lease file with it? | 2 clients, both stacks, result channel of 2, save channels of 1, leases saved, no flapping, no Ctrl-C |
| `dora_flap` | do flapping, applying, saving and Ctrl-C fit together, and keep the promise of `TestRun`? | 1 client, both stacks, v6 first, 1 flap, result channel of 1, save channels of 2, nothing assumed about the second of sleep |
| `result_stats` | are the statistics exact? | every sequence of 3 results, times 0..2 |
| `three_r` | what does a 3R run report, and does it end? | 2 clients, both stacks, renew, result channel of 1, every lease file |
| `con_pair` | is a pair two reliable bounded queues, whatever times out or closes? | capacity 1, 2 packets one way, 1 the other, deadlines on a writer and a reader |
| `dial_v6` | can a lease come from the wrong server, dial or message, and does a dial end? | 2 servers, with and without agent, 2 dials, 2 transmissions each, one faulty answer, pair of capacity 1 |
| `lease_life` | does the file agree with the servers over several runs? | 1 client, both stacks, 1 address that may be granted again, 3 runs of any kind, with flapping, crash and Ctrl-C anywhere, 2 leases per stack, save channels of 1 |
| `client_setup` | is every client the right one, and told apart from the others? | up to 3 clients, 8 MAC addresses, 4 VLAN IDs, all starts, steps and exclusions given in `MCClientSetup` |

All eight pass; they have between 10 000 and 6 400 000 distinct states.

What the passing runs show:

* `DoraInv` is an invariant, with the `WaitGroupsExact`, phase and client
  structure of section 4; the proof needed it to be checked first.
* `ResultsConserved`: at every moment the transactions executed are those in
  the summary, those in the channel and those a goroutine is about to send.
* `FinalSummary`: once the collector is done, Total and Success are the history's
  counts.  Released has every successful release and nothing but releases, Failed every
  failed dial and nothing that did not fail.  Where between these bounds a failed
  release ends up is not claimed: the code counts it as released and, for DHCPv6,
  not as failed, against README.md:128 and dhcplt.go:85 (section 5).
* `LeaseFileComplete`: without Ctrl-C and with the second long enough, the
  written map equals the clients' leases, for both stacks, through channels
  smaller than the number of leases.  With leases applied to the interface a
  failed application ends before the save, so the property is about runs that
  do not apply.
* `NoReleaseWhileDialling`, `NeverSendsOnClosed`: see section 1.
* `RunEnds`, `CtrlCStops`, `RedialEnds`, `ThreeREnds`: the runs end, each under
  the configuration given; see section 5 for the configurations where the code
  does not end.
* `ImplementsTestRun`: `Dora` refines `TestRun`.
* `CountersExact`, `TimesExact`, `ShortestExact`: the incremental statistics
  are those of a reference that sees all results at once.  The counter of a release, renew or
  rebind lies between its successes and all of its transactions.  The average covers
  the last five dials only (`AvgWindow`; 2 in the run).  `ShortestExact` is about
  runs whose first result is a successful dial; in others the code shows 0, which
  no property calls right.
* `SummaryOfReported`: a 3R summary has exactly as many transactions as were
  reported in time and no dial.  The three counters of actions together lie between
  the successes and all that was reported, that of the run's action has its IPv4
  successes, Failed the IPv4 failures; none takes in anything not reported.  The DHCPv6
  side leaves the rest open: `successes_counted` shows what it does.
* `ImplementsPacketQueue`, `EndIsFinal`: no timeout, close or expiry loses,
  repeats or reorders a packet, and an empty read is the end of the stream.
  `NoStaleTimeout`: an expired deadline does not outlive the next one.
  `PanicsOnlyAfterOwnClose`: closing one's end never crashes the peer.
  `DeadlineEnds`: a deadline ends the wait it was set for.
* `ImplementsLeaseExchange`: with late, repeated and lost messages, two servers and
  successive dials, a dial turns to one server, only that one commits a lease for
  it, and the lease taken was committed for this dial.  `LeaseComplete`: it has
  all that was needed.  `PanicsOnlyOnOmission`: the nil dereferences of checkResp
  and of recvNetwork need a server that leaves out what it was asked for; a
  refusal with a status code does not suffice.  `RelayTransparent`: the agent
  forwards what the client built and returns what a server sent.  `DialEnds`: a
  dial ends; the exception it names is a client blocked on the pair of an agent
  that has given up after an error.
* `FileIsOneRun`: a file that loads never mixes leases of two runs and lists
  nothing a server has not granted.  `HeldIsOnFile`: after runs that were not
  disturbed and did not flap, nothing a server holds is missing from it.  `ReleaseIsComplete`: a
  DHCPv6 release that is confirmed, in a release run or while flapping, leaves no part
  of the lease with a server until the client dials again, even if
  the answer belongs to an earlier transmission or the address had been released before.
  `RenewCostsNothing`: renew runs, however disturbed, leave every lease on file with the
  servers.  What does give leases up is named: a release run, the DHCPv6 side of a
  rebind run, the flapping of the run that wrote the file, and a release from before the
  file that names an address granted again.
* `NthClient`: the n-th client has the n-th address from the start and the n-th VLAN
  number that is not excluded, across the carry between two tags; it says nothing of
  the VLANs of a user who excludes some, since init forgets them.
  `ClientsDistinct`, `AnswersFit`: no client is lost from `ClntList`, none
  answered for with another's MAC or tags, given MAC addresses (or tags, for the
  first) that differ.  `FailsForAReason`: each failure of the setup has the cause
  it reports; client generation gives up on VLANs only if too few are allowed or as many
  in a row are excluded as it tries; and accepted settings always have a message type.

**Bounds.**  Two clients suffice for the interactions of the code: clients share
only the channels, the WaitGroups and the phases of `run`, and two contend for
all of them in `dora_dial` and `three_r`.  In `dora_flap` it is the two stacks of one client
that contend for a result channel of one; for several flapping clients, `DoraInv` and what
follows from it are proved (section 4).  The channel capacities are at most the number of transactions, so
that full, empty and part-full channels all occur; the code's 1024 and 8
have the same three cases.  `MaxFlaps = 1` lets a client dial, release both
stacks and dial again; a second flap repeats the cycle from the same control
state (only a client without its second DHCP client behaves differently then:
`no_nil_client` has two flaps).  When its flaps are used up a client stays up
until Ctrl-C.  Three results are the least that distinguishes a first, a middle
and a last one for `begin`, `end` and a window of two.  Constants of the time domain are small numbers in the same
order as in the code.

A pair of capacity one is empty or full, and with two packets one is queued while the
other waits; both kinds of operation have a deadline at one end, and the code of the
ends is the same (`Timed`).  In `dial_v6` two transmissions give a
late answer to the first and a lost second, two dials a late answer to an
earlier one, two servers a wrong one; one faulty answer is enough to end the
process or the dial, and a client needs an address, or an address and a prefix
(`Needs`): checkResp treats the two alike and stops at the first fault.  Three runs
are a DORA, something done with its file, and a run that finds the result; two leases
and one address make a server grant the same address again, after a release run or in
the flapping, which is when an old release does harm.  Two addresses, and several
clients over one file, are in the proofs; two clients that contend for the saver are in
`dora_dial`.  In
`client_setup` the spaces are small enough to run out in three clients, ten
tries of incvidFunc are two (`VLANTries`) so that both passing and failing to
pass a row of exclusions occur.

Symmetry is used for clients only in runs that check no
liveness property.

**Fairness.**  Weak fairness of every goroutine: the Go scheduler eventually runs
what can run, and every DHCP exchange ends because nclient4 and nclient6 have
timeouts and bounded retries.  In `ConPair` a select with a ready case takes one
and a deadline that was set expires; nobody is obliged to read, write or close.
In `DialV6` the client sends, times out, and recvAccess takes what is queued;
the network, the servers and recvNetwork owe nothing.  The other modules
have no liveness property.  The DHCP server's answers, Ctrl-C and the
failure of a file write are under no fairness.  Deadlock is checked in every
passing run: a process that has ended stutters in an action of its own, a flapping client waits for Ctrl-C, which stays enabled.

## 4. Theorems

Proved for every finite set of clients, any enabled stacks, all channel
capacities and all settings:

| Theorem | Module | Says |
|---|---|---|
| `TypeCorrect` | `Dora_proofs` | `Spec => []DoraTypeOK` |
| `Invariance` | `Dora_proofs` | `Spec => []DoraInv` |
| `NoLateSend` | `Dora_proofs` | `Spec => []NeverSendsOnClosed` |
| `WaitGroupsCorrect` | `Dora_proofs` | `Spec => []WaitGroupsExact` |
| `ReleaseAfterDial` | `Dora_proofs` | `Spec => []NoReleaseWhileDialling` |
| `LeaseFile` | `Dora_proofs` | `Spec => []LeaseFileComplete` |
| `Conservation` | `Dora_proofs` | `Spec => []ResultsConserved` |
| `SummaryFinal` | `Dora_proofs` | `Spec => []FinalSummary` |
| `Refinement` | `Dora_proofs` | `Spec => ImplementsTestRun` |

for every lease file, action and result channel of a 3R run:

| Theorem | Module | Says |
|---|---|---|
| `ThreeRInvariance` | `ThreeR_proofs` | `Spec => []ThreeRInv` |
| `ThreeRTypeCorrect` | `ThreeR_proofs` | `Spec => []ThreeRTypeOK` |
| `ReportedSummed` | `ThreeR_proofs` | `Spec => []SummaryOfReported` |

for every number of results, any times, size of the window and result channel:

| Theorem | Module | Says |
|---|---|---|
| `StatsInvariance` | `ResultStats_proofs` | `Spec => []StatsInv` |
| `StatsCounted` | `ResultStats_proofs` | `Spec => []CountersExact` |
| `StatsTimed` | `ResultStats_proofs` | `Spec => []TimesExact` |
| `StatsShortest` | `ResultStats_proofs` | `Spec => []ShortestExact` |

for every number of MAC addresses, VLAN IDs, tries and clients, every start, step and
set of exclusions:

| Theorem | Module | Says |
|---|---|---|
| `ClientSetupInvariance` | `ClientSetup_proofs` | `Spec => []ClientSetupInv` |
| `ClientSetupTypeCorrect` | `ClientSetup_proofs` | `Spec => []ClientSetupTypeOK` |
| `NthClientGenerated` | `ClientSetup_proofs` | `Spec => []NthClient` |
| `FailuresExplained` | `ClientSetup_proofs` | `Spec => []FailsForAReason` |
| `ClientsKeptApart` | `ClientSetup_proofs` | `Spec => []ClientsDistinct` |
| `ProxyAnswersFit` | `ClientSetup_proofs` | `Spec => []AnswersFit` |

for every set of servers, depth of the pair, number of tries, dials and faulty
answers, and whatever the client needs:

| Theorem | Module | Says |
|---|---|---|
| `DialInvariance` | `DialV6_proofs` | `Spec => []DialInv` |
| `DialTypeCorrect` | `DialV6_proofs` | `Spec => []DialV6TypeOK` |
| `LeasesComplete` | `DialV6_proofs` | `Spec => []LeaseComplete` |
| `OmissionPanics` | `DialV6_proofs` | `Spec => []PanicsOnlyOnOmission` |
| `AgentTransparent` | `DialV6_proofs` | `Spec => []RelayTransparent` |
| `DialRefinement` | `DialV6_proofs` | `Spec => ImplementsLeaseExchange` |

for every set of clients, stacks and addresses, with or without flapping, any channel
capacity and any number of runs and leases:

| Theorem | Module | Says |
|---|---|---|
| `LeaseLifeInvariance` | `LeaseLife_proofs` | `Spec => []LeaseLifeInv` |
| `LeaseLifeTypeCorrect` | `LeaseLife_proofs` | `Spec => []LeaseLifeTypeOK` |
| `FileOfOneRun` | `LeaseLife_proofs` | `Spec => []FileIsOneRun` |
| `HeldOnFile` | `LeaseLife_proofs` | `Spec => []HeldIsOnFile` |
| `ReleaseComplete` | `LeaseLife_proofs` | `Spec => []ReleaseIsComplete` |
| `RenewsCostNothing` | `LeaseLife_proofs` | `Spec => []RenewCostsNothing` |

and for every set of packets, every capacity and any operations with deadlines:

| Theorem | Module | Says |
|---|---|---|
| `PairInvariance` | `ConPair_proofs` | `Spec => []ConPairInv` |
| `PairTypeCorrect` | `ConPair_proofs` | `Spec => []ConPairTypeOK` |
| `DeadlinesFresh` | `ConPair_proofs` | `Spec => []NoStaleTimeout` |
| `EmptyReadIsEnd` | `ConPair_proofs` | `Spec => []EndIsFinal` |
| `PeerNeverPanics` | `ConPair_proofs` | `Spec => []PanicsOnlyAfterOwnClose` |
| `PairRefinement` | `ConPair_proofs` | `Spec => ImplementsPacketQueue` |

*Assumptions.*  Those of the modules: `Client` is finite, `Stack` is a subset of
v4 and v6, capacities are positive, `FlapNum` is between 0 and the number of
clients (conf.go:203), the time constants are natural numbers, and the moving
average has room for at least one value.  For the pair the capacity is positive;
the number of packets written in each direction is bounded by `MaxPackets`, an
arbitrary natural number.  The dial assumes a finite set of servers, at least one try
and positive depth of the pair; `MaxDials`, `MaxFaults` and `MaxRuns` are arbitrary
natural numbers.  The statistics assume times below the two placeholders of the
code, the largest duration and the far future.  The clients assume at least one MAC
address, VLAN ID and try, and are about every set `Setups` of settings.

*Argument.*  "Nobody sends on the closed channel" is not inductive.  What makes
it true is a chain through every level of the program: the channel is closed
only after `runPc` has left the dialling and flapping phases (`PhaseInv`); these
are left only when `dialWG` and `flapWG` are empty; a client is in one of them
exactly while its dialAll or flapFunc is at work (`WaitGroupsExact`); dialAll
returns only when `subWG` is empty, and `subWG` holds exactly the stacks whose
dial has not called Done (`WaitGroupsExact`, with `ClientInv` for the order in
which dialAll starts them); a release is in progress exactly while flapFunc is
in the corresponding place (`ClientInv`).  So when the channel is closed every
client is idle and no program counter is before a send.  `ClosingInv` adds what
the collector's end depends on.  `DoraInv` is the conjunction and is inductive;
`ReleaseAfterDial` follows from it: a releasing client is in flapFunc outside
`redial`, hence its dialAll is idle, hence its `subWG` is empty, hence none of
its stacks dials.

The invariance proof first proves types action by action (`TypeNext`), then the
control invariant for the steps of `run` (`RunInv`), of dialAll and dialv4/v6
(`DialInv`), of flapFunc (`FlapInv`) and of the rest (`OtherInv`).  `DialOpen`
and `ReleaseOpen` are the two lemmas that carry the chain above to the channel:
whoever is about to send finds it open.

*The lease file.*  `LeaseFileComplete` compares the map of the saver with the
leases of the clients at one moment; it holds because of where a lease can be
before.  `LeaseSafe`: while the clients dial for the first time, a lease that was
obtained is in the map, or queued in the channel of its stack, or with a dial that
stands before the send, and what is in the channel or the map is the lease the client
has.  The last part needs that no stack is dialled twice in that phase, which is
`Undialled`: until its exchange is over a stack has no lease.  `SaverInv` says
that without an interruption the saver stops only after it was told to, and
`DrainedInv` that the channels are empty from then on.  So with nothing in a
channel and, by `DialLaunched`, nothing before a send, every lease is in the map.

*Results of a DORA run.*  The proof classifies every step by its effect
on the results (`StepEffect`): none (`Keeps`), a transaction ends (`Executes`), a
result is sent (`Sends`), a result is collected (`Collects`).  `EffectWaits` gives
what each does to the number of transactions that wait in given program counters to
be reported; this is a cardinality, which is why `Client` must be finite.
`EffectCounts` adds the channel and the summary, with the lemma that the loop body of
collectResults raises Total by exactly one (`CollectType`).  `Conservation`
follows.  For `Refinement` a transaction that ends is `Execute`, a collected result
`ReportOne` (possible because a queued result has been executed and not reported),
and main's return after the close is `Finish`: by `ClosedIsComplete` nobody has
anything left to send then and the channel is empty, so conservation leaves
everything in the summary.

*What the summaries say.*  The statistics fold results in the order of arrival, and
induction over the sequence of results is out of reach; but a counter needs none.
`ResultCollector_proofs` defines for each counter what was *sent*: the counter
plus the number of results of its kind still in the channel (`SuccessSent` and so
on).  A send raises it by one if the result is of that kind (`SendCounts`, from
`QueuedAppend`), the collector never changes it (`CollectCounts`, from
`QueuedTail`), and when the channel is empty it is the counter (`SentType`).  So the
senders alone decide the final summary.  `OutcomesInv` relates what was sent, and
the outcomes still waiting to be sent, to the outcomes of the DORA run; at the end
nobody waits, and `SummaryFinal` follows.  For releases and failed dials the summary lies between
two numbers of outcomes, and so does what was sent.  In a 3R run `SentInv` says that what was
sent is what the transactions reported; each result has one action, so the reported
ones split into three parts (`ReportsSplit`) and the three counters together lie between
the successes and all of them; `LaunchInv` (no stack of a client is started
twice) keeps a transaction from reporting again, and `DoneInv` says that the
collector has left nothing in the channel.

Of the pair's properties two are not inductive.  That only the own Close makes an end
panic needs `ClosedByPeer`: a channel that is closed was closed by the end that
writes to it.  That a channel holds packets only (`ConPairTypeOK`) needs
`WritersHavePackets`: whoever waits in a write has a packet to hand over.
`ConPairInv` is their conjunction with the properties; `DeadlineInv`, `TimeoutInv`,
`ReadInv`, `WriteInv` and `CloseInv` prove it action by action.  For
`PairRefinement` the packets sent are those delivered followed by those queued.  A
packet read moves from one part to the other, which leaves their concatenation
as it was (`TakenIsSent`, `ReadIsReceive`); a packet written is appended to it
(`WrittenIsSent`, `WriteIsSend`); every other step changes neither part
(`OthersStutter`).

*The DHCPv6 dial.*  A lease is right only if every message on the way is, however
late, so `DialInv` describes all messages that were ever built.  `WireInv`: a packet on the
network is the agent's form of a question the client built or of an answer a server
sent (or the hollow reply of the fault model).  `AskedInv`: ids of questions are
unique, each dial has its own two, and each question asks for all the client needs;
so an answer with the id of the current message is an answer to it.
`MsgInv`: a Request follows the Solicit of its dial.  `GrantedInv`: every Reply
was committed by the server the Request of that id was sent to.  `LeaseComplete`
then follows from the checks of checkResp, and `PanicsOnlyOnOmission` from
`AnswerSent`: an answer the agent and the client accept was sent by a server, so
what it omits that server omitted.  For `DialRefinement` the abstract exchange has
`chosen` (the server of the Request of each dial), `granted` (the server and dial of each
committed Reply) and `bound` (what the client took); accepting an Advertise is
`AdvertiseChooses`, a server's commitment `ReplyGrants`, accepting the Reply
`LeaseBinds`, and every other step changes none of the three (`OthersStutter`): losing,
repeating or delaying messages, retries and the agent are invisible there.

*Runs over a lease file.*  Each property of `LeaseLife` speaks of two things that
are changed by different processes at different times.  `ProcessInv`: what a process
keeps in memory is gone when it ends or dies, and a run that loads the file works on what
is in it.  `CurrentInv`: the leases a DORA run works on, has queued and has merged were
granted to this run, each to its client; before the flapping no client has dialled a stack
twice, so what is queued is what the client has.  `FileInv`: so a file lists leases of one run, and
servers granted them.  `WireInv`: a message names all parts of a lease that was granted.
Since addresses are granted again, a server may take away a lease on an old message;
`GrantedInv` says that this is the only way: a lease that was ever granted is held, or a release
on the wire names its binding.  `KeptInv`: as long
as only renew runs used the file, there is no such release for a lease on it, old or new, and
none is about to be sent; with `GrantedInv` that is `RenewsCostNothing`, and it
survives messages that arrive late.  `HeldInv`: once a server has handled the release of
the lease a process has now, nothing of it is held, because the release is newer than the
lease; with `ConfirmedInv` (a DHCPv6 release is confirmed only by a server
that handled this one) that is `ReleaseComplete`.  `CleanInv` follows a lease from the
dial to the file and gives
`HeldOnFile`.  The frame lemmas (`CurrentFrame`, ..., `CleanFrame`) say which
variables each part depends on, and there is one lemma per action.

*The statistics.*  The induction is over the steps of the collector.
`QueueInv` splits the results submitted into those collected, which are the first
`summary.Total`, and those in the channel; at the end the second part is empty.
`CountsInv` is the counting above, with the dials under a second as one more kind.
The times are not sums, so the invariant describes them for the collected part:
`SpanInv` says that `begin` and `end` bound it and are reached in it,
`ExtremesInv` the same of the slowest and the fastest dial; for the latter it has to name the
case, outside the property, in which the placeholder has been replaced by 0.  `WindowInv` places each of
the last dials as far from the end of the window as there are dials after it: a dial
added moves all others by one (`AvgAddItems`), whether the window is full or
not.  `CollectTimes` says what one turn of the loop does to these fields.

*The clients.*  `NthClient` counts: the tags of a client are allowed, and there are
as many allowed ones below as clients before it.  It is inductive because
incvidFunc takes the first stop: between two successive clients no tag is allowed
(`NextAllowed`), and a set with one more element has one more
(`CountNext`).  The first stop exists by `LeastElement`, from
the library's theorem on well-founded relations.  That tags count like numbers across the
carry (`ValueOfIDs`, `IDsOfValue`) is division with remainder.  If IncVid finds no
stop, either every step it tried is excluded, or one does not fit and no larger tag is
allowed (`RowOrRoom`, `LastAllowed`); these are the two causes `FailsForAReason` gives.
All this is about the exclusions the setup has after init (`NthOfSetup`); `NthClient`
is about those the user gave and follows where the two agree.  `MacsDiffer` and `IdsDiffer` turn
"the n-th" into "different for different n", so no assignment to `ClntList` or
to the table of the proxy hits an entry that is there (`ListInv`, `ProxyInv`).

*Only model-checked.*  Liveness (the runs end, the collector and saver finish, a
dial and a read with a deadline end): fairness is out of the prover's reach.
Every safety property and refinement of a passing run has a theorem.

## 5. Where the code and its documentation differ

Each of these runs checks one property taken from the documentation or from the
program's own messages and finds it violated.

| Run | Statement | What the code does |
|---|---|---|
| `no_nil_client` | README.md:30: repeatedly establish and release leases | a client whose first lease comes from a later dial releases with a client that was never created and the process panics |
| `ctrlc_stops` | dhcplt.go:143 "stopping..." | with `savelease`, Ctrl-C stops the saver while clients dial; once the save channel is full they block and the run hangs |
| `three_r_all_reported` | README.md:127: every release is counted as a transaction | threeRAll does not wait: the run ends, or panics, with transactions unreported |
| `successes_counted` | dhcplt.go:83 "Success renew:%d", README.md:128: success counts successful transactions | releaseOrRenewV6 reports every DHCPv6 transaction as a successful release: a renew run counts its DHCPv6 renews, and the failed ones, as released |

Read in the code, without a run of their own:

* sched.go:1014-1021: the counter that is compared with `FlapNum` is never
  incremented, so every client flaps (README.md:221 "the number of clients flapping").
* sched.go:884-893: the fastest dial stays 0 for ever if the first result collected
  is not a successful dial; README.md:132 calls it the "least amount of time a client
  took to complete DORA".  `ShortestExact` is about the other runs.
* sched.go:861-866: the counter of a release, renew or rebind is raised before the
  outcome is looked at, for IPv4 and DHCPv6 alike; README.md:128 says "number of success
  DORA or release transactions", dhcplt.go:82-84 "Success release", "renew", "rebind".
  `CountersExact` and `FinalSummary` claim no more than a range.
* sched.go:944-947, 556: with `savelease` and flapping, dials block once eight
  leases have been queued after the saver ended.
* sched.go:977, conf.go:206: `rand.Int63n` panics when the two flapping
  intervals are equal.  setup.go:140-141: the aliases `flapmaxinterval` and
  `flapmininterval` are swapped.
* lease.go:275, sched.go:927: leases queued or dialled after a Ctrl-C are not written.
* sched.go:669-671: a failed DHCPv6 release of the flapping is not among the failed
  transactions (dhcplt.go:85).
* sched.go:196: with both stacks enabled, a lease of one stack only on file makes the run
  panic (README.md:101 "release both v4 and v6 leases").
* sched.go:240: a DHCPv6 rebind sends a RELEASE (README.md:21 "Support DORA
  Release, Renew and Rebind"); `RenewCostsNothing` names this way of losing leases.
* sched.go:984, 995: with `savelease`, flapping releases the leases on file and
  does not save those it obtains.
* sched.go:983: a released lease whose redial failed is released again.
* sched.go:1023: the last summary is printed before the channel is drained.
* conf.go:172: `ExcludedVLANs` is emptied before it is read, so clients are put on
  VLANs of the user's "list of excluded VLAN IDs" (README.md:150).  `NthClient` makes
  no claim for such settings.
* lease.go:230: `v6Lease.Apply` returns after one address (README.md:140).
* conpair.go:76-78: setting a deadline after one that fired and was noticed by a
  read or write waits for ever; nothing in the program does so today.
* relay.go:124: `timeoutErr` is no `net.Error` as a value, so a timeout of the
  pair would panic here; nothing sets a deadline on this end.
* lease.go:208: a saved Reply without a server id makes the release add a nil
  option.

They are in the list of hazards of PROJECT.json where a property bears on them.

## 6. Not modelled

* The library code of nclient4, nclient6, myaddr and etherconn, and the DHCP
  servers: external, modelled from how the code uses them.  The exchange of dialv4
  is one call into nclient4 and stays one step.
* Message contents beyond identity associations, ids and types; the option
  strings of client generation; gob encoding (a file is absent, partial or whole)
  and the unused text encoding of `v4lease.go`.
* `Apply` on the interface: whether it fails is modelled, addresses are not.
* Parsing of the configuration and the command line, the checks of addresses and
  ports, logging, profiling, the layout of the printed summary.
* The data race on `sch.summary` between its printing and the collector, beyond the
  copy `printed`, which no property uses.
* Two DHCP clients reading one EtherConn while a client flaps (sched.go:102-184): which
  of them gets a packet shows only as a loss, which the exchanges have anyway.
* A deadline set while a read or write of the same end waits: `SetDeadline` is for an idle
  caller, as the DHCPv6 client uses it.  The buffer of a `WriteTo` is passed on without a copy
  (conpair.go:60); a writer that reuses it is not modelled, packets are values.
* Truncation at the buffer sizes and decode errors in the relay (relay.go): such packets
  are dropped, which is a loss.  What is wrapped in a Relay-forward is returned whole.
* The error returns of NewRequestFromAdv for a missing client or server id
  (sched.go:1085-1093): servers always set the ids in `DialV6`.
* In `ThreeR`, a release of a saved Reply without a server id (lease.go:208), which is a
  nil option.
* The ND proxy answers each packet in a goroutine of its own; they share nothing
  but the table, which is not written after the start.

## 7. Plan

In this order, most important first; all done.

1. `ResultSummary`, `ResultCollector`, `LeaseSaver`: the shared parts.
2. `Dora`, `TestRun`: the main run and what it promises.
3. `ThreeR`: the other run.
4. `ResultStats`: statistics against a reference.
5. `Dora_proofs`: types, the control invariant, and what follows from it.
6. The same for its results: conservation, refinement of `TestRun`.
7. `ConPair`, `PacketQueue`: the pair and its promise.
8. `Relay`, `DialV6`, `LeaseExchange`: the DHCPv6 exchange over a faulty network.
9. `LeaseLife`: runs in a row over one lease file, with crashes.
10. `ClientSetup`: from the settings to the clients and the proxy.
11. `ConPair_proofs`: the pair's safety properties and its refinement.
12. `DialV6_proofs`: `LeaseComplete`, `PanicsOnlyOnOmission`, `RelayTransparent`
    and the refinement of `LeaseExchange`.
13. `LeaseLife_proofs`: `FileIsOneRun`, `HeldIsOnFile`, `ReleaseIsComplete` and
    `RenewCostsNothing`.
14. `FinalSummary` and `LeaseFileComplete` for the DORA run; `ThreeR_proofs`.
15. `ClientSetup_proofs`: arithmetic of addresses and tags, and what follows for
    clients and proxy.
16. `ResultStats_proofs`: the statistics for every sequence of results.
17. Addresses granted again, flapping over a saved file and the documentation's reading of the
    counters in the properties and proofs of `LeaseLife`, `Dora`, `ThreeR` and `ResultStats`.
