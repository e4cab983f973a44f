------------------------------ MODULE LeaseLife ------------------------------
(***************************************************************************)
(* Leases from one run of the program to the next: a DORA run obtains them *)
(* and saves them with saveLeaseToFiles, then may release and redial them  *)
(* until Ctrl-C (flapping); a later run loads the file and releases,       *)
(* renews or rebinds what it lists.  A run may be interrupted or crash     *)
(* anywhere, also between the truncation of the file and its write, and    *)
(* its messages may be lost, repeated or handled late, also after the      *)
(* address they name has been granted again.                               *)
(*                                                                         *)
(* The servers are external: they grant a client an address for a stack,   *)
(* the same as before or another, and hold its identity associations,      *)
(* which a release takes back one by one.                                  *)
(***************************************************************************)
EXTENDS LeaseSaver

CONSTANTS
  MayFlap,    \* whether the setup of a run may have flapping
  Address,    \* what servers give: an address, or an address and a prefix
  MaxRuns,    \* bound of the model: runs of the program
  MaxLeases   \* bound of the model: leases granted to a client for a stack

ASSUME LeaseLifeAssumption ==
  MayFlap \in BOOLEAN /\ MaxRuns \in Nat /\ MaxLeases \in Nat

VARIABLES
  proc,         \* "down", "dora", "flap" or the action of a 3R run
  runs,         \* runs started so far
  interrupted,  \* Ctrl-C in this DORA run
  lease,        \* d4Lease and d6Lease of the clients: dialled, or from the file
  cycle,        \* what a client of a DORA run is at: its dial or a release
  dialled,      \* dials of the current cycle that have got a lease
  inHand,       \* those whose lease has not yet been sent to the saver
  truncated,    \* os.WriteFile of this run has emptied the file
  file,         \* the lease file: its state and the map a whole one holds
  todo,         \* releases, renews and rebinds that have not returned
  confirmed,    \* those that have returned without error
  wire,         \* release, renew and rebind messages sent
  handled,      \* those a server has handled
  granted,      \* history: per client and stack, the leases granted, in order
  held,         \* the identity associations servers hold for the clients
  clean,        \* history: every run so far has ended by itself, see StartDora
  kept          \* history: only renew runs since the file was written

dialVars == <<cycle, dialled, inHand>>
runVars == <<proc, runs, interrupted, lease, dialVars, truncated, todo, confirmed>>
serverVars == <<wire, handled, granted, held>>
historyVars == <<clean, kept>>
vars == <<saverVars, runVars, file, serverVars, historyVars>>

IA == {"na", "pd", "address"}
IAs(s) == IF s = "v6" THEN {"na", "pd"} ELSE {"address"}
NoLeases == [c \in Client |-> [s \in Stack |-> NoLease]]

\* The leases a map has, by client and stack: one transaction for each.
Transactions(map) == {t \in Client \X Stack : map[t[1]][t[2]] # NoLease}

\* A lease as the client numbers it, and as the servers know it.
Grant == [run : 1..MaxRuns, address : Address]
Binding == [id : Client, stack : Stack, address : Address]
BindingOf(c, s, l) == [id |-> c, stack |-> s, address |-> granted[c][s][l].address]
FromRun(c, s, l, r) == l \in DOMAIN granted[c][s] /\ granted[c][s][l].run = r

Message == [run : 1..MaxRuns, type : {"release", "renew", "rebind"}, lease : Lease,
            binding : Binding, ias : SUBSET IA]

LeaseLifeTypeOK ==
  /\ SaverTypeOK
  /\ proc \in {"down", "dora", "flap", "release", "renew", "rebind"}
  /\ runs \in 0..MaxRuns
  /\ {interrupted, truncated, clean, kept} \subseteq BOOLEAN
  /\ {file.map, lease} \subseteq [Client -> [Stack -> Lease]]
  /\ file.state \in {"absent", "partial", "whole"}
  /\ cycle \in [Client -> {"dial", "v4", "v6"}]
  /\ dialled \cup todo \cup confirmed \subseteq Client \X Stack
  /\ inHand \subseteq dialled
  /\ handled \subseteq wire /\ wire \subseteq Message
  /\ granted \in [Client -> [Stack -> Seq(Grant)]]
  /\ \A c \in Client, s \in Stack : Len(granted[c][s]) <= MaxLeases
  /\ held \subseteq Binding \X IA

LeaseLifeInit ==
  /\ SaverInit
  /\ proc = "down"
  /\ runs = 0
  /\ interrupted = FALSE
  /\ lease = NoLeases
  /\ cycle = [c \in Client |-> "dial"]
  /\ dialled = {}
  /\ inHand = {}
  /\ truncated = FALSE
  /\ file = [state |-> "absent", map |-> NoLeases]
  /\ todo = {}
  /\ confirmed = {}
  /\ wire = {}
  /\ handled = {}
  /\ granted = [c \in Client |-> [s \in Stack |-> <<>>]]
  /\ held = {}
  /\ clean = TRUE
  /\ kept = FALSE

\* What a process loses when it ends, whichever way.
Down ==
  /\ proc' = "down"
  /\ saveChan' = [s \in Stack |-> <<>>]
  /\ leaseMap' = NoLeases
  /\ saverPc' = "off"
  /\ interrupted' = FALSE
  /\ lease' = NoLeases
  /\ cycle' = [c \in Client |-> "dial"]
  /\ dialled' = {}
  /\ inHand' = {}
  /\ truncated' = FALSE
  /\ todo' = {}
  /\ confirmed' = {}
  /\ UNCHANGED runs

\* A crash, a panic, log.Fatal, or a run that ends under its transactions.
Crash ==
  /\ proc # "down"
  /\ Down
  /\ clean' = FALSE
  /\ UNCHANGED kept
  /\ UNCHANGED <<file, serverVars>>

-----------------------------------------------------------------------------
(* The DORA run, with savelease.                                           *)

\* The saver starting with the leases of the run before.
StartDoraWithOld ==
  /\ proc = "down"
  /\ runs < MaxRuns
  /\ proc' = "dora"
  /\ runs' = runs + 1
  /\ saverPc' = "loop"
  /\ leaseMap' = file.map
  /\ clean' = (clean /\ held = {})
  /\ UNCHANGED kept
  /\ UNCHANGED <<saveChan, interrupted, lease, dialVars, truncated, todo, confirmed>>
  /\ UNCHANGED <<file, serverVars>>

\* A run is clean if what is held is only what the run before left on file
\* and has been given back.
StartDora ==
  /\ proc = "down"
  /\ runs < MaxRuns
  /\ proc' = "dora"
  /\ runs' = runs + 1
  /\ StartSaver
  /\ clean' = (clean /\ held = {})
  /\ UNCHANGED kept
  /\ UNCHANGED <<interrupted, lease, dialVars, truncated, todo, confirmed>>
  /\ UNCHANGED <<file, serverVars>>

\* A dial gets a lease, in the initial dialling (those still running when
\* Ctrl-C comes go on) or as a redial; applying it to the interface may fail,
\* and then it is not saved.
Dial(c, s) ==
  /\ proc = "flap" \/ (proc = "dora" /\ (saverPc = "loop" \/ interrupted))
  /\ cycle[c] = "dial"
  /\ <<c, s>> \notin dialled
  /\ Len(granted[c][s]) < MaxLeases
  /\ \E a \in Address :
       /\ granted' = [granted EXCEPT ![c][s] = Append(@, [run |-> runs, address |-> a])]
       /\ held' = held \cup {[id |-> c, stack |-> s, address |-> a]} \X IAs(s)
  /\ lease' = [lease EXCEPT ![c][s] = Len(granted[c][s]) + 1]
  /\ dialled' = dialled \cup {<<c, s>>}
  /\ confirmed' = confirmed \ {<<c, s>>}
  /\ \/ inHand' = inHand \cup {<<c, s>>} /\ UNCHANGED clean
     \/ UNCHANGED inHand /\ clean' = FALSE
  /\ UNCHANGED kept
  /\ UNCHANGED <<saverVars, proc, runs, interrupted, cycle, truncated, todo>>
  /\ UNCHANGED <<file, wire, handled>>

\* After the initial dialling nobody receives: a redial waits when the channel
\* is full.
HandToSaver(c, s) ==
  /\ <<c, s>> \in inHand
  /\ SendLease(c, s, lease[c][s])
  /\ inHand' = inHand \ {<<c, s>>}
  /\ UNCHANGED <<proc, runs, interrupted, lease, cycle, dialled, truncated, todo, confirmed>>
  /\ UNCHANGED <<file, serverVars, historyVars>>

SaveLeases ==
  /\ \E s \in Stack : SaveOne(s)
  /\ UNCHANGED <<runVars, file, serverVars, historyVars>>

CtrlC ==
  /\ proc \in {"dora", "flap"}
  /\ ~interrupted
  /\ interrupted' = TRUE
  /\ clean' = FALSE
  /\ UNCHANGED kept
  /\ UNCHANGED <<proc, runs, lease, dialVars, truncated, todo, confirmed>>
  /\ UNCHANGED <<saverVars, file, serverVars>>

\* The context is done a second after the last dial returned, time enough for
\* the saver to take what is queued, or at once with Ctrl-C.
StopSaver ==
  /\ StopSaving(interrupted \/ (inHand = {} /\ \A s \in Stack : saveChan[s] = <<>>))
  /\ UNCHANGED <<runVars, file, serverVars, historyVars>>

\* os.WriteFile opens the file with O_TRUNC ...
Truncate ==
  /\ saverPc = "encode"
  /\ ~truncated
  /\ truncated' = TRUE
  /\ file' = [state |-> "partial", map |-> NoLeases]
  /\ kept' = FALSE
  /\ UNCHANGED <<saverVars, proc, runs, interrupted, lease, dialVars, todo, confirmed>>
  /\ UNCHANGED <<serverVars, clean>>

\* A release that a server may still get names a lease the map lists.
ReleaseNames(map) ==
  \E m \in wire, c \in Client, s \in Stack :
    /\ m.type = "release"
    /\ map[c][s] # NoLease
    /\ m.binding = BindingOf(c, s, map[c][s])

\* ... and then writes it.
WriteFile ==
  /\ truncated
  /\ WriteLeases
  /\ file' = [state |-> "whole", map |-> leaseMap]
  /\ kept' = ~ReleaseNames(leaseMap)
  /\ UNCHANGED <<runVars, serverVars, clean>>

\* The flapping starts, for every client (the counter of FlapNum never moves).
StartFlapping ==
  /\ MayFlap
  /\ proc = "dora"
  /\ saverPc = "saved"
  /\ inHand = {}
  /\ ~interrupted
  /\ proc' = "flap"
  /\ clean' = FALSE
  /\ UNCHANGED kept
  /\ UNCHANGED <<runs, interrupted, lease, dialVars, truncated, todo, confirmed>>
  /\ UNCHANGED <<saverVars, file, serverVars>>

\* A client of flapFunc goes on, if the context is not done: from its dial,
\* which may have failed, to the v4 release, the v6 release and the next dial.
NextInCycle(at) == CASE at = "dial" -> "v4" [] at = "v4" -> "v6" [] at = "v6" -> "dial"

FlapCycle(c) ==
  /\ proc = "flap"
  /\ ~interrupted
  /\ LET at == NextInCycle(cycle[c])
         release == Transactions(lease) \cap {<<c, at>>}
     IN  /\ cycle' = [cycle EXCEPT ![c] = at]
         /\ todo' = todo \cup release
         /\ dialled' = IF at = "dial" THEN dialled \ ({c} \X Stack) ELSE dialled
         /\ kept' = (kept /\ release = {})
  /\ UNCHANGED <<saverVars, proc, runs, interrupted, lease, inHand, truncated, confirmed>>
  /\ UNCHANGED <<file, serverVars, clean>>

\* A dialAll that does not wait for the dials that stand before the save channel.
FlapOnUnsaved(c) == FlapCycle(c) /\ todo \cap ({c} \X Stack) = {}

FlapOn(c) == FlapCycle(c) /\ (todo \cup inHand) \cap ({c} \X Stack) = {}

\* The DORA run ends: after the initial dialling, or from the flapping, which
\* only Ctrl-C ends.
EndDora ==
  /\ saverPc = "saved"
  /\ inHand = {}
  /\ proc = "flap" => interrupted /\ todo = {}
  /\ Down
  /\ UNCHANGED <<file, serverVars, historyVars>>

Dora ==
  \/ StartDora
  \/ \E c \in Client, s \in Stack : Dial(c, s) \/ HandToSaver(c, s)
  \/ SaveLeases
  \/ CtrlC
  \/ StopSaver
  \/ Truncate
  \/ WriteFile
  \/ StartFlapping
  \/ \E c \in Client : FlapOn(c)
  \/ EndDora

-----------------------------------------------------------------------------
(* The release, renew and rebind runs, and the releases of the flapping.   *)

\* NewSched: a file that cannot be read or decoded is log.Fatal.
Load(act) ==
  /\ proc = "down"
  /\ runs < MaxRuns
  /\ file.state = "whole"
  /\ proc' = act
  /\ runs' = runs + 1
  /\ lease' = file.map
  /\ todo' = Transactions(file.map)
  /\ kept' = (kept /\ act = "renew")
  /\ UNCHANGED <<saverVars, interrupted, dialVars, truncated, confirmed>>
  /\ UNCHANGED <<file, serverVars, clean>>

\* A DHCPv6 side that knows no renew.
MessageTypeNoRenew(act, s) ==
  IF s = "v4" /\ act \in {"renew", "rebind"} THEN act ELSE "release"

\* The v6 side knows release and renew only: a rebind is sent as a release.
MessageType(act, s) ==
  IF act = "renew" \/ (s = "v4" /\ act = "rebind") THEN act ELSE "release"

\* Genv6Release, and Release and Renew of nclient4: every IA of the lease.
Gen(c, s) ==
  [run |-> runs, type |-> MessageType(proc, s), lease |-> lease[c][s],
   binding |-> BindingOf(c, s, lease[c][s]), ias |-> IAs(s)]

\* A transmission, or one of its repetitions.
SendMessage(c, s) ==
  /\ <<c, s>> \in todo
  /\ wire' = wire \cup {Gen(c, s)}
  /\ UNCHANGED <<saverVars, runVars, file, handled, granted, held, historyVars>>

\* The answer to any message about the address taken for the answer.
AnsweredByAddress(c, s) ==
  \E m \in handled : m.type = Gen(c, s).type /\ m.binding = Gen(c, s).binding

\* An IPv4 release is not answered: sent is released.
Answered(c, s) ==
  Gen(c, s) \in IF s = "v4" /\ MessageType(proc, s) = "release" THEN wire ELSE handled

\* releasev4, renewOrRebindv4 and releaseOrRenewV6 return: with the answer, or
\* without it after their tries.
Returns(c, s) ==
  /\ <<c, s>> \in todo
  /\ todo' = todo \ {<<c, s>>}
  /\ \/ Answered(c, s) /\ confirmed' = confirmed \cup {<<c, s>>}
     \/ UNCHANGED confirmed
  /\ UNCHANGED <<saverVars, proc, runs, interrupted, lease, dialVars, truncated>>
  /\ UNCHANGED <<file, serverVars, historyVars>>

EndThreeR ==
  /\ proc \in {"release", "renew", "rebind"}
  /\ todo = {}
  /\ Down
  /\ UNCHANGED <<file, serverVars, historyVars>>

ThreeR ==
  \/ \E act \in {"release", "renew", "rebind"} : Load(act)
  \/ \E c \in Client, s \in Stack : SendMessage(c, s) \/ Returns(c, s)
  \/ EndThreeR

-----------------------------------------------------------------------------
\* External: a server handles a message, for the first time or again.
ServerHandles(m) ==
  /\ handled' = handled \cup {m}
  /\ held' = IF m.type = "release" THEN held \ ({m.binding} \X m.ias) ELSE held
  /\ UNCHANGED <<saverVars, runVars, file, wire, granted, historyVars>>

Over == proc = "down" /\ runs = MaxRuns /\ UNCHANGED vars

Next ==
  \/ Dora
  \/ ThreeR
  \/ Crash
  \/ \E m \in wire : ServerHandles(m)
  \/ Over

Spec == LeaseLifeInit /\ [][Next]_vars

-----------------------------------------------------------------------------
\* The leases of a file that can be loaded are all of one DORA run, and each
\* was granted to the client it is listed for, whatever runs were interrupted
\* or crashed before (lease.go:271-302, 311-322).
FileIsOneRun ==
  file.state = "whole" =>
    \E r \in 1..runs : \A c \in Client, s \in Stack :
      file.map[c][s] # NoLease => FromRun(c, s, file.map[c][s], r)

\* After runs that end by themselves, without flapping and a DORA only when
\* all was given back, the file lists every lease of the clients that a server
\* still holds: a release run can find them all (sched.go:941-947,
\* lease.go:271-302).
HeldIsOnFile ==
  clean /\ proc = "down" =>
    \A b \in held :
      /\ file.state = "whole"
      /\ \E c \in Client, s \in Stack :
           file.map[c][s] # NoLease /\ b[1] = BindingOf(c, s, file.map[c][s])

\* When the DHCPv6 release of a client is confirmed, in a release run or while
\* flapping, no server holds any part of the lease the client has, until it
\* dials again: also if the address had been released before and was granted
\* again (lease.go:201-217, sched.go:683-694, 995-998).
ReleaseIsComplete ==
  proc \in {"release", "flap"} =>
    \A c \in Client :
      <<c, "v6">> \in confirmed =>
        \A b \in held : b[1] # BindingOf(c, "v6", lease[c]["v6"])

\* The leases on a file survive renew runs, whole and with every message lost,
\* late or repeated, also messages about the leases of earlier runs: they are
\* given up only by a release run, the DHCPv6 side of a rebind run or the
\* flapping of the run that wrote the file, or when a release from before the
\* file was written names an address that was granted again (sched.go:240-243,
\* 257-260, 984-998).
RenewCostsNothing ==
  kept =>
    \A c \in Client, s \in Stack :
      file.map[c][s] # NoLease => {BindingOf(c, s, file.map[c][s])} \X IAs(s) \subseteq held

=============================================================================
