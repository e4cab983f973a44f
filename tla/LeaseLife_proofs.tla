-------------------------- MODULE LeaseLife_proofs --------------------------
(***************************************************************************)
(* Leases from run to run, for every set of clients and addresses, depth   *)
(* of the save channels and number of runs and leases: the type invariant  *)
(* and the four safety properties of LeaseLife, from one inductive         *)
(* invariant.                                                              *)
(***************************************************************************)
EXTENDS LeaseLife, SequenceTheorems, TLAPS

Loads == {"release", "renew", "rebind"}
NoneQueued == [s \in Stack |-> <<>>]

\* What a process keeps is there only while it runs, and a run that loads the
\* file works on what is still in it.
ProcessInv ==
  /\ proc # "down" => runs >= 1
  /\ proc \notin {"dora", "flap"} =>
       /\ saveChan = NoneQueued
       /\ leaseMap = NoLeases
       /\ saverPc = "off"
       /\ dialled = {}
       /\ ~interrupted
       /\ ~truncated
  /\ proc = "down" => lease = NoLeases
  /\ proc \in {"down", "dora"} => todo = {} /\ confirmed = {}
  /\ proc = "flap" => saverPc = "saved"
  /\ proc \in Loads => file.state = "whole" /\ lease = file.map

\* A queued lease is of this run, and in the initial dialling the client's own.
QueuedInv(s, m) ==
  /\ m.lease # NoLease
  /\ FromRun(m.id, s, m.lease, runs)
  /\ proc = "dora" => m.lease = lease[m.id][s]

\* The leases a process works on: granted, and in a DORA run by this run; the
\* first dial of a client is the only one before the flapping.
CurrentInv ==
  /\ \A c \in Client, s \in Stack : lease[c][s] # NoLease =>
       /\ lease[c][s] \in DOMAIN granted[c][s]
       /\ proc \in {"dora", "flap"} => FromRun(c, s, lease[c][s], runs)
       /\ proc = "dora" => <<c, s>> \in dialled
  /\ \A c \in Client, s \in Stack : <<c, s>> \in todo \cup inHand \cup confirmed => lease[c][s] # NoLease
  /\ \A s \in Stack : \A k \in DOMAIN saveChan[s] : QueuedInv(s, saveChan[s][k])
  /\ \A c \in Client, s \in Stack :
       leaseMap[c][s] # NoLease => FromRun(c, s, leaseMap[c][s], runs)

\* The lease file lists leases of one run.
FileInv ==
  /\ file.state # "whole" => file.map = NoLeases
  /\ FileIsOneRun

\* Every message is about a whole lease.
WireInv ==
  \A m \in wire :
    LET c == m.binding.id
        s == m.binding.stack
    IN  /\ m.run <= runs
        /\ m.lease \in DOMAIN granted[c][s]
        /\ m.binding = BindingOf(c, s, m.lease)
        /\ m.ias = IAs(s)

\* What was granted is held, unless a release names it.
GrantedInv ==
  \A c \in Client, s \in Stack : \A k \in DOMAIN granted[c][s] :
    \/ {BindingOf(c, s, k)} \X IAs(s) \subseteq held
    \/ \E m \in wire : m.type = "release" /\ m.binding = BindingOf(c, s, k)

\* Nothing is held of a lease the process has once its release is handled.
HeldInv ==
  /\ \A b \in held : b[2] \in IAs(b[1].stack)
  /\ \A m \in handled :
       m.type = "release" /\ m.run = runs /\ m.lease = lease[m.binding.id][m.binding.stack] =>
         \A b \in held : b[1] = m.binding => b[2] \notin m.ias

\* A DHCPv6 release is confirmed by a server only.
ConfirmedInv ==
  proc \in {"release", "flap"} =>
    \A c \in Client : <<c, "v6">> \in confirmed => Gen(c, "v6") \in handled

\* No release names a lease of a file that is kept, and none is about to.
KeptInv ==
  kept =>
    /\ file.state = "whole"
    /\ proc \in {"down", "dora", "flap", "renew"}
    /\ proc = "flap" => todo = {}
    /\ ~ReleaseNames(file.map)

\* A lease of the clients that is in the hand of its dial, queued or merged.
OnItsWay(c, s) ==
  \/ <<c, s>> \in inHand
  \/ \E k \in DOMAIN saveChan[s] : saveChan[s][k] = [id |-> c, lease |-> lease[c][s]]
  \/ leaseMap[c][s] = lease[c][s]

OnFile(b) ==
  \E c \in Client, s \in Stack :
    file.map[c][s] # NoLease /\ b[1] = BindingOf(c, s, file.map[c][s])

\* In clean runs a lease that is held is on its way to the file, or there.
CleanInv ==
  clean =>
    /\ ~interrupted
    /\ proc # "flap"
    /\ proc = "dora" =>
         \A b \in held : \E c \in Client, s \in Stack :
           /\ lease[c][s] # NoLease
           /\ b[1] = BindingOf(c, s, lease[c][s])
           /\ OnItsWay(c, s)
    /\ saverPc \in {"encode", "saved"} => inHand = {} /\ saveChan = NoneQueued
    /\ saverPc = "saved" => file.state = "whole" /\ file.map = leaseMap
    /\ proc # "dora" => \A b \in held : file.state = "whole" /\ OnFile(b)

LeaseLifeInv ==
  /\ LeaseLifeTypeOK
  /\ ProcessInv
  /\ CurrentInv
  /\ FileInv
  /\ WireInv
  /\ GrantedInv
  /\ HeldInv
  /\ ConfirmedInv
  /\ KeptInv
  /\ CleanInv

-----------------------------------------------------------------------------
(* Maps of leases, sequences and what was granted.                         *)

Map == [Client -> [Stack -> Lease]]

LEMMA NoneListed ==
  /\ NoLeases \in Map
  /\ NoLeases \in [Client -> [Stack -> Lease]]
  /\ \A c \in Client, s \in Stack : NoLeases[c][s] = NoLease
BY DEF NoLeases, NoLease, Map, Lease

\* A lease merged into the entry of its client, the other entries as before.
LEMMA MergeIs ==
  ASSUME NEW map \in Map, NEW c \in Client, NEW s \in Stack, NEW l \in Lease
  PROVE  /\ Merge(map, c, s, l) \in Map
         /\ Merge(map, c, s, l)[c][s] = l
         /\ \A d \in Client, t \in Stack :
              <<d, t>> # <<c, s>> => Merge(map, c, s, l)[d][t] = map[d][t]
BY DEF Merge, Map, Lease

\* One more element at the end of a sequence, or one less at its head.
LEMMA Sending ==
  ASSUME NEW S, NEW q \in Seq(S), NEW m \in S
  PROVE  /\ Append(q, m) \in Seq(S)
         /\ Len(Append(q, m)) = Len(q) + 1
         /\ Len(q) \in Nat
         /\ \A k \in DOMAIN q : k \in DOMAIN Append(q, m) /\ Append(q, m)[k] = q[k]
         /\ \E k \in DOMAIN Append(q, m) : Append(q, m)[k] = m
         /\ \A k \in DOMAIN Append(q, m) :
              Append(q, m)[k] = m \/ \E j \in DOMAIN q : Append(q, m)[k] = q[j]
<1>1. /\ Append(q, m) \in Seq(S)
      /\ Len(Append(q, m)) = Len(q) + 1
      /\ \A i \in 1..Len(q) : Append(q, m)[i] = q[i]
      /\ Append(q, m)[Len(q) + 1] = m
  BY AppendProperties
<1>2. Len(q) \in Nat /\ DOMAIN q = 1..Len(q)
  BY LenProperties
<1>3. DOMAIN Append(q, m) = 1..(Len(q) + 1)
  BY <1>1, LenProperties
<1>4. ASSUME NEW k \in DOMAIN Append(q, m), Append(q, m)[k] # m
      PROVE  \E j \in DOMAIN q : Append(q, m)[k] = q[j]
  <2>1. k \in 1..Len(q)
    BY <1>1, <1>2, <1>3, <1>4
  <2> QED  BY <1>1, <1>2, <2>1
<1>5. \A k \in DOMAIN q : k \in DOMAIN Append(q, m) /\ Append(q, m)[k] = q[k]
  BY <1>1, <1>2, <1>3
<1>6. Len(q) + 1 \in DOMAIN Append(q, m)
  BY <1>2, <1>3
<1> QED  BY <1>1, <1>2, <1>4, <1>5, <1>6

LEMMA Receiving ==
  ASSUME NEW S, NEW q \in Seq(S), q # <<>>
  PROVE  /\ Head(q) \in S
         /\ Tail(q) \in Seq(S)
         /\ Len(q) \in Nat
         /\ Len(Tail(q)) = Len(q) - 1
         /\ \E j \in DOMAIN q : Head(q) = q[j]
         /\ \A k \in DOMAIN Tail(q) : \E j \in DOMAIN q : Tail(q)[k] = q[j]
         /\ \A j \in DOMAIN q :
              q[j] = Head(q) \/ \E k \in DOMAIN Tail(q) : q[j] = Tail(q)[k]
<1>1. /\ Head(q) \in S
      /\ Tail(q) \in Seq(S)
      /\ Len(Tail(q)) = Len(q) - 1
      /\ \A i \in 1..Len(Tail(q)) : Tail(q)[i] = q[i + 1]
  BY HeadTailProperties
<1>2. Len(q) \in Nat \ {0} /\ DOMAIN q = 1..Len(q)
  BY LenProperties, EmptySeq
<1>3. Head(q) = q[1]
  OBVIOUS
<1>4. DOMAIN Tail(q) = 1..(Len(q) - 1)
  BY <1>1, LenProperties
<1>5. ASSUME NEW k \in DOMAIN Tail(q)
      PROVE  \E j \in DOMAIN q : Tail(q)[k] = q[j]
  <2>1. k + 1 \in DOMAIN q /\ Tail(q)[k] = q[k + 1]
    BY <1>1, <1>2, <1>4
  <2> QED  BY <2>1
<1>6. ASSUME NEW j \in DOMAIN q, q[j] # Head(q)
      PROVE  \E k \in DOMAIN Tail(q) : q[j] = Tail(q)[k]
  <2>1. j - 1 \in DOMAIN Tail(q) /\ q[(j - 1) + 1] = q[j]
    BY <1>2, <1>3, <1>4, <1>6
  <2> QED  BY <1>1, <1>4, <2>1
<1> QED  BY <1>1, <1>2, <1>3, <1>5, <1>6

-----------------------------------------------------------------------------
(* What the parts of the invariant rest on.                                *)

\* The types the steps need, and which run they are a part of.
LEMMA StateIs ==
  ASSUME LeaseLifeInv
  PROVE  /\ SaverTypeOK
         /\ proc \in {"down", "dora", "flap", "release", "renew", "rebind"}
         /\ runs \in Nat /\ runs \in 0..MaxRuns
         /\ wire \subseteq Message /\ handled \subseteq wire
         /\ held \subseteq Binding \X IA
         /\ inHand \subseteq dialled
         /\ dialled \cup todo \cup confirmed \subseteq Client \X Stack
         /\ leaseMap \in Map /\ lease \in Map /\ file.map \in Map
         /\ granted \in [Client -> [Stack -> Seq(Grant)]]
         /\ saverPc # "off" => proc \in {"dora", "flap"}
         /\ inHand # {} => proc \in {"dora", "flap"}
         /\ \A c \in Client, s \in Stack :
              <<c, s>> \in todo => proc \notin {"down", "dora"} /\ lease[c][s] # NoLease
         /\ proc \in {"dora", "flap"} => runs \in 1..MaxRuns
<1>1. /\ SaverTypeOK
      /\ proc \in {"down", "dora", "flap", "release", "renew", "rebind"}
      /\ runs \in 0..MaxRuns
      /\ wire \subseteq Message /\ handled \subseteq wire
      /\ held \subseteq Binding \X IA
      /\ inHand \subseteq dialled
      /\ dialled \cup todo \cup confirmed \subseteq Client \X Stack
      /\ lease \in Map /\ file.map \in Map
      /\ granted \in [Client -> [Stack -> Seq(Grant)]]
  BY DEF LeaseLifeInv, LeaseLifeTypeOK, Map
<1>2. leaseMap \in Map
  BY <1>1 DEF SaverTypeOK, Map
<1>3. /\ saverPc # "off" => proc \in {"dora", "flap"}
      /\ inHand # {} => proc \in {"dora", "flap"}
      /\ \A c \in Client, s \in Stack :
           <<c, s>> \in todo => proc \notin {"down", "dora"} /\ lease[c][s] # NoLease
      /\ proc \in {"dora", "flap"} => runs >= 1
  BY <1>1 DEF LeaseLifeInv, ProcessInv, CurrentInv
<1> QED  BY <1>1, <1>2, <1>3, LeaseLifeAssumption

LEMMA CurrentFrame ==
  ASSUME CurrentInv, UNCHANGED <<saveChan, leaseMap, lease, granted, runs, proc>>,
         UNCHANGED dialled \/ proc # "dora",
         todo' \cup inHand' \cup confirmed' \subseteq todo \cup inHand \cup confirmed
  PROVE  CurrentInv'
BY DEF CurrentInv, QueuedInv, FromRun

LEMMA FileFrame ==
  ASSUME FileInv, UNCHANGED <<file, granted>>,
         runs \in Nat, runs' \in Nat, runs' >= runs
  PROVE  FileInv'
<1>1. 1..runs \subseteq 1..runs'
  OBVIOUS
<1> QED  BY <1>1 DEF FileInv, FileIsOneRun, FromRun

LEMMA WireFrame ==
  ASSUME WireInv, UNCHANGED <<wire, granted>>, wire \subseteq Message,
         runs \in Nat, runs' \in Nat, runs' >= runs
  PROVE  WireInv'
<1>1. \A m \in wire : m.run \in Nat
  BY LeaseLifeAssumption DEF Message
<1> QED  BY <1>1 DEF WireInv, BindingOf, IAs

LEMMA GrantedFrame ==
  ASSUME GrantedInv, UNCHANGED granted, held \subseteq held', wire \subseteq wire'
  PROVE  GrantedInv'
BY DEF GrantedInv, BindingOf, IAs

LEMMA HeldFrame ==
  ASSUME HeldInv, UNCHANGED <<handled, held, runs, lease>>
  PROVE  HeldInv'
BY DEF HeldInv, IAs

LEMMA ConfirmedFrame ==
  ASSUME ConfirmedInv, handled \subseteq handled',
         \/ proc' \notin {"release", "flap"}
         \/ confirmed' = {}
         \/ UNCHANGED <<proc, runs, lease, granted, confirmed>>
  PROVE  ConfirmedInv'
BY DEF ConfirmedInv, Gen, MessageType, BindingOf, IAs

LEMMA KeptFrame ==
  ASSUME KeptInv, UNCHANGED <<file, wire, granted, kept>>,
         \/ proc' \in {"down", "dora"}
         \/ proc' = proc /\ todo' \subseteq todo
         \/ proc' = "flap" /\ todo' = {}
  PROVE  KeptInv'
BY DEF KeptInv, ReleaseNames, BindingOf

LEMMA CleanFrame ==
  ASSUME CleanInv,
         UNCHANGED <<saveChan, leaseMap, saverPc, interrupted, lease, inHand, proc>>,
         UNCHANGED <<file, granted, clean>>, held' \subseteq held
  PROVE  CleanInv'
<1>1. \A c \in Client, s \in Stack :
        OnItsWay(c, s)' = OnItsWay(c, s) /\ \A l : BindingOf(c, s, l)' = BindingOf(c, s, l)
  BY DEF OnItsWay, BindingOf
<1>2. \A b : OnFile(b)' = OnFile(b)
  BY <1>1 DEF OnFile
<1>3. NoneQueued' = NoneQueued
  OBVIOUS
<1> QED  BY <1>1, <1>2, <1>3 DEF CleanInv

\* A run ends, by itself or not.
LEMMA DownInv ==
  ASSUME LeaseLifeInv, Down, UNCHANGED <<file, serverVars, kept>>, clean' \in BOOLEAN
  PROVE  /\ LeaseLifeTypeOK'
         /\ ProcessInv'
         /\ CurrentInv'
         /\ FileInv'
         /\ WireInv'
         /\ GrantedInv'
         /\ HeldInv'
         /\ ConfirmedInv'
         /\ KeptInv'
         /\ saverPc' = "off" /\ proc' = "down" /\ interrupted' = FALSE
<1>1. /\ proc' = "down" /\ saveChan' = NoneQueued /\ leaseMap' = NoLeases
      /\ saverPc' = "off" /\ interrupted' = FALSE /\ lease' = NoLeases
      /\ cycle' = [c \in Client |-> "dial"]
      /\ dialled' = {} /\ inHand' = {} /\ truncated' = FALSE
      /\ todo' = {} /\ confirmed' = {}
      /\ UNCHANGED <<runs, file, wire, handled, granted, held, kept>>
  BY DEF Down, NoneQueued, serverVars
<1>2. SaverTypeOK'
  <2>1. \A s \in Stack : <<>> \in Seq(LeaseWithID) /\ Len(<<>>) <= SaveChanDepth
    BY SaverAssumption
  <2> QED  BY <1>1, <2>1, NoneListed DEF SaverTypeOK, NoneQueued
<1>3. LeaseLifeTypeOK'
  BY <1>1, <1>2, NoneListed DEF LeaseLifeInv, LeaseLifeTypeOK
<1>4. ProcessInv'
  BY <1>1 DEF ProcessInv, Loads
<1>5. CurrentInv'
  <2>1. \A s \in Stack : DOMAIN (saveChan'[s]) = {}
    BY <1>1 DEF NoneQueued
  <2> QED  BY <1>1, <2>1, NoneListed DEF CurrentInv
<1>6. FileInv' /\ WireInv' /\ GrantedInv' /\ ConfirmedInv' /\ KeptInv'
  BY <1>1, StateIs, FileFrame, WireFrame, GrantedFrame, ConfirmedFrame, KeptFrame
     DEF LeaseLifeInv
<1>7. HeldInv'
  <2>1. ASSUME NEW m \in handled
        PROVE  m.lease # NoLeases[m.binding.id][m.binding.stack]
    <3>1. m \in Message /\ m.binding.id \in Client /\ m.binding.stack \in Stack
      BY <2>1, StateIs DEF Message, Binding
    <3>2. m.lease \in DOMAIN granted[m.binding.id][m.binding.stack]
      BY <2>1, StateIs DEF LeaseLifeInv, WireInv
    <3>3. granted[m.binding.id][m.binding.stack] \in Seq(Grant)
      BY <3>1, StateIs
    <3>4. m.lease # 0
      BY <3>2, <3>3
    <3> QED  BY <3>1, <3>4, NoneListed DEF NoLease
  <2> QED  BY <1>1, <2>1 DEF LeaseLifeInv, HeldInv, IAs
<1> QED  BY <1>1, <1>3, <1>4, <1>5, <1>6, <1>7

-----------------------------------------------------------------------------
(* The ends of a run, and the start of a DORA run.                         *)

LEMMA CrashInv ==
  ASSUME LeaseLifeInv, Crash
  PROVE  LeaseLifeInv'
<1>1. clean' = FALSE /\ Down /\ UNCHANGED <<file, serverVars, kept>>
  BY DEF Crash
<1>2. CleanInv'
  BY <1>1 DEF CleanInv
<1> QED  BY <1>1, <1>2, DownInv DEF LeaseLifeInv

LEMMA EndDoraInv ==
  ASSUME LeaseLifeInv, EndDora
  PROVE  LeaseLifeInv'
<1>1. /\ saverPc = "saved" /\ inHand = {} /\ Down
      /\ UNCHANGED <<file, serverVars, kept>> /\ clean' = clean
  BY DEF EndDora, historyVars
<1>2. clean' \in BOOLEAN
  BY <1>1 DEF LeaseLifeInv, LeaseLifeTypeOK
<1>3. CleanInv'
  <2>1. SUFFICES ASSUME clean, NEW b \in held
                 PROVE  file.state = "whole" /\ OnFile(b)
    <3>1. proc' = "down" /\ saverPc' = "off" /\ ~interrupted'
      BY <1>1, <1>2, DownInv
    <3>2. UNCHANGED <<file, granted, held, clean>>
      BY <1>1 DEF serverVars
    <3> QED  BY <3>1, <3>2 DEF CleanInv, OnFile, BindingOf
  <2>2. /\ proc = "dora" /\ saveChan = NoneQueued
        /\ file.state = "whole" /\ file.map = leaseMap
    BY <1>1, <2>1, StateIs DEF LeaseLifeInv, CleanInv
  <2>3. PICK c \in Client, s \in Stack :
          lease[c][s] # NoLease /\ b[1] = BindingOf(c, s, lease[c][s]) /\ OnItsWay(c, s)
    BY <2>1, <2>2 DEF LeaseLifeInv, CleanInv
  <2>4. DOMAIN saveChan[s] = {}
    BY <2>2 DEF NoneQueued
  <2>5. leaseMap[c][s] = lease[c][s]
    BY <1>1, <2>3, <2>4 DEF OnItsWay
  <2> QED  BY <2>2, <2>3, <2>5 DEF OnFile
<1> QED  BY <1>1, <1>2, <1>3, DownInv DEF LeaseLifeInv

LEMMA EndThreeRInv ==
  ASSUME LeaseLifeInv, EndThreeR
  PROVE  LeaseLifeInv'
<1>1. /\ proc \in Loads /\ Down
      /\ UNCHANGED <<file, serverVars, kept>> /\ clean' = clean
  BY DEF EndThreeR, historyVars, Loads
<1>2. clean' \in BOOLEAN
  BY <1>1 DEF LeaseLifeInv, LeaseLifeTypeOK
<1>3. CleanInv'
  <2>1. clean => \A b \in held : file.state = "whole" /\ OnFile(b)
    BY <1>1 DEF LeaseLifeInv, CleanInv, Loads
  <2>2. proc' = "down" /\ saverPc' = "off" /\ ~interrupted'
    BY <1>1, <1>2, DownInv
  <2>3. UNCHANGED <<file, granted, held, clean>>
    BY <1>1 DEF serverVars
  <2> QED  BY <2>1, <2>2, <2>3 DEF CleanInv, OnFile, BindingOf
<1> QED  BY <1>1, <1>2, <1>3, DownInv DEF LeaseLifeInv

\* In a new run nothing that was sent is of this run.
LEMMA NewRun ==
  ASSUME LeaseLifeInv, runs' = runs + 1, UNCHANGED <<handled, held>>
  PROVE  HeldInv'
<1>1. ASSUME NEW m \in handled
      PROVE  m.run # runs'
  <2>1. m \in wire /\ m.run \in Nat /\ runs \in Nat
    BY <1>1, StateIs, LeaseLifeAssumption DEF Message
  <2>2. m.run <= runs
    BY <2>1 DEF LeaseLifeInv, WireInv
  <2> QED  BY <2>1, <2>2
<1> QED  BY <1>1 DEF LeaseLifeInv, HeldInv, IAs

LEMMA StartDoraInv ==
  ASSUME LeaseLifeInv, StartDora
  PROVE  LeaseLifeInv'
<1>1. /\ proc = "down" /\ runs < MaxRuns /\ proc' = "dora" /\ runs' = runs + 1
      /\ saverPc' = "loop" /\ clean' = (clean /\ held = {})
      /\ UNCHANGED <<saveChan, leaseMap, interrupted, lease, cycle, dialled, inHand>>
      /\ UNCHANGED <<truncated, todo, confirmed, file, wire, handled, granted, held, kept>>
  BY DEF StartDora, StartSaver, dialVars, serverVars
<1>2. /\ runs \in Nat /\ runs + 1 \in 0..MaxRuns
      /\ wire \subseteq Message /\ inHand = {}
  BY <1>1, StateIs, LeaseLifeAssumption
<1>3. /\ saveChan = NoneQueued /\ leaseMap = NoLeases /\ lease = NoLeases
      /\ todo = {} /\ confirmed = {} /\ ~interrupted /\ ~truncated
  BY <1>1 DEF LeaseLifeInv, ProcessInv, Loads
<1>4. LeaseLifeTypeOK'
  BY <1>1, <1>2 DEF LeaseLifeInv, LeaseLifeTypeOK, SaverTypeOK
<1>5. ProcessInv'
  BY <1>1, <1>2, <1>3 DEF ProcessInv, Loads
<1>6. CurrentInv'
  <2>1. \A s \in Stack : DOMAIN (saveChan'[s]) = {}
    BY <1>1, <1>3 DEF NoneQueued
  <2> QED  BY <1>1, <1>2, <1>3, <2>1, NoneListed DEF CurrentInv
<1>7. FileInv' /\ WireInv' /\ GrantedInv' /\ HeldInv' /\ ConfirmedInv' /\ KeptInv'
  <2>1. runs' \in Nat /\ runs' >= runs
    BY <1>1, <1>2
  <2> QED  BY <1>1, <1>2, <1>3, <2>1, FileFrame, WireFrame, GrantedFrame, NewRun,
              ConfirmedFrame, KeptFrame DEF LeaseLifeInv
<1>8. CleanInv'
  BY <1>1, <1>3 DEF CleanInv
<1> QED  BY <1>4, <1>5, <1>6, <1>7, <1>8 DEF LeaseLifeInv

-----------------------------------------------------------------------------
(* The steps of the DORA run.                                              *)

LEMMA CtrlCInv ==
  ASSUME LeaseLifeInv, CtrlC
  PROVE  LeaseLifeInv'
<1>1. /\ proc \in {"dora", "flap"} /\ interrupted' = TRUE /\ clean' = FALSE
      /\ UNCHANGED <<saveChan, leaseMap, saverPc, proc, runs, lease, cycle, dialled>>
      /\ UNCHANGED <<inHand, truncated, todo, confirmed, file, wire, handled, granted>>
      /\ UNCHANGED <<held, kept>>
  BY DEF CtrlC, saverVars, dialVars, serverVars
<1>2. LeaseLifeTypeOK' /\ ProcessInv'
  BY <1>1 DEF LeaseLifeInv, LeaseLifeTypeOK, SaverTypeOK, ProcessInv, Loads
<1>3. /\ CurrentInv' /\ FileInv' /\ WireInv' /\ GrantedInv' /\ HeldInv'
      /\ ConfirmedInv' /\ KeptInv'
  BY <1>1, StateIs, CurrentFrame, FileFrame, WireFrame, GrantedFrame, HeldFrame,
     ConfirmedFrame, KeptFrame DEF LeaseLifeInv
<1>4. CleanInv'
  BY <1>1 DEF CleanInv
<1> QED  BY <1>2, <1>3, <1>4 DEF LeaseLifeInv

LEMMA StartFlappingInv ==
  ASSUME LeaseLifeInv, StartFlapping
  PROVE  LeaseLifeInv'
<1>1. /\ proc = "dora" /\ saverPc = "saved" /\ proc' = "flap" /\ clean' = FALSE
      /\ UNCHANGED <<saveChan, leaseMap, saverPc, runs, interrupted, lease, cycle>>
      /\ UNCHANGED <<dialled, inHand, truncated, todo, confirmed, file, wire, handled>>
      /\ UNCHANGED <<granted, held, kept>>
  BY DEF StartFlapping, saverVars, dialVars, serverVars
<1>2. todo = {} /\ confirmed = {}
  BY <1>1 DEF LeaseLifeInv, ProcessInv
<1>3. LeaseLifeTypeOK' /\ ProcessInv'
  BY <1>1 DEF LeaseLifeInv, LeaseLifeTypeOK, SaverTypeOK, ProcessInv, Loads
<1>4. CurrentInv'
  BY <1>1 DEF LeaseLifeInv, CurrentInv, QueuedInv, FromRun
<1>5. FileInv' /\ WireInv' /\ GrantedInv' /\ HeldInv' /\ ConfirmedInv' /\ KeptInv'
  BY <1>1, <1>2, StateIs, FileFrame, WireFrame, GrantedFrame, HeldFrame,
     ConfirmedFrame, KeptFrame DEF LeaseLifeInv
<1>6. CleanInv'
  BY <1>1 DEF CleanInv
<1> QED  BY <1>3, <1>4, <1>5, <1>6 DEF LeaseLifeInv

LEMMA StopSaverInv ==
  ASSUME LeaseLifeInv, StopSaver
  PROVE  LeaseLifeInv'
<1>1. /\ saverPc = "loop" /\ saverPc' = "encode"
      /\ interrupted \/ (inHand = {} /\ \A s \in Stack : saveChan[s] = <<>>)
      /\ UNCHANGED <<saveChan, leaseMap, proc, runs, interrupted, lease, cycle, dialled>>
      /\ UNCHANGED <<inHand, truncated, todo, confirmed, file, wire, handled, granted>>
      /\ UNCHANGED <<held, kept, clean>>
  BY DEF StopSaver, StopSaving, runVars, dialVars, serverVars, historyVars
<1>2. proc = "dora"
  BY <1>1, StateIs DEF LeaseLifeInv, ProcessInv
<1>3. LeaseLifeTypeOK' /\ ProcessInv'
  BY <1>1, <1>2 DEF LeaseLifeInv, LeaseLifeTypeOK, SaverTypeOK, ProcessInv, Loads
<1>4. /\ CurrentInv' /\ FileInv' /\ WireInv' /\ GrantedInv' /\ HeldInv'
      /\ ConfirmedInv' /\ KeptInv'
  BY <1>1, StateIs, CurrentFrame, FileFrame, WireFrame, GrantedFrame, HeldFrame,
     ConfirmedFrame, KeptFrame DEF LeaseLifeInv
<1>5. CleanInv'
  <2>1. SUFFICES ASSUME clean PROVE CleanInv'
    BY <1>1 DEF CleanInv
  <2>2. ~interrupted /\ inHand = {} /\ \A s \in Stack : saveChan[s] = <<>>
    BY <1>1, <2>1 DEF LeaseLifeInv, CleanInv
  <2>3. saveChan = NoneQueued
    BY <2>2, StateIs DEF SaverTypeOK, NoneQueued
  <2>4. ASSUME NEW b \in held
        PROVE  \E c \in Client, s \in Stack :
                 /\ lease[c][s] # NoLease
                 /\ b[1] = BindingOf(c, s, lease[c][s])
                 /\ OnItsWay(c, s)
    BY <1>2, <2>1 DEF LeaseLifeInv, CleanInv
  <2>5. \A c \in Client, s \in Stack :
          OnItsWay(c, s)' = OnItsWay(c, s) /\ \A l : BindingOf(c, s, l)' = BindingOf(c, s, l)
    BY <1>1 DEF OnItsWay, BindingOf
  <2> QED  BY <1>1, <1>2, <2>2, <2>3, <2>4, <2>5 DEF CleanInv
<1> QED  BY <1>3, <1>4, <1>5 DEF LeaseLifeInv

LEMMA TruncateInv ==
  ASSUME LeaseLifeInv, Truncate
  PROVE  LeaseLifeInv'
<1>1. /\ saverPc = "encode" /\ truncated' = TRUE /\ kept' = FALSE
      /\ file' = [state |-> "partial", map |-> NoLeases]
      /\ UNCHANGED <<saveChan, leaseMap, saverPc, proc, runs, interrupted, lease, cycle>>
      /\ UNCHANGED <<dialled, inHand, todo, confirmed, wire, handled, granted, held, clean>>
  BY DEF Truncate, saverVars, dialVars, serverVars
<1>2. proc = "dora"
  BY <1>1, StateIs DEF LeaseLifeInv, ProcessInv
<1>3. file'.state = "partial" /\ file'.map = NoLeases
  BY <1>1
<1>4. LeaseLifeTypeOK' /\ ProcessInv'
  BY <1>1, <1>2, <1>3, NoneListed
     DEF LeaseLifeInv, LeaseLifeTypeOK, SaverTypeOK, ProcessInv, Loads
<1>5. CurrentInv' /\ WireInv' /\ GrantedInv' /\ HeldInv' /\ ConfirmedInv'
  BY <1>1, StateIs, CurrentFrame, WireFrame, GrantedFrame, HeldFrame, ConfirmedFrame
     DEF LeaseLifeInv
<1>6. FileInv' /\ KeptInv'
  BY <1>1, <1>3 DEF FileInv, FileIsOneRun, KeptInv
<1>7. CleanInv'
  <2>1. SUFFICES ASSUME clean PROVE CleanInv'
    BY <1>1 DEF CleanInv
  <2>2. ASSUME NEW b \in held
        PROVE  \E c \in Client, s \in Stack :
                 /\ lease[c][s] # NoLease
                 /\ b[1] = BindingOf(c, s, lease[c][s])
                 /\ OnItsWay(c, s)
    BY <1>2, <2>1 DEF LeaseLifeInv, CleanInv
  <2>3. \A c \in Client, s \in Stack :
          OnItsWay(c, s)' = OnItsWay(c, s) /\ \A l : BindingOf(c, s, l)' = BindingOf(c, s, l)
    BY <1>1 DEF OnItsWay, BindingOf
  <2>4. ~interrupted /\ inHand = {} /\ saveChan = NoneQueued
    BY <1>1, <2>1 DEF LeaseLifeInv, CleanInv
  <2> QED  BY <1>1, <1>2, <2>2, <2>3, <2>4 DEF CleanInv
<1> QED  BY <1>4, <1>5, <1>6, <1>7 DEF LeaseLifeInv

LEMMA WriteFileInv ==
  ASSUME LeaseLifeInv, WriteFile
  PROVE  LeaseLifeInv'
<1>1. /\ saverPc = "encode" /\ saverPc' = "saved" /\ kept' = ~ReleaseNames(leaseMap)
      /\ file' = [state |-> "whole", map |-> leaseMap]
      /\ UNCHANGED <<saveChan, leaseMap, proc, runs, interrupted, lease, cycle, dialled>>
      /\ UNCHANGED <<inHand, truncated, todo, confirmed, wire, handled, granted, held, clean>>
  BY DEF WriteFile, WriteLeases, runVars, dialVars, serverVars
<1>2. proc = "dora" /\ runs \in 1..runs
  BY <1>1, StateIs DEF LeaseLifeInv, ProcessInv
<1>3. /\ leaseMap \in [Client -> [Stack -> Lease]]
      /\ file'.state = "whole" /\ file'.map = leaseMap
  BY <1>1, StateIs DEF Map
<1>4. kept' \in BOOLEAN
  BY <1>1 DEF ReleaseNames
<1>5. LeaseLifeTypeOK' /\ ProcessInv'
  BY <1>1, <1>2, <1>3, <1>4 DEF LeaseLifeInv, LeaseLifeTypeOK, SaverTypeOK, ProcessInv, Loads
<1>6. CurrentInv' /\ WireInv' /\ GrantedInv' /\ HeldInv' /\ ConfirmedInv'
  BY <1>1, StateIs, CurrentFrame, WireFrame, GrantedFrame, HeldFrame, ConfirmedFrame
     DEF LeaseLifeInv
<1>7. FileInv'
  <2>1. \A c \in Client, s \in Stack :
          leaseMap[c][s] # NoLease => FromRun(c, s, leaseMap[c][s], runs)
    BY DEF LeaseLifeInv, CurrentInv
  <2> QED  BY <1>1, <1>2, <1>3, <2>1 DEF FileInv, FileIsOneRun, FromRun
<1>8. KeptInv'
  <2>1. ReleaseNames(file.map)' = ReleaseNames(leaseMap)
    BY <1>1, <1>3 DEF ReleaseNames, BindingOf
  <2> QED  BY <1>1, <1>2, <1>3, <2>1 DEF KeptInv
<1>9. CleanInv'
  <2>1. SUFFICES ASSUME clean PROVE CleanInv'
    BY <1>1 DEF CleanInv
  <2>2. ASSUME NEW b \in held
        PROVE  \E c \in Client, s \in Stack :
                 /\ lease[c][s] # NoLease
                 /\ b[1] = BindingOf(c, s, lease[c][s])
                 /\ OnItsWay(c, s)
    BY <1>2, <2>1 DEF LeaseLifeInv, CleanInv
  <2>3. \A c \in Client, s \in Stack :
          OnItsWay(c, s)' = OnItsWay(c, s) /\ \A l : BindingOf(c, s, l)' = BindingOf(c, s, l)
    BY <1>1 DEF OnItsWay, BindingOf
  <2>4. ~interrupted /\ inHand = {} /\ saveChan = NoneQueued
    BY <1>1, <2>1 DEF LeaseLifeInv, CleanInv
  <2> QED  BY <1>1, <1>2, <1>3, <2>2, <2>3, <2>4 DEF CleanInv
<1> QED  BY <1>5, <1>6, <1>7, <1>8, <1>9 DEF LeaseLifeInv

LEMMA FlapOnInv ==
  ASSUME LeaseLifeInv, NEW c \in Client, FlapOn(c)
  PROVE  LeaseLifeInv'
<1> DEFINE at == NextInCycle(cycle[c])
           release == Transactions(lease) \cap {<<c, at>>}
<1>1. /\ proc = "flap"
      /\ (todo \cup inHand) \cap ({c} \X Stack) = {}
      /\ cycle' = [cycle EXCEPT ![c] = at]
      /\ todo' = todo \cup release
      /\ dialled' = IF at = "dial" THEN dialled \ ({c} \X Stack) ELSE dialled
      /\ kept' = (kept /\ release = {})
      /\ UNCHANGED <<saveChan, leaseMap, saverPc, proc, runs, interrupted, lease, inHand>>
      /\ UNCHANGED <<truncated, confirmed, file, wire, handled, granted, held, clean>>
  BY DEF FlapOn, FlapCycle, saverVars, serverVars
<1>2. at \in {"dial", "v4", "v6"}
  BY DEF NextInCycle, LeaseLifeInv, LeaseLifeTypeOK
<1>3. \A t \in release : t \in Client \X Stack /\ lease[t[1]][t[2]] # NoLease
  BY DEF Transactions
<1> HIDE DEF at, release
<1>4. LeaseLifeTypeOK'
  <2>1. inHand \subseteq dialled'
    BY <1>1, StateIs
  <2>2. cycle' \in [Client -> {"dial", "v4", "v6"}]
    BY <1>1, <1>2 DEF LeaseLifeInv, LeaseLifeTypeOK
  <2>3. dialled' \cup todo' \cup confirmed' \subseteq Client \X Stack
    BY <1>1, <1>3, StateIs
  <2> QED  BY <1>1, <2>1, <2>2, <2>3 DEF LeaseLifeInv, LeaseLifeTypeOK, SaverTypeOK
<1>5. ProcessInv'
  BY <1>1 DEF LeaseLifeInv, ProcessInv, Loads
<1>6. CurrentInv'
  <2>1. \A d \in Client, s \in Stack : <<d, s>> \in release => lease[d][s] # NoLease
    BY <1>3
  <2> QED  BY <1>1, <2>1 DEF LeaseLifeInv, CurrentInv, QueuedInv, FromRun
<1>7. FileInv' /\ WireInv' /\ GrantedInv' /\ HeldInv' /\ ConfirmedInv'
  BY <1>1, StateIs, FileFrame, WireFrame, GrantedFrame, HeldFrame, ConfirmedFrame
     DEF LeaseLifeInv
<1>8. KeptInv'
  <2>1. ReleaseNames(file.map)' = ReleaseNames(file.map)
    BY <1>1 DEF ReleaseNames, BindingOf
  <2> QED  BY <1>1, <2>1 DEF LeaseLifeInv, KeptInv
<1>9. CleanInv'
  BY <1>1, CleanFrame DEF LeaseLifeInv
<1> QED  BY <1>4, <1>5, <1>6, <1>7, <1>8, <1>9 DEF LeaseLifeInv

LEMMA HandToSaverInv ==
  ASSUME LeaseLifeInv, NEW c \in Client, NEW s \in Stack, HandToSaver(c, s)
  PROVE  LeaseLifeInv'
<1> DEFINE m == [id |-> c, lease |-> lease[c][s]]
           q == saveChan[s]
<1>1. /\ <<c, s>> \in inHand
      /\ Len(q) < SaveChanDepth
      /\ saveChan' = [saveChan EXCEPT ![s] = Append(q, m)]
      /\ inHand' = inHand \ {<<c, s>>}
      /\ UNCHANGED <<leaseMap, saverPc, proc, runs, interrupted, lease, cycle, dialled>>
      /\ UNCHANGED <<truncated, todo, confirmed, file, wire, handled, granted, held>>
      /\ UNCHANGED <<clean, kept>>
  BY DEF HandToSaver, SendLease, serverVars, historyVars
<1>2. /\ proc \in {"dora", "flap"}
      /\ saveChan \in [Stack -> Seq(LeaseWithID)] /\ lease \in Map
  BY <1>1, StateIs DEF SaverTypeOK
<1>3. /\ lease[c][s] # NoLease
      /\ FromRun(c, s, lease[c][s], runs)
  BY <1>1, <1>2 DEF LeaseLifeInv, CurrentInv
<1>4. m \in LeaseWithID /\ q \in Seq(LeaseWithID) /\ m.id = c /\ m.lease = lease[c][s]
  BY <1>2 DEF LeaseWithID, Map
<1>5. /\ saveChan' \in [Stack -> Seq(LeaseWithID)]
      /\ saveChan'[s] = Append(q, m)
      /\ \A t \in Stack : t # s => saveChan'[t] = saveChan[t]
      /\ Append(q, m) \in Seq(LeaseWithID) /\ Len(Append(q, m)) <= SaveChanDepth
  BY <1>1, <1>2, <1>4, Sending, SaverAssumption
<1>6. /\ \E k \in DOMAIN Append(q, m) : Append(q, m)[k] = m
      /\ \A k \in DOMAIN q : k \in DOMAIN Append(q, m) /\ Append(q, m)[k] = q[k]
      /\ \A k \in DOMAIN Append(q, m) :
           Append(q, m)[k] = m \/ \E j \in DOMAIN q : Append(q, m)[k] = q[j]
  BY <1>4, Sending
<1>7. m = [id |-> c, lease |-> lease[c][s]]
  OBVIOUS
<1> HIDE DEF m
<1>8. LeaseLifeTypeOK'
  <2>1. SaverTypeOK'
    BY <1>1, <1>5 DEF LeaseLifeInv, LeaseLifeTypeOK, SaverTypeOK
  <2> QED  BY <1>1, <2>1 DEF LeaseLifeInv, LeaseLifeTypeOK
<1>9. ProcessInv'
  BY <1>1, <1>2 DEF LeaseLifeInv, ProcessInv, Loads
<1>10. CurrentInv'
  <2>1. ASSUME NEW t \in Stack, NEW k \in DOMAIN saveChan'[t]
        PROVE  QueuedInv(t, saveChan'[t][k])
    <3>1. \/ t = s /\ saveChan'[t][k] = m
          \/ \E j \in DOMAIN saveChan[t] : saveChan'[t][k] = saveChan[t][j]
      <4>1. CASE t = s
        BY <1>5, <1>6, <4>1
      <4>2. CASE t # s
        BY <1>5, <4>2
      <4> QED  BY <4>1, <4>2
    <3>2. CASE t = s /\ saveChan'[t][k] = m
      BY <1>3, <1>4, <3>2 DEF QueuedInv
    <3>3. CASE \E j \in DOMAIN saveChan[t] : saveChan'[t][k] = saveChan[t][j]
      BY <3>3 DEF LeaseLifeInv, CurrentInv
    <3> QED  BY <3>1, <3>2, <3>3
  <2>2. ASSUME NEW t \in Stack, NEW k \in DOMAIN saveChan'[t]
        PROVE  QueuedInv(t, saveChan[t][k])'
    <3> DEFINE n == saveChan'[t][k]
    <3>1. n.lease # NoLease /\ FromRun(n.id, t, n.lease, runs)
          /\ (proc = "dora" => n.lease = lease[n.id][t])
      BY <2>1 DEF QueuedInv
    <3>2. FromRun(n.id, t, n.lease, runs) =
              (n.lease \in DOMAIN granted'[n.id][t] /\
               granted'[n.id][t][n.lease].run = runs')
      BY <1>1 DEF FromRun
    <3>3. proc' = proc /\ lease' = lease
      BY <1>1
    <3> QED  BY <3>1, <3>2, <3>3 DEF QueuedInv, FromRun
  <2>3. \A d \in Client, t \in Stack : \A l : FromRun(d, t, l, runs)' = FromRun(d, t, l, runs)
    BY <1>1 DEF FromRun
  <2> QED  BY <1>1, <2>2, <2>3 DEF LeaseLifeInv, CurrentInv
<1>11. FileInv' /\ WireInv' /\ GrantedInv' /\ HeldInv' /\ ConfirmedInv' /\ KeptInv'
  BY <1>1, StateIs, FileFrame, WireFrame, GrantedFrame, HeldFrame, ConfirmedFrame, KeptFrame
     DEF LeaseLifeInv
<1>12. CleanInv'
  <2>1. SUFFICES ASSUME clean PROVE CleanInv'
    BY <1>1 DEF CleanInv
  <2>2. ~interrupted /\ proc = "dora" /\ saverPc \notin {"encode", "saved"}
    BY <1>1, <1>2, <2>1 DEF LeaseLifeInv, CleanInv
  <2>3. ASSUME NEW b \in held
        PROVE  \E d \in Client, t \in Stack :
                 /\ lease[d][t] # NoLease
                 /\ b[1] = BindingOf(d, t, lease[d][t])
                 /\ OnItsWay(d, t)'
    <3>1. PICK d \in Client, t \in Stack :
            /\ lease[d][t] # NoLease
            /\ b[1] = BindingOf(d, t, lease[d][t])
            /\ OnItsWay(d, t)
      BY <2>1, <2>2 DEF LeaseLifeInv, CleanInv
    <3>2. OnItsWay(d, t)'
      <4>1. CASE <<d, t>> = <<c, s>>
        BY <1>1, <1>5, <1>6, <1>7, <4>1 DEF OnItsWay
      <4>2. CASE <<d, t>> # <<c, s>> /\ <<d, t>> \in inHand
        BY <1>1, <4>2 DEF OnItsWay
      <4>3. CASE \E k \in DOMAIN saveChan[t] : saveChan[t][k] = [id |-> d, lease |-> lease[d][t]]
        <5>1. CASE t = s
          BY <1>1, <1>5, <1>6, <4>3, <5>1 DEF OnItsWay
        <5>2. CASE t # s
          BY <1>1, <1>5, <4>3, <5>2 DEF OnItsWay
        <5> QED  BY <5>1, <5>2
      <4>4. CASE leaseMap[d][t] = lease[d][t]
        BY <1>1, <4>4 DEF OnItsWay
      <4> QED  BY <3>1, <4>1, <4>2, <4>3, <4>4 DEF OnItsWay
    <3> QED  BY <3>1, <3>2
  <2>4. \A d \in Client, t \in Stack : \A l : BindingOf(d, t, l)' = BindingOf(d, t, l)
    BY <1>1 DEF BindingOf
  <2> QED  BY <1>1, <2>2, <2>3, <2>4 DEF CleanInv
<1> QED  BY <1>8, <1>9, <1>10, <1>11, <1>12 DEF LeaseLifeInv

LEMMA SaveOneInv ==
  ASSUME LeaseLifeInv, NEW s \in Stack, SaveOne(s),
         UNCHANGED <<runVars, file, serverVars, historyVars>>
  PROVE  LeaseLifeInv'
<1> DEFINE q == saveChan[s]
           m == Head(q)
<1>1. /\ saverPc = "loop" /\ saverPc' = saverPc
      /\ q # <<>>
      /\ leaseMap' = Merge(leaseMap, m.id, s, m.lease)
      /\ saveChan' = [saveChan EXCEPT ![s] = Tail(q)]
      /\ UNCHANGED <<proc, runs, interrupted, lease, cycle, dialled, inHand, truncated>>
      /\ UNCHANGED <<todo, confirmed, file, wire, handled, granted, held, clean, kept>>
  BY DEF SaveOne, runVars, dialVars, serverVars, historyVars
<1>2. /\ proc = "dora"
      /\ saveChan \in [Stack -> Seq(LeaseWithID)] /\ leaseMap \in Map
      /\ \A t \in Stack : Len(saveChan[t]) <= SaveChanDepth
  BY <1>1, StateIs DEF SaverTypeOK, LeaseLifeInv, ProcessInv
<1>3. /\ m \in LeaseWithID
      /\ Tail(q) \in Seq(LeaseWithID) /\ Len(Tail(q)) <= SaveChanDepth
      /\ \E j \in DOMAIN q : m = q[j]
      /\ \A k \in DOMAIN Tail(q) : \E j \in DOMAIN q : Tail(q)[k] = q[j]
      /\ \A j \in DOMAIN q : q[j] = m \/ \E k \in DOMAIN Tail(q) : q[j] = Tail(q)[k]
  <2>1. q \in Seq(LeaseWithID)
    BY <1>2
  <2> HIDE DEF q
  <2>2. Len(q) <= SaveChanDepth
    BY <1>2 DEF q
  <2> QED  BY <1>1, <2>1, <2>2, Receiving, SaverAssumption
<1>4. /\ saveChan' \in [Stack -> Seq(LeaseWithID)]
      /\ saveChan'[s] = Tail(q) /\ saveChan[s] = q
      /\ \A t \in Stack : t # s => saveChan'[t] = saveChan[t]
  BY <1>1, <1>2, <1>3
<1>5. /\ m.lease # NoLease /\ FromRun(m.id, s, m.lease, runs)
      /\ m.lease = lease[m.id][s]
  BY <1>2, <1>3 DEF LeaseLifeInv, CurrentInv, QueuedInv
<1>6. /\ m.id \in Client
      /\ leaseMap' \in Map
      /\ leaseMap'[m.id][s] = m.lease
      /\ \A d \in Client, t \in Stack :
           <<d, t>> # <<m.id, s>> => leaseMap'[d][t] = leaseMap[d][t]
  <2>1. m.id \in Client /\ m.lease \in Lease
    BY <1>3 DEF LeaseWithID
  <2> HIDE DEF m
  <2> QED  BY <1>1, <1>2, <2>1, MergeIs
<1> HIDE DEF q, m
<1>7. LeaseLifeTypeOK'
  <2>1. SaverTypeOK'
    BY <1>1, <1>2, <1>3, <1>4, <1>6 DEF LeaseLifeInv, LeaseLifeTypeOK, SaverTypeOK, Map
  <2> QED  BY <1>1, <2>1 DEF LeaseLifeInv, LeaseLifeTypeOK
<1>8. ProcessInv'
  BY <1>1, <1>2 DEF LeaseLifeInv, ProcessInv, Loads
<1>9. CurrentInv'
  <2>1. ASSUME NEW t \in Stack, NEW k \in DOMAIN saveChan'[t]
        PROVE  \E j \in DOMAIN saveChan[t] : saveChan'[t][k] = saveChan[t][j]
    <3>1. CASE t = s
      BY <1>3, <1>4, <3>1
    <3>2. CASE t # s
      BY <1>4, <3>2
    <3> QED  BY <3>1, <3>2
  <2>2. ASSUME NEW d \in Client, NEW t \in Stack, leaseMap'[d][t] # NoLease
        PROVE  FromRun(d, t, leaseMap'[d][t], runs)
    <3>1. CASE <<d, t>> = <<m.id, s>>
      BY <1>5, <1>6, <3>1
    <3>2. CASE <<d, t>> # <<m.id, s>>
      BY <1>6, <2>2, <3>2 DEF LeaseLifeInv, CurrentInv
    <3> QED  BY <3>1, <3>2
  <2>3. ASSUME NEW t \in Stack, NEW k \in DOMAIN saveChan'[t]
        PROVE  QueuedInv(t, saveChan'[t][k])
    BY <2>1 DEF LeaseLifeInv, CurrentInv
  <2>4. ASSUME NEW t \in Stack, NEW k \in DOMAIN saveChan'[t]
        PROVE  QueuedInv(t, saveChan[t][k])'
    <3> DEFINE n == saveChan'[t][k]
    <3>1. n.lease # NoLease /\ FromRun(n.id, t, n.lease, runs)
          /\ (proc = "dora" => n.lease = lease[n.id][t])
      BY <2>3 DEF QueuedInv
    <3>2. FromRun(n.id, t, n.lease, runs) =
              (n.lease \in DOMAIN granted'[n.id][t] /\
               granted'[n.id][t][n.lease].run = runs')
      BY <1>1 DEF FromRun
    <3>3. proc' = proc /\ lease' = lease
      BY <1>1
    <3> QED  BY <3>1, <3>2, <3>3 DEF QueuedInv, FromRun
  <2>5. \A d \in Client, t \in Stack : \A l : FromRun(d, t, l, runs)' = FromRun(d, t, l, runs)
    BY <1>1 DEF FromRun
  <2> QED  BY <1>1, <2>2, <2>4, <2>5 DEF LeaseLifeInv, CurrentInv
<1>10. FileInv' /\ WireInv' /\ GrantedInv' /\ HeldInv' /\ ConfirmedInv' /\ KeptInv'
  BY <1>1, StateIs, FileFrame, WireFrame, GrantedFrame, HeldFrame, ConfirmedFrame, KeptFrame
     DEF LeaseLifeInv
<1>11. ASSUME NEW d \in Client, NEW t \in Stack, OnItsWay(d, t)
       PROVE  OnItsWay(d, t)'
  <2>1. CASE <<d, t>> = <<m.id, s>>
    BY <1>1, <1>5, <1>6, <2>1 DEF OnItsWay
  <2>2. CASE <<d, t>> \in inHand
    BY <1>1, <2>2 DEF OnItsWay
  <2>3. CASE /\ <<d, t>> # <<m.id, s>>
             /\ \E k \in DOMAIN saveChan[t] : saveChan[t][k] = [id |-> d, lease |-> lease[d][t]]
    <3>1. PICK k \in DOMAIN saveChan[t] : saveChan[t][k] = [id |-> d, lease |-> lease[d][t]]
      BY <2>3
    <3>2. CASE t = s
      <4>1. q[k] # m /\ k \in DOMAIN q
        BY <1>4, <2>3, <3>1, <3>2
      <4>2. \E j \in DOMAIN Tail(q) : q[k] = Tail(q)[j]
        BY <1>3, <4>1
      <4> QED  BY <1>1, <1>4, <3>1, <3>2, <4>2 DEF OnItsWay
    <3>3. CASE t # s
      BY <1>1, <1>4, <3>1, <3>3 DEF OnItsWay
    <3> QED  BY <3>2, <3>3
  <2>4. CASE <<d, t>> # <<m.id, s>> /\ leaseMap[d][t] = lease[d][t]
    BY <1>1, <1>6, <2>4 DEF OnItsWay
  <2> QED  BY <1>11, <2>1, <2>2, <2>3, <2>4 DEF OnItsWay
<1>12. CleanInv'
  <2>1. SUFFICES ASSUME clean PROVE CleanInv'
    BY <1>1 DEF CleanInv
  <2>2. ~interrupted /\ saverPc \notin {"encode", "saved"}
    BY <1>1, <2>1 DEF LeaseLifeInv, CleanInv
  <2>3. ASSUME NEW b \in held
        PROVE  \E d \in Client, t \in Stack :
                 /\ lease[d][t] # NoLease
                 /\ b[1] = BindingOf(d, t, lease[d][t])
                 /\ OnItsWay(d, t)'
    BY <1>2, <1>11, <2>1 DEF LeaseLifeInv, CleanInv
  <2>4. \A d \in Client, t \in Stack : \A l : BindingOf(d, t, l)' = BindingOf(d, t, l)
    BY <1>1 DEF BindingOf
  <2> QED  BY <1>1, <1>2, <2>2, <2>3, <2>4 DEF CleanInv
<1> QED  BY <1>7, <1>8, <1>9, <1>10, <1>12 DEF LeaseLifeInv

\* The binding of a lease in the history g.
At(g, c, s, l) == [id |-> c, stack |-> s, address |-> g[c][s][l].address]

\* The history with one more lease.
With(c, s, a) ==
  [granted EXCEPT ![c][s] = Append(granted[c][s], [run |-> runs, address |-> a])]

\* A lease granted is numbered after those before it, which stay as they are.
LEMMA Granting ==
  ASSUME LeaseLifeInv, NEW c \in Client, NEW s \in Stack, NEW a \in Address,
         granted' = With(c, s, a),
         runs \in 1..MaxRuns,
         NEW new \in Nat, new = Len(granted[c][s]) + 1
  PROVE  /\ new \in Lease
         /\ granted' \in [Client -> [Stack -> Seq(Grant)]]
         /\ Len(granted[c][s]) \in Nat /\ Len(granted'[c][s]) = new
         /\ new # NoLease /\ new \notin DOMAIN granted[c][s]
         /\ granted'[c][s][new].run = runs
         /\ At(granted', c, s, new) = [id |-> c, stack |-> s, address |-> a]
         /\ DOMAIN (granted'[c][s]) = DOMAIN granted[c][s] \cup {new}
         /\ \A d \in Client, t \in Stack : \A k \in DOMAIN granted[d][t] :
              /\ k \in DOMAIN (granted'[d][t]) /\ granted'[d][t][k] = granted[d][t][k]
              /\ At(granted', d, t, k) = BindingOf(d, t, k)
         /\ \A d \in Client, t \in Stack :
              <<d, t>> # <<c, s>> => granted'[d][t] = granted[d][t]
<1> DEFINE q == granted[c][s]
           g == [run |-> runs, address |-> a]
<1>1. granted \in [Client -> [Stack -> Seq(Grant)]] /\ g \in Grant /\ q \in Seq(Grant)
  BY StateIs DEF Grant
<1>2. g.run = runs /\ g.address = a
  OBVIOUS
<1> HIDE DEF g
<1>3. /\ Append(q, g) \in Seq(Grant)
      /\ Len(Append(q, g)) = new
      /\ \A i \in 1..Len(q) : Append(q, g)[i] = q[i]
      /\ Append(q, g)[new] = g
  BY <1>1, AppendProperties
<1>4. /\ Len(q) \in Nat /\ DOMAIN q = 1..Len(q)
      /\ DOMAIN Append(q, g) = 1..new
  BY <1>1, <1>3, LenProperties
<1>5. /\ granted' \in [Client -> [Stack -> Seq(Grant)]]
      /\ granted'[c][s] = Append(q, g)
      /\ \A d \in Client, t \in Stack :
           <<d, t>> # <<c, s>> => granted'[d][t] = granted[d][t]
  BY <1>1, <1>3 DEF g, With
<1>6. \A d \in Client, t \in Stack : \A k \in DOMAIN granted[d][t] :
        /\ k \in DOMAIN (granted'[d][t])
        /\ granted'[d][t][k] = granted[d][t][k]
  <2>1. SUFFICES ASSUME NEW d \in Client, NEW t \in Stack, NEW k \in DOMAIN granted[d][t]
                 PROVE  /\ k \in DOMAIN (granted'[d][t])
                        /\ granted'[d][t][k] = granted[d][t][k]
    OBVIOUS
  <2>2. CASE <<d, t>> = <<c, s>>
    <3>1. granted[d][t] = q /\ granted'[d][t] = Append(q, g)
      BY <1>5, <2>2
    <3>2. k \in 1..Len(q) /\ k \in 1..new
      BY <1>4, <3>1
    <3> HIDE DEF q
    <3> QED  BY <1>3, <1>4, <3>1, <3>2
  <2>3. CASE <<d, t>> # <<c, s>>
    BY <1>5, <2>3
  <2> QED  BY <2>2, <2>3
<1>7. new \in DOMAIN (granted'[c][s]) /\ granted'[c][s][new] = g
  BY <1>3, <1>4, <1>5
<1>8. DOMAIN (granted'[c][s]) = DOMAIN granted[c][s] \cup {new} /\ new \notin DOMAIN granted[c][s]
  BY <1>4, <1>5
<1>9. \A d \in Client, t \in Stack : \A k \in DOMAIN granted[d][t] :
        At(granted', d, t, k) = BindingOf(d, t, k)
  BY <1>6 DEF At, BindingOf
<1>10. At(granted', c, s, new) = [id |-> c, stack |-> s, address |-> a]
  BY <1>2, <1>7 DEF At
<1>11. new # NoLease /\ new \in Lease
  BY <1>4 DEF NoLease, Lease
<1>12. granted'[c][s][new].run = runs /\ Len(granted'[c][s]) = new
  BY <1>2, <1>3, <1>5, <1>7
<1>13. new = Len(granted[c][s]) + 1 /\ Len(granted[c][s]) \in Nat
  BY <1>4
<1>14. \A d \in Client, t \in Stack : \A k \in DOMAIN granted[d][t] :
         /\ k \in DOMAIN (granted'[d][t]) /\ granted'[d][t][k] = granted[d][t][k]
         /\ At(granted', d, t, k) = BindingOf(d, t, k)
  BY <1>6, <1>9, Zenon
<1>15. /\ new \in Lease /\ new # NoLease /\ Len(granted[c][s]) \in Nat
       /\ Len(granted'[c][s]) = new /\ new \notin DOMAIN granted[c][s]
  BY <1>8, <1>11, <1>12, <1>13, Zenon
<1> HIDE DEF q
<1> QED  BY <1>5, <1>8, <1>10, <1>12, <1>14, <1>15, Zenon

LEMMA DialInv ==
  ASSUME LeaseLifeInv, NEW c \in Client, NEW s \in Stack, Dial(c, s)
  PROVE  LeaseLifeInv'
<1>0. PICK new \in Nat : new = Len(granted[c][s]) + 1
  <2>1. granted[c][s] \in Seq(Grant)
    BY StateIs
  <2> QED  BY <2>1, LenProperties
<1>1. PICK a \in Address :
        /\ granted' = [granted EXCEPT ![c][s] = Append(@, [run |-> runs, address |-> a])]
        /\ held' = held \cup {[id |-> c, stack |-> s, address |-> a]} \X IAs(s)
  BY DEF Dial
<1> DEFINE binding == [id |-> c, stack |-> s, address |-> a]
<1>2. /\ proc = "flap" \/ (proc = "dora" /\ (saverPc = "loop" \/ interrupted))
      /\ <<c, s>> \notin dialled
      /\ Len(granted[c][s]) < MaxLeases
      /\ lease' = [lease EXCEPT ![c][s] = new]
      /\ dialled' = dialled \cup {<<c, s>>}
      /\ confirmed' = confirmed \ {<<c, s>>}
      /\ \/ inHand' = inHand \cup {<<c, s>>} /\ UNCHANGED clean
         \/ UNCHANGED inHand /\ clean' = FALSE
      /\ UNCHANGED <<saveChan, leaseMap, saverPc, proc, runs, interrupted, cycle>>
      /\ UNCHANGED <<truncated, todo, file, wire, handled, kept>>
  BY <1>0 DEF Dial, saverVars
<1>3. runs \in 1..MaxRuns /\ runs \in Nat /\ proc \in {"dora", "flap"}
  BY <1>2, StateIs
<1>4. /\ granted' \in [Client -> [Stack -> Seq(Grant)]]
      /\ Len(granted[c][s]) \in Nat /\ Len(granted'[c][s]) = new
      /\ new # NoLease /\ new \in Lease /\ new \notin DOMAIN granted[c][s]
      /\ granted'[c][s][new].run = runs
      /\ At(granted', c, s, new) = binding
      /\ DOMAIN (granted'[c][s]) = DOMAIN granted[c][s] \cup {new}
      /\ \A d \in Client, t \in Stack : \A k \in DOMAIN granted[d][t] :
           /\ k \in DOMAIN (granted'[d][t]) /\ granted'[d][t][k] = granted[d][t][k]
           /\ At(granted', d, t, k) = BindingOf(d, t, k)
      /\ \A d \in Client, t \in Stack :
           <<d, t>> # <<c, s>> => granted'[d][t] = granted[d][t]
  <2>1. granted' = With(c, s, a)
    BY <1>1 DEF With
  <2> HIDE DEF binding
  <2>2. binding = [id |-> c, stack |-> s, address |-> a]
    BY DEF binding
  <2> QED  BY <1>0, <1>3, <2>1, <2>2, Granting
<1>5. /\ binding \in Binding /\ IAs(s) \subseteq IA
      /\ binding.id = c /\ binding.stack = s
  BY DEF Binding, IAs, IA
<1>6. /\ lease' \in Map /\ lease'[c][s] = new
      /\ \A d \in Client, t \in Stack : <<d, t>> # <<c, s>> => lease'[d][t] = lease[d][t]
  <2>1. lease \in Map /\ new \in Lease
    BY <1>4, StateIs
  <2> QED  BY <1>2, <2>1 DEF Map
<1>7. \A d \in Client, t \in Stack : \A l, r :
        FromRun(d, t, l, r) =>
          l \in DOMAIN (granted'[d][t]) /\ granted'[d][t][l].run = r
  BY <1>4 DEF FromRun
<1> HIDE DEF binding
<1>8. LeaseLifeTypeOK'
  <2>1. \A d \in Client, t \in Stack : Len(granted'[d][t]) <= MaxLeases
    <3>1. ASSUME NEW d \in Client, NEW t \in Stack
          PROVE  Len(granted'[d][t]) <= MaxLeases
      <4>1. CASE <<d, t>> = <<c, s>>
        BY <1>0, <1>2, <1>4, <4>1, LeaseLifeAssumption
      <4>2. CASE <<d, t>> # <<c, s>>
        BY <1>4, <4>2 DEF LeaseLifeInv, LeaseLifeTypeOK
      <4> QED  BY <4>1, <4>2
    <3> QED  BY <3>1
  <2>2. held' \subseteq Binding \X IA
    BY <1>1, <1>5, StateIs DEF binding
  <2>3. inHand' \subseteq dialled'
    BY <1>2, StateIs
  <2>4. dialled' \cup todo' \cup confirmed' \subseteq Client \X Stack
    BY <1>2, StateIs
  <2>5. {file'.map, lease'} \subseteq [Client -> [Stack -> Lease]]
    BY <1>2, <1>6, StateIs DEF Map
  <2>6. clean' \in BOOLEAN
    BY <1>2 DEF LeaseLifeInv, LeaseLifeTypeOK
  <2>7. SaverTypeOK'
    BY <1>2, StateIs DEF SaverTypeOK
  <2> QED  BY <1>2, <1>4, <2>1, <2>2, <2>3, <2>4, <2>5, <2>6, <2>7
              DEF LeaseLifeInv, LeaseLifeTypeOK
<1>9. ProcessInv'
  <2>1. proc = "dora" => confirmed' = {} /\ todo' = {}
    BY <1>2 DEF LeaseLifeInv, ProcessInv
  <2> QED  BY <1>2, <1>3, <2>1 DEF LeaseLifeInv, ProcessInv, Loads
<1>10. CurrentInv'
  <2>1. ASSUME NEW d \in Client, NEW t \in Stack, lease'[d][t] # NoLease
        PROVE  /\ lease'[d][t] \in DOMAIN (granted'[d][t])
               /\ granted'[d][t][lease'[d][t]].run = runs
               /\ proc = "dora" => <<d, t>> \in dialled'
    <3>1. CASE <<d, t>> = <<c, s>>
      BY <1>2, <1>4, <1>6, <3>1
    <3>2. CASE <<d, t>> # <<c, s>>
      <4>1. lease'[d][t] = lease[d][t] /\ granted'[d][t] = granted[d][t]
        BY <1>4, <1>6, <3>2
      <4>2. /\ FromRun(d, t, lease[d][t], runs)
            /\ proc = "dora" => <<d, t>> \in dialled
        BY <1>3, <2>1, <4>1 DEF LeaseLifeInv, CurrentInv
      <4> QED  BY <1>2, <4>1, <4>2 DEF FromRun
    <3> QED  BY <3>1, <3>2
  <2>2. ASSUME NEW d \in Client, NEW t \in Stack, <<d, t>> \in todo' \cup inHand' \cup confirmed'
        PROVE  lease'[d][t] # NoLease
    BY <1>2, <1>4, <1>6, <2>2 DEF LeaseLifeInv, CurrentInv
  <2>3. ASSUME NEW t \in Stack, NEW k \in DOMAIN saveChan[t]
        PROVE  LET n == saveChan[t][k]
               IN  /\ n.lease # NoLease
                   /\ n.lease \in DOMAIN (granted'[n.id][t])
                   /\ granted'[n.id][t][n.lease].run = runs
                   /\ proc = "dora" => n.lease = lease'[n.id][t]
    <3> DEFINE n == saveChan[t][k]
    <3>1. n.lease # NoLease /\ FromRun(n.id, t, n.lease, runs)
          /\ (proc = "dora" => n.lease = lease[n.id][t])
      BY DEF LeaseLifeInv, CurrentInv, QueuedInv
    <3>2. n.id \in Client
      <4>1. saveChan[t] \in Seq(LeaseWithID)
        BY StateIs DEF SaverTypeOK
      <4>2. n \in LeaseWithID
        BY <4>1
      <4> QED  BY <4>2 DEF LeaseWithID
    <3>3. n.lease \in DOMAIN (granted'[n.id][t]) /\ granted'[n.id][t][n.lease].run = runs
      BY <1>7, <3>1, <3>2
    <3>4. proc = "dora" => n.lease = lease'[n.id][t]
      <4>1. CASE <<n.id, t>> = <<c, s>> /\ proc = "dora"
        BY <1>2, <3>1, <4>1 DEF LeaseLifeInv, CurrentInv
      <4>2. CASE <<n.id, t>> # <<c, s>>
        BY <1>6, <3>1, <3>2, <4>2
      <4> QED  BY <4>1, <4>2
    <3> QED  BY <3>1, <3>3, <3>4
  <2>4. ASSUME NEW d \in Client, NEW t \in Stack, leaseMap[d][t] # NoLease
        PROVE  /\ leaseMap[d][t] \in DOMAIN (granted'[d][t])
               /\ granted'[d][t][leaseMap[d][t]].run = runs
    BY <1>7, <2>4 DEF LeaseLifeInv, CurrentInv
  <2>5. \A t \in Stack : \A k \in DOMAIN saveChan'[t] : QueuedInv(t, saveChan[t][k])'
    BY <1>2, <2>3 DEF QueuedInv, FromRun
  <2>6. \A d \in Client, t \in Stack : leaseMap'[d][t] # NoLease => FromRun(d, t, leaseMap[d][t], runs)'
    BY <1>2, <2>4 DEF FromRun
  <2>7. \A d \in Client, t \in Stack : lease'[d][t] # NoLease => FromRun(d, t, lease[d][t], runs)'
    BY <1>2, <2>1 DEF FromRun
  <2> QED  BY <1>2, <2>1, <2>2, <2>5, <2>6, <2>7 DEF CurrentInv
<1>11. FileInv'
  <2>1. FileIsOneRun => FileIsOneRun'
    <3>1. SUFFICES ASSUME FileIsOneRun, file.state = "whole" PROVE FileIsOneRun'
      BY <1>2 DEF FileIsOneRun
    <3>2. PICK r \in 1..runs : \A d \in Client, t \in Stack :
            file.map[d][t] # NoLease => FromRun(d, t, file.map[d][t], r)
      BY <3>1 DEF FileIsOneRun
    <3>3. \A d \in Client, t \in Stack :
            file'.map[d][t] # NoLease =>
              /\ file'.map[d][t] \in DOMAIN (granted'[d][t])
              /\ granted'[d][t][file'.map[d][t]].run = r
      BY <1>2, <1>7, <3>2
    <3>4. r \in 1..runs'
      BY <1>2
    <3> QED  BY <3>3, <3>4 DEF FileIsOneRun, FromRun
  <2> QED  BY <1>2, <2>1 DEF LeaseLifeInv, FileInv
<1>12. \A m \in wire :
         /\ m.binding.id \in Client /\ m.binding.stack \in Stack
         /\ m.lease \in DOMAIN granted[m.binding.id][m.binding.stack]
         /\ m.binding = BindingOf(m.binding.id, m.binding.stack, m.lease)
         /\ m.run <= runs /\ m.ias = IAs(m.binding.stack)
  BY StateIs DEF LeaseLifeInv, WireInv, Message, Binding
<1>13. WireInv'
  <2>1. ASSUME NEW m \in wire
        PROVE  /\ m.run <= runs'
               /\ m.lease \in DOMAIN (granted'[m.binding.id][m.binding.stack])
               /\ m.binding = At(granted', m.binding.id, m.binding.stack, m.lease)
               /\ m.ias = IAs(m.binding.stack)
    <3>1. /\ m.binding.id \in Client /\ m.binding.stack \in Stack
          /\ m.lease \in DOMAIN granted[m.binding.id][m.binding.stack]
          /\ m.binding = BindingOf(m.binding.id, m.binding.stack, m.lease)
          /\ m.run <= runs /\ m.ias = IAs(m.binding.stack)
      BY <1>12
    <3>2. /\ m.lease \in DOMAIN (granted'[m.binding.id][m.binding.stack])
          /\ At(granted', m.binding.id, m.binding.stack, m.lease) =
               BindingOf(m.binding.id, m.binding.stack, m.lease)
      BY <1>4, <3>1
    <3> QED  BY <1>2, <3>1, <3>2
  <2> QED  BY <1>2, <2>1 DEF WireInv, BindingOf, At, IAs
<1>14. GrantedInv'
  <2>1. ASSUME NEW d \in Client, NEW t \in Stack, NEW k \in DOMAIN (granted'[d][t])
        PROVE  \/ {At(granted', d, t, k)} \X IAs(t) \subseteq held'
               \/ \E m \in wire : m.type = "release" /\ m.binding = At(granted', d, t, k)
    <3>1. CASE k \in DOMAIN granted[d][t]
      <4>1. At(granted', d, t, k) = BindingOf(d, t, k)
        BY <1>4, <3>1
      <4>2. \/ {BindingOf(d, t, k)} \X IAs(t) \subseteq held
            \/ \E m \in wire : m.type = "release" /\ m.binding = BindingOf(d, t, k)
        BY <3>1 DEF LeaseLifeInv, GrantedInv
      <4> QED  BY <1>1, <4>1, <4>2
    <3>2. CASE k \notin DOMAIN granted[d][t]
      <4>1. d = c /\ t = s /\ k = new
        <5>1. CASE <<d, t>> = <<c, s>>
          BY <1>4, <2>1, <3>2, <5>1
        <5>2. CASE <<d, t>> # <<c, s>>
          BY <1>4, <2>1, <3>2, <5>2
        <5> QED  BY <5>1, <5>2
      <4>2. At(granted', d, t, k) = binding
        BY <1>4, <4>1
      <4>3. {binding} \X IAs(s) \subseteq held'
        BY <1>1 DEF binding
      <4> QED  BY <4>1, <4>2, <4>3
    <3> QED  BY <3>1, <3>2
  <2> QED  BY <1>2, <2>1 DEF GrantedInv, IAs, BindingOf, At
<1>15. HeldInv'
  <2>1. ASSUME NEW b \in held'
        PROVE  b[2] \in IAs(b[1].stack)
    <3>1. CASE b \in held
      BY <3>1 DEF LeaseLifeInv, HeldInv
    <3>2. CASE b \in {binding} \X IAs(s)
      BY <1>5, <3>2
    <3> QED  BY <1>1, <3>1, <3>2 DEF binding
  <2>2. ASSUME NEW m \in handled, m.type = "release", m.run = runs,
               m.lease = lease'[m.binding.id][m.binding.stack],
               NEW b \in held', b[1] = m.binding
        PROVE  b[2] \notin m.ias
    <3>1. m \in wire
      BY StateIs
    <3>2. <<m.binding.id, m.binding.stack>> # <<c, s>>
      <4>1. SUFFICES ASSUME m.binding.id = c, m.binding.stack = s PROVE FALSE
        OBVIOUS
      <4>2. m.lease = new
        BY <1>6, <2>2, <4>1
      <4> QED  BY <1>4, <1>12, <3>1, <4>1, <4>2
    <3>3. m.lease = lease[m.binding.id][m.binding.stack]
      BY <1>6, <1>12, <2>2, <3>1, <3>2
    <3>4. b \in held
      <4>1. b \notin {binding} \X IAs(s)
        BY <1>5, <2>2, <3>2
      <4> QED  BY <1>1, <2>2, <4>1 DEF binding
    <3> QED  BY <2>2, <3>3, <3>4 DEF LeaseLifeInv, HeldInv
  <2> QED  BY <1>2, <2>1, <2>2 DEF HeldInv, IAs
<1>16. ConfirmedInv'
  <2>1. SUFFICES ASSUME proc = "flap", NEW d \in Client, <<d, "v6">> \in confirmed'
                 PROVE  Gen(d, "v6")' \in handled
    BY <1>2, <1>3 DEF ConfirmedInv
  <2>2. "v6" \in Stack /\ <<d, "v6">> \in confirmed /\ <<d, "v6">> # <<c, s>>
    BY <1>2, <2>1, StateIs
  <2>3. Gen(d, "v6") \in handled
    BY <2>1, <2>2 DEF LeaseLifeInv, ConfirmedInv
  <2>4. lease'[d]["v6"] = lease[d]["v6"] /\ granted'[d]["v6"] = granted[d]["v6"]
    BY <1>4, <1>6, <2>2
  <2>5. Gen(d, "v6")' = Gen(d, "v6")
    BY <1>2, <2>4 DEF Gen, MessageType, BindingOf, IAs
  <2> QED  BY <2>3, <2>5
<1>17. KeptInv'
  <2>1. SUFFICES ASSUME kept, ReleaseNames(file.map)' PROVE FALSE
    BY <1>2 DEF LeaseLifeInv, KeptInv
  <2>2. PICK m \in wire, d \in Client, t \in Stack :
          /\ m.type = "release" /\ file.map[d][t] # NoLease
          /\ m.binding = At(granted', d, t, file.map[d][t])
    BY <1>2, <2>1 DEF ReleaseNames, BindingOf, At
  <2>3. file.state = "whole" /\ ~ReleaseNames(file.map)
    BY <2>1 DEF LeaseLifeInv, KeptInv
  <2>4. file.map[d][t] \in DOMAIN granted[d][t]
    BY <2>2, <2>3 DEF LeaseLifeInv, FileInv, FileIsOneRun, FromRun
  <2>5. m.binding = BindingOf(d, t, file.map[d][t])
    BY <1>4, <2>2, <2>4
  <2> QED  BY <2>2, <2>3, <2>5 DEF ReleaseNames
<1>18. CleanInv'
  <2>1. SUFFICES ASSUME clean' PROVE CleanInv'
    BY DEF CleanInv
  <2>2. clean /\ inHand' = inHand \cup {<<c, s>>}
    BY <1>2, <2>1
  <2>3. proc = "dora" /\ ~interrupted /\ saverPc = "loop"
    BY <1>2, <2>2 DEF LeaseLifeInv, CleanInv
  <2>4. lease[c][s] = NoLease
    BY <1>2, <2>3 DEF LeaseLifeInv, CurrentInv
  <2>5. ASSUME NEW b \in held'
        PROVE  \E d \in Client, t \in Stack :
                 /\ lease'[d][t] # NoLease
                 /\ b[1] = At(granted', d, t, lease'[d][t])
                 /\ OnItsWay(d, t)'
    <3>1. CASE b \in held
      <4>1. PICK d \in Client, t \in Stack :
              /\ lease[d][t] # NoLease
              /\ b[1] = BindingOf(d, t, lease[d][t])
              /\ OnItsWay(d, t)
        BY <2>2, <2>3, <3>1 DEF LeaseLifeInv, CleanInv
      <4>2. <<d, t>> # <<c, s>>
        BY <2>4, <4>1
      <4>3. lease'[d][t] = lease[d][t] /\ granted'[d][t] = granted[d][t]
        BY <1>4, <1>6, <4>2
      <4>4. At(granted', d, t, lease'[d][t]) = BindingOf(d, t, lease[d][t])
        BY <4>3 DEF BindingOf, At
      <4>5. OnItsWay(d, t)'
        BY <1>2, <2>2, <4>1, <4>3 DEF OnItsWay
      <4> QED  BY <4>1, <4>3, <4>4, <4>5
    <3>2. CASE b \in {binding} \X IAs(s)
      <4>1. b[1] = binding
        BY <3>2
      <4>2. At(granted', c, s, lease'[c][s]) = binding
        BY <1>4, <1>6
      <4>3. OnItsWay(c, s)'
        BY <2>2 DEF OnItsWay
      <4> QED  BY <1>4, <1>6, <4>1, <4>2, <4>3
    <3> QED  BY <1>1, <3>1, <3>2 DEF binding
  <2> QED  BY <1>2, <2>3, <2>5 DEF CleanInv, BindingOf, At
<1> QED  BY <1>8, <1>9, <1>10, <1>11, <1>13, <1>14, <1>15, <1>16, <1>17, <1>18
            DEF LeaseLifeInv


-----------------------------------------------------------------------------
(* The runs that load the file.                                            *)

LEMMA LoadInv ==
  ASSUME LeaseLifeInv, NEW act \in Loads, Load(act)
  PROVE  LeaseLifeInv'
<1>1. /\ proc = "down" /\ runs < MaxRuns /\ file.state = "whole"
      /\ proc' = act
      /\ runs' = runs + 1
      /\ lease' = file.map
      /\ todo' = Transactions(file.map)
      /\ kept' = (kept /\ act = "renew")
      /\ UNCHANGED <<saveChan, leaseMap, saverPc, interrupted, cycle, dialled, inHand>>
      /\ UNCHANGED <<truncated, confirmed, file, wire, handled, granted, held, clean>>
  BY DEF Load, saverVars, dialVars, serverVars
<1>2. /\ runs \in Nat /\ runs' \in Nat /\ runs' >= runs /\ runs' \in 0..MaxRuns /\ runs' >= 1
      /\ wire \subseteq Message
  BY <1>1, StateIs, LeaseLifeAssumption
<1>3. file.map \in Map
  BY StateIs
<1>4. /\ inHand = {} /\ dialled = {} /\ confirmed = {} /\ todo = {}
      /\ saveChan = NoneQueued /\ leaseMap = NoLeases /\ saverPc = "off"
      /\ ~interrupted /\ ~truncated
  BY <1>1, StateIs DEF LeaseLifeInv, ProcessInv
<1>5. todo' \subseteq Client \X Stack
  BY <1>1 DEF Transactions
<1>6. LeaseLifeTypeOK'
  BY <1>1, <1>2, <1>3, <1>5 DEF LeaseLifeInv, LeaseLifeTypeOK, SaverTypeOK, Loads, Map
<1>7. ProcessInv'
  BY <1>1, <1>2, <1>4 DEF ProcessInv, NoneQueued, NoLeases, Loads
<1>8. CurrentInv'
  <2>1. ASSUME NEW c \in Client, NEW s \in Stack, file.map[c][s] # NoLease
        PROVE  file.map[c][s] \in DOMAIN granted[c][s]
    BY <1>1, <2>1 DEF LeaseLifeInv, FileInv, FileIsOneRun, FromRun
  <2>2. \A c \in Client, s \in Stack : <<c, s>> \in todo' => file.map[c][s] # NoLease
    BY <1>1 DEF Transactions
  <2>3. \A s \in Stack : DOMAIN saveChan[s] = {}
    BY <1>4 DEF NoneQueued
  <2>4. \A c \in Client, s \in Stack : leaseMap[c][s] = NoLease
    BY <1>4, NoneListed
  <2>5. act \notin {"dora", "flap"}
    BY DEF Loads
  <2>6. \A c \in Client, s \in Stack : leaseMap'[c][s] = NoLease
    BY <1>1, <2>4
  <2>7. \A s \in Stack : DOMAIN saveChan'[s] = {}
    BY <1>1, <2>3
  <2>8. \A c \in Client, s \in Stack : lease'[c][s] # NoLease =>
          lease'[c][s] \in DOMAIN (granted'[c][s])
    BY <1>1, <2>1
  <2> QED  BY <1>1, <1>4, <2>2, <2>5, <2>6, <2>7, <2>8 DEF CurrentInv
<1>9. FileInv' /\ WireInv' /\ GrantedInv'
  BY <1>1, <1>2, FileFrame, WireFrame, GrantedFrame DEF LeaseLifeInv
<1>10. ConfirmedInv'
  BY <1>1, <1>4, ConfirmedFrame DEF LeaseLifeInv
<1>11. HeldInv'
  BY <1>1, NewRun
<1>12. KeptInv'
  <2>1. SUFFICES ASSUME kept, act = "renew" PROVE KeptInv'
    BY <1>1 DEF KeptInv
  <2>2. file.state = "whole" /\ ~ReleaseNames(file.map)
    BY <2>1 DEF LeaseLifeInv, KeptInv
  <2>3. ReleaseNames(file.map)' <=> ReleaseNames(file.map)
    BY <1>1 DEF ReleaseNames, BindingOf
  <2> QED  BY <1>1, <2>1, <2>2, <2>3 DEF KeptInv
<1>13. CleanInv'
  <2>1. \A b : OnFile(b)' <=> OnFile(b)
    BY <1>1 DEF OnFile, BindingOf
  <2>2. clean => \A b \in held : OnFile(b)
    BY <1>1 DEF LeaseLifeInv, CleanInv
  <2> QED  BY <1>1, <1>4, <2>1, <2>2 DEF CleanInv, Loads
<1> QED  BY <1>6, <1>7, <1>8, <1>9, <1>10, <1>11, <1>12, <1>13 DEF LeaseLifeInv

\* What a transaction sends: a message about the lease it works on.
LEMMA GenOf ==
  ASSUME LeaseLifeInv, NEW c \in Client, NEW s \in Stack, <<c, s>> \in todo
  PROVE  /\ Gen(c, s) \in Message
         /\ Gen(c, s).run = runs /\ Gen(c, s).ias = IAs(s)
         /\ Gen(c, s).binding = BindingOf(c, s, lease[c][s])
         /\ Gen(c, s).binding.id = c /\ Gen(c, s).binding.stack = s
         /\ Gen(c, s).lease = lease[c][s]
         /\ lease[c][s] \in DOMAIN granted[c][s]
         /\ proc \notin {"down", "dora"}
         /\ proc = "renew" => Gen(c, s).type = "renew"
<1>1. proc \in {"flap", "release", "renew", "rebind"} /\ lease[c][s] # NoLease
  BY StateIs
<1>2. lease[c][s] \in DOMAIN granted[c][s]
  BY <1>1 DEF LeaseLifeInv, CurrentInv
<1>3. granted[c][s] \in Seq(Grant) /\ lease \in Map
  BY StateIs
<1>4. granted[c][s][lease[c][s]] \in Grant
  BY <1>2, <1>3
<1>5. BindingOf(c, s, lease[c][s]) \in Binding
  BY <1>4 DEF BindingOf, Binding, Grant
<1>6. runs \in 1..MaxRuns
  BY <1>1, StateIs, LeaseLifeAssumption DEF LeaseLifeInv, ProcessInv
<1>7. MessageType(proc, s) \in Loads /\ (proc = "renew" => MessageType(proc, s) = "renew")
  BY <1>1 DEF MessageType, Loads
<1>8. lease[c][s] \in Lease /\ IAs(s) \subseteq IA
  BY <1>3 DEF Map, IAs, IA
<1>9. Gen(c, s) \in Message
  BY <1>5, <1>6, <1>7, <1>8 DEF Gen, Message, Loads
<1> QED  BY <1>1, <1>2, <1>7, <1>9 DEF Gen, BindingOf

LEMMA SendMessageInv ==
  ASSUME LeaseLifeInv, NEW c \in Client, NEW s \in Stack, SendMessage(c, s)
  PROVE  LeaseLifeInv'
<1>1. /\ <<c, s>> \in todo
      /\ wire' = wire \cup {Gen(c, s)}
      /\ UNCHANGED <<saveChan, leaseMap, saverPc, proc, runs, interrupted, lease, cycle>>
      /\ UNCHANGED <<dialled, inHand, truncated, todo, confirmed, file, handled, granted>>
      /\ UNCHANGED <<held, clean, kept>>
  BY DEF SendMessage, saverVars, runVars, dialVars, historyVars
<1>2. /\ Gen(c, s) \in Message
      /\ Gen(c, s).run = runs /\ Gen(c, s).ias = IAs(s)
      /\ Gen(c, s).binding = BindingOf(c, s, lease[c][s])
      /\ Gen(c, s).binding.id = c /\ Gen(c, s).binding.stack = s
      /\ Gen(c, s).lease = lease[c][s]
      /\ lease[c][s] \in DOMAIN granted[c][s]
      /\ proc \notin {"down", "dora"}
      /\ proc = "renew" => Gen(c, s).type = "renew"
  BY <1>1, GenOf
<1>3. runs \in Nat /\ wire \subseteq Message
  BY StateIs
<1>4. LeaseLifeTypeOK' /\ ProcessInv'
  <2> HIDE DEF Gen
  <2>1. handled' \subseteq wire' /\ wire' \subseteq Message
    BY <1>1, <1>2, StateIs
  <2> QED  BY <1>1, <2>1 DEF LeaseLifeInv, LeaseLifeTypeOK, SaverTypeOK, ProcessInv
<1>5. CurrentInv' /\ FileInv' /\ GrantedInv' /\ HeldInv' /\ ConfirmedInv'
  BY <1>1, <1>3, CurrentFrame, FileFrame, GrantedFrame, HeldFrame, ConfirmedFrame DEF LeaseLifeInv
<1>6. WireInv'
  <2>1. ASSUME NEW m \in wire'
        PROVE  /\ m.run <= runs
               /\ m.lease \in DOMAIN granted[m.binding.id][m.binding.stack]
               /\ m.binding = BindingOf(m.binding.id, m.binding.stack, m.lease)
               /\ m.ias = IAs(m.binding.stack)
    <3>1. CASE m \in wire
      BY <3>1 DEF LeaseLifeInv, WireInv
    <3>2. CASE m = Gen(c, s)
      BY <1>2, <1>3, <3>2
    <3> QED  BY <1>1, <3>1, <3>2
  <2> QED  BY <1>1, <2>1 DEF WireInv, BindingOf, IAs
<1>7. KeptInv'
  <2>1. SUFFICES ASSUME kept PROVE KeptInv'
    BY <1>1 DEF KeptInv
  <2>2. /\ file.state = "whole"
        /\ proc \in {"down", "dora", "flap", "renew"}
        /\ proc = "flap" => todo = {}
        /\ ~ReleaseNames(file.map)
    BY <2>1 DEF LeaseLifeInv, KeptInv
  <2>3. Gen(c, s).type = "renew"
    BY <1>1, <1>2, <2>2
  <2>4. ~ReleaseNames(file.map)'
    BY <1>1, <2>2, <2>3 DEF ReleaseNames, BindingOf
  <2> QED  BY <1>1, <2>2, <2>4 DEF KeptInv
<1>8. CleanInv'
  BY <1>1, CleanFrame DEF LeaseLifeInv
<1> QED  BY <1>4, <1>5, <1>6, <1>7, <1>8 DEF LeaseLifeInv

LEMMA ReturnsInv ==
  ASSUME LeaseLifeInv, NEW c \in Client, NEW s \in Stack, Returns(c, s)
  PROVE  LeaseLifeInv'
<1>1. /\ <<c, s>> \in todo
      /\ todo' = todo \ {<<c, s>>}
      /\ confirmed' = confirmed \/ (Answered(c, s) /\ confirmed' = confirmed \cup {<<c, s>>})
      /\ UNCHANGED <<saveChan, leaseMap, saverPc, proc, runs, interrupted, lease, cycle>>
      /\ UNCHANGED <<dialled, inHand, truncated, file, wire, handled, granted>>
      /\ UNCHANGED <<held, clean, kept>>
  BY DEF Returns, saverVars, dialVars, serverVars, historyVars
<1>2. proc \notin {"down", "dora"} /\ runs \in Nat /\ wire \subseteq Message
  BY <1>1, StateIs
<1>3. todo' \cup inHand' \cup confirmed' \subseteq todo \cup inHand \cup confirmed
  BY <1>1
<1>4. LeaseLifeTypeOK'
  <2>1. dialled' \cup todo' \cup confirmed' \subseteq Client \X Stack
    BY <1>1, StateIs
  <2> QED  BY <1>1, <2>1 DEF LeaseLifeInv, LeaseLifeTypeOK, SaverTypeOK
<1>5. ProcessInv'
  BY <1>1, <1>2 DEF LeaseLifeInv, ProcessInv
<1>6. CurrentInv' /\ FileInv' /\ WireInv' /\ GrantedInv' /\ HeldInv'
  BY <1>1, <1>2, <1>3, CurrentFrame, FileFrame, WireFrame, GrantedFrame, HeldFrame
     DEF LeaseLifeInv
<1>7. KeptInv'
  BY <1>1, KeptFrame DEF LeaseLifeInv
<1>8. ConfirmedInv'
  <2>1. SUFFICES ASSUME proc \in {"release", "flap"}, NEW d \in Client,
                        <<d, "v6">> \in confirmed'
                 PROVE  Gen(d, "v6") \in handled
    BY <1>1 DEF ConfirmedInv, Gen, MessageType, BindingOf, IAs
  <2>2. CASE <<d, "v6">> \in confirmed
    BY <2>1, <2>2 DEF LeaseLifeInv, ConfirmedInv
  <2>3. CASE <<d, "v6">> \notin confirmed
    <3>1. d = c /\ s = "v6" /\ Answered(c, s)
      BY <1>1, <2>1, <2>3
    <3> QED  BY <3>1 DEF Answered
  <2> QED  BY <2>2, <2>3
<1>9. CleanInv'
  BY <1>1, CleanFrame DEF LeaseLifeInv
<1> QED  BY <1>4, <1>5, <1>6, <1>7, <1>8, <1>9 DEF LeaseLifeInv

LEMMA ServerHandlesInv ==
  ASSUME LeaseLifeInv, NEW m \in wire, ServerHandles(m)
  PROVE  LeaseLifeInv'
<1>1. /\ handled' = handled \cup {m}
      /\ held' = IF m.type = "release" THEN held \ ({m.binding} \X m.ias) ELSE held
      /\ UNCHANGED <<saveChan, leaseMap, saverPc, proc, runs, interrupted, lease, cycle>>
      /\ UNCHANGED <<dialled, inHand, truncated, todo, confirmed, file, wire, granted>>
      /\ UNCHANGED <<clean, kept>>
  BY DEF ServerHandles, saverVars, runVars, dialVars, historyVars
<1>2. held' \subseteq held
  BY <1>1
<1>3. runs \in Nat /\ wire \subseteq Message /\ held \subseteq Binding \X IA
  BY StateIs
<1>4. LeaseLifeTypeOK' /\ ProcessInv'
  BY <1>1, <1>2 DEF LeaseLifeInv, LeaseLifeTypeOK, SaverTypeOK, ProcessInv
<1>5. CurrentInv' /\ FileInv' /\ WireInv' /\ ConfirmedInv'
  BY <1>1, <1>3, CurrentFrame, FileFrame, WireFrame, ConfirmedFrame DEF LeaseLifeInv
<1>6. GrantedInv'
  <2>1. ASSUME NEW c \in Client, NEW s \in Stack, NEW k \in DOMAIN granted[c][s]
        PROVE  \/ {BindingOf(c, s, k)} \X IAs(s) \subseteq held'
               \/ \E n \in wire : n.type = "release" /\ n.binding = BindingOf(c, s, k)
    <3>1. CASE m.type = "release" /\ m.binding = BindingOf(c, s, k)
      BY <3>1
    <3>2. CASE m.type # "release"
      BY <1>1, <3>2 DEF LeaseLifeInv, GrantedInv
    <3>3. CASE m.binding # BindingOf(c, s, k)
      <4>1. \/ {BindingOf(c, s, k)} \X IAs(s) \subseteq held
            \/ \E n \in wire : n.type = "release" /\ n.binding = BindingOf(c, s, k)
        BY DEF LeaseLifeInv, GrantedInv
      <4>2. \A b \in {BindingOf(c, s, k)} \X IAs(s) : b \notin {m.binding} \X m.ias
        BY <3>3
      <4> QED  BY <1>1, <4>1, <4>2
    <3> QED  BY <3>1, <3>2, <3>3
  <2> QED  BY <1>1, <2>1 DEF GrantedInv, BindingOf, IAs
<1>7. HeldInv'
  <2>1. \A b \in held' : b[2] \in IAs(b[1].stack)
    BY <1>2 DEF LeaseLifeInv, HeldInv
  <2>2. ASSUME NEW n \in handled', n.type = "release", n.run = runs,
               n.lease = lease[n.binding.id][n.binding.stack],
               NEW b \in held', b[1] = n.binding
        PROVE  b[2] \notin n.ias
    <3>1. CASE n = m
      <4>1. b \notin {m.binding} \X m.ias
        BY <1>1, <2>2, <3>1
      <4>2. b = <<b[1], b[2]>>
        BY <1>2, <1>3
      <4> QED  BY <2>2, <3>1, <4>1, <4>2
    <3>2. CASE n # m
      BY <1>1, <1>2, <2>2, <3>2 DEF LeaseLifeInv, HeldInv
    <3> QED  BY <3>1, <3>2
  <2> QED  BY <1>1, <2>1, <2>2 DEF HeldInv, IAs
<1>8. KeptInv'
  BY <1>1, KeptFrame DEF LeaseLifeInv
<1>9. CleanInv'
  BY <1>1, <1>2, CleanFrame DEF LeaseLifeInv
<1> QED  BY <1>4, <1>5, <1>6, <1>7, <1>8, <1>9 DEF LeaseLifeInv

-----------------------------------------------------------------------------
(* The theorems.                                                           *)

LEMMA InvInit == LeaseLifeInit => LeaseLifeInv
<1> SUFFICES ASSUME LeaseLifeInit PROVE LeaseLifeInv
  OBVIOUS
<1>1. leaseMap = NoLeases /\ saveChan = NoneQueued /\ saverPc = "off"
  BY DEF LeaseLifeInit, SaverInit, NoLeases, NoneQueued
<1>2. /\ proc = "down" /\ runs = 0 /\ interrupted = FALSE /\ lease = NoLeases
      /\ cycle = [c \in Client |-> "dial"]
      /\ dialled = {} /\ inHand = {} /\ truncated = FALSE
      /\ file.state = "absent" /\ file.map = NoLeases
      /\ todo = {} /\ confirmed = {} /\ wire = {} /\ handled = {}
      /\ granted = [c \in Client |-> [s \in Stack |-> <<>>]]
      /\ held = {} /\ clean = TRUE /\ kept = FALSE
  BY DEF LeaseLifeInit
<1>3. LeaseLifeTypeOK
  <2>1. \A s \in Stack : <<>> \in Seq(LeaseWithID) /\ Len(<<>>) <= SaveChanDepth
    BY SaverAssumption
  <2>2. SaverTypeOK
    BY <1>1, <2>1, NoneListed DEF SaverTypeOK, NoneQueued
  <2>3. runs \in 0..MaxRuns
    BY <1>2, LeaseLifeAssumption
  <2>4. /\ granted \in [Client -> [Stack -> Seq(Grant)]]
        /\ \A c \in Client, s \in Stack : Len(granted[c][s]) <= MaxLeases
    BY <1>2, LeaseLifeAssumption
  <2> QED  BY <1>2, <2>2, <2>3, <2>4, NoneListed DEF LeaseLifeTypeOK
<1>4. ProcessInv
  BY <1>1, <1>2 DEF ProcessInv, Loads
<1>5. CurrentInv
  <2>1. \A s \in Stack : DOMAIN saveChan[s] = {}
    BY <1>1 DEF NoneQueued
  <2> QED  BY <1>1, <1>2, <2>1, NoneListed DEF CurrentInv
<1>6. FileInv /\ WireInv /\ HeldInv /\ ConfirmedInv /\ KeptInv
  BY <1>2 DEF FileInv, FileIsOneRun, WireInv, HeldInv, ConfirmedInv, KeptInv
<1>7. GrantedInv
  <2>1. \A c \in Client, s \in Stack : DOMAIN granted[c][s] = {}
    BY <1>2
  <2> QED  BY <2>1 DEF GrantedInv
<1>8. CleanInv
  BY <1>1, <1>2 DEF CleanInv
<1> QED  BY <1>3, <1>4, <1>5, <1>6, <1>7, <1>8 DEF LeaseLifeInv

LEMMA InvNext == LeaseLifeInv /\ [Next]_vars => LeaseLifeInv'
<1> SUFFICES ASSUME LeaseLifeInv, [Next]_vars PROVE LeaseLifeInv'
  OBVIOUS
<1>1. CASE Dora
  <2>1. CASE SaveLeases
    BY <2>1, SaveOneInv DEF SaveLeases
  <2>2. CASE \E c \in Client, s \in Stack : Dial(c, s) \/ HandToSaver(c, s)
    BY <2>2, DialInv, HandToSaverInv
  <2>3. CASE \E c \in Client : FlapOn(c)
    BY <2>3, FlapOnInv
  <2> QED  BY <1>1, <2>1, <2>2, <2>3, StartDoraInv, CtrlCInv, StopSaverInv, TruncateInv,
              WriteFileInv, StartFlappingInv, EndDoraInv DEF Dora
<1>2. CASE ThreeR
  BY <1>2, LoadInv, SendMessageInv, ReturnsInv, EndThreeRInv DEF ThreeR, Loads
<1>3. CASE Crash
  BY <1>3, CrashInv
<1>4. CASE \E m \in wire : ServerHandles(m)
  BY <1>4, ServerHandlesInv
<1>5. CASE UNCHANGED vars
  <2>1. /\ UNCHANGED <<saveChan, leaseMap, saverPc, proc, runs, interrupted, lease, cycle>>
        /\ UNCHANGED <<dialled, inHand, truncated, todo, confirmed, file, wire, handled>>
        /\ UNCHANGED <<granted, held, clean, kept>>
    BY <1>5 DEF vars, saverVars, runVars, dialVars, serverVars, historyVars
  <2>2. runs \in Nat /\ wire \subseteq Message
    BY StateIs
  <2>3. LeaseLifeTypeOK' /\ ProcessInv'
    BY <2>1 DEF LeaseLifeInv, LeaseLifeTypeOK, SaverTypeOK, ProcessInv
  <2>4. CurrentInv' /\ FileInv' /\ WireInv' /\ GrantedInv' /\ HeldInv'
    BY <2>1, <2>2, CurrentFrame, FileFrame, WireFrame, GrantedFrame, HeldFrame
       DEF LeaseLifeInv
  <2>5. ConfirmedInv' /\ KeptInv' /\ CleanInv'
    BY <2>1, ConfirmedFrame, KeptFrame, CleanFrame DEF LeaseLifeInv
  <2> QED  BY <2>3, <2>4, <2>5 DEF LeaseLifeInv
<1> QED  BY <1>1, <1>2, <1>3, <1>4, <1>5 DEF Next, Over

\* The inductive invariant: from it the theorems below follow.
THEOREM LeaseLifeInvariance == Spec => []LeaseLifeInv
BY InvInit, InvNext, PTL DEF Spec

\* Every variable has its type: in particular no save channel holds more than
\* its capacity, nothing is in hand that was not dialled and no server handles
\* what was not sent (lease.go:271-302).
THEOREM LeaseLifeTypeCorrect == Spec => []LeaseLifeTypeOK
<1>1. LeaseLifeInv => LeaseLifeTypeOK
  BY DEF LeaseLifeInv
<1> QED  BY <1>1, LeaseLifeInvariance, PTL

\* A lease file that can be loaded is the work of one DORA run and lists
\* nothing that was not granted to the client it is listed for, whatever runs
\* were interrupted or crashed (lease.go:271-302, 311-322).
THEOREM FileOfOneRun == Spec => []FileIsOneRun
<1>1. LeaseLifeInv => FileIsOneRun
  BY DEF LeaseLifeInv, FileInv
<1> QED  BY <1>1, LeaseLifeInvariance, PTL

\* After runs that end by themselves, without flapping, every lease held is on
\* the file (sched.go:941-947, lease.go:271-302).
THEOREM HeldOnFile == Spec => []HeldIsOnFile
<1>1. LeaseLifeInv => HeldIsOnFile
  BY DEF LeaseLifeInv, CleanInv, HeldIsOnFile, OnFile
<1> QED  BY <1>1, LeaseLifeInvariance, PTL

\* A DHCPv6 release that is confirmed gave back every part of the lease, in a
\* release run and while flapping (lease.go:201-217, sched.go:683-694, 995-998).
THEOREM ReleaseComplete == Spec => []ReleaseIsComplete
<1>1. LeaseLifeInv => ReleaseIsComplete
  <2>1. SUFFICES ASSUME LeaseLifeInv, proc \in {"release", "flap"},
                        NEW c \in Client, <<c, "v6">> \in confirmed,
                        NEW b \in held, b[1] = BindingOf(c, "v6", lease[c]["v6"])
                 PROVE  FALSE
    BY DEF ReleaseIsComplete
  <2>2. Gen(c, "v6") \in handled
    BY <2>1 DEF LeaseLifeInv, ConfirmedInv
  <2>3. /\ Gen(c, "v6").type = "release" /\ Gen(c, "v6").run = runs
        /\ Gen(c, "v6").lease = lease[c]["v6"] /\ Gen(c, "v6").ias = IAs("v6")
        /\ Gen(c, "v6").binding = b[1]
        /\ b[1].id = c /\ b[1].stack = "v6"
    BY <2>1 DEF Gen, MessageType, BindingOf
  <2>4. b[2] \in IAs("v6")
    BY <2>1, <2>3 DEF LeaseLifeInv, HeldInv
  <2>5. b[2] \notin IAs("v6")
    BY <2>1, <2>2, <2>3 DEF LeaseLifeInv, HeldInv
  <2> QED  BY <2>4, <2>5
<1> QED  BY <1>1, LeaseLifeInvariance, PTL

\* The leases of a file survive every renew run; only a release that can still
\* name them ends that (sched.go:240-243, 257-260, 984-998).
THEOREM RenewsCostNothing == Spec => []RenewCostsNothing
<1>1. LeaseLifeInv => RenewCostsNothing
  <2>1. SUFFICES ASSUME LeaseLifeInv, kept, NEW c \in Client, NEW s \in Stack,
                        file.map[c][s] # NoLease
                 PROVE  {BindingOf(c, s, file.map[c][s])} \X IAs(s) \subseteq held
    BY DEF RenewCostsNothing
  <2>2. file.state = "whole" /\ ~ReleaseNames(file.map)
    BY <2>1 DEF LeaseLifeInv, KeptInv
  <2>3. file.map[c][s] \in DOMAIN granted[c][s]
    BY <2>1, <2>2 DEF LeaseLifeInv, FileInv, FileIsOneRun, FromRun
  <2>4. ~ \E m \in wire : m.type = "release" /\ m.binding = BindingOf(c, s, file.map[c][s])
    BY <2>1, <2>2 DEF ReleaseNames
  <2> DEFINE k == file.map[c][s]
  <2>5. \/ {BindingOf(c, s, k)} \X IAs(s) \subseteq held
        \/ \E m \in wire : m.type = "release" /\ m.binding = BindingOf(c, s, k)
    <3> HIDE DEF k
    <3>1. k \in DOMAIN granted[c][s]
      BY <2>3 DEF k
    <3> QED  BY <2>1, <3>1 DEF LeaseLifeInv, GrantedInv
  <2> QED  BY <2>4, <2>5
<1> QED  BY <1>1, LeaseLifeInvariance, PTL

=============================================================================
