----------------------------- MODULE ClientSetup -----------------------------
(***************************************************************************)
(* How a DORA run comes to its clients: testSetup.init, the loop of        *)
(* genClientConfigurations over MAC addresses and VLAN tags, the loop of   *)
(* NewSched that sends Router Solicitations and fills ClntList, and the    *)
(* neighbour discovery proxy that answers for the clients.                 *)
(*                                                                         *)
(* External: myaddr, which adds to a MAC address and to a list of VLAN IDs *)
(* (the last one counts fastest) and fails when the sum does not fit.      *)
(***************************************************************************)
EXTENDS Integers, Sequences, FiniteSets

CONSTANTS
  Setups,     \* the settings tried, see Setup
  MacSize,    \* number of MAC addresses, 2^48
  VLANSize,   \* number of VLAN IDs, 4096
  VLANTries,  \* increments incvidFunc makes to avoid excluded IDs, 10
  RATries     \* packets sendRS waits for, 3

MAC == 0..(MacSize - 1)
VLAN == 0..(VLANSize - 1)
VLANs == {<<>>} \cup {<<v>> : v \in VLAN} \cup (VLAN \X VLAN)

\* The fields of testSetup that matter here; direct is a caller of NewSched
\* that has not called init, as the repository's tests are.
Setup == [NumOfClients : Nat, StartMAC : MAC, MacStep : Nat, StartVLANs : VLANs,
          VLANStep : Nat, ExcludedVLANs : SUBSET VLAN, EnableV4 : BOOLEAN,
          EnableV6 : BOOLEAN, SendRSFirst : BOOLEAN, FlapNum : Nat,
          MinInterval : Nat, MaxInterval : Nat,
          V6MsgType : {"None", "Solicit", "RelayForward"}, ids : BOOLEAN,
          direct : BOOLEAN]

ASSUME ClientSetupAssumption ==
  /\ Setups \subseteq Setup
  /\ {MacSize, VLANSize, VLANTries, RATries} \subseteq Nat \ {0}

VARIABLES
  given,     \* the settings as the user gave them
  setup,     \* the settings in use
  pc,        \* "init", "gen", "clients", "running" or "failed"
  failure,   \* what made the setup fail, "none" if nothing has
  confs,     \* the client configurations generated
  done,      \* number of them NewSched has made a client of
  rsReads,   \* packets read since the Router Solicitation, -1 before it is sent
  gotRA,     \* the clients that got an advertisement with the M bit
  ClntList,  \* from client ids to the number of the client
  targets,   \* table of the proxy, from link-local addresses to L2Encap
  adverts    \* history: the neighbour advertisements sent

vars == <<given, setup, pc, failure, confs, done, rsReads, gotRA, ClntList, targets, adverts>>

\* The result of getClientIDFromL2Key, and GetLLAFromMac (which is one to one).
ClientId(c) == <<c.Mac>> \o c.VLANs
LLA(mac) == <<"fe80", mac>>

ClientConfig == [Mac : MAC, VLANs : VLANs]

ClientSetupTypeOK ==
  /\ {given, setup} \subseteq Setup
  /\ pc \in {"init", "gen", "clients", "running", "failed"}
  /\ failure \in {"none", "setup", "mac", "vlan", "ra", "conn", "msgtype"}
  /\ confs \in Seq(ClientConfig) /\ Len(confs) <= setup.NumOfClients
  /\ done \in 0..Len(confs)
  /\ rsReads \in -1..RATries
  /\ gotRA \subseteq DOMAIN confs
  /\ \A id \in DOMAIN ClntList : ClntList[id] \in 1..done
  /\ \A lla \in DOMAIN targets : targets[lla] \in ClientConfig

Init ==
  /\ given \in Setups
  /\ setup = given
  /\ pc = IF given.direct THEN "gen" ELSE "init"
  /\ failure = "none"
  /\ confs = <<>>
  /\ done = 0
  /\ rsReads = -1
  /\ gotRA = {}
  /\ ClntList = <<>>
  /\ targets = <<>>
  /\ adverts = {}

Fail(why) == pc' = "failed" /\ failure' = why

-----------------------------------------------------------------------------
(* testSetup.init.                                                         *)

Acceptable(s) ==
  /\ s.NumOfClients > 0
  /\ s.EnableV4 \/ s.EnableV6
  /\ s.FlapNum <= s.NumOfClients
  /\ s.MinInterval <= s.MaxInterval

\* The message type left open.
SettleMsgTypeNot(s) == s.V6MsgType

\* "auto" is relay if there is a remote or circuit id.
SettleMsgType(s) ==
  IF s.V6MsgType # "None" THEN s.V6MsgType
  ELSE IF s.ids THEN "RelayForward" ELSE "Solicit"

\* ExcludedVLANs is emptied and then copied from itself.
InitSetup ==
  /\ pc = "init"
  /\ IF Acceptable(setup) THEN pc' = "gen" /\ UNCHANGED failure ELSE Fail("setup")
  /\ setup' = [setup EXCEPT !.ExcludedVLANs = {}, !.V6MsgType = SettleMsgType(setup)]
  /\ UNCHANGED <<given, confs, done, rsReads, gotRA, ClntList, targets, adverts>>

-----------------------------------------------------------------------------
(* genClientConfigurations.                                                *)

\* A list of VLAN IDs as a number, and back.
Value(ids) ==
  CASE Len(ids) = 0 -> 0
    [] Len(ids) = 1 -> ids[1]
    [] OTHER        -> ids[1] * VLANSize + ids[2]

IDs(value, len) ==
  CASE len = 0 -> <<>>
    [] len = 1 -> <<value>>
    [] OTHER   -> <<value \div VLANSize, value % VLANSize>>

IncreaseFits(ids, inc) ==
  Value(ids) + inc < (CASE Len(ids) = 0 -> 1
                        [] Len(ids) = 1 -> VLANSize
                        [] OTHER        -> VLANSize * VLANSize)
IncreaseVLANIDs(ids, inc) == IDs(Value(ids) + inc, Len(ids))

excluded(ids) == \E k \in DOMAIN ids : ids[k] \in setup.ExcludedVLANs

\* The numbers of increments at which incvidFunc could stop: the IDs fit and
\* none is excluded.
Stops(ids) ==
  {k \in 1..VLANTries :
     /\ IncreaseFits(ids, k * setup.VLANStep)
     /\ ~excluded(IncreaseVLANIDs(ids, k * setup.VLANStep))}

\* The step applied once, excluded or not.
IncVidOnce(ids) == IncreaseVLANIDs(ids, setup.VLANStep)

IncVid(ids) ==
  LET first == CHOOSE k \in Stops(ids) : \A j \in Stops(ids) : k <= j
  IN  IncreaseVLANIDs(ids, first * setup.VLANStep)

Previous == IF confs = <<>> THEN [Mac |-> setup.StartMAC, VLANs |-> setup.StartVLANs]
            ELSE confs[Len(confs)]
NextMac == IF confs = <<>> THEN setup.StartMAC ELSE Previous.Mac + setup.MacStep
NeedsIncrease == (Previous.VLANs # <<>> /\ confs # <<>>) \/ excluded(Previous.VLANs)

Add(mac, ids) ==
  /\ confs' = Append(confs, [Mac |-> mac, VLANs |-> ids])
  /\ UNCHANGED <<pc, failure>>

\* The error of IncMACAddr ignored.
GenClientUnchecked ==
  /\ pc = "gen"
  /\ Len(confs) < setup.NumOfClients
  /\ IF ~NeedsIncrease THEN Add(NextMac, Previous.VLANs)
     ELSE IF Stops(Previous.VLANs) = {} THEN Fail("vlan") /\ UNCHANGED confs
     ELSE Add(NextMac, IncVid(Previous.VLANs))
  /\ UNCHANGED <<given, setup, done, rsReads, gotRA, ClntList, targets, adverts>>

GenClient ==
  /\ pc = "gen"
  /\ Len(confs) < setup.NumOfClients
  /\ IF NextMac >= MacSize THEN Fail("mac") /\ UNCHANGED confs
     ELSE IF ~NeedsIncrease THEN Add(NextMac, Previous.VLANs)
     ELSE IF Stops(Previous.VLANs) = {} THEN Fail("vlan") /\ UNCHANGED confs
     ELSE Add(NextMac, IncVid(Previous.VLANs))
  /\ UNCHANGED <<given, setup, done, rsReads, gotRA, ClntList, targets, adverts>>

Generated ==
  /\ pc = "gen"
  /\ Len(confs) = setup.NumOfClients
  /\ pc' = "clients"
  /\ UNCHANGED <<given, setup, failure, confs, done, rsReads, gotRA, ClntList, targets, adverts>>

-----------------------------------------------------------------------------
(* NewSched, client by client.                                             *)

Current == done + 1
WaitsForRA == setup.EnableV6 /\ setup.SendRSFirst /\ Current \notin gotRA

SendRS ==
  /\ pc = "clients" /\ done < Len(confs)
  /\ WaitsForRA /\ rsReads = -1
  /\ \/ rsReads' = 0 /\ UNCHANGED <<pc, failure>>
     \/ Fail("ra") /\ UNCHANGED rsReads
  /\ UNCHANGED <<given, setup, confs, done, gotRA, ClntList, targets, adverts>>

\* One read of sendRS: an advertisement with the M bit or without it, an
\* error, or a timeout or any other packet, which counts as a try.
ReadRA(what) ==
  /\ pc = "clients" /\ rsReads \in 0..(RATries - 1)
  /\ IF what = "managed"
     THEN gotRA' = gotRA \cup {Current} /\ rsReads' = -1 /\ UNCHANGED <<pc, failure>>
     ELSE IF what = "other" /\ rsReads + 1 < RATries
     THEN rsReads' = rsReads + 1 /\ UNCHANGED <<pc, failure, gotRA>>
     ELSE Fail("ra") /\ UNCHANGED <<rsReads, gotRA>>
  /\ UNCHANGED <<given, setup, confs, done, ClntList, targets, adverts>>

\* A client known by its MAC address alone.
NewClientByMac ==
  /\ pc = "clients" /\ done < Len(confs) /\ ~WaitsForRA
  /\ done' = Current
  /\ ClntList' = [id \in DOMAIN ClntList \cup {<<confs[Current].Mac>>} |->
                    IF id = <<confs[Current].Mac>> THEN Current ELSE ClntList[id]]
  /\ UNCHANGED <<given, setup, pc, failure, confs, rsReads, gotRA, targets, adverts>>

\* r.ClntList[dc.id] = dc: a client with the id of another replaces it.
NewClient ==
  /\ pc = "clients" /\ done < Len(confs) /\ ~WaitsForRA
  /\ IF setup.EnableV6 /\ setup.V6MsgType = "None"
     THEN Fail("msgtype") /\ UNCHANGED <<done, ClntList>>
     ELSE LET id == ClientId(confs[Current]) IN
          /\ done' = Current
          /\ ClntList' = [i \in DOMAIN ClntList \cup {id} |->
                            IF i = id THEN Current ELSE ClntList[i]]
          /\ UNCHANGED <<pc, failure>>
  /\ UNCHANGED <<given, setup, confs, rsReads, gotRA, targets, adverts>>

\* A raw connection or a DHCP client cannot be made.
NewClientFails ==
  /\ pc = "clients" /\ done < Len(confs) /\ ~WaitsForRA
  /\ Fail("conn")
  /\ UNCHANGED <<given, setup, confs, done, rsReads, gotRA, ClntList, targets, adverts>>

\* The table of the proxy with the MAC address and VLANs of the last client.
TargetsOfLast == [lla \in {LLA(confs[k].Mac) : k \in DOMAIN confs} |-> confs[Len(confs)]]

\* Of clients with one MAC address, the table keeps the last.
Targets ==
  [lla \in {LLA(confs[k].Mac) : k \in DOMAIN confs} |->
     confs[CHOOSE k \in DOMAIN confs :
             /\ LLA(confs[k].Mac) = lla
             /\ \A j \in DOMAIN confs : LLA(confs[j].Mac) = lla => j <= k]]

StartProxy ==
  /\ pc = "clients" /\ done = Len(confs)
  /\ pc' = "running"
  /\ targets' = IF setup.EnableV6 THEN Targets ELSE targets
  /\ UNCHANGED <<given, setup, failure, confs, done, rsReads, gotRA, ClntList, adverts>>

\* processReq: a solicitation for an address of the table is answered.
ProcessReq(lla) ==
  /\ pc = "running"
  /\ lla \in DOMAIN targets
  /\ adverts' = adverts \cup {[target |-> lla, from |-> targets[lla]]}
  /\ UNCHANGED <<given, setup, pc, failure, confs, done, rsReads, gotRA, ClntList, targets>>

-----------------------------------------------------------------------------
Next ==
  \/ InitSetup
  \/ GenClient
  \/ Generated
  \/ SendRS
  \/ \E what \in {"managed", "unmanaged", "other", "error"} : ReadRA(what)
  \/ NewClient \/ NewClientFails
  \/ StartProxy
  \/ \E mac \in MAC : ProcessReq(LLA(mac))
  \/ pc \in {"running", "failed"} /\ UNCHANGED vars

Spec == Init /\ [][Next]_vars

-----------------------------------------------------------------------------
\* The VLAN numbers clients may have: the start and every step from it that
\* fits, without those that have an excluded ID.
Allowed ==
  {x \in 0..(VLANSize * VLANSize - 1) :
     /\ \E k \in 0..x : x = Value(setup.StartVLANs) + k * setup.VLANStep
     /\ IncreaseFits(setup.StartVLANs, x - Value(setup.StartVLANs))
     /\ ~excluded(IDs(x, Len(setup.StartVLANs)))}

\* The n-th client has the n-th MAC address and, when there are VLANs and a
\* step, the n-th VLAN number that is allowed, none skipped or used twice
\* (setup.go:32-82). It says nothing of the VLANs when the user excludes some
\* and goes through init, which forgets them (conf.go:172).
NthClient ==
  \A k \in DOMAIN confs :
    LET x == Value(confs[k].VLANs) IN
    /\ confs[k].Mac = given.StartMAC + (k - 1) * given.MacStep
    /\ given.StartVLANs = <<>> => confs[k].VLANs = <<>>
    /\ /\ given.StartVLANs # <<>> /\ given.VLANStep > 0
       /\ given.direct \/ given.ExcludedVLANs = {}
       => x \in Allowed /\ Cardinality({y \in Allowed : y < x}) = k - 1

\* If the MAC addresses differ, or there are VLANs and they do, no client takes
\* the place of another in ClntList (sched.go:735-827, lease.go:241-250).
ClientsDistinct ==
  pc = "running" /\ (setup.MacStep > 0 \/ (setup.StartVLANs # <<>> /\ setup.VLANStep > 0))
    => \A k \in DOMAIN confs : \E id \in DOMAIN ClntList : ClntList[id] = k

\* If the MAC addresses differ, the proxy answers for the address of a client
\* with the MAC address of that client, on its VLANs (sched.go:831-838,
\* ndproxy.go:40-70).
AnswersFit ==
  setup.MacStep > 0 =>
    \A a \in adverts, k \in DOMAIN confs :
      a.target = LLA(confs[k].Mac) => a.from = confs[k]

\* A VLAN number that exists but has an excluded ID.
ExcludedNumber(y) ==
  /\ IncreaseFits(setup.StartVLANs, y - Value(setup.StartVLANs))
  /\ excluded(IDs(y, Len(setup.StartVLANs)))

\* All of the steps from the number x that incvidFunc tries.
RowExcluded(x) ==
  \A k \in 1..VLANTries : ExcludedNumber(x + k * setup.VLANStep)

\* The setup fails for no reason but: MAC addresses run out; fewer VLAN numbers
\* are allowed than there are clients, or a whole row of them is excluded; no
\* advertisement; a bad setting; the system.  Settings that init has accepted
\* always have a message type (conf.go:192-205, setup.go:36-80, sched.go:820).
FailsForAReason ==
  /\ failure = "mac" =>
       given.StartMAC + (given.NumOfClients - 1) * given.MacStep >= MacSize
  /\ failure = "vlan" =>
       \/ Cardinality(Allowed) < given.NumOfClients
       \/ \E x \in 0..(VLANSize * VLANSize - 1) : RowExcluded(x)
  /\ failure = "msgtype" => given.direct

=============================================================================
