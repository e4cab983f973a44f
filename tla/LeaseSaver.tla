----------------------------- MODULE LeaseSaver -----------------------------
(***************************************************************************)
(* The goroutine saveLeaseToFiles and the two buffered channels over which *)
(* successful dials hand it their leases.  It merges the v4 and the v6     *)
(* lease of a client into one entry of a map and, when its context is      *)
(* done, encodes the map into the lease file.                              *)
(*                                                                         *)
(* A lease is the ordinal of the DORA that obtained it, NoLease is the nil *)
(* pointer; a client has an entry in the map iff one of its leases is not  *)
(* nil.  The file is the map at the time saverPc becomes "saved": nothing  *)
(* writes the map afterwards.                                              *)
(***************************************************************************)
EXTENDS Naturals, Sequences

CONSTANTS
  Client,         \* client IDs: MAC address and VLANs, the keys of ClntList
  Stack,          \* the enabled stacks, EnableV4 and EnableV6
  SaveChanDepth   \* saveChanDepth, the capacity of saveV4Chan and saveV6Chan

ASSUME SaverAssumption ==
  /\ Stack \subseteq {"v4", "v6"}
  /\ SaveChanDepth \in Nat \ {0}

NoLease == 0
Lease == Nat

\* v4LeaseWithID and v6LeaseWithID.
LeaseWithID == [id : Client, lease : Lease]

VARIABLES
  saveChan,   \* per stack, the queued [id, lease] pairs
  leaseMap,   \* the leaseMap local of saveLeaseToFiles
  saverPc     \* "off" not started, "loop" in the select, "encode", "saved"

saverVars == <<saveChan, leaseMap, saverPc>>

SaverTypeOK ==
  /\ saveChan \in [Stack -> Seq(LeaseWithID)]
  /\ \A s \in Stack : Len(saveChan[s]) <= SaveChanDepth
  /\ leaseMap \in [Client -> [Stack -> Lease]]
  /\ saverPc \in {"off", "loop", "encode", "saved"}

SaverInit ==
  /\ saveChan = [s \in Stack |-> <<>>]
  /\ leaseMap = [c \in Client |-> [s \in Stack |-> NoLease]]
  /\ saverPc = "off"

StartSaver ==
  /\ saverPc' = "loop"
  /\ UNCHANGED <<saveChan, leaseMap>>

\* A save channel without bound.
SendLeaseUnbounded(c, s, l) ==
  /\ saveChan' = [saveChan EXCEPT ![s] = Append(@, [id |-> c, lease |-> l])]
  /\ UNCHANGED <<leaseMap, saverPc>>

\* saveV4Chan <- or saveV6Chan <-, from the goroutine that dialled.
SendLease(c, s, l) ==
  /\ Len(saveChan[s]) < SaveChanDepth
  /\ saveChan' = [saveChan EXCEPT ![s] = Append(@, [id |-> c, lease |-> l])]
  /\ UNCHANGED <<leaseMap, saverPc>>

\* The entry of the client replaced, dropping the lease of its other stack.
MergeReplacing(map, c, s, l) ==
  [map EXCEPT ![c] = [t \in Stack |-> IF t = s THEN l ELSE NoLease]]

\* fl.V4 = v4.Lease or fl.V6 = v6.Lease, in the entry of the client.
Merge(map, c, s, l) == [map EXCEPT ![c][s] = l]

\* The case of the select that receives from the channel of stack s.
SaveOne(s) ==
  /\ saverPc = "loop"
  /\ saveChan[s] # <<>>
  /\ LET m == Head(saveChan[s])
     IN  leaseMap' = Merge(leaseMap, m.id, s, m.lease)
  /\ saveChan' = [saveChan EXCEPT ![s] = Tail(@)]
  /\ UNCHANGED saverPc

\* case <-ctx.Done(): the select may take it although leases are queued.
StopSaving(ctxDone) ==
  /\ saverPc = "loop"
  /\ ctxDone
  /\ saverPc' = "encode"
  /\ UNCHANGED <<saveChan, leaseMap>>

\* The map is encoded and written.  (An error is log.Fatalf: see Dora.)
WriteLeases ==
  /\ saverPc = "encode"
  /\ saverPc' = "saved"
  /\ UNCHANGED <<saveChan, leaseMap>>

=============================================================================
