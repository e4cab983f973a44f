---------------------------- MODULE MCClientSetup ----------------------------
(***************************************************************************)
(* Settings for three clients over small address spaces: steps that run    *)
(* out, tags that carry over, exclusions one can and one cannot pass.      *)
(***************************************************************************)
EXTENDS ClientSetup

Default ==
  [NumOfClients |-> 3, StartMAC |-> 1, MacStep |-> 1, StartVLANs |-> <<>>,
   VLANStep |-> 1, ExcludedVLANs |-> {}, EnableV4 |-> TRUE, EnableV6 |-> TRUE,
   SendRSFirst |-> FALSE, FlapNum |-> 0, MinInterval |-> 5, MaxInterval |-> 30,
   V6MsgType |-> "None", ids |-> FALSE, direct |-> FALSE]

\* Addresses and tags, through init or not.
Numbers ==
  {[Default EXCEPT !.StartMAC = m, !.MacStep = ms, !.StartVLANs = vs, !.VLANStep = st,
                   !.ExcludedVLANs = ex, !.V6MsgType = "Solicit", !.direct = d] :
     m \in {0, 4}, ms \in 0..2, vs \in {<<>>, <<0>>, <<1>>, <<0, 2>>, <<1, 3>>},
     st \in 0..2, ex \in SUBSET {1, 2, 3}, d \in BOOLEAN}

\* Stacks, message types, advertisements and flapping.
Modes ==
  {[Default EXCEPT !.NumOfClients = n, !.EnableV4 = e4, !.EnableV6 = e6, !.SendRSFirst = rs,
                   !.V6MsgType = t, !.ids = i, !.FlapNum = f,
                   !.MinInterval = min, !.direct = d] :
     n \in {0, 2}, e4 \in BOOLEAN, e6 \in BOOLEAN, rs \in BOOLEAN,
     t \in {"None", "RelayForward"}, i \in BOOLEAN, f \in {1, 3}, min \in {5, 60},
     d \in BOOLEAN}

\* A caller that does not go through init has settings init would accept.
MCSetups == Numbers \cup {s \in Modes : s.direct => Acceptable(s)}

=============================================================================
