------------------------------ MODULE MCConPair ------------------------------
(***************************************************************************)
(* Two packets from A to B, where both operations have deadlines, and one  *)
(* from B to A.                                                            *)
(***************************************************************************)
EXTENDS ConPair

MCMaxPackets == [e \in End |-> IF e = "B" THEN 2 ELSE 1]
MCTimed == {<<"A", "write">>, <<"B", "read">>}

=============================================================================
