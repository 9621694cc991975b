---------------------------- MODULE MCPubSubHub ----------------------------
(***************************************************************************)
(* The instance of the pub/sub hub that TLC checks: the clients can be     *)
(* exchanged.                                                              *)
(***************************************************************************)
EXTENDS PubSubHub, TLC

Symmetry == Permutations(Clients)

===============================================================================
