------------------------- MODULE MCConnectorTopology -------------------------
(***************************************************************************)
(* Small instances of ConnectorTopology for TLC.  Nothing tells two ids,   *)
(* platforms or requests apart; scopes are not permuted, since Empty picks *)
(* one of them.                                                            *)
(***************************************************************************)
EXTENDS ConnectorTopology, TLC

Symmetry ==
  Permutations(Platform) \cup Permutations(Provider) \cup Permutations(Provisioner)
  \cup Permutations(Request)
=============================================================================
