------------------------- MODULE MCBrokerRefinement -------------------------
(***************************************************************************)
(* BrokerRefinement for TLC, on the instances of MCBroker.                 *)
(***************************************************************************)
EXTENDS MCBroker, BrokerRefinement

=============================================================================
