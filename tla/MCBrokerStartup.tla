-------------------------- MODULE MCBrokerStartup --------------------------
(***************************************************************************)
(* BrokerStartup for TLC: three processes, the last of which may find what *)
(* two others left behind, and one of them without a watchdog.             *)
(***************************************************************************)
EXTENDS BrokerStartup

MCInstances == 1 .. 3
MCWatchdog == {1, 2}

=============================================================================
