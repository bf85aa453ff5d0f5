---------------------------- MODULE MCQueueDelay ----------------------------
(***************************************************************************)
(* QueueDelay for TLC: one announced client whose heartbeats share the     *)
(* queue with connections that say nothing.  No watchdog is needed to see  *)
(* what is found overdue.                                                  *)
(***************************************************************************)
EXTENDS MCBroker, QueueDelay

Pings == {[cmd |-> "PING", id |-> 1]}
Announced == {<<SectionOf("a")>>}
SomeFaults == {"peercred", "select"}

=============================================================================
