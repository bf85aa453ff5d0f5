------------------------------ MODULE MCBroker ------------------------------
(***************************************************************************)
(* Broker for TLC.  One process, which is root, plays every client: it     *)
(* registers, pings, leaves, asks for a reboot, or connects and says       *)
(* nothing.  A tick is 0.5 s, as everywhere in Broker.                     *)
(***************************************************************************)
EXTENDS Broker

MCProcs == {1}
MCRoot == {1}
MCConfigs == {[strict_clients |-> FALSE, unique_clients |-> FALSE]}

SectionOf(n) == [name |-> n, timeout_ms |-> TimeoutMax]
Register(n) == [cmd |-> "REGISTER", name |-> n, timeout |-> TimeoutMax, opt |-> "none"]
ByID(ids) == [cmd : {"PING", "UNREGISTER"}, id : ids]
Reboot == [cmd |-> "REBOOT"]

\* A table of one slot: the client is announced, or registers unannounced.
OneNames == {"a"}
OneRequests == {Register("a"), Reboot} \cup ByID({1})
OneAnnouncements == {<< >>, <<SectionOf("a")>>}

\* A table of two slots: one client is announced, the other registers unannounced.
TwoNames == {"a", "b"}
TwoRequests == {Register("b"), Reboot} \cup ByID({1, 2})
TwoAnnouncements == {<<SectionOf("a")>>}

=============================================================================
