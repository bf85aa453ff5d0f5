---------------------------- MODULE MCClientLib ----------------------------
(***************************************************************************)
(* ClientLib for TLC: an application, announced in some of the config      *)
(* files, whose calls give up and leave their requests in a queue that     *)
(* fills up, and a daemon that is restarted and may then have another      *)
(* protocol version.                                                       *)
(***************************************************************************)
EXTENDS ClientLib

MCNames == {"a", "b"}
MCProcs == {1, 2}
MCNoRoot == {}
OneUser == {1}

MCConfigs == {[strict_clients |-> FALSE, unique_clients |-> FALSE]}

SectionOf(n) == [name |-> n, timeout_ms |-> 1]
MCAnnouncements == {<< >>, <<SectionOf("a")>>}
NoAnnouncements == {<< >>}

Register(n, t) == [cmd |-> "REGISTER", name |-> n, timeout |-> t, opt |-> "none"]

\* A good registration, one without a name and one with a timeout out of range.
MCCalls == {Register("a", 1), Register("", 1), Register("a", 2)}
GoodCall == {Register("a", 1)}

MCVersions == {"1.0", "2.0"}
OneVersion == {"1.0"}

=============================================================================
