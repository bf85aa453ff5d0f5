------------------------------ MODULE MCWdCtrl ------------------------------
(***************************************************************************)
(* WdCtrl for TLC: one application that registers under one name or the    *)
(* other, an announced client, and invocations of wd-ctrl.                 *)
(***************************************************************************)
EXTENDS WdCtrl

MCNames == {"a", "b"}
MCProcs == {1, 2}
MCRoot == {2}
MCUsers == {1}

MCConfigs == {[strict_clients |-> FALSE, unique_clients |-> FALSE]}

SectionOf(n) == [name |-> n, timeout_ms |-> 1]
MCAnnouncements == {<< >>, <<SectionOf("a")>>}

MCCalls == [cmd : {"REGISTER"}, name : MCNames, timeout : {1}, opt : {"none"}]

MCCommands ==
  {[cmd |-> "status"], [cmd |-> "reboot"], [cmd |-> "invalid"],
   [cmd |-> "unregister", name |-> "a", id |-> 0],
   [cmd |-> "unregister", name |-> "", id |-> 2]}

OneVersion == {"1.0"}

=============================================================================
