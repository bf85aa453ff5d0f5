--------------------------- MODULE MCClientTable ---------------------------
(***************************************************************************)
(* ClientTable for TLC: a client and root share two slots, with every      *)
(* setting of strict_clients and unique_clients and config files that      *)
(* announce nobody, one client, two, one name twice, or too many clients.  *)
(***************************************************************************)
EXTENDS ClientTable

CONSTANT MaxIDs   \* bound: no clientID is drawn beyond so many

MCNames == {"a", "b"}
MCProcs == {1, 2}
MCRoot == {2}

\* Valid, too long, and too long for an unsigned int.
MCTimeouts == {1, 2, 5}

MCRequests ==
  {[cmd |-> "REGISTER", name |-> "a", timeout |-> t, opt |-> "none"] : t \in MCTimeouts}
    \cup [cmd : {"REGISTER"}, name : MCNames, timeout : {1}, opt : {"ignorepid"}]
    \cup [cmd : {"REGISTER"}, name : {"a"}, timeout : {1}, opt : {"other"}]
    \cup [cmd : {"PING", "UNREGISTER"}, id : 1 .. MaxIDs]
    \cup [cmd : {"REBOOT", "STATUS", "VERSION", "malformed", "unknown"}]

MCConfigs == Config

SectionOf(n) == [name |-> n, timeout_ms |-> 1]

MCAnnouncements ==
  {<< >>, <<SectionOf("a")>>, <<SectionOf("b"), SectionOf("a")>>,
   <<SectionOf("a"), SectionOf("a")>>, <<SectionOf("a"), SectionOf("b"), SectionOf("a")>>}

\* The connection is closed after a reply before anything else happens.
MCNext ==
  /\ \/ reply = NoReply /\ TableNext
     \/ reply # NoReply /\ CloseConnection
  /\ issued' <= MaxIDs

MCSpec == TableInit /\ [][MCNext]_tableVars

=============================================================================
