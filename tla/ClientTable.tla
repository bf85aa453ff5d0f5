---------------------------- MODULE ClientTable ----------------------------
(***************************************************************************)
(* The client table of wd-broker and the commands that change it:          *)
(* client_t, parse_config's announced clients, the two slot searches and   *)
(* handle_command (src/wd-broker.c).  One step is one command, from the    *)
(* first byte parsed to the reply written; the main loop around it, and    *)
(* with it the timeout check and the hardware watchdog, is module Broker.  *)
(*                                                                         *)
(* Time is counted in ticks.  The timestamp last_ping of a slot is kept as *)
(* age, the ticks since then, which is what ms_since computes from it.     *)
(***************************************************************************)
EXTENDS Integers, FiniteSets, Sequences

CONSTANTS
  MaxClients,     \* WD_MAX_CLIENTS, the length of the table
  Names,          \* client names
  Procs,          \* process IDs of the peers that connect (creds.pid)
  Root,           \* the peers whose creds.uid is 0
  TimeoutMin,     \* WD_CLIENT_TIMEOUT_MIN_MS, in ticks
  TimeoutMax,     \* WD_CLIENT_TIMEOUT_MAX_MS, in ticks
  UIntRange,      \* number of values of an unsigned int
  Requests,       \* the requests the peers send
  Configs,        \* the strict_clients / unique_clients settings considered
  Announcements,  \* the [client ...] sections considered, a set of sequences
  Urandom,        \* /dev/urandom can be read
  AgeCap          \* bound: an age is not counted any further than this

Config == [strict_clients : BOOLEAN, unique_clients : BOOLEAN]
Section == [name : Names, timeout_ms : TimeoutMin .. TimeoutMax]

(***************************************************************************)
(* A request as handle_command finds it after its strncmp on the command   *)
(* word.  "malformed" stands for every line that is refused for its form   *)
(* alone: wrong number of arguments, trailing words, a clientID of the     *)
(* wrong length or not in hex, a name that is not printable.  A clientID   *)
(* is lowered by parse_clientID, so its spellings are one value here.      *)
(***************************************************************************)
Request ==
  [cmd : {"REGISTER"}, name : Names, timeout : Nat, opt : {"none", "ignorepid", "other"}]
    \cup [cmd : {"PING", "UNREGISTER"}, id : Nat]
    \cup [cmd : {"REBOOT", "STATUS", "VERSION", "malformed", "unknown"}]

ASSUME TableAssumption ==
  /\ MaxClients \in Nat \ {0}
  /\ Procs \subseteq Nat /\ Root \subseteq Procs
  /\ TimeoutMin \in Nat \ {0} /\ TimeoutMax \in Nat /\ TimeoutMin <= TimeoutMax
  /\ UIntRange \in Nat /\ UIntRange > TimeoutMax
  /\ Requests \subseteq Request
  /\ Configs \subseteq Config
  /\ Announcements \subseteq Seq(Section)
  /\ Urandom \in BOOLEAN
  /\ AgeCap \in Nat /\ AgeCap > TimeoutMax

VARIABLES
  config,    \* the global config (strict_clients and unique_clients)
  clients,   \* client_t clients[WD_MAX_CLIENTS]
  issued,    \* the clientIDs drawn so far are among 1 .. issued
  running,   \* the global running
  reboot,    \* the global reboot
  reply      \* what was written to the connection being served

tableVars == <<config, clients, issued, running, reboot, reply>>

Slots == 1 .. MaxClients

Client ==
  [clientID : Nat, name : Names \cup {""}, pid : Nat, timeout_ms : 0 .. TimeoutMax,
   age : 0 .. AgeCap, active : BOOLEAN, anounced : BOOLEAN, checkPID : BOOLEAN]

\* A slot after the memset of parse_config.
EmptyClient ==
  [clientID |-> 0, name |-> "", pid |-> 0, timeout_ms |-> 0, age |-> 0,
   active |-> FALSE, anounced |-> FALSE, checkPID |-> FALSE]

Answers ==
  {"OK", "OK id", "OK seconds", "status", "version", "invalid syntax", "invalid timeout",
   "rejected", "wrong PID", "unknown clientID", "no permission", "no input", "unknown command"}

NoReply == [to |-> 0, ans |-> "none", id |-> 0]

\* The slots the table's users look at: registered, or announced and awaited.
Live(c) == c.active \/ c.anounced

LiveSlots == {s \in Slots : Live(clients[s])}

----------------------------------------------------------------------------
(* clientIDs *)

(***************************************************************************)
(* make_clientID: 64 random bits.  Random IDs do not repeat; they are      *)
(* numbered in the order they are drawn.  When /dev/urandom cannot be read *)
(* the ID is a function of a seed made of the time of day and the process  *)
(* IDs, and an earlier seed, hence an earlier ID, can come up again.       *)
(***************************************************************************)
make_clientID(n) == IF Urandom THEN {n + 1} ELSE 1 .. (n + 1)

Drawn(id) == IF id > issued THEN id ELSE issued

----------------------------------------------------------------------------
(* The two slot searches *)

\* s is the first slot a loop over the table finds in S.
FirstOf(s, S) == s \in S /\ \A t \in S : s <= t

NameInUse(name) == \E s \in Slots : clients[s].active /\ clients[s].name = name

AnnouncedSlots(name) ==
  {s \in Slots : clients[s].anounced /\ ~clients[s].active /\ clients[s].name = name}

FreeSlots == {s \in Slots : ~clients[s].anounced /\ ~clients[s].active}

\* Faulty: the unique_clients loop is gone.
Bug_SlotsByName_noUnique(name) ==
  IF AnnouncedSlots(name) # {} THEN AnnouncedSlots(name)
  ELSE IF config.strict_clients THEN {} ELSE FreeSlots

\* The slots get_clientInstance_by_name chooses from; none when it returns NULL.
SlotsByName(name) ==
  IF config.unique_clients /\ NameInUse(name) THEN {}
  ELSE IF AnnouncedSlots(name) # {} THEN AnnouncedSlots(name)
  ELSE IF config.strict_clients THEN {}
  ELSE FreeSlots

\* The slots whose clientID get_clientInstance_by_clientID matches.
SlotsByID(id) == {s \in Slots : Live(clients[s]) /\ clients[s].clientID = id}

\* Faulty: any process that knows the clientID passes.
Bug_Identified_anyPID(s, p) == clients[s].clientID > 0

\* WD_CLIENT_IDENTIFIED, as opposed to WD_CLIENT_PID_MISMATCH.
Identified(s, p) == ~clients[s].checkPID \/ clients[s].pid = p

----------------------------------------------------------------------------
(* handle_command, one disjunct per way through it *)

Answer(p, a, i) == reply' = [to |-> p, ans |-> a, id |-> i]

\* An answer that leaves the broker's state alone.
Say(p, a) == Answer(p, a, 0) /\ UNCHANGED <<config, clients, issued, running, reboot>>

\* sscanf's %u keeps the low bits of the number.
UInt(n) == n % UIntRange

\* Faulty: the upper bound is not checked.
Bug_TimeoutInRange_noMax(t) == TimeoutMin <= t

TimeoutInRange(t) == TimeoutMin <= t /\ t <= TimeoutMax

\* Faulty: a new ID for announced clients too; no new ID for a slot used before.
Bug_RegisteredID_alwaysNew(s) == make_clientID(issued)
Bug_RegisteredID_neverNew(s) == {clients[s].clientID}

\* An announced client keeps the ID it got while parsing the config file.
RegisteredID(s) == IF clients[s].anounced THEN {clients[s].clientID} ELSE make_clientID(issued)

\* The slot a successful REGISTER leaves behind.
Registered(r, p, id) ==
  [clientID |-> id, name |-> r.name, pid |-> p, timeout_ms |-> UInt(r.timeout), age |-> 0,
   active |-> TRUE, anounced |-> FALSE, checkPID |-> r.opt # "ignorepid"]

RegisterOK(p, r) ==
  /\ r.cmd = "REGISTER" /\ r.opt # "other" /\ TimeoutInRange(UInt(r.timeout))
  /\ \E s \in Slots : 
       /\ FirstOf(s, SlotsByName(r.name))
       /\ \E id \in RegisteredID(s) :
            /\ clients' = [clients EXCEPT ![s] = Registered(r, p, id)]
            /\ issued' = Drawn(id)
            /\ Answer(p, "OK id", id)
  /\ UNCHANGED <<config, running, reboot>>

RegisterRefused(p, r) ==
  /\ r.cmd = "REGISTER"
  /\ \/ r.opt = "other" /\ Say(p, "invalid syntax")
     \/ r.opt # "other" /\ ~TimeoutInRange(UInt(r.timeout)) /\ Say(p, "invalid timeout")
     \/ /\ r.opt # "other" /\ TimeoutInRange(UInt(r.timeout)) /\ SlotsByName(r.name) = {}
        /\ Say(p, "rejected")

PingOK(p, r) ==
  /\ r.cmd = "PING"
  /\ \E s \in Slots : 
       /\ FirstOf(s, SlotsByID(r.id)) /\ Identified(s, p)
       /\ clients' = [clients EXCEPT ![s].age = 0]
  /\ Answer(p, "OK", 0)
  /\ UNCHANGED <<config, issued, running, reboot>>

PingRefused(p, r) ==
  /\ r.cmd = "PING"
  /\ \/ /\ \E s \in Slots : FirstOf(s, SlotsByID(r.id)) /\ ~Identified(s, p)
        /\ Say(p, "wrong PID")
     \/ SlotsByID(r.id) = {} /\ Say(p, "unknown clientID")

\* Faulty: the owner may leave even when strict.
Bug_MayUnregister_noStrict(s, p) == Identified(s, p) \/ p \in Root

\* Who may remove the client in slot s: root always, its owner unless strict.
MayUnregister(s, p) ==
  IF Identified(s, p) THEN ~config.strict_clients \/ p \in Root ELSE p \in Root

UnregisterOK(p, r) ==
  /\ r.cmd = "UNREGISTER"
  /\ \E s \in Slots : 
       /\ FirstOf(s, SlotsByID(r.id)) /\ MayUnregister(s, p)
       /\ clients' = [clients EXCEPT ![s].active = FALSE, ![s].anounced = FALSE]
  /\ Answer(p, "OK", 0)
  /\ UNCHANGED <<config, issued, running, reboot>>

UnregisterRefused(p, r) ==
  /\ r.cmd = "UNREGISTER"
  /\ \/ /\ \E s \in Slots : FirstOf(s, SlotsByID(r.id)) /\ ~MayUnregister(s, p)
                                                        /\ Identified(s, p)
        /\ Say(p, "rejected")
     \/ /\ \E s \in Slots : FirstOf(s, SlotsByID(r.id)) /\ ~MayUnregister(s, p)
                                                        /\ ~Identified(s, p)
        /\ Say(p, "no permission")
     \/ SlotsByID(r.id) = {} /\ Say(p, "unknown clientID")

RebootOK(p, r) ==
  /\ r.cmd = "REBOOT" /\ p \in Root
  /\ Answer(p, "OK seconds", 0)
  /\ running' = FALSE
  /\ reboot' = TRUE
  /\ UNCHANGED <<config, clients, issued>>

\* The commands that only report, and the refusals that need no look at the table.
Report(p, r) ==
  \/ r.cmd = "REBOOT" /\ p \notin Root /\ Say(p, "no permission")
  \/ r.cmd = "STATUS" /\ (p = 0 \/ p \in Root) /\ Say(p, "status")
  \/ r.cmd = "STATUS" /\ ~(p = 0 \/ p \in Root) /\ Say(p, "no permission")
  \/ r.cmd = "VERSION" /\ Say(p, "version")
  \/ r.cmd = "malformed" /\ Say(p, "invalid syntax")
  \/ r.cmd = "unknown" /\ Say(p, "unknown command")

\* handle_command when there is no request to be had, or no credentials of the peer.
NoInput(p) == Say(p, "no input")

\* handle_command once the request is in buf.
handle_command(p, r) ==
  \/ RegisterOK(p, r) \/ RegisterRefused(p, r)
  \/ PingOK(p, r) \/ PingRefused(p, r)
  \/ UnregisterOK(p, r) \/ UnregisterRefused(p, r)
  \/ RebootOK(p, r)
  \/ Report(p, r)

----------------------------------------------------------------------------
(* What else happens to the table *)

\* One tick passes.  The age of a slot nobody looks at is not counted.
Elapse(cs) ==
  [s \in Slots |->
     IF Live(cs[s]) /\ cs[s].age < AgeCap THEN [cs[s] EXCEPT !.age = @ + 1] ELSE cs[s]]

TimePasses == clients' = Elapse(clients) /\ UNCHANGED <<config, issued, running, reboot, reply>>

\* close(client_sock)
CloseConnection == reply' = NoReply /\ UNCHANGED <<config, clients, issued, running, reboot>>

\* SIGINT or SIGTERM
signal_handler == running' = FALSE /\ UNCHANGED <<config, clients, issued, reboot, reply>>

----------------------------------------------------------------------------
(* Start-up: what parse_config leaves in config and clients *)

\* The sections parse_config lets pass.
AcceptedConfig(cfg, ann) ==
  /\ Len(ann) <= MaxClients
  /\ cfg.strict_clients => Len(ann) > 0
  /\ cfg.unique_clients => \A i, j \in 1 .. Len(ann) : ann[i].name = ann[j].name => i = j

AnnouncedClient(section, id) ==
  [EmptyClient EXCEPT !.clientID = id, !.name = section.name,
                      !.timeout_ms = section.timeout_ms, !.anounced = TRUE]

\* Slot i holds the i-th section; its ID was drawn after i - 1 others.
parse_config(cfg, ann) ==
  /\ AcceptedConfig(cfg, ann)
  /\ config = cfg
  /\ issued = Len(ann)
  /\ \E ids \in [1 .. Len(ann) -> 1 .. Len(ann)] :
       /\ \A i \in 1 .. Len(ann) : ids[i] \in make_clientID(i - 1)
       /\ clients = [s \in Slots |-> IF s <= Len(ann) THEN AnnouncedClient(ann[s], ids[s])
                                     ELSE EmptyClient]

TableInit ==
  /\ \E cfg \in Configs, ann \in Announcements : parse_config(cfg, ann)
  /\ running = TRUE
  /\ reboot = FALSE
  /\ reply = NoReply

TableNext ==
  \/ \E p \in Procs, r \in Requests : handle_command(p, r)
  \/ \E p \in Procs : NoInput(p)
  \/ TimePasses
  \/ CloseConnection
  \/ signal_handler

TableSpec == TableInit /\ [][TableNext]_tableVars

----------------------------------------------------------------------------
(* Properties *)

\* Types of the table and of the flags handle_command shares with main().
TableTypeOK ==
  /\ config \in Config
  /\ clients \in [Slots -> Client]
  /\ issued \in Nat
  /\ running \in BOOLEAN
  /\ reboot \in BOOLEAN
  /\ reply \in [to : Nat, ans : Answers \cup {"none"}, id : Nat]

\* No two slots in use answer to one clientID, whatever order of REGISTER, UNREGISTER and
\* reuse of slots led here: get_clientInstance_by_clientID returns the first match, so a
\* second slot with the same ID could not be pinged any more and would reset the system.
LiveIDsDistinct ==
  \A s, t \in LiveSlots : clients[s].clientID = clients[t].clientID => s = t

\* With unique_clients no two slots in use, registered or still awaited, have one name:
\* the start-up check on the sections and the run-time check on active slots in
\* get_clientInstance_by_name together leave no gap (wd-ctrl's unregister by name needs it).
UniqueNamesHold ==
  config.unique_clients =>
    \A s, t \in LiveSlots : clients[s].name = clients[t].name => s = t

\* With strict_clients the roster of the config file only ever loses members, and only
\* root removes them: neither a REGISTER nor a client's own UNREGISTER changes who is watched.
StrictRosterStep ==
  config.strict_clients =>
    /\ LiveSlots' \subseteq LiveSlots
    /\ LiveSlots' # LiveSlots => reply'.to \in Root

StrictRosterKept == [][StrictRosterStep]_tableVars

\* A slot in use keeps its name and clientID until it is given up, through registration of
\* an announced client and any number of other clients coming and going.
KeepIdentityStep ==
  \A s \in LiveSlots \cap LiveSlots' :
    /\ clients'[s].name = clients[s].name
    /\ clients'[s].clientID = clients[s].clientID

LiveSlotsKeepIdentity == [][KeepIdentityStep]_tableVars

\* A client that asked for PID checking is only ever kept alive, or removed from
\* supervision, by the process that registered it or (removal) by root.
PidCheckStep ==
  \A s \in Slots : clients[s].active /\ clients[s].checkPID =>
    /\ Live(clients'[s]) /\ clients'[s].age < clients[s].age => reply'.to = clients[s].pid
    /\ ~Live(clients'[s]) => reply'.to = clients[s].pid \/ reply'.to \in Root

PidCheckHolds == [][PidCheckStep]_tableVars

=============================================================================
