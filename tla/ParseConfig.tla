---------------------------- MODULE ParseConfig ----------------------------
(***************************************************************************)
(* parse_config of src/wd-broker.c as it reads the file: one step is one   *)
(* turn of its fgets loop, the last one what follows the loop.  The file   *)
(* is not given beforehand: each step chooses what fgets returns, and file *)
(* records it, so that a result can be compared with what the whole file   *)
(* says.  Trimming and spelling are abstracted, the order in which a piece *)
(* is tried as a comment, a pair and a section is kept.                    *)
(***************************************************************************)
EXTENDS ClientTable

CONSTANTS
  Pieces,       \* what fgets may return
  WithEquals,   \* the names that contain a '='
  MaxPieces     \* bound: the length of a file

(***************************************************************************)
(* fgets returns a line, or the next 255 characters of a longer one, which *)
(* are then taken for a line of their own.  A pair's value is a word or a  *)
(* number as atoi reads it, an int, whatever follows the digits.  A        *)
(* section may be closed by ']', not be closed, or have more in it than    *)
(* that.                                                                   *)
(***************************************************************************)
Keys == {"socket_path", "wd_timeout_s", "reboot_timeout_s", "strict_clients",
         "unique_clients", "timeout_ms", "service_user", "other"}
Ints == -(UIntRange \div 2) .. (UIntRange \div 2 - 1)
Piece ==
  [kind : {"blank", "comment", "garbage"}]
    \cup [kind : {"pair"}, key : Keys, val : Ints, word : STRING]
    \cup [kind : {"section"}, name : Names, form : {"closed", "open", "extra"}]

ASSUME ConfigAssumption ==
  /\ Pieces \subseteq Piece
  /\ WithEquals \subseteq Names
  /\ MaxPieces \in Nat
  /\ TimeoutMax < UIntRange \div 2

VARIABLES
  opts,         \* the rest of config: socket_path, wd_timeout_s, reboot_timeout_s
  client_idx,   \* the section being read, -1 before the first
  status,       \* "reading", "accepted" or "fatal"
  file          \* what fgets has returned so far

configVars == <<tableVars, opts, client_idx, status, file>>

DefaultOpts == [socket_path |-> "default", wd_timeout_s |-> 10, reboot_timeout_s |-> 60]
WdTimeouts == 10 .. 60
RebootTimeouts == 10 .. 300
DefaultTimeout == TimeoutMax   \* 5 * 60 * 1000

----------------------------------------------------------------------------
(* One turn of the loop *)

Keep == UNCHANGED <<config, clients, issued, opts, client_idx, status>>
fatal == status' = "fatal" /\ UNCHANGED <<config, clients, issued, opts, client_idx>>

IsPair(l) == l.kind = "pair" \/ (l.kind = "section" /\ l.name \in WithEquals)
KeyOf(l) == IF l.kind = "pair" THEN l.key ELSE "other"

Skip(l) == l.kind \in {"blank", "comment"} /\ Keep

SetPath(l) ==
  /\ KeyOf(l) = "socket_path"
  /\ opts' = [opts EXCEPT !.socket_path = l.word]
  /\ UNCHANGED <<config, clients, issued, client_idx, status>>

SetSeconds(l) ==
  \/ /\ KeyOf(l) = "wd_timeout_s" /\ l.val \in WdTimeouts
     /\ opts' = [opts EXCEPT !.wd_timeout_s = l.val]
     /\ UNCHANGED <<config, clients, issued, client_idx, status>>
  \/ /\ KeyOf(l) = "reboot_timeout_s" /\ l.val \in RebootTimeouts
     /\ opts' = [opts EXCEPT !.reboot_timeout_s = l.val]
     /\ UNCHANGED <<config, clients, issued, client_idx, status>>
  \/ KeyOf(l) = "wd_timeout_s" /\ l.val \notin WdTimeouts /\ fatal
  \/ KeyOf(l) = "reboot_timeout_s" /\ l.val \notin RebootTimeouts /\ fatal

SetFlag(l) ==
  \/ /\ KeyOf(l) = "strict_clients" /\ l.word \in {"true", "false"}
     /\ config' = [config EXCEPT !.strict_clients = (l.word = "true")]
     /\ UNCHANGED <<clients, issued, opts, client_idx, status>>
  \/ /\ KeyOf(l) = "unique_clients" /\ l.word \in {"true", "false"}
     /\ config' = [config EXCEPT !.unique_clients = (l.word = "true")]
     /\ UNCHANGED <<clients, issued, opts, client_idx, status>>
  \/ KeyOf(l) \in {"strict_clients", "unique_clients"} /\ l.word \notin {"true", "false"} /\ fatal

\* Faulty: the timeout always goes to the first client.
Bug_TimedSlot_first == 1

\* The slot of the section being read.
TimedSlot == client_idx + 1

\* timeout_ms is unsigned: a negative number is a very large one.
SetTimeoutMs(l) ==
  \/ /\ KeyOf(l) = "timeout_ms" /\ client_idx # -1 /\ TimeoutInRange(UInt(l.val))
     /\ clients' = [clients EXCEPT ![TimedSlot].timeout_ms = UInt(l.val)]
     /\ UNCHANGED <<config, issued, opts, client_idx, status>>
  \/ KeyOf(l) = "timeout_ms" /\ (client_idx = -1 \/ ~TimeoutInRange(UInt(l.val))) /\ fatal

Pair(l) ==
  /\ IsPair(l)
  /\ \/ SetPath(l) \/ SetSeconds(l) \/ SetFlag(l) \/ SetTimeoutMs(l)
     \/ KeyOf(l) \in {"service_user", "other"} /\ fatal

\* A section without its ']' is as long as its name allows, and passes.
SectionLine(l) ==
  /\ l.kind = "section" /\ ~IsPair(l)
  /\ \/ /\ client_idx + 1 < MaxClients /\ l.form # "extra"
        /\ client_idx' = client_idx + 1
        /\ LET section == [name |-> l.name, timeout_ms |-> DefaultTimeout] IN
             \E id \in make_clientID(issued) :
               clients' = [clients EXCEPT ![client_idx + 2] = AnnouncedClient(section, id)]
        /\ issued' = issued + 1
        /\ UNCHANGED <<config, opts, status>>
     \/ (client_idx + 1 >= MaxClients \/ l.form = "extra") /\ fatal

Garbage(l) == l.kind = "garbage" /\ fatal

Fgets(l) ==
  /\ status = "reading" /\ Len(file) < MaxPieces
  /\ file' = Append(file, l)
  /\ Skip(l) \/ Pair(l) \/ SectionLine(l) \/ Garbage(l)
  /\ UNCHANGED <<running, reboot, reply>>

\* Faulty: a name is compared with that of the next section only.
Bug_Duplicates_neighbours ==
  \E i \in Slots : i + 1 \in Slots /\ clients[i].anounced /\ clients[i + 1].anounced
                     /\ clients[i].name = clients[i + 1].name

Duplicates ==
  \E i, j \in Slots : i < j /\ clients[i].anounced /\ clients[j].anounced
                        /\ clients[i].name = clients[j].name

\* The end of the file: the checks after the loop.
Eof ==
  /\ status = "reading"
  /\ LET missing == config.strict_clients /\ client_idx = -1
         ambiguous == config.unique_clients /\ Duplicates IN
       status' = IF missing \/ ambiguous THEN "fatal" ELSE "accepted"
  /\ UNCHANGED <<tableVars, opts, client_idx, file>>

ConfigInit ==
  /\ config = [strict_clients |-> FALSE, unique_clients |-> FALSE]
  /\ clients = [s \in Slots |-> EmptyClient]
  /\ issued = 0 /\ running = TRUE /\ reboot = FALSE /\ reply = NoReply
  /\ opts = DefaultOpts /\ client_idx = -1 /\ status = "reading" /\ file = << >>

\* parse_config has returned, or the process has ended.
Parsed == status # "reading" /\ UNCHANGED configVars

ConfigNext == (\E l \in Pieces : Fgets(l)) \/ Eof \/ Parsed

ConfigSpec == ConfigInit /\ [][ConfigNext]_configVars

----------------------------------------------------------------------------
(* What a file says, read as a whole *)

Pairs(key) == {i \in DOMAIN file : IsPair(file[i]) /\ KeyOf(file[i]) = key}
Sections == {i \in DOMAIN file : file[i].kind = "section" /\ ~IsPair(file[i])}

LastOf(S) == CHOOSE i \in S : \A j \in S : j <= i

\* The last pair with the key counts, inside a section or before the first.
Value(key, default) == IF Pairs(key) = {} THEN default ELSE file[LastOf(Pairs(key))].val
Word(key, default) == IF Pairs(key) = {} THEN default ELSE file[LastOf(Pairs(key))].word

\* The timeouts given in the section that starts at i.
TimeoutsIn(i) == {k \in Pairs("timeout_ms") : k > i /\ \A j \in Sections : j < k => j <= i}

SectionAt(i) ==
  [name |-> file[i].name,
   timeout_ms |-> IF TimeoutsIn(i) = {} THEN DefaultTimeout
                  ELSE file[LastOf(TimeoutsIn(i))].val]

Before(i) == Cardinality({j \in Sections : j <= i})

\* The sections in the order of the file.
SectionList ==
  [n \in 1 .. Cardinality(Sections) |-> SectionAt(CHOOSE i \in Sections : Before(i) = n)]

WellFormed(i) ==
  LET l == file[i] IN
    IF IsPair(l)
      THEN \/ KeyOf(l) = "socket_path"
           \/ KeyOf(l) = "wd_timeout_s" /\ l.val \in 10 .. 60
           \/ KeyOf(l) = "reboot_timeout_s" /\ l.val \in 10 .. 300
           \/ KeyOf(l) \in {"strict_clients", "unique_clients"} /\ l.word \in {"true", "false"}
           \/ KeyOf(l) = "timeout_ms" /\ l.val \in TimeoutMin .. TimeoutMax
                /\ \E j \in Sections : j < i
      ELSE l.kind # "garbage" /\ (l.kind = "section" => l.form # "extra")

Settings ==
  [strict_clients |-> Word("strict_clients", "false") = "true",
   unique_clients |-> Word("unique_clients", "false") = "true"]

\* The loop that goes through the file once, with client_idx as its only memory, accepts
\* exactly the files that are well-formed, announce no more clients than there are slots
\* and meet the demands of their own settings, wherever in the file these stand; and what
\* it leaves is what the file says as a whole: the last value of every option, and every
\* client with the last timeout of its own section.
ParserAgrees ==
  status = "reading" \/
    /\ status = "accepted" <=>
         (\A i \in DOMAIN file : WellFormed(i)) /\ AcceptedConfig(Settings, SectionList)
    /\ status = "accepted" =>
         /\ config = Settings
         /\ opts = [socket_path |-> Word("socket_path", "default"),
                    wd_timeout_s |-> Value("wd_timeout_s", 10),
                    reboot_timeout_s |-> Value("reboot_timeout_s", 60)]
         /\ \A n \in 1 .. Len(SectionList) :
              /\ clients[n].name = SectionList[n].name
              /\ clients[n].timeout_ms = SectionList[n].timeout_ms

\* What parse_config leaves is a table the daemon may start with (ClientTable's TableInit):
\* announced clients fill the slots from the first one on, with IDs of their own, and the
\* combinations of settings and sections are those the table's invariants rely on.
AcceptedIsInitial == status = "accepted" => parse_config(config, SectionList)

----------------------------------------------------------------------------
(* What the documentation says, where the code does something else *)

\* doc/ConfigurationFile.md: the options and the names it lists ("any printable character
\* except ']'") make a file that is accepted.
Documented(l) ==
  \/ l.kind \in {"blank", "comment"}
  \/ l.kind = "pair" /\ l.key = "service_user"
  \/ l.kind = "section" /\ l.form = "closed"

DocumentedIsAccepted ==
  (\A i \in DOMAIN file : Documented(file[i])) /\ Cardinality(Sections) <= MaxClients
    => status # "fatal"

=============================================================================
