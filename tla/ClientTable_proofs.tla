------------------------ MODULE ClientTable_proofs ------------------------
(***************************************************************************)
(* Proofs about ClientTable, for tables of any length, any set of names,   *)
(* any set of peers and requests, and any config file.                     *)
(***************************************************************************)
EXTENDS ClientTable, TLAPS

----------------------------------------------------------------------------
(* The operators the model is built from *)

\* The numbers among the parameters.
LEMMA Sizes ==
  /\ MaxClients \in Nat /\ MaxClients > 0
  /\ TimeoutMin \in Nat /\ TimeoutMin > 0 /\ TimeoutMax \in Nat /\ TimeoutMin <= TimeoutMax
  /\ UIntRange \in Nat /\ UIntRange > 0
  /\ AgeCap \in Nat /\ AgeCap > TimeoutMax
BY TableAssumption

\* What a REGISTER request carries.
LEMMA RegisterFields ==
  ASSUME NEW r \in Request, r.cmd = "REGISTER"
  PROVE  r.name \in Names /\ r.timeout \in Nat /\ r.opt \in {"none", "ignorepid", "other"}
BY DEF Request

\* %u yields a natural number, so a timeout in range is one the table can hold.
LEMMA UIntInRange ==
  ASSUME NEW n \in Nat, TimeoutInRange(UInt(n))
  PROVE  UInt(n) \in 0 .. TimeoutMax
<1>1. UInt(n) \in Nat
  BY Sizes DEF UInt
<1> QED
  BY <1>1, Sizes DEF TimeoutInRange

\* A drawn clientID is a positive number that is counted as issued, and a random one is new.
LEMMA DrawnIDs ==
  ASSUME issued \in Nat, NEW id \in make_clientID(issued)
  PROVE  /\ id \in Nat /\ id > 0
         /\ Drawn(id) \in Nat /\ id <= Drawn(id) /\ issued <= Drawn(id)
         /\ Urandom => id > issued
BY TableAssumption DEF make_clientID, Drawn

\* Both searches of get_clientInstance_by_name end at a slot that is not active.
LEMMA FoundByName ==
  ASSUME NEW name, NEW s \in SlotsByName(name)
  PROVE  /\ s \in Slots /\ ~clients[s].active
         /\ clients[s].anounced => clients[s].name = name
         /\ config.unique_clients => ~NameInUse(name)
         /\ ~clients[s].anounced => AnnouncedSlots(name) = {} /\ ~config.strict_clients
BY DEF SlotsByName, AnnouncedSlots, FreeSlots

----------------------------------------------------------------------------
(* Types *)

\* The numbers in a slot.
LEMMA ClientNumbers ==
  ASSUME TableTypeOK, NEW s \in Slots
  PROVE  /\ clients[s] \in Client
         /\ clients[s].age \in Nat /\ clients[s].age <= AgeCap
         /\ clients[s].timeout_ms \in Nat /\ clients[s].timeout_ms <= TimeoutMax
<1>1. clients[s] \in Client
  BY DEF TableTypeOK
<1>2. clients[s].age \in 0 .. AgeCap /\ clients[s].timeout_ms \in 0 .. TimeoutMax
  BY <1>1 DEF Client
<1> QED
  BY <1>1, <1>2, Sizes

\* What parse_config leaves behind is a table.
LEMMA TypeInit == TableInit => TableTypeOK
<1> SUFFICES ASSUME TableInit PROVE TableTypeOK
  OBVIOUS
<1>1. PICK cfg \in Configs, ann \in Announcements : parse_config(cfg, ann)
  BY DEF TableInit
<1>2. ann \in Seq(Section) /\ cfg \in Config /\ Len(ann) \in Nat
  BY TableAssumption
<1>3. PICK ids \in [1 .. Len(ann) -> 1 .. Len(ann)] :
        clients = [s \in Slots |-> IF s <= Len(ann) THEN AnnouncedClient(ann[s], ids[s])
                                   ELSE EmptyClient]
  BY <1>1 DEF parse_config
<1>4. EmptyClient \in Client
  BY TableAssumption DEF EmptyClient, Client
<1>5. ASSUME NEW s \in Slots, s <= Len(ann) PROVE AnnouncedClient(ann[s], ids[s]) \in Client
  <2>1. s \in 1 .. Len(ann) /\ ids[s] \in Nat
    BY <1>2, <1>3, <1>5, TableAssumption DEF Slots
  <2>2. ann[s] \in Section
    BY <1>2, <2>1
  <2>3. ann[s].name \in Names /\ ann[s].timeout_ms \in 0 .. TimeoutMax
    BY <2>2, TableAssumption DEF Section
  <2> QED
    BY <2>1, <2>3, <1>4, TableAssumption DEF AnnouncedClient, EmptyClient, Client
<1>6. clients \in [Slots -> Client]
  BY <1>3, <1>4, <1>5
<1> QED
  BY <1>1, <1>2, <1>6 DEF TableInit, parse_config, TableTypeOK, NoReply

\* Setting the clock of a client, or dropping its flags, leaves a client.
LEMMA SetAge ==
  ASSUME NEW c \in Client, NEW n \in 0 .. AgeCap
  PROVE  [c EXCEPT !.age = n] \in Client
BY DEF Client

\* Giving up a slot leaves a client in it.
LEMMA DropFlags ==
  ASSUME NEW c \in Client
  PROVE  [c EXCEPT !.active = FALSE, !.anounced = FALSE] \in Client
BY DEF Client

\* What a successful REGISTER leaves in a slot is a client.
LEMMA RegisteredType ==
  ASSUME NEW r \in Request, NEW p \in Procs, NEW id \in Nat, r.cmd = "REGISTER",
         TimeoutInRange(UInt(r.timeout))
  PROVE  Registered(r, p, id) \in Client
<1>1. r.name \in Names /\ UInt(r.timeout) \in 0 .. TimeoutMax
  BY RegisterFields, UIntInRange
<1>2. p \in Nat /\ 0 \in 0 .. AgeCap
  BY TableAssumption
<1> QED
  BY <1>1, <1>2 DEF Registered, Client

\* A command, of whatever form, keeps the types.
LEMMA CommandType ==
  ASSUME TableTypeOK, NEW p \in Procs, NEW r \in Request, handle_command(p, r)
  PROVE  TableTypeOK'
<1>0. p \in Nat
  BY TableAssumption
<1>1. CASE RegisterOK(p, r)
  <2>0. PICK s \in Slots : \E i \in RegisteredID(s) :
          /\ clients' = [clients EXCEPT ![s] = Registered(r, p, i)]
          /\ issued' = Drawn(i)
          /\ Answer(p, "OK id", i)
    BY <1>1 DEF RegisterOK
  <2>1. PICK id \in RegisteredID(s) :
          /\ clients' = [clients EXCEPT ![s] = Registered(r, p, id)]
          /\ issued' = Drawn(id)
          /\ Answer(p, "OK id", id)
    BY <2>0
  <2>2. id \in Nat /\ Drawn(id) \in Nat
    BY DrawnIDs, <2>1 DEF RegisteredID, TableTypeOK, Client, Drawn
  <2>3. Registered(r, p, id) \in Client
    BY <1>1, <2>2, RegisteredType DEF RegisterOK
  <2> QED
    BY <1>0, <1>1, <2>1, <2>2, <2>3 DEF RegisterOK, TableTypeOK, Answer, Answers
<1>2. CASE PingOK(p, r)
  <2>1. PICK s \in Slots : clients' = [clients EXCEPT ![s].age = 0]
    BY <1>2 DEF PingOK
  <2>2. clients' \in [Slots -> Client]
    <3>1. [clients[s] EXCEPT !.age = 0] \in Client
      BY SetAge, TableAssumption DEF TableTypeOK
    <3>2. clients' = [clients EXCEPT ![s] = [clients[s] EXCEPT !.age = 0]]
      BY <2>1 DEF TableTypeOK
    <3> QED
      BY <3>1, <3>2 DEF TableTypeOK
  <2> QED
    BY <1>0, <1>2, <2>2 DEF PingOK, TableTypeOK, Answer, Answers
<1>3. CASE UnregisterOK(p, r)
  <2>1. PICK s \in Slots :
          clients' = [clients EXCEPT ![s].active = FALSE, ![s].anounced = FALSE]
    BY <1>3 DEF UnregisterOK
  <2>2. clients' \in [Slots -> Client]
    BY <2>1, DropFlags DEF TableTypeOK
  <2> QED
    BY <1>0, <1>3, <2>2 DEF UnregisterOK, TableTypeOK, Answer, Answers
<1>4. CASE RebootOK(p, r)
  BY <1>0, <1>4 DEF RebootOK, TableTypeOK, Answer, Answers
<1>5. ASSUME NEW a \in Answers, Say(p, a) PROVE TableTypeOK'
  BY <1>0, <1>5 DEF Say, TableTypeOK, Answer
<1>6. CASE RegisterRefused(p, r) \/ PingRefused(p, r) \/ UnregisterRefused(p, r)
             \/ Report(p, r)
  BY <1>5, <1>6 DEF RegisterRefused, PingRefused, UnregisterRefused, Report, Answers
<1> QED
  BY <1>1, <1>2, <1>3, <1>4, <1>6 DEF handle_command

\* Every step keeps the types.
LEMMA TypeNext == TableTypeOK /\ [TableNext]_tableVars => TableTypeOK'
<1> SUFFICES ASSUME TableTypeOK, [TableNext]_tableVars PROVE TableTypeOK'
  OBVIOUS
<1>1. ASSUME NEW p \in Procs, NEW r \in Requests, handle_command(p, r) PROVE TableTypeOK'
  BY <1>1, CommandType, TableAssumption
<1>2. CASE TimePasses
  <2>1. ASSUME NEW c \in Client PROVE c.age < AgeCap => [c EXCEPT !.age = @ + 1] \in Client
    <3>1. c.age \in 0 .. AgeCap
      BY DEF Client
    <3>2. c.age < AgeCap => c.age + 1 \in 0 .. AgeCap
      BY <3>1, Sizes
    <3> QED
      BY <3>2, SetAge
  <2>2. Elapse(clients) \in [Slots -> Client]
    BY <2>1 DEF Elapse, TableTypeOK
  <2> QED
    BY <1>2, <2>2 DEF TimePasses, TableTypeOK
<1>3. CASE CloseConnection
  BY <1>3 DEF CloseConnection, TableTypeOK, NoReply
<1>4. CASE signal_handler
  BY <1>4 DEF signal_handler, TableTypeOK
<1>5. CASE UNCHANGED tableVars
  BY <1>5 DEF tableVars, TableTypeOK
<1>6. ASSUME NEW p \in Procs, NoInput(p) PROVE TableTypeOK'
  BY <1>6, TableAssumption DEF NoInput, Say, Answer, Answers, TableTypeOK
<1> QED
  BY <1>1, <1>2, <1>3, <1>4, <1>5, <1>6 DEF TableNext

\* The table and the flags keep their types: no order of commands puts a timeout outside the
\* permitted range, or anything but a client, into a slot.
THEOREM TableTypeCorrect == TableSpec => []TableTypeOK
BY TypeInit, TypeNext, PTL DEF TableSpec

----------------------------------------------------------------------------
(* What one step does to who is in the table *)

\* Slot s holds the same client before and after a step, up to its clock.
SameClient(s) ==
  /\ clients'[s].clientID = clients[s].clientID
  /\ clients'[s].name = clients[s].name
  /\ clients'[s].pid = clients[s].pid
  /\ clients'[s].timeout_ms = clients[s].timeout_ms
  /\ clients'[s].active = clients[s].active
  /\ clients'[s].anounced = clients[s].anounced
  /\ clients'[s].checkPID = clients[s].checkPID

OthersKept(s) == \A t \in Slots \ {s} : clients'[t] = clients[t]

Unchanged == issued' = issued /\ \A s \in Slots : SameClient(s)

Left(s) ==
  /\ issued' = issued
  /\ ~clients'[s].active /\ ~clients'[s].anounced
  /\ OthersKept(s)

Joined(s, name, id) ==
  /\ s \in SlotsByName(name) /\ id \in RegisteredID(s)
  /\ issued' = Drawn(id)
  /\ clients'[s].name = name /\ clients'[s].clientID = id
  /\ clients'[s].active /\ ~clients'[s].anounced
  /\ OthersKept(s)

\* PING changes only the clock of a slot.
LEMMA PingEffect ==
  ASSUME TableTypeOK, NEW p, NEW r, PingOK(p, r)
  PROVE  Unchanged
<1>1. PICK s \in Slots : clients' = [clients EXCEPT ![s].age = 0]
  BY DEF PingOK
<1>2. ASSUME NEW t \in Slots PROVE SameClient(t)
  <2>1. clients[t] \in Client
    BY DEF TableTypeOK
  <2>2. clients'[t] = IF t = s THEN [clients[s] EXCEPT !.age = 0] ELSE clients[t]
    BY <1>1 DEF TableTypeOK
  <2> QED
    BY <2>1, <2>2 DEF SameClient, Client
<1> QED
  BY <1>2 DEF PingOK, Unchanged

\* So does the passing of time.
LEMMA TimeEffect ==
  ASSUME TableTypeOK, TimePasses
  PROVE  Unchanged
<1>1. ASSUME NEW t \in Slots PROVE SameClient(t)
  <2>1. clients[t] \in Client
    BY DEF TableTypeOK
  <2>2. \/ clients'[t] = clients[t]
        \/ clients'[t] = [clients[t] EXCEPT !.age = @ + 1]
    BY DEF TimePasses, Elapse
  <2> QED
    BY <2>1, <2>2 DEF SameClient, Client
<1> QED
  BY <1>1 DEF TimePasses, Unchanged

\* UNREGISTER gives up the slot with the ID, if the peer may do that.
LEMMA LeaveEffect ==
  ASSUME TableTypeOK, NEW p, NEW r, UnregisterOK(p, r)
  PROVE  \E s \in Slots : FirstOf(s, SlotsByID(r.id)) /\ MayUnregister(s, p) /\ Left(s)
<1>1. PICK s \in Slots :
        /\ FirstOf(s, SlotsByID(r.id)) /\ MayUnregister(s, p)
        /\ clients' = [clients EXCEPT ![s].active = FALSE, ![s].anounced = FALSE]
  BY DEF UnregisterOK
<1>2. clients[s] \in Client
  BY DEF TableTypeOK
<1>3. clients'[s] = [clients[s] EXCEPT !.active = FALSE, !.anounced = FALSE]
  BY <1>1 DEF TableTypeOK
<1>4. ~clients'[s].active /\ ~clients'[s].anounced
  BY <1>2, <1>3 DEF Client
<1>5. OthersKept(s)
  BY <1>1 DEF TableTypeOK, OthersKept
<1> QED
  BY <1>1, <1>4, <1>5 DEF UnregisterOK, Left

\* REGISTER fills a slot that get_clientInstance_by_name found.
LEMMA JoinEffect ==
  ASSUME TableTypeOK, NEW p, NEW r, RegisterOK(p, r)
  PROVE  \E s \in Slots, id \in Nat :
           /\ Joined(s, r.name, id)
           /\ clients'[s].age = 0
<1>1. PICK s \in Slots : \E i \in RegisteredID(s) :
        /\ FirstOf(s, SlotsByName(r.name))
        /\ clients' = [clients EXCEPT ![s] = Registered(r, p, i)]
        /\ issued' = Drawn(i)
  BY DEF RegisterOK
<1>2. PICK id \in RegisteredID(s) :
        /\ FirstOf(s, SlotsByName(r.name))
        /\ clients' = [clients EXCEPT ![s] = Registered(r, p, id)]
        /\ issued' = Drawn(id)
  BY <1>1
<1>3. id \in Nat
  BY DrawnIDs DEF RegisteredID, TableTypeOK, Client
<1>4. clients'[s] = Registered(r, p, id) /\ OthersKept(s)
  BY <1>2 DEF TableTypeOK, OthersKept
<1>5. Joined(s, r.name, id) /\ clients'[s].age = 0
  BY <1>2, <1>4 DEF Joined, FirstOf, Registered
<1> QED
  BY <1>3, <1>5

\* A command leaves the members of the table alone, drops one, or puts one in.
LEMMA CommandEffect ==
  ASSUME TableTypeOK, NEW p, NEW r \in Request, handle_command(p, r)
  PROVE  /\ config' = config
         /\ \/ Unchanged
            \/ \E s \in Slots : Left(s)
            \/ \E s \in Slots, name \in Names, id \in Nat : Joined(s, name, id)
<1>0. ASSUME clients' = clients, issued' = issued PROVE Unchanged
  BY <1>0 DEF Unchanged, SameClient
<1>1. CASE RegisterOK(p, r)
  <2>1. r.name \in Names
    BY <1>1, RegisterFields DEF RegisterOK
  <2> QED
    BY <1>1, <2>1, JoinEffect DEF RegisterOK
<1>2. CASE PingOK(p, r)
  BY <1>2, PingEffect DEF PingOK
<1>3. CASE UnregisterOK(p, r)
  BY <1>3, LeaveEffect DEF UnregisterOK
<1>4. CASE RebootOK(p, r)
  BY <1>4, <1>0 DEF RebootOK
<1>5. ASSUME NEW a, Say(p, a) PROVE config' = config /\ Unchanged
  BY <1>5, <1>0 DEF Say
<1>6. CASE RegisterRefused(p, r) \/ PingRefused(p, r) \/ UnregisterRefused(p, r)
             \/ Report(p, r)
  BY <1>5, <1>6 DEF RegisterRefused, PingRefused, UnregisterRefused, Report
<1> QED
  BY <1>1, <1>2, <1>3, <1>4, <1>6 DEF handle_command

\* Every step leaves the members of the table alone, drops one, or puts one in.
LEMMA StepEffect ==
  ASSUME TableTypeOK, [TableNext]_tableVars
  PROVE  /\ config' = config
         /\ \/ Unchanged
            \/ \E s \in Slots : Left(s)
            \/ \E s \in Slots, name \in Names, id \in Nat : Joined(s, name, id)
<1>1. ASSUME clients' = clients, issued' = issued PROVE Unchanged
  BY <1>1 DEF Unchanged, SameClient
<1>2. ASSUME NEW p \in Procs, NEW r \in Requests, handle_command(p, r)
      PROVE  /\ config' = config
             /\ \/ Unchanged
                \/ \E s \in Slots : Left(s)
                \/ \E s \in Slots, name \in Names, id \in Nat : Joined(s, name, id)
  BY <1>2, CommandEffect, TableAssumption
<1>3. CASE TimePasses
  BY <1>3, TimeEffect DEF TimePasses
<1>4. CASE CloseConnection \/ \E p \in Procs : NoInput(p)
  BY <1>4, <1>1 DEF CloseConnection, NoInput, Say
<1>5. CASE signal_handler
  BY <1>5, <1>1 DEF signal_handler
<1>6. CASE UNCHANGED tableVars
  BY <1>6, <1>1 DEF tableVars
<1> QED
  BY <1>2, <1>3, <1>4, <1>5, <1>6 DEF TableNext

----------------------------------------------------------------------------
(* clientIDs *)

\* LiveIDsDistinct is not inductive: that a new ID meets no old one needs to be known of
\* the IDs in the table, which all count as issued.
IDsIssued == \A s \in LiveSlots : clients[s].clientID <= issued

IDInv == TableTypeOK /\ IDsIssued /\ LiveIDsDistinct

\* The IDs of announced clients are drawn one after the other.
LEMMA IDInit == Urandom /\ TableInit => IDInv
<1> SUFFICES ASSUME Urandom, TableInit PROVE IDInv
  OBVIOUS
<1>1. PICK cfg \in Configs, ann \in Announcements : parse_config(cfg, ann)
  BY DEF TableInit
<1>2. Len(ann) \in Nat /\ issued = Len(ann)
  BY <1>1, TableAssumption DEF parse_config
<1>3. PICK ids \in [1 .. Len(ann) -> 1 .. Len(ann)] :
        /\ \A i \in 1 .. Len(ann) : ids[i] \in make_clientID(i - 1)
        /\ clients = [s \in Slots |-> IF s <= Len(ann) THEN AnnouncedClient(ann[s], ids[s])
                                      ELSE EmptyClient]
  BY <1>1 DEF parse_config
<1>4. ASSUME NEW s \in LiveSlots PROVE s \in 1 .. Len(ann) /\ clients[s].clientID = s
  <2>1. s \in Slots /\ Live(clients[s])
    BY DEF LiveSlots
  <2>2. s <= Len(ann)
    BY <1>3, <2>1 DEF Live, EmptyClient
  <2>3. s \in 1 .. Len(ann)
    BY <1>2, <2>1, <2>2, Sizes DEF Slots
  <2>4. ids[s] = s
    BY <1>2, <1>3, <2>3 DEF make_clientID
  <2>5. clients[s].clientID = ids[s]
    BY <1>3, <2>1, <2>2 DEF AnnouncedClient, EmptyClient
  <2> QED
    BY <2>3, <2>4, <2>5
<1> QED
  BY <1>2, <1>4, TypeInit DEF IDInv, IDsIssued, LiveIDsDistinct

\* Whatever happens to the members, their IDs stay distinct and counted.
LEMMA IDsKept ==
  ASSUME Urandom, IDInv,
         \/ Unchanged
         \/ \E s \in Slots : Left(s)
         \/ \E s \in Slots, name \in Names, id \in Nat : Joined(s, name, id)
  PROVE  IDsIssued' /\ LiveIDsDistinct'
<1>0. issued \in Nat /\ \A s \in Slots : clients[s].clientID \in Nat
  BY DEF IDInv, TableTypeOK, Client
<1>1. CASE Unchanged
  BY <1>1 DEF Unchanged, SameClient, IDInv, IDsIssued, LiveIDsDistinct, LiveSlots, Live
<1>2. ASSUME NEW s \in Slots, Left(s) PROVE IDsIssued' /\ LiveIDsDistinct'
  BY <1>2 DEF Left, OthersKept, IDInv, IDsIssued, LiveIDsDistinct, LiveSlots, Live
<1>3. ASSUME NEW s \in Slots, NEW name \in Names, NEW id \in Nat, Joined(s, name, id)
      PROVE  IDsIssued' /\ LiveIDsDistinct'
  <2>1. CASE clients[s].anounced
    <3>1. id = clients[s].clientID /\ s \in LiveSlots
      BY <1>3, <2>1 DEF Joined, RegisteredID, LiveSlots, Live
    <3>2. issued' = issued
      BY <1>0, <1>3, <3>1 DEF Joined, Drawn, IDInv, IDsIssued
    <3> QED
      BY <1>3, <3>1, <3>2
      DEF Joined, OthersKept, IDInv, IDsIssued, LiveIDsDistinct, LiveSlots, Live
  <2>2. CASE ~clients[s].anounced
    <3>1. id > issued /\ issued' = id
      BY <1>0, <1>3, <2>2, DrawnIDs DEF Joined, RegisteredID, Drawn
    <3>2. \A t \in LiveSlots' \ {s} : t \in LiveSlots /\ clients'[t] = clients[t]
      BY <1>3 DEF Joined, OthersKept, LiveSlots, Live
    <3>3. \A t \in LiveSlots' \ {s} : clients'[t].clientID <= issued
      BY <3>2 DEF IDInv, IDsIssued
    <3>4. \A t \in LiveSlots' \ {s} : clients'[t].clientID < id
      BY <1>0, <3>1, <3>2, <3>3 DEF LiveSlots
    <3>5. IDsIssued'
      BY <1>0, <1>3, <3>1, <3>2, <3>4 DEF IDsIssued, Joined, LiveSlots
    <3>6. LiveIDsDistinct'
      BY <1>0, <1>3, <3>1, <3>2, <3>4 DEF LiveIDsDistinct, IDInv, Joined
    <3> QED
      BY <3>5, <3>6
  <2> QED
    BY <2>1, <2>2
<1> QED
  BY <1>1, <1>2, <1>3

\* Every step keeps the IDs drawn and distinct.
LEMMA IDNext == Urandom /\ IDInv /\ [TableNext]_tableVars => IDInv'
BY TypeNext, StepEffect, IDsKept DEF IDInv

\* With /dev/urandom no two slots in use ever share a clientID, so every client that pings
\* with the ID it was given reaches its own slot.
THEOREM IDsDistinct ==
  ASSUME Urandom
  PROVE  TableSpec => []LiveIDsDistinct
<1>1. TableInit => IDInv
  BY IDInit
<1>2. IDInv /\ [TableNext]_tableVars => IDInv'
  BY IDNext
<1>3. IDInv => LiveIDsDistinct
  BY DEF IDInv
<1> QED
  BY <1>1, <1>2, <1>3, PTL DEF TableSpec

----------------------------------------------------------------------------
(* unique_clients *)

\* The run-time check looks at active slots only; that it covers announced ones needs no
\* slot to be both.
FlagsExclusive == \A s \in Slots : ~(clients[s].active /\ clients[s].anounced)

NameInv == TableTypeOK /\ FlagsExclusive /\ UniqueNamesHold

\* The sections have passed the start-up check on names.
LEMMA NameInit == TableInit => NameInv
<1> SUFFICES ASSUME TableInit PROVE NameInv
  OBVIOUS
<1>1. PICK cfg \in Configs, ann \in Announcements : parse_config(cfg, ann)
  BY DEF TableInit
<1>2. Len(ann) \in Nat /\ config = cfg /\ AcceptedConfig(cfg, ann)
  BY <1>1, TableAssumption DEF parse_config
<1>3. PICK ids \in [1 .. Len(ann) -> 1 .. Len(ann)] :
        clients = [s \in Slots |-> IF s <= Len(ann) THEN AnnouncedClient(ann[s], ids[s])
                                   ELSE EmptyClient]
  BY <1>1 DEF parse_config
<1>4. FlagsExclusive
  BY <1>3 DEF FlagsExclusive, AnnouncedClient, EmptyClient
<1>5. ASSUME NEW s \in LiveSlots PROVE s \in 1 .. Len(ann) /\ clients[s].name = ann[s].name
  <2>1. s \in Slots /\ Live(clients[s])
    BY DEF LiveSlots
  <2>2. s <= Len(ann)
    BY <1>3, <2>1 DEF Live, EmptyClient
  <2>3. s \in 1 .. Len(ann)
    BY <1>2, <2>1, <2>2, Sizes DEF Slots
  <2>4. clients[s].name = ann[s].name
    BY <1>3, <2>1, <2>2 DEF AnnouncedClient, EmptyClient
  <2> QED
    BY <2>3, <2>4
<1>6. UniqueNamesHold
  BY <1>2, <1>5 DEF UniqueNamesHold, AcceptedConfig
<1> QED
  BY <1>4, <1>6, TypeInit DEF NameInv

\* Every step keeps the names unique where that is asked for.
LEMMA NameNext == NameInv /\ [TableNext]_tableVars => NameInv'
<1> SUFFICES ASSUME NameInv, [TableNext]_tableVars PROVE FlagsExclusive' /\ UniqueNamesHold'
  BY TypeNext DEF NameInv
<1>0. config' = config
  BY StepEffect DEF NameInv
<1>1. CASE Unchanged
  BY <1>0, <1>1
  DEF Unchanged, SameClient, NameInv, FlagsExclusive, UniqueNamesHold, LiveSlots, Live
<1>2. ASSUME NEW s \in Slots, Left(s) PROVE FlagsExclusive' /\ UniqueNamesHold'
  BY <1>0, <1>2
  DEF Left, OthersKept, NameInv, FlagsExclusive, UniqueNamesHold, LiveSlots, Live
<1>3. ASSUME NEW s \in Slots, NEW name \in Names, NEW id \in Nat, Joined(s, name, id)
      PROVE  FlagsExclusive' /\ UniqueNamesHold'
  <2>1. FlagsExclusive'
    BY <1>3 DEF Joined, OthersKept, NameInv, FlagsExclusive
  <2>2. \A t \in LiveSlots' \ {s} : t \in LiveSlots /\ clients'[t] = clients[t]
    BY <1>3 DEF Joined, OthersKept, LiveSlots, Live
  <2>3. ASSUME config.unique_clients, NEW t \in LiveSlots, t # s PROVE clients[t].name # name
    <3>1. t \in Slots /\ Live(clients[t])
      BY DEF LiveSlots
    <3>2. ~clients[s].active /\ ~NameInUse(name)
      BY <1>3, <2>3, FoundByName DEF Joined
    <3>3. CASE clients[s].anounced
      <4>1. clients[s].name = name /\ s \in LiveSlots
        BY <1>3, <3>3, FoundByName DEF Joined, LiveSlots, Live
      <4> QED
        BY <2>3, <4>1 DEF NameInv, UniqueNamesHold
    <3>4. CASE ~clients[s].anounced
      <4>1. AnnouncedSlots(name) = {}
        BY <1>3, <3>4, FoundByName DEF Joined
      <4> QED
        BY <3>1, <3>2, <4>1 DEF NameInUse, AnnouncedSlots, Live, NameInv, FlagsExclusive
    <3> QED
      BY <3>3, <3>4
  <2>4. UniqueNamesHold'
    BY <1>0, <1>3, <2>2, <2>3 DEF UniqueNamesHold, NameInv, Joined
  <2> QED
    BY <2>1, <2>4
<1> QED
  BY <1>1, <1>2, <1>3, StepEffect DEF NameInv

\* With unique_clients no two slots in use, awaited or registered, ever share a name.
THEOREM NamesUnique == TableSpec => []UniqueNamesHold
<1>1. NameInv => UniqueNamesHold
  BY DEF NameInv
<1> QED
  BY <1>1, NameInit, NameNext, PTL DEF TableSpec

----------------------------------------------------------------------------
(* What a step may never do *)

\* No step changes whom a slot in use stands for.
LEMMA KeepIdentity ==
  ASSUME TableTypeOK, [TableNext]_tableVars
  PROVE  KeepIdentityStep
<1>1. CASE Unchanged
  BY <1>1 DEF Unchanged, SameClient, KeepIdentityStep, LiveSlots
<1>2. ASSUME NEW s \in Slots, Left(s) PROVE KeepIdentityStep
  BY <1>2 DEF Left, OthersKept, KeepIdentityStep, LiveSlots, Live
<1>3. ASSUME NEW s \in Slots, NEW name \in Names, NEW id \in Nat, Joined(s, name, id)
      PROVE  KeepIdentityStep
  <2>1. ~clients[s].active /\ (clients[s].anounced => clients[s].name = name)
    BY <1>3, FoundByName DEF Joined
  <2>2. clients[s].anounced => id = clients[s].clientID
    BY <1>3 DEF Joined, RegisteredID
  <2> QED
    BY <1>3, <2>1, <2>2 DEF Joined, OthersKept, KeepIdentityStep, LiveSlots, Live
<1> QED
  BY <1>1, <1>2, <1>3, StepEffect

\* No step changes the name or the clientID of a slot that stays in use.
THEOREM IdentityKept == TableSpec => LiveSlotsKeepIdentity
<1>1. TableTypeOK /\ [TableNext]_tableVars => [KeepIdentityStep]_tableVars
  BY KeepIdentity
<1> QED
  BY <1>1, TableTypeCorrect, PTL DEF TableSpec, LiveSlotsKeepIdentity

\* No step of anybody but root changes a strict roster.
LEMMA StrictRoster ==
  ASSUME TableTypeOK, [TableNext]_tableVars
  PROVE  StrictRosterStep
<1> SUFFICES ASSUME config.strict_clients
             PROVE  /\ LiveSlots' \subseteq LiveSlots
                    /\ LiveSlots' # LiveSlots => reply'.to \in Root
  BY DEF StrictRosterStep
<1>1. CASE Unchanged
  BY <1>1 DEF Unchanged, SameClient, LiveSlots, Live
<1>2. ASSUME NEW p \in Procs, NEW r \in Requests, UnregisterOK(p, r)
      PROVE  LiveSlots' \subseteq LiveSlots /\ reply'.to \in Root
  <2>1. PICK s \in Slots : MayUnregister(s, p) /\ Left(s)
    BY <1>2, LeaveEffect
  <2>2. p \in Root
    BY <2>1 DEF MayUnregister
  <2>3. reply'.to = p
    BY <1>2 DEF UnregisterOK, Answer
  <2>4. LiveSlots' \subseteq LiveSlots
    BY <2>1 DEF Left, OthersKept, LiveSlots, Live
  <2> QED
    BY <2>2, <2>3, <2>4
<1>3. ASSUME NEW p \in Procs, NEW r \in Requests, RegisterOK(p, r)
      PROVE  LiveSlots' = LiveSlots
  <2>1. PICK s \in Slots, id \in Nat : Joined(s, r.name, id)
    BY <1>3, JoinEffect
  <2>2. clients[s].anounced
    BY <2>1, FoundByName DEF Joined
  <2> QED
    BY <2>1, <2>2 DEF Joined, OthersKept, LiveSlots, Live
<1>4. ASSUME clients' = clients PROVE LiveSlots' = LiveSlots
  BY <1>4 DEF LiveSlots
<1>5. ASSUME NEW p \in Procs, NEW r \in Requests, handle_command(p, r)
      PROVE  /\ LiveSlots' \subseteq LiveSlots
             /\ LiveSlots' # LiveSlots => reply'.to \in Root
  <2>1. ASSUME NEW a, Say(p, a) PROVE LiveSlots' = LiveSlots
    BY <2>1, <1>4 DEF Say
  <2>2. CASE RegisterRefused(p, r) \/ PingRefused(p, r) \/ UnregisterRefused(p, r)
               \/ Report(p, r)
    BY <2>1, <2>2 DEF RegisterRefused, PingRefused, UnregisterRefused, Report
  <2>3. CASE PingOK(p, r)
    BY <2>3, <1>1, PingEffect
  <2>4. CASE RebootOK(p, r)
    BY <2>4, <1>4 DEF RebootOK
  <2> QED
    BY <1>2, <1>3, <1>5, <2>2, <2>3, <2>4 DEF handle_command
<1>6. CASE TimePasses
  BY <1>6, <1>1, TimeEffect
<1>7. CASE \/ \E p \in Procs : NoInput(p)
           \/ CloseConnection \/ signal_handler \/ UNCHANGED tableVars
  BY <1>7, <1>4 DEF NoInput, Say, CloseConnection, signal_handler, tableVars
<1> QED
  BY <1>5, <1>6, <1>7 DEF TableNext

\* With strict_clients supervision only shrinks, and only by a command of root.
THEOREM StrictRosterSafe == TableSpec => StrictRosterKept
<1>1. TableTypeOK /\ [TableNext]_tableVars => [StrictRosterStep]_tableVars
  BY StrictRoster
<1> QED
  BY <1>1, TableTypeCorrect, PTL DEF TableSpec, StrictRosterKept

\* No step of a foreign process touches a slot that checks the PID.
LEMMA PidCheck ==
  ASSUME TableTypeOK, [TableNext]_tableVars
  PROVE  PidCheckStep
<1> SUFFICES ASSUME NEW s \in Slots, clients[s].active, clients[s].checkPID
             PROVE  /\ Live(clients'[s]) /\ clients'[s].age < clients[s].age
                         => reply'.to = clients[s].pid
                    /\ ~Live(clients'[s]) => reply'.to = clients[s].pid \/ reply'.to \in Root
  BY DEF PidCheckStep
<1> DEFINE Goal == /\ Live(clients'[s]) /\ clients'[s].age < clients[s].age
                        => reply'.to = clients[s].pid
                   /\ ~Live(clients'[s]) => reply'.to = clients[s].pid \/ reply'.to \in Root
<1>0. clients[s] \in Client /\ clients[s].age \in Nat
  BY ClientNumbers
<1>1. ASSUME clients'[s] = clients[s] PROVE Goal
  BY <1>0, <1>1 DEF Live
<1>2. ASSUME NEW p \in Procs, NEW r \in Requests, handle_command(p, r) PROVE Goal
  <2>1. CASE PingOK(p, r)
    <3>1. PICK t \in Slots : Identified(t, p) /\ clients' = [clients EXCEPT ![t].age = 0]
      BY <2>1 DEF PingOK
    <3>2. reply'.to = p
      BY <2>1 DEF PingOK, Answer
    <3>3. CASE t = s
      <4>1. clients[s].pid = p
        BY <3>1, <3>3 DEF Identified
      <4>2. Live(clients'[s])
        BY <2>1, PingEffect DEF Unchanged, SameClient, Live
      <4> QED
        BY <3>2, <4>1, <4>2
    <3>4. CASE t # s
      <4>1. clients'[s] = clients[s]
        BY <3>1, <3>4 DEF TableTypeOK
      <4> QED
        BY <4>1, <1>1
    <3> QED
      BY <3>3, <3>4
  <2>2. CASE UnregisterOK(p, r)
    <3>1. PICK t \in Slots : MayUnregister(t, p) /\ Left(t)
      BY <2>2, LeaveEffect
    <3>2. reply'.to = p
      BY <2>2 DEF UnregisterOK, Answer
    <3>3. CASE t = s
      BY <3>1, <3>2, <3>3 DEF MayUnregister, Identified, Left, Live
    <3>4. CASE t # s
      BY <1>1, <3>1, <3>4 DEF Left, OthersKept
    <3> QED
      BY <3>3, <3>4
  <2>3. CASE RegisterOK(p, r)
    <3>1. PICK t \in Slots, id \in Nat : Joined(t, r.name, id)
      BY <2>3, JoinEffect
    <3>2. t # s
      BY <3>1, FoundByName DEF Joined
    <3> QED
      BY <1>1, <3>1, <3>2 DEF Joined, OthersKept
  <2>4. ASSUME NEW a, Say(p, a) PROVE Goal
    BY <2>4, <1>1 DEF Say
  <2>5. CASE RegisterRefused(p, r) \/ PingRefused(p, r) \/ UnregisterRefused(p, r)
               \/ Report(p, r)
    BY <2>4, <2>5 DEF RegisterRefused, PingRefused, UnregisterRefused, Report
  <2>6. CASE RebootOK(p, r)
    BY <2>6, <1>1 DEF RebootOK
  <2> QED
    BY <1>2, <2>1, <2>2, <2>3, <2>5, <2>6 DEF handle_command
<1>3. CASE TimePasses
  <2>1. \/ clients'[s] = clients[s]
        \/ clients'[s] = [clients[s] EXCEPT !.age = @ + 1]
    BY <1>3 DEF TimePasses, Elapse
  <2>2. clients'[s] = clients[s] \/ clients'[s].age = clients[s].age + 1
    BY <1>0, <2>1 DEF Client
  <2>3. Live(clients'[s])
    BY <1>3, TimeEffect DEF Unchanged, SameClient, Live
  <2>4. ~(clients'[s].age < clients[s].age)
    BY <1>0, <2>2
  <2> QED
    BY <2>3, <2>4
<1>4. CASE \/ \E p \in Procs : NoInput(p)
           \/ CloseConnection \/ signal_handler \/ UNCHANGED tableVars
  BY <1>1, <1>4 DEF NoInput, Say, CloseConnection, signal_handler, tableVars
<1> QED
  BY <1>2, <1>3, <1>4 DEF TableNext

\* PID checking, once asked for, is never got round by a PING or UNREGISTER of another
\* process, nor by reuse of the slot.
THEOREM PidCheckSafe == TableSpec => PidCheckHolds
<1>1. TableTypeOK /\ [TableNext]_tableVars => [PidCheckStep]_tableVars
  BY PidCheck
<1> QED
  BY <1>1, TableTypeCorrect, PTL DEF TableSpec, PidCheckHolds

=============================================================================
