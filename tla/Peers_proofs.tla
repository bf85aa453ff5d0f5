---------------------------- MODULE Peers_proofs ----------------------------
(***************************************************************************)
(* Proofs about ClientLib and WdCtrl, for any number of processes, any     *)
(* length of the queue, any table and any number of crashes and restarts.  *)
(* The first two parts, on the daemon's table and on exchanges, are about  *)
(* any process that uses the socket; the library and wd-ctrl follow.       *)
(***************************************************************************)
EXTENDS WdCtrl, ClientTable_proofs

----------------------------------------------------------------------------
(* The daemon's table *)

DaemonTypes ==
  /\ TableTypeOK
  /\ broker \in {"serving", "pending", "deaf", "down"}
  /\ version \in Versions
  /\ base \in Nat /\ base <= issued
  /\ restarts \in 0 .. MaxRestarts

\* The clients of the daemon that is up have IDs drawn since it was started.
IDsSinceStart == \A s \in LiveSlots : clients[s].clientID > base

DaemonInv == DaemonTypes /\ IDsIssued /\ LiveIDsDistinct /\ IDsSinceStart

\* No step of the daemon gives an ID that was drawn to another slot or another name, so
\* one that names nobody never names anybody again.
IDsPersist ==
  /\ issued' \in Nat /\ issued <= issued'
  /\ \A s \in Slots : Live(clients'[s]) /\ clients'[s].clientID <= issued =>
       /\ Live(clients[s]) /\ clients[s].clientID = clients'[s].clientID
       /\ clients[s].name = clients'[s].name

\* What follows for the slots with such an ID.
LEMMA SlotsPersist ==
  ASSUME IDsPersist, NEW id \in Nat, id <= issued
  PROVE  /\ \A s \in (SlotsByID(id))' : s \in SlotsByID(id) /\ clients'[s].name = clients[s].name
         /\ SlotsByID(id) = {} => (SlotsByID(id))' = {}
<1>1. ASSUME NEW s \in Slots, Live(clients'[s]), clients'[s].clientID = id
      PROVE  s \in SlotsByID(id) /\ clients'[s].name = clients[s].name
  BY <1>1 DEF IDsPersist, SlotsByID
<1> QED BY <1>1 DEF SlotsByID

\* Where the table is left alone.
LEMMA QuietTable ==
  ASSUME DaemonInv, UNCHANGED <<clients, issued>>
  PROVE  IDsPersist
BY DEF DaemonInv, DaemonTypes, TableTypeOK, IDsPersist, Live

\* Commands put new IDs into the table, and old ones only where they were.
LEMMA CommandIDs ==
  ASSUME Urandom, DaemonInv, UNCHANGED <<base>>, TableTypeOK',
         \/ Unchanged
         \/ \E s \in Slots : Left(s)
         \/ \E s \in Slots, name \in Names, id \in Nat : Joined(s, name, id)
  PROVE  IDsSinceStart' /\ IDsPersist
<1>0. /\ issued \in Nat /\ base \in Nat /\ base <= issued /\ issued' \in Nat
      /\ \A s \in Slots : clients[s].clientID \in Nat
  BY DEF DaemonInv, DaemonTypes, TableTypeOK, Client
<1>1. CASE Unchanged
  BY <1>0, <1>1 DEF Unchanged, SameClient, DaemonInv, IDsSinceStart, IDsPersist, LiveSlots, Live
<1>2. ASSUME NEW s \in Slots, Left(s) PROVE IDsSinceStart' /\ IDsPersist
  BY <1>0, <1>2 DEF Left, OthersKept, DaemonInv, IDsSinceStart, IDsPersist, LiveSlots, Live
<1>3. ASSUME NEW s \in Slots, NEW name \in Names, NEW id \in Nat, Joined(s, name, id)
      PROVE  IDsSinceStart' /\ IDsPersist
  <2>1. issued <= issued' /\ \A t \in Slots \ {s} : clients'[t] = clients[t]
    BY <1>0, <1>3 DEF Joined, OthersKept, Drawn
  <2>2. clients'[s].clientID = id /\ (id > issued \/ (s \in LiveSlots /\ clients[s].clientID = id))
    BY <1>0, <1>3, DrawnIDs DEF Joined, RegisteredID, LiveSlots, Live
  <2>3. id > base
    BY <1>0, <2>2 DEF DaemonInv, IDsSinceStart
  <2>4. IDsSinceStart'
    BY <2>1, <2>2, <2>3 DEF DaemonInv, IDsSinceStart, LiveSlots, Live
  <2>5. s \in LiveSlots => clients[s].name = clients'[s].name
    BY <1>3, FoundByName DEF Joined, LiveSlots, Live
  <2> QED BY <1>0, <2>1, <2>2, <2>4, <2>5 DEF IDsPersist, LiveSlots
<1> QED BY <1>1, <1>2, <1>3

\* A daemon that is started anew has a table of announced clients with new IDs.
LEMMA RestartTable ==
  ASSUME DaemonInv, Restart
  PROVE  DaemonInv' /\ IDsPersist
<1>1. PICK cfg \in Configs, ann \in Announcements, v \in Versions :
        /\ AcceptedConfig(cfg, ann)
        /\ config' = cfg /\ version' = v
        /\ clients' = [s \in Slots |-> IF s <= Len(ann)
                                         THEN AnnouncedClient(ann[s], NewIDs(Len(ann))[s])
                                         ELSE EmptyClient]
        /\ issued' = issued + Len(ann)
  BY DEF Restart
<1>2. /\ issued \in Nat /\ Len(ann) \in Nat /\ ann \in Seq(Section) /\ cfg \in Config
      /\ issued' \in Nat /\ issued <= issued'
  BY <1>1, TableAssumption DEF DaemonInv, DaemonTypes, TableTypeOK
<1>3. ASSUME NEW s \in Slots, s <= Len(ann)
      PROVE  /\ AnnouncedClient(ann[s], NewIDs(Len(ann))[s]) \in Client
             /\ AnnouncedClient(ann[s], NewIDs(Len(ann))[s]).clientID = issued + s
             /\ issued + s \in Nat /\ issued + s > issued /\ issued + s <= issued'
  <2>1. s \in 1 .. Len(ann) /\ s \in Nat
    BY <1>2, <1>3, Sizes DEF Slots
  <2>2. NewIDs(Len(ann))[s] = issued + s
    BY <2>1 DEF NewIDs
  <2>3. ann[s] \in Section
    BY <1>2, <2>1
  <2>4. ann[s].name \in Names /\ ann[s].timeout_ms \in 0 .. TimeoutMax
    BY <2>3, TableAssumption DEF Section
  <2>5. issued + s \in Nat /\ issued + s > issued /\ issued + s <= issued'
    BY <1>1, <1>2, <1>3, <2>1
  <2>6. EmptyClient \in Client
    BY TableAssumption DEF EmptyClient, Client
  <2> QED BY <2>2, <2>4, <2>5, <2>6 DEF AnnouncedClient, EmptyClient, Client
<1>4. ASSUME NEW s \in LiveSlots'
      PROVE  s \in Slots /\ s <= Len(ann) /\ clients'[s].clientID = issued + s
  <2>1. s \in Slots /\ Live(clients'[s])
    BY DEF LiveSlots
  <2>2. s <= Len(ann)
    BY <1>1, <2>1 DEF Live, EmptyClient
  <2> QED BY <1>1, <1>3, <2>1, <2>2
<1>5. EmptyClient \in Client
  BY TableAssumption DEF EmptyClient, Client
<1>6. clients' \in [Slots -> Client]
  BY <1>1, <1>3, <1>5
<1>7. TableTypeOK'
  BY <1>1, <1>2, <1>6 DEF Restart, TableTypeOK, NoReply
<1>8. DaemonTypes'
  <2>1. restarts' \in 0 .. MaxRestarts
    BY ExchangeAssumption DEF Restart, DaemonInv, DaemonTypes
  <2> QED BY <1>1, <1>2, <1>7, <2>1 DEF Restart, DaemonTypes
<1>9. IDsIssued' /\ IDsSinceStart'
  BY <1>3, <1>4 DEF Restart, IDsIssued, IDsSinceStart
<1>10. LiveIDsDistinct'
  <2> SUFFICES ASSUME NEW s \in LiveSlots', NEW t \in LiveSlots',
                      clients'[s].clientID = clients'[t].clientID
               PROVE  s = t
    BY DEF LiveIDsDistinct
  <2>1. issued + s = issued + t /\ s \in Nat /\ t \in Nat
    BY <1>4, Sizes DEF Slots
  <2> QED BY <1>2, <2>1
<1>11. IDsPersist
  <2>1. ASSUME NEW s \in Slots, Live(clients'[s]) PROVE ~(clients'[s].clientID <= issued)
    <3>1. s \in LiveSlots'
      BY <2>1 DEF LiveSlots
    <3> QED BY <1>2, <1>3, <1>4, <3>1
  <2> QED BY <1>2, <2>1 DEF IDsPersist
<1> QED BY <1>8, <1>9, <1>10, <1>11 DEF DaemonInv

\* With the process the table is gone.
LEMMA DeadTable ==
  ASSUME DaemonInv, Dies
  PROVE  DaemonInv' /\ IDsPersist
<1>1. EmptyClient \in Client /\ ~Live(EmptyClient)
  BY TableAssumption DEF EmptyClient, Client, Live
<1>2. \A s \in Slots : clients'[s] = EmptyClient
  BY DEF Dies
<1>3. LiveSlots' = {}
  BY <1>1, <1>2 DEF LiveSlots
<1>4. TableTypeOK'
  BY <1>1 DEF Dies, DaemonInv, DaemonTypes, TableTypeOK, NoReply
<1>5. DaemonTypes'
  BY <1>4 DEF Dies, DaemonInv, DaemonTypes
<1>6. IDsPersist
  BY <1>1, <1>2 DEF Dies, IDsPersist, DaemonInv, DaemonTypes, TableTypeOK
<1> QED BY <1>3, <1>5, <1>6 DEF DaemonInv, IDsIssued, LiveIDsDistinct, IDsSinceStart

\* Steps of processes leave the table alone.
LEMMA ElsewhereTable ==
  ASSUME DaemonInv, Elsewhere
  PROVE  DaemonInv' /\ UNCHANGED <<clients, issued>>
<1>1. TableTypeOK' /\ UNCHANGED <<clients, issued>>
  BY DEF Elsewhere, CloseConnection, DaemonInv, DaemonTypes, TableTypeOK, NoReply
<1>2. IDsIssued' /\ LiveIDsDistinct' /\ IDsSinceStart'
  BY <1>1 DEF Elsewhere, DaemonInv, IDsIssued, LiveIDsDistinct, IDsSinceStart, LiveSlots, Live
<1> QED BY <1>1, <1>2 DEF Elsewhere, DaemonInv, DaemonTypes

\* No client has the ID of a wd_client_t that was never registered.
LEMMA ZeroID ==
  ASSUME DaemonInv
  PROVE  SlotsByID(0) = {}
<1>1. base \in Nat /\ \A s \in SlotsByID(0) : 0 > base
  BY DEF DaemonInv, DaemonTypes, IDsSinceStart, SlotsByID, LiveSlots
<1> QED BY <1>1

\* The same of the state after a step.
LEMMA ZeroIDNext ==
  ASSUME DaemonInv'
  PROVE  (SlotsByID(0))' = {} /\ issued' \in Nat /\ 0 <= issued'
<1>1. ASSUME NEW s \in Slots, Live(clients'[s]), clients'[s].clientID = 0 PROVE FALSE
  <2>1. s \in LiveSlots'
    BY <1>1 DEF LiveSlots
  <2>2. base' \in Nat /\ 0 > base'
    BY <1>1, <2>1 DEF DaemonInv, DaemonTypes, IDsSinceStart
  <2> QED BY <2>2
<1>2. PICK n \in Nat : n = issued'
  BY DEF DaemonInv, DaemonTypes, TableTypeOK
<1>3. 0 <= n
  OBVIOUS
<1> QED BY <1>1, <1>2, <1>3 DEF SlotsByID

\* A command keeps what is known of the table.
LEMMA CommandTable ==
  ASSUME Urandom, DaemonInv, NEW q \in Peers, NEW r \in Request, handle_command(q, r),
         UNCHANGED <<broker, version, base, restarts>>
  PROVE  /\ DaemonInv' /\ IDsPersist
         /\ reply'.ans \in Answers /\ reply'.id \in Nat /\ reply'.id <= issued'
<1>1. q \in Procs /\ TableTypeOK
  BY ExchangeAssumption DEF DaemonInv, DaemonTypes
<1>2. TableTypeOK'
  BY <1>1, CommandType
<1>3. \/ Unchanged
      \/ \E s \in Slots : Left(s)
      \/ \E s \in Slots, name \in Names, id \in Nat : Joined(s, name, id)
  BY <1>1, CommandEffect
<1>4. IDsSinceStart' /\ IDsPersist
  BY <1>2, <1>3, CommandIDs
<1>5. IDsIssued' /\ LiveIDsDistinct'
  BY <1>3, IDsKept DEF DaemonInv, DaemonTypes, IDInv
<1>6. DaemonTypes'
  BY <1>2, <1>4 DEF DaemonInv, DaemonTypes, IDsPersist, TableTypeOK
<1>7. DaemonInv'
  BY <1>4, <1>5, <1>6 DEF DaemonInv
<1>8. reply'.ans \in Answers /\ reply'.id \in Nat /\ reply'.id <= issued'
  <2>1. CASE RegisterOK(q, r)
    <3>1. PICK s \in Slots : \E i \in RegisteredID(s) :
            /\ clients' = [clients EXCEPT ![s] = Registered(r, q, i)]
            /\ Answer(q, "OK id", i)
      BY <2>1 DEF RegisterOK
    <3>2. PICK i \in RegisteredID(s) :
            /\ clients' = [clients EXCEPT ![s] = Registered(r, q, i)]
            /\ Answer(q, "OK id", i)
      BY <3>1
    <3>3. clients'[s].active /\ clients'[s].clientID = i
      BY <1>1, <3>2 DEF Registered, TableTypeOK
    <3>4. s \in LiveSlots' /\ reply'.id = i /\ reply'.ans = "OK id"
      BY <3>2, <3>3 DEF LiveSlots, Live, Answer
    <3>5. i <= issued' /\ i \in Nat
      BY <1>2, <1>5, <3>3, <3>4 DEF IDsIssued, TableTypeOK, Client
    <3> QED BY <3>4, <3>5 DEF Answers
  <2>2. ASSUME NEW a \in Answers, Answer(q, a, 0)
        PROVE  reply'.ans \in Answers /\ reply'.id \in Nat /\ reply'.id <= issued'
    <3>1. reply'.ans = a /\ reply'.id = 0
      BY <2>2 DEF Answer
    <3>2. 0 \in Nat /\ 0 <= issued'
      BY <1>7, ZeroIDNext
    <3>3. reply'.id \in Nat /\ reply'.ans \in Answers
      BY <3>1, <3>2, Zenon
    <3> QED BY <3>1, <3>2, <3>3
  <2> QED
    BY <2>1, <2>2 DEF handle_command, RegisterRefused, PingOK, PingRefused, UnregisterOK,
                      UnregisterRefused, RebootOK, Report, Say, Answers
<1> QED BY <1>4, <1>7, <1>8

----------------------------------------------------------------------------
(* Exchanges, of whatever process *)

Row == [id : Nat, name : Names \cup {""}]

Got ==
  [n : {"none", "zero", "error", "bytes"}, ans : Answers \cup {"none"}, id : Nat,
   rows : SUBSET Row, version : Versions \cup {""}]

Exch ==
  [at : {"idle", "connect", "blocked", "write", "read", "done"},
   req : Request \cup {NoReq}, got : Got]

Conn == [proc : Peers, req : Request \cup {NoReq}, open : BOOLEAN]

\* A process has at most one connection it has not closed, its last one.  It waits there for
\* an answer that has not come, and what it wrote is the request of its exchange; it
\* closes the connection itself only when it has written.
LastOpen ==
  \A i, j \in DOMAIN queue :
    queue[i].open /\ queue[j].proc = queue[i].proc => j <= i

Waits(c) ==
  /\ ex[c.proc].at \in {"write", "read"}
  /\ ex[c.proc].got = Nothing
  /\ c.req \in {NoReq, ex[c.proc].req}
  /\ ex[c.proc].at = "read" => c.req # NoReq

OpenWaits ==
  \A i \in DOMAIN queue : IF queue[i].open THEN Waits(queue[i]) ELSE queue[i].req # NoReq

\* What holds of an exchange: there is no answer before there is a connection, there is one
\* in the end, and an ID that was sent had been drawn.
ExOK(e) ==
  /\ e.at \in {"idle", "connect", "blocked"} => e.got = Nothing
  /\ e.at = "done" => e.got # Nothing
  /\ e.got # Nothing => e.got.n # "none"
  /\ e.at # "idle" => e.req \in Request
  /\ e.got.id <= issued

LinkInv ==
  /\ queue \in Seq(Conn) /\ Len(queue) <= QueueMax
  /\ ex \in [Peers -> Exch]
  /\ LastOpen /\ OpenWaits
  /\ \A p \in Peers : ExOK(ex[p])

ExchInv == DaemonInv /\ LinkInv

\* The values the model is made of have their types.
LEMMA Values ==
  /\ Nothing \in Got /\ \A n \in {"zero", "error"} : Outcome(n) \in Got
  /\ \A n \in {"zero", "error"} : Outcome(n).ans = "none" /\ Outcome(n).id = 0
                                   /\ Outcome(n).n = n
  /\ \A n \in {"zero", "error"} : Outcome(n).rows = {}
  /\ Nothing.ans = "none" /\ Nothing.id = 0 /\ Nothing.n = "none" /\ Nothing.rows = {}
  /\ Idle \in Exch
  /\ \A r \in Request : Begin(r) \in Exch /\ Begin(r).at = "connect" /\ Begin(r).req = r
                         /\ Begin(r).got = Nothing
BY DEF Nothing, Outcome, Got, Idle, Begin, Exch

\* What is queued of process q was queued before.
NothingNew(q) ==
  \A j \in DOMAIN queue' : queue'[j].proc = q => \E i \in DOMAIN queue : queue[i] = queue'[j]

NoneQueued(p) == \A i \in DOMAIN queue : queue[i].proc # p

\* What is known of a process and its exchange.
LEMMA PeerFacts ==
  ASSUME ExchInv, NEW p \in Peers
  PROVE  /\ ex[p] \in Exch /\ ExOK(ex[p]) /\ ex[p].got \in Got /\ ex[p].got.id \in Nat
         /\ issued \in Nat /\ DaemonInv
         /\ ex \in [Peers -> Exch] /\ queue \in Seq(Conn) /\ Len(queue) <= QueueMax
BY DEF ExchInv, LinkInv, DaemonInv, DaemonTypes, TableTypeOK, Exch, Got

\* What has to be shown of a step of process p.
LEMMA LinkStep ==
  ASSUME ExchInv, Elsewhere, NEW p \in Peers, NEW e \in Exch, ex' = [ex EXCEPT ![p] = e],
         queue' \in Seq(Conn), Len(queue') <= QueueMax, LastOpen', OpenWaits', ExOK(e)
  PROVE  ExchInv'
<1>1. DaemonInv' /\ UNCHANGED <<clients, issued>>
  BY ElsewhereTable DEF ExchInv
<1>2. ex' \in [Peers -> Exch]
  BY DEF ExchInv, LinkInv
<1>3. ASSUME NEW q \in Peers PROVE ExOK(ex[q])'
  <2>1. ex'[q] = IF q = p THEN e ELSE ex[q]
    BY DEF ExchInv, LinkInv
  <2> QED BY <1>1, <2>1 DEF ExchInv, LinkInv, ExOK
<1> QED BY <1>1, <1>2, <1>3 DEF ExchInv, LinkInv

\* Without an open connection, what a process does concerns nobody else.
LEMMA LinkAlone ==
  ASSUME ExchInv, Elsewhere, NEW p \in Peers, Mine(p) = {}, NEW e \in Exch,
         ex' = [ex EXCEPT ![p] = e], queue' = queue, ExOK(e)
  PROVE  ExchInv'
<1>1. queue' \in Seq(Conn) /\ Len(queue') <= QueueMax /\ LastOpen'
  BY DEF ExchInv, LinkInv, LastOpen
<1>2. OpenWaits'
  <2> SUFFICES ASSUME NEW i \in DOMAIN queue
               PROVE  IF queue[i].open THEN Waits(queue[i])' ELSE queue[i].req # NoReq
    BY DEF OpenWaits
  <2>1. CASE queue[i].open
    <3>1. queue[i].proc # p
      BY <2>1 DEF Mine
    <3>2. queue[i] \in Conn
      BY DEF ExchInv, LinkInv
    <3>3. queue[i].proc \in Peers
      BY <3>2 DEF Conn
    <3>4. ex'[queue[i].proc] = ex[queue[i].proc]
      BY <3>1, <3>3 DEF ExchInv, LinkInv
    <3> QED BY <2>1, <3>4 DEF ExchInv, LinkInv, OpenWaits, Waits
  <2> QED BY <2>1 DEF ExchInv, LinkInv, OpenWaits
<1> QED BY <1>1, <1>2, LinkStep

\* An exchange that is not between write and the answer has no open connection.
LEMMA NoneOpen ==
  ASSUME ExchInv, NEW p \in Peers,
         ex[p].at \notin {"write", "read"} \/ ex[p].got # Nothing
  PROVE  Mine(p) = {}
BY DEF Mine, ExchInv, LinkInv, OpenWaits, Waits

\* The exchange of q goes on, or stands still: its request stays, an answer that has come is
\* kept or lost, and of q there comes into the queue only what its exchange is about, and
\* nothing once there was an answer.
Unanswered(got) == got.ans = "none" /\ got.id = 0 /\ got.rows = {} /\ got.n # "bytes"

Follows(q) ==
  /\ ex'[q].req = ex[q].req /\ (ex'[q].at = "idle" <=> ex[q].at = "idle")
  /\ ex'[q].got = ex[q].got \/ Unanswered(ex'[q].got)
  /\ ex[q].at = "idle" \/ ex[q].got # Nothing => NothingNew(q)
  /\ \A j \in DOMAIN queue' : queue'[j].proc = q =>
       \/ queue'[j].req \in {NoReq, ex[q].req}
       \/ \E i \in DOMAIN queue : queue[i].proc = q /\ queue'[j].req = queue[i].req

\* A process that is not involved.
LEMMA StandsStill ==
  ASSUME NEW q, ex'[q] = ex[q], NothingNew(q)
  PROVE  Follows(q)
BY DEF Follows, NothingNew

\* Where only process p has moved.
LEMMA OthersStand ==
  ASSUME ExchInv, NEW p \in Peers, NEW e, ex' = [ex EXCEPT ![p] = e],
         \A q \in Peers \ {p} : NothingNew(q), Follows(p)
  PROVE  \A q \in Peers : Follows(q)
<1>1. \A q \in Peers \ {p} : ex'[q] = ex[q]
  BY DEF ExchInv, LinkInv
<1> QED BY <1>1, StandsStill

\* Steps before there is a connection, and after it is closed.
LEMMA QuietPeer ==
  ASSUME ExchInv, NEW p \in Peers, Elsewhere,
         \/ ConnectBlocks(p) \/ ConnectWakes(p) \/ ConnectFails(p)
         \/ WriteFails(p) \/ ReadReturns(p)
  PROVE  ExchInv' /\ \A q \in Peers : Follows(q)
<1>1. ex[p] \in Exch /\ ExOK(ex[p]) /\ ex \in [Peers -> Exch] /\ issued \in Nat
  BY PeerFacts
<1>2. Mine(p) = {} /\ queue' = queue /\ ex[p].at # "idle"
  <2>1. ex[p].at \notin {"write", "read"} \/ ex[p].got # Nothing
    BY DEF ConnectBlocks, ConnectWakes, ConnectFails, WriteFails, ReadReturns
  <2> QED
    BY <2>1, NoneOpen DEF ConnectBlocks, ConnectWakes, ConnectFails, WriteFails, ReadReturns
<1>3. \A q \in Peers : NothingNew(q)
  BY <1>2 DEF NothingNew
<1>4. ASSUME NEW a \in {"blocked", "connect", "done"}, Move(p, a),
             a # "done" => ex[p].got = Nothing, a = "done" => ex[p].got # Nothing
      PROVE  ExchInv' /\ \A q \in Peers : Follows(q)
  <2> DEFINE e == [ex[p] EXCEPT !.at = a]
  <2>1. e \in Exch /\ e.at = a /\ e.req = ex[p].req /\ e.got = ex[p].got /\ a # "idle"
    BY <1>1 DEF Exch
  <2>2. ex' = [ex EXCEPT ![p] = e] /\ ex'[p] = e
    BY <1>1, <1>4 DEF Move
  <2> HIDE DEF e
  <2>3. ExOK(e)
    BY <1>1, <1>2, <1>4, <2>1 DEF ExOK
  <2>4. Follows(p)
    BY <1>2, <1>3, <2>1, <2>2 DEF Follows
  <2> QED BY <1>2, <1>3, <2>1, <2>2, <2>3, <2>4, LinkAlone, OthersStand
<1>5. ASSUME Finish(p, "error") PROVE ExchInv' /\ \A q \in Peers : Follows(q)
  <2> DEFINE e == [ex[p] EXCEPT !.at = "done", !.got = Outcome("error")]
  <2>1. e \in Exch /\ e.at = "done" /\ e.req = ex[p].req /\ e.got = Outcome("error")
    BY <1>1, Values DEF Exch
  <2>2. ex' = [ex EXCEPT ![p] = e] /\ ex'[p] = e
    BY <1>1, <1>5 DEF Finish
  <2> HIDE DEF e
  <2>3. Unanswered(e.got) /\ e.got.n = "error" /\ e.got # Nothing /\ e.got.id = 0 /\ 0 <= issued
    BY <1>1, <2>1, Values DEF Unanswered
  <2>4. ExOK(e)
    BY <1>1, <1>2, <2>1, <2>3 DEF ExOK
  <2>5. Follows(p)
    BY <1>2, <1>3, <2>1, <2>2, <2>3 DEF Follows
  <2> QED BY <1>2, <1>3, <2>1, <2>2, <2>4, <2>5, LinkAlone, OthersStand
<1> QED
  BY <1>1, <1>4, <1>5
  DEF ConnectBlocks, ConnectWakes, ConnectFails, WriteFails, ReadReturns, ExOK

\* connect() puts a connection at the end of the queue.
LEMMA PeerConnects ==
  ASSUME ExchInv, NEW p \in Peers, Elsewhere, Connect(p)
  PROVE  ExchInv' /\ \A q \in Peers : Follows(q)
<1>1. /\ ex[p] \in Exch /\ ExOK(ex[p]) /\ queue \in Seq(Conn) /\ Len(queue) \in Nat
      /\ Len(queue) < QueueMax /\ ex \in [Peers -> Exch]
  BY PeerFacts DEF Connect
<1>2. Mine(p) = {} /\ ex[p].at = "connect" /\ ex[p].got = Nothing
  BY <1>1, NoneOpen DEF Connect, ExOK
<1>3. PICK c \in Conn : /\ c = [proc |-> p, req |-> NoReq, open |-> TRUE]
                        /\ queue' = Append(queue, c)
  BY DEF Connect, Conn
<1>4. /\ queue' \in Seq(Conn) /\ Len(queue') = Len(queue) + 1
      /\ DOMAIN queue' = 1 .. Len(queue) + 1 /\ DOMAIN queue = 1 .. Len(queue)
      /\ queue'[Len(queue) + 1] = c /\ \A i \in DOMAIN queue : queue'[i] = queue[i]
  BY <1>1, <1>3
<1>5. Len(queue') <= QueueMax
  BY <1>1, <1>4, ExchangeAssumption
<1>6. PICK e \in Exch : /\ e.at = "write" /\ e.req = ex[p].req /\ e.got = ex[p].got
                        /\ ex' = [ex EXCEPT ![p] = e]
  <2>1. [ex[p] EXCEPT !.at = "write"] \in Exch
    BY <1>1 DEF Exch
  <2>2. ex' = [ex EXCEPT ![p] = [ex[p] EXCEPT !.at = "write"]]
    BY <1>1 DEF Connect, Move
  <2> QED BY <1>1, <2>1, <2>2 DEF Exch
<1>7. ex'[p] = e
  BY <1>1, <1>6
<1>8. LastOpen'
  <2> SUFFICES ASSUME NEW i \in DOMAIN queue', NEW j \in DOMAIN queue',
                      queue'[i].open, queue'[j].proc = queue'[i].proc
               PROVE  j <= i
    BY DEF LastOpen
  <2>1. CASE i = Len(queue) + 1
    BY <1>1, <1>4, <2>1
  <2>2. CASE i \in DOMAIN queue /\ j \in DOMAIN queue
    BY <1>4, <2>2 DEF ExchInv, LinkInv, LastOpen
  <2>3. CASE i \in DOMAIN queue /\ j = Len(queue) + 1
    BY <1>2, <1>3, <1>4, <2>3 DEF Mine
  <2> QED BY <1>1, <1>4, <2>1, <2>2, <2>3
<1>9. OpenWaits'
  <2> SUFFICES ASSUME NEW i \in DOMAIN queue'
               PROVE  IF queue'[i].open THEN Waits(queue[i])' ELSE queue'[i].req # NoReq
    BY DEF OpenWaits
  <2>1. CASE i = Len(queue) + 1
    BY <1>2, <1>3, <1>4, <1>6, <1>7, <2>1 DEF Waits
  <2>2. CASE i \in DOMAIN queue /\ queue[i].open
    <3>0. queue[i] \in Conn
      BY <1>1, <2>2
    <3>1. queue[i].proc # p /\ queue[i].proc \in Peers /\ queue'[i] = queue[i]
      BY <1>2, <1>4, <2>2, <3>0 DEF Mine, Conn
    <3>2. ex'[queue[i].proc] = ex[queue[i].proc]
      BY <1>1, <1>6, <3>1
    <3> QED BY <2>2, <3>1, <3>2 DEF ExchInv, LinkInv, OpenWaits, Waits
  <2>3. CASE i \in DOMAIN queue /\ ~queue[i].open
    BY <1>4, <2>3 DEF ExchInv, LinkInv, OpenWaits
  <2> QED BY <1>1, <1>4, <2>1, <2>2, <2>3
<1>10. \A q \in Peers \ {p} : NothingNew(q)
  BY <1>1, <1>3, <1>4 DEF NothingNew
<1>11. ExOK(e)
  BY <1>1, <1>2, <1>6, Values DEF ExOK
<1>12. Follows(p)
  <2>1. ASSUME NEW j \in DOMAIN queue', queue'[j].proc = p
        PROVE  \/ queue'[j].req = NoReq
               \/ \E i \in DOMAIN queue : queue[i].proc = p /\ queue'[j].req = queue[i].req
    <3>1. CASE j = Len(queue) + 1
      BY <1>3, <1>4, <3>1
    <3>2. CASE j \in DOMAIN queue
      BY <1>4, <2>1, <3>2
    <3> QED BY <1>1, <1>4, <3>1, <3>2
  <2> QED BY <1>2, <1>6, <1>7, <2>1 DEF Follows
<1>13. ExchInv'
  BY <1>4, <1>5, <1>6, <1>8, <1>9, <1>11, LinkStep
<1> QED BY <1>6, <1>10, <1>12, <1>13, OthersStand

\* write() and the end of the wait change what is known of the open connections of p.
Marked(p, req, open) ==
  queue' = [i \in DOMAIN queue |->
              IF i \in Mine(p) THEN [queue[i] EXCEPT !.req = req, !.open = open] ELSE queue[i]]

\* The queue after such a step.
LEMMA MarkedQueue ==
  ASSUME ExchInv, NEW p \in Peers, NEW req \in Request \cup {NoReq}, NEW open \in BOOLEAN,
         Marked(p, req, open)
  PROVE  /\ queue' \in Seq(Conn) /\ Len(queue') = Len(queue)
         /\ DOMAIN queue' = DOMAIN queue
         /\ \A i \in DOMAIN queue :
              /\ queue[i] \in Conn /\ queue'[i] \in Conn /\ queue'[i].proc = queue[i].proc
              /\ i \notin Mine(p) => queue'[i] = queue[i]
              /\ i \in Mine(p) => /\ queue[i].proc = p /\ queue[i].open
                                  /\ queue'[i].req = req /\ queue'[i].open = open
         /\ LastOpen'
         /\ \A q \in Peers \ {p} : NothingNew(q)
<1>1. queue \in Seq(Conn)
  BY DEF ExchInv, LinkInv
<1>2. ASSUME NEW c \in Conn, NEW d, d = [c EXCEPT !.req = req, !.open = open]
      PROVE  d \in Conn /\ d.proc = c.proc /\ d.req = req /\ d.open = open
  BY <1>2 DEF Conn
<1>3. ASSUME NEW i \in DOMAIN queue
      PROVE  /\ queue[i] \in Conn /\ queue'[i] \in Conn /\ queue'[i].proc = queue[i].proc
             /\ i \notin Mine(p) => queue'[i] = queue[i]
             /\ i \in Mine(p) => /\ queue[i].proc = p /\ queue[i].open
                                 /\ queue'[i].req = req /\ queue'[i].open = open
  <2>1. queue[i] \in Conn
    BY <1>1
  <2>2. queue'[i] = IF i \in Mine(p) THEN [queue[i] EXCEPT !.req = req, !.open = open]
                                     ELSE queue[i]
    BY DEF Marked
  <2>3. i \in Mine(p) => queue[i].proc = p /\ queue[i].open
    BY DEF Mine
  <2> QED BY <1>2, <2>1, <2>2, <2>3
<1>4. DOMAIN queue' = DOMAIN queue /\ DOMAIN queue = 1 .. Len(queue) /\ Len(queue) \in Nat
  <2>1. DOMAIN queue' = DOMAIN queue
    BY DEF Marked
  <2> QED BY <1>1, <2>1
<1>5. queue' \in [1 .. Len(queue) -> Conn]
  <2>1. \A i \in 1 .. Len(queue) : queue'[i] \in Conn
    BY <1>3, <1>4
  <2>2. queue' = [i \in 1 .. Len(queue) |-> queue'[i]]
    BY <1>4 DEF Marked
  <2> QED BY <2>1, <2>2
<1>6. queue' \in Seq(Conn) /\ Len(queue') = Len(queue)
  BY <1>4, <1>5
<1>7. LastOpen'
  BY <1>3, <1>4 DEF ExchInv, LinkInv, LastOpen
<1>8. \A q \in Peers \ {p} : NothingNew(q)
  BY <1>3, <1>4 DEF NothingNew
<1> QED BY <1>3, <1>4, <1>6, <1>7, <1>8

\* What has to be shown of such a step: the exchange waits on if the connection stays open.
LEMMA MarkStep ==
  ASSUME ExchInv, NEW p \in Peers, Elsewhere, NEW e \in Exch,
         ex[p].at \in {"write", "read"}, ex[p].got = Nothing,
         ex' = [ex EXCEPT ![p] = e], e.req = ex[p].req,
         NEW open \in BOOLEAN, Marked(p, ex[p].req, open),
         open => e.at = "read" /\ e.got = Nothing,
         ExOK(e), e.at # "idle", Unanswered(e.got)
  PROVE  ExchInv' /\ \A q \in Peers : Follows(q)
<1>1. ExOK(ex[p]) /\ Len(queue) <= QueueMax /\ ex \in [Peers -> Exch]
  BY PeerFacts
<1>2. PICK req \in Request : req = ex[p].req /\ req # NoReq /\ Marked(p, req, open)
  BY <1>1 DEF ExOK, Request, NoReq
<1>3. ex'[p] = e /\ \A q \in Peers : q # p => ex'[q] = ex[q]
  BY <1>1
<1>4. /\ queue' \in Seq(Conn) /\ Len(queue') = Len(queue) /\ LastOpen'
      /\ DOMAIN queue' = DOMAIN queue
      /\ \A q \in Peers \ {p} : NothingNew(q)
  BY <1>2, MarkedQueue
<1>5. ASSUME NEW i \in DOMAIN queue
      PROVE  \/ /\ queue'[i].proc = p /\ queue'[i].req = req /\ queue'[i].open = open
             \/ /\ queue'[i] = queue[i] /\ queue[i].proc \in Peers
                /\ queue[i].open => queue[i].proc # p
  <2>1. CASE i \in Mine(p)
    BY <1>2, <2>1, MarkedQueue
  <2>2. CASE i \notin Mine(p)
    <3>1. queue'[i] = queue[i] /\ queue[i] \in Conn
      BY <1>2, <2>2, MarkedQueue
    <3> QED BY <2>2, <3>1 DEF Mine, Conn
  <2> QED BY <2>1, <2>2
<1>6. OpenWaits'
  <2> SUFFICES ASSUME NEW i \in DOMAIN queue
               PROVE  IF queue'[i].open THEN Waits(queue[i])' ELSE queue'[i].req # NoReq
    BY <1>4 DEF OpenWaits
  <2>1. CASE queue'[i].proc = p /\ queue'[i].req = req /\ queue'[i].open = open
    BY <1>2, <1>3, <2>1 DEF Waits
  <2>2. CASE /\ queue'[i] = queue[i] /\ queue[i].proc \in Peers
             /\ queue[i].open => queue[i].proc # p
    <3>1. queue[i].open => ex'[queue[i].proc] = ex[queue[i].proc]
      BY <1>3, <2>2
    <3> QED BY <2>2, <3>1 DEF ExchInv, LinkInv, OpenWaits, Waits
  <2> QED BY <1>5, <2>1, <2>2
<1>7. Follows(p)
  <2>1. ASSUME NEW i \in DOMAIN queue, queue'[i].proc = p
        PROVE  \/ queue'[i].req = ex[p].req
               \/ \E j \in DOMAIN queue : queue[j].proc = p /\ queue'[i].req = queue[j].req
    BY <1>2, <1>5, <2>1
  <2> QED BY <1>3, <1>4, <2>1 DEF Follows
<1>8. ExchInv'
  BY <1>1, <1>4, <1>6, LinkStep
<1> QED BY <1>4, <1>7, <1>8, OthersStand

\* write() and the end of a wait without an answer.
LEMMA PeerWritesOrGivesUp ==
  ASSUME ExchInv, NEW p \in Peers, Elsewhere, Write(p) \/ ReadGivesUp(p)
  PROVE  ExchInv' /\ \A q \in Peers : Follows(q)
<1>1. /\ ex[p] \in Exch /\ ExOK(ex[p]) /\ queue \in Seq(Conn)
      /\ ex \in [Peers -> Exch] /\ issued \in Nat
  BY PeerFacts
<1>2. /\ ex[p].got = Nothing /\ ex[p].at \in {"write", "read"} /\ ex[p].req \in Request
  BY <1>1 DEF Write, ReadGivesUp, ExOK
<1>3. \A i \in Mine(p) : i \in DOMAIN queue /\ queue[i] \in Conn /\ Waits(queue[i])
                          /\ queue[i].proc = p /\ queue[i].open
  BY <1>1 DEF Mine, ExchInv, LinkInv, OpenWaits
<1>4. CASE Write(p)
  <2>1. Marked(p, ex[p].req, TRUE)
    <3>1. \A i \in Mine(p) : [queue[i] EXCEPT !.req = ex[p].req]
                              = [queue[i] EXCEPT !.req = ex[p].req, !.open = TRUE]
      BY <1>3 DEF Conn
    <3> QED BY <1>4, <3>1 DEF Write, Marked
  <2>2. PICK e \in Exch : /\ e.at = "read" /\ e.req = ex[p].req /\ e.got = ex[p].got
                          /\ ex' = [ex EXCEPT ![p] = e]
    <3>1. [ex[p] EXCEPT !.at = "read"] \in Exch
      BY <1>1 DEF Exch
    <3>2. ex' = [ex EXCEPT ![p] = [ex[p] EXCEPT !.at = "read"]]
      BY <1>1, <1>4 DEF Write, Move
    <3> QED BY <1>1, <3>1, <3>2 DEF Exch
  <2>3. ExOK(e) /\ Unanswered(e.got)
    BY <1>1, <1>2, <2>2, Values DEF ExOK, Unanswered
  <2> QED BY <1>2, <2>1, <2>2, <2>3, MarkStep
<1>5. CASE ReadGivesUp(p)
  <2>1. PICK n \in {"zero", "error"} : Finish(p, n)
    BY <1>5 DEF ReadGivesUp
  <2>2. Marked(p, ex[p].req, FALSE)
    <3>1. \A i \in Mine(p) : queue[i].req = ex[p].req
      BY <1>3, <1>5 DEF Waits, ReadGivesUp
    <3>2. \A i \in Mine(p) : [queue[i] EXCEPT !.open = FALSE]
                              = [queue[i] EXCEPT !.req = ex[p].req, !.open = FALSE]
      BY <1>3, <3>1 DEF Conn
    <3> QED BY <1>5, <3>2 DEF ReadGivesUp, Marked
  <2>3. PICK e \in Exch : /\ e.at = "done" /\ e.req = ex[p].req /\ e.got = Outcome(n)
                          /\ ex' = [ex EXCEPT ![p] = e]
    <3>1. [ex[p] EXCEPT !.at = "done", !.got = Outcome(n)] \in Exch
      BY <1>1, Values DEF Exch
    <3>2. ex' = [ex EXCEPT ![p] = [ex[p] EXCEPT !.at = "done", !.got = Outcome(n)]]
      BY <1>1, <2>1 DEF Finish
    <3> QED BY <1>1, <3>1, <3>2 DEF Exch
  <2>4. Unanswered(e.got) /\ e.got.id = 0 /\ e.got.n = n /\ e.got # Nothing
    BY <2>3, Values DEF Unanswered
  <2>5. ExOK(e)
    BY <1>1, <1>2, <2>3, <2>4 DEF ExOK
  <2> QED BY <1>2, <2>2, <2>3, <2>4, <2>5, MarkStep
<1> QED BY <1>4, <1>5

\* A process within its exchange: its own goes on, the others stand still.
LEMMA PeerGoesOn ==
  ASSUME ExchInv, NEW p \in Peers, PeerStep(p)
  PROVE  ExchInv' /\ \A q \in Peers : Follows(q)
<1>1. Elsewhere
  BY DEF PeerStep
<1>2. CASE Connect(p)
  BY <1>1, <1>2, PeerConnects
<1>3. CASE Write(p) \/ ReadGivesUp(p)
  BY <1>1, <1>3, PeerWritesOrGivesUp
<1>4. CASE \/ ConnectBlocks(p) \/ ConnectWakes(p) \/ ConnectFails(p)
           \/ WriteFails(p) \/ ReadReturns(p)
  BY <1>1, <1>4, QuietPeer
<1> QED BY <1>2, <1>3, <1>4 DEF PeerStep

\* A process begins an exchange or is done with it.
LEMMA PeerTurns ==
  ASSUME ExchInv, NEW p \in Peers, Elsewhere, queue' = queue, ex[p].at \in {"idle", "done"},
         \/ ex' = [ex EXCEPT ![p] = Idle]
         \/ \E r \in Request : ex' = [ex EXCEPT ![p] = Begin(r)]
  PROVE  /\ ExchInv' /\ \A q \in Peers \ {p} : Follows(q)
         /\ ex'[p].got = Nothing /\ NothingNew(p)
<1>1. ExOK(ex[p]) /\ ex \in [Peers -> Exch] /\ issued \in Nat
  BY PeerFacts
<1>2. Mine(p) = {} /\ \A q \in Peers : NothingNew(q)
  BY NoneOpen DEF NothingNew
<1>3. PICK e \in Exch : /\ e.at \in {"idle", "connect"} /\ e.got = Nothing
                        /\ e.at # "idle" => e.req \in Request
                        /\ ex' = [ex EXCEPT ![p] = e]
  BY Values DEF Idle
<1>4. ExOK(e)
  BY <1>1, <1>3, Values DEF ExOK
<1>5. ex'[p] = e /\ \A q \in Peers \ {p} : ex'[q] = ex[q]
  BY <1>1, <1>3
<1> QED BY <1>2, <1>3, <1>4, <1>5, LinkAlone, StandsStill

----------------------------------------------------------------------------
(* The daemon and the exchanges *)

\* The queue without its head.
LEMMA TailQueue ==
  ASSUME ExchInv, queue # << >>, queue' = Tail(queue)
  PROVE  /\ queue' \in Seq(Conn) /\ Len(queue') <= QueueMax /\ LastOpen'
         /\ 1 \in DOMAIN queue /\ queue[1] = Head(queue) /\ Head(queue) \in Conn
         /\ \A j \in DOMAIN queue' : j + 1 \in DOMAIN queue /\ queue'[j] = queue[j + 1]
         /\ \A q : NothingNew(q)
         /\ Head(queue).open =>
              \A j \in DOMAIN queue' : queue'[j].proc # Head(queue).proc
<1>1. queue \in Seq(Conn) /\ Len(queue) <= QueueMax /\ LastOpen
  BY DEF ExchInv, LinkInv
<1>2. /\ queue' \in Seq(Conn) /\ Len(queue') = Len(queue) - 1 /\ Len(queue) \in Nat
      /\ Len(queue) > 0 /\ DOMAIN queue = 1 .. Len(queue) /\ DOMAIN queue' = 1 .. Len(queue')
      /\ queue[1] = Head(queue) /\ Head(queue) \in Conn
  BY <1>1
<1>3. \A j \in DOMAIN queue' : /\ j + 1 \in DOMAIN queue /\ queue'[j] = queue[j + 1]
                               /\ j \in Nat /\ j > 0
  BY <1>1, <1>2
<1>4. Len(queue') <= QueueMax /\ 1 \in DOMAIN queue
  BY <1>1, <1>2, ExchangeAssumption
<1>5. LastOpen'
  <2> SUFFICES ASSUME NEW i \in DOMAIN queue', NEW j \in DOMAIN queue',
                      queue'[i].open, queue'[j].proc = queue'[i].proc
               PROVE  j <= i
    BY DEF LastOpen
  <2>1. j + 1 <= i + 1
    BY <1>1, <1>3 DEF LastOpen
  <2> QED BY <1>3, <2>1
<1>6. \A q : NothingNew(q)
  BY <1>3 DEF NothingNew
<1>7. ASSUME Head(queue).open, NEW j \in DOMAIN queue', queue'[j].proc = Head(queue).proc
      PROVE  FALSE
  <2>1. j + 1 <= 1
    BY <1>1, <1>2, <1>3, <1>4, <1>7 DEF LastOpen
  <2> QED BY <1>3, <2>1
<1> QED BY <1>2, <1>3, <1>4, <1>5, <1>6, <1>7

\* An exchange that stays as it is stays in order, as IDs are only added.
LEMMA StaysInOrder ==
  ASSUME ExchInv, IDsPersist, NEW q \in Peers, ex'[q] = ex[q]
  PROVE  ExOK(ex[q])'
<1>1. PICK e : e = ex[q] /\ ExOK(e) /\ e.got.id \in Nat /\ issued \in Nat /\ issued' \in Nat
               /\ issued <= issued'
  BY PeerFacts DEF IDsPersist
<1>2. e.got.id <= issued'
  BY <1>1 DEF ExOK
<1>3. ExOK(e)'
  BY <1>1, <1>2 DEF ExOK
<1> QED BY <1>1, <1>3 DEF ExOK

\* Process c.proc, which waits for it, is given the answer got; nobody else is concerned.
GivenTo(c, got) ==
  /\ Waits(c) /\ NoneQueued(c.proc)'
  /\ ex'[c.proc].at = ex[c.proc].at /\ ex'[c.proc].req = ex[c.proc].req
  /\ ex'[c.proc].got = got

\* The daemon is done with the connection at the head of the queue, whose process reads the
\* answer if it still waits for one.
LEMMA ServedStep ==
  ASSUME ExchInv, DaemonInv', IDsPersist, queue # << >>, queue' = Tail(queue),
         NEW c \in Conn, c = Head(queue), NEW got \in Got, got # Nothing, got.n # "none",
         got.id <= issued',
         ex' = IF c.open THEN [ex EXCEPT ![c.proc].got = got] ELSE ex
  PROVE  /\ ExchInv'
         /\ \A q \in Peers : ~(c.open /\ q = c.proc) => Follows(q)
         /\ c.open => GivenTo(c, got)
<1>1. /\ c.proc \in Peers /\ ex \in [Peers -> Exch]
      /\ 1 \in DOMAIN queue /\ queue[1] = c
  BY TailQueue DEF Conn, ExchInv, LinkInv
<1>2. PICK e \in Exch : /\ e.at = ex[c.proc].at /\ e.req = ex[c.proc].req /\ e.got = got
                        /\ c.open => ex' = [ex EXCEPT ![c.proc] = e]
  <2>1. [ex[c.proc] EXCEPT !.got = got] \in Exch
    BY <1>1 DEF Exch
  <2>2. c.open => ex' = [ex EXCEPT ![c.proc] = [ex[c.proc] EXCEPT !.got = got]]
    BY <1>1
  <2> QED BY <1>1, <2>1, <2>2 DEF Exch
<1>3. /\ \A q \in Peers : q # c.proc => ex'[q] = ex[q]
      /\ ex'[c.proc] = IF c.open THEN e ELSE ex[c.proc]
  BY <1>1, <1>2
<1>4. ex' \in [Peers -> Exch]
  BY <1>1, <1>2
<1>5. OpenWaits'
  <2> SUFFICES ASSUME NEW i \in DOMAIN queue'
               PROVE  IF queue'[i].open THEN Waits(queue[i])' ELSE queue'[i].req # NoReq
    BY DEF OpenWaits
  <2>1. PICK j \in DOMAIN queue : /\ queue'[i] = queue[j] /\ queue[j] \in Conn
                                  /\ c.open => queue[j].proc # c.proc
    <3>1. PICK j \in DOMAIN queue : queue'[i] = queue[j]
      BY TailQueue
    <3>2. queue[j] \in Conn
      BY DEF ExchInv, LinkInv
    <3> QED BY <3>1, <3>2, TailQueue
  <2>2. queue[j].proc \in Peers
    BY <2>1 DEF Conn
  <2>3. ex'[queue[j].proc] = ex[queue[j].proc]
    BY <1>3, <2>1, <2>2
  <2>4. IF queue[j].open THEN Waits(queue[j]) ELSE queue[j].req # NoReq
    BY DEF ExchInv, LinkInv, OpenWaits
  <2> QED BY <2>1, <2>3, <2>4 DEF Waits
<1>6. c.open => GivenTo(c, got)
  <2>1. c.open => Waits(c) /\ NoneQueued(c.proc)'
    BY <1>1, TailQueue DEF NoneQueued, ExchInv, LinkInv, OpenWaits
  <2> QED BY <1>2, <1>3, <2>1 DEF GivenTo
<1>7. ASSUME NEW q \in Peers PROVE ExOK(ex[q])'
  <2>1. CASE q = c.proc /\ c.open
    <3>1. ExOK(ex[q]) /\ Waits(c) /\ ex'[q] = e
      BY <1>3, <1>6, <2>1, PeerFacts DEF GivenTo
    <3> QED BY <1>2, <2>1, <3>1 DEF ExOK, Waits
  <2>2. CASE ~(q = c.proc /\ c.open)
    BY <1>3, <2>2, StaysInOrder
  <2> QED BY <2>1, <2>2
<1>8. ExchInv'
  BY <1>4, <1>5, <1>7, TailQueue DEF ExchInv, LinkInv
<1>9. ASSUME NEW q \in Peers, ~(c.open /\ q = c.proc) PROVE Follows(q)
  BY <1>3, <1>9, TailQueue, StandsStill
<1> QED BY <1>6, <1>8, <1>9

\* What serving the connection c amounts to.
Serves(c) ==
  /\ queue # << >> /\ c = Head(queue) /\ queue' = Tail(queue)
  /\ c.proc \in Peers /\ c.req \in Request /\ handle_command(c.proc, c.req)
  /\ 1 \in DOMAIN queue /\ queue[1] = c
  /\ \A q \in Peers : ~(c.open /\ q = c.proc) => Follows(q)
  /\ c.open => GivenTo(c, Answered)

\* A request is served.
LEMMA DaemonServes ==
  ASSUME Urandom, ExchInv, Serve
  PROVE  ExchInv' /\ IDsPersist /\ \E c \in Conn : Serves(c)
<1>1. PICK c \in Conn : /\ c = Head(queue) /\ queue # << >> /\ queue' = Tail(queue)
                        /\ c.req # NoReq /\ handle_command(c.proc, c.req)
                        /\ ex' = IF c.open THEN [ex EXCEPT ![c.proc].got = Answered] ELSE ex
                        /\ 1 \in DOMAIN queue /\ queue[1] = c
  BY TailQueue DEF Serve
<1>2. /\ c.proc \in Peers /\ c.req \in Request
      /\ UNCHANGED <<broker, version, base, restarts>> /\ DaemonInv
  BY <1>1 DEF Conn, Serve, ExchInv
<1>3. /\ DaemonInv' /\ IDsPersist
      /\ reply'.ans \in Answers /\ reply'.id \in Nat /\ reply'.id <= issued'
  BY <1>1, <1>2, CommandTable
<1>4. PICK got \in Got : got = Answered /\ got.n = "bytes" /\ got.id = reply'.id
  <2>1. Rows \subseteq Row
    <3>1. ASSUME NEW t \in Slots
          PROVE  clients[t].clientID \in Nat /\ clients[t].name \in Names \cup {""}
      <4>1. clients[t] \in Client
        BY <1>2 DEF DaemonInv, DaemonTypes, TableTypeOK
      <4> QED BY <4>1 DEF Client
    <3>2. ASSUME NEW x \in Rows PROVE x \in Row
      <4>1. PICK t \in Slots : x = [id |-> clients[t].clientID, name |-> clients[t].name]
        BY <3>2 DEF Rows, LiveSlots
      <4> QED BY <3>1, <4>1 DEF Row
    <3> QED BY <3>2
  <2>2. version \in Versions
    BY <1>2 DEF DaemonInv, DaemonTypes
  <2>3. Answered \in Got
    BY <1>3, <2>1, <2>2 DEF Answered, Got
  <2> QED BY <2>3 DEF Answered
<1>5. got # Nothing /\ got.n # "none" /\ got.id <= issued'
  BY <1>3, <1>4, Values
<1>6. ex' = IF c.open THEN [ex EXCEPT ![c.proc].got = got] ELSE ex
  BY <1>1, <1>4
<1>7. /\ ExchInv'
      /\ \A q \in Peers : ~(c.open /\ q = c.proc) => Follows(q)
      /\ c.open => GivenTo(c, got)
  BY <1>1, <1>3, <1>5, <1>6, ServedStep
<1>8. c.open => GivenTo(c, Answered)
  BY <1>4, <1>7
<1> QED BY <1>1, <1>2, <1>3, <1>7, <1>8 DEF Serves

\* A connection on which nothing is written is closed.
LEMMA DaemonGivesUp ==
  ASSUME ExchInv, GiveUp
  PROVE  ExchInv' /\ IDsPersist /\ \A q \in Peers : Follows(q)
<1>1. PICK c \in Conn : /\ c = Head(queue) /\ queue # << >> /\ queue' = Tail(queue)
                        /\ c.req = NoReq /\ NoInput(c.proc)
                        /\ ex' = [ex EXCEPT ![c.proc].got = Outcome("error")]
                        /\ 1 \in DOMAIN queue /\ queue[1] = c
  BY TailQueue DEF GiveUp
<1>2. c.open
  BY <1>1 DEF ExchInv, LinkInv, OpenWaits
<1>3. /\ c.proc \in Peers /\ c.proc \in Nat
      /\ UNCHANGED <<broker, version, base, restarts>> /\ DaemonInv
  BY <1>1, ExchangeAssumption, TableAssumption DEF Conn, GiveUp, ExchInv
<1>4. /\ UNCHANGED <<clients, issued>>
      /\ UNCHANGED <<config, clients, issued, running, reboot>>
      /\ reply' = [to |-> c.proc, ans |-> "no input", id |-> 0]
  BY <1>1 DEF NoInput, Say, Answer
<1>5. DaemonInv' /\ IDsPersist
  <2>1. TableTypeOK'
    BY <1>3, <1>4 DEF DaemonInv, DaemonTypes, TableTypeOK, Answers
  <2>2. IDsIssued' /\ LiveIDsDistinct' /\ IDsSinceStart'
    BY <1>3, <1>4 DEF DaemonInv, IDsIssued, LiveIDsDistinct, IDsSinceStart, LiveSlots, Live
  <2>3. DaemonTypes'
    BY <1>3, <1>4, <2>1 DEF DaemonInv, DaemonTypes
  <2> QED BY <1>3, <1>4, <2>2, <2>3, QuietTable DEF DaemonInv
<1>6. PICK got \in Got : /\ got = Outcome("error") /\ Unanswered(got) /\ got.id = 0
                         /\ got.n # "none" /\ got # Nothing
  BY Values DEF Unanswered
<1>7. got.id <= issued'
  BY <1>5, <1>6, ZeroIDNext
<1>8. /\ ExchInv' /\ GivenTo(c, got)
      /\ \A q \in Peers : q # c.proc => Follows(q)
  BY <1>1, <1>2, <1>5, <1>6, <1>7, ServedStep
<1>9. Follows(c.proc)
  <2>1. NothingNew(c.proc) /\ DOMAIN queue' \subseteq Nat
    BY <1>1, TailQueue
  <2> QED BY <1>6, <1>8, <2>1 DEF Follows, GivenTo, NothingNew, NoneQueued
<1> QED BY <1>5, <1>8, <1>9

\* The queue is not looked at any more.
LEMMA DaemonPending ==
  ASSUME ExchInv, ResetPending
  PROVE  ExchInv' /\ IDsPersist /\ \A q \in Peers : Follows(q)
<1>1. /\ UNCHANGED <<config, clients, issued, running, reboot, reply>>
      /\ UNCHANGED <<clients, issued>> /\ UNCHANGED <<version, base, restarts, queue, ex>>
      /\ broker' \in {"pending", "deaf"}
  BY DEF ResetPending, tableVars
<1>2. DaemonInv' /\ IDsPersist
  <2>1. IDsIssued' /\ LiveIDsDistinct' /\ IDsSinceStart'
    BY <1>1 DEF ExchInv, DaemonInv, IDsIssued, LiveIDsDistinct, IDsSinceStart, LiveSlots, Live
  <2>2. DaemonTypes'
    BY <1>1 DEF ExchInv, DaemonInv, DaemonTypes, TableTypeOK
  <2> QED BY <1>1, <2>1, <2>2, QuietTable DEF DaemonInv, ExchInv
<1>3. ExchInv'
  BY <1>1, <1>2 DEF ExchInv, LinkInv, LastOpen, OpenWaits, Waits, ExOK
<1>4. \A q \in Peers : Follows(q)
  BY <1>1, StandsStill DEF NothingNew
<1> QED BY <1>2, <1>3, <1>4

\* The process of the daemon ends, and with it the table and all connections.
LEMMA DaemonDies ==
  ASSUME ExchInv, Dies
  PROVE  ExchInv' /\ IDsPersist /\ \A q \in Peers : Follows(q)
<1>1. DaemonInv' /\ IDsPersist
  BY DeadTable DEF ExchInv
<1>2. queue' = << >> /\ ex \in [Peers -> Exch] /\ DOMAIN queue' = {}
  BY DEF Dies, ExchInv, LinkInv
<1>3. ASSUME NEW p \in Peers
      PROVE  /\ ex'[p] \in Exch /\ ex'[p].at = ex[p].at /\ ex'[p].req = ex[p].req
             /\ \/ ex'[p].got = ex[p].got
                \/ /\ ex[p].at \in {"write", "read"} /\ ex'[p].got.n # "none"
                   /\ Unanswered(ex'[p].got) /\ ex'[p].got.id = 0
  <2>1. ex[p] \in Exch
    BY <1>2
  <2>2. \/ Mine(p) = {} /\ ex'[p] = ex[p]
        \/ /\ Mine(p) # {}
           /\ \E n \in {"zero", "error"} : ex'[p] = [ex[p] EXCEPT !.got = Outcome(n)]
    BY DEF Dies
  <2>3. Mine(p) # {} => ex[p].at \in {"write", "read"}
    BY NoneOpen
  <2>4. ASSUME NEW n \in {"zero", "error"}, NEW f, f = [ex[p] EXCEPT !.got = Outcome(n)]
        PROVE  /\ f \in Exch /\ f.at = ex[p].at /\ f.req = ex[p].req
               /\ f.got.id = 0 /\ Unanswered(f.got) /\ f.got.n # "none"
    <3>1. /\ f \in Exch /\ f.at = ex[p].at /\ f.req = ex[p].req /\ f.got = Outcome(n)
      BY <2>1, <2>4, Values DEF Exch
    <3> QED BY <3>1, Values DEF Unanswered
  <2> QED BY <2>1, <2>2, <2>3, <2>4
<1>4. ex' \in [Peers -> Exch]
  <2>1. ex' = [p \in Peers |-> ex'[p]]
    BY DEF Dies
  <2> QED BY <1>3, <2>1
<1>5. queue' \in Seq(Conn) /\ Len(queue') <= QueueMax
  BY <1>2, ExchangeAssumption
<1>6. ASSUME NEW q \in Peers PROVE ExOK(ex[q])'
  <2>1. /\ ExOK(ex[q]) /\ issued' = issued /\ issued \in Nat /\ 0 <= issued
    BY PeerFacts DEF Dies
  <2>2. CASE ex'[q].got = ex[q].got
    BY <1>3, <2>1, <2>2 DEF ExOK
  <2>3. CASE /\ ex[q].at \in {"write", "read"} /\ ex'[q].got.n # "none"
             /\ ex'[q].got.id = 0
    BY <1>3, <2>1, <2>3 DEF ExOK
  <2> QED BY <1>3, <2>2, <2>3
<1>7. ExchInv'
  BY <1>1, <1>2, <1>4, <1>5, <1>6 DEF ExchInv, LinkInv, LastOpen, OpenWaits
<1>8. ASSUME NEW q \in Peers PROVE Follows(q)
  BY <1>2, <1>3 DEF Follows, NothingNew
<1> QED BY <1>1, <1>7, <1>8

\* Another daemon takes its place.
LEMMA DaemonRestarts ==
  ASSUME ExchInv, Restart
  PROVE  ExchInv' /\ IDsPersist /\ \A q \in Peers : Follows(q)
<1>1. DaemonInv' /\ IDsPersist
  BY RestartTable DEF ExchInv
<1>2. queue' = queue /\ ex' = ex
  BY DEF Restart
<1>3. \A q \in Peers : ExOK(ex[q])'
  BY <1>1, <1>2, StaysInOrder
<1>4. ExchInv'
  BY <1>1, <1>2, <1>3 DEF ExchInv, LinkInv, LastOpen, OpenWaits, Waits
<1>5. \A q \in Peers : Follows(q)
  BY <1>2, StandsStill DEF NothingNew
<1> QED BY <1>1, <1>4, <1>5

\* All that the daemon does, or that happens to it, apart from serving a request.
LEMMA DaemonFaults ==
  ASSUME ExchInv, GiveUp \/ DaemonFault
  PROVE  ExchInv' /\ IDsPersist /\ \A q \in Peers : Follows(q)
BY DaemonGivesUp, DaemonPending, DaemonDies, DaemonRestarts DEF DaemonFault

\* What a process that calls nobody does to the IDs: nothing.
LEMMA PeersKeepIDs ==
  ASSUME ExchInv, Elsewhere
  PROVE  IDsPersist /\ UNCHANGED <<clients, issued, base, broker, restarts>>
BY ElsewhereTable, QuietTable DEF ExchInv, Elsewhere

----------------------------------------------------------------------------
(* The calls of the library, whoever else uses the socket *)

User == [clientID : Nat, call : Request \cup Calls \cup {NoReq}, result : Results]

\* An exchange is for the call its process is in; PING and UNREGISTER are sent with the
\* ID held.
CallOK(e, u) ==
  /\ u.clientID <= issued
  /\ e.at # "idle" =>
       /\ u.call \in Request /\ u.result = "none"
       /\ e.req = u.call \/ (u.call.cmd = "REGISTER" /\ e.req = [cmd |-> "VERSION"])
  /\ u.call.cmd \in {"PING", "UNREGISTER"} => u.call.id = u.clientID

CallsInv == lib \in [Users -> User] /\ \A p \in Users : CallOK(ex[p], lib[p])

\* No slot with the ID is anybody else's, and: process p has a slot with the ID.
Owns(p, id) == \A s \in SlotsByID(id) : clients[s].active /\ clients[s].pid = p

Has(p, id) ==
  \E s \in Slots : clients[s].active /\ clients[s].pid = p /\ clients[s].clientID = id

Watched(p, id) == id > base /\ broker # "down" => Has(p, id)

\* The requests of p that have not been served yet name the ID that p holds.
SentOK(p, id) ==
  \A i \in DOMAIN queue :
    queue[i].proc = p /\ queue[i].req.cmd \in {"PING", "UNREGISTER"} => queue[i].req.id = id

Agreed(e, u) == e.got.ans \in {"OK", "OK id"} \/ u.result = "OK"

\* The ID a call is about: REGISTER is answered with it.
TheID(e, u) == IF u.call.cmd = "REGISTER" /\ e.at # "idle" THEN e.got.id ELSE u.clientID

\* Once a call was answered with OK nothing of its process is left in the queue, so the
\* table stays as the answer said.
Settled(p, e, u) ==
  Agreed(e, u) =>
    /\ NoneQueued(p)
    /\ u.call.cmd = "UNREGISTER" => SlotsByID(u.clientID) = {}
    /\ u.call.cmd \in {"REGISTER", "PING"} => Watched(p, TheID(e, u))

UserOK(p, e, u) ==
  /\ SentOK(p, u.clientID)
  /\ Owns(p, u.clientID) /\ Owns(p, e.got.id)
  /\ Settled(p, e, u)

\* Where only applications use the socket.
Strangers == \A q \in Peers \ Users : ex[q].at = "idle" /\ NoneQueued(q)

LibInv ==
  /\ ExchInv /\ CallsInv /\ Strangers
  /\ \A p \in Users : UserOK(p, ex[p], lib[p])

\* What is known of a process, its exchange and its call.
LEMMA UserFacts ==
  ASSUME ExchInv, CallsInv, NEW p \in Users
  PROVE  /\ p \in Peers /\ ex[p] \in Exch /\ lib[p] \in User /\ lib[p].clientID \in Nat
         /\ ExOK(ex[p]) /\ CallOK(ex[p], lib[p]) /\ ex[p].got.id \in Nat
         /\ issued \in Nat /\ ex[p].got \in Got
BY LibAssumption, PeerFacts DEF CallsInv, User

\* As long as its exchange is for the same request, a process is in the same call.
LEMMA SameCalls ==
  ASSUME ExchInv, CallsInv, IDsPersist, lib' = lib,
         \A q \in Users : /\ ex'[q].req = ex[q].req
                          /\ ex'[q].at = "idle" <=> ex[q].at = "idle"
  PROVE  CallsInv'
<1>1. ASSUME NEW q \in Users PROVE CallOK(ex[q], lib[q])'
  <2>1. PICK u : u = lib[q] /\ u.clientID \in Nat /\ u.clientID <= issued /\ CallOK(ex[q], u)
    BY UserFacts DEF CallOK
  <2>2. u.clientID <= issued'
    BY <2>1, UserFacts DEF IDsPersist
  <2>3. lib'[q] = u
    BY <2>1
  <2> QED BY <2>1, <2>2, <2>3 DEF CallOK
<1> QED BY <1>1 DEF CallsInv

\* What the table must still say to q after a step.
Steady(q) ==
  \A id \in Nat : id <= issued =>
    /\ Owns(q, id) => Owns(q, id)'
    /\ NoneQueued(q) /\ Watched(q, id) => Watched(q, id)'

\* What is said of a process whose exchange goes on.
LEMMA UserFollows ==
  ASSUME LibInv, IDsPersist, NEW q \in Users, Steady(q), Follows(q), lib'[q] = lib[q]
  PROVE  UserOK(q, ex[q], lib[q])'
<1>0. ExchInv /\ CallsInv
  BY DEF LibInv
<1>1. PICK o \in Exch : o = ex[q] /\ o.got.id \in Nat /\ o.got.id <= issued
  BY <1>0, UserFacts DEF ExOK
<1>2. PICK u \in User : /\ u = lib[q] /\ UserOK(q, o, u) /\ CallOK(o, u)
                        /\ u.clientID \in Nat /\ u.clientID <= issued
  BY <1>0, <1>1, UserFacts DEF LibInv, CallOK
<1>3. PICK e : /\ e = ex'[q] /\ e.req = o.req /\ (e.at = "idle" <=> o.at = "idle")
               /\ e.got = o.got \/ (e.got.ans = "none" /\ e.got.id = 0)
  BY <1>1 DEF Follows, Unanswered
<1>4. /\ o.at = "idle" \/ o.got # Nothing => NothingNew(q)
      /\ \A j \in DOMAIN queue' : queue'[j].proc = q =>
           \/ queue'[j].req \in {NoReq, o.req}
           \/ \E i \in DOMAIN queue : queue[i].proc = q /\ queue'[j].req = queue[i].req
  BY <1>1 DEF Follows
<1>5. SentOK(q, u.clientID)'
  <2> SUFFICES ASSUME NEW j \in DOMAIN queue', queue'[j].proc = q,
                      queue'[j].req.cmd \in {"PING", "UNREGISTER"}
               PROVE  queue'[j].req.id = u.clientID
    BY DEF SentOK
  <2>1. CASE \E i \in DOMAIN queue : queue[i].proc = q /\ queue'[j].req = queue[i].req
    BY <1>2, <2>1 DEF UserOK, SentOK
  <2>2. CASE queue'[j].req = NoReq
    BY <2>2 DEF NoReq
  <2>3. CASE queue'[j].req = o.req /\ o.at = "idle"
    BY <1>2, <1>4, <2>3 DEF NothingNew, UserOK, SentOK
  <2>4. CASE queue'[j].req = o.req /\ o.at # "idle"
    BY <1>2, <2>4 DEF CallOK
  <2> QED BY <1>4, <2>1, <2>2, <2>3, <2>4
<1>6. issued \in Nat /\ Owns(q, 0)
  BY <1>0, UserFacts, ZeroID DEF Owns, ExchInv
<1>7. Owns(q, u.clientID)' /\ Owns(q, e.got.id)'
  BY <1>1, <1>2, <1>3, <1>6 DEF Steady, UserOK
<1>8. ASSUME Agreed(e, u) PROVE Settled(q, e, u)'
  <2>1. Agreed(o, u) /\ (o.at = "idle" \/ (o.got # Nothing /\ e.got = o.got))
    BY <1>2, <1>3, <1>8, Values DEF Agreed, CallOK
  <2>2. /\ NoneQueued(q)
        /\ u.call.cmd = "UNREGISTER" => SlotsByID(u.clientID) = {}
        /\ u.call.cmd \in {"REGISTER", "PING"} => Watched(q, TheID(o, u))
    BY <1>2, <2>1 DEF UserOK, Settled
  <2>3. NoneQueued(q)'
    BY <1>4, <2>1, <2>2 DEF NothingNew, NoneQueued
  <2>4. u.call.cmd = "UNREGISTER" => (SlotsByID(u.clientID))' = {}
    BY <1>2, <2>2, SlotsPersist
  <2>5. PICK id \in Nat : id = TheID(o, u) /\ id <= issued /\ id = TheID(e, u)
    BY <1>1, <1>2, <1>3, <2>1 DEF TheID
  <2>6. Watched(q, id) => Watched(q, id)'
    BY <2>2, <2>5 DEF Steady
  <2>7. u.call.cmd \in {"REGISTER", "PING"} => Watched(q, TheID(e, u))'
    BY <2>2, <2>5, <2>6 DEF TheID
  <2> QED BY <2>3, <2>4, <2>7 DEF Settled
<1>9. Settled(q, e, u)'
  BY <1>8 DEF Settled, Agreed
<1>10. ex'[q] = e /\ lib'[q] = u
  BY <1>2, <1>3
<1> QED BY <1>5, <1>7, <1>9, <1>10 DEF UserOK, SentOK, Owns, Settled, Agreed, TheID

\* The table says the same as long as nobody touches it.
LEMMA SteadyTable ==
  ASSUME UNCHANGED <<clients, base>>, broker # "down" \/ broker' = "down"
  PROVE  \A q : Steady(q)
BY DEF Steady, Owns, Watched, Has, SlotsByID, Live

\* Processes that do not use the library stay away.
LEMMA StillStrangers ==
  ASSUME Strangers, \A q \in Peers \ Users : Follows(q)
  PROVE  Strangers'
BY DEF Strangers, Follows, NoneQueued, NothingNew

\* A process that turns from one exchange or call to the next.
Turned(p) ==
  /\ ExchInv' /\ CallsInv'
  /\ \A q \in Peers \ {p} : Follows(q)
  /\ LibInv => LibInv'

\* What has to be shown of such a step.
LEMMA TurnStep ==
  ASSUME ExchInv, CallsInv, Elsewhere, NEW p \in Users, Mine(p) = {}, queue' = queue,
         NEW e \in Exch, NEW u \in User,
         ex' = [ex EXCEPT ![p] = e], lib' = [lib EXCEPT ![p] = u],
         ExOK(e), CallOK(e, u), LibInv => UserOK(p, e, u)
  PROVE  Turned(p)
<1>1. /\ p \in Peers /\ UNCHANGED <<clients, issued, base, broker>> /\ IDsPersist
      /\ broker # "down" \/ broker' = "down"
  BY UserFacts, PeersKeepIDs
<1>2. ExchInv'
  BY <1>1, LinkAlone
<1>3. \A q \in Peers : NothingNew(q)
  BY DEF NothingNew
<1>4. /\ ex'[p] = e /\ lib'[p] = u
      /\ \A q \in Peers \ {p} : ex'[q] = ex[q]
      /\ \A q \in Users \ {p} : lib'[q] = lib[q]
  BY <1>1, PeerFacts DEF CallsInv
<1>5. \A q \in Peers \ {p} : Follows(q)
  BY <1>3, <1>4, StandsStill
<1>6. CallsInv'
  <2>1. lib' \in [Users -> User]
    BY DEF CallsInv
  <2>2. ASSUME NEW q \in Users PROVE CallOK(ex[q], lib[q])'
    <3>1. CASE q = p
      BY <1>1, <1>4, <3>1 DEF CallOK
    <3>2. CASE q # p
      <4>1. ex'[q] = ex[q] /\ lib'[q] = lib[q] /\ CallOK(ex[q], lib[q])
        BY <1>4, <3>2, UserFacts
      <4> QED BY <1>1, <4>1 DEF CallOK
    <3> QED BY <3>1, <3>2
  <2> QED BY <2>1, <2>2 DEF CallsInv
<1>7. ASSUME LibInv PROVE LibInv'
  <2>1. ASSUME NEW q \in Users, q # p PROVE UserOK(q, ex[q], lib[q])'
    <3>1. Steady(q) /\ Follows(q) /\ lib'[q] = lib[q]
      BY <1>1, <1>4, <1>5, <2>1, LibAssumption, SteadyTable
    <3> QED BY <1>1, <1>7, <3>1, UserFollows
  <2>2. UserOK(p, ex[p], lib[p])'
    <3>1. UserOK(p, e, u)
      BY <1>7
    <3>2. \A id : (SlotsByID(id))' = SlotsByID(id)
      BY <1>1 DEF SlotsByID, Live
    <3>3. UserOK(p, e, u)'
      <4>1. SentOK(p, u.clientID)' /\ Owns(p, u.clientID)' /\ Owns(p, e.got.id)'
        BY <1>1, <3>1, <3>2 DEF UserOK, SentOK, Owns
      <4>2. Settled(p, e, u)'
        BY <1>1, <3>1, <3>2 DEF UserOK, Settled, Agreed, Watched, Has, TheID, NoneQueued
      <4> QED BY <4>1, <4>2 DEF UserOK
    <3> QED BY <1>4, <3>3 DEF UserOK, SentOK, Owns, Settled, Agreed, TheID
  <2>3. Strangers'
    BY <1>5, <1>7, StillStrangers DEF LibInv
  <2> QED BY <1>2, <1>6, <2>1, <2>2, <2>3 DEF LibInv
<1> QED BY <1>2, <1>5, <1>6, <1>7 DEF Turned

\* The application begins a call; the arguments may be refused.
LEMMA CallBegins ==
  ASSUME ExchInv, CallsInv, NEW p \in Users, Call(p)
  PROVE  Turned(p)
<1>1. /\ p \in Peers /\ ex[p] \in Exch /\ lib[p] \in User /\ ExOK(ex[p])
      /\ CallOK(ex[p], lib[p]) /\ issued \in Nat
      /\ LibInv => UserOK(p, ex[p], lib[p])
  BY UserFacts DEF LibInv
<1>2. /\ Elsewhere /\ queue' = queue /\ ex[p].at = "idle" /\ ex[p].got = Nothing
      /\ Mine(p) = {}
  <2>1. ex[p].at = "idle"
    BY DEF Call, wd_client_register, wd_client_ping, wd_client_unregister, ByID, Returned
  <2> QED BY <1>1, <2>1, NoneOpen DEF Call, ExOK
<1>3. Owns(p, Nothing.id) /\ 0 <= issued
  BY <1>1, Values, ZeroID DEF ExchInv, Owns
<1>4. ASSUME NEW r \in Request, NEW r0 \in Request, Start(p, r, r0),
             r0 = r \/ (r.cmd = "REGISTER" /\ r0 = [cmd |-> "VERSION"]),
             r.cmd \in {"PING", "UNREGISTER"} => r.id = lib[p].clientID
      PROVE  Turned(p)
  <2> DEFINE u == [lib[p] EXCEPT !.call = r, !.result = "none"]
  <2>1. /\ u \in User /\ u.call = r /\ u.result = "none" /\ u.clientID = lib[p].clientID
        /\ lib' = [lib EXCEPT ![p] = u]
    BY <1>1, <1>4 DEF User, Results, Start, CallsInv
  <2>2. PICK e \in Exch : /\ e = Begin(r0) /\ e.at = "connect" /\ e.req = r0
                          /\ e.got = Nothing /\ ex' = [ex EXCEPT ![p] = e]
    BY <1>4, Values DEF Start
  <2> HIDE DEF u
  <2>3. ExOK(e)
    BY <1>3, <2>2, Values DEF ExOK
  <2>4. CallOK(e, u)
    BY <1>1, <1>4, <2>1, <2>2 DEF CallOK
  <2>5. LibInv => UserOK(p, e, u)
    BY <1>1, <1>3, <2>1, <2>2, Values DEF UserOK, Settled, Agreed
  <2> QED BY <1>2, <2>1, <2>2, <2>3, <2>4, <2>5, TurnStep
<1>5. ASSUME NEW r \in Request \cup Calls, Refuse(p, r),
             r.cmd \in {"PING", "UNREGISTER"} => r.id = lib[p].clientID
      PROVE  Turned(p)
  <2> DEFINE u == [lib[p] EXCEPT !.call = r, !.result = "EPARAM"]
  <2>1. /\ u \in User /\ u.call = r /\ u.result = "EPARAM" /\ u.clientID = lib[p].clientID
        /\ lib' = [lib EXCEPT ![p] = u] /\ ex' = [ex EXCEPT ![p] = ex[p]]
    BY <1>1, <1>5, PeerFacts DEF User, Results, Refuse, CallsInv
  <2> HIDE DEF u
  <2>2. CallOK(ex[p], u)
    BY <1>1, <1>2, <1>5, <2>1 DEF CallOK
  <2>3. LibInv => UserOK(p, ex[p], u)
    BY <1>1, <1>2, <2>1, Values DEF UserOK, Settled, Agreed
  <2> QED BY <1>1, <1>2, <2>1, <2>2, <2>3, TurnStep
<1>6. ASSUME NEW r \in Calls, wd_client_register(p, r) PROVE Turned(p)
  <2>1. r.cmd = "REGISTER" /\ (r.name # "" => r \in Request)
    BY LibAssumption DEF Request
  <2>2. [cmd |-> "VERSION"] \in Request
    BY DEF Request
  <2> QED BY <1>4, <1>5, <1>6, <2>1, <2>2 DEF wd_client_register
<1>7. ASSUME NEW c \in {"PING", "UNREGISTER"}, ByID(p, c) PROVE Turned(p)
  <2>1. PICK r \in Request : r = [cmd |-> c, id |-> lib[p].clientID]
    BY <1>1 DEF User, Request
  <2>2. r.id = lib[p].clientID
    BY <2>1
  <2> QED BY <1>4, <1>5, <1>7, <2>1, <2>2 DEF ByID
<1> QED BY <1>6, <1>7 DEF Call, wd_client_ping, wd_client_unregister

\* What is made of an answer.
LEMMA Outcomes ==
  ASSUME NEW got \in Got, got.n # "none"
  PROVE  /\ ResultOf(got) \in Results \ {"none"}
         /\ ResultOf(got) = "OK" => got.ans \in {"OK", "OK id"}
BY DEF Got, ResultOf, Results

\* The end of an exchange, and of the call if it was the last one.
LEMMA CallEnds ==
  ASSUME ExchInv, CallsInv, NEW p \in Users, CallStep(p)
  PROVE  Turned(p)
<1>1. /\ p \in Peers /\ ex[p] \in Exch /\ lib[p] \in User /\ ExOK(ex[p])
      /\ CallOK(ex[p], lib[p]) /\ issued \in Nat /\ ex[p].got \in Got
      /\ LibInv => UserOK(p, ex[p], lib[p])
  BY UserFacts DEF LibInv
<1>2. /\ Elsewhere /\ queue' = queue /\ ex[p].at = "done" /\ Mine(p) = {}
      /\ ex[p].got.n # "none" /\ lib[p].call \in Request
  <2>1. ex[p].at = "done"
    BY DEF CallStep, VersionChecked, CallReturns
  <2> QED BY <1>1, <2>1, NoneOpen DEF CallStep, ExOK, CallOK
<1>3. Owns(p, Nothing.id) /\ 0 <= issued
  BY <1>1, Values, ZeroID DEF ExchInv, Owns
<1>4. Idle \in Exch /\ Idle.at = "idle" /\ Idle.got = Nothing
  BY Values DEF Idle
<1>5. ExOK(Idle)
  BY <1>3, <1>4, Values DEF ExOK
<1>6. ASSUME NEW res \in {"ERR", "EVERSION"}, Return(p, res) PROVE Turned(p)
  <2> DEFINE u == [lib[p] EXCEPT !.result = res]
  <2>1. /\ u \in User /\ u.call = lib[p].call /\ u.result = res /\ u.clientID = lib[p].clientID
        /\ lib' = [lib EXCEPT ![p] = u] /\ ex' = [ex EXCEPT ![p] = Idle]
    BY <1>1, <1>6 DEF User, Results, Return, CallsInv
  <2> HIDE DEF u
  <2>2. CallOK(Idle, u)
    BY <1>1, <1>4, <2>1 DEF CallOK
  <2>3. LibInv => UserOK(p, Idle, u)
    BY <1>1, <1>3, <1>4, <2>1, Values DEF UserOK, Settled, Agreed
  <2> QED BY <1>2, <1>4, <1>5, <2>1, <2>2, <2>3, TurnStep
<1>7. CASE ex' = [ex EXCEPT ![p] = Begin(lib[p].call)] /\ lib' = lib
  <2>1. PICK e \in Exch : /\ e = Begin(lib[p].call) /\ e.at = "connect" /\ e.req = lib[p].call
                          /\ e.got = Nothing /\ ex' = [ex EXCEPT ![p] = e]
    BY <1>2, <1>7, Values
  <2>2. ExOK(e) /\ CallOK(e, lib[p])
    BY <1>1, <1>2, <1>3, <2>1, Values DEF ExOK, CallOK
  <2>3. LibInv => UserOK(p, e, lib[p])
    BY <1>1, <1>2, <1>3, <2>1, Values DEF UserOK, CallOK, Settled, Agreed
  <2>4. lib' = [lib EXCEPT ![p] = lib[p]]
    BY <1>7 DEF CallsInv
  <2> QED BY <1>1, <1>2, <2>1, <2>2, <2>3, <2>4, TurnStep
<1>8. CASE CallReturns(p)
  <2> DEFINE got == ex[p].got
             res == ResultOf(got)
             id == IF lib[p].call.cmd = "REGISTER" /\ res = "OK" THEN got.id ELSE lib[p].clientID
             u == [lib[p] EXCEPT !.result = res, !.clientID = id]
  <2>1. res \in Results \ {"none"} /\ (res = "OK" => got.ans \in {"OK", "OK id"})
    BY <1>1, <1>2, Outcomes
  <2>2. got.id \in Nat /\ got.id <= issued /\ lib[p].clientID \in Nat
    BY <1>1 DEF Got, ExOK, User
  <2>3. id \in Nat /\ id <= issued
    BY <1>1, <2>2 DEF CallOK
  <2>4. /\ lib' = [lib EXCEPT ![p] = u] /\ ex' = [ex EXCEPT ![p] = Idle]
    BY <1>1, <1>8 DEF CallReturns, CallsInv
  <2>5. u \in User /\ u.call = lib[p].call /\ u.result = res /\ u.clientID = id
    BY <1>1, <2>1, <2>3 DEF User
  <2> HIDE DEF u, res
  <2>6. CallOK(Idle, u)
    BY <1>1, <1>4, <2>3, <2>5 DEF CallOK
  <2>7. ASSUME LibInv PROVE UserOK(p, Idle, u)
    <3>1. Owns(p, id)
      BY <1>1, <2>7 DEF UserOK
    <3>2. res = "OK" => Agreed(ex[p], lib[p]) /\ id = TheID(ex[p], lib[p])
      BY <1>2, <2>1 DEF Agreed, TheID
    <3>3. id = lib[p].clientID \/ NoneQueued(p)
      BY <1>1, <2>7, <3>2 DEF UserOK, Settled
    <3>4. SentOK(p, id)
      BY <1>1, <2>7, <3>3 DEF UserOK, SentOK, NoneQueued
    <3>5. Settled(p, Idle, u)
      <4> SUFFICES ASSUME Agreed(Idle, u) PROVE Settled(p, Idle, u)
        BY DEF Settled
      <4>1. res = "OK"
        BY <1>4, <2>5, Values DEF Agreed
      <4>2. TheID(Idle, u) = id
        BY <1>4, <2>5 DEF TheID
      <4> QED BY <1>1, <2>5, <2>7, <3>2, <4>1, <4>2 DEF UserOK, Settled
    <3> QED BY <1>3, <1>4, <2>5, <3>1, <3>4, <3>5 DEF UserOK
  <2> QED BY <1>2, <1>4, <1>5, <2>4, <2>5, <2>6, <2>7, TurnStep
<1> QED BY <1>6, <1>7, <1>8 DEF CallStep, VersionChecked

----------------------------------------------------------------------------
(* What the daemon tells the library *)

\* The answers, and what they leave in the table.  The ID of PING and UNREGISTER is the
\* sender's own.
Kept(q) ==
  /\ \A p \in Peers, id \in Nat : id <= issued /\ Owns(p, id) => Owns(p, id)'
  /\ \A p \in Peers, id \in Nat : p # q /\ Has(p, id) => Has(p, id)'

Truthful(q, r) ==
  /\ reply'.ans \in Answers /\ reply'.id \in Nat /\ reply'.id <= issued'
  /\ Owns(q, reply.id)'
  /\ reply'.ans = "OK id" => r.cmd = "REGISTER" /\ Has(q, reply.id)'
  /\ reply'.ans = "OK" => \/ r.cmd = "PING" /\ Has(q, r.id)'
                          \/ r.cmd = "UNREGISTER" /\ SlotsByID(r.id)' = {}

\* A slot that REGISTER fills has an ID that was nobody's: a new one or an announced one.
LEMMA RegisterTold ==
  ASSUME Urandom, DaemonInv, DaemonInv', NEW q \in Peers, NEW r \in Request, RegisterOK(q, r)
  PROVE  Kept(q) /\ Truthful(q, r)
<1>1. PICK s \in Slots : \E i \in RegisteredID(s) :
        /\ FirstOf(s, SlotsByName(r.name))
        /\ clients' = [clients EXCEPT ![s] = Registered(r, q, i)]
        /\ issued' = Drawn(i)
        /\ Answer(q, "OK id", i)
  BY DEF RegisterOK
<1>2. PICK i \in RegisteredID(s) :
        /\ FirstOf(s, SlotsByName(r.name))
        /\ clients' = [clients EXCEPT ![s] = Registered(r, q, i)]
        /\ issued' = Drawn(i)
        /\ Answer(q, "OK id", i)
  BY <1>1
<1>3. /\ issued \in Nat /\ issued' \in Nat /\ clients \in [Slots -> Client]
      /\ clients[s].clientID \in Nat /\ ~clients[s].active
  <2>1. s \in SlotsByName(r.name)
    BY <1>2 DEF FirstOf
  <2> QED BY <2>1, FoundByName DEF DaemonInv, DaemonTypes, TableTypeOK, Client
<1>4. /\ clients'[s].active /\ clients'[s].pid = q /\ clients'[s].clientID = i
      /\ \A t \in Slots \ {s} : clients'[t] = clients[t]
  BY <1>2, <1>3 DEF Registered
<1>5. i \in Nat /\ (i > issued \/ (s \in SlotsByID(i) /\ clients[s].anounced))
  <2>1. CASE clients[s].anounced
    BY <1>2, <1>3, <2>1 DEF RegisteredID, SlotsByID, Live
  <2>2. CASE ~clients[s].anounced
    BY <1>2, <1>3, <2>2, DrawnIDs DEF RegisteredID
  <2> QED BY <2>1, <2>2
<1>6. reply'.ans = "OK id" /\ reply'.id = i
  BY <1>2 DEF Answer
<1>7. s \in LiveSlots' /\ i <= issued'
  BY <1>4 DEF LiveSlots, Live, DaemonInv, IDsIssued
<1>8. ASSUME NEW t \in Slots, Live(clients'[t]), clients'[t].clientID = i PROVE t = s
  <2>1. t \in LiveSlots'
    BY <1>8 DEF LiveSlots
  <2> QED BY <1>4, <1>7, <1>8, <2>1 DEF DaemonInv, LiveIDsDistinct
<1>9. Owns(q, i)' /\ Has(q, i)'
  BY <1>4, <1>8 DEF Owns, Has, SlotsByID
<1>10. Truthful(q, r)
  BY <1>5, <1>6, <1>7, <1>9 DEF Truthful, Answers, RegisterOK, Owns, Has, SlotsByID
<1>11. ASSUME NEW p \in Peers, NEW id \in Nat, id <= issued, Owns(p, id) PROVE Owns(p, id)'
  <2>1. i # id
    BY <1>3, <1>5, <1>11 DEF Owns
  <2>2. ASSUME NEW t \in Slots, Live(clients'[t]), clients'[t].clientID = id
        PROVE  clients'[t].active /\ clients'[t].pid = p
    <3>1. t # s
      BY <1>4, <2>1, <2>2
    <3>2. clients'[t] = clients[t]
      BY <1>4, <3>1
    <3> QED BY <1>11, <2>2, <3>2 DEF Owns, SlotsByID
  <2> QED BY <2>2 DEF Owns, SlotsByID
<1>12. ASSUME NEW p \in Peers, NEW id \in Nat, Has(p, id) PROVE Has(p, id)'
  BY <1>3, <1>4, <1>12 DEF Has
<1> QED BY <1>10, <1>11, <1>12 DEF Kept

\* PING and the answers that change nothing in the table.
LEMMA PingTold ==
  ASSUME DaemonInv, DaemonInv', NEW q \in Peers, NEW r \in Request,
         r.cmd = "PING" => Owns(q, r.id), PingOK(q, r)
  PROVE  Kept(q) /\ Truthful(q, r)
<1>1. Unchanged /\ issued' = issued
  BY PingEffect DEF DaemonInv, DaemonTypes, Unchanged
<1>2. \A s \in Slots : /\ clients'[s].active = clients[s].active
                       /\ clients'[s].pid = clients[s].pid
                       /\ clients'[s].clientID = clients[s].clientID
                       /\ clients'[s].anounced = clients[s].anounced
  BY <1>1 DEF Unchanged, SameClient
<1>3. Kept(q)
  BY <1>2 DEF Kept, Owns, Has, SlotsByID, Live
<1>4. reply'.ans = "OK" /\ reply'.id = 0 /\ r.cmd = "PING"
  BY DEF PingOK, Answer
<1>5. PICK s \in Slots : s \in SlotsByID(r.id)
  BY DEF PingOK, FirstOf
<1>6. Has(q, r.id)
  BY <1>4, <1>5 DEF Owns, Has, SlotsByID
<1>7. Has(q, r.id)'
  BY <1>2, <1>6 DEF Has
<1>8. Owns(q, reply.id)' /\ issued' \in Nat
  BY <1>4, ZeroIDNext DEF Owns, SlotsByID
<1> QED BY <1>3, <1>4, <1>7, <1>8 DEF Truthful, Answers

\* UNREGISTER removes the one slot with the ID, which is the sender's.
LEMMA UnregisterTold ==
  ASSUME DaemonInv, DaemonInv', NEW q \in Peers, NEW r \in Request,
         r.cmd = "UNREGISTER" => Owns(q, r.id), UnregisterOK(q, r)
  PROVE  Kept(q) /\ Truthful(q, r)
<1>1. PICK s \in Slots : FirstOf(s, SlotsByID(r.id)) /\ Left(s)
  BY LeaveEffect DEF DaemonInv, DaemonTypes
<1>2. /\ s \in SlotsByID(r.id) /\ issued' = issued
      /\ ~clients'[s].active /\ ~clients'[s].anounced
      /\ \A t \in Slots \ {s} : clients'[t] = clients[t]
  BY <1>1 DEF FirstOf, Left, OthersKept
<1>3. reply'.ans = "OK" /\ reply'.id = 0 /\ r.cmd = "UNREGISTER"
  BY DEF UnregisterOK, Answer
<1>4. clients[s].active /\ clients[s].pid = q
  BY <1>2, <1>3 DEF Owns
<1>5. ASSUME NEW p \in Peers, NEW id \in Nat, Owns(p, id) PROVE Owns(p, id)'
  <2>1. ASSUME NEW t \in Slots, Live(clients'[t]), clients'[t].clientID = id
        PROVE  clients'[t].active /\ clients'[t].pid = p
    <3>1. t # s
      BY <1>2, <2>1 DEF Live
    <3>2. clients'[t] = clients[t]
      BY <1>2, <3>1
    <3> QED BY <1>5, <2>1, <3>2 DEF Owns, SlotsByID
  <2> QED BY <2>1 DEF Owns, SlotsByID
<1>6. ASSUME NEW p \in Peers, NEW id \in Nat, p # q, Has(p, id) PROVE Has(p, id)'
  BY <1>2, <1>4, <1>6 DEF Has
<1>7. (SlotsByID(r.id))' = {}
  <2>1. ASSUME NEW t \in Slots, Live(clients'[t]), clients'[t].clientID = r.id PROVE FALSE
    <3>1. t # s
      BY <1>2, <2>1 DEF Live
    <3>2. clients'[t] = clients[t]
      BY <1>2, <3>1
    <3>3. t \in LiveSlots /\ s \in LiveSlots
      BY <1>2, <2>1, <3>2 DEF LiveSlots, SlotsByID
    <3> QED BY <1>2, <2>1, <3>1, <3>2, <3>3 DEF DaemonInv, LiveIDsDistinct, SlotsByID
  <2> QED BY <2>1 DEF SlotsByID
<1>8. Owns(q, reply.id)' /\ issued' \in Nat
  BY <1>3, ZeroIDNext DEF Owns, SlotsByID
<1>9. Truthful(q, r)
  BY <1>3, <1>7, <1>8 DEF Truthful, Answers
<1>10. Kept(q)
  BY <1>5, <1>6 DEF Kept
<1> QED BY <1>9, <1>10

\* The other answers are refusals and reports.
LEMMA OthersTold ==
  ASSUME DaemonInv, DaemonInv', NEW q \in Peers, NEW r, clients' = clients, issued' = issued,
         NEW a \in Answers \ {"OK", "OK id"}, Answer(q, a, 0)
  PROVE  Kept(q) /\ Truthful(q, r)
<1>1. Kept(q)
  BY DEF Kept, Owns, Has, SlotsByID, Live
<1>2. reply'.ans = a /\ reply'.id = 0
  BY DEF Answer
<1>3. Owns(q, reply.id)' /\ issued' \in Nat /\ 0 <= issued'
  BY <1>2, ZeroIDNext DEF Owns, SlotsByID
<1>4. a \in Answers /\ a # "OK" /\ a # "OK id"
  BY Zenon
<1>5. reply'.ans \in Answers
  BY <1>2, <1>4
<1>6. reply'.id \in Nat
  <2>1. 0 \in Nat
    OBVIOUS
  <2> QED BY <1>2, <2>1, Zenon
<1>7. reply'.id <= issued'
  BY <1>2, <1>3
<1>8. Truthful(q, r)
  BY <1>2, <1>3, <1>4, <1>5, <1>6, <1>7 DEF Truthful
<1> QED BY <1>1, <1>8

\* Every answer is true of the table it leaves.
LEMMA CommandTold ==
  ASSUME Urandom, DaemonInv, DaemonInv', NEW q \in Peers, NEW r \in Request,
         r.cmd \in {"PING", "UNREGISTER"} => Owns(q, r.id), handle_command(q, r)
  PROVE  Kept(q) /\ Truthful(q, r)
<1>1. ASSUME NEW a \in Answers \ {"OK", "OK id"}, Say(q, a)
      PROVE  Kept(q) /\ Truthful(q, r)
  BY <1>1, OthersTold DEF Say
<1>2. CASE RebootOK(q, r)
  BY <1>2, OthersTold DEF RebootOK, Answers
<1>3. CASE RegisterRefused(q, r) \/ PingRefused(q, r) \/ UnregisterRefused(q, r)
             \/ Report(q, r)
  BY <1>1, <1>3 DEF RegisterRefused, PingRefused, UnregisterRefused, Report, Answers
<1>4. CASE RegisterOK(q, r)
  BY <1>4, RegisterTold
<1>5. CASE PingOK(q, r)
  BY <1>5, PingTold
<1>6. CASE UnregisterOK(q, r)
  BY <1>6, UnregisterTold
<1> QED BY <1>2, <1>3, <1>4, <1>5, <1>6 DEF handle_command

\* What an answer that says OK must be true of.
TruthOf(c, got) ==
  /\ got.ans = "OK id" => c.req.cmd = "REGISTER" /\ Has(c.proc, got.id)'
  /\ got.ans = "OK" => \/ c.req.cmd = "PING" /\ Has(c.proc, c.req.id)'
                       \/ c.req.cmd = "UNREGISTER" /\ (SlotsByID(c.req.id))' = {}

\* What is said of the process that is answered.
LEMMA IsAnswered ==
  ASSUME LibInv, IDsPersist, NEW c \in Conn, c.proc \in Users, NEW got, GivenTo(c, got),
         Kept(c.proc), Owns(c.proc, got.id)', TruthOf(c, got), lib' = lib
  PROVE  UserOK(c.proc, ex[c.proc], lib[c.proc])'
<1>0. ExchInv /\ CallsInv
  BY DEF LibInv
<1>1. PICK q \in Users : q = c.proc /\ q \in Peers
  BY LibAssumption
<1>2. PICK u \in User : /\ u = lib[q] /\ UserOK(q, ex[q], u) /\ u.clientID \in Nat
                        /\ ExOK(ex[q]) /\ CallOK(ex[q], u)
  BY <1>0, UserFacts DEF LibInv
<1>3. PICK e : e = ex'[q] /\ e.at = ex[q].at /\ e.req = ex[q].req /\ e.got = got
  BY <1>1 DEF GivenTo
<1>4. NoneQueued(q)' /\ Waits(c)
  BY <1>1 DEF GivenTo
<1>5. /\ e.at # "idle" /\ c.req \in {NoReq, e.req}
      /\ u.call \in Request /\ u.result = "none"
      /\ e.req = u.call \/ (u.call.cmd = "REGISTER" /\ e.req = [cmd |-> "VERSION"])
  BY <1>1, <1>2, <1>3, <1>4 DEF Waits, ExOK, CallOK
<1>6. u.clientID <= issued
  BY <1>2 DEF CallOK
<1>7. SentOK(q, u.clientID)'
  BY <1>4 DEF SentOK, NoneQueued
<1>8. Owns(q, u.clientID)' /\ Owns(q, e.got.id)'
  BY <1>1, <1>2, <1>3, <1>6 DEF UserOK, Kept
<1>9. c.req.cmd \in {"REGISTER", "PING", "UNREGISTER"} => c.req = u.call
  BY <1>5 DEF NoReq
<1>10. u.call.cmd \in {"PING", "UNREGISTER"} => u.call.id = u.clientID
  BY <1>2 DEF CallOK
<1>11. Settled(q, e, u)'
  <2>1. CASE got.ans = "OK id"
    <3>1. u.call.cmd = "REGISTER" /\ Has(q, got.id)' /\ TheID(e, u) = got.id
      BY <1>1, <1>3, <1>5, <1>9, <2>1 DEF TruthOf, TheID
    <3>2. Watched(q, TheID(e, u))'
      BY <3>1 DEF Watched, TheID
    <3> QED BY <1>4, <3>1, <3>2 DEF Settled
  <2>2. CASE got.ans = "OK"
    <3>1. CASE c.req.cmd = "PING" /\ Has(c.proc, c.req.id)'
      <4>1. u.call.cmd = "PING" /\ Has(q, u.clientID)' /\ TheID(e, u) = u.clientID
        BY <1>1, <1>9, <1>10, <3>1 DEF TheID
      <4>2. Watched(q, TheID(e, u))'
        BY <4>1 DEF Watched, TheID
      <4> QED BY <1>4, <4>1, <4>2 DEF Settled
    <3>2. CASE c.req.cmd = "UNREGISTER" /\ (SlotsByID(c.req.id))' = {}
      <4>1. u.call.cmd = "UNREGISTER" /\ (SlotsByID(u.clientID))' = {}
        BY <1>9, <1>10, <3>2
      <4> QED BY <1>4, <4>1 DEF Settled
    <3> QED BY <2>2, <3>1, <3>2 DEF TruthOf
  <2>3. CASE got.ans \notin {"OK", "OK id"}
    BY <1>3, <1>5, <2>3 DEF Settled, Agreed
  <2> QED BY <2>1, <2>2, <2>3
<1>12. UserOK(q, e, u)'
  BY <1>7, <1>8, <1>11 DEF UserOK
<1>13. ex'[q] = e /\ lib'[q] = u
  BY <1>2, <1>3
<1> QED BY <1>1, <1>12, <1>13 DEF UserOK, SentOK, Owns, Settled, Agreed, TheID

\* A command that is served leaves everybody's exchange about what it was about.
LEMMA ServedExchanges ==
  ASSUME NEW c \in Conn, Serves(c), NEW q \in Peers
  PROVE  ex'[q].req = ex[q].req /\ (ex'[q].at = "idle" <=> ex[q].at = "idle")
BY DEF Serves, Follows, GivenTo

\* A request of an application is served.
LEMMA LibServed ==
  ASSUME Urandom, LibInv, Serve, lib' = lib
  PROVE  LibInv'
<1>0. ExchInv /\ CallsInv /\ Strangers /\ UNCHANGED <<broker, base>>
  BY DEF LibInv, Serve
<1>1. ExchInv' /\ IDsPersist /\ \E c \in Conn : Serves(c)
  BY <1>0, DaemonServes
<1>2. PICK c \in Conn : Serves(c)
  BY <1>1
<1>3. /\ 1 \in DOMAIN queue /\ queue[1] = c /\ c.proc \in Peers /\ c.req \in Request
      /\ handle_command(c.proc, c.req)
      /\ \A q \in Peers : ~(c.open /\ q = c.proc) => Follows(q)
      /\ c.open => GivenTo(c, Answered)
  BY <1>2 DEF Serves
<1>4. c.proc \in Users
  BY <1>0, <1>3 DEF Strangers, NoneQueued
<1>5. c.req.cmd \in {"PING", "UNREGISTER"} => Owns(c.proc, c.req.id)
  BY <1>3, <1>4 DEF LibInv, UserOK, SentOK, Owns
<1>6. Kept(c.proc) /\ Truthful(c.proc, c.req)
  BY <1>0, <1>1, <1>3, <1>5, CommandTold DEF ExchInv
<1>7. CallsInv'
  BY <1>0, <1>1, <1>2, ServedExchanges, SameCalls, LibAssumption
<1>8. Strangers'
  BY <1>0, <1>3, <1>4, StillStrangers
<1>9. ASSUME NEW q \in Users PROVE UserOK(q, ex[q], lib[q])'
  <2>1. CASE c.open /\ q = c.proc
    <3>0. Answered.ans = reply'.ans /\ Answered.id = reply'.id
      BY DEF Answered
    <3>1. PICK got : got = Answered /\ got.ans = reply'.ans /\ got.id = reply'.id
      BY <3>0
    <3>2. Owns(c.proc, got.id)' /\ TruthOf(c, got)
      BY <1>6, <3>1 DEF Truthful, TruthOf, Owns, Has, SlotsByID
    <3>3. GivenTo(c, got)
      BY <1>3, <2>1, <3>1
    <3>4. UserOK(c.proc, ex[c.proc], lib[c.proc])'
      BY <1>1, <1>4, <1>6, <3>2, <3>3, IsAnswered
    <3> QED BY <2>1, <3>4
  <2>2. CASE ~(c.open /\ q = c.proc)
    <3>1. q \in Peers /\ Follows(q) /\ lib'[q] = lib[q]
      BY <1>3, <2>2, LibAssumption
    <3>2. NoneQueued(q) => q # c.proc
      BY <1>3 DEF NoneQueued
    <3>3. Steady(q)
      BY <1>0, <1>6, <3>1, <3>2 DEF Steady, Kept, Watched
    <3> QED BY <1>1, <3>1, <3>3, UserFollows
  <2> QED BY <2>1, <2>2
<1> QED BY <1>1, <1>7, <1>8, <1>9 DEF LibInv

\* A daemon that is gone or has been started again knows none of the IDs drawn before.
LEMMA SteadyForgets ==
  ASSUME ExchInv, Dies \/ Restart
  PROVE  \A q : Steady(q)
<1>1. DaemonInv' /\ issued \in Nat
  BY DeadTable, RestartTable DEF ExchInv, DaemonInv, DaemonTypes, TableTypeOK
<1>2. ASSUME NEW id \in Nat, id <= issued
      PROVE  (SlotsByID(id))' = {} /\ ~(id > base' /\ broker' # "down")
  <2>1. CASE Dies
    <3>1. \A s \in Slots : ~Live(clients'[s])
      BY <2>1 DEF Dies, EmptyClient, Live
    <3> QED BY <2>1, <3>1 DEF Dies, SlotsByID
  <2>2. CASE Restart
    <3>1. base' = issued
      BY <2>2 DEF Restart
    <3>2. ASSUME NEW s \in Slots, Live(clients'[s]), clients'[s].clientID = id PROVE FALSE
      <4>1. s \in LiveSlots'
        BY <3>2 DEF LiveSlots
      <4>2. id > issued
        BY <1>1, <3>1, <3>2, <4>1 DEF DaemonInv, IDsSinceStart
      <4> QED BY <1>1, <1>2, <4>2
    <3>3. ~(id > base')
      BY <1>1, <1>2, <3>1
    <3> QED BY <3>2, <3>3 DEF SlotsByID
  <2> QED BY <2>1, <2>2
<1> QED BY <1>2 DEF Steady, Owns, Watched

\* Whatever else the daemon does or suffers.
LEMMA LibFaults ==
  ASSUME LibInv, GiveUp \/ DaemonFault, lib' = lib
  PROVE  LibInv'
<1>0. ExchInv /\ CallsInv /\ Strangers
  BY DEF LibInv
<1>1. ExchInv' /\ IDsPersist /\ \A q \in Peers : Follows(q)
  BY <1>0, DaemonFaults
<1>2. \A q : Steady(q)
  <2>1. CASE GiveUp \/ ResetPending
    <3>1. UNCHANGED <<clients, base>> /\ (broker # "down" \/ broker' = "down")
      BY <2>1 DEF GiveUp, NoInput, Say, ResetPending, tableVars
    <3> QED BY <3>1, SteadyTable
  <2> QED BY <1>0, <2>1, SteadyForgets DEF DaemonFault
<1>3. CallsInv'
  BY <1>0, <1>1, SameCalls, LibAssumption DEF Follows
<1>4. ASSUME NEW q \in Users PROVE UserOK(q, ex[q], lib[q])'
  BY <1>1, <1>2, LibAssumption, UserFollows
<1> QED BY <1>0, <1>1, <1>3, <1>4, StillStrangers DEF LibInv

\* A process goes on with its exchange.
LEMMA LibGoesOn ==
  ASSUME LibInv, NEW p \in Users, PeerStep(p), lib' = lib
  PROVE  LibInv'
<1>0. ExchInv /\ CallsInv /\ Strangers /\ p \in Peers
  BY LibAssumption DEF LibInv
<1>1. ExchInv' /\ \A q \in Peers : Follows(q)
  BY <1>0, PeerGoesOn
<1>2. IDsPersist /\ UNCHANGED <<clients, base>> /\ (broker # "down" \/ broker' = "down")
  BY <1>0, PeersKeepIDs DEF PeerStep
<1>3. CallsInv'
  BY <1>0, <1>1, <1>2, SameCalls, LibAssumption DEF Follows
<1>4. ASSUME NEW q \in Users PROVE UserOK(q, ex[q], lib[q])'
  BY <1>1, <1>2, SteadyTable, LibAssumption, UserFollows
<1> QED BY <1>0, <1>1, <1>3, <1>4, StillStrangers DEF LibInv

\* Nobody has connected yet, and the table is that of the config file.
LEMMA ExchInitial ==
  ASSUME Urandom, ExchangeInit
  PROVE  ExchInv
<1>1. /\ IDInv /\ issued \in Nat /\ base = 0 /\ broker = "serving" /\ version \in Versions
      /\ restarts = 0 /\ queue = << >> /\ ex = [p \in Peers |-> Idle]
  BY IDInit DEF ExchangeInit, IDInv, TableTypeOK
<1>2. IDsSinceStart
  <2>1. PICK cfg \in Configs, ann \in Announcements : parse_config(cfg, ann)
    BY DEF ExchangeInit, TableInit
  <2>2. Len(ann) \in Nat
    BY <2>1, TableAssumption
  <2>3. PICK ids \in [1 .. Len(ann) -> 1 .. Len(ann)] :
          clients = [s \in Slots |-> IF s <= Len(ann) THEN AnnouncedClient(ann[s], ids[s])
                                     ELSE EmptyClient]
    BY <2>1 DEF parse_config
  <2>4. ASSUME NEW s \in LiveSlots PROVE clients[s].clientID > 0
    <3>0. s \in Slots /\ Live(clients[s])
      BY DEF LiveSlots
    <3>1. s \in Slots /\ s \in Nat /\ s > 0 /\ s <= Len(ann)
      <4>1. s \in Nat /\ s > 0
        BY <3>0, Sizes DEF Slots
      <4>2. ~Live(EmptyClient)
        BY DEF Live, EmptyClient
      <4>3. s <= Len(ann)
        BY <2>3, <3>0, <4>2
      <4> QED BY <3>0, <4>1, <4>3
    <3>2. clients[s].clientID = ids[s]
      BY <2>3, <3>1 DEF AnnouncedClient, EmptyClient
    <3>3. ids[s] \in 1 .. Len(ann)
      BY <2>2, <3>1
    <3> QED BY <2>2, <3>2, <3>3
  <2> QED BY <1>1, <2>4 DEF IDsSinceStart
<1>3. DaemonInv
  BY <1>1, <1>2, ExchangeAssumption DEF DaemonInv, DaemonTypes, IDInv
<1>4. queue \in Seq(Conn) /\ Len(queue) <= QueueMax /\ DOMAIN queue = {}
  BY <1>1, ExchangeAssumption
<1>5. Idle.at = "idle" /\ Idle.got = Nothing
  BY DEF Idle
<1>6. \A p \in Peers : ExOK(ex[p])
  BY <1>1, <1>5, Values DEF ExOK
<1> QED BY <1>1, <1>3, <1>4, <1>6, Values DEF ExchInv, LinkInv, LastOpen, OpenWaits

\* No application has called yet.
LEMMA LibInitial ==
  ASSUME Urandom, LibInit
  PROVE  LibInv
<1>1. /\ ExchInv /\ queue = << >> /\ ex = [p \in Peers |-> Idle]
      /\ lib = [p \in Users |-> FreshClient]
  BY ExchInitial DEF LibInit, ExchangeInit
<1>2. FreshClient \in User /\ FreshClient.clientID = 0 /\ FreshClient.call.cmd = "nothing"
      /\ FreshClient.result = "none"
  BY DEF FreshClient, User, Results, NoReq
<1>3. Idle.at = "idle" /\ Idle.got = Nothing /\ DOMAIN queue = {}
  BY <1>1 DEF Idle
<1>4. SlotsByID(0) = {} /\ issued \in Nat /\ 0 <= issued
  BY <1>1, ZeroID DEF ExchInv, DaemonInv, DaemonTypes, TableTypeOK
<1>5. ASSUME NEW p \in Users PROVE UserOK(p, ex[p], lib[p]) /\ CallOK(ex[p], lib[p])
  <2>1. ex[p] = Idle /\ lib[p] = FreshClient
    BY <1>1, LibAssumption
  <2>2. Owns(p, 0) /\ SentOK(p, 0)
    BY <1>3, <1>4 DEF Owns, SentOK
  <2> QED BY <1>2, <1>3, <1>4, <2>1, <2>2, Values DEF UserOK, CallOK, Settled, Agreed
<1> QED BY <1>1, <1>2, <1>3, <1>5 DEF LibInv, CallsInv, Strangers, NoneQueued

\* Where nothing happens.
LEMMA ExchStutters ==
  ASSUME ExchInv, UNCHANGED <<tableVars, exchangeVars>>
  PROVE  ExchInv' /\ IDsPersist /\ \A q \in Peers : Follows(q)
<1>1. /\ UNCHANGED <<config, clients, issued, running, reboot, reply>>
      /\ UNCHANGED <<clients, issued>>
      /\ UNCHANGED <<broker, version, base, restarts, queue, ex>>
  BY DEF tableVars, exchangeVars
<1>2. DaemonInv'
  <2>1. IDsIssued' /\ LiveIDsDistinct' /\ IDsSinceStart'
    BY <1>1 DEF ExchInv, DaemonInv, IDsIssued, LiveIDsDistinct, IDsSinceStart, LiveSlots, Live
  <2>2. DaemonTypes'
    BY <1>1 DEF ExchInv, DaemonInv, DaemonTypes, TableTypeOK
  <2> QED BY <2>1, <2>2 DEF DaemonInv
<1>3. LinkInv'
  BY <1>1 DEF ExchInv, LinkInv, LastOpen, OpenWaits, Waits, ExOK
<1>4. \A q \in Peers : Follows(q)
  BY <1>1, StandsStill DEF NothingNew
<1> QED BY <1>1, <1>2, <1>3, <1>4, QuietTable DEF ExchInv

\* Every step of an application, the library, the daemon or fate keeps the invariant.
LEMMA LibStep ==
  ASSUME Urandom, LibInv, [LibNext]_libVars
  PROVE  LibInv'
<1>0. ExchInv /\ CallsInv
  BY DEF LibInv
<1>1. ASSUME NEW p \in Users, Call(p) \/ CallStep(p) PROVE LibInv'
  BY <1>0, <1>1, CallBegins, CallEnds DEF Turned
<1>2. ASSUME NEW p \in Users, PeerStep(p), lib' = lib PROVE LibInv'
  BY <1>2, LibGoesOn
<1>3. CASE (DaemonStep \/ DaemonFault) /\ lib' = lib
  BY <1>3, LibServed, LibFaults DEF DaemonStep
<1>4. CASE UNCHANGED libVars
  <2>1. /\ UNCHANGED <<tableVars, exchangeVars>> /\ lib' = lib
        /\ UNCHANGED <<clients, base>> /\ (broker # "down" \/ broker' = "down")
    BY <1>4 DEF libVars, tableVars, exchangeVars
  <2>2. ExchInv' /\ IDsPersist /\ \A q \in Peers : Follows(q)
    BY <1>0, <2>1, ExchStutters
  <2>3. CallsInv'
    BY <1>0, <2>1, <2>2, SameCalls, LibAssumption DEF Follows
  <2>4. ASSUME NEW q \in Users PROVE UserOK(q, ex[q], lib[q])'
    BY <2>1, <2>2, SteadyTable, LibAssumption, UserFollows
  <2> QED BY <2>2, <2>3, <2>4, StillStrangers DEF LibInv
<1> QED BY <1>1, <1>2, <1>3, <1>4 DEF LibNext, Proceed

\* As an invariant of the library with its daemon.
LEMMA LibInvariant ==
  ASSUME Urandom
  PROVE  LibSpec => []LibInv
<1>1. LibInit => LibInv
  BY LibInitial
<1>2. LibInv /\ [LibNext]_libVars => LibInv'
  BY LibStep
<1> QED BY <1>1, <1>2, PTL DEF LibSpec

\* The exchanges, the queue and the library's state keep their types, with any number of
\* applications, queue length and number of restarts.
THEOREM LibTypeCorrect ==
  ASSUME Urandom
  PROVE  LibSpec => []LibTypeOK
<1>1. LibInv => LibTypeOK
  <2> SUFFICES ASSUME LibInv PROVE LibTypeOK
    OBVIOUS
  <2>0. ExchInv /\ CallsInv
    BY DEF LibInv
  <2>1. ASSUME NEW p \in Peers
        PROVE  ex[p].at \in {"idle", "connect", "blocked", "write", "read", "done"}
    BY <2>0, PeerFacts DEF Exch
  <2>2. ASSUME NEW p \in Users PROVE lib[p].result \in Results /\ lib[p].clientID \in 0 .. issued
    BY <2>0, UserFacts DEF User, CallOK
  <2>3. base \in 0 .. issued
    BY <2>0 DEF ExchInv, DaemonInv, DaemonTypes, TableTypeOK
  <2> QED
    BY <2>0, <2>1, <2>2, <2>3 DEF LibTypeOK, ExchInv, DaemonInv, DaemonTypes, LinkInv
<1> QED BY <1>1, LibInvariant, PTL

\* After a registration or a ping that returned OK the client is watched, whatever requests
\* of calls that had given up were still in the queue.
THEOREM SuccessIsWatched ==
  ASSUME Urandom
  PROVE  LibSpec => []SuccessMeansWatched
<1>1. LibInv => SuccessMeansWatched
  <2> SUFFICES ASSUME LibInv, NEW p \in Users,
                      Succeeded(p, "REGISTER") \/ Succeeded(p, "PING"),
                      lib[p].clientID > base, broker # "down"
               PROVE  Has(p, lib[p].clientID)
    BY DEF SuccessMeansWatched, Has
  <2>1. /\ lib[p].result = "OK" /\ ex[p].at = "idle" /\ lib[p].call.cmd \in {"REGISTER", "PING"}
        /\ UserOK(p, ex[p], lib[p])
    BY DEF Succeeded, Returned, LibInv
  <2> QED BY <2>1 DEF UserOK, Settled, Agreed, Watched, TheID
<1> QED BY <1>1, LibInvariant, PTL

\* After an unregistration that returned OK the ID stays unknown for ever.
THEOREM SuccessIsGone ==
  ASSUME Urandom
  PROVE  LibSpec => []SuccessMeansGone
<1>1. LibInv => SuccessMeansGone
  BY DEF SuccessMeansGone, Succeeded, LibInv, UserOK, Settled, Agreed
<1> QED BY <1>1, LibInvariant, PTL

----------------------------------------------------------------------------
(* wd-ctrl, next to applications that use the library *)

Invocation ==
  [pc : {"none", "status", "command", "exited"}, args : Commands \cup {[cmd |-> "none"]},
   id_candidate : Nat, buf : Answers \cup {"none"}, exit : {"none", "success", "failure"}]

Rebooted == reboot \/ restarts > 0

\* The ID is one that was drawn and, if it still names a client, the one asked for.
Asked(id, a) ==
  \A s \in SlotsByID(id) : a.name = clients[s].name \/ a.id = clients[s].clientID

\* A row of the STATUS answer never comes to stand for another client.
RowsTrue(rows) ==
  \A r \in rows : /\ r.id > 0 /\ r.id <= issued
                  /\ \A s \in SlotsByID(r.id) : clients[s].name = r.name

\* The only UNREGISTER that is sent names the ID found.
SentByCtrl(c, k) ==
  \A i \in DOMAIN queue : queue[i].proc = c /\ queue[i].req.cmd = "UNREGISTER" =>
    k.id_candidate # 0 /\ queue[i].req.id = k.id_candidate

\* Answers that start with OK are true, from when they are given.
AnswerTrue(e) ==
  /\ e.got.ans = "OK" => e.req.cmd = "UNREGISTER" /\ SlotsByID(e.req.id) = {}
  /\ e.got.ans = "OK seconds" => e.req.cmd = "REBOOT" /\ Rebooted
  /\ RowsTrue(e.got.rows)

\* Where wd-ctrl is: which exchange, for which command.
StageOK(e, k) ==
  /\ e.at # "idle" <=> k.pc \in {"status", "command"}
  /\ k.pc \in {"none", "status"} => k.id_candidate = 0
  /\ k.pc # "none" => k.args \in Commands
  /\ k.pc = "status" => e.req = [cmd |-> "STATUS"]
  /\ k.pc = "command" =>
       /\ k.buf \notin {"OK", "OK seconds"}
       /\ \/ k.args.cmd = "reboot" /\ e.req = [cmd |-> "REBOOT"]
          \/ /\ k.args.cmd = "unregister" /\ k.id_candidate # 0
             /\ e.req = [cmd |-> "UNREGISTER", id |-> k.id_candidate]
  /\ k.exit = "success" => k.pc = "exited"

ReportTrue(k) ==
  k.exit = "success" =>
    /\ k.args.cmd = "unregister" => k.id_candidate # 0 /\ SlotsByID(k.id_candidate) = {}
    /\ k.args.cmd = "reboot" => Rebooted

FoundOK(k) ==
  /\ k.id_candidate <= issued
  /\ k.id_candidate # 0 => k.args.cmd = "unregister" /\ Asked(k.id_candidate, k.args)

CtrlOK(c, e, k) ==
  StageOK(e, k) /\ FoundOK(k) /\ SentByCtrl(c, k) /\ AnswerTrue(e) /\ ReportTrue(k)

CtrlInv ==
  /\ ExchInv /\ CallsInv
  /\ ctrl \in [Ctrls -> Invocation]
  /\ \A c \in Ctrls : CtrlOK(c, ex[c], ctrl[c])

\* What is known of an invocation.
LEMMA CtrlFacts ==
  ASSUME CtrlInv, NEW c \in Ctrls
  PROVE  /\ c \in Peers /\ c \in Root /\ c \notin Users
         /\ ctrl[c] \in Invocation /\ CtrlOK(c, ex[c], ctrl[c]) /\ ctrl[c].id_candidate \in Nat
         /\ ex[c] \in Exch /\ ExOK(ex[c]) /\ ex[c].got \in Got /\ issued \in Nat
<1>1. c \in Peers /\ c \in Root /\ c \notin Users
  BY CtrlAssumption
<1> QED BY <1>1, PeerFacts DEF CtrlInv, Invocation

\* What was asked for, and reported, stays true as IDs are not used again.
LEMMA AskedPersists ==
  ASSUME IDsPersist, NEW id \in Nat, id <= issued, NEW a, Asked(id, a)
  PROVE  Asked(id, a)'
<1> SUFFICES ASSUME NEW s \in (SlotsByID(id))'
             PROVE  a.name = clients'[s].name \/ a.id = clients'[s].clientID
  BY DEF Asked
<1>1. s \in SlotsByID(id) /\ clients'[s].name = clients[s].name /\ clients'[s].clientID = id
  BY SlotsPersist DEF SlotsByID
<1> QED BY <1>1 DEF Asked, SlotsByID

\* So do the rows of an answer.
LEMMA RowsPersist ==
  ASSUME IDsPersist, issued \in Nat, NEW rows \in SUBSET Row, RowsTrue(rows)
  PROVE  RowsTrue(rows)'
<1> SUFFICES ASSUME NEW r \in rows
             PROVE  /\ r.id > 0 /\ r.id <= issued'
                    /\ \A s \in (SlotsByID(r.id))' : clients'[s].name = r.name
  BY DEF RowsTrue
<1>1. r.id \in Nat /\ r.id > 0 /\ r.id <= issued
  BY DEF RowsTrue, Row
<1>2. r.id <= issued'
  BY <1>1 DEF IDsPersist
<1> QED BY <1>1, <1>2, SlotsPersist DEF RowsTrue

\* A report and what it is based on.
LEMMA ReportPersists ==
  ASSUME IDsPersist, issued \in Nat, Rebooted => Rebooted', NEW k \in Invocation,
         FoundOK(k), ReportTrue(k)
  PROVE  FoundOK(k)' /\ ReportTrue(k)'
<1>1. k.id_candidate \in Nat /\ k.id_candidate <= issued
  BY DEF Invocation, FoundOK
<1>2. k.id_candidate <= issued'
  BY <1>1 DEF IDsPersist
<1>3. FoundOK(k)'
  <2>1. k.id_candidate # 0 => Asked(k.id_candidate, k.args)'
    BY <1>1, AskedPersists DEF FoundOK
  <2> QED BY <1>2, <2>1 DEF FoundOK, Asked
<1>4. SlotsByID(k.id_candidate) = {} => (SlotsByID(k.id_candidate))' = {}
  BY <1>1, SlotsPersist
<1> QED BY <1>3, <1>4 DEF ReportTrue

\* What wd-ctrl is doing when its exchange is for UNREGISTER.
LEMMA UnregisterStage ==
  ASSUME NEW e, NEW k, StageOK(e, k), e.at # "idle", e.req.cmd = "UNREGISTER"
  PROVE  /\ k.pc = "command" /\ k.args.cmd = "unregister" /\ k.id_candidate # 0
         /\ e.req.id = k.id_candidate
<1>1. k.pc = "status" \/ k.pc = "command"
  BY DEF StageOK
<1>2. e.req # [cmd |-> "STATUS"] /\ e.req # [cmd |-> "REBOOT"]
  OBVIOUS
<1>3. k.pc # "status"
  BY <1>2 DEF StageOK
<1>4. /\ k.args.cmd = "unregister" /\ k.id_candidate # 0
      /\ e.req = [cmd |-> "UNREGISTER", id |-> k.id_candidate]
  BY <1>1, <1>2, <1>3 DEF StageOK
<1> QED BY <1>1, <1>3, <1>4

\* What is said of an invocation whose exchange goes on.
LEMMA CtrlFollows ==
  ASSUME CtrlInv, IDsPersist, Rebooted => Rebooted', NEW c \in Ctrls, Follows(c),
         ctrl'[c] = ctrl[c]
  PROVE  CtrlOK(c, ex[c], ctrl[c])'
<1>1. PICK k \in Invocation : k = ctrl[c] /\ k.id_candidate \in Nat
  BY CtrlFacts
<1>2. PICK o \in Exch : /\ o = ex[c] /\ CtrlOK(c, o, k) /\ ExOK(o) /\ issued \in Nat
                        /\ o.got \in Got
  BY <1>1, CtrlFacts
<1>3. PICK e : /\ e = ex'[c] /\ e.req = o.req /\ (e.at = "idle" <=> o.at = "idle")
               /\ e.got = o.got \/ Unanswered(e.got)
  BY <1>2 DEF Follows
<1>4. StageOK(e, k)
  BY <1>2, <1>3 DEF CtrlOK, StageOK
<1>5. FoundOK(k)' /\ ReportTrue(k)'
  BY <1>1, <1>2, ReportPersists DEF CtrlOK
<1>6. SentByCtrl(c, k)'
  <2> SUFFICES ASSUME NEW j \in DOMAIN queue', queue'[j].proc = c,
                      queue'[j].req.cmd = "UNREGISTER"
               PROVE  k.id_candidate # 0 /\ queue'[j].req.id = k.id_candidate
    BY DEF SentByCtrl
  <2>1. CASE \E i \in DOMAIN queue : queue[i].proc = c /\ queue'[j].req = queue[i].req
    BY <1>2, <2>1 DEF CtrlOK, SentByCtrl
  <2>2. CASE queue'[j].req = NoReq
    BY <2>2 DEF NoReq
  <2>3. CASE queue'[j].req = o.req /\ o.at = "idle"
    <3>1. NothingNew(c)
      BY <1>2, <2>3 DEF Follows
    <3> QED BY <1>2, <3>1 DEF NothingNew, CtrlOK, SentByCtrl
  <2>4. CASE queue'[j].req = o.req /\ o.at # "idle"
    BY <1>2, <2>4, UnregisterStage DEF CtrlOK
  <2>5. \/ queue'[j].req \in {NoReq, o.req}
        \/ \E i \in DOMAIN queue : queue[i].proc = c /\ queue'[j].req = queue[i].req
    BY <1>2 DEF Follows
  <2> QED BY <2>1, <2>2, <2>3, <2>4, <2>5
<1>7. AnswerTrue(e)'
  <2>1. CASE Unanswered(e.got)
    BY <2>1 DEF Unanswered, AnswerTrue, RowsTrue
  <2>2. CASE e.got = o.got
    <3>1. RowsTrue(e.got.rows)'
      <4>1. o.got.rows \in SUBSET Row /\ RowsTrue(o.got.rows)
        BY <1>2 DEF Got, CtrlOK, AnswerTrue
      <4>2. RowsTrue(o.got.rows)'
        BY <1>2, <4>1, RowsPersist
      <4> QED BY <2>2, <4>2 DEF RowsTrue
    <3>2. e.got.ans = "OK" => e.req.cmd = "UNREGISTER" /\ (SlotsByID(e.req.id))' = {}
      <4> SUFFICES ASSUME o.got.ans = "OK"
                   PROVE  o.req.cmd = "UNREGISTER" /\ (SlotsByID(o.req.id))' = {}
        BY <1>3, <2>2
      <4>1. o.req.cmd = "UNREGISTER" /\ SlotsByID(o.req.id) = {}
        BY <1>2 DEF CtrlOK, AnswerTrue
      <4>2. o.at # "idle"
        BY <1>2, Values DEF ExOK
      <4>3. o.req.id = k.id_candidate
        BY <1>2, <4>1, <4>2, UnregisterStage DEF CtrlOK
      <4>4. k.id_candidate <= issued
        BY <1>2 DEF CtrlOK, FoundOK
      <4> QED BY <1>1, <4>1, <4>3, <4>4, SlotsPersist
    <3>3. e.got.ans = "OK seconds" => e.req.cmd = "REBOOT" /\ Rebooted'
      BY <1>2, <1>3, <2>2 DEF CtrlOK, AnswerTrue
    <3> QED BY <3>1, <3>2, <3>3 DEF AnswerTrue
  <2> QED BY <1>3, <2>1, <2>2
<1>8. CtrlOK(c, e, k)'
  BY <1>4, <1>5, <1>6, <1>7 DEF CtrlOK, StageOK
<1>9. ex'[c] = e /\ ctrl'[c] = k
  BY <1>1, <1>3
<1> QED
  BY <1>8, <1>9
  DEF CtrlOK, StageOK, FoundOK, SentByCtrl, AnswerTrue, ReportTrue, Asked, RowsTrue

\* Applications, faults and the daemon at work for others leave every invocation where it is.
LEMMA CtrlStands ==
  ASSUME CtrlInv, ExchInv', CallsInv', IDsPersist, Rebooted => Rebooted', ctrl' = ctrl,
         \A c \in Ctrls : Follows(c)
  PROVE  CtrlInv'
<1>1. ASSUME NEW c \in Ctrls PROVE CtrlOK(c, ex[c], ctrl[c])'
  BY CtrlFollows
<1> QED BY <1>1 DEF CtrlInv

\* Processes do not reboot the system.
LEMMA NoReboot ==
  ASSUME Elsewhere
  PROVE  Rebooted <=> Rebooted'
BY DEF Elsewhere, CloseConnection, Rebooted

\* wd-ctrl begins an exchange, or is done with the last one and exits.
LEMMA CtrlTurns ==
  ASSUME CtrlInv, Elsewhere, queue' = queue, lib' = lib, NEW c \in Ctrls,
         ex[c].at \in {"idle", "done"}, NEW e,
         e = Idle \/ \E r \in Request : e = Begin(r), ex' = [ex EXCEPT ![c] = e],
         NEW k \in Invocation, ctrl' = [ctrl EXCEPT ![c] = k],
         StageOK(e, k), FoundOK(k), SentByCtrl(c, k), ReportTrue(k)
  PROVE  CtrlInv'
<1>0. ExchInv /\ CallsInv /\ c \in Peers /\ c \notin Users
  BY CtrlFacts DEF CtrlInv
<1>1. /\ ExchInv' /\ \A q \in Peers \ {c} : Follows(q)
      /\ ex'[c].got = Nothing
  BY <1>0, PeerTurns
<1>2. IDsPersist /\ UNCHANGED <<clients, issued>> /\ (Rebooted <=> Rebooted')
  BY <1>0, PeersKeepIDs, NoReboot
<1>3. \A q \in Users : q \in Peers /\ q # c
  BY <1>0, LibAssumption
<1>4. CallsInv'
  BY <1>0, <1>1, <1>2, <1>3, SameCalls DEF Follows
<1>5. /\ ctrl' \in [Ctrls -> Invocation] /\ ctrl'[c] = k /\ ex'[c] = e
      /\ \A d \in Ctrls \ {c} : ctrl'[d] = ctrl[d]
  BY <1>0, PeerFacts DEF CtrlInv
<1>6. CtrlOK(c, e, k)'
  <2>1. \A id : (SlotsByID(id))' = SlotsByID(id)
    BY <1>2 DEF SlotsByID, Live
  <2>2. FoundOK(k)' /\ ReportTrue(k)'
    BY <1>2, <2>1 DEF FoundOK, Asked, ReportTrue
  <2>3. AnswerTrue(e)'
    BY <1>1, <1>5, Values DEF AnswerTrue, RowsTrue
  <2> QED BY <2>2, <2>3 DEF CtrlOK, StageOK, SentByCtrl
<1>7. ASSUME NEW d \in Ctrls PROVE CtrlOK(d, ex[d], ctrl[d])'
  <2>1. CASE d = c
    BY <1>5, <1>6, <2>1
    DEF CtrlOK, StageOK, FoundOK, SentByCtrl, AnswerTrue, ReportTrue, Asked, RowsTrue
  <2>2. CASE d # c
    <3>1. Follows(d) /\ ctrl'[d] = ctrl[d]
      BY <1>1, <1>5, <2>2, CtrlFacts
    <3> QED BY <1>2, <3>1, CtrlFollows
  <2> QED BY <2>1, <2>2
<1> QED BY <1>1, <1>4, <1>5, <1>7 DEF CtrlInv

\* The command line is taken up: STATUS first.
LEMMA CtrlInvoked ==
  ASSUME CtrlInv, NEW c \in Ctrls, NEW a \in Commands, Invoke(c, a), Elsewhere,
         queue' = queue, lib' = lib
  PROVE  CtrlInv'
<1>1. PICK o \in Invocation : /\ o = ctrl[c] /\ CtrlOK(c, ex[c], o) /\ o.pc = "none"
  BY CtrlFacts DEF Invoke
<1>2. ex[c].at = "idle" /\ o.id_candidate = 0 /\ o.exit # "success"
  BY <1>1 DEF CtrlOK, StageOK
<1>3. PICK k \in Invocation : /\ k.pc = "status" /\ k.args = a /\ k.id_candidate = 0
                              /\ k.exit # "success" /\ ctrl' = [ctrl EXCEPT ![c] = k]
  <2>1. [o EXCEPT !.pc = "status", !.args = a] \in Invocation
    BY <1>1 DEF Invocation
  <2>2. ctrl' = [ctrl EXCEPT ![c] = [o EXCEPT !.pc = "status", !.args = a]]
    BY <1>1 DEF Invoke, CtrlInv
  <2> QED BY <1>1, <1>2, <2>1, <2>2 DEF Invocation
<1>4. PICK r \in Request : r = [cmd |-> "STATUS"]
  BY DEF Request
<1>5. PICK e : e = Begin(r) /\ e.at = "connect" /\ e.req = r /\ ex' = [ex EXCEPT ![c] = e]
  BY <1>4, Values DEF Invoke
<1>6. StageOK(e, k)
  BY <1>3, <1>4, <1>5 DEF StageOK
<1>7. FoundOK(k) /\ ReportTrue(k)
  BY <1>3, CtrlFacts DEF FoundOK, ReportTrue
<1>8. SentByCtrl(c, k)
  BY <1>1, <1>2, <1>3 DEF CtrlOK, SentByCtrl
<1> QED BY <1>2, <1>3, <1>5, <1>6, <1>7, <1>8, CtrlTurns

\* wd-ctrl exits, and if it reports success the report is true.
LEMMA CtrlExits ==
  ASSUME CtrlInv, NEW c \in Ctrls, NEW status \in {"success", "failure"}, Exit(c, status),
         Elsewhere, queue' = queue, lib' = lib, ex[c].at = "done",
         status = "success" =>
           /\ ctrl[c].args.cmd = "unregister" =>
                ctrl[c].id_candidate # 0 /\ SlotsByID(ctrl[c].id_candidate) = {}
           /\ ctrl[c].args.cmd = "reboot" => Rebooted
  PROVE  CtrlInv'
<1>1. PICK o \in Invocation : o = ctrl[c] /\ CtrlOK(c, ex[c], o)
  BY CtrlFacts
<1>2. o.args \in Commands
  BY <1>1 DEF CtrlOK, StageOK
<1>3. PICK k \in Invocation :
        /\ k.pc = "exited" /\ k.args = o.args /\ k.id_candidate = o.id_candidate
        /\ k.exit = status /\ ctrl' = [ctrl EXCEPT ![c] = k]
  <2>1. [o EXCEPT !.pc = "exited", !.exit = status] \in Invocation
    BY <1>1 DEF Invocation
  <2>2. ctrl' = [ctrl EXCEPT ![c] = [o EXCEPT !.pc = "exited", !.exit = status]]
    BY <1>1 DEF Exit, CtrlInv
  <2> QED BY <1>1, <2>1, <2>2 DEF Invocation
<1>4. ex' = [ex EXCEPT ![c] = Idle] /\ Idle.at = "idle"
  BY DEF Exit, Idle
<1>5. StageOK(Idle, k)
  BY <1>2, <1>3, <1>4 DEF StageOK
<1>6. FoundOK(k) /\ SentByCtrl(c, k)
  BY <1>1, <1>3 DEF CtrlOK, FoundOK, SentByCtrl
<1>7. ReportTrue(k)
  BY <1>1, <1>3 DEF ReportTrue
<1> QED BY <1>3, <1>4, <1>5, <1>6, <1>7, CtrlTurns

\* wd-ctrl sends its command: REBOOT, or UNREGISTER with the ID of a row.
LEMMA CtrlSends ==
  ASSUME CtrlInv, NEW c \in Ctrls, NEW r \in Request, NEW id \in Nat, Send(c, r, id),
         Elsewhere, queue' = queue, lib' = lib, ex[c].at = "done", ctrl[c].pc = "status",
         id <= issued,
         \/ ctrl[c].args.cmd = "reboot" /\ r = [cmd |-> "REBOOT"] /\ id = 0
         \/ /\ ctrl[c].args.cmd = "unregister" /\ r = [cmd |-> "UNREGISTER", id |-> id]
            /\ id # 0 /\ Asked(id, ctrl[c].args)
  PROVE  CtrlInv'
<1>1. PICK o \in Invocation : /\ o = ctrl[c] /\ CtrlOK(c, ex[c], o) /\ o.pc = "status"
                              /\ o.id_candidate = 0 /\ o.args \in Commands
                              /\ o.exit # "success"
  BY CtrlFacts DEF CtrlOK, StageOK
<1>2. /\ ex[c].got \in Got /\ ex[c].req = [cmd |-> "STATUS"]
  BY <1>1, CtrlFacts DEF CtrlOK, StageOK
<1>3. ex[c].got.ans \in Answers \cup {"none"} /\ ex[c].got.ans \notin {"OK", "OK seconds"}
  <2>1. ex[c].req.cmd = "STATUS" /\ AnswerTrue(ex[c])
    BY <1>1, <1>2 DEF CtrlOK
  <2>2. ex[c].got.ans # "OK" /\ ex[c].got.ans # "OK seconds"
    BY <2>1 DEF AnswerTrue
  <2>3. ex[c].got.ans \in Answers \cup {"none"}
    BY <1>2 DEF Got
  <2> QED BY <2>2, <2>3
<1>4. PICK k \in Invocation :
        /\ k.pc = "command" /\ k.args = o.args /\ k.id_candidate = id
        /\ k.buf = ex[c].got.ans /\ k.exit = o.exit /\ ctrl' = [ctrl EXCEPT ![c] = k]
  <2> DEFINE k == [o EXCEPT !.pc = "command", !.id_candidate = id, !.buf = ex[c].got.ans]
  <2>1. k \in Invocation
    BY <1>1, <1>3 DEF Invocation
  <2>2. ctrl' = [ctrl EXCEPT ![c] = k]
    BY <1>1 DEF Send, CtrlInv
  <2> QED BY <1>1, <2>1, <2>2 DEF Invocation
<1>5. PICK e : e = Begin(r) /\ e.at = "connect" /\ e.req = r /\ ex' = [ex EXCEPT ![c] = e]
  BY Values DEF Send
<1>6. StageOK(e, k)
  BY <1>1, <1>3, <1>4, <1>5 DEF StageOK
<1>7. FoundOK(k) /\ ReportTrue(k)
  BY <1>1, <1>4 DEF FoundOK, ReportTrue
<1>8. SentByCtrl(c, k)
  BY <1>1, <1>4 DEF CtrlOK, SentByCtrl
<1> QED BY <1>4, <1>5, <1>6, <1>7, <1>8, CtrlTurns

\* What follows the STATUS answer.
LEMMA CtrlStatus ==
  ASSUME CtrlInv, NEW c \in Ctrls, StatusReceived(c), Elsewhere, queue' = queue, lib' = lib
  PROVE  CtrlInv'
<1>1. /\ ex[c].at = "done" /\ ctrl[c].pc = "status" /\ ctrl[c].args \in Command
      /\ ex[c].got \in Got /\ RowsTrue(ex[c].got.rows) /\ issued \in Nat
  BY CtrlFacts, CtrlAssumption DEF StatusReceived, CtrlOK, StageOK, AnswerTrue
<1>2. CASE Exit(c, "failure")
  BY <1>1, <1>2, CtrlExits
<1>3. CASE Exit(c, "success") /\ ctrl[c].args.cmd = "status"
  BY <1>1, <1>3, CtrlExits
<1>4. CASE ctrl[c].args.cmd = "reboot" /\ Send(c, [cmd |-> "REBOOT"], 0)
  <2>1. [cmd |-> "REBOOT"] \in Request /\ 0 \in Nat /\ 0 <= issued
    BY <1>1 DEF Request
  <2> QED BY <1>1, <1>4, <2>1, CtrlSends
<1>5. ASSUME NEW r \in Matches(c), ctrl[c].args.cmd = "unregister",
             Send(c, [cmd |-> "UNREGISTER", id |-> r.id], r.id)
      PROVE  CtrlInv'
  <2>1. PICK a : a = ctrl[c].args
    OBVIOUS
  <2>2. /\ r \in ex[c].got.rows
        /\ (a.id # 0 /\ r.id = a.id) \/ r.name = a.name
    BY <2>1 DEF Matches
  <2>3. /\ r.id \in Nat /\ r.id # 0 /\ r.id <= issued
        /\ \A s \in SlotsByID(r.id) : clients[s].name = r.name
    <3>1. r \in Row
      BY <1>1, <2>2 DEF Got
    <3>2. r.id \in Nat
      BY <3>1 DEF Row
    <3> QED BY <1>1, <2>2, <3>2 DEF RowsTrue
  <2>4. Asked(r.id, a)
    BY <2>2, <2>3 DEF Asked, SlotsByID
  <2>5. [cmd |-> "UNREGISTER", id |-> r.id] \in Request
    BY <2>3 DEF Request
  <2> QED BY <1>1, <1>5, <2>1, <2>3, <2>4, <2>5, CtrlSends
<1> QED BY <1>2, <1>3, <1>4, <1>5 DEF StatusReceived

\* What follows the answer to the command.
LEMMA CtrlCommand ==
  ASSUME CtrlInv, NEW c \in Ctrls, CommandAnswered(c), Elsewhere, queue' = queue, lib' = lib
  PROVE  CtrlInv'
<1>1. PICK o \in Invocation : /\ o = ctrl[c] /\ CtrlOK(c, ex[c], o)
                              /\ o.pc = "command" /\ ex[c].at = "done"
  BY CtrlFacts DEF CommandAnswered
<1>2. CASE ~Accepted(c) /\ Exit(c, "failure")
  BY <1>1, <1>2, CtrlExits
<1>3. CASE Accepted(c) /\ Exit(c, "success")
  <2>1. /\ o.buf \notin {"OK", "OK seconds"}
        /\ \/ o.args.cmd = "reboot" /\ ex[c].req = [cmd |-> "REBOOT"]
           \/ /\ o.args.cmd = "unregister" /\ o.id_candidate # 0
              /\ ex[c].req = [cmd |-> "UNREGISTER", id |-> o.id_candidate]
    BY <1>1 DEF CtrlOK, StageOK
  <2>2. ex[c].got.ans = "OK" \/ ex[c].got.ans = "OK seconds"
    BY <1>1, <1>3, <2>1 DEF Accepted
  <2>3. \/ ex[c].req.cmd = "UNREGISTER" /\ SlotsByID(ex[c].req.id) = {}
        \/ ex[c].req.cmd = "REBOOT" /\ Rebooted
    BY <1>1, <2>2 DEF CtrlOK, AnswerTrue
  <2>4. CASE o.args.cmd = "reboot" /\ ex[c].req = [cmd |-> "REBOOT"]
    <3>1. Rebooted
      BY <2>3, <2>4
    <3> QED BY <1>1, <1>3, <2>4, <3>1, CtrlExits
  <2>5. CASE /\ o.args.cmd = "unregister" /\ o.id_candidate # 0
             /\ ex[c].req = [cmd |-> "UNREGISTER", id |-> o.id_candidate]
    <3>1. SlotsByID(o.id_candidate) = {}
      BY <2>3, <2>5
    <3> QED BY <1>1, <1>3, <2>5, <3>1, CtrlExits
  <2> QED BY <2>1, <2>4, <2>5
<1> QED BY <1>2, <1>3 DEF CommandAnswered

\* UNREGISTER leaves no client with the ID.
LEMMA UnregisterClears ==
  ASSUME DaemonInv, NEW q, NEW r, UnregisterOK(q, r)
  PROVE  (SlotsByID(r.id))' = {}
<1>1. PICK s \in Slots : FirstOf(s, SlotsByID(r.id)) /\ Left(s)
  BY LeaveEffect DEF DaemonInv, DaemonTypes
<1>2. /\ s \in SlotsByID(r.id)
      /\ ~clients'[s].active /\ ~clients'[s].anounced
      /\ \A t \in Slots \ {s} : clients'[t] = clients[t]
  BY <1>1 DEF FirstOf, Left, OthersKept
<1>3. ASSUME NEW t \in Slots, Live(clients'[t]), clients'[t].clientID = r.id PROVE FALSE
  <2>1. t # s
    BY <1>2, <1>3 DEF Live
  <2>2. clients'[t] = clients[t]
    BY <1>2, <2>1
  <2>3. t \in LiveSlots /\ s \in LiveSlots
    BY <1>2, <1>3, <2>2 DEF LiveSlots, SlotsByID
  <2> QED BY <1>2, <1>3, <2>1, <2>2, <2>3 DEF DaemonInv, LiveIDsDistinct, SlotsByID
<1> QED BY <1>3 DEF SlotsByID

\* The rows of STATUS, when the answer is given.
LEMMA RowsNow ==
  ASSUME DaemonInv, UNCHANGED <<clients, issued>>
  PROVE  RowsTrue(Rows)'
<1> SUFFICES ASSUME NEW r \in Rows'
             PROVE  /\ r.id > 0 /\ r.id <= issued'
                    /\ \A s \in (SlotsByID(r.id))' : clients'[s].name = r.name
  BY DEF RowsTrue
<1>1. PICK s \in LiveSlots : r = [id |-> clients[s].clientID, name |-> clients[s].name]
  BY DEF Rows, LiveSlots, Live
<1>2. r.id = clients[s].clientID /\ r.name = clients[s].name /\ s \in Slots
  BY <1>1 DEF LiveSlots
<1>3. base \in Nat /\ clients[s].clientID \in Nat /\ issued \in Nat
  BY <1>2 DEF DaemonInv, DaemonTypes, TableTypeOK, Client
<1>4. clients[s].clientID > base /\ clients[s].clientID <= issued
  BY <1>1 DEF DaemonInv, IDsSinceStart, IDsIssued
<1>5. r.id > 0 /\ r.id <= issued'
  BY <1>2, <1>3, <1>4
<1>6. ASSUME NEW t \in (SlotsByID(r.id))' PROVE clients'[t].name = r.name
  <2>1. t \in LiveSlots /\ clients[t].clientID = clients[s].clientID
    BY <1>2 DEF SlotsByID, LiveSlots, Live
  <2>2. t = s
    BY <1>1, <2>1 DEF DaemonInv, LiveIDsDistinct
  <2> QED BY <1>2, <2>2
<1> QED BY <1>5, <1>6

\* What commands answer to those of wd-ctrl, and what is true then.
LEMMA CommandTells ==
  ASSUME DaemonInv, NEW q, NEW r, handle_command(q, r), r.cmd # "PING"
  PROVE  /\ reply'.ans = "OK" => r.cmd = "UNREGISTER" /\ (SlotsByID(r.id))' = {}
         /\ reply'.ans = "OK seconds" => r.cmd = "REBOOT" /\ Rebooted'
         /\ reply'.ans = "status" => UNCHANGED <<clients, issued>>
         /\ reboot => reboot'
<1>1. CASE RegisterOK(q, r)
  <2>1. PICK i : Answer(q, "OK id", i) /\ reboot' = reboot
    BY <1>1 DEF RegisterOK
  <2>2. reply'.ans = "OK id"
    BY <2>1 DEF Answer
  <2> QED BY <2>1, <2>2
<1>2. CASE UnregisterOK(q, r)
  <2>1. reply'.ans = "OK" /\ r.cmd = "UNREGISTER" /\ reboot' = reboot
    BY <1>2 DEF UnregisterOK, Answer
  <2> QED BY <1>2, <2>1, UnregisterClears
<1>3. CASE RebootOK(q, r)
  BY <1>3 DEF RebootOK, Answer, Rebooted
<1>4. ASSUME NEW a \in Answers \ {"OK", "OK seconds"}, Say(q, a)
      PROVE  /\ reply'.ans # "OK" /\ reply'.ans # "OK seconds"
             /\ UNCHANGED <<clients, issued, reboot>>
  BY <1>4 DEF Say, Answer
<1>5. CASE RegisterRefused(q, r) \/ PingRefused(q, r) \/ UnregisterRefused(q, r)
             \/ Report(q, r)
  BY <1>4, <1>5 DEF RegisterRefused, PingRefused, UnregisterRefused, Report, Answers
<1> QED BY <1>1, <1>2, <1>3, <1>5 DEF handle_command, PingOK

\* No command takes the reboot back.
LEMMA CommandReboot ==
  ASSUME NEW q, NEW r, handle_command(q, r), restarts' = restarts
  PROVE  Rebooted => Rebooted'
<1>1. reboot => reboot'
  BY DEF handle_command, RegisterOK, RegisterRefused, PingOK, PingRefused, UnregisterOK,
         UnregisterRefused, RebootOK, Report, Say
<1> QED BY <1>1 DEF Rebooted

\* What is said of the invocation that is answered.
LEMMA CtrlAnswered ==
  ASSUME CtrlInv, IDsPersist, Rebooted => Rebooted', NEW d \in Conn, d.proc \in Ctrls,
         d.req \in Request, handle_command(d.proc, d.req), GivenTo(d, Answered), ctrl' = ctrl
  PROVE  CtrlOK(d.proc, ex[d.proc], ctrl[d.proc])'
<1>1. PICK c \in Ctrls : c = d.proc
  OBVIOUS
<1>2. PICK k \in Invocation : k = ctrl[c] /\ CtrlOK(c, ex[c], k) /\ issued \in Nat
  BY CtrlFacts
<1>3. PICK e : e = ex'[c] /\ e.at = ex[c].at /\ e.req = ex[c].req /\ e.got = Answered
  BY <1>1 DEF GivenTo
<1>4. NoneQueued(c)' /\ Waits(d)
  BY <1>1 DEF GivenTo
<1>5. d.req = e.req /\ e.at # "idle"
  <2>1. NoReq \notin Request
    BY DEF NoReq, Request
  <2> QED BY <1>1, <1>3, <1>4, <2>1 DEF Waits
<1>6. StageOK(e, k)
  BY <1>2, <1>3 DEF CtrlOK, StageOK
<1>7. FoundOK(k)' /\ ReportTrue(k)'
  BY <1>2, ReportPersists DEF CtrlOK
<1>8. SentByCtrl(c, k)'
  BY <1>4 DEF SentByCtrl, NoneQueued
<1>9. e.req.cmd # "PING"
  <2>1. k.pc \in {"status", "command"}
    BY <1>5, <1>6 DEF StageOK
  <2>2. \/ e.req = [cmd |-> "STATUS"] \/ e.req = [cmd |-> "REBOOT"]
        \/ e.req = [cmd |-> "UNREGISTER", id |-> k.id_candidate]
    BY <1>6, <2>1 DEF StageOK
  <2> QED BY <2>2
<1>10. AnswerTrue(e)'
  <2>1. /\ reply'.ans = "OK" => d.req.cmd = "UNREGISTER" /\ (SlotsByID(d.req.id))' = {}
        /\ reply'.ans = "OK seconds" => d.req.cmd = "REBOOT" /\ Rebooted'
        /\ reply'.ans = "status" => UNCHANGED <<clients, issued>>
    BY <1>5, <1>9, CommandTells DEF CtrlInv, ExchInv
  <2>2. /\ e.got.ans = reply'.ans
        /\ e.got.rows = IF reply'.ans = "status" THEN Rows ELSE {}
    <3>1. /\ Answered.ans = reply'.ans
          /\ Answered.rows = IF reply'.ans = "status" THEN Rows ELSE {}
      BY DEF Answered
    <3> QED BY <1>3, <3>1
  <2>3. RowsTrue(e.got.rows)'
    <3>1. CASE reply'.ans = "status"
      <4>1. RowsTrue(Rows)' /\ Rows' = Rows
        BY <2>1, <3>1, RowsNow DEF CtrlInv, ExchInv, Rows, LiveSlots, Live
      <4>2. e.got.rows = Rows
        BY <2>2, <3>1
      <4> QED BY <4>1, <4>2 DEF RowsTrue
    <3>2. CASE reply'.ans # "status"
      BY <2>2, <3>2 DEF RowsTrue
    <3> QED BY <3>1, <3>2
  <2>4. e.got.ans = "OK" => e.req.cmd = "UNREGISTER" /\ (SlotsByID(e.req.id))' = {}
    BY <1>5, <2>1, <2>2
  <2> QED BY <1>5, <2>1, <2>2, <2>3, <2>4 DEF AnswerTrue
<1>11. CtrlOK(c, e, k)'
  BY <1>6, <1>7, <1>8, <1>10 DEF CtrlOK, StageOK
<1>12. ex'[c] = e /\ ctrl'[c] = k
  BY <1>2, <1>3
<1> QED
  BY <1>1, <1>11, <1>12
  DEF CtrlOK, StageOK, FoundOK, SentByCtrl, AnswerTrue, ReportTrue, Asked, RowsTrue

\* A request is served, of wd-ctrl or of an application.
LEMMA CtrlServed ==
  ASSUME Urandom, CtrlInv, Serve, lib' = lib, ctrl' = ctrl
  PROVE  CtrlInv'
<1>0. ExchInv /\ CallsInv /\ restarts' = restarts
  BY DEF CtrlInv, Serve
<1>1. ExchInv' /\ IDsPersist /\ \E d \in Conn : Serves(d)
  BY <1>0, DaemonServes
<1>2. PICK d \in Conn : Serves(d)
  BY <1>1
<1>3. /\ d.proc \in Peers /\ d.req \in Request /\ handle_command(d.proc, d.req)
      /\ \A q \in Peers : ~(d.open /\ q = d.proc) => Follows(q)
      /\ d.open => GivenTo(d, Answered)
  BY <1>2 DEF Serves
<1>4. Rebooted => Rebooted'
  BY <1>0, <1>3, CommandReboot
<1>5. CallsInv'
  BY <1>0, <1>1, <1>2, ServedExchanges, SameCalls, LibAssumption
<1>6. ASSUME NEW c \in Ctrls PROVE CtrlOK(c, ex[c], ctrl[c])'
  <2>1. CASE d.open /\ c = d.proc
    <3>1. CtrlOK(d.proc, ex[d.proc], ctrl[d.proc])'
      BY <1>1, <1>3, <1>4, <2>1, CtrlAnswered
    <3> QED BY <2>1, <3>1
  <2>2. CASE ~(d.open /\ c = d.proc)
    <3>1. Follows(c)
      BY <1>3, <2>2, CtrlFacts
    <3> QED BY <1>1, <1>4, <3>1, CtrlFollows
  <2> QED BY <2>1, <2>2
<1> QED BY <1>1, <1>5, <1>6 DEF CtrlInv

\* Whatever else the daemon does or suffers.
LEMMA CtrlFaults ==
  ASSUME CtrlInv, GiveUp \/ DaemonFault, lib' = lib, ctrl' = ctrl
  PROVE  CtrlInv'
<1>0. ExchInv /\ CallsInv
  BY DEF CtrlInv
<1>1. ExchInv' /\ IDsPersist /\ \A q \in Peers : Follows(q)
  BY <1>0, DaemonFaults
<1>2. CallsInv'
  BY <1>0, <1>1, SameCalls, LibAssumption DEF Follows
<1>3. Rebooted => Rebooted'
  <2>1. CASE GiveUp \/ ResetPending \/ Dies
    BY <2>1 DEF GiveUp, NoInput, Say, ResetPending, tableVars, Dies, Rebooted
  <2>2. CASE Restart
    <3>1. restarts \in Nat /\ restarts' = restarts + 1
      BY <1>0, <2>2, ExchangeAssumption DEF Restart, ExchInv, DaemonInv, DaemonTypes
    <3> QED BY <3>1 DEF Rebooted
  <2> QED BY <2>1, <2>2 DEF DaemonFault
<1> QED BY <1>1, <1>2, <1>3, CtrlStands, CtrlFacts

\* A process, of either kind, goes on with its exchange.
LEMMA CtrlGoesOn ==
  ASSUME CtrlInv, NEW p \in Peers, PeerStep(p), lib' = lib, ctrl' = ctrl
  PROVE  CtrlInv'
<1>0. ExchInv /\ CallsInv /\ Elsewhere
  BY DEF CtrlInv, PeerStep
<1>1. ExchInv' /\ \A q \in Peers : Follows(q)
  BY <1>0, PeerGoesOn
<1>2. IDsPersist /\ (Rebooted => Rebooted')
  BY <1>0, PeersKeepIDs, NoReboot
<1>3. CallsInv'
  BY <1>0, <1>1, <1>2, SameCalls, LibAssumption DEF Follows
<1> QED BY <1>1, <1>2, <1>3, CtrlStands, CtrlFacts

\* An application begins or ends a call.
LEMMA CtrlCalls ==
  ASSUME CtrlInv, NEW p \in Users, Call(p) \/ CallStep(p), ctrl' = ctrl
  PROVE  CtrlInv'
<1>0. ExchInv /\ CallsInv /\ Elsewhere
  BY DEF CtrlInv, Call, CallStep
<1>1. ExchInv' /\ CallsInv' /\ \A q \in Peers \ {p} : Follows(q)
  BY <1>0, CallBegins, CallEnds DEF Turned
<1>2. IDsPersist /\ (Rebooted => Rebooted')
  BY <1>0, PeersKeepIDs, NoReboot
<1>3. \A c \in Ctrls : c \in Peers /\ c # p
  BY CtrlFacts
<1> QED BY <1>1, <1>2, <1>3, CtrlStands

\* No process has been invoked yet.
LEMMA CtrlInitial ==
  ASSUME Urandom, CtrlInit
  PROVE  CtrlInv
<1>1. /\ LibInv /\ ExchInv /\ CallsInv
      /\ queue = << >> /\ ex = [p \in Peers |-> Idle] /\ ctrl = [c \in Ctrls |-> NotInvoked]
  BY LibInitial DEF CtrlInit, LibInit, ExchangeInit, LibInv
<1>2. /\ NotInvoked \in Invocation /\ NotInvoked.pc = "none" /\ NotInvoked.exit = "none"
      /\ NotInvoked.id_candidate = 0
  BY DEF NotInvoked, Invocation
<1>3. Idle.at = "idle" /\ Idle.got = Nothing /\ DOMAIN queue = {}
  BY <1>1 DEF Idle
<1>4. issued \in Nat /\ 0 <= issued
  BY <1>1 DEF ExchInv, DaemonInv, DaemonTypes, TableTypeOK
<1>5. ASSUME NEW c \in Ctrls PROVE CtrlOK(c, ex[c], ctrl[c])
  <2>1. ex[c] = Idle /\ ctrl[c] = NotInvoked
    BY <1>1, CtrlAssumption
  <2>2. StageOK(Idle, NotInvoked)
    BY <1>2, <1>3 DEF StageOK
  <2>3. FoundOK(NotInvoked) /\ ReportTrue(NotInvoked)
    BY <1>2, <1>4 DEF FoundOK, ReportTrue
  <2>4. SentByCtrl(c, NotInvoked)
    BY <1>3 DEF SentByCtrl
  <2>5. AnswerTrue(Idle)
    BY <1>3, Values DEF AnswerTrue, RowsTrue
  <2> QED BY <2>1, <2>2, <2>3, <2>4, <2>5 DEF CtrlOK
<1> QED BY <1>1, <1>2, <1>5 DEF CtrlInv

\* Every step of wd-ctrl, of an application, of the daemon or of fate keeps the invariant.
LEMMA CtrlKept ==
  ASSUME Urandom, CtrlInv, [CtrlNext]_ctrlVars
  PROVE  CtrlInv'
<1>1. ASSUME NEW c \in Ctrls, NEW a \in Commands, Invoke(c, a), Elsewhere,
             UNCHANGED <<queue, lib>>
      PROVE  CtrlInv'
  BY <1>1, CtrlInvoked
<1>2. ASSUME NEW c \in Ctrls, CtrlStep(c) PROVE CtrlInv'
  <2>1. CASE /\ StatusReceived(c) \/ CommandAnswered(c)
             /\ Elsewhere /\ UNCHANGED <<queue, lib>>
    BY <2>1, CtrlStatus, CtrlCommand
  <2>2. CASE PeerStep(c) /\ UNCHANGED <<lib, ctrl>>
    BY <2>2, CtrlFacts, CtrlGoesOn
  <2> QED BY <1>2, <2>1, <2>2 DEF CtrlStep
<1>3. CASE LibNext /\ ctrl' = ctrl
  <2>1. ASSUME NEW p \in Users, Call(p) \/ Proceed(p) PROVE CtrlInv'
    BY <1>3, <2>1, CtrlCalls, CtrlGoesOn, LibAssumption DEF Proceed
  <2>2. CASE (DaemonStep \/ DaemonFault) /\ lib' = lib
    BY <1>3, <2>2, CtrlServed, CtrlFaults DEF DaemonStep
  <2> QED BY <1>3, <2>1, <2>2 DEF LibNext
<1>4. CASE UNCHANGED ctrlVars
  <2>1. UNCHANGED <<tableVars, exchangeVars>> /\ lib' = lib /\ ctrl' = ctrl
    BY <1>4 DEF ctrlVars
  <2>2. Rebooted => Rebooted'
    BY <2>1 DEF tableVars, exchangeVars, Rebooted
  <2>3. ExchInv /\ CallsInv
    BY DEF CtrlInv
  <2>4. ExchInv' /\ IDsPersist /\ \A q \in Peers : Follows(q)
    BY <2>1, <2>3, ExchStutters
  <2>5. CallsInv'
    BY <2>1, <2>3, <2>4, SameCalls, LibAssumption DEF Follows
  <2> QED BY <2>1, <2>2, <2>4, <2>5, CtrlStands, CtrlFacts
<1> QED BY <1>1, <1>2, <1>3, <1>4 DEF CtrlNext

\* As an invariant of wd-ctrl, the library and their daemon.
LEMMA CtrlInvariant ==
  ASSUME Urandom
  PROVE  CtrlSpec => []CtrlInv
<1>1. CtrlInit => CtrlInv
  BY CtrlInitial
<1>2. CtrlInv /\ [CtrlNext]_ctrlVars => CtrlInv'
  BY CtrlKept
<1> QED BY <1>1, <1>2, PTL DEF CtrlSpec

\* A client that goes was asked to be removed, where the answer is for wd-ctrl.
LEMMA RemovalAsked ==
  ASSUME CtrlInv, [CtrlNext]_ctrlVars
  PROVE  RemovedAsAskedStep
<1> SUFFICES ASSUME broker' # "down", NEW s \in Slots, NEW c \in Ctrls, Gone(s), reply'.to = c
             PROVE  ctrl[c].args.name = clients[s].name \/ ctrl[c].args.id = clients[s].clientID
  BY DEF RemovedAsAskedStep
<1>1. clients' # clients /\ c # 0 /\ NoReply.to = 0
  BY CtrlFacts, ExchangeAssumption DEF Gone, NoReply
<1>2. ~Elsewhere
  BY <1>1 DEF Elsewhere, CloseConnection
<1>3. ~UNCHANGED ctrlVars
  BY <1>1 DEF ctrlVars, tableVars
<1>4. Serve \/ GiveUp \/ ResetPending \/ Dies \/ Restart
  BY <1>2, <1>3
  DEF CtrlNext, CtrlStep, PeerStep, LibNext, Call, Proceed, CallStep, DaemonStep, DaemonFault
<1>5. ~GiveUp /\ ~ResetPending
  BY <1>1 DEF GiveUp, NoInput, Say, ResetPending, tableVars
<1>6. ~Dies
  BY DEF Dies
<1>7. ~Restart
  BY <1>1 DEF Restart
<1>8. PICK d \in Conn : /\ d = Head(queue) /\ 1 \in DOMAIN queue /\ queue[1] = d
                        /\ handle_command(d.proc, d.req)
  <2>1. Serve
    BY <1>4, <1>5, <1>6, <1>7
  <2>2. queue # << >> /\ queue' = Tail(queue) /\ handle_command(Head(queue).proc, Head(queue).req)
    BY <2>1 DEF Serve
  <2> QED BY <2>2, TailQueue DEF CtrlInv
<1>9. DaemonInv /\ TableTypeOK
  BY DEF CtrlInv, ExchInv, DaemonInv, DaemonTypes
<1>10. UnregisterOK(d.proc, d.req)
  <2>1. ~RegisterOK(d.proc, d.req)
    <3> SUFFICES ASSUME RegisterOK(d.proc, d.req) PROVE FALSE
      OBVIOUS
    <3>1. PICK t \in Slots : \E i : clients' = [clients EXCEPT ![t] = Registered(d.req, d.proc, i)]
      BY DEF RegisterOK
    <3>2. clients'[t].active /\ \A u \in Slots \ {t} : clients'[u] = clients[u]
      BY <1>9, <3>1 DEF TableTypeOK, Registered
    <3> QED BY <3>2 DEF Gone, Live
  <2>2. ~PingOK(d.proc, d.req)
    BY <1>9, PingEffect DEF Gone, Live, Unchanged, SameClient
  <2>3. ~RebootOK(d.proc, d.req)
    BY <1>1 DEF RebootOK
  <2>4. \A a : ~Say(d.proc, a)
    BY <1>1 DEF Say
  <2> QED
    BY <1>8, <2>1, <2>2, <2>3, <2>4
    DEF handle_command, RegisterRefused, PingRefused, UnregisterRefused, Report
<1>11. d.proc = c /\ d.req.cmd = "UNREGISTER"
  BY <1>10 DEF UnregisterOK, Answer
<1>12. s \in SlotsByID(d.req.id)
  <2>1. PICK t \in Slots : FirstOf(t, SlotsByID(d.req.id)) /\ Left(t)
    BY <1>9, <1>10, LeaveEffect
  <2>2. s = t
    BY <2>1 DEF Left, OthersKept, Gone
  <2> QED BY <2>1, <2>2 DEF FirstOf
<1>13. PICK k \in Invocation : k = ctrl[c] /\ FoundOK(k) /\ SentByCtrl(c, k)
  BY CtrlFacts DEF CtrlOK
<1>14. k.id_candidate # 0 /\ d.req.id = k.id_candidate
  BY <1>8, <1>11, <1>13 DEF SentByCtrl
<1>15. Asked(k.id_candidate, k.args)
  BY <1>13, <1>14 DEF FoundOK
<1> QED BY <1>12, <1>13, <1>14, <1>15 DEF Asked

\* wd-ctrl removes nobody but the client it was asked to remove, however late its UNREGISTER is
\* served and whoever has its slot by then.
THEOREM RemovesAsAsked ==
  ASSUME Urandom
  PROVE  CtrlSpec => RemovedAsAsked
<1>1. CtrlInv /\ [CtrlNext]_ctrlVars => RemovedAsAskedStep
  BY RemovalAsked
<1> QED BY <1>1, CtrlInvariant, PTL DEF CtrlSpec, RemovedAsAsked

\* "unregistered successfully" is reported only when the client is gone for good.
THEOREM UnregisterReported ==
  ASSUME Urandom
  PROVE  CtrlSpec => []UnregisterReportTrue
<1>1. CtrlInv => UnregisterReportTrue
  BY DEF CtrlInv, CtrlOK, ReportTrue, UnregisterReportTrue, Succeeds
<1> QED BY <1>1, CtrlInvariant, PTL

\* "Reboot failsafe activated" is reported only when the daemon had REBOOT in hand.
THEOREM RebootReported ==
  ASSUME Urandom
  PROVE  CtrlSpec => []RebootReportTrue
<1>1. CtrlInv => RebootReportTrue
  BY DEF CtrlInv, CtrlOK, ReportTrue, RebootReportTrue, Succeeds, Rebooted
<1> QED BY <1>1, CtrlInvariant, PTL

=============================================================================
