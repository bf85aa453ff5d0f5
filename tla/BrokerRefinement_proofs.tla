----------------------- MODULE BrokerRefinement_proofs -----------------------
(***************************************************************************)
(* Broker implements Supervisor, for any client table, timeouts, stalls    *)
(* and failing calls, and what Supervisor promises is so promised by       *)
(* Broker.                                                                 *)
(***************************************************************************)
EXTENDS Broker_proofs, BrokerRefinement

\* Requests are served only as long as no miss was seen.
ServingInv == pc \in {"select", "accept", "read"} => all_ok

----------------------------------------------------------------------------
(* The mapping *)

\* A place whose slot is not in use is not counted.
LEMMA MappedAt ==
  ASSUME NEW s \in Slots
  PROVE  /\ SupAge[s] = IF s \in LiveSlots THEN clients[s].age ELSE 0
         /\ SupDue[s] = IF s \in LiveSlots THEN clients[s].timeout_ms ELSE 0
BY DEF SupAge, SupDue, Watched, LiveSlots

\* What leaves the table alone leaves the members alone.
LEMMA MappedSame ==
  ASSUME clients' = clients
  PROVE  UNCHANGED <<LiveSlots, SupAge, SupDue>>
BY DEF SupAge, SupDue, Watched, LiveSlots

\* The initial states are initial states of the supervisor.
LEMMA RefInit == BrokerInit => Sup!SupInit
<1> SUFFICES ASSUME BrokerInit PROVE Sup!SupInit
  OBVIOUS
<1>1. \A s \in Slots : clients[s].age = 0
  <2>1. PICK cfg \in Configs, ann \in Announcements : parse_config(cfg, ann)
    BY DEF BrokerInit, TableInit
  <2>2. PICK ids :
          clients = [s \in Slots |-> IF s <= Len(ann) THEN AnnouncedClient(ann[s], ids[s])
                                     ELSE EmptyClient]
    BY <2>1 DEF parse_config
  <2> QED BY <2>2 DEF AnnouncedClient, EmptyClient
<1>2. SupAge = [s \in Slots |-> 0]
  BY <1>1 DEF SupAge
<1>3. SupDue \in [Slots -> 0 .. TimeoutMax]
  <2>1. \A s \in Slots : clients[s].timeout_ms \in 0 .. TimeoutMax /\ 0 \in 0 .. TimeoutMax
    BY BaseInit, ClientNumbers, Sizes DEF BaseInv, BrokerTypeOK
  <2> QED BY <2>1 DEF SupDue
<1>4. LiveSlots \in SUBSET Slots /\ \A s \in Slots : s \notin LiveSlots => SupDue[s] = 0
  BY MappedAt DEF LiveSlots
<1>5. Told = "no" /\ GaveUp = FALSE
  BY DEF BrokerInit, TableInit, Told, GaveUp, Ended
<1> QED BY <1>2, <1>3, <1>4, <1>5 DEF Sup!SupInit, BrokerInit

----------------------------------------------------------------------------
(* The steps *)

\* A step that only moves main() is not seen.
LEMMA Unseen ==
  ASSUME clients' = clients, running' = running, reboot' = reboot, GaveUp' = GaveUp,
         UNCHANGED <<wd_armed, wd_left, hw_reset>>
  PROVE  UNCHANGED Sup!supVars
BY MappedSame DEF Sup!supVars, Told

\* Giving up is one step of the supervisor, if there is a reason to.
LEMMA GivesUp ==
  ASSUME clients' = clients, running' = running, reboot' = reboot, ~hw_reset,
         ~GaveUp, GaveUp', UNCHANGED <<wd_armed, wd_left, hw_reset>>,
         Faults # {} \/ \E s \in Slots : Missed(clients[s])
  PROVE  Sup!SupNext
<1>1. UNCHANGED <<LiveSlots, SupAge, SupDue, Told>>
  BY MappedSame DEF Told
<1>2. Faults # {} \/ \E s \in Slots : Sup!Late(s)
  <2> SUFFICES ASSUME NEW s \in Slots, Missed(clients[s]) PROVE Sup!Late(s)
    OBVIOUS
  <2> QED BY MappedAt DEF Sup!Late, Missed, LiveSlots
<1>3. GaveUp' = TRUE
  BY DEF GaveUp
<1>4. Sup!GiveUp
  BY <1>1, <1>2, <1>3 DEF Sup!GiveUp, Sup!dogVars
<1> QED BY <1>4 DEF Sup!SupNext

\* What the supervisor sees of a command on slot s.
LEMMA MappedOne ==
  ASSUME NEW s \in Slots, OthersKept(s)
  PROVE  /\ SupAge' = [SupAge EXCEPT ![s] = SupAge'[s]]
         /\ SupDue' = [SupDue EXCEPT ![s] = SupDue'[s]]
         /\ LiveSlots' = IF Live(clients'[s]) THEN LiveSlots \cup {s} ELSE LiveSlots \ {s}
<1>1. \A t \in Slots : t # s => SupAge'[t] = SupAge[t] /\ SupDue'[t] = SupDue[t]
  BY DEF OthersKept, SupAge, SupDue, Watched
<1>2. SupAge' = [SupAge EXCEPT ![s] = SupAge'[s]]
  <2>1. SupAge = [t \in Slots |-> SupAge[t]] /\ SupAge' = [t \in Slots |-> SupAge'[t]]
    BY DEF SupAge
  <2> QED BY <1>1, <2>1
<1>3. SupDue' = [SupDue EXCEPT ![s] = SupDue'[s]]
  <2>1. SupDue = [t \in Slots |-> SupDue[t]] /\ SupDue' = [t \in Slots |-> SupDue'[t]]
    BY DEF SupDue
  <2> QED BY <1>1, <2>1
<1>4. LiveSlots' = IF Live(clients'[s]) THEN LiveSlots \cup {s} ELSE LiveSlots \ {s}
  BY DEF LiveSlots, OthersKept
<1> QED BY <1>2, <1>3, <1>4

\* Commands: one member joins, is heard of or leaves, the supervisor is told to reboot the
\* system, or nothing changes.
LEMMA CommandStep ==
  ASSUME BaseInv, BaseInv', ~GaveUp, ~GaveUp', ~hw_reset, UNCHANGED wdVars,
         NEW p \in Procs, NEW r \in Requests, handle_command(p, r)
  PROVE  [Sup!SupNext]_(Sup!supVars)
<1>t. TableTypeOK
  BY DEF BaseInv, BrokerTypeOK
<1>w. UNCHANGED <<wd_armed, wd_left, hw_reset>>
  BY DEF wdVars
<1>g. GaveUp' = GaveUp /\ UNCHANGED Sup!dogVars
  BY <1>w DEF GaveUp, Sup!dogVars
<1>1. CASE RegisterOK(p, r)
  <2>1. PICK s \in Slots, id \in Nat : Joined(s, r.name, id) /\ clients'[s].age = 0
    BY <1>t, <1>1, JoinEffect
  <2>2. OthersKept(s) /\ Live(clients'[s]) /\ s \in LiveSlots'
    BY <2>1 DEF Joined, Live, LiveSlots
  <2>3. SupAge'[s] = 0 /\ SupDue'[s] = clients'[s].timeout_ms
    BY <2>1, <2>2 DEF SupAge, SupDue, Watched
  <2>4. clients'[s].timeout_ms \in 1 .. TimeoutMax
    <3>1. PICK t \in Slots : \E i \in RegisteredID(t) :
            clients' = [clients EXCEPT ![t] = Registered(r, p, i)]
      BY <1>1 DEF RegisterOK
    <3>2. PICK i \in RegisteredID(t) : clients' = [clients EXCEPT ![t] = Registered(r, p, i)]
      BY <3>1
    <3>3. clients'[t] = Registered(r, p, i) /\ clients'[t].timeout_ms = UInt(r.timeout)
      BY <1>t, <3>2 DEF TableTypeOK, Registered
    <3>4. r.cmd = "REGISTER" /\ TimeoutInRange(UInt(r.timeout))
      BY <1>1 DEF RegisterOK
    <3>5. UInt(r.timeout) \in 1 .. TimeoutMax
      BY <3>4, RegisterFields, UIntInRange, Sizes, TableAssumption DEF TimeoutInRange
    <3>6. CASE t = s
      BY <3>3, <3>5, <3>6
    <3>7. CASE t # s
      <4>1. clients'[t] = clients[t] /\ clients'[s] = clients[s]
        BY <1>t, <2>2, <3>2, <3>7 DEF OthersKept, TableTypeOK
      <4>2. clients'[s].active /\ ~clients[s].active
        BY <2>1, FoundByName DEF Joined
      <4> QED BY <4>1, <4>2
    <3> QED BY <3>6, <3>7
  <2>5. Sup!Join(s, clients'[s].timeout_ms)
    <3>1. LiveSlots' = LiveSlots \cup {s} /\ SupAge' = [SupAge EXCEPT ![s] = 0]
          /\ SupDue' = [SupDue EXCEPT ![s] = clients'[s].timeout_ms]
      BY <2>2, <2>3, MappedOne
    <3>2. Told' = Told
      BY <1>1 DEF RegisterOK, Told
    <3> QED BY <1>g, <3>1, <3>2 DEF Sup!Join
  <2> QED BY <2>4, <2>5 DEF Sup!SupNext
<1>2. CASE PingOK(p, r)
  <2>1. PICK s \in Slots :
          FirstOf(s, SlotsByID(r.id)) /\ clients' = [clients EXCEPT ![s].age = 0]
    BY <1>2 DEF PingOK
  <2>2. OthersKept(s) /\ s \in LiveSlots
    BY <1>t, <2>1 DEF OthersKept, TableTypeOK, FirstOf, SlotsByID, LiveSlots
  <2>3. SameClient(s) /\ clients'[s].age = 0
    <3>1. clients[s] \in Client /\ clients'[s] = [clients[s] EXCEPT !.age = 0]
      BY <1>t, <2>1 DEF TableTypeOK
    <3> QED BY <3>1 DEF Client, SameClient
  <2>4. Live(clients'[s])
    BY <2>2, <2>3 DEF SameClient, LiveSlots, Live
  <2>5. SupAge'[s] = 0 /\ SupDue'[s] = SupDue[s]
    BY <2>2, <2>3, <2>4 DEF SupAge, SupDue, Watched, SameClient, LiveSlots
  <2>6. Sup!Hear(s)
    <3>1. LiveSlots' = LiveSlots /\ SupAge' = [SupAge EXCEPT ![s] = 0]
      BY <2>2, <2>4, <2>5, MappedOne
    <3>2. SupDue' = SupDue
      <4>1. SupDue' = [SupDue EXCEPT ![s] = SupDue[s]]
        BY <2>2, <2>5, MappedOne
      <4> QED BY <4>1 DEF SupDue
    <3>3. Told' = Told
      BY <1>2 DEF PingOK, Told
    <3> QED BY <1>g, <2>2, <3>1, <3>2, <3>3 DEF Sup!Hear
  <2> QED BY <2>6 DEF Sup!SupNext
<1>3. CASE UnregisterOK(p, r)
  <2>1. PICK s \in Slots : FirstOf(s, SlotsByID(r.id)) /\ Left(s)
    BY <1>t, <1>3, LeaveEffect
  <2>2. OthersKept(s) /\ s \in LiveSlots /\ ~Live(clients'[s])
    BY <2>1 DEF Left, FirstOf, SlotsByID, LiveSlots, Live
  <2>3. SupAge'[s] = 0 /\ SupDue'[s] = 0
    BY <2>2 DEF SupAge, SupDue, Watched
  <2>4. Sup!Leave(s)
    <3>1. /\ LiveSlots' = LiveSlots \ {s} /\ SupAge' = [SupAge EXCEPT ![s] = 0]
          /\ SupDue' = [SupDue EXCEPT ![s] = 0]
      BY <2>2, <2>3, MappedOne
    <3>2. Told' = Told
      BY <1>3 DEF UnregisterOK, Told
    <3> QED BY <1>g, <2>2, <3>1, <3>2 DEF Sup!Leave
  <2> QED BY <2>4 DEF Sup!SupNext
<1>4. CASE RebootOK(p, r)
  <2>1. UNCHANGED <<LiveSlots, SupAge, SupDue>>
    BY <1>4, MappedSame DEF RebootOK
  <2>2. Told' = "reboot"
    BY <1>4 DEF RebootOK, Told
  <2>3. CASE reboot
    <3>1. Told = "reboot"
      BY <2>3 DEF Told
    <3> QED BY <1>g, <2>1, <2>2, <3>1 DEF Sup!supVars, Sup!dogVars
  <2>4. CASE ~reboot
    <3>1. Told # "reboot"
      BY <2>4 DEF Told
    <3>2. Sup!Tell("reboot")
      BY <1>g, <2>1, <2>2, <3>1 DEF Sup!Tell
    <3> QED BY <3>2 DEF Sup!SupNext
  <2> QED BY <2>3, <2>4
<1>5. ASSUME NEW a, Say(p, a) PROVE UNCHANGED Sup!supVars
  BY <1>5, <1>w, <1>g, Unseen DEF Say
<1>6. CASE RegisterRefused(p, r) \/ PingRefused(p, r) \/ UnregisterRefused(p, r) \/ Report(p, r)
  BY <1>5, <1>6 DEF RegisterRefused, PingRefused, UnregisterRefused, Report
<1> QED BY <1>1, <1>2, <1>3, <1>4, <1>6 DEF handle_command

\* The feed comes right after the look at the clients.
LEMMA FeedStep ==
  ASSUME BaseInv, CheckInv, ~hw_reset, Feed
  PROVE  [Sup!SupNext]_(Sup!supVars)
<1>1. /\ pc = "feed" /\ pc' = "loop" /\ all_ok' = all_ok
      /\ clients' = clients /\ running' = running /\ reboot' = reboot
      /\ wd_armed' = wd_armed /\ hw_reset' = hw_reset
  BY DEF Feed, tableVars
<1>2. GaveUp' = GaveUp
  BY <1>1 DEF GaveUp, Ended
<1>3. CASE wd_left' = wd_left
  BY <1>1, <1>2, <1>3, Unseen
<1>4. CASE wd_left' # wd_left
  <2>1. MayFeed /\ wd_left' = WdTimeout
    BY <1>1, <1>4 DEF Feed, BaseInv, Situation, Ended
  <2>2. ~GaveUp /\ all_ok
    BY <1>1, <2>1 DEF GaveUp, MayFeed, Ended
  <2>3. \A s \in LiveSlots : SupAge[s] <= SupDue[s] + MaxStall
    BY <1>1, <2>2, HealthyAtFeed, MappedAt DEF LiveSlots
  <2>4. UNCHANGED <<LiveSlots, SupAge, SupDue, Told>>
    BY <1>1, MappedSame DEF Told
  <2>5. Sup!Feed
    BY <1>1, <1>2, <2>1, <2>2, <2>3, <2>4 DEF Sup!Feed
  <2> QED BY <2>5 DEF Sup!SupNext
<1> QED BY <1>3, <1>4

\* The way out is the supervisor's, and only when it was told.
LEMMA StopStep ==
  ASSUME BaseInv, ~hw_reset, Stop
  PROVE  Sup!SupNext
<1>1. pc = "stop" /\ ~running /\ wd_timeout = WdTimeout
  BY DEF Stop, BaseInv, Situation, Ended
<1>2. /\ pc' \in Ended
      /\ UNCHANGED <<clients, running, reboot, hw_reset>>
  BY DEF Stop, RebootFailsafe, Disarm, End, tableVars, Ended
<1>3. GaveUp' = TRUE
  BY <1>2 DEF GaveUp
<1>4. Told # "no" /\ (Told = "reboot" <=> reboot)
  BY <1>1 DEF Told
<1>5. wd_armed' \in {wd_armed, wd_armed /\ Told = "reboot"}
  <2>1. CASE wd_armed' = wd_armed
    BY <2>1
  <2>2. CASE wd_armed' = FALSE /\ ~reboot
    BY <1>4, <2>2, Zenon
  <2> QED BY <2>1, <2>2 DEF Stop, RebootFailsafe, Disarm, KeepArmed
<1>6. wd_timeout' \in {WdTimeout, RebootTimeout}
  BY <1>1 DEF Stop, RebootFailsafe, Disarm
<1>7. wd_left' \in {wd_left, WdTimeout, RebootTimeout}
  BY <1>1, <1>6 DEF Stop, RebootFailsafe, Disarm
<1>8. UNCHANGED <<LiveSlots, SupAge, SupDue, Told>>
  BY <1>2, MappedSame DEF Told
<1>9. Sup!Finish
  BY <1>2, <1>3, <1>4, <1>5, <1>7, <1>8 DEF Sup!Finish
<1> QED BY <1>9 DEF Sup!SupNext

\* SIGINT and SIGTERM.
LEMMA SignalStep ==
  ASSUME BaseInv, ~hw_reset, Signal
  PROVE  Sup!SupNext
<1>1. /\ UNCHANGED <<pc, all_ok, clients, reboot, wd_armed, wd_left, hw_reset>>
      /\ running /\ ~running'
  BY DEF Signal, signal_handler, loopVars, wdVars
<1>2. ~reboot
  BY <1>1 DEF BaseInv, Situation
<1>3. Told = "no" /\ Told' = "stop"
  BY <1>1, <1>2 DEF Told
<1>4. UNCHANGED <<LiveSlots, SupAge, SupDue, GaveUp>>
  BY <1>1, MappedSame DEF GaveUp
<1>5. Sup!Tell("stop")
  BY <1>1, <1>3, <1>4 DEF Sup!Tell, Sup!dogVars
<1> QED BY <1>5 DEF Sup!SupNext

\* Time passes alike for the clients in the table, the members and the watchdog.
LEMMA TickStep ==
  ASSUME BaseInv, NoSpuriousReset', ~hw_reset, Tick
  PROVE  Sup!SupNext
<1>t. TableTypeOK
  BY DEF BaseInv, BrokerTypeOK
<1>1. /\ UNCHANGED <<pc, all_ok, running, reboot, wd_armed>>
      /\ IF wd_armed THEN wd_left' = wd_left - 1 /\ hw_reset' = (wd_left = 1)
                     ELSE UNCHANGED <<wd_left, hw_reset>>
  BY DEF Tick, TimePasses, tableVars, WatchdogTick
<1>2. Told' = Told /\ GaveUp' = GaveUp
  BY <1>1 DEF Told, GaveUp
<1>3. hw_reset' => GaveUp
  BY <1>1 DEF NoSpuriousReset, GaveUp
<1>4. /\ LiveSlots' = LiveSlots /\ SupDue' = SupDue
      /\ SupAge' = Sup!Older \/ (Told # "no" /\ GaveUp /\ SupAge' = SupAge)
  <2>1. CASE pc = "exited"
    <3>1. clients' = clients
      BY <2>1 DEF Tick, tableVars
    <3>2. Told # "no" /\ GaveUp
      BY <2>1 DEF BaseInv, Situation, Told, GaveUp, Ended
    <3> QED BY <3>1, <3>2, MappedSame
  <2>2. CASE pc # "exited"
    <3>1. TimePasses
      BY <2>2 DEF Tick
    <3>2. \A s \in Slots : SameClient(s)
      BY <1>t, <3>1, TimeEffect DEF Unchanged
    <3>3. \A s \in Slots : Live(clients'[s]) <=> Live(clients[s])
      BY <3>2 DEF SameClient, Live
    <3>4. LiveSlots' = LiveSlots
      BY <3>3 DEF LiveSlots
    <3>5. SupDue' = SupDue
      BY <3>2, <3>3 DEF SupDue, Watched, SameClient
    <3>6. ASSUME NEW s \in Slots
          PROVE  (IF Watched(s)' THEN clients'[s].age ELSE 0) =
                   IF s \in LiveSlots /\ SupAge[s] < AgeCap THEN SupAge[s] + 1 ELSE SupAge[s]
      <4>1. clients[s] \in Client
        BY <1>t DEF TableTypeOK
      <4>2. CASE Live(clients[s]) /\ clients[s].age < AgeCap
        <5>1. clients'[s] = [clients[s] EXCEPT !.age = @ + 1]
          BY <3>1, <4>2 DEF TimePasses, Elapse
        <5>2. clients'[s].age = clients[s].age + 1
          BY <4>1, <5>1 DEF Client
        <5> QED BY <3>3, <4>2, <5>2, MappedAt DEF Watched, LiveSlots
      <4>3. CASE ~(Live(clients[s]) /\ clients[s].age < AgeCap)
        <5>1. clients'[s] = clients[s]
          BY <3>1, <4>3 DEF TimePasses, Elapse
        <5> QED BY <4>3, <5>1, MappedAt DEF Watched, LiveSlots
      <4> QED BY <4>2, <4>3
    <3>7. SupAge' = Sup!Older
      BY <3>6 DEF SupAge, Sup!Older
    <3> QED BY <3>4, <3>5, <3>7
  <2> QED BY <2>1, <2>2
<1>5. Sup!Tick
  BY <1>1, <1>2, <1>3, <1>4 DEF Sup!Tick
<1> QED BY <1>5 DEF Sup!SupNext

----------------------------------------------------------------------------
(* Refinement *)

\* The loop goes back to select() only with all_ok, and what comes between select() and the
\* check does not give up.
LEMMA ServingNext == BaseInv /\ ServingInv /\ [BrokerNext]_vars => ServingInv'
<1> SUFFICES ASSUME BaseInv, ServingInv, [BrokerNext]_vars PROVE ServingInv'
  OBVIOUS
<1> USE DEF ServingInv
<1>1. CASE BrokerStep
  BY <1>1 DEF BrokerStep, Loop, StayInLoop, SelectReturns, SelectInterrupted, Accept, ReadRequest,
              ReadNothing, Check, Feed, LeavePending, Stop, RebootFailsafe, Disarm, End
<1>2. CASE FaultStep
  BY <1>2 DEF FaultStep, SelectFails, AcceptFails, FeedFatal, Kill, End
<1>3. CASE ClientStep \/ Signal \/ Tick
  BY <1>3 DEF ClientStep, Connect, PeerSends, Signal, Tick, loopVars
<1>4. CASE UNCHANGED vars
  BY <1>4 DEF vars, loopVars
<1> QED BY <1>1, <1>2, <1>3, <1>4 DEF BrokerNext, Over

\* As an invariant of the broker.
LEMMA ServingInvariant == BrokerSpec => []ServingInv
<1>1. BrokerInit => ServingInv
  BY DEF BrokerInit, ServingInv
<1> QED BY <1>1, ServingNext, BaseInvariant, PTL DEF BrokerSpec

\* Every step of the broker is a step of the supervisor or none.
LEMMA RefNext ==
  ASSUME BaseInv, BaseInv', CheckInv, ServingInv, NoSpuriousReset', [BrokerNext]_vars
  PROVE  [Sup!SupNext]_(Sup!supVars)
<1>1. CASE UNCHANGED vars
  BY <1>1, Unseen DEF vars, tableVars, loopVars, wdVars, GaveUp
<1>2. SUFFICES ASSUME ~hw_reset, BrokerStep \/ FaultStep \/ ClientStep \/ Signal \/ Tick
               PROVE  [Sup!SupNext]_(Sup!supVars)
  BY <1>1 DEF BrokerNext, Over
<1>3. ASSUME Loop \/ SelectReturns \/ SelectInterrupted \/ Accept \/ LeavePending \/ ReadNothing
      PROVE  UNCHANGED Sup!supVars
  <2>1. pc \notin Ended /\ pc' \notin Ended /\ all_ok' = all_ok
    BY <1>3 DEF Loop, SelectReturns, SelectInterrupted, Accept, LeavePending, ReadNothing, Ended
  <2>2. UNCHANGED <<clients, running, reboot, wd_armed, wd_left, hw_reset>>
    BY <1>3 DEF Loop, SelectReturns, SelectInterrupted, Accept, LeavePending, ReadNothing,
                NoInput, Say, tableVars, wdVars
  <2> QED BY <2>1, <2>2, Unseen DEF GaveUp
<1>4. CASE ClientStep
  <2>1. UNCHANGED <<pc, all_ok, clients, running, reboot, wd_armed, wd_left, hw_reset>>
    BY <1>4 DEF ClientStep, Connect, PeerSends, loopVars, tableVars, wdVars
  <2> QED BY <2>1, Unseen DEF GaveUp
<1>5. CASE ReadRequest
  <2>1. /\ cur \in Connection /\ cur.req # NoReq /\ handle_command(cur.proc, cur.req)
        /\ pc = "read" /\ pc' = "check" /\ all_ok' = all_ok /\ UNCHANGED wdVars
    BY <1>5 DEF ReadRequest, BaseInv, Situation
  <2>2. cur.proc \in Procs /\ cur.req \in Requests
    BY <2>1 DEF Connection
  <2>3. ~GaveUp /\ ~GaveUp'
    BY <2>1 DEF GaveUp, ServingInv, Ended
  <2> QED BY <1>2, <2>1, <2>2, <2>3, CommandStep
<1>6. CASE Check \/ SelectFails \/ AcceptFails \/ FeedFatal \/ Kill
  <2>1. UNCHANGED <<clients, running, reboot, wd_armed, wd_left, hw_reset>>
    BY <1>6 DEF Check, CloseConnection, SelectFails, AcceptFails, FeedFatal, Kill, End,
                tableVars, wdVars
  <2>2. CASE GaveUp' = GaveUp
    BY <2>1, <2>2, Unseen
  <2>3. CASE GaveUp' # GaveUp
    <3>1. GaveUp => GaveUp'
      BY <1>6 DEF Check, SelectFails, AcceptFails, FeedFatal, Kill, End, GaveUp, Ended
    <3>2. ~GaveUp /\ GaveUp'
      <4>1. GaveUp \in BOOLEAN /\ GaveUp' \in BOOLEAN
        BY DEF GaveUp
      <4> QED BY <2>3, <3>1, <4>1
    <3>3. Faults # {} \/ \E s \in Slots : Missed(clients[s])
      <4>1. CASE Check
        BY <3>2, <4>1 DEF Check, GaveUp, NoneMissed, Ended
      <4>2. CASE SelectFails \/ AcceptFails \/ FeedFatal \/ Kill
        BY <4>2 DEF SelectFails, AcceptFails, FeedFatal, Kill
      <4> QED BY <1>6, <4>1, <4>2
    <3> QED BY <1>2, <2>1, <3>2, <3>3, GivesUp
  <2> QED BY <2>2, <2>3
<1> QED
  BY <1>2, <1>3, <1>4, <1>5, <1>6, FeedStep, StopStep, SignalStep, TickStep
  DEF BrokerStep, FaultStep

\* The main loop implements the supervisor, whatever the table, the timeouts, the queue, the
\* stalls and the failing calls.
THEOREM BrokerRefines == BrokerSpec => BrokerImplementsSupervisor
<1>1. BrokerInit => Sup!SupInit
  BY RefInit
<1>2. /\ BaseInv /\ BaseInv' /\ CheckInv /\ ServingInv /\ NoSpuriousReset' /\ [BrokerNext]_vars
      => [Sup!SupNext]_(Sup!supVars)
  BY RefNext
<1> QED
  BY <1>1, <1>2, BaseInvariant, CheckInvariant, ServingInvariant, NeverSpurious, PTL
  DEF BrokerSpec, BrokerImplementsSupervisor, Sup!SupSpec

----------------------------------------------------------------------------
(* What the supervisor promises, promised by the broker *)

SupP == INSTANCE Supervisor_proofs WITH
  Places <- Slots, DueMax <- TimeoutMax, Slack <- MaxStall,
  Period <- WdTimeout, LastPeriod <- RebootTimeout,
  Enabled <- WatchdogEnabled, MayFail <- Faults # {},
  members <- LiveSlots, age <- SupAge, due <- SupDue,
  told <- Told, gaveup <- GaveUp,
  armed <- wd_armed, left <- wd_left, fired <- hw_reset

\* The constants of the broker are good ones for the supervisor.
LEMMA GoodConstants == SupP!SupervisorConstants
<1>1. AgeCap > TimeoutMax + MaxStall + WdTimeout
  <2>1. AgeCap > TimeoutMax + DetectionDelay + WdTimeout
    BY BrokerAssumption
  <2>2. DetectionDelay = 3 + 2 * MaxStall
    BY Timing DEF DetectionDelay
  <2> QED BY <2>1, <2>2, Sizes, Timing
<1>2. WdTimeout > 0
  BY Timing
<1> QED BY <1>1, <1>2, Sizes, Timing DEF SupP!SupervisorConstants

\* With no failing call, a system that resets without having been told to has a client in its
\* table that missed its deadline.
THEOREM CulpritInTable == BrokerSpec => []BrokerResetHasCulprit
<1>1. SupP!SupSpec => []SupP!ResetHasCulprit
  BY GoodConstants, SupP!SupResetHasCulprit
<1>2. Sup!SupInit => SupP!SupInit
  BY DEF Sup!SupInit, SupP!SupInit
<1>3. [Sup!SupNext]_(Sup!supVars) => [SupP!SupNext]_(SupP!supVars)
  BY DEF Sup!SupNext, SupP!SupNext, Sup!supVars, SupP!supVars, Sup!dogVars, SupP!dogVars,
         Sup!Join, SupP!Join, Sup!Hear, SupP!Hear, Sup!Leave, SupP!Leave, Sup!Tell, SupP!Tell,
         Sup!GiveUp, SupP!GiveUp, Sup!Late, SupP!Late, Sup!Feed, SupP!Feed,
         Sup!Finish, SupP!Finish, Sup!Tick, SupP!Tick, Sup!Older, SupP!Older
<1>4. SupP!ResetHasCulprit => BrokerResetHasCulprit
  BY DEF SupP!ResetHasCulprit, BrokerResetHasCulprit, Sup!ResetHasCulprit, Sup!Late, SupP!Late
<1> QED
  BY <1>1, <1>2, <1>3, <1>4, BrokerRefines, PTL
  DEF BrokerImplementsSupervisor, Sup!SupSpec, SupP!SupSpec

=============================================================================
