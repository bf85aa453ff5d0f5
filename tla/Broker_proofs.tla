--------------------------- MODULE Broker_proofs ---------------------------
(***************************************************************************)
(* Proofs about Broker: for any client table, any watchdog timeout, any    *)
(* length of the listen() queue and any stall the feed interval has room   *)
(* for, and with any of the calls failing.  The last part, on QueueDelay,  *)
(* says how long a request waits, provided that accept() does not fail: a  *)
(* connection that accept() fails on stays where it is and waits for       *)
(* another iteration.                                                      *)
(***************************************************************************)
EXTENDS QueueDelay, ClientTable_proofs

----------------------------------------------------------------------------
(* The inductive invariants *)

\* Facts the steps rely on to be well defined, and what is known of the flags by pc.
Situation ==
  /\ pc = "accept" => backlog # << >>
  /\ pc = "read" => cur \in Connection /\ wait <= ReadTimeout
  /\ pc \in {"stop", "exited"} => ~running
  /\ pc = "pending" => ~all_ok
  /\ reboot => ~running
  /\ pc # "exited" => wd_armed = WatchdogEnabled
  /\ running => wd_timeout = WdTimeout /\ wd_left <= WdTimeout
  /\ pc \notin Ended => wd_timeout = WdTimeout /\ wd_left <= WdTimeout
  /\ wd_armed /\ ~hw_reset => wd_left > 0
  /\ RebootStaysArmed

BaseInv == BrokerTypeOK /\ Situation

\* The time that can have passed since the last check, by where main() is.
SinceCheck ==
  CASE pc = "feed" -> MaxStall - stall
    [] pc = "loop" -> IF running THEN MaxStall - stall
                                 ELSE MaxStall + SelectTimeout + MaxStall - stall
    [] pc = "select" -> MaxStall + (SelectTimeout - wait) + (MaxStall - stall)
    [] pc = "accept" -> MaxStall + SelectTimeout + (MaxStall - stall)
    [] pc = "read" -> MaxStall + SelectTimeout + (ReadTimeout - wait) + (MaxStall - stall)
    [] OTHER -> MaxStall + SelectTimeout + ReadTimeout + (MaxStall - stall)

CheckInv ==
  pc \in LoopPCs /\ all_ok =>
    \A s \in LiveSlots : clients[s].age <= clients[s].timeout_ms + SinceCheck

\* The time until the timer, once expired, is read at the latest.
UntilFeed ==
  IF "timer" \in fds
    THEN CASE pc = "accept" -> ReadTimeout + stall
           [] pc = "read" -> wait + stall
           [] OTHER -> stall
    ELSE CASE pc = "accept" -> ReadTimeout + stall + ReadTimeout + MaxStall
           [] pc = "read" -> wait + stall + ReadTimeout + MaxStall
           [] pc = "select" -> stall + ReadTimeout
           [] pc = "loop" /\ ~StayInLoop -> stall + ReadTimeout
           [] OTHER -> stall + ReadTimeout + MaxStall

\* The watchdog has at least as long to go as the timer and what the feed can be late by.
FeedInv ==
  /\ pc \in {"loop", "select"} => fds = {}
  /\ pc \in LoopPCs /\ timer_expired =>
       FeedInterval - timer_left + UntilFeed <= 2 * (ReadTimeout + MaxStall)
  /\ pc \in LoopPCs /\ all_ok /\ wd_armed =>
       IF timer_expired THEN wd_left >= WdTimeout - FeedInterval - (FeedInterval - timer_left)
                        ELSE wd_left >= WdTimeout - FeedInterval + timer_left
  /\ pc = "stop" /\ all_ok /\ wd_armed => wd_left > stall
  /\ NoSpuriousReset

\* Age and watchdog add up: both change by one in a tick, until a feed, which finds every
\* client in time.
ResetInv ==
  WatchdogEnabled /\ running =>
    \A s \in LiveSlots :
      clients[s].age + wd_left <= clients[s].timeout_ms + MaxStall + WdTimeout

----------------------------------------------------------------------------
(* Parameters *)

\* The timer runs at least twice as fast as the watchdog, and half a period is longer than
\* what two iterations of the loop can be held up by.
LEMMA Timing ==
  /\ MaxStall \in Nat
  /\ WdTimeout \in Nat /\ FeedInterval \in Nat /\ RebootTimeout \in Nat
  /\ RebootTimeout > 0
  /\ 2 * (ReadTimeout + MaxStall) < FeedInterval
  /\ 2 * FeedInterval <= WdTimeout
  /\ ReadTimeout = 1 /\ SelectTimeout = 2
  /\ WatchdogEnabled \in BOOLEAN
BY BrokerAssumption DEF WdTimeout, FeedInterval, RebootTimeout, ReadTimeout, SelectTimeout

----------------------------------------------------------------------------
(* Broker implements ClientTable *)

\* Every step of the broker is a step of the table or leaves it alone.
LEMMA TableStep ==
  ASSUME BaseInv, [BrokerNext]_vars
  PROVE  [TableNext]_tableVars
<1>1. ASSUME ReadRequest PROVE TableNext
  <2>1. cur \in Connection /\ cur.req # NoReq
    BY <1>1 DEF ReadRequest, BaseInv, Situation
  <2>2. cur.proc \in Procs /\ cur.req \in Requests
    BY <2>1 DEF Connection
  <2> QED
    BY <1>1, <2>2 DEF ReadRequest, TableNext
<1>2. ASSUME ReadNothing PROVE TableNext
  <2>1. cur.proc \in Procs
    BY <1>2 DEF ReadNothing, BaseInv, Situation, Connection
  <2> QED
    BY <1>2, <2>1 DEF ReadNothing, TableNext
<1>3. CASE BrokerStep
  BY <1>1, <1>2, <1>3
  DEF BrokerStep, Loop, SelectReturns, SelectInterrupted, Accept, Check, Feed, LeavePending,
      Stop, TableNext
<1>4. CASE FaultStep
  BY <1>4 DEF FaultStep, SelectFails, AcceptFails, FeedFatal, Kill
<1>5. CASE ClientStep
  BY <1>5 DEF ClientStep, Connect, PeerSends
<1>6. CASE Signal
  BY <1>6 DEF Signal, TableNext
<1>7. CASE Tick
  BY <1>7 DEF Tick, TableNext
<1>8. CASE UNCHANGED vars
  BY <1>8 DEF vars
<1> QED
  BY <1>3, <1>4, <1>5, <1>6, <1>7, <1>8 DEF BrokerNext, Over

----------------------------------------------------------------------------
(* Types and situations *)

\* The broker starts with what is known of it at all times.
LEMMA BaseInit == BrokerInit => BaseInv
<1> SUFFICES ASSUME BrokerInit PROVE BaseInv
  OBVIOUS
<1>1. TableTypeOK
  BY TypeInit DEF BrokerInit
<1>2. BrokerTypeOK
  <2>1. /\ wait \in 0 .. SelectTimeout /\ stall \in 0 .. MaxStall
        /\ timer_left \in 1 .. FeedInterval /\ wd_left \in Nat
    BY Timing DEF BrokerInit
  <2>2. /\ all_ok \in BOOLEAN /\ timer_expired \in BOOLEAN
        /\ wd_armed \in BOOLEAN /\ hw_reset \in BOOLEAN
    BY Timing, Zenon DEF BrokerInit
  <2>3. /\ pc \in PCs /\ fds \subseteq {"server", "timer"}
        /\ cur \in Connection \cup {NoConn} /\ backlog \in Seq(Connection)
        /\ wd_timeout \in {WdTimeout, RebootTimeout}
    BY DEF BrokerInit, PCs, LoopPCs, Ended
  <2> QED
    BY <1>1, <2>1, <2>2, <2>3 DEF BrokerTypeOK
<1>3. Situation
  BY Timing DEF BrokerInit, TableInit, Situation, Ended, RebootStaysArmed
<1> QED
  BY <1>2, <1>3 DEF BaseInv

\* A command ends the run of the broker or leaves running alone; REBOOT does the former.
LEMMA HandleFlags ==
  ASSUME NEW p, NEW r, handle_command(p, r)
  PROVE  \/ running' = running /\ reboot' = reboot
         \/ running' = FALSE /\ reboot' = TRUE
BY DEF handle_command, RegisterOK, RegisterRefused, PingOK, PingRefused, UnregisterOK,
       UnregisterRefused, RebootOK, Report, Say

\* Every action of the main loop and of its surroundings keeps the types and the facts
\* that go with them.
LEMMA BaseNext == BaseInv /\ [BrokerNext]_vars => BaseInv'
<1> SUFFICES ASSUME BaseInv, [BrokerNext]_vars PROVE BaseInv'
  OBVIOUS
<1> USE DEF BaseInv, BrokerTypeOK, Situation, RebootStaysArmed, PCs, LoopPCs, Ended
<1>t. TableTypeOK'
  BY TableStep, TypeNext
<1> HIDE DEF TableTypeOK
<1>1. CASE Loop
  BY <1>t, <1>1, Timing DEF Loop, StayInLoop, timerVars, wdVars, tableVars
<1>2. CASE SelectReturns
  BY <1>t, <1>2, Timing DEF SelectReturns, Ready, timerVars, wdVars, tableVars
<1>3. CASE SelectInterrupted
  BY <1>t, <1>3, Timing DEF SelectInterrupted, timerVars, wdVars, tableVars
<1>4. CASE SelectFails
  <2>1. all_ok' \in BOOLEAN
    BY <1>4, Zenon DEF SelectFails
  <2>2. wait' \in 0 .. SelectTimeout
    BY <1>4, Timing DEF SelectFails
  <2> QED
    BY <1>t, <1>4, <2>1, <2>2 DEF SelectFails, timerVars, wdVars, tableVars
<1>5. CASE Accept
  BY <1>t, <1>5, Timing DEF Accept, timerVars, wdVars, tableVars
<1>6. CASE AcceptFails
  BY <1>t, <1>6, Timing DEF AcceptFails, timerVars, wdVars, tableVars
<1>7. CASE ReadRequest
  <2>1. cur.req # NoReq /\ handle_command(cur.proc, cur.req)
    BY <1>7 DEF ReadRequest
  <2>2. running' => running
    BY <2>1, HandleFlags
  <2>3. reboot' => ~running'
    BY <2>1, HandleFlags
  <2>4. wait' \in 0 .. SelectTimeout
    BY <1>7, Timing DEF ReadRequest
  <2> QED
    BY <1>t, <1>7, <2>2, <2>3, <2>4 DEF ReadRequest, timerVars, wdVars
<1>8. CASE ReadNothing
  <2>1. wait' \in 0 .. SelectTimeout
    BY <1>8, Timing DEF ReadNothing
  <2> QED
    BY <1>t, <1>8, <2>1 DEF ReadNothing, NoInput, Say, timerVars, wdVars
<1>9. CASE Check
  BY <1>t, <1>9, Timing DEF Check, CloseConnection, timerVars, wdVars
<1>10. CASE Feed
  <2>1. timer_expired' \in BOOLEAN
    BY <1>10 DEF Feed
  <2>2. wd_left' = wd_left \/ (wd_left' = WdTimeout /\ wd_timeout = WdTimeout)
    BY <1>10 DEF Feed
  <2>3. /\ wd_left' \in Nat
        /\ wd_left <= WdTimeout => wd_left' <= WdTimeout
        /\ wd_left > 0 => wd_left' > 0
    BY <2>2, Timing
  <2> QED
    BY <1>t, <1>10, <2>1, <2>3 DEF Feed, tableVars
<1>11. CASE FeedFatal
  BY <1>t, <1>11, Timing DEF FeedFatal, End, timerVars, wdVars, tableVars
<1>12. CASE Kill
  BY <1>t, <1>12, Timing DEF Kill, End, timerVars, wdVars, tableVars
<1>13. CASE LeavePending
  BY <1>t, <1>13, Timing DEF LeavePending, MayLeave, timerVars, wdVars, tableVars
<1>14. CASE Stop
  <2>1. pc = "stop" /\ ~running /\ wd_timeout = WdTimeout /\ wd_armed = WatchdogEnabled
    BY <1>14 DEF Stop
  <2>2. /\ pc' \in Ended /\ fds' = {} /\ cur' = NoConn /\ wait' = 0 /\ backlog' = << >>
        /\ UNCHANGED <<config, clients, issued, running, reboot, reply,
                       stall, all_ok, timer_left, timer_expired, hw_reset>>
    BY <1>14 DEF Stop, RebootFailsafe, Disarm, End, tableVars, timerVars
  <2>3. /\ wd_armed' \in BOOLEAN /\ (reboot /\ WatchdogEnabled => wd_armed')
        /\ pc' # "exited" => wd_armed' = wd_armed
        /\ wd_armed' => wd_armed
    <3>1. CASE wd_armed /\ KeepArmed /\ RebootFailsafe
      BY <3>1, Zenon DEF RebootFailsafe
    <3>2. CASE wd_armed /\ ~KeepArmed /\ Disarm
      BY <3>2 DEF Disarm, KeepArmed, End
    <3>3. CASE ~wd_armed /\ wd_armed' = wd_armed
      BY <2>1, <3>3
    <3> QED
      BY <1>14, <3>1, <3>2, <3>3 DEF Stop
  <2>4. wd_timeout' \in {WdTimeout, RebootTimeout}
    BY <1>14, <2>1 DEF Stop, RebootFailsafe, Disarm
  <2>5. wd_left' \in {wd_left, WdTimeout, RebootTimeout}
    BY <1>14, <2>1, <2>4 DEF Stop, RebootFailsafe, Disarm
  <2>6. wd_left' \in Nat /\ (wd_left > 0 => wd_left' > 0)
    BY <2>5, Timing
  <2>7. wait' \in 0 .. SelectTimeout
    BY <2>2, Timing
  <2>8. BrokerTypeOK'
    BY <1>t, <2>2, <2>3, <2>4, <2>6, <2>7
  <2>9. Situation'
    BY <2>1, <2>2, <2>3, <2>6
  <2> QED
    BY <2>8, <2>9
<1>16. ASSUME NEW r \in Requests, PeerSends(r) PROVE BaseInv'
  BY <1>t, <1>16, Timing DEF PeerSends, Connection, timerVars, wdVars, tableVars
<1>15. ASSUME NEW p \in Procs, NEW r \in Requests \cup {NoReq}, Connect(p, r) PROVE BaseInv'
  BY <1>t, <1>15, Timing DEF Connect, Connection, loopVars, timerVars, wdVars, tableVars
<1>17. CASE Signal
  BY <1>t, <1>17, Timing DEF Signal, signal_handler, loopVars, timerVars, wdVars
<1>18. CASE ~hw_reset /\ Tick
  <2>1. /\ UNCHANGED <<pc, fds, cur, all_ok, backlog, running, reboot, wd_armed, wd_timeout>>
        /\ wait' \in 0 .. SelectTimeout /\ wait' <= wait
        /\ stall' \in 0 .. MaxStall
    BY <1>18, Timing DEF Tick, TimePasses, WatchdogTick, tableVars, Blocked
  <2>2. timer_left' \in 1 .. FeedInterval /\ timer_expired' \in BOOLEAN
    <3>1. timer_left' \in 1 .. FeedInterval
      BY <1>18, Timing DEF Tick, TimerTick, timerVars
    <3>2. timer_expired' = timer_expired \/ timer_expired' = TRUE
      BY <1>18 DEF Tick, TimerTick, timerVars
    <3> QED
      BY <3>1, <3>2, Zenon
  <2>3. CASE wd_armed
    <3>1. ~hw_reset /\ wd_left > 0
      BY <1>18, <2>3
    <3>2. wd_left' = wd_left - 1 /\ hw_reset' = (wd_left = 1)
      BY <1>18, <2>3 DEF Tick, WatchdogTick
    <3>3. /\ wd_left' \in Nat /\ (wd_left # 1 => wd_left' > 0)
          /\ wd_left <= WdTimeout => wd_left' <= WdTimeout
      BY <3>1, <3>2, Timing
    <3>4. hw_reset' \in BOOLEAN /\ (~hw_reset' => wd_left # 1)
      BY <3>2, Zenon
    <3>5. BrokerTypeOK'
      BY <1>t, <2>1, <2>2, <3>3, <3>4
    <3>6. Situation'
      <4>1. wait <= ReadTimeout => wait' <= ReadTimeout
        BY <2>1, Timing
      <4> QED
        BY <1>18, <2>1, <2>3, <3>3, <3>4, <4>1
    <3> QED
      BY <3>5, <3>6
  <2>4. CASE ~wd_armed
    <3>1. UNCHANGED <<wd_left, hw_reset>>
      BY <1>18, <2>4 DEF Tick, WatchdogTick
    <3> QED
      BY <1>t, <2>1, <2>2, <2>4, <3>1, Timing
  <2> QED
    BY <2>3, <2>4
<1>19. CASE UNCHANGED vars
  BY <1>t, <1>19 DEF vars, loopVars, timerVars, wdVars, tableVars
<1> QED
  BY <1>1, <1>2, <1>3, <1>4, <1>5, <1>6, <1>7, <1>8, <1>9, <1>10, <1>11, <1>12, <1>13, <1>14,
     <1>15, <1>16, <1>17, <1>18, <1>19
  DEF BrokerNext, BrokerStep, FaultStep, ClientStep, Over

\* Types of the loop, the socket, the timer and the watchdog, and no accept() from an empty
\* queue: the connection that select() reported is still there when accept() is called.
THEOREM BrokerTypeCorrect == BrokerSpec => []BrokerTypeOK
<1>1. BaseInv => BrokerTypeOK
  BY DEF BaseInv
<1> QED
  BY <1>1, BaseInit, BaseNext, PTL DEF BrokerSpec

\* As an invariant of the broker.
LEMMA BaseInvariant == BrokerSpec => []BaseInv
BY BaseInit, BaseNext, PTL DEF BrokerSpec

\* The broker implements the client table: what is proved of TableSpec holds of it.
THEOREM BrokerImplementsTable == BrokerSpec => TableSpec
<1>1. BrokerInit => TableInit
  BY DEF BrokerInit
<1>2. BaseInv /\ [BrokerNext]_vars => [TableNext]_tableVars
  BY TableStep
<1> QED
  BY <1>1, <1>2, BaseInvariant, PTL DEF BrokerSpec, TableSpec

\* After REBOOT no signal, missed heartbeat, failing call or crash stops the watchdog.
THEOREM RebootKeepsArmed == BrokerSpec => []RebootStaysArmed
<1>1. BaseInv => RebootStaysArmed
  BY DEF BaseInv, Situation
<1> QED
  BY <1>1, BaseInvariant, PTL

----------------------------------------------------------------------------
(* The clocks of the clients *)

\* A command sets the clock of a client in the table to zero or does not touch the client.
LEMMA HandledAges ==
  ASSUME TableTypeOK, NEW p \in Procs, NEW r \in Requests, handle_command(p, r),
         NEW s \in LiveSlots'
  PROVE  clients'[s].age = 0 \/ (s \in LiveSlots /\ clients'[s] = clients[s])
<1>0. s \in Slots /\ Live(clients'[s])
  BY DEF LiveSlots
<1>1. ASSUME clients' = clients PROVE s \in LiveSlots /\ clients'[s] = clients[s]
  BY <1>0, <1>1 DEF LiveSlots
<1>2. CASE RegisterOK(p, r)
  <2>1. PICK t \in Slots, id \in Nat : Joined(t, r.name, id) /\ clients'[t].age = 0
    BY <1>2, JoinEffect
  <2> QED
    BY <1>0, <2>1 DEF Joined, OthersKept, LiveSlots
<1>3. CASE PingOK(p, r)
  <2>1. PICK t \in Slots : clients' = [clients EXCEPT ![t].age = 0]
    BY <1>3 DEF PingOK
  <2>2. CASE t = s
    <3>1. clients[s] \in Client /\ clients'[s] = [clients[s] EXCEPT !.age = 0]
      BY <1>0, <2>1, <2>2 DEF TableTypeOK
    <3> QED
      BY <3>1 DEF Client
  <2>3. CASE t # s
    BY <1>0, <2>1, <2>3 DEF TableTypeOK, LiveSlots
  <2> QED
    BY <2>2, <2>3
<1>4. CASE UnregisterOK(p, r)
  <2>1. PICK t \in Slots : Left(t)
    BY <1>4, LeaveEffect
  <2> QED
    BY <1>0, <2>1 DEF Left, OthersKept, LiveSlots, Live
<1>5. CASE RebootOK(p, r)
  BY <1>1, <1>5 DEF RebootOK
<1>6. ASSUME NEW a, Say(p, a) PROVE s \in LiveSlots /\ clients'[s] = clients[s]
  BY <1>1, <1>6 DEF Say
<1>7. CASE RegisterRefused(p, r) \/ PingRefused(p, r) \/ UnregisterRefused(p, r) \/ Report(p, r)
  BY <1>6, <1>7 DEF RegisterRefused, PingRefused, UnregisterRefused, Report
<1> QED
  BY <1>2, <1>3, <1>4, <1>5, <1>7 DEF handle_command

\* A tick advances the clock of a client in the table by one at most.
LEMMA TickedAges ==
  ASSUME TableTypeOK, TimePasses, NEW s \in LiveSlots'
  PROVE  /\ s \in LiveSlots
         /\ clients'[s].timeout_ms = clients[s].timeout_ms
         /\ clients'[s].age \in Nat /\ clients'[s].age <= clients[s].age + 1
<1>0. s \in Slots /\ Live(clients'[s])
  BY DEF LiveSlots
<1>1. clients[s] \in Client /\ clients[s].age \in Nat
  BY <1>0, ClientNumbers
<1>2. SameClient(s)
  BY <1>0, TimeEffect DEF Unchanged
<1>3. \/ clients'[s] = clients[s]
      \/ clients'[s] = [clients[s] EXCEPT !.age = @ + 1]
  BY <1>0 DEF TimePasses, Elapse
<1>4. clients'[s].age = clients[s].age \/ clients'[s].age = clients[s].age + 1
  BY <1>1, <1>3 DEF Client
<1>5. clients'[s].age \in Nat /\ clients'[s].age <= clients[s].age + 1
  BY <1>1, <1>4
<1> QED
  BY <1>0, <1>2, <1>5 DEF SameClient, LiveSlots, Live

\* A step that leaves the table alone keeps the slots within a limit no smaller.
LEMMA WithinKept ==
  ASSUME TableTypeOK, clients' = clients, NEW m \in Int, NEW n \in Int, m <= n,
         \A s \in LiveSlots : clients[s].age <= clients[s].timeout_ms + m
  PROVE  \A s \in LiveSlots' : clients'[s].age <= clients'[s].timeout_ms + n
<1> SUFFICES ASSUME NEW s \in LiveSlots' PROVE clients'[s].age <= clients'[s].timeout_ms + n
  OBVIOUS
<1>1. s \in LiveSlots /\ s \in Slots
  BY DEF LiveSlots
<1>2. clients[s].age \in Nat /\ clients[s].timeout_ms \in Nat
  BY <1>1, ClientNumbers
<1>3. clients[s].age <= clients[s].timeout_ms + m
  BY <1>1
<1> QED
  BY <1>2, <1>3

\* A tick ages the slots by one, and the time they may still take grows with them.
LEMMA WithinTicked ==
  ASSUME TableTypeOK, TimePasses, NEW m \in Int, NEW n \in Int, m + 1 <= n,
         \A s \in LiveSlots : clients[s].age <= clients[s].timeout_ms + m
  PROVE  \A s \in LiveSlots' : clients'[s].age <= clients'[s].timeout_ms + n
<1> SUFFICES ASSUME NEW s \in LiveSlots' PROVE clients'[s].age <= clients'[s].timeout_ms + n
  OBVIOUS
<1>1. /\ s \in LiveSlots /\ s \in Slots
      /\ clients'[s].timeout_ms = clients[s].timeout_ms
      /\ clients'[s].age \in Nat /\ clients'[s].age <= clients[s].age + 1
  BY TickedAges DEF LiveSlots
<1>2. clients[s].age \in Nat /\ clients[s].timeout_ms \in Nat
  BY <1>1, ClientNumbers
<1>3. clients[s].age <= clients[s].timeout_ms + m
  BY <1>1
<1> QED
  BY <1>1, <1>2, <1>3

\* A command leaves every slot within its limit: it starts the clock of a slot anew or
\* leaves the slot alone.
LEMMA WithinHandled ==
  ASSUME TableTypeOK, TableTypeOK', NEW p \in Procs, NEW r \in Requests, handle_command(p, r),
         NEW m \in Int, NEW n \in Int, m <= n, 0 <= n,
         \A s \in LiveSlots : clients[s].age <= clients[s].timeout_ms + m
  PROVE  \A s \in LiveSlots' : clients'[s].age <= clients'[s].timeout_ms + n
<1> SUFFICES ASSUME NEW s \in LiveSlots' PROVE clients'[s].age <= clients'[s].timeout_ms + n
  OBVIOUS
<1>1. s \in Slots
  BY DEF LiveSlots
<1>2. clients'[s].timeout_ms \in Nat
  <2>1. clients'[s] \in Client
    BY <1>1 DEF TableTypeOK
  <2>2. clients'[s].timeout_ms \in 0 .. TimeoutMax
    BY <2>1 DEF Client
  <2> QED
    BY <2>2, Sizes
<1>3. CASE clients'[s].age = 0
  BY <1>2, <1>3
<1>4. CASE s \in LiveSlots /\ clients'[s] = clients[s]
  <2>1. clients[s].age \in Nat /\ clients[s].timeout_ms \in Nat
    BY <1>1, ClientNumbers
  <2> QED
    BY <1>4, <2>1
<1> QED
  BY <1>3, <1>4, HandledAges

----------------------------------------------------------------------------
(* Detection *)

\* Nobody is overdue when the broker starts.
LEMMA CheckInit == BrokerInit => CheckInv
<1> SUFFICES ASSUME BrokerInit, NEW s \in LiveSlots
             PROVE  clients[s].age <= clients[s].timeout_ms + SinceCheck
  BY DEF CheckInv
<1>1. TableTypeOK /\ s \in Slots
  BY TypeInit DEF BrokerInit, LiveSlots
<1>2. clients[s].timeout_ms \in Nat
  BY <1>1, ClientNumbers
<1>3. clients[s].age = 0
  <2>1. PICK ann, ids : clients = [t \in Slots |->
                           IF t <= Len(ann) THEN AnnouncedClient(ann[t], ids[t]) ELSE EmptyClient]
    BY DEF BrokerInit, TableInit, parse_config
  <2> QED
    BY <1>1, <2>1 DEF AnnouncedClient, EmptyClient
<1>4. SinceCheck = 0
  BY Timing DEF BrokerInit, TableInit, SinceCheck
<1> QED
  BY <1>2, <1>3, <1>4

\* Every action keeps the slots within the limit of the place the loop has come to.
LEMMA CheckNext == BaseInv /\ CheckInv /\ [BrokerNext]_vars => CheckInv'
<1> SUFFICES ASSUME BaseInv, CheckInv, [BrokerNext]_vars, (pc \in LoopPCs /\ all_ok)'
             PROVE  \A s \in LiveSlots' :
                      clients'[s].age <= clients'[s].timeout_ms + SinceCheck'
  BY DEF CheckInv
<1> DEFINE Bounded == \A s \in LiveSlots : clients[s].age <= clients[s].timeout_ms + SinceCheck
<1>t. TableTypeOK /\ TableTypeOK'
  BY BaseNext DEF BaseInv, BrokerTypeOK
<1>n. stall \in 0 .. MaxStall /\ wait \in 0 .. SelectTimeout /\ stall' \in 0 .. MaxStall
        /\ wait' \in 0 .. SelectTimeout
  BY BaseNext DEF BaseInv, BrokerTypeOK
<1>i. SinceCheck \in Int /\ SinceCheck' \in Int
  BY <1>n, Timing DEF SinceCheck
<1>k. ASSUME clients' = clients, Bounded, SinceCheck <= SinceCheck'
      PROVE  \A s \in LiveSlots' : clients'[s].age <= clients'[s].timeout_ms + SinceCheck'
  BY <1>t, <1>i, <1>k, WithinKept
<1>1. CASE Loop
  <2>1. pc = "loop" /\ running /\ pc' = "select" /\ all_ok /\ running'
          /\ stall' = MaxStall /\ wait' = SelectTimeout /\ clients' = clients
    BY <1>1 DEF Loop, StayInLoop, LoopPCs, tableVars
  <2>2. SinceCheck <= SinceCheck'
    BY <1>n, <2>1, Timing DEF SinceCheck
  <2> QED
    BY <1>k, <2>1, <2>2 DEF CheckInv, LoopPCs
<1>2. CASE SelectReturns
  <2>1. pc = "select" /\ pc' \in {"accept", "check"} /\ all_ok /\ stall' = stall
          /\ clients' = clients
    BY <1>2 DEF SelectReturns, tableVars
  <2>2. SinceCheck <= SinceCheck'
    BY <1>n, <2>1, Timing DEF SinceCheck
  <2> QED
    BY <1>k, <2>1, <2>2 DEF CheckInv, LoopPCs
<1>3. CASE SelectInterrupted
  <2>1. pc = "select" /\ pc' = "loop" /\ ~running' /\ all_ok /\ stall' = stall
          /\ clients' = clients
    BY <1>3 DEF SelectInterrupted, tableVars
  <2>2. SinceCheck <= SinceCheck'
    BY <1>n, <2>1, Timing DEF SinceCheck
  <2> QED
    BY <1>k, <2>1, <2>2 DEF CheckInv, LoopPCs
<1>4. CASE Accept
  <2>1. pc = "accept" /\ pc' = "read" /\ all_ok /\ stall' = stall /\ wait' = ReadTimeout
          /\ clients' = clients
    BY <1>4 DEF Accept, tableVars
  <2>2. SinceCheck <= SinceCheck'
    BY <1>n, <2>1, Timing DEF SinceCheck
  <2> QED
    BY <1>k, <2>1, <2>2 DEF CheckInv, LoopPCs
<1>5. CASE AcceptFails
  <2>1. pc = "accept" /\ pc' = "check" /\ all_ok /\ stall' = stall /\ clients' = clients
    BY <1>5 DEF AcceptFails, tableVars
  <2>2. SinceCheck <= SinceCheck'
    BY <1>n, <2>1, Timing DEF SinceCheck
  <2> QED
    BY <1>k, <2>1, <2>2 DEF CheckInv, LoopPCs
<1>6. CASE ReadRequest
  <2>1. pc = "read" /\ pc' = "check" /\ all_ok /\ stall' = stall
          /\ handle_command(cur.proc, cur.req) /\ cur.req # NoReq /\ cur \in Connection
    BY <1>6 DEF ReadRequest, BaseInv, Situation
  <2>2. SinceCheck <= SinceCheck' /\ 0 <= SinceCheck'
    BY <1>n, <2>1, Timing DEF SinceCheck
  <2>3. cur.proc \in Procs /\ cur.req \in Requests
    BY <2>1 DEF Connection
  <2>4. Bounded
    BY <2>1 DEF CheckInv, LoopPCs
  <2> QED
    BY <1>t, <1>i, <2>1, <2>2, <2>3, <2>4, WithinHandled
<1>7. CASE ReadNothing
  <2>1. pc = "read" /\ pc' = "check" /\ all_ok /\ stall' = stall /\ clients' = clients
    BY <1>7 DEF ReadNothing, NoInput, Say
  <2>2. SinceCheck <= SinceCheck'
    BY <1>n, <2>1, Timing DEF SinceCheck
  <2> QED
    BY <1>k, <2>1, <2>2 DEF CheckInv, LoopPCs
<1>8. CASE Check
  <2>1. pc' = "feed" /\ NoneMissed /\ stall' = stall /\ clients' = clients
    BY <1>8 DEF Check, CloseConnection
  <2>2. 0 <= SinceCheck'
    BY <1>n, <2>1, Timing DEF SinceCheck
  <2>3. ASSUME NEW s \in LiveSlots PROVE clients[s].age <= clients[s].timeout_ms + 0
    <3>1. s \in Slots /\ Live(clients[s])
      BY DEF LiveSlots
    <3>2. clients[s].age \in Nat /\ clients[s].timeout_ms \in Nat
      BY <1>t, <3>1, ClientNumbers
    <3>3. ~(clients[s].age > clients[s].timeout_ms)
      BY <2>1, <3>1 DEF NoneMissed, Missed
    <3> QED
      BY <3>2, <3>3
  <2> QED
    BY <1>t, <1>i, <2>1, <2>2, <2>3, WithinKept
<1>9. CASE Feed
  <2>1. pc = "feed" /\ pc' = "loop" /\ all_ok /\ stall' = stall /\ clients' = clients
    BY <1>9 DEF Feed, tableVars
  <2>2. SinceCheck <= SinceCheck'
    BY <1>n, <2>1, Timing DEF SinceCheck
  <2> QED
    BY <1>k, <2>1, <2>2 DEF CheckInv, LoopPCs
<1>10. CASE SelectFails \/ FeedFatal \/ Kill \/ LeavePending \/ Stop
  BY <1>10 DEF SelectFails, FeedFatal, Kill, LeavePending, Stop, RebootFailsafe, Disarm, End,
               LoopPCs
<1>11. CASE \/ \E p \in Procs, r \in Requests \cup {NoReq} : Connect(p, r)
            \/ \E r \in Requests : PeerSends(r)
            \/ UNCHANGED vars
  <2>1. /\ UNCHANGED <<pc, wait, stall, all_ok>>
        /\ clients' = clients /\ running' = running
    BY <1>11 DEF Connect, PeerSends, vars, loopVars, tableVars
  <2>2. SinceCheck' = SinceCheck
    BY <2>1 DEF SinceCheck
  <2> QED
    BY <1>i, <1>k, <2>1, <2>2 DEF CheckInv
<1>12. CASE Signal
  <2>1. UNCHANGED <<pc, wait, stall, all_ok>> /\ clients' = clients /\ ~running'
    BY <1>12 DEF Signal, signal_handler, loopVars
  <2>2. SinceCheck <= SinceCheck'
    BY <1>n, <2>1, Timing DEF SinceCheck
  <2> QED
    BY <1>k, <2>1, <2>2 DEF CheckInv
<1>13. CASE Tick
  <2>1. pc' = pc /\ pc \in LoopPCs /\ all_ok /\ TimePasses /\ running' = running
    BY <1>13 DEF Tick, TimePasses, LoopPCs
  <2>2. \/ pc \in {"select", "read"} /\ wait' = wait - 1 /\ stall' = stall
        \/ stall' = stall - 1 /\ wait' = wait
    BY <1>13, <2>1 DEF Tick, Blocked, LoopPCs, Ended
  <2>3. SinceCheck + 1 <= SinceCheck'
    BY <1>n, <2>1, <2>2, Timing DEF SinceCheck, LoopPCs
  <2>4. Bounded
    BY <2>1 DEF CheckInv
  <2> QED
    BY <1>t, <1>i, <2>1, <2>3, <2>4, WithinTicked
<1> QED
  BY <1>1, <1>2, <1>3, <1>4, <1>5, <1>6, <1>7, <1>8, <1>9, <1>10, <1>11, <1>12, <1>13
  DEF BrokerNext, BrokerStep, FaultStep, ClientStep, Over

\* As an invariant of the broker.
LEMMA CheckInvariant == BrokerSpec => []CheckInv
BY CheckInit, CheckNext, BaseInvariant, PTL DEF BrokerSpec

\* A miss is noticed within SelectTimeout + ReadTimeout + 2 * MaxStall, whatever clients,
\* signals and failing calls do.
THEOREM MissDetected == BrokerSpec => []DetectionBound
<1>1. ASSUME BaseInv, CheckInv PROVE DetectionBound
  <2> SUFFICES ASSUME pc \in LoopPCs, all_ok, NEW s \in LiveSlots
               PROVE  clients[s].age <= clients[s].timeout_ms + DetectionDelay
    BY DEF DetectionBound
  <2>1. clients[s].age <= clients[s].timeout_ms + SinceCheck
    BY <1>1 DEF CheckInv
  <2>2. stall \in 0 .. MaxStall /\ wait \in 0 .. SelectTimeout
    BY <1>1 DEF BaseInv, BrokerTypeOK
  <2>3. SinceCheck \in Int /\ SinceCheck <= DetectionDelay /\ DetectionDelay \in Int
    BY <2>2, Timing DEF SinceCheck, DetectionDelay
  <2>4. clients[s].age \in Nat /\ clients[s].timeout_ms \in Nat
    BY <1>1, ClientNumbers DEF BaseInv, BrokerTypeOK, LiveSlots
  <2> QED
    BY <2>1, <2>3, <2>4
<1> QED
  BY <1>1, BaseInvariant, CheckInvariant, PTL

----------------------------------------------------------------------------
(* Feeding in time *)

\* The feed timer starts with the watchdog.
LEMMA FeedInit == BrokerInit => FeedInv
BY Timing DEF BrokerInit, FeedInv, NoSpuriousReset

\* Every action keeps the feed timer and the watchdog in step.
LEMMA FeedNext == BaseInv /\ FeedInv /\ [BrokerNext]_vars => FeedInv'
<1> SUFFICES ASSUME BaseInv, FeedInv, [BrokerNext]_vars PROVE FeedInv'
  OBVIOUS
<1>n. /\ stall \in 0 .. MaxStall /\ wait \in 0 .. SelectTimeout
      /\ timer_left \in 1 .. FeedInterval /\ wd_left \in Nat
      /\ pc = "read" => wait <= ReadTimeout
  BY DEF BaseInv, BrokerTypeOK, Situation
<1>b. BaseInv'
  BY BaseNext
<1> USE DEF FeedInv, NoSpuriousReset, UntilFeed, StayInLoop, LoopPCs, Ended
<1>1. CASE ~hw_reset /\ Loop
  BY <1>1, <1>n, Timing DEF Loop, tableVars, timerVars, wdVars
<1>2. CASE SelectReturns
  BY <1>2, <1>n, Timing DEF SelectReturns, Ready, tableVars, timerVars, wdVars
<1>3. CASE SelectInterrupted
  BY <1>3, <1>n, Timing DEF SelectInterrupted, tableVars, timerVars, wdVars
<1>4. CASE Accept
  BY <1>4, <1>n, Timing DEF Accept, tableVars, timerVars, wdVars
<1>5. CASE AcceptFails
  BY <1>5, <1>n, Timing DEF AcceptFails, tableVars, timerVars, wdVars
<1>6. CASE ReadRequest
  BY <1>6, <1>n, Timing DEF ReadRequest, timerVars, wdVars
<1>7. CASE ReadNothing
  BY <1>7, <1>n, Timing DEF ReadNothing, timerVars, wdVars
<1>8. CASE Check
  BY <1>8, <1>n, Timing DEF Check, timerVars, wdVars
<1>9. CASE Feed
  BY <1>9, <1>n, Timing DEF Feed, MayFeed, tableVars, BaseInv, Situation
<1>10. CASE SelectFails
  BY <1>10, <1>n, Timing DEF SelectFails, tableVars, timerVars, wdVars
<1>14. CASE FeedFatal \/ Kill \/ Stop
  <2>1. pc' \in Ended
    BY <1>14 DEF FeedFatal, Kill, Stop, RebootFailsafe, Disarm, End
  <2> QED
    BY <2>1
<1>15. CASE LeavePending
  BY <1>15 DEF LeavePending, wdVars, BaseInv, Situation
<1>11. CASE \/ \E p \in Procs, r \in Requests \cup {NoReq} : Connect(p, r)
            \/ \E r \in Requests : PeerSends(r)
            \/ UNCHANGED vars
  <2>1. UNCHANGED <<pc, fds, wait, stall, all_ok, running, timer_left, timer_expired,
                    wd_armed, wd_left, hw_reset>>
    BY <1>11 DEF Connect, PeerSends, vars, loopVars, tableVars, timerVars, wdVars
  <2> QED
    BY <2>1
<1>12. CASE Signal
  BY <1>12, <1>n, Timing DEF Signal, signal_handler, loopVars, timerVars, wdVars
<1>13. CASE ~hw_reset /\ Tick
  <2>1. /\ UNCHANGED <<pc, fds, all_ok, wd_armed>>
        /\ pc \in LoopPCs \cup {"stop"} =>
             /\ running' = running
             /\ \/ Blocked /\ wait' = wait - 1 /\ stall' = stall
                \/ ~Blocked /\ stall > 0 /\ stall' = stall - 1 /\ wait' = wait
    BY <1>13 DEF Tick, TimePasses, WatchdogTick
  <2>2. wd_armed => wd_left' = wd_left - 1 /\ hw_reset' = (wd_left = 1)
    BY <1>13 DEF Tick, WatchdogTick
  <2>3. ~wd_armed => ~hw_reset'
    BY <1>13 DEF Tick, WatchdogTick
  <2>4. pc \in LoopPCs =>
          IF timer_left > 1 THEN timer_left' = timer_left - 1 /\ timer_expired' = timer_expired
                            ELSE timer_left' = FeedInterval /\ timer_expired'
    BY <1>13 DEF Tick, TimerTick
  <2>5. Blocked => /\ wait > 0 /\ pc \in {"select", "read"}
                   /\ pc = "select" => ~timer_expired
    BY DEF Blocked, Ready
  <2>6. CASE pc \in LoopPCs
    <3>1. timer_expired => timer_left > 1
      BY <1>n, <2>1, <2>5, <2>6, Timing
    <3>2. (timer_expired => FeedInterval - timer_left + UntilFeed <= 2 * (ReadTimeout + MaxStall))'
      <4>1. CASE timer_expired
        <5>1. UntilFeed \in Int /\ UntilFeed' = UntilFeed - 1
          BY <1>n, <2>1, <2>5, <2>6, <4>1, Timing
        <5>2. timer_left' = timer_left - 1
          BY <2>4, <2>6, <3>1, <4>1
        <5>3. FeedInterval - timer_left + UntilFeed <= 2 * (ReadTimeout + MaxStall)
          BY <2>6, <4>1
        <5> HIDE DEF UntilFeed
        <5> QED
          BY <1>n, <5>1, <5>2, <5>3, Timing
      <4>2. CASE ~timer_expired /\ timer_expired'
        <5>1. timer_left' = FeedInterval
          BY <2>4, <2>6, <4>2
        <5>2. stall' \in 0 .. MaxStall /\ wait' \in 0 .. SelectTimeout
                /\ (pc' = "read" => wait' <= ReadTimeout)
          BY <1>b DEF BaseInv, BrokerTypeOK, Situation
        <5>3. UntilFeed' \in Int /\ UntilFeed' <= 2 * (ReadTimeout + MaxStall)
          BY <5>2, Timing
        <5>4. FeedInterval - timer_left' = 0
          BY <5>1, Timing
        <5> HIDE DEF UntilFeed
        <5>5. FeedInterval - timer_left' + UntilFeed' <= 2 * (ReadTimeout + MaxStall)
          BY <5>3, <5>4
        <5> QED
          BY <5>5
      <4> QED
        BY <4>1, <4>2
    <3>3. (all_ok /\ wd_armed =>
             IF timer_expired
               THEN wd_left >= WdTimeout - FeedInterval - (FeedInterval - timer_left)
               ELSE wd_left >= WdTimeout - FeedInterval + timer_left)'
      BY <1>n, <2>1, <2>2, <2>4, <2>6, <3>1, Timing
    <3>4. all_ok /\ wd_armed => wd_left # 1
      BY <1>n, <2>1, <2>5, <2>6, <3>1, Timing
    <3>5. all_ok => ~hw_reset'
      BY <2>2, <2>3, <3>4
    <3> QED
      BY <2>1, <2>6, <3>2, <3>3, <3>5
  <2>7. CASE pc = "stop"
    <3>1. ~Blocked /\ stall > 0 /\ stall' = stall - 1
      BY <2>1, <2>5, <2>7
    <3>2. all_ok /\ wd_armed => wd_left # 1 /\ wd_left' > stall'
      BY <1>n, <2>2, <2>7, <3>1
    <3>3. all_ok => ~hw_reset'
      BY <2>2, <2>3, <3>2
    <3> QED
      BY <2>1, <2>7, <3>2, <3>3
  <2>8. CASE pc = "pending"
    BY <2>1, <2>8 DEF BaseInv, Situation
  <2>9. CASE pc \in Ended
    BY <2>1, <2>9
  <2> QED
    BY <2>6, <2>7, <2>8, <2>9 DEF BaseInv, BrokerTypeOK, PCs
<1> QED
  BY <1>1, <1>2, <1>3, <1>4, <1>5, <1>6, <1>7, <1>8, <1>9, <1>10, <1>11, <1>12, <1>13, <1>14,
     <1>15
  DEF BrokerNext, BrokerStep, FaultStep, ClientStep, Over

\* As an invariant of the broker.
LEMMA FeedInvariant == BrokerSpec => []FeedInv
BY FeedInit, FeedNext, BaseInvariant, PTL DEF BrokerSpec

\* For every watchdog timeout whose half is longer than two read timeouts and two stalls, a
\* broker that has seen no miss is not reset while it runs, however its connections, the
\* timer and its stalls interleave.
THEOREM NeverSpurious == BrokerSpec => []NoSpuriousReset
<1>1. FeedInv => NoSpuriousReset
  BY DEF FeedInv
<1> QED
  BY <1>1, FeedInvariant, PTL

----------------------------------------------------------------------------
(* The reset comes in time *)

\* At the feed, nobody is overdue by more than the stall since the check.
LEMMA HealthyAtFeed ==
  ASSUME BaseInv, CheckInv, pc = "feed", all_ok, NEW s \in LiveSlots
  PROVE  clients[s].age <= clients[s].timeout_ms + MaxStall
<1>1. stall \in 0 .. MaxStall
  BY DEF BaseInv, BrokerTypeOK
<1>2. clients[s].age \in Nat /\ clients[s].timeout_ms \in Nat
  BY ClientNumbers DEF BaseInv, BrokerTypeOK, LiveSlots
<1>3. SinceCheck = MaxStall - stall
  BY DEF SinceCheck
<1>4. clients[s].age <= clients[s].timeout_ms + (MaxStall - stall)
  BY <1>3 DEF CheckInv, LoopPCs
<1> QED
  BY <1>1, <1>2, <1>4, Timing

\* No miss has been noticed when the broker starts.
LEMMA ResetInit == BrokerInit => ResetInv
<1> SUFFICES ASSUME BrokerInit, NEW s \in LiveSlots
             PROVE  clients[s].age + wd_left <= clients[s].timeout_ms + MaxStall + WdTimeout
  BY DEF ResetInv
<1>1. clients[s].age \in Nat /\ clients[s].timeout_ms \in Nat
  BY BaseInit, ClientNumbers DEF BaseInv, BrokerTypeOK, LiveSlots
<1>2. clients[s].age <= clients[s].timeout_ms + 0
  <2>1. SinceCheck = 0
    BY Timing DEF BrokerInit, TableInit, SinceCheck
  <2> QED
    BY <2>1, CheckInit DEF CheckInv, BrokerInit, LoopPCs
<1>3. wd_left = WdTimeout
  BY DEF BrokerInit
<1> QED
  BY <1>1, <1>2, <1>3, Timing

\* Every action leaves the watchdog the time that is left of the bound.
LEMMA ResetNext == BaseInv /\ CheckInv /\ ResetInv /\ [BrokerNext]_vars => ResetInv'
<1> SUFFICES ASSUME BaseInv, CheckInv, ResetInv, [BrokerNext]_vars,
                    WatchdogEnabled, running', NEW s \in LiveSlots'
             PROVE  clients'[s].age + wd_left'
                      <= clients'[s].timeout_ms + MaxStall + WdTimeout
  BY DEF ResetInv
<1> USE DEF LoopPCs, Ended
<1>t. TableTypeOK /\ TableTypeOK' /\ wd_left \in Nat /\ s \in Slots
  BY BaseNext DEF BaseInv, BrokerTypeOK, LiveSlots
<1>n. clients[s].age \in Nat /\ clients[s].timeout_ms \in Nat
  BY <1>t, ClientNumbers
<1>k. ASSUME running, s \in LiveSlots, clients'[s] = clients[s], wd_left' = wd_left
      PROVE  clients'[s].age + wd_left' <= clients'[s].timeout_ms + MaxStall + WdTimeout
  BY <1>k DEF ResetInv
<1>1. CASE \/ Loop \/ SelectReturns \/ SelectInterrupted \/ Accept \/ ReadNothing \/ Check
           \/ SelectFails \/ AcceptFails \/ FeedFatal \/ Kill \/ LeavePending
           \/ \E p \in Procs, r \in Requests \cup {NoReq} : Connect(p, r)
           \/ \E r \in Requests : PeerSends(r)
           \/ UNCHANGED vars
  <2>1. running' = running /\ clients' = clients /\ wd_left' = wd_left
    BY <1>1 DEF Loop, SelectReturns, SelectInterrupted, Accept, ReadNothing, NoInput, Say, Check,
                CloseConnection, SelectFails, AcceptFails, FeedFatal, Kill, LeavePending,
                Connect, PeerSends, vars, tableVars, wdVars
  <2> QED
    BY <1>k, <2>1 DEF LiveSlots
<1>2. CASE ReadRequest
  <2>1. /\ handle_command(cur.proc, cur.req) /\ cur.req # NoReq /\ cur \in Connection
        /\ wd_left' = wd_left
    BY <1>2 DEF ReadRequest, BaseInv, Situation, wdVars
  <2>2. cur.proc \in Procs /\ cur.req \in Requests
    BY <2>1 DEF Connection
  <2>3. running
    BY <2>1, HandleFlags
  <2>4. wd_left <= WdTimeout
    BY <2>3 DEF BaseInv, Situation
  <2>5. clients'[s].timeout_ms \in Nat
    <3>1. clients'[s] \in Client
      BY <1>t DEF TableTypeOK
    <3>2. clients'[s].timeout_ms \in 0 .. TimeoutMax
      BY <3>1 DEF Client
    <3> QED
      BY <3>2, Sizes
  <2>6. CASE clients'[s].age = 0
    BY <1>t, <2>1, <2>4, <2>5, <2>6, Timing
  <2>7. CASE s \in LiveSlots /\ clients'[s] = clients[s]
    BY <1>k, <2>1, <2>3, <2>7
  <2> QED
    BY <1>t, <2>1, <2>2, <2>6, <2>7, HandledAges
<1>3. CASE Feed
  <2>1. /\ pc = "feed" /\ running /\ clients' = clients /\ s \in LiveSlots
        /\ wd_left' = wd_left \/ (all_ok /\ wd_left' = wd_timeout)
    BY <1>3 DEF Feed, MayFeed, tableVars, LiveSlots
  <2>2. CASE wd_left' = wd_left
    BY <1>k, <2>1, <2>2
  <2>3. CASE all_ok /\ wd_left' = wd_timeout
    <3>1. wd_timeout = WdTimeout
      BY <2>1 DEF BaseInv, Situation
    <3>2. clients[s].age <= clients[s].timeout_ms + MaxStall
      BY <2>1, <2>3, HealthyAtFeed
    <3> QED
      BY <1>n, <2>1, <2>3, <3>1, <3>2, Timing
  <2> QED
    BY <2>1, <2>2, <2>3
<1>4. CASE Stop
  BY <1>4 DEF Stop, BaseInv, Situation, tableVars
<1>5. CASE Signal
  BY <1>5 DEF Signal, signal_handler
<1>6. CASE ~hw_reset /\ Tick
  <2>1. running
    BY <1>6 DEF Tick, TimePasses, tableVars
  <2>2. pc # "exited" /\ wd_armed
    BY <2>1 DEF BaseInv, Situation
  <2>3. TimePasses /\ wd_left' = wd_left - 1
    BY <1>6, <2>2 DEF Tick, WatchdogTick
  <2>4. /\ s \in LiveSlots
        /\ clients'[s].timeout_ms = clients[s].timeout_ms
        /\ clients'[s].age \in Nat /\ clients'[s].age <= clients[s].age + 1
    BY <1>t, <2>3, TickedAges
  <2>5. clients[s].age + wd_left <= clients[s].timeout_ms + MaxStall + WdTimeout
    BY <2>1, <2>4 DEF ResetInv
  <2> QED
    BY <1>t, <1>n, <2>3, <2>4, <2>5, Timing
<1> QED
  BY <1>1, <1>2, <1>3, <1>4, <1>5, <1>6
  DEF BrokerNext, BrokerStep, FaultStep, ClientStep, Over

\* As an invariant of the broker.
LEMMA ResetInvariant == BrokerSpec => []ResetInv
BY ResetInit, ResetNext, BaseInvariant, CheckInvariant, PTL DEF BrokerSpec

\* One watchdog period after a client's timeout, give or take one stall, the system is reset:
\* while main() loops or waits, when it crashed, and when it was killed.
THEOREM ResetInTime == BrokerSpec => []ResetBound
<1>1. ASSUME BaseInv, ResetInv PROVE ResetBound
  <2> SUFFICES ASSUME WatchdogEnabled, running, ~hw_reset, NEW s \in LiveSlots
               PROVE  clients[s].age < clients[s].timeout_ms + MaxStall + WdTimeout
    BY DEF ResetBound
  <2>1. wd_left \in Nat /\ wd_left > 0
    BY <1>1 DEF BaseInv, BrokerTypeOK, Situation
  <2>2. clients[s].age \in Nat /\ clients[s].timeout_ms \in Nat
    BY <1>1, ClientNumbers DEF BaseInv, BrokerTypeOK, LiveSlots
  <2>3. clients[s].age + wd_left <= clients[s].timeout_ms + MaxStall + WdTimeout
    BY <1>1 DEF ResetInv
  <2> QED
    BY <2>1, <2>2, <2>3, Timing
<1> QED
  BY <1>1, BaseInvariant, ResetInvariant, PTL

\* The loop feeds only when every client was in time at the check of the same iteration.
THEOREM FedWhenHealthy == BrokerSpec => FedOnlyIfHealthy
<1>1. ASSUME BaseInv, CheckInv, [BrokerNext]_vars PROVE [FedStep]_vars
  <2> SUFFICES ASSUME pc = "feed", wd_left' > wd_left, NEW s \in LiveSlots
               PROVE  clients[s].age <= clients[s].timeout_ms + MaxStall
    BY DEF FedStep
  <2>1. wd_left \in Nat
    BY <1>1 DEF BaseInv, BrokerTypeOK
  <2>2. CASE all_ok
    BY <1>1, <2>2, HealthyAtFeed
  <2>3. CASE ~all_ok
    <3>1. wd_left' = wd_left \/ wd_left' = wd_left - 1
      BY <1>1, <2>3
      DEF BrokerNext, BrokerStep, FaultStep, ClientStep, Over, Loop, SelectReturns,
          SelectInterrupted, Accept, ReadRequest, ReadNothing, Check, Feed, MayFeed,
          LeavePending, Stop, SelectFails, AcceptFails, FeedFatal, Kill, Connect, PeerSends,
          Signal, Tick, WatchdogTick, vars, wdVars
    <3> QED
      BY <2>1, <3>1
  <2> QED
    BY <2>2, <2>3
<1> QED
  BY <1>1, BaseInvariant, CheckInvariant, PTL DEF BrokerSpec, FedOnlyIfHealthy

----------------------------------------------------------------------------
(* The time i iterations can take *)

Turn == ReadTimeout + MaxStall
Span(i) == i * Turn

\* Spans add up, and that of a full queue is the longest.
LEMMA Spans ==
  /\ Turn \in Nat /\ Turn = 1 + MaxStall /\ MaxStall \in Nat /\ BacklogMax \in Nat
  /\ \A i \in Nat : Span(i) \in Nat /\ Span(i + 1) = Span(i) + Turn
  /\ \A i \in Nat : i <= BacklogMax => Span(i) <= Span(BacklogMax)
  /\ ServiceDelay = Span(BacklogMax) + Turn /\ ServiceDelay \in Nat
<1>1. Turn \in Nat /\ Turn = 1 + MaxStall /\ MaxStall \in Nat /\ BacklogMax \in Nat
  BY Timing, BrokerAssumption DEF Turn
<1> HIDE DEF Turn
<1>2. ASSUME NEW i \in Nat PROVE Span(i) \in Nat /\ Span(i + 1) = Span(i) + Turn
  BY <1>1 DEF Span
<1>3. ASSUME NEW i \in Nat, i <= BacklogMax PROVE Span(i) <= Span(BacklogMax)
  <2>1. PICK k \in Nat : BacklogMax = i + k
    <3>1. BacklogMax - i \in Nat /\ BacklogMax = i + (BacklogMax - i)
      BY <1>1, <1>3
    <3> QED BY <3>1
  <2>2. Span(BacklogMax) = Span(i) + k * Turn /\ k * Turn \in Nat
    BY <1>1, <2>1 DEF Span
  <2> QED BY <1>2, <2>2
<1>4. ServiceDelay = Span(BacklogMax + 1)
  BY DEF ServiceDelay, Span, Turn
<1> QED BY <1>1, <1>2, <1>3, <1>4

----------------------------------------------------------------------------
(* The inductive invariant *)

\* At the latest so many ticks from now connection i of the queue has been served, or the
\* loop is left.
Until(i) ==
  CASE pc = "loop" -> IF StayInLoop THEN stall + Span(i) ELSE stall
    [] pc \in {"select", "accept"} -> stall + ReadTimeout + Span(i - 1)
    [] pc = "read" -> wait + stall + Span(i)
    [] OTHER -> stall + Span(i)

QueueTypeOK ==
  /\ waited \in Seq(Nat) /\ Len(waited) = Len(backlog) /\ held \in Nat
  /\ Len(backlog) <= BacklogMax

\* What has passed and what may still come is within the bound.
WaitInv ==
  /\ ServedInTime
  /\ pc \in LoopPCs => \A i \in DOMAIN backlog : waited[i] + Until(i) <= ServiceDelay
  /\ pc = "read" => held + wait + stall <= ServiceDelay

QueueInv == QueueTypeOK /\ WaitInv

\* The history does not get in the way of the broker.
LEMMA QueueImplementsBroker == QueueSpec => BrokerSpec
<1>1. QueueInit => BrokerInit
  BY DEF QueueInit
<1>2. [QueueNext]_queueVars => [BrokerNext]_vars
  BY DEF QueueNext, BrokerNext, queueVars
<1> QED BY <1>1, <1>2, PTL DEF QueueSpec, BrokerSpec

\* The numbers in a state.
LEMMA NumbersHere ==
  ASSUME BaseInv, QueueTypeOK
  PROVE  /\ stall \in Nat /\ stall <= MaxStall /\ wait \in Nat
         /\ pc = "read" => wait <= ReadTimeout
         /\ DOMAIN backlog = 1 .. Len(backlog) /\ Len(backlog) \in Nat
         /\ \A i \in DOMAIN backlog : i \in Nat /\ i >= 1 /\ i <= BacklogMax /\ waited[i] \in Nat
<1>1. stall \in 0 .. MaxStall /\ wait \in 0 .. SelectTimeout /\ backlog \in Seq(Connection)
  BY DEF BaseInv, BrokerTypeOK
<1>2. pc = "read" => wait <= ReadTimeout
  BY DEF BaseInv, Situation
<1>3. DOMAIN backlog = 1 .. Len(backlog) /\ Len(backlog) \in Nat
  BY <1>1
<1>4. ASSUME NEW i \in DOMAIN backlog
      PROVE  i \in Nat /\ i >= 1 /\ i <= BacklogMax /\ waited[i] \in Nat
  <2>1. i \in 1 .. Len(backlog) /\ Len(backlog) <= BacklogMax
    BY <1>3, <1>4 DEF QueueTypeOK
  <2>2. waited[i] \in Nat
    BY <1>3, <2>1 DEF QueueTypeOK
  <2>3. BacklogMax \in Nat
    BY Spans
  <2>4. i \in Nat /\ i >= 1 /\ i <= BacklogMax
    BY <1>3, <2>1, <2>3
  <2> QED BY <2>2, <2>4
<1> QED BY <1>1, <1>2, <1>3, <1>4, Timing

\* Only the empty sequence has length 0.
LEMMA NoLength == ASSUME NEW S, NEW q \in Seq(S), Len(q) = 0 PROVE q = << >>
OBVIOUS

\* The history of a queue that does not change.
LEMMA SameQueue ==
  ASSUME BaseInv, QueueTypeOK, backlog' = backlog, CountStep
  PROVE  waited' = waited
<1>1. CASE backlog = << >>
  <2>1. waited = << >>
    BY <1>1 DEF QueueTypeOK
  <2> QED BY <1>1, <2>1 DEF CountStep
<1>2. CASE backlog # << >>
  <2>1. Len(backlog) \in Nat
    BY NumbersHere
  <2> QED BY <1>2, <2>1 DEF CountStep
<1> QED BY <1>1, <1>2

\* A step that does not touch the queue and brings no connection further from its turn.
LEMMA NoLonger ==
  ASSUME BaseInv, QueueInv, UNCHANGED <<backlog, waited>>, held' \in Nat, held' <= ServiceDelay,
         pc' \in LoopPCs => \A i \in DOMAIN backlog :
                              Until(i)' \in Int /\ Until(i) \in Int /\ Until(i)' <= Until(i),
         pc' \in LoopPCs => pc \in LoopPCs,
         pc' = "read" => held' + wait' + stall' <= ServiceDelay
  PROVE  QueueInv'
<1>1. QueueTypeOK'
  BY DEF QueueInv, QueueTypeOK
<1>2. ServedInTime'
  BY DEF QueueInv, WaitInv, ServedInTime
<1>3. ASSUME pc' \in LoopPCs, NEW i \in DOMAIN backlog
      PROVE  waited[i] + Until(i)' <= ServiceDelay
  <2>1. waited[i] + Until(i) <= ServiceDelay
    BY <1>3 DEF QueueInv, WaitInv
  <2>2. waited[i] \in Nat /\ Until(i)' \in Int /\ Until(i) \in Int /\ Until(i)' <= Until(i)
    BY <1>3, NumbersHere DEF QueueInv
  <2> QED BY <2>1, <2>2, Spans
<1> QED BY <1>1, <1>2, <1>3 DEF QueueInv, WaitInv

\* Until is a number.
LEMMA UntilNat ==
  ASSUME BaseInv, QueueTypeOK, NEW i \in DOMAIN backlog
  PROVE  /\ Until(i) \in Nat /\ i - 1 \in Nat
         /\ Span(i) = Span(i - 1) + Turn /\ Span(i) \in Nat /\ Span(i - 1) \in Nat
<1>1. i \in Nat /\ i - 1 \in Nat /\ stall \in Nat /\ wait \in Nat
  BY NumbersHere
<1>2. Span(i) \in Nat /\ Span(i - 1) \in Nat /\ Span((i - 1) + 1) = Span(i - 1) + Turn
  BY <1>1, Spans
<1>3. (i - 1) + 1 = i
  BY <1>1
<1>4. Until(i) \in Nat
  BY <1>1, <1>2, Timing DEF Until
<1> QED BY <1>1, <1>2, <1>3, <1>4

\* The loop's own steps, without accept().
LEMMA LoopSteps ==
  ASSUME BaseInv, BaseInv', QueueInv, CountStep,
         Loop \/ SelectReturns \/ SelectInterrupted \/ SelectFails \/ ReadRequest \/ ReadNothing
           \/ Check \/ Feed \/ LeavePending \/ Signal \/ (\E r \in Requests : PeerSends(r))
  PROVE  QueueInv'
<1>1. backlog' = backlog
  BY DEF Loop, SelectReturns, SelectInterrupted, SelectFails, ReadRequest, ReadNothing, Check, Feed,
         LeavePending, Signal, PeerSends
<1>2. waited' = waited
  BY <1>1, SameQueue DEF QueueInv
<1>3. pc' = "read" => pc = "read" /\ UNCHANGED <<wait, stall>>
  BY DEF Loop, SelectReturns, SelectInterrupted, SelectFails, ReadRequest, ReadNothing, Check, Feed,
         LeavePending, Signal, PeerSends, loopVars
<1>4. held' \in {0, held} /\ (pc' = "read" => held' = held)
  BY <1>3 DEF CountStep
<1>5. held' \in Nat /\ held' <= ServiceDelay
  <2>1. ServiceDelay \in Nat
    BY Spans
  <2> QED BY <1>4, <2>1 DEF QueueInv, QueueTypeOK, WaitInv, ServedInTime
<1>6. pc' = "read" => held' + wait' + stall' <= ServiceDelay
  BY <1>3, <1>4 DEF QueueInv, WaitInv
<1>7. pc' \in LoopPCs => pc \in LoopPCs
  BY DEF Loop, SelectReturns, SelectInterrupted, SelectFails, ReadRequest, ReadNothing, Check, Feed,
         LeavePending, Signal, PeerSends, loopVars, LoopPCs
<1>8. ASSUME pc' \in LoopPCs, NEW i \in DOMAIN backlog
      PROVE  Until(i)' \in Int /\ Until(i) \in Int /\ Until(i)' <= Until(i)
  <2>1. /\ Until(i) \in Nat
        /\ Span(i) = Span(i - 1) + Turn /\ Span(i) \in Nat /\ Span(i - 1) \in Nat
    BY <1>8, UntilNat DEF QueueInv
  <2>2. stall \in Nat /\ wait \in Nat /\ backlog # << >>
    BY <1>8, NumbersHere DEF QueueInv
  <2> HIDE DEF Turn, Span
  <2>3. CASE Loop
    <3>1. StayInLoop /\ pc = "loop" /\ pc' = "select" /\ stall' = MaxStall
      BY <1>8, <2>3 DEF Loop, LoopPCs
    <3>2. Until(i) = stall + Span(i) /\ Until(i)' = MaxStall + ReadTimeout + Span(i - 1)
      BY <3>1 DEF Until
    <3>3. Turn = ReadTimeout + MaxStall /\ ReadTimeout \in Nat /\ MaxStall \in Nat
      BY Timing DEF Turn
    <3> QED BY <2>1, <2>2, <3>2, <3>3
  <2>4. CASE SelectReturns
    BY <2>1, <2>2, <2>4, Timing DEF SelectReturns, Until, Ready
  <2>5. CASE SelectInterrupted \/ SelectFails
    <3>1. pc = "select" /\ pc' = "loop" /\ stall' = stall
      BY <2>5 DEF SelectInterrupted, SelectFails
    <3>2. ~StayInLoop'
      BY <2>5 DEF SelectInterrupted, SelectFails, StayInLoop, tableVars
    <3>3. Until(i)' = stall
      BY <3>1, <3>2 DEF Until
    <3>4. Until(i) = stall + ReadTimeout + Span(i - 1)
      BY <3>1 DEF Until
    <3> QED BY <2>1, <2>2, <3>3, <3>4, Timing
  <2>6. CASE ReadRequest \/ ReadNothing
    BY <2>1, <2>2, <2>6, Timing DEF ReadRequest, ReadNothing, Until
  <2>7. CASE Check \/ Feed
    <3>1. stall' = stall /\ pc \in {"check", "feed"} /\ pc' \in {"feed", "loop"}
      BY <2>7 DEF Check, Feed
    <3>2. Until(i) = stall + Span(i)
      BY <3>1 DEF Until
    <3>3. Until(i)' = stall + Span(i) \/ Until(i)' = stall
      BY <3>1 DEF Until
    <3> QED BY <2>1, <2>2, <3>2, <3>3
  <2>8. CASE LeavePending
    BY <1>8, <2>8 DEF LeavePending, LoopPCs
  <2>9. CASE Signal
    BY <2>1, <2>2, <2>9, Timing DEF Signal, signal_handler, loopVars, Until, StayInLoop
  <2>10. CASE \E r \in Requests : PeerSends(r)
    BY <2>1, <2>2, <2>10, Timing DEF PeerSends, tableVars, Until, StayInLoop
  <2> QED BY <2>3, <2>4, <2>5, <2>6, <2>7, <2>8, <2>9, <2>10
<1> QED BY <1>1, <1>2, <1>5, <1>6, <1>7, <1>8, NoLonger

\* accept() takes the first connection; the others are one place nearer.
LEMMA AcceptStep ==
  ASSUME BaseInv, BaseInv', QueueInv, CountStep, Accept
  PROVE  QueueInv'
<1>1. /\ pc = "accept" /\ pc' = "read" /\ wait' = ReadTimeout /\ stall' = stall
      /\ backlog' = Tail(backlog) /\ backlog # << >>
  BY DEF Accept, BaseInv, Situation
<1>2. /\ backlog \in Seq(Connection) /\ waited \in Seq(Nat) /\ Len(waited) = Len(backlog)
      /\ waited # << >> /\ stall \in Nat /\ Len(backlog) \in Nat /\ Len(backlog) >= 1
      /\ Len(backlog) <= BacklogMax
  BY <1>1 DEF BaseInv, BrokerTypeOK, QueueInv, QueueTypeOK
<1>3. Len(backlog') = Len(backlog) - 1 /\ waited' = Tail(waited) /\ held' = waited[1]
  <2>1. Len(backlog') = Len(backlog) - 1
    BY <1>1, <1>2
  <2>2. CASE backlog' = << >>
    <3>1. Len(backlog') = 0
      BY <2>2
    <3>2. Tail(waited) \in Seq(Nat) /\ Len(Tail(waited)) = 0
      BY <1>2, <2>1, <3>1
    <3>3. Tail(waited) = << >>
      BY <3>2, NoLength
    <3> QED BY <1>1, <1>2, <2>1, <2>2, <3>3 DEF CountStep
  <2>3. CASE backlog' # << >>
    BY <1>1, <1>2, <2>1, <2>3 DEF CountStep
  <2> QED BY <2>2, <2>3
<1>4. QueueTypeOK'
  <2>1. BacklogMax \in Nat
    BY Spans
  <2> QED BY <1>1, <1>2, <1>3, <2>1 DEF QueueTypeOK
<1>5. \A i \in DOMAIN backlog : waited[i] + (stall + ReadTimeout + Span(i - 1)) <= ServiceDelay
  BY <1>1 DEF QueueInv, WaitInv, LoopPCs, Until
<1> HIDE DEF Span, Turn
<1>6. held' + wait' + stall' <= ServiceDelay /\ held' <= ServiceDelay
  <2>1. waited[1] + (stall + ReadTimeout + Span(1 - 1)) <= ServiceDelay
    BY <1>2, <1>5
  <2>2. Span(1 - 1) = 0
    BY Spans DEF Span
  <2>3. waited[1] \in Nat
    BY <1>2
  <2>4. ReadTimeout \in Nat /\ ServiceDelay \in Nat
    BY Spans, Timing
  <2> QED BY <1>1, <1>2, <1>3, <2>1, <2>2, <2>3, <2>4
<1>7. ASSUME NEW i \in DOMAIN backlog'
      PROVE  waited'[i] + (wait' + stall' + Span(i)) <= ServiceDelay /\ waited'[i] <= ServiceDelay
  <2>1. i \in Nat /\ i >= 1 /\ i + 1 \in DOMAIN backlog /\ waited'[i] = waited[i + 1]
    BY <1>1, <1>2, <1>3
  <2>2. waited[i + 1] + (stall + ReadTimeout + Span((i + 1) - 1)) <= ServiceDelay
    BY <1>5, <2>1
  <2>3. (i + 1) - 1 = i
    BY <2>1
  <2>4. waited[i + 1] \in Nat
    BY <1>2, <2>1
  <2>5. ReadTimeout \in Nat /\ ServiceDelay \in Nat /\ Span(i) \in Nat
    BY <2>1, Spans, Timing
  <2> QED BY <1>1, <1>2, <2>1, <2>2, <2>3, <2>4, <2>5
<1>8. WaitInv'
  BY <1>1, <1>6, <1>7 DEF WaitInv, ServedInTime, Until
<1> QED BY <1>4, <1>8 DEF QueueInv

\* A new connection finds at most a full queue before it.
LEMMA ConnectStep ==
  ASSUME BaseInv, BaseInv', QueueInv, CountStep,
         NEW p \in Procs, NEW r \in Requests \cup {NoReq}, Connect(p, r)
  PROVE  QueueInv'
<1>1. /\ backlog' = Append(backlog, [proc |-> p, req |-> r]) /\ Len(backlog) < BacklogMax
      /\ pc \in LoopPCs
      /\ UNCHANGED <<pc, wait, stall, all_ok, running>>
  BY DEF Connect, loopVars, tableVars
<1>2. /\ backlog \in Seq(Connection) /\ waited \in Seq(Nat) /\ Len(waited) = Len(backlog)
      /\ Len(backlog) \in Nat /\ held \in Nat /\ BacklogMax \in Nat
  BY Spans DEF BaseInv, BrokerTypeOK, QueueInv, QueueTypeOK
<1>3. Len(backlog') = Len(backlog) + 1 /\ backlog' # << >>
  BY <1>1, <1>2
<1>4. waited' = Append(waited, 0) /\ (pc = "read" => held' = held) /\ held' \in {0, held}
  BY <1>1, <1>2, <1>3 DEF CountStep
<1>5. QueueTypeOK'
  BY <1>1, <1>2, <1>3, <1>4 DEF QueueTypeOK
<1>6. StayInLoop' = StayInLoop /\ \A i : Until(i)' = Until(i)
  BY <1>1 DEF StayInLoop, Until
<1>7. ASSUME NEW i \in DOMAIN backlog'
      PROVE  waited'[i] + Until(i)' <= ServiceDelay /\ waited'[i] <= ServiceDelay
  <2>1. CASE i \in DOMAIN backlog
    <3>1. waited'[i] = waited[i]
      BY <1>2, <1>4, <2>1
    <3> QED BY <1>1, <1>6, <2>1, <3>1 DEF QueueInv, WaitInv, ServedInTime
  <2>2. CASE i \notin DOMAIN backlog
    <3>1. i = Len(backlog) + 1 /\ waited'[i] = 0 /\ i \in Nat /\ i <= BacklogMax /\ i >= 1
      BY <1>1, <1>2, <1>3, <1>4, <2>2
    <3>2. /\ Span(i) \in Nat /\ Span(i - 1) \in Nat /\ Span(i - 1) <= Span(BacklogMax)
          /\ Span(i) <= Span(BacklogMax) /\ Span(BacklogMax) \in Nat
      <4>1. i - 1 \in Nat /\ i - 1 <= BacklogMax
        BY <1>2, <3>1
      <4> QED BY <1>2, <3>1, <4>1, Spans
    <3>3. /\ stall \in Nat /\ stall <= MaxStall /\ wait \in Nat
          /\ pc = "read" => wait <= ReadTimeout
      BY NumbersHere DEF QueueInv
    <3>4. /\ ServiceDelay = Span(BacklogMax) + Turn /\ ServiceDelay \in Nat
          /\ Turn = ReadTimeout + MaxStall /\ ReadTimeout \in Nat /\ MaxStall \in Nat
      BY Spans, Timing DEF Turn
    <3> HIDE DEF Span, Turn
    <3>5. Until(i) \in Nat /\ Until(i) <= ServiceDelay
      BY <3>2, <3>3, <3>4 DEF Until
    <3> QED BY <1>6, <3>1, <3>4, <3>5
  <2> QED BY <2>1, <2>2
<1>8. held' <= ServiceDelay /\ (pc' = "read" => held' + wait' + stall' <= ServiceDelay)
  <2>1. ServiceDelay \in Nat
    BY Spans
  <2> QED BY <1>1, <1>2, <1>4, <2>1 DEF QueueInv, WaitInv, ServedInTime
<1>9. WaitInv'
  BY <1>1, <1>7, <1>8 DEF WaitInv, ServedInTime
<1> QED BY <1>5, <1>9 DEF QueueInv

\* The end of the process, and the way out.
LEMMA EndStep ==
  ASSUME BaseInv', QueueInv, CountStep, backlog' = << >>, pc' \in Ended
  PROVE  QueueInv'
<1>1. waited' = << >> /\ held' = 0 /\ pc' \notin LoopPCs
  BY DEF CountStep, Ended, LoopPCs
<1>2. BacklogMax \in Nat /\ ServiceDelay \in Nat
  BY Spans
<1>3. QueueTypeOK'
  BY <1>1, <1>2 DEF QueueTypeOK
<1>4. WaitInv'
  BY <1>1, <1>2 DEF WaitInv, ServedInTime, LoopPCs
<1> QED BY <1>3, <1>4 DEF QueueInv

\* In a tick every connection has waited one tick more and has one tick less to go.
LEMMA QueueTick ==
  ASSUME BaseInv, BaseInv', QueueInv, Tick, CountTick
  PROVE  QueueInv'
<1>1. UNCHANGED <<pc, backlog, running, all_ok>>
  BY DEF Tick, TimePasses, tableVars
<1>2. CASE pc \notin LoopPCs
  <2>1. UNCHANGED <<waited, held>> /\ pc # "read"
    BY <1>2 DEF CountTick, LoopPCs
  <2> QED BY <1>1, <1>2, <2>1 DEF QueueInv, QueueTypeOK, WaitInv, ServedInTime
<1>3. CASE pc \in LoopPCs
  <2>1. /\ waited' = [i \in DOMAIN waited |-> waited[i] + 1]
        /\ held' = IF pc = "read" THEN held + 1 ELSE held
    BY <1>3 DEF CountTick
  <2>2. /\ backlog \in Seq(Connection) /\ waited \in Seq(Nat) /\ Len(waited) = Len(backlog)
        /\ Len(backlog) \in Nat /\ held \in Nat
        /\ DOMAIN waited = DOMAIN backlog
    BY DEF BaseInv, BrokerTypeOK, QueueInv, QueueTypeOK
  <2>3. waited' \in Seq(Nat) /\ Len(waited') = Len(waited) /\ held' \in Nat
    BY <2>1, <2>2
  <2>4. QueueTypeOK'
    BY <1>1, <2>2, <2>3 DEF QueueInv, QueueTypeOK
  <2>5. \/ wait' = wait - 1 /\ stall' = stall /\ (pc = "select" => backlog = << >>)
              /\ pc \in {"select", "read"}
        \/ stall' = stall - 1 /\ wait' = wait
    BY <1>3 DEF Tick, Blocked, Ready, LoopPCs, Ended
  <2>6. stall \in Nat /\ wait \in Nat /\ stall' \in Nat /\ wait' \in Nat
    <3>1. stall \in Nat /\ wait \in Nat
      BY NumbersHere DEF QueueInv
    <3>2. stall' \in 0 .. MaxStall /\ wait' \in 0 .. SelectTimeout
      BY DEF BaseInv, BrokerTypeOK
    <3> QED BY <3>1, <3>2, Timing
  <2>7. ASSUME NEW i \in DOMAIN backlog
        PROVE  waited'[i] + Until(i)' <= ServiceDelay /\ waited'[i] <= ServiceDelay
    <3>1. waited'[i] = waited[i] + 1 /\ waited[i] \in Nat /\ backlog # << >>
      BY <2>1, <2>2, NumbersHere DEF QueueInv
    <3>2. waited[i] + Until(i) <= ServiceDelay /\ Until(i) \in Nat
      BY <1>3, UntilNat DEF QueueInv, WaitInv
    <3>3. /\ Span(i) \in Nat /\ Span(i - 1) \in Nat /\ ReadTimeout \in Nat
          /\ ServiceDelay \in Nat
      BY UntilNat, Spans, Timing DEF QueueInv
    <3> HIDE DEF Span, Turn
    <3>4. StayInLoop' = StayInLoop
      BY <1>1 DEF StayInLoop
    <3>5. Until(i)' = Until(i) - 1
      <4>1. CASE wait' = wait - 1 /\ stall' = stall /\ pc = "read"
        <5>1. Until(i) = wait + stall + Span(i) /\ Until(i)' = wait' + stall' + Span(i)
          BY <1>1, <4>1 DEF Until
        <5> QED BY <2>6, <3>3, <4>1, <5>1
      <4>2. CASE stall' = stall - 1 /\ wait' = wait
        <5>1. Until(i)' = Until(i) - 1
          <6>1. CASE pc = "loop"
            <7>1. CASE StayInLoop
              <8>1. Until(i) = stall + Span(i) /\ Until(i)' = stall' + Span(i)
                BY <1>1, <3>4, <6>1, <7>1 DEF Until
              <8> QED BY <2>6, <3>3, <4>2, <8>1
            <7>2. CASE ~StayInLoop
              <8>1. Until(i) = stall /\ Until(i)' = stall'
                BY <1>1, <3>4, <6>1, <7>2 DEF Until
              <8> QED BY <4>2, <8>1
            <7> QED BY <7>1, <7>2
          <6>2. CASE pc \in {"select", "accept"}
            <7>1. /\ Until(i) = stall + ReadTimeout + Span(i - 1)
                  /\ Until(i)' = stall' + ReadTimeout + Span(i - 1)
              BY <1>1, <6>2 DEF Until
            <7> QED BY <2>6, <3>3, <4>2, <7>1
          <6>3. CASE pc = "read"
            <7>1. Until(i) = wait + stall + Span(i) /\ Until(i)' = wait' + stall' + Span(i)
              BY <1>1, <6>3 DEF Until
            <7> QED BY <2>6, <3>3, <4>2, <7>1
          <6>4. CASE pc \in {"check", "feed"}
            <7>1. Until(i) = stall + Span(i) /\ Until(i)' = stall' + Span(i)
              BY <1>1, <6>4 DEF Until
            <7> QED BY <2>6, <3>3, <4>2, <7>1
          <6> QED BY <1>3, <6>1, <6>2, <6>3, <6>4 DEF LoopPCs
        <5> QED BY <5>1
      <4> QED BY <2>5, <3>1, <4>1, <4>2
    <3>6. Until(i)' \in Nat
      <4>1. \/ Until(i)' = stall' + Span(i) \/ Until(i)' = stall'
            \/ Until(i)' = stall' + ReadTimeout + Span(i - 1)
            \/ Until(i)' = wait' + stall' + Span(i)
        BY <1>1, <1>3 DEF Until, LoopPCs
      <4> QED BY <2>6, <3>3, <4>1
    <3> QED BY <3>1, <3>2, <3>3, <3>5, <3>6
  <2>8. held' <= ServiceDelay /\ (pc' = "read" => held' + wait' + stall' <= ServiceDelay)
    <3>1. ServiceDelay \in Nat
      BY Spans
    <3>2. CASE pc = "read"
      <4>1. held + wait + stall <= ServiceDelay /\ held' = held + 1
        BY <2>1, <3>2 DEF QueueInv, WaitInv
      <4>2. wait' + stall' = wait + stall - 1
        <5>1. \/ wait' = wait - 1 /\ stall' = stall
              \/ stall' = stall - 1 /\ wait' = wait
          BY <2>5
        <5>2. CASE wait' = wait - 1 /\ stall' = stall
          BY <2>6, <5>2
        <5>3. CASE stall' = stall - 1 /\ wait' = wait
          BY <2>6, <5>3
        <5> QED BY <5>1, <5>2, <5>3
      <4>3. held \in Nat /\ held' \in Nat
        BY <2>2, <2>3
      <4>4. held' + wait' + stall' <= ServiceDelay /\ held' <= ServiceDelay
        <5>1. PICK h \in Nat, w \in Nat, t \in Nat : h = held' /\ w = wait' /\ t = stall'
          BY <2>6, <4>3
        <5>2. h = held + 1 /\ w + t = wait + stall - 1
          BY <4>1, <4>2, <5>1
        <5>3. h + w + t <= ServiceDelay /\ h <= ServiceDelay
          BY <2>6, <3>1, <4>1, <4>3, <5>2
        <5> QED BY <5>1, <5>3
      <4> QED BY <4>4
    <3>3. CASE pc # "read"
      BY <1>1, <2>1, <3>3 DEF QueueInv, WaitInv, ServedInTime
    <3> QED BY <3>2, <3>3
  <2> QED BY <1>1, <2>4, <2>7, <2>8 DEF QueueInv, WaitInv, ServedInTime
<1> QED BY <1>2, <1>3

\* The invariant is inductive.
LEMMA QueueStep ==
  ASSUME "accept" \notin Faults, BaseInv, BaseInv', QueueInv, [QueueNext]_queueVars
  PROVE  QueueInv'
<1>1. CASE ~hw_reset /\ Tick /\ CountTick
  BY <1>1, QueueTick
<1>2. CASE BrokerStep /\ CountStep
  <2>1. CASE Stop
    <3>1. backlog' = << >> /\ pc' \in Ended
      BY <2>1 DEF Stop, RebootFailsafe, Disarm, End, Ended
    <3> QED BY <1>2, <3>1, EndStep
  <2> QED BY <1>2, <2>1, LoopSteps, AcceptStep DEF BrokerStep
<1>3. CASE FaultStep /\ CountStep
  <2>1. CASE FeedFatal \/ Kill
    <3>1. backlog' = << >> /\ pc' \in Ended
      BY <2>1 DEF FeedFatal, Kill, End, Ended
    <3> QED BY <1>3, <3>1, EndStep
  <2>2. ~AcceptFails
    BY DEF AcceptFails
  <2> QED BY <1>3, <2>1, <2>2, LoopSteps DEF FaultStep
<1>4. CASE (ClientStep \/ Signal) /\ CountStep
  BY <1>4, LoopSteps, ConnectStep DEF ClientStep
<1>5. CASE UNCHANGED queueVars
  <2>1. UNCHANGED <<backlog, waited, held, pc, wait, stall, all_ok, running>>
    BY <1>5 DEF queueVars, vars, loopVars, tableVars
  <2>2. \A i : Until(i)' = Until(i)
    BY <2>1 DEF Until, StayInLoop
  <2> QED BY <2>1, <2>2 DEF QueueInv, QueueTypeOK, WaitInv, ServedInTime
<1>6. CASE Over /\ UNCHANGED <<waited, held>>
  BY <1>5, <1>6 DEF Over, queueVars
<1> QED BY <1>1, <1>2, <1>3, <1>4, <1>5, <1>6 DEF QueueNext

\* Unless accept() fails, the invariant holds throughout.
LEMMA QueueInvariant == "accept" \notin Faults => (QueueSpec => []QueueInv)
<1> SUFFICES ASSUME "accept" \notin Faults PROVE QueueSpec => []QueueInv
  OBVIOUS
<1>1. QueueInit => QueueInv
  <2> SUFFICES ASSUME QueueInit PROVE QueueInv
    OBVIOUS
  <2>1. backlog = << >> /\ waited = << >> /\ held = 0 /\ pc = "loop"
    BY DEF QueueInit, BrokerInit
  <2>2. BacklogMax \in Nat /\ ServiceDelay \in Nat
    BY Spans
  <2> QED BY <2>1, <2>2 DEF QueueInv, QueueTypeOK, WaitInv, ServedInTime
<1>2. BaseInv /\ BaseInv' /\ QueueInv /\ [QueueNext]_queueVars => QueueInv'
  BY QueueStep
<1> QED BY <1>1, <1>2, QueueImplementsBroker, BaseInvariant, PTL DEF QueueSpec

\* Every connection is served within ServiceDelay, for any length of the queue and any stall.
THEOREM QueueBound == "accept" \notin Faults => (QueueSpec => []ServedInTime)
<1> SUFFICES ASSUME "accept" \notin Faults PROVE QueueSpec => []ServedInTime
  OBVIOUS
<1>1. QueueInv => ServedInTime
  BY DEF QueueInv, WaitInv
<1>2. QueueSpec => []QueueInv
  BY QueueInvariant
<1> QED BY <1>1, <1>2, PTL

\* A heartbeat that is queued ServiceDelay ahead of the deadline always counts.
THEOREM PunctualCounts == "accept" \notin Faults => (QueueSpec => []PunctualNotMissed)
<1> SUFFICES ASSUME "accept" \notin Faults PROVE QueueSpec => []PunctualNotMissed
  OBVIOUS
<1>1. BaseInv /\ QueueInv => PunctualNotMissed
  <2> SUFFICES ASSUME BaseInv, QueueInv PROVE PunctualNotMissed
    OBVIOUS
  <2>1. ASSUME NEW s \in LiveSlots, NEW w \in Nat, w <= ServiceDelay,
               clients[s].age - w + ServiceDelay <= clients[s].timeout_ms
        PROVE  ~Missed(clients[s])
    <3>1. clients[s].age \in Nat /\ clients[s].timeout_ms \in Nat
      BY ClientNumbers DEF BaseInv, BrokerTypeOK, LiveSlots
    <3>2. ServiceDelay \in Nat
      BY Spans
    <3>3. clients[s].age <= clients[s].timeout_ms
      BY <2>1, <3>1, <3>2
    <3> QED BY <3>1, <3>3 DEF Missed
  <2>2. ASSUME NEW s \in LiveSlots, NEW i \in DOMAIN backlog, Punctual(backlog[i], waited[i], s)
        PROVE  ~Missed(clients[s])
    <3>1. waited[i] \in Nat /\ waited[i] <= ServiceDelay
      BY NumbersHere DEF QueueInv, WaitInv, ServedInTime
    <3> QED BY <2>1, <2>2, <3>1 DEF Punctual
  <2>3. ASSUME NEW s \in LiveSlots, Punctual(cur, held, s)
        PROVE  ~Missed(clients[s])
    <3>1. held \in Nat /\ held <= ServiceDelay
      BY DEF QueueInv, QueueTypeOK, WaitInv, ServedInTime
    <3> QED BY <2>1, <2>3, <3>1 DEF Punctual
  <2> QED BY <2>2, <2>3 DEF PunctualNotMissed
<1>2. QueueSpec => []QueueInv
  BY QueueInvariant
<1> QED BY <1>1, <1>2, QueueImplementsBroker, BaseInvariant, PTL

=============================================================================
