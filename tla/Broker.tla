------------------------------- MODULE Broker -------------------------------
(***************************************************************************)
(* The main loop of wd-broker (main() in src/wd-broker.c, from the loop to *)
(* the end), the connections queued at its socket, the feed timer and the  *)
(* hardware watchdog.  pc says where main() is:                            *)
(*   loop     the test of while (running && all_ok)                        *)
(*   select   blocked in select() on the server socket and the timer       *)
(*   accept   about to accept() the connection select() reported           *)
(*   read     in handle_command, waiting for the request                   *)
(*   check    about to close the connection and check the client timeouts  *)
(*   feed     about to look at the timer and feed the watchdog             *)
(*   pending  SYSTEM RESET PENDING, the while (running) loop               *)
(*   stop     past both loops                                              *)
(*   exited   main() has returned                                          *)
(*   crashed  the process ended in a fatal error or was killed             *)
(*                                                                         *)
(* A tick is half a second.  Waiting in a system call takes the time the   *)
(* call waits; everything else takes no time, except that the scheduler    *)
(* may withhold the processor for MaxStall ticks in one loop iteration.    *)
(***************************************************************************)
EXTENDS ClientTable

CONSTANTS
  wd_timeout_s,      \* config.wd_timeout_s
  reboot_timeout_s,  \* config.reboot_timeout_s
  WatchdogEnabled,   \* started without --no-watchdog
  MaxStall,          \* bound: ticks without the processor in one loop iteration
  BacklogMax,        \* the length of the listen() queue
  Faults,            \* the calls that may fail, see Fault
  MaxIDs             \* bound: clients stop sending REGISTER when so many IDs can be drawn

Fault == {"select", "accept", "peercred", "timer", "feed", "settimeout", "disarm", "kill"}

\* The timeval of select(), 1 s, and WD_READ_TIMEOUT_MS, 500 ms, in ticks.
SelectTimeout == 2
ReadTimeout == 1

WdTimeout == 2 * wd_timeout_s
RebootTimeout == 2 * reboot_timeout_s

\* Faulty: the timer has the period of the watchdog itself.
Bug_FeedInterval_full == WdTimeout

\* timer_spec: half the watchdog timeout, in whole seconds.
FeedInterval == 2 * (wd_timeout_s \div 2)

\* Two client checks are at most this far apart.
DetectionDelay == SelectTimeout + ReadTimeout + 2 * MaxStall

ASSUME BrokerAssumption ==
  /\ wd_timeout_s \in Nat /\ reboot_timeout_s \in Nat \ {0}
  /\ WatchdogEnabled \in BOOLEAN
  /\ MaxStall \in Nat
  /\ 2 * (ReadTimeout + MaxStall) < FeedInterval
  /\ BacklogMax \in Nat \ {0}
  /\ Faults \subseteq Fault
  /\ MaxIDs \in Nat
  /\ AgeCap > TimeoutMax + DetectionDelay + WdTimeout

VARIABLES
  pc,            \* where main() is
  fds,           \* fd_set fds as select() left it
  cur,           \* the connection accepted last
  wait,          \* ticks until the timeout of the select() being waited in
  stall,         \* ticks the scheduler may still take away in this iteration
  all_ok,        \* the local all_ok
  backlog,       \* connections queued at the server socket
  timer_left,    \* ticks until timer_fd expires
  timer_expired, \* timer_fd can be read
  wd_armed,      \* the hardware watchdog counts
  wd_timeout,    \* what it starts from when fed
  wd_left,       \* ticks until it resets the system
  hw_reset       \* it has reset the system

loopVars == <<pc, fds, cur, wait, stall, all_ok>>
timerVars == <<timer_left, timer_expired>>
wdVars == <<wd_armed, wd_timeout, wd_left, hw_reset>>
vars == <<tableVars, loopVars, backlog, timerVars, wdVars>>

LoopPCs == {"loop", "select", "accept", "read", "check", "feed"}
Ended == {"exited", "crashed"}
PCs == LoopPCs \cup Ended \cup {"pending", "stop"}

\* A connection whose peer has not sent anything yet has request NoReq.
NoReq == [cmd |-> "nothing"]
NoConn == [proc |-> 0, req |-> NoReq]
Connection == [proc : Procs, req : Requests \cup {NoReq}]

BrokerInit ==
  /\ TableInit
  /\ pc = "loop" /\ fds = {} /\ cur = NoConn /\ wait = 0 /\ stall = MaxStall
  /\ all_ok = TRUE
  /\ backlog = << >>
  /\ timer_left = FeedInterval /\ timer_expired = FALSE
  /\ wd_armed = WatchdogEnabled /\ wd_timeout = WdTimeout /\ wd_left = WdTimeout
  /\ hw_reset = FALSE

----------------------------------------------------------------------------
(* Clients and signals *)

\* The clientIDs that can have been drawn once every request queued is served.
RegistersQueued ==
  Cardinality({i \in DOMAIN backlog : backlog[i].req.cmd = "REGISTER"})
    + (IF cur.req.cmd = "REGISTER" THEN 1 ELSE 0)

MaySend(r) == r.cmd = "REGISTER" => issued + RegistersQueued < MaxIDs

\* A peer connects and sends its request, or nothing for now.
Connect(p, r) ==
  /\ pc \in LoopPCs
  /\ Len(backlog) < BacklogMax
  /\ r # NoReq => MaySend(r)
  /\ backlog' = Append(backlog, [proc |-> p, req |-> r])
  /\ UNCHANGED <<tableVars, loopVars, timerVars, wdVars>>

\* The peer whose request the broker is waiting for sends it.
PeerSends(r) ==
  /\ pc = "read" /\ cur.req = NoReq
  /\ MaySend(r)
  /\ cur' = [cur EXCEPT !.req = r]
  /\ UNCHANGED <<tableVars, pc, fds, wait, stall, all_ok, backlog, timerVars, wdVars>>

Signal ==
  /\ pc \notin Ended /\ running
  /\ signal_handler
  /\ UNCHANGED <<loopVars, backlog, timerVars, wdVars>>

----------------------------------------------------------------------------
(* The main loop *)

\* Faulty: only a missed heartbeat ends the loop.
Bug_StayInLoop_ignoresSignal == all_ok

StayInLoop == running /\ all_ok

Loop ==
  /\ pc = "loop"
  /\ pc' = IF StayInLoop THEN "select" ELSE IF all_ok THEN "stop" ELSE "pending"
  /\ wait' = IF StayInLoop THEN SelectTimeout ELSE 0
  /\ stall' = IF StayInLoop THEN MaxStall ELSE stall
  /\ UNCHANGED <<tableVars, fds, cur, all_ok, backlog, timerVars, wdVars>>

\* The descriptors select() finds readable.
Ready ==
  {f \in {"server", "timer"} : IF f = "server" THEN backlog # << >> ELSE timer_expired}

SelectReturns ==
  /\ pc = "select"
  /\ Ready # {} \/ wait = 0
  /\ fds' = Ready
  /\ pc' = IF "server" \in Ready THEN "accept" ELSE "check"
  /\ wait' = 0
  /\ UNCHANGED <<tableVars, cur, stall, all_ok, backlog, timerVars, wdVars>>

\* EINTR: a signal that arrives while select() waits.  One that arrives between the
\* test of running and the call is not noticed: this step need not be taken.
SelectInterrupted ==
  /\ pc = "select" /\ ~running
  /\ pc' = "loop" /\ wait' = 0
  /\ UNCHANGED <<tableVars, fds, cur, stall, all_ok, backlog, timerVars, wdVars>>

SelectFails ==
  /\ pc = "select" /\ "select" \in Faults
  /\ pc' = "loop" /\ wait' = 0 /\ all_ok' = FALSE
  /\ UNCHANGED <<tableVars, fds, cur, stall, backlog, timerVars, wdVars>>

\* Faulty: a silent connection is waited for as long as select() waits for one.
Bug_Accept_patient ==
  /\ pc = "accept"
  /\ cur' = Head(backlog) /\ backlog' = Tail(backlog)
  /\ pc' = "read" /\ wait' = SelectTimeout
  /\ UNCHANGED <<tableVars, fds, stall, all_ok, timerVars, wdVars>>

Accept ==
  /\ pc = "accept"
  /\ cur' = Head(backlog) /\ backlog' = Tail(backlog)
  /\ pc' = "read" /\ wait' = ReadTimeout
  /\ UNCHANGED <<tableVars, fds, stall, all_ok, timerVars, wdVars>>

\* EAGAIN, ECONNABORTED and EINTR are ignored, any other error stops the feeding.
AcceptFails ==
  /\ pc = "accept" /\ "accept" \in Faults
  /\ pc' = "check"
  /\ all_ok' \in {TRUE, FALSE} /\ (all_ok' => all_ok)
  /\ UNCHANGED <<tableVars, fds, cur, wait, stall, backlog, timerVars, wdVars>>

\* handle_command with a request, from the read to the reply.
ReadRequest ==
  /\ pc = "read" /\ cur.req # NoReq
  /\ handle_command(cur.proc, cur.req)
  /\ pc' = "check" /\ cur' = NoConn /\ wait' = 0
  /\ UNCHANGED <<fds, stall, all_ok, backlog, timerVars, wdVars>>

\* handle_command without one: timeout, end of file, a signal, or no credentials.
ReadNothing ==
  /\ pc = "read" /\ (cur.req = NoReq \/ "peercred" \in Faults)
  /\ NoInput(cur.proc)
  /\ pc' = "check" /\ cur' = NoConn /\ wait' = 0
  /\ UNCHANGED <<fds, stall, all_ok, backlog, timerVars, wdVars>>

\* Faulty: clients that were announced and never registered are not checked.
Bug_Missed_activeOnly(c) == c.active /\ c.age > c.timeout_ms

\* The client in slot c has missed its heartbeat, or its registration.
Missed(c) == Live(c) /\ c.age > c.timeout_ms

\* Faulty: the loop over the table ends at the first client that is heard.
Bug_NoneMissed_first == \A s \in Slots : FirstOf(s, LiveSlots) => ~Missed(clients[s])

NoneMissed == \A s \in Slots : ~Missed(clients[s])

Check ==
  /\ pc = "check"
  /\ CloseConnection
  /\ all_ok' = (all_ok /\ NoneMissed)
  /\ pc' = "feed"
  /\ UNCHANGED <<fds, cur, wait, stall, backlog, timerVars, wdVars>>

\* Faulty: feeds whatever the check said.
Bug_MayFeed_always == wd_armed

MayFeed == all_ok /\ wd_armed

Feed ==
  /\ pc = "feed"
  /\ IF "timer" \in fds
       THEN /\ timer_expired' = FALSE
            /\ wd_left' = IF MayFeed THEN wd_timeout ELSE wd_left
       ELSE UNCHANGED <<timer_expired, wd_left>>
  /\ fds' = {} /\ pc' = "loop"
  /\ UNCHANGED <<tableVars, cur, wait, stall, all_ok, backlog, timer_left,
                 wd_armed, wd_timeout, hw_reset>>

----------------------------------------------------------------------------
(* Ways out *)

\* What is left of the process once it has ended in p.
End(p) == pc' = p /\ fds' = {} /\ cur' = NoConn /\ wait' = 0 /\ backlog' = << >>

\* The reads and writes that end in fatal_error; the device is closed without 'V'.
FeedFatal ==
  /\ pc = "feed" /\ "timer" \in fds
  /\ "timer" \in Faults \/ ("feed" \in Faults /\ MayFeed)
  /\ End("crashed")
  /\ UNCHANGED <<tableVars, stall, all_ok, timerVars, wdVars>>

\* SIGKILL or a fault of the program.
Kill ==
  /\ pc \notin Ended /\ "kill" \in Faults
  /\ End("crashed")
  /\ UNCHANGED <<tableVars, stall, all_ok, timerVars, wdVars>>

\* Faulty: the loop that waits for the reset is missing.
Bug_MayLeave_always == TRUE

MayLeave == ~running

LeavePending ==
  /\ pc = "pending" /\ MayLeave
  /\ pc' = "stop" /\ stall' = MaxStall
  /\ UNCHANGED <<tableVars, fds, cur, wait, all_ok, backlog, timerVars, wdVars>>

\* The reboot failsafe: SETTIMEOUT, which also feeds where it succeeds, then a feed.
RebootFailsafe ==
  /\ \/ wd_timeout' = RebootTimeout
     \/ "settimeout" \in Faults /\ wd_timeout' = wd_timeout
  /\ \/ wd_left' = wd_timeout' /\ End("exited")
     \/ "feed" \in Faults /\ wd_left' \in {wd_left, wd_timeout'} /\ End("crashed")
  /\ UNCHANGED wd_armed

\* 'V' and WDIOS_DISABLECARD: where the driver refuses both, writing still feeds.
Disarm ==
  /\ \/ wd_armed' = FALSE /\ UNCHANGED wd_left
     \/ "disarm" \in Faults /\ UNCHANGED wd_armed /\ wd_left' \in {wd_left, wd_timeout}
  /\ End("exited")
  /\ UNCHANGED wd_timeout

\* Faulty: the watchdog is stopped on the way out in any case.
Bug_KeepArmed_never == FALSE

KeepArmed == reboot

Stop ==
  /\ pc = "stop"
  /\ \/ wd_armed /\ KeepArmed /\ RebootFailsafe
     \/ wd_armed /\ ~KeepArmed /\ Disarm
     \/ ~wd_armed /\ End("exited") /\ UNCHANGED <<wd_armed, wd_timeout, wd_left>>
  /\ UNCHANGED <<tableVars, stall, all_ok, timerVars, hw_reset>>

----------------------------------------------------------------------------
(* Time *)

\* main() waits in a system call that has nothing to return yet.
Blocked ==
  \/ pc = "select" /\ Ready = {} /\ wait > 0
  \/ pc = "read" /\ cur.req = NoReq /\ wait > 0

\* Faulty: it_interval is not set, the timer expires once.
Bug_TimerTick_oneShot ==
  /\ timer_left' = IF timer_left > 0 THEN timer_left - 1 ELSE 0
  /\ timer_expired' = (timer_expired \/ timer_left = 1)

TimerTick ==
  IF pc \in LoopPCs
    THEN IF timer_left > 1 THEN timer_left' = timer_left - 1 /\ UNCHANGED timer_expired
                           ELSE timer_left' = FeedInterval /\ timer_expired' = TRUE
    ELSE UNCHANGED timerVars

WatchdogTick ==
  /\ UNCHANGED <<wd_armed, wd_timeout>>
  /\ IF wd_armed THEN wd_left' = wd_left - 1 /\ hw_reset' = (wd_left = 1)
                 ELSE UNCHANGED <<wd_left, hw_reset>>

Tick ==
  /\ \/ Blocked /\ wait' = wait - 1 /\ UNCHANGED stall
     \/ ~Blocked /\ pc \in LoopPCs \cup {"stop"} /\ stall > 0
                 /\ stall' = stall - 1 /\ UNCHANGED wait
     \/ pc = "pending" /\ UNCHANGED <<wait, stall>>
     \/ pc \in Ended /\ wd_armed /\ UNCHANGED <<wait, stall>>
  /\ IF pc = "exited" THEN UNCHANGED tableVars ELSE TimePasses
  /\ TimerTick
  /\ WatchdogTick
  /\ UNCHANGED <<pc, fds, cur, all_ok, backlog>>

----------------------------------------------------------------------------

BrokerStep ==
  \/ Loop \/ SelectReturns \/ SelectInterrupted
  \/ Accept \/ ReadRequest \/ ReadNothing
  \/ Check \/ Feed
  \/ LeavePending \/ Stop

FaultStep == SelectFails \/ AcceptFails \/ FeedFatal \/ Kill

ClientStep ==
  \/ \E p \in Procs, r \in Requests \cup {NoReq} : Connect(p, r)
  \/ \E r \in Requests : PeerSends(r)

\* Nothing is left to happen.
Over == (hw_reset \/ (pc \in Ended /\ ~wd_armed)) /\ UNCHANGED vars

BrokerNext ==
  \/ ~hw_reset /\ (BrokerStep \/ FaultStep \/ ClientStep \/ Signal \/ Tick)
  \/ Over

BrokerSpec == BrokerInit /\ [][BrokerNext]_vars

\* The processor is withheld for a bounded time only, and time goes on.  Nothing is
\* assumed of the clients, of signals and of faults.
Fairness == WF_vars(~hw_reset /\ BrokerStep) /\ WF_vars(~hw_reset /\ Tick)

FairBrokerSpec == BrokerSpec /\ Fairness

----------------------------------------------------------------------------
(* Safety *)

\* Types of the loop, the socket, the timer and the watchdog.
BrokerTypeOK ==
  /\ TableTypeOK
  /\ pc \in PCs
  /\ fds \subseteq {"server", "timer"}
  /\ cur \in Connection \cup {NoConn}
  /\ wait \in 0 .. SelectTimeout
  /\ stall \in 0 .. MaxStall
  /\ all_ok \in BOOLEAN
  /\ backlog \in Seq(Connection)
  /\ timer_left \in 1 .. FeedInterval
  /\ timer_expired \in BOOLEAN
  /\ wd_armed \in BOOLEAN
  /\ wd_timeout \in {WdTimeout, RebootTimeout}
  /\ wd_left \in Nat
  /\ hw_reset \in BOOLEAN

\* While main() loops and has seen no miss, no client is overdue by more than one select()
\* timeout, one silent connection and the stalls of two iterations: neither a stream of
\* connections nor a signal nor a timer expiry keeps the check (lines 1097-1116) from coming.
DetectionBound ==
  pc \in LoopPCs /\ all_ok =>
    \A s \in LiveSlots : clients[s].age <= clients[s].timeout_ms + DetectionDelay

\* As long as every client is heard in time the system is not reset, even when the timer
\* expires just after select() returned and silent connections hold up this iteration and
\* the next one: the fd_set of line 1119 is then stale and the feed waits for another turn.
NoSpuriousReset == hw_reset /\ all_ok => pc \in Ended

\* "if the broker crashes or a client misses its deadline, the system will reboot": unless a
\* signal or REBOOT intervened, the system is not up any more one watchdog period after a
\* client's timeout, give or take a stall.  The delay of detection does not add to it, for
\* every feed (line 1127) comes right after a check, and so does the last one; where and
\* how the broker then waits, crashes or is killed does not matter.
ResetBound ==
  WatchdogEnabled /\ running /\ ~hw_reset =>
    \A s \in LiveSlots :
      clients[s].age < clients[s].timeout_ms + MaxStall + WdTimeout

\* The loop never feeds while a client is overdue, but for the time the process may be
\* stalled between the check and the write: handling, checking and feeding happen in the
\* order of lines 1084-1131 although the three look at different moments.
FedStep ==
  pc = "feed" /\ wd_left' > wd_left =>
    \A s \in LiveSlots : clients[s].age <= clients[s].timeout_ms + MaxStall

FedOnlyIfHealthy == [][FedStep]_vars

\* Once REBOOT was answered with OK the watchdog stays armed until it fires, also when a
\* signal, a missed heartbeat or a failing call comes in between.
RebootStaysArmed == WatchdogEnabled /\ reboot => wd_armed

----------------------------------------------------------------------------
(* Liveness *)

Overdue(s) == Live(clients[s]) /\ clients[s].age > clients[s].timeout_ms

\* A client that is overdue is heard again, given up, or brings the system down, unless the
\* broker is told to stop.
MissIsNoticed ==
  WatchdogEnabled =>
    \A s \in Slots :
      running /\ Overdue(s) ~> hw_reset \/ ~running \/ ~Overdue(s)

\* Whatever made the broker stop feeding, the reset follows, unless a signal or REBOOT
\* ends the reset-pending loop first.
ResetFollows == WatchdogEnabled => (~all_ok ~> hw_reset \/ ~running)

\* SIGTERM or SIGINT ends the process from wherever it is, also when it arrives between the
\* test of running and select() and interrupts nothing, or while a reset is pending.
SignalEnds == ~running ~> pc \in Ended \/ hw_reset

\* After REBOOT the hardware watchdog does fire.
RebootFollows == WatchdogEnabled => (reboot ~> hw_reset)

----------------------------------------------------------------------------
(* What the documentation says, where the code does something else *)

\* README.md: the watchdog is stopped "if no client timeout occurs".
MissKeepsArmed == WatchdogEnabled /\ ~all_ok => wd_armed

=============================================================================
