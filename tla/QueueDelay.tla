----------------------------- MODULE QueueDelay -----------------------------
(***************************************************************************)
(* How long a request waits at the socket of wd-broker.  Broker with two   *)
(* history variables: the ticks since each connection was queued, and      *)
(* since the accepted one was.  The loop serves one connection in an       *)
(* iteration, checks all clients after it, and gives a connection that     *)
(* says nothing 500 ms; a heartbeat sent in time can therefore be behind   *)
(* a queue of such connections while its client's age goes on.             *)
(***************************************************************************)
EXTENDS Broker

VARIABLES
  waited,   \* ticks since backlog[i] was queued
  held      \* ticks since cur was

queueVars == <<vars, waited, held>>

\* A full queue and the connection being served, none of which says anything, and a stall in
\* every iteration.
ServiceDelay == (BacklogMax + 1) * (ReadTimeout + MaxStall)

\* Nothing is counted once the loop is left and nobody will be served.
CountTick ==
  IF pc \in LoopPCs
    THEN /\ waited' = [i \in DOMAIN waited |-> waited[i] + 1]
         /\ held' = IF pc = "read" THEN held + 1 ELSE held
    ELSE UNCHANGED <<waited, held>>

\* The history follows the queue.
CountStep ==
  /\ waited' = IF backlog' = << >> THEN << >>
               ELSE IF Len(backlog') > Len(backlog) THEN Append(waited, 0)
               ELSE IF Len(backlog') < Len(backlog) THEN Tail(waited)
               ELSE waited
  /\ held' = IF pc' # "read" THEN 0 ELSE IF pc # "read" THEN Head(waited) ELSE held

QueueInit == BrokerInit /\ waited = << >> /\ held = 0

QueueNext ==
  \/ ~hw_reset /\ Tick /\ CountTick
  \/ ~hw_reset /\ (BrokerStep \/ FaultStep \/ ClientStep \/ Signal) /\ CountStep
  \/ Over /\ UNCHANGED <<waited, held>>

QueueSpec == QueueInit /\ [][QueueNext]_queueVars

----------------------------------------------------------------------------
(* Properties *)

\* As long as the loop goes on every connection is served, or found silent, within
\* ServiceDelay, although one iteration serves only one and another may have taken the
\* timer for ready: neither a full queue of silent connections (line 974: five of
\* 500 ms each) nor the feed in between makes it wait longer.
ServedInTime ==
  /\ \A i \in DOMAIN backlog : waited[i] <= ServiceDelay
  /\ held <= ServiceDelay

\* c is a PING that slot s will be credited with.
PingFor(c, s) == c.req.cmd = "PING" /\ FirstOf(s, SlotsByID(c.req.id)) /\ Identified(s, c.proc)

\* Heartbeat c, queued w ticks ago, came ServiceDelay ahead of the deadline of slot s.
Punctual(c, w, s) ==
  PingFor(c, s) /\ clients[s].age - w + ServiceDelay <= clients[s].timeout_ms

\* A client whose heartbeat was queued that long before its deadline is not found overdue by
\* the checks that come before its turn (line 1100): a ping interval that leaves room for
\* ServiceDelay before the deadline is short enough.
PunctualNotMissed ==
  pc \in LoopPCs =>
    \A s \in LiveSlots :
      /\ \A i \in DOMAIN backlog : Punctual(backlog[i], waited[i], s) => ~Missed(clients[s])
      /\ Punctual(cur, held, s) => ~Missed(clients[s])

=============================================================================
