-------------------------- MODULE BrokerRefinement --------------------------
(***************************************************************************)
(* Broker implements Supervisor: a slot in use is a member, ~running is    *)
(* having been told, and all_ok = FALSE, or the end of the process, is     *)
(* having given up.                                                        *)
(***************************************************************************)
EXTENDS Broker

Watched(s) == Live(clients[s])

SupAge == [s \in Slots |-> IF Watched(s) THEN clients[s].age ELSE 0]
SupDue == [s \in Slots |-> IF Watched(s) THEN clients[s].timeout_ms ELSE 0]

Told == IF reboot THEN "reboot" ELSE IF running THEN "no" ELSE "stop"

GaveUp == ~all_ok \/ pc \in Ended

Sup == INSTANCE Supervisor WITH
  Places <- Slots, DueMax <- TimeoutMax, Slack <- MaxStall,
  Period <- WdTimeout, LastPeriod <- RebootTimeout,
  Enabled <- WatchdogEnabled, MayFail <- Faults # {},
  members <- LiveSlots, age <- SupAge, due <- SupDue,
  told <- Told, gaveup <- GaveUp,
  armed <- wd_armed, left <- wd_left, fired <- hw_reset

\* The main loop, with everything that can happen between its system calls, takes only steps
\* the supervisor may take: each iteration serves at most one member, gives up only on a
\* late member or a failed call, and is never taken up again; the watchdog is fed only
\* right after a look at the members and does not fire as long as the loop goes on.
BrokerImplementsSupervisor == Sup!SupSpec

\* With no failing call a reset that nobody asked for has a late client to show for it.
BrokerResetHasCulprit == Sup!ResetHasCulprit

=============================================================================
