------------------------------- MODULE Clock -------------------------------
(***************************************************************************)
(* get_now and ms_since of src/wd-broker.c: how the age of a heartbeat is  *)
(* computed from two struct timespec, where the nanoseconds are divided    *)
(* with C's rounding towards zero, their difference may be negative, and   *)
(* the sum is kept in an unsigned int.  Module ClientTable works with ages *)
(* in ticks; this module shows that comparing ms_since with timeout_ms     *)
(* means what it should at every instant.                                  *)
(***************************************************************************)
EXTENDS Integers

CONSTANTS
  MsPerSec,    \* 1000
  NsPerMs,     \* 1000000
  UIntRange,   \* number of values of an unsigned int
  Timeout,     \* timeout_ms of the client
  MaxTime,     \* bound: the clock stops here (ns)
  Steps        \* by how much the clock moves between two looks at it (ns)

ASSUME ClockAssumption ==
  /\ MsPerSec \in Nat \ {0} /\ NsPerMs \in Nat \ {0}
  /\ UIntRange \in Nat /\ Timeout \in Nat /\ Timeout < UIntRange
  /\ MaxTime \in Nat
  /\ Steps \subseteq Nat

NsPerSec == MsPerSec * NsPerMs

VARIABLES
  now,         \* nanoseconds on CLOCK_MONOTONIC
  last_ping    \* the struct timespec taken at the last heartbeat

clockVars == <<now, last_ping>>

\* clock_gettime: t nanoseconds as a struct timespec.
Timespec(t) == [tv_sec |-> t \div NsPerSec, tv_nsec |-> t % NsPerSec]

get_now == Timespec(now)

\* C's integer division rounds towards zero.
Quotient(a, b) == IF a >= 0 THEN a \div b ELSE -((-a) \div b)

\* Faulty: whole seconds only; the nanoseconds of the difference without their sign.
Bug_Millis_secondsOnly(ts, then) == (ts.tv_sec - then.tv_sec) * MsPerSec
Bug_Millis_unsignedNsec(ts, then) ==
  (ts.tv_sec - then.tv_sec) * MsPerSec
    + (IF ts.tv_nsec >= then.tv_nsec THEN ts.tv_nsec - then.tv_nsec
                                     ELSE then.tv_nsec - ts.tv_nsec) \div NsPerMs

\* The sum before it is converted to unsigned int.
Millis(ts, then) ==
  (ts.tv_sec - then.tv_sec) * MsPerSec + Quotient(ts.tv_nsec - then.tv_nsec, NsPerMs)

ms_since(then) == Millis(get_now, then) % UIntRange

----------------------------------------------------------------------------

ClockInit ==
  /\ now \in 0 .. (NsPerSec - 1)
  /\ last_ping = get_now

\* Time goes on until somebody looks at the clock again.
Advance(d) == now + d <= MaxTime /\ now' = now + d /\ UNCHANGED last_ping

\* get_now(&pClient->last_ping)
Ping == last_ping' = get_now /\ UNCHANGED now

ClockNext == (\E d \in Steps : Advance(d)) \/ Ping

ClockSpec == ClockInit /\ [][ClockNext]_clockVars

----------------------------------------------------------------------------
(* Properties *)

\* Nanoseconds since the last heartbeat.
Elapsed == now - (last_ping.tv_sec * NsPerSec + last_ping.tv_nsec)

\* A client is called overdue (line 1100) only after more than its timeout has passed,
\* and at the latest one millisecond after that, at whatever nanoseconds the two clock
\* readings fall and whichever is the larger, until the unsigned result wraps.
OverdueIsExact ==
  Elapsed < UIntRange * NsPerMs - NsPerMs =>
    /\ ms_since(last_ping) > Timeout => Elapsed > Timeout * NsPerMs
    /\ Elapsed >= (Timeout + 1) * NsPerMs => ms_since(last_ping) > Timeout

\* Between two heartbeats the computed age never goes back, so that a client once found
\* overdue stays so until it is heard, also where one reading is rounded down and the
\* next one up.
NeverBackStep ==
  last_ping' = last_ping /\ Elapsed' < UIntRange * NsPerMs - NsPerMs =>
    ms_since(last_ping)' >= ms_since(last_ping)

AgeNeverGoesBack == [][NeverBackStep]_clockVars

=============================================================================
