----------------------------- MODULE Supervisor -----------------------------
(***************************************************************************)
(* What wd-broker promises, without sockets, requests, descriptors and the *)
(* loop: it watches members, each of which has to be heard of within its   *)
(* due time, and keeps a hardware watchdog from firing as long as they     *)
(* are.  Once it has given up, for a miss, a failure or because it was     *)
(* told to, it serves nobody and never comes back.                         *)
(*                                                                         *)
(* The specification states no correspondence to lines of the program;     *)
(* BrokerRefinement shows that Broker implements it.                       *)
(***************************************************************************)
EXTENDS Integers

CONSTANTS
  Places,       \* where a member can be
  DueMax,       \* the longest due time
  AgeCap,       \* bound: an age is not counted any further than this
  Slack,        \* how late the feed may be after the look at the members
  Period,       \* what the watchdog starts from when fed
  LastPeriod,   \* what it starts from when the system is to be rebooted
  Enabled,      \* there is a watchdog
  MayFail       \* calls may fail, and the supervisor may be killed

\* What the theorems about this specification assume of its constants.
SupervisorConstants ==
  /\ DueMax \in Nat
  /\ Slack \in Nat
  /\ Period \in Nat \ {0} /\ LastPeriod \in Nat \ {0}
  /\ AgeCap \in Nat /\ AgeCap > DueMax + Slack + Period
  /\ Enabled \in BOOLEAN
  /\ MayFail \in BOOLEAN

VARIABLES
  members,   \* who is watched
  age,       \* time since a member was heard of
  due,       \* how often it has to be
  told,      \* whether the supervisor was told to "stop", or to "reboot" the system
  gaveup,    \* it does not watch any more, and feeds no more
  armed,     \* the watchdog counts
  left,      \* time until it fires
  fired      \* it has

supVars == <<members, age, due, told, gaveup, armed, left, fired>>
dogVars == <<armed, left, fired>>

SupInit ==
  /\ members \in SUBSET Places
  /\ age = [p \in Places |-> 0]
  /\ due \in [Places -> 0 .. DueMax]
  /\ \A p \in Places : p \notin members => due[p] = 0
  /\ told = "no" /\ gaveup = FALSE
  /\ armed = Enabled /\ left = Period /\ fired = FALSE

----------------------------------------------------------------------------

\* A member comes, or one that was awaited says how often it will be heard of.
Join(p, d) ==
  /\ ~gaveup
  /\ members' = members \cup {p}
  /\ age' = [age EXCEPT ![p] = 0]
  /\ due' = [due EXCEPT ![p] = d]
  /\ UNCHANGED <<told, gaveup, dogVars>>

Hear(p) ==
  /\ ~gaveup /\ p \in members
  /\ age' = [age EXCEPT ![p] = 0]
  /\ UNCHANGED <<members, due, told, gaveup, dogVars>>

Leave(p) ==
  /\ ~gaveup /\ p \in members
  /\ members' = members \ {p}
  /\ age' = [age EXCEPT ![p] = 0]
  /\ due' = [due EXCEPT ![p] = 0]
  /\ UNCHANGED <<told, gaveup, dogVars>>

\* A signal at any time; the request to reboot while it still serves.
Tell(t) ==
  /\ \/ told = "no" /\ t = "stop"
     \/ told # "reboot" /\ t = "reboot" /\ ~gaveup
  /\ told' = t
  /\ UNCHANGED <<members, age, due, gaveup, dogVars>>

Late(p) == p \in members /\ age[p] > due[p]

\* It gives up on a member that is late, or on a failure.
GiveUp ==
  /\ ~gaveup
  /\ MayFail \/ \E p \in Places : Late(p)
  /\ gaveup' = TRUE
  /\ UNCHANGED <<members, age, due, told, dogVars>>

Feed ==
  /\ ~gaveup
  /\ \A p \in members : age[p] <= due[p] + Slack
  /\ left' = Period
  /\ UNCHANGED <<members, age, due, told, gaveup, armed, fired>>

\* The last thing it does when told: stop the watchdog, or feed it once more; the watchdog
\* is never stopped when the system is to be rebooted.
Finish ==
  /\ told # "no"
  /\ gaveup' = TRUE
  /\ armed' \in {armed, armed /\ told = "reboot"}
  /\ left' \in {left, Period, LastPeriod}
  /\ UNCHANGED <<members, age, due, told, fired>>

Older ==
  [p \in Places |-> IF p \in members /\ age[p] < AgeCap THEN age[p] + 1 ELSE age[p]]

\* Time passes.  The watchdog does not fire before the supervisor has given up.  Nobody
\* looks at the ages when it has done what it was told.
Tick ==
  /\ ~fired
  /\ age' = Older \/ (told # "no" /\ gaveup /\ UNCHANGED age)
  /\ IF armed THEN left' = left - 1 /\ fired' = (left = 1) ELSE UNCHANGED <<left, fired>>
  /\ fired' => gaveup
  /\ UNCHANGED <<members, due, told, gaveup, armed>>

SupNext ==
  \/ /\ ~fired
     /\ \/ \E p \in Places : (\E d \in 1 .. DueMax : Join(p, d)) \/ Hear(p) \/ Leave(p)
        \/ \E t \in {"stop", "reboot"} : Tell(t)
        \/ GiveUp \/ Feed \/ Finish
  \/ Tick
  \/ fired /\ UNCHANGED supVars

SupSpec == SupInit /\ [][SupNext]_supVars

----------------------------------------------------------------------------

\* Types.
SupTypeOK ==
  /\ members \subseteq Places
  /\ age \in [Places -> 0 .. AgeCap]
  /\ due \in [Places -> 0 .. DueMax]
  /\ told \in {"no", "stop", "reboot"}
  /\ gaveup \in BOOLEAN
  /\ armed \in BOOLEAN
  /\ left \in Int
  /\ fired \in BOOLEAN

\* While nobody told the supervisor to stop, a member's age and what the watchdog has left
\* never add up to more than its due time, the slack and one period.
Budget ==
  Enabled /\ told = "no" =>
    \A p \in members : age[p] + left <= due[p] + Slack + Period

\* "if the broker crashes or a client misses its deadline, the system will reboot" (README.md),
\* with the time it takes: a system that is up and was not told anything has no member that
\* is a period and the slack past its due time.
OutlivedByNoMiss ==
  Enabled /\ told = "no" /\ ~fired =>
    \A p \in members : age[p] < due[p] + Slack + Period

\* A reset nobody asked for and no failure caused has a member to blame, and it is still in
\* the table: a system whose members are all heard of in time is not reset.
ResetHasCulprit ==
  fired /\ told = "no" /\ ~MayFail => \E p \in Places : Late(p)

\* Nothing but being told to stop, and not to reboot, stops the watchdog.
ArmedUnlessStopped == Enabled /\ told # "stop" => armed

=============================================================================
