-------------------------- MODULE Supervisor_proofs --------------------------
(***************************************************************************)
(* The promises of Supervisor, for every number of members, every due      *)
(* time, slack and period.                                                 *)
(***************************************************************************)
EXTENDS Supervisor, TLAPS

(***************************************************************************)
(* What holds of the watchdog in every state: it has time left while it    *)
(* counts, never more than a period until the supervisor is told           *)
(* something, and it has fired, or been stopped, only after the supervisor *)
(* gave up.                                                                *)
(***************************************************************************)
DogInv ==
  /\ armed /\ ~fired => left >= 1
  /\ told = "no" => left <= Period
  /\ fired => gaveup
  /\ Enabled /\ ~gaveup => armed

\* Who is to blame is still a member, because nobody is served after giving up.
BlameInv == gaveup /\ told = "no" /\ ~MayFail => \E p \in Places : Late(p)

SupInv == SupTypeOK /\ DogInv /\ Budget /\ BlameInv /\ ArmedUnlessStopped

\* What the membership actions do: the watchdog is left alone, and so is every member but one,
\* which starts at age 0.
ServeStep(p) ==
  /\ ~gaveup /\ p \in Places
  /\ UNCHANGED <<told, gaveup, dogVars>>
  /\ members' \subseteq members \cup {p}
  /\ age'[p] = 0
  /\ \A q \in Places : q # p => age'[q] = age[q] /\ due'[q] = due[q]

\* Join, Hear and Leave touch one place and nothing of the watchdog, and keep the types.
LEMMA ServeEffect ==
  ASSUME SupTypeOK, SupervisorConstants, NEW p \in Places,
         (\E d \in 1 .. DueMax : Join(p, d)) \/ Hear(p) \/ Leave(p)
  PROVE  SupTypeOK' /\ ServeStep(p)
<1> USE DEF SupTypeOK, ServeStep, SupervisorConstants
<1>1. CASE \E d \in 1 .. DueMax : Join(p, d)
  BY <1>1 DEF Join, dogVars
<1>2. CASE Hear(p)
  BY <1>2 DEF Hear, dogVars
<1>3. CASE Leave(p)
  BY <1>3 DEF Leave, dogVars
<1> QED BY <1>1, <1>2, <1>3

\* The initial states.
LEMMA SupInitially == ASSUME SupervisorConstants PROVE SupInit => SupInv
<1> SUFFICES ASSUME SupInit PROVE SupInv
  OBVIOUS
<1>1. SupTypeOK
  <2>1. armed \in BOOLEAN
    BY Zenon DEF SupInit, SupervisorConstants
  <2>2. members \subseteq Places /\ age \in [Places -> 0 .. AgeCap] /\ left \in Int
    BY DEF SupInit, SupervisorConstants
  <2> QED BY <2>1, <2>2 DEF SupInit, SupTypeOK
<1>2. (Enabled => armed) /\ left = Period /\ ~fired /\ ~gaveup
  BY Zenon DEF SupInit
<1>3. Period >= 1 /\ Period <= Period
  BY DEF SupervisorConstants
<1>4. DogInv /\ BlameInv /\ ArmedUnlessStopped
  BY <1>2, <1>3, Zenon DEF DogInv, BlameInv, ArmedUnlessStopped
<1>5. Budget
  <2> SUFFICES ASSUME Enabled, NEW q \in members
               PROVE  age[q] + left <= due[q] + Slack + Period
    BY DEF Budget
  <2>1. age[q] = 0 /\ left = Period /\ due[q] \in Nat
    BY <1>1 DEF SupInit, SupTypeOK, SupervisorConstants
  <2> QED BY <2>1 DEF SupervisorConstants
<1> QED BY <1>1, <1>4, <1>5 DEF SupInv

\* Serving a member keeps the invariant: its age starts at 0 and the watchdog never has more
\* than a period left.
LEMMA ServeKeeps ==
  ASSUME SupInv, SupervisorConstants, NEW p \in Places, ServeStep(p), SupTypeOK'
  PROVE  SupInv'
<1> USE DEF ServeStep, dogVars
<1>1. DogInv'
  BY DEF SupInv, DogInv
<1>2. Budget'
  <2> SUFFICES ASSUME Enabled, told' = "no", NEW q \in members'
               PROVE  age'[q] + left' <= due'[q] + Slack + Period
    BY DEF Budget
  <2>1. left <= Period /\ q \in Places
    BY DEF SupInv, DogInv, Budget, SupTypeOK
  <2>2. due'[q] \in Nat /\ left \in Int /\ Slack \in Nat /\ Period \in Nat
    BY <2>1 DEF SupInv, SupTypeOK, SupervisorConstants
  <2> HIDE DEF dogVars
  <2>3. left' = left
    BY DEF dogVars
  <2>4. CASE q = p
    <3>1. age'[q] = 0
      BY <2>4
    <3> QED BY <2>1, <2>2, <2>3, <3>1
  <2>5. CASE q # p
    <3>1. q \in members /\ age'[q] = age[q] /\ due'[q] = due[q] /\ told = "no"
      BY <2>1, <2>5
    <3> QED BY <2>3, <3>1 DEF SupInv, Budget
  <2> QED BY <2>4, <2>5
<1>3. BlameInv' /\ ArmedUnlessStopped'
  BY DEF SupInv, BlameInv, ArmedUnlessStopped
<1> QED BY <1>1, <1>2, <1>3 DEF SupInv

\* Ages after a tick: they do not go back and grow by one at most.
LEMMA OlderAges ==
  ASSUME SupTypeOK, SupervisorConstants, NEW p \in Places
  PROVE  Older[p] \in 0 .. AgeCap /\ Older[p] >= age[p] /\ Older[p] <= age[p] + 1
BY DEF SupTypeOK, SupervisorConstants, Older

\* A tick keeps the invariant: what a member's age gains the watchdog loses.
LEMMA TickKeeps ==
  ASSUME SupInv, SupervisorConstants, Tick
  PROVE  SupInv'
<1>1. /\ \A p \in Places : age'[p] \in 0 .. AgeCap /\ age'[p] >= age[p] /\ age'[p] <= age[p] + 1
      /\ age' \in [Places -> 0 .. AgeCap]
  BY OlderAges DEF Tick, SupInv, SupTypeOK, Older
<1>2. SupTypeOK'
  BY <1>1 DEF SupInv, SupTypeOK, Tick
<1>3. DogInv'
  <2>1. /\ UNCHANGED <<told, gaveup, armed>> /\ (fired' => gaveup) /\ ~fired
        /\ left' = IF armed THEN left - 1 ELSE left
    BY DEF Tick
  <2>2. armed /\ ~fired' => left # 1
    BY Zenon DEF Tick
  <2>3. armed /\ ~fired' => left' >= 1
    BY <2>1, <2>2 DEF SupInv, SupTypeOK, DogInv
  <2>4. told = "no" => left' <= Period
    BY <2>1 DEF SupInv, SupTypeOK, DogInv, SupervisorConstants
  <2> QED BY <2>1, <2>3, <2>4 DEF SupInv, DogInv
<1>4. Budget'
  <2> SUFFICES ASSUME Enabled, told' = "no", NEW q \in members'
               PROVE  age'[q] + left' <= due'[q] + Slack + Period
    BY DEF Budget
  <2>1. /\ q \in members /\ q \in Places /\ left' = left - 1 /\ due'[q] = due[q]
        /\ age[q] + left <= due[q] + Slack + Period
    BY DEF Tick, SupInv, Budget, ArmedUnlessStopped, SupTypeOK
  <2>2. /\ age[q] \in Int /\ age'[q] \in Int /\ age'[q] <= age[q] + 1 /\ left \in Int
        /\ due[q] \in Int /\ Slack \in Int /\ Period \in Int
    BY <1>1, <2>1 DEF SupInv, SupTypeOK, SupervisorConstants
  <2> QED BY <2>1, <2>2
<1>5. BlameInv'
  <2> SUFFICES ASSUME gaveup', told' = "no", ~MayFail
               PROVE  \E p \in Places : Late(p)'
    BY DEF BlameInv
  <2>1. PICK p \in Places : Late(p)
    BY DEF SupInv, BlameInv, Tick
  <2>2. p \in members' /\ due'[p] = due[p] /\ age'[p] >= age[p] /\ age[p] > due[p]
    BY <1>1, <2>1 DEF Late, Tick
  <2>3. age[p] \in Int /\ age'[p] \in Int /\ due[p] \in Int
    BY <1>1, <2>1 DEF SupInv, SupTypeOK, SupervisorConstants
  <2>4. Late(p)'
    BY <2>2, <2>3 DEF Late
  <2> QED BY <2>4
<1>6. ArmedUnlessStopped'
  BY DEF SupInv, ArmedUnlessStopped, Tick
<1> QED BY <1>2, <1>3, <1>4, <1>5, <1>6 DEF SupInv

\* The invariant is inductive.
LEMMA SupStep ==
  ASSUME SupInv, SupervisorConstants, [SupNext]_supVars
  PROVE  SupInv'
<1>1. CASE \E p \in Places : (\E d \in 1 .. DueMax : Join(p, d)) \/ Hear(p) \/ Leave(p)
  <2> PICK p \in Places : (\E d \in 1 .. DueMax : Join(p, d)) \/ Hear(p) \/ Leave(p)
    BY <1>1
  <2>1. SupTypeOK' /\ ServeStep(p)
    BY ServeEffect DEF SupInv
  <2> QED BY <2>1, ServeKeeps
<1>2. CASE \E t \in {"stop", "reboot"} : Tell(t)
  <2>1. /\ told' # "no" /\ told' \in {"stop", "reboot"}
        /\ UNCHANGED <<members, age, due, gaveup, dogVars>>
    BY <1>2 DEF Tell
  <2>2. told' = "reboot" => ~gaveup
    BY <1>2 DEF Tell
  <2>3. ArmedUnlessStopped'
    BY <2>1, <2>2 DEF SupInv, DogInv, ArmedUnlessStopped, dogVars
  <2>4. SupTypeOK' /\ DogInv' /\ Budget' /\ BlameInv'
    BY <2>1 DEF SupInv, SupTypeOK, DogInv, Budget, BlameInv, dogVars
  <2> QED BY <2>3, <2>4 DEF SupInv
<1>3. CASE GiveUp
  BY <1>3 DEF GiveUp, SupInv, SupTypeOK, DogInv, Budget, BlameInv, ArmedUnlessStopped, Late, dogVars
<1>4. CASE Feed
  <2>1. SupTypeOK' /\ DogInv' /\ BlameInv' /\ ArmedUnlessStopped'
    BY <1>4 DEF Feed, SupInv, SupTypeOK, DogInv, BlameInv, ArmedUnlessStopped, SupervisorConstants
  <2>2. Budget'
    BY <1>4 DEF Feed, SupInv, SupTypeOK, Budget, SupervisorConstants
  <2> QED BY <2>1, <2>2 DEF SupInv
<1>5. CASE Finish
  <2>1. (told = "reboot" /\ armed => armed') /\ (armed' => armed) /\ armed' \in BOOLEAN
    BY <1>5 DEF Finish, SupInv, SupTypeOK
  <2>2. left' \in Int /\ (~fired /\ armed' => left' >= 1)
    BY <1>5, <2>1 DEF Finish, SupInv, SupTypeOK, DogInv, SupervisorConstants
  <2>3. gaveup' /\ UNCHANGED <<members, age, due, told, fired>> /\ told # "no"
    BY <1>5, Zenon DEF Finish
  <2>4. SupTypeOK'
    BY <2>1, <2>2, <2>3 DEF SupInv, SupTypeOK
  <2>5. DogInv'
    BY <2>2, <2>3 DEF SupInv, DogInv
  <2>6. Budget' /\ BlameInv'
    BY <1>5 DEF Finish, Budget, BlameInv
  <2>7. ArmedUnlessStopped'
    BY <2>1, <2>3 DEF SupInv, SupTypeOK, ArmedUnlessStopped
  <2> QED BY <2>4, <2>5, <2>6, <2>7 DEF SupInv
<1>6. CASE Tick
  BY <1>6, TickKeeps
<1>7. CASE UNCHANGED supVars
  BY <1>7 DEF supVars, SupInv, SupTypeOK, DogInv, Budget, BlameInv, ArmedUnlessStopped, Late
<1> QED BY <1>1, <1>2, <1>3, <1>4, <1>5, <1>6, <1>7 DEF SupNext

\* The types, the budget and who is to blame, in every state.
THEOREM SupInvariant == ASSUME SupervisorConstants PROVE SupSpec => []SupInv
<1>1. SupInit => SupInv
  BY SupInitially
<1>2. SupInv /\ [SupNext]_supVars => SupInv'
  BY SupStep
<1> QED BY <1>1, <1>2, PTL DEF SupSpec

\* The system does not outlive a miss by more than the slack and one watchdog period.
THEOREM SupOutlivedByNoMiss == ASSUME SupervisorConstants PROVE SupSpec => []OutlivedByNoMiss
<1>1. SupInv => OutlivedByNoMiss
  <2> SUFFICES ASSUME SupInv, Enabled, told = "no", ~fired, NEW p \in members
               PROVE  age[p] < due[p] + Slack + Period
    BY DEF OutlivedByNoMiss
  <2>1. left >= 1 /\ age[p] + left <= due[p] + Slack + Period
    BY DEF SupInv, DogInv, Budget, ArmedUnlessStopped
  <2>2. age[p] \in Int /\ due[p] \in Int /\ left \in Int /\ Slack \in Int /\ Period \in Int
    BY DEF SupInv, SupTypeOK, SupervisorConstants
  <2> QED BY <2>1, <2>2
<1> QED BY <1>1, SupInvariant, PTL

\* A reset nobody asked for and no failure caused has a late member to show for it.
THEOREM SupResetHasCulprit == ASSUME SupervisorConstants PROVE SupSpec => []ResetHasCulprit
<1>1. SupInv => ResetHasCulprit
  BY DEF SupInv, DogInv, BlameInv, ResetHasCulprit
<1> QED BY <1>1, SupInvariant, PTL

=============================================================================
