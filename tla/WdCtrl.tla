------------------------------- MODULE WdCtrl -------------------------------
(***************************************************************************)
(* wd-ctrl (src/wd-ctrl.c) next to the applications that use the library.  *)
(* Every invocation is a process of its own, run by root: it asks for the  *)
(* STATUS first, whatever the command, then sends REBOOT or UNREGISTER on  *)
(* a second connection.  In between the table may change in any way.       *)
(***************************************************************************)
EXTENDS ClientLib

CONSTANTS
  Ctrls,      \* the processes of wd-ctrl, one invocation each
  Commands    \* what wd-ctrl is invoked with

\* The argument of unregister is a name or a clientID.
Command ==
  [cmd : {"status", "reboot", "invalid"}]
    \cup [cmd : {"unregister"}, name : Names, id : {0}]
    \cup [cmd : {"unregister"}, name : {""}, id : Nat \ {0}]

ASSUME CtrlAssumption ==
  Ctrls \subseteq (Peers \cap Root) \ Users /\ Commands \subseteq Command

VARIABLE ctrl

ctrlVars == <<tableVars, exchangeVars, lib, ctrl>>

\* args are the arguments, id_candidate the ID found in the STATUS answer, buf what was
\* received last, exit the exit status.
NotInvoked == [pc |-> "none", args |-> [cmd |-> "none"], id_candidate |-> 0, buf |-> "none",
               exit |-> "none"]

Exit(c, status) ==
  /\ ctrl' = [ctrl EXCEPT ![c].pc = "exited", ![c].exit = status]
  /\ ex' = [ex EXCEPT ![c] = Idle]

\* send_and_receive(STATUS)
Invoke(c, a) ==
  /\ ctrl[c].pc = "none"
  /\ ctrl' = [ctrl EXCEPT ![c].pc = "status", ![c].args = a]
  /\ ex' = [ex EXCEPT ![c] = Begin([cmd |-> "STATUS"])]

Send(c, r, id) ==
  /\ ctrl' = [ctrl EXCEPT ![c].pc = "command", ![c].id_candidate = id, ![c].buf = ex[c].got.ans]
  /\ ex' = [ex EXCEPT ![c] = Begin(r)]

\* The rows the argument matches: one ID, or any number of names.
Matches(c) ==
  LET a == ctrl[c].args IN
    {r \in ex[c].got.rows : IF a.id # 0 THEN r.id = a.id ELSE r.name = a.name}

\* match_count > 1
Ambiguous(c) == Cardinality(Matches(c)) > 1

\* What follows the STATUS answer.
StatusReceived(c) ==
  LET a == ctrl[c].args IN
    /\ ctrl[c].pc = "status" /\ ex[c].at = "done"
    /\ \/ ex[c].got.n # "bytes" /\ Exit(c, "failure")
       \/ /\ ex[c].got.n = "bytes"
          /\ \/ a.cmd = "status" /\ Exit(c, "success")
             \/ a.cmd = "invalid" /\ Exit(c, "failure")
             \/ a.cmd = "reboot" /\ Send(c, [cmd |-> "REBOOT"], 0)
             \/ /\ a.cmd = "unregister" /\ (Ambiguous(c) \/ Matches(c) = {})
                /\ Exit(c, "failure")
             \/ /\ a.cmd = "unregister" /\ ~Ambiguous(c)
                /\ \E r \in Matches(c) : Send(c, [cmd |-> "UNREGISTER", id |-> r.id], r.id)

\* Faulty: buf is only looked at when something came that is no OK.
Bug_Accepted_silence(c) == ex[c].got.n = "bytes" => ex[c].got.ans \in {"OK", "OK seconds"}

\* buf starts with OK.  Where nothing was received it still holds the STATUS text.
Accepted(c) ==
  (IF ex[c].got.n = "bytes" THEN ex[c].got.ans ELSE ctrl[c].buf) \in {"OK", "OK seconds"}

\* What follows the answer to REBOOT or UNREGISTER.
CommandAnswered(c) ==
  /\ ctrl[c].pc = "command" /\ ex[c].at = "done"
  /\ \/ Accepted(c) /\ Exit(c, "success")
     \/ ~Accepted(c) /\ Exit(c, "failure")

CtrlStep(c) ==
  \/ /\ StatusReceived(c) \/ CommandAnswered(c)
     /\ Elsewhere /\ UNCHANGED <<queue, lib>>
  \/ PeerStep(c) /\ UNCHANGED <<lib, ctrl>>

CtrlInit == LibInit /\ ctrl = [c \in Ctrls |-> NotInvoked]

CtrlNext ==
  \/ \E c \in Ctrls, a \in Commands : Invoke(c, a) /\ Elsewhere /\ UNCHANGED <<queue, lib>>
  \/ \E c \in Ctrls : CtrlStep(c)
  \/ LibNext /\ UNCHANGED ctrl

CtrlSpec == CtrlInit /\ [][CtrlNext]_ctrlVars

----------------------------------------------------------------------------
(* Properties *)

Gone(s) == Live(clients[s]) /\ ~Live(clients'[s])

\* wd-ctrl removes nobody but the client it was asked to remove: the ID read from the
\* STATUS answer still names that client when UNREGISTER is served, perhaps long after
\* wd-ctrl has given up, although its slot can have changed hands meanwhile.
RemovedAsAskedStep ==
  broker' # "down" =>
    \A s \in Slots, c \in Ctrls : Gone(s) /\ reply'.to = c =>
      \/ ctrl[c].args.name = clients[s].name
      \/ ctrl[c].args.id = clients[s].clientID

RemovedAsAsked == [][RemovedAsAskedStep]_ctrlVars

Succeeds(c, cmd) == ctrl[c].exit = "success" /\ ctrl[c].args.cmd = cmd

\* "unregistered successfully" means that the client found by name or ID is not watched any
\* more, and that no client will be under its ID: a report is not made on a stale buf.
UnregisterReportTrue ==
  \A c \in Ctrls : Succeeds(c, "unregister") =>
    ctrl[c].id_candidate # 0 /\ SlotsByID(ctrl[c].id_candidate) = {}

\* "Reboot failsafe activated" means that the daemon has REBOOT in hand, unless a new one
\* has been started: line 178 ignores that nothing may have come back, and the buffer
\* it then looks at still holds the STATUS text.
RebootReportTrue ==
  \A c \in Ctrls : Succeeds(c, "reboot") => reboot \/ restarts > 0

=============================================================================
