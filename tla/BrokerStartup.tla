--------------------------- MODULE BrokerStartup ---------------------------
(***************************************************************************)
(* How a wd-broker comes up and goes down (main() in src/wd-broker.c,      *)
(* before the loop and after it), for several processes that share one     *)
(* socket path and one /dev/watchdog.  pc[i] is the call process i is      *)
(* about to make; between two calls any other process may run.             *)
(*                                                                         *)
(* What happens between "serving" and the way out is module Broker.        *)
(***************************************************************************)
EXTENDS Naturals, FiniteSets

CONSTANTS
  Instances,   \* processes, each of which is started at most once
  None,        \* no process
  Watchdog,    \* the processes started without --no-watchdog
  Faults       \* the calls that may fail, see Fault

Fault == {"config", "bind", "listen", "chmod", "open", "settimeout", "privileges", "unlink",
          "cleanup", "kill"}

ASSUME StartupAssumption ==
  /\ None \notin Instances
  /\ Watchdog \subseteq Instances
  /\ Faults \subseteq Fault

VARIABLES
  pc,      \* what each process does next
  path,    \* the file at config.socket_path
  holder,  \* the process that has /dev/watchdog open
  armed,   \* the hardware watchdog counts
  crowd    \* history: how close two processes have come

startVars == <<pc, path, holder, armed, crowd>>

StartPCs == {"lstat", "probe", "unlink", "bind", "listen", "chmod", "open", "settimeout",
             "privileges"}
UnboundPCs == {"lstat", "probe", "unlink", "bind", "listen"}
RunPCs == {"serving", "pending"}
StopPCs == {"disarm", "remove", "return"}
EndPCs == {"refused", "failed", "killed", "exited"}

\* A file of another kind, a socket, or nothing.
NoFile == [kind |-> "none", of |-> None]
OtherFile == [kind |-> "file", of |-> None]
SocketOf(i) == [kind |-> "socket", of |-> i]
Files == {NoFile, OtherFile} \cup {SocketOf(i) : i \in Instances \cup {None}}

\* Process i has a socket it listens on: from listen() until it ends.
Listens(i) == pc[i] \in {"chmod", "open", "settimeout", "privileges"} \cup RunPCs \cup StopPCs

Go(i, at) == pc' = [pc EXCEPT ![i] = at]

\* fatal_error and fatal_errno: all descriptors are closed, the watchdog without 'V'; the
\* path is not unlinked.
Release(i) == holder' = IF holder = i THEN None ELSE holder
GiveUp(i, how) == Go(i, how) /\ Release(i) /\ UNCHANGED <<path, armed, crowd>>

\* A call failed of itself, or because of what is at the path or who has the device.
Fatal(i) == GiveUp(i, "failed")
Refused(i) == GiveUp(i, "refused")

Up(i) == pc[i] \notin {"off"} \cup EndPCs

\* No guard reads crowd.  Two processes have come as close as
\*   "apart"    at most: one was started, or failed, or was killed, next to one that listens;
\*   "leaving"  one was on its way out while another one was up;
\*   "racing"   one was started while another one had not come to listen yet.
Crowds == {"apart", "leaving", "racing"}
Closer(other) == IF crowd = "apart" /\ other THEN "leaving" ELSE crowd
CrowdAtStart ==
  IF \E j \in Instances : pc[j] \in UnboundPCs THEN "racing"
  ELSE Closer(\E j \in Instances : pc[j] \in {"pending"} \cup StopPCs)
CrowdAtLeave(i) == Closer(\E j \in Instances \ {i} : Up(j))

\* The calls before that only look at arguments, users and the config file.
Start(i) ==
  /\ pc[i] = "off"
  /\ \/ Go(i, "lstat") /\ crowd' = CrowdAtStart /\ UNCHANGED <<path, holder, armed>>
     \/ "config" \in Faults /\ Fatal(i)

\* Faulty: whatever is at the path is left to bind().
Bug_Lstat_skip(i) == pc[i] = "lstat" /\ Go(i, "bind") /\ UNCHANGED <<path, holder, armed, crowd>>

Lstat(i) ==
  /\ pc[i] = "lstat"
  /\ \/ path.kind = "none" /\ Go(i, "bind") /\ UNCHANGED <<path, holder, armed, crowd>>
     \/ path.kind = "socket" /\ Go(i, "probe") /\ UNCHANGED <<path, holder, armed, crowd>>
     \/ path.kind = "file" /\ Refused(i)

\* Faulty: a connection that succeeds is no reason to stop.
Bug_Answers_never(i) == FALSE

\* connect() to the path finds somebody who listens.
Answers(i) == path.kind = "socket" /\ path.of \in Instances /\ Listens(path.of)

Probe(i) ==
  /\ pc[i] = "probe"
  /\ \/ /\ ~Answers(i) /\ path.kind # "none"
        /\ Go(i, "unlink") /\ UNCHANGED <<path, holder, armed, crowd>>
     \/ (Answers(i) \/ path.kind = "none") /\ Refused(i)

Unlink(i) ==
  /\ pc[i] = "unlink"
  /\ \/ path # NoFile /\ path' = NoFile /\ Go(i, "bind") /\ UNCHANGED <<holder, armed, crowd>>
     \/ path = NoFile /\ Refused(i)
     \/ "unlink" \in Faults /\ Fatal(i)

\* Faulty: the watchdog is opened before the socket is set up.
Bug_Bind_opensFirst(i) ==
  /\ pc[i] = "bind" /\ path = NoFile
  /\ path' = SocketOf(i) /\ holder' = i /\ armed' = TRUE
  /\ Go(i, "listen") /\ UNCHANGED crowd

Bind(i) ==
  /\ pc[i] = "bind"
  /\ \/ /\ path = NoFile /\ path' = SocketOf(i)
        /\ Go(i, "listen") /\ UNCHANGED <<holder, armed, crowd>>
     \/ path # NoFile /\ Refused(i)
     \/ "bind" \in Faults /\ Fatal(i)

Listen(i) ==
  /\ pc[i] = "listen"
  /\ \/ Go(i, "chmod") /\ UNCHANGED <<path, holder, armed, crowd>>
     \/ "listen" \in Faults /\ Fatal(i)

\* chmod() and chown() work on the path, whoever's socket is there.
Chmod(i) ==
  /\ pc[i] = "chmod"
  /\ \/ /\ path # NoFile
        /\ Go(i, IF i \in Watchdog THEN "open" ELSE "privileges")
        /\ UNCHANGED <<path, holder, armed, crowd>>
     \/ path = NoFile /\ Refused(i)
     \/ "chmod" \in Faults /\ Fatal(i)

\* Faulty: a failed open() is only logged.
Bug_Open_goesOn(i) ==
  /\ pc[i] = "open" /\ Go(i, "settimeout") /\ UNCHANGED <<path, crowd>>
  /\ IF holder = None THEN holder' = i /\ armed' = TRUE ELSE UNCHANGED <<holder, armed>>

\* The device can be opened once (EBUSY) and only by root.  Opening it starts the watchdog.
Open(i) ==
  /\ pc[i] = "open"
  /\ \/ /\ holder = None /\ holder' = i /\ armed' = TRUE
        /\ Go(i, "settimeout") /\ UNCHANGED <<path, crowd>>
     \/ holder # None /\ Refused(i)
     \/ "open" \in Faults /\ Fatal(i)

SetTimeout(i) ==
  /\ pc[i] = "settimeout"
  /\ \/ Go(i, "privileges") /\ UNCHANGED <<path, holder, armed, crowd>>
     \/ "settimeout" \in Faults /\ Fatal(i)

\* Faulty: the parent of the daemon cleans up before it returns.
Bug_DropPrivileges_parentCleansUp(i) ==
  pc[i] = "privileges" /\ Go(i, "serving") /\ path' = NoFile /\ UNCHANGED <<holder, armed, crowd>>

\* setgroups, setgid, setuid; then fork, setsid and chdir.
DropPrivileges(i) ==
  /\ pc[i] = "privileges"
  /\ \/ Go(i, "serving") /\ UNCHANGED <<path, holder, armed, crowd>>
     \/ "privileges" \in Faults /\ Fatal(i)

----------------------------------------------------------------------------
(* The way out *)

\* unlink() whose result nobody looks at: the service user may not be allowed to.
TryUnlink == path' = NoFile \/ ("cleanup" \in Faults /\ UNCHANGED path)

\* SYSTEM RESET PENDING; the socket stays open.
ResetPending(i) ==
  /\ pc[i] = "serving"
  /\ TryUnlink /\ Go(i, "pending") /\ crowd' = CrowdAtLeave(i) /\ UNCHANGED <<holder, armed>>

\* A signal; until the handlers are installed it kills.
Terminate(i) ==
  /\ pc[i] \in RunPCs
  /\ Go(i, IF i \in Watchdog THEN "disarm" ELSE "remove")
  /\ crowd' = CrowdAtLeave(i) /\ UNCHANGED <<path, holder, armed>>

\* 'V', or the reboot failsafe, and close().
Disarm(i) ==
  /\ pc[i] = "disarm"
  /\ armed' \in BOOLEAN /\ holder' = None
  /\ Go(i, "remove") /\ UNCHANGED <<path, crowd>>

Remove(i) ==
  /\ pc[i] = "remove"
  /\ TryUnlink /\ Go(i, "return") /\ UNCHANGED <<holder, armed, crowd>>

Exit(i) == pc[i] = "return" /\ Go(i, "exited") /\ UNCHANGED <<path, holder, armed, crowd>>

Kill(i) ==
  /\ Up(i) /\ "kill" \in Faults
  /\ Go(i, "killed") /\ Release(i) /\ UNCHANGED <<path, armed, crowd>>

----------------------------------------------------------------------------

StartStep(i) ==
  \/ Lstat(i) \/ Probe(i) \/ Unlink(i) \/ Bind(i) \/ Listen(i) \/ Chmod(i)
  \/ Open(i) \/ SetTimeout(i) \/ DropPrivileges(i)

StopStep(i) == Disarm(i) \/ Remove(i) \/ Exit(i)

StartupInit ==
  /\ pc = [i \in Instances |-> "off"]
  /\ path \in {NoFile, OtherFile, SocketOf(None)}
  /\ holder = None /\ armed = FALSE /\ crowd = "apart"

\* Every process has been started and has ended.
AllOver == (\A i \in Instances : pc[i] \in EndPCs) /\ UNCHANGED startVars

StartupNext ==
  \/ \E i \in Instances :
       \/ Start(i) \/ StartStep(i) \/ ResetPending(i) \/ Terminate(i) \/ StopStep(i) \/ Kill(i)
  \/ AllOver

StartupSpec == StartupInit /\ [][StartupNext]_startVars

\* A process that starts or stops is not held up for ever.
FairStartupSpec ==
  StartupSpec /\ \A i \in Instances : WF_startVars(StartStep(i)) /\ WF_startVars(StopStep(i))

----------------------------------------------------------------------------
(* Properties *)

\* Types of the processes, the path and the device.
StartupTypeOK ==
  /\ pc \in [Instances -> {"off"} \cup StartPCs \cup RunPCs \cup StopPCs \cup EndPCs]
  /\ path \in Files
  /\ holder \in Instances \cup {None}
  /\ armed \in BOOLEAN /\ crowd \in Crowds

\* However many processes start, race, fail and leave: /dev/watchdog is open in exactly the
\* process that serves with a watchdog or is about to.  So two of them never serve side by
\* side, none that found the device busy serves unguarded, and one that has failed or left
\* does not keep the device from the next (lines 992-1005, 1155-1188).
DeviceHeld ==
  \A i \in Instances :
    holder = i <=>
      i \in Watchdog /\ pc[i] \in {"settimeout", "privileges", "disarm"} \cup RunPCs

\* "To avoid disrupting a running instance": unless two processes were racing for the path,
\* none that starts takes it away from one that serves; only one that leaves may (lines
\* 925-951, 1148, 1193).
NotDisruptedStep ==
  \A i \in Instances :
    crowd # "racing" /\ pc[i] = "serving" /\ path = SocketOf(i) /\ path' # path =>
      \/ pc'[i] # "serving"
      \/ \E j \in Instances \ {i} : pc[j] \in RunPCs \cup StopPCs /\ pc'[j] # pc[j]

RunningNotDisrupted == [][NotDisruptedStep]_startVars

\* A process that serves can be reached: its socket is the one at the path, whatever those
\* before it left there and however many starts next to it have failed, been refused or
\* been killed since, unless two were racing or one left next to another.
ServingIsReachable ==
  crowd = "apart" => \A i \in Instances : pc[i] = "serving" => path = SocketOf(i)

\* The watchdog is opened "as late as possible, ensuring everything else is ready": when
\* it starts to count, the process that opened it is the one clients reach, with others
\* starting next to it.
ArmedWhenReadyStep ==
  crowd = "apart" /\ ~armed /\ armed' =>
    \E i \in Instances : holder' = i /\ path = SocketOf(i) /\ Listens(i)

ArmedWhenReady == [][ArmedWhenReadyStep]_startVars

\* A start with nobody else up is never refused: whatever socket earlier processes left
\* behind and wherever they had ended (line 951), it comes through unless it is killed, a
\* call fails of itself, another process is up before it listens or the file is none of
\* ours.  Those that come later do not hinder it.
StartSucceeds ==
  \A i \in Instances :
    /\ pc[i] = "lstat" /\ path # OtherFile
    /\ \A j \in Instances \ {i} : ~Up(j)
    ~> \/ pc[i] \in {"serving", "killed", "failed"}
       \/ ~Listens(i) /\ \E j \in Instances \ {i} : Up(j)

=============================================================================
