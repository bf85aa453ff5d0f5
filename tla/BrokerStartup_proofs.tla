------------------------ MODULE BrokerStartup_proofs ------------------------
(***************************************************************************)
(* Proofs about BrokerStartup, for any number of processes on one path and *)
(* any of the calls failing.                                               *)
(***************************************************************************)
EXTENDS BrokerStartup, TLAPS

ActivePCs == StartPCs \cup RunPCs \cup StopPCs
LeavePCs == {"pending"} \cup StopPCs
AllPCs == {"off"} \cup StartPCs \cup RunPCs \cup StopPCs \cup EndPCs

\* One step of process i, of whatever kind.
ProcStep(i) ==
  Start(i) \/ StartStep(i) \/ ResetPending(i) \/ Terminate(i) \/ StopStep(i) \/ Kill(i)

\* A step of i moves i, and no other process.
LEMMA OnlyOne ==
  ASSUME StartupTypeOK, NEW i \in Instances, ProcStep(i)
  PROVE  /\ pc'[i] \in AllPCs
         /\ pc' = [pc EXCEPT ![i] = pc'[i]]
         /\ \A j \in Instances : j # i => pc'[j] = pc[j]
<1>1. \E at \in AllPCs : Go(i, at)
  BY DEF ProcStep, Start, StartStep, Lstat, Probe, Unlink, Bind, Listen, Chmod, Open, SetTimeout,
         DropPrivileges, ResetPending, Terminate, StopStep, Disarm, Remove, Exit, Kill, Fatal,
         Refused, GiveUp,
         AllPCs, StartPCs, RunPCs, StopPCs, EndPCs
<1> QED BY <1>1 DEF Go, StartupTypeOK, AllPCs

\* What can happen to the path, and by whom.
LEMMA PathStep ==
  ASSUME StartupTypeOK, NEW i \in Instances, ProcStep(i)
  PROVE  \/ path' = path
         \/ pc[i] = "bind" /\ pc'[i] = "listen" /\ path = NoFile /\ path' = SocketOf(i)
         \/ pc[i] = "unlink" /\ path' = NoFile
         \/ pc[i] = "serving" /\ pc'[i] = "pending" /\ path' = NoFile
         \/ pc[i] = "remove" /\ pc'[i] = "return" /\ path' = NoFile
<1>1. CASE Start(i) \/ Kill(i) \/ Terminate(i)
  BY <1>1 DEF Start, Kill, Terminate, Fatal, Refused, GiveUp
<1>2. CASE StartStep(i)
  BY <1>2 DEF StartStep, Lstat, Probe, Unlink, Bind, Listen, Chmod, Open, SetTimeout,
              DropPrivileges, Fatal, Refused, GiveUp, Go, StartupTypeOK
<1>3. CASE ResetPending(i) \/ StopStep(i)
  BY <1>3 DEF ResetPending, StopStep, Disarm, Remove, Exit, TryUnlink, Go, StartupTypeOK
<1> QED BY <1>1, <1>2, <1>3 DEF ProcStep

\* When crowd is looked at, and that two processes only come closer.
LEMMA CrowdStep ==
  ASSUME StartupTypeOK, NEW i \in Instances, ProcStep(i)
  PROVE  /\ crowd' \in Crowds
         /\ crowd' # "racing" => crowd # "racing"
         /\ crowd' = "apart" => crowd = "apart"
         /\ pc[i] = "off" /\ pc'[i] \in ActivePCs => crowd' = CrowdAtStart
         /\ pc[i] = "serving" /\ pc'[i] \in LeavePCs => crowd' = CrowdAtLeave(i)
<1>1. \/ crowd' = crowd
      \/ pc[i] = "off" /\ crowd' = CrowdAtStart
      \/ crowd' = CrowdAtLeave(i)
  BY DEF ProcStep, Start, StartStep, Lstat, Probe, Unlink, Bind, Listen, Chmod, Open, SetTimeout,
         DropPrivileges, ResetPending, Terminate, StopStep, Disarm, Remove, Exit, Kill, Fatal,
         Refused, GiveUp
<1>2. ASSUME NEW c \in {CrowdAtStart, CrowdAtLeave(i)}
      PROVE  /\ c \in {"racing", "leaving", crowd}
             /\ c # "racing" => crowd # "racing"
             /\ c = "apart" => crowd = "apart"
  BY DEF CrowdAtStart, CrowdAtLeave, Closer
<1>3. /\ pc[i] = "off" /\ pc'[i] \in ActivePCs => crowd' = CrowdAtStart
      /\ pc[i] = "serving" /\ pc'[i] \in LeavePCs => crowd' = CrowdAtLeave(i)
  <2> USE DEF Go, Fatal, Refused, GiveUp, StartupTypeOK, ActivePCs, LeavePCs, StartPCs, RunPCs,
        StopPCs, EndPCs
  <2>1. CASE Start(i) \/ Kill(i) \/ Terminate(i) \/ ResetPending(i) \/ StopStep(i)
    BY <2>1 DEF Start, Kill, Up, Terminate, ResetPending, StopStep, Disarm, Remove, Exit
  <2>2. CASE StartStep(i)
    BY <2>2 DEF StartStep, Lstat, Probe, Unlink, Bind, Listen, Chmod, Open, SetTimeout,
                DropPrivileges
  <2> QED BY <2>1, <2>2 DEF ProcStep
<1> QED BY <1>1, <1>2, <1>3 DEF StartupTypeOK, Crowds

\* Types of the processes, the path and the device.
LEMMA TypeStep == StartupTypeOK /\ [StartupNext]_startVars => StartupTypeOK'
<1> SUFFICES ASSUME StartupTypeOK, [StartupNext]_startVars PROVE StartupTypeOK'
  OBVIOUS
<1>1. ASSUME NEW i \in Instances, ProcStep(i) PROVE StartupTypeOK'
  <2>1. pc' \in [Instances -> AllPCs]
    BY <1>1, OnlyOne DEF StartupTypeOK, AllPCs
  <2>2. path' \in Files
    BY <1>1, PathStep DEF StartupTypeOK, Files
  <2>5. crowd' \in Crowds
    BY <1>1, CrowdStep DEF StartupTypeOK
  <2>3. holder' \in {holder, None, i}
    BY <1>1 DEF ProcStep, Start, StartStep, Lstat, Probe, Unlink, Bind, Listen, Chmod, Open,
       SetTimeout, DropPrivileges, ResetPending, Terminate, StopStep, Disarm, Remove, Exit, Kill,
       Up,
       Fatal, Refused, GiveUp, Release
  <2>4. armed' \in BOOLEAN
    <3>1. armed' = armed \/ armed' = TRUE \/ armed' \in BOOLEAN
      BY <1>1 DEF ProcStep, Start, StartStep, Lstat, Probe, Unlink, Bind, Listen, Chmod, Open,
         SetTimeout, DropPrivileges, ResetPending, Terminate, StopStep, Disarm, Remove, Exit,
         Kill, Up,
         Fatal, Refused, GiveUp
    <3> QED BY <3>1, Zenon DEF StartupTypeOK
  <2> QED BY <2>1, <2>2, <2>3, <2>4, <2>5 DEF StartupTypeOK, AllPCs
<1>2. CASE UNCHANGED startVars
  BY <1>2 DEF startVars, StartupTypeOK
<1> QED BY <1>1, <1>2 DEF StartupNext, AllOver, ProcStep

\* The types hold in every state.
LEMMA StartupTypeCorrect == StartupSpec => []StartupTypeOK
<1>1. StartupInit => StartupTypeOK
  BY DEF StartupInit, StartupTypeOK, Files, Crowds
<1> QED BY <1>1, TypeStep, PTL DEF StartupSpec

----------------------------------------------------------------------------
(* The device *)

\* Only a process with a watchdog opens it and stops it.
WithWatchdog == \A i \in Instances : pc[i] \in {"open", "settimeout", "disarm"} => i \in Watchdog

\* While a process has the device open the watchdog counts.
Counting == holder # None => armed

DeviceInv == StartupTypeOK /\ DeviceHeld /\ WithWatchdog /\ Counting

\* Every step of a process keeps it.
LEMMA DeviceStep ==
  ASSUME DeviceInv, [StartupNext]_startVars
  PROVE  DeviceInv'
<1>t. StartupTypeOK /\ StartupTypeOK'
  BY TypeStep DEF DeviceInv
<1>1. ASSUME NEW i \in Instances, ProcStep(i)
      PROVE DeviceHeld' /\ WithWatchdog' /\ Counting'
  <2>1. \A j \in Instances : j # i => pc'[j] = pc[j]
    BY <1>t, <1>1, OnlyOne
  <2>0. /\ i # None
        /\ holder = i <=>
             i \in Watchdog /\ pc[i] \in {"settimeout", "privileges", "disarm"} \cup RunPCs
        /\ pc[i] \in {"open", "settimeout", "disarm"} => i \in Watchdog
    BY StartupAssumption DEF DeviceInv, DeviceHeld, WithWatchdog
  <2>2. /\ holder' = i <=>
             i \in Watchdog /\ pc'[i] \in {"settimeout", "privileges", "disarm"} \cup RunPCs
        /\ holder' \in {holder, None, i}
        /\ holder # None /\ holder # i => holder' = holder
        /\ pc'[i] \in {"open", "settimeout", "disarm"} => i \in Watchdog
        /\ holder' # None => armed' \/ (armed' = armed /\ holder # None)
    <3> USE DEF Go, Fatal, Refused, GiveUp, Release, StartupTypeOK, RunPCs
    <3>1. CASE Start(i) \/ ResetPending(i) \/ Terminate(i)
      BY <1>t, <2>0, <3>1 DEF Start, ResetPending, Terminate
    <3>2. CASE StopStep(i) \/ Kill(i)
      BY <1>t, <2>0, <3>2 DEF StopStep, Disarm, Remove, Exit, Kill
    <3>3. CASE Lstat(i) \/ Probe(i) \/ Unlink(i) \/ Bind(i)
      BY <1>t, <2>0, <3>3 DEF Lstat, Probe, Unlink, Bind
    <3>4. CASE Listen(i) \/ Chmod(i)
      BY <1>t, <2>0, <3>4 DEF Listen, Chmod
    <3>5. CASE Open(i)
      BY <1>t, <2>0, <3>5 DEF Open
    <3>6. CASE SetTimeout(i) \/ DropPrivileges(i)
      BY <1>t, <2>0, <3>6 DEF SetTimeout, DropPrivileges
    <3> QED BY <1>1, <3>1, <3>2, <3>3, <3>4, <3>5, <3>6 DEF ProcStep, StartStep
  <2>3. ASSUME NEW j \in Instances, j # i
        PROVE  holder' = j <=> holder = j
    BY <2>2, <2>3, StartupAssumption
  <2>4. DeviceHeld'
    BY <2>1, <2>2, <2>3 DEF DeviceInv, DeviceHeld
  <2>5. WithWatchdog' /\ Counting'
    BY <2>1, <2>2 DEF DeviceInv, WithWatchdog, Counting
  <2> QED BY <2>4, <2>5
<1>2. CASE UNCHANGED startVars
  BY <1>t, <1>2 DEF startVars, DeviceInv, DeviceHeld, WithWatchdog, Counting
<1> QED BY <1>t, <1>1, <1>2 DEF StartupNext, AllOver, ProcStep, DeviceInv

\* It holds in every state.
LEMMA DeviceInvariant == StartupSpec => []DeviceInv
<1>1. StartupInit => DeviceInv
  BY StartupAssumption DEF StartupInit, DeviceInv, StartupTypeOK, Files, Crowds, DeviceHeld,
     WithWatchdog, Counting, RunPCs
<1>2. DeviceInv /\ [StartupNext]_startVars => DeviceInv'
  BY DeviceStep
<1> QED BY <1>1, <1>2, PTL DEF StartupSpec

\* For any number of processes that start, race, fail, are killed and leave in any order,
\* /dev/watchdog is open in exactly the process that serves, or is about to, with a watchdog.
THEOREM DeviceIsHeld == StartupSpec => []DeviceHeld
<1>1. DeviceInv => DeviceHeld
  BY DEF DeviceInv
<1> QED BY <1>1, DeviceInvariant, PTL

----------------------------------------------------------------------------
(* No running instance is disrupted *)

\* Unless processes are racing, one at a time is on its way to listen.
OneStarter == crowd # "racing" =>
  \A i, j \in Instances : pc[i] \in UnboundPCs /\ pc[j] \in UnboundPCs => i = j

\* What a process is about to unlink has nobody listening.
StaleToUnlink == crowd # "racing" => \A i \in Instances : pc[i] = "unlink" => ~Answers(i)

StarterInv == StartupTypeOK /\ OneStarter /\ StaleToUnlink

\* Every step keeps it: a second process on its way is racing.
LEMMA StarterStep ==
  ASSUME StarterInv, [StartupNext]_startVars
  PROVE  StarterInv'
<1>t. StartupTypeOK /\ StartupTypeOK'
  BY TypeStep DEF StarterInv
<1>1. ASSUME NEW i \in Instances, ProcStep(i), crowd' # "racing"
      PROVE OneStarter' /\ StaleToUnlink'
  <2>0. crowd # "racing"
    BY <1>t, <1>1, CrowdStep
  <2>1. /\ \A j \in Instances : j # i => pc'[j] = pc[j]
    BY <1>t, <1>1, OnlyOne
  <2>2. /\ pc'[i] \in UnboundPCs => pc[i] \in UnboundPCs \/ Start(i)
        /\ pc'[i] = "unlink" => pc[i] = "probe" /\ ~Answers(i) /\ path' = path
        /\ Listens(i)' => Listens(i) \/ pc[i] = "listen"
    <3> USE DEF Go, Fatal, Refused, GiveUp, StartupTypeOK, UnboundPCs, StartPCs, RunPCs,
        StopPCs, EndPCs, Listens
    <3>1. CASE Start(i) \/ Kill(i) \/ Terminate(i) \/ ResetPending(i) \/ StopStep(i)
      BY <1>t, <3>1 DEF Start, Kill, Terminate, ResetPending, StopStep, Disarm, Remove, Exit
    <3>2. CASE StartStep(i)
      BY <1>t, <3>2 DEF StartStep, Lstat, Probe, Unlink, Bind, Listen, Chmod, Open, SetTimeout,
                        DropPrivileges
    <3> QED BY <1>1, <3>1, <3>2 DEF ProcStep
  <2>3. ASSUME NEW j \in Instances, j # i, pc[j] \in UnboundPCs
        PROVE  pc'[i] \notin UnboundPCs /\ pc[i] \notin UnboundPCs
    <3>1. pc[i] \notin UnboundPCs
      BY <2>0, <2>3 DEF StarterInv, OneStarter
    <3>2. CASE Start(i)
      BY <1>1, <2>3, <3>2 DEF Start, CrowdAtStart, Go, Fatal, Refused, GiveUp, UnboundPCs,
          StarterInv, StartupTypeOK
    <3> QED BY <2>2, <3>1, <3>2
  <2>4. OneStarter'
    BY <2>0, <2>1, <2>3 DEF StarterInv, OneStarter
  <2>5. ASSUME NEW j \in Instances, pc'[j] = "unlink" PROVE ~Answers(j)'
    <3>1. CASE j = i
      <4>1. ~Answers(i) /\ path' = path /\ pc[i] = "probe"
        BY <2>2, <2>5, <3>1
      <4>2. ASSUME NEW k \in Instances, Listens(k)' PROVE Listens(k)
        BY <2>1, <2>2, <4>1, <4>2 DEF Listens
      <4> QED BY <3>1, <4>1, <4>2 DEF Answers
    <3>2. CASE j # i
      <4>1. pc[j] = "unlink" /\ pc[i] \notin UnboundPCs /\ ~Answers(j)
        BY <2>0, <2>1, <2>3, <2>5, <3>2 DEF StarterInv, StaleToUnlink, UnboundPCs
      <4>2. path' = path \/ path' = NoFile
        BY <1>t, <1>1, <4>1, PathStep DEF UnboundPCs
      <4>3. ASSUME NEW k \in Instances, Listens(k)' PROVE Listens(k)
        BY <2>1, <2>2, <4>1, <4>3 DEF Listens, UnboundPCs
      <4> QED BY <4>1, <4>2, <4>3 DEF Answers, NoFile
    <3> QED BY <3>1, <3>2
  <2> QED BY <2>4, <2>5 DEF StaleToUnlink
<1>2. CASE UNCHANGED startVars
  BY <1>t, <1>2 DEF startVars, StarterInv, OneStarter, StaleToUnlink, Answers, Listens
<1>3. CASE crowd' = "racing"
  BY <1>t, <1>3 DEF StarterInv, OneStarter, StaleToUnlink
<1> QED BY <1>t, <1>1, <1>2, <1>3 DEF StartupNext, AllOver, ProcStep, StarterInv

\* Unless two processes are racing to listen, none that starts, with whatever calls failing,
\* takes the socket away from one that serves.
THEOREM StartDisruptsNobody == StartupSpec => RunningNotDisrupted
<1>1. StartupInit => StarterInv
  BY DEF StartupInit, StarterInv, StartupTypeOK, Files, Crowds, OneStarter, StaleToUnlink,
     UnboundPCs
<1>2. StarterInv /\ [StartupNext]_startVars => StarterInv'
  BY StarterStep
<1>3. StarterInv /\ [StartupNext]_startVars => [NotDisruptedStep]_startVars
  <2> SUFFICES ASSUME StarterInv, StartupNext, crowd # "racing",
                      NEW i \in Instances, pc[i] = "serving", path = SocketOf(i), path' # path,
                      pc'[i] = "serving"
               PROVE  \E j \in Instances \ {i} : pc[j] \in RunPCs \cup StopPCs /\ pc'[j] # pc[j]
    BY DEF NotDisruptedStep
  <2>1. PICK j \in Instances : ProcStep(j)
    BY DEF StartupNext, AllOver, ProcStep, startVars
  <2>2. path # NoFile /\ path.kind = "socket" /\ path.of = i /\ Listens(i)
    BY DEF SocketOf, NoFile, Listens, RunPCs
  <2>3. pc[j] # "unlink"
    BY <2>2 DEF StarterInv, StaleToUnlink, Answers
  <2>4. pc[j] \in RunPCs \cup StopPCs /\ pc'[j] # pc[j]
    BY <2>1, <2>2, <2>3, PathStep DEF StarterInv, RunPCs, StopPCs
  <2>5. j # i
    BY <2>4
  <2> QED BY <2>4, <2>5
<1> QED BY <1>1, <1>2, <1>3, PTL DEF StartupSpec, RunningNotDisrupted

----------------------------------------------------------------------------
(* The process that serves is the one clients reach *)

\* A process on its way out is the only one that is up.
LeavesAlone ==
  \A i, j \in Instances : pc[i] \in LeavePCs /\ pc[j] \in ActivePCs => i = j

\* From bind() until it leaves the loop the path is the process's own.
OwnPath ==
  \A i \in Instances :
    pc[i] \in {"listen", "chmod", "open", "settimeout", "privileges", "serving"} =>
      path = SocketOf(i)

ApartInv == StarterInv /\ (crowd = "apart" => LeavesAlone /\ OwnPath)

\* Every step keeps it: a start next to a process that listens is turned away by the probe,
\* and what else could take the path away ends the premise.
LEMMA ApartStep ==
  ASSUME ApartInv, [StartupNext]_startVars
  PROVE  ApartInv'
<1>t. StartupTypeOK /\ StartupTypeOK' /\ StarterInv /\ StarterInv'
  BY TypeStep, StarterStep DEF ApartInv, StarterInv
<1>1. ASSUME NEW i \in Instances, ProcStep(i), crowd' = "apart"
      PROVE LeavesAlone' /\ OwnPath'
  <2>0. crowd = "apart" /\ LeavesAlone /\ OwnPath
    BY <1>t, <1>1, CrowdStep DEF ApartInv
  <2>1. \A j \in Instances : j # i => pc'[j] = pc[j]
    BY <1>t, <1>1, OnlyOne
  <2>2. /\ pc'[i] \in ActivePCs => pc[i] \in ActivePCs \/ pc[i] = "off"
        /\ pc'[i] \in LeavePCs => pc[i] \in LeavePCs \/ pc[i] = "serving"
        /\ pc'[i] \in {"listen", "chmod", "open", "settimeout", "privileges", "serving"} =>
             path' = SocketOf(i)
    <3> USE DEF Go, Fatal, Refused, GiveUp, StartupTypeOK, ActivePCs, LeavePCs, StartPCs, RunPCs,
          StopPCs, EndPCs
    <3>1. CASE Start(i) \/ Kill(i) \/ Terminate(i) \/ ResetPending(i) \/ StopStep(i)
      BY <1>t, <3>1 DEF Start, Kill, Up, Terminate, ResetPending, StopStep, Disarm, Remove, Exit
    <3>2. CASE Lstat(i) \/ Probe(i) \/ Unlink(i) \/ Bind(i)
      BY <1>t, <3>2 DEF Lstat, Probe, Unlink, Bind
    <3>3. CASE Listen(i) \/ Chmod(i) \/ Open(i) \/ SetTimeout(i) \/ DropPrivileges(i)
      BY <1>t, <2>0, <3>3 DEF Listen, Chmod, Open, SetTimeout, DropPrivileges, OwnPath
    <3> QED BY <1>1, <3>1, <3>2, <3>3 DEF ProcStep, StartStep
  <2>3. ASSUME NEW j \in Instances, j # i, pc[j] \in LeavePCs, pc'[i] \in ActivePCs
        PROVE  FALSE
    <3>1. CASE pc[i] \in ActivePCs
      BY <2>0, <2>3, <3>1 DEF LeavesAlone
    <3>2. CASE pc[i] = "off"
      BY <1>t, <1>1, <2>0, <2>3, <3>2, CrowdStep DEF CrowdAtStart, Closer, LeavePCs
    <3> QED BY <2>2, <2>3, <3>1, <3>2
  <2>4. ASSUME NEW j \in Instances, j # i, pc[j] \in ActivePCs, pc'[i] \in LeavePCs
        PROVE  FALSE
    <3>1. CASE pc[i] \in LeavePCs
      BY <2>0, <2>4, <3>1 DEF LeavesAlone
    <3>2. CASE pc[i] = "serving"
      <4>1. crowd' = CrowdAtLeave(i) /\ Up(j)
        BY <1>t, <1>1, <2>4, <3>2, CrowdStep DEF Up, ActivePCs, StartPCs, RunPCs, StopPCs, EndPCs
      <4> QED BY <1>1, <2>0, <2>4, <4>1 DEF CrowdAtLeave, Closer
    <3> QED BY <2>2, <2>4, <3>1, <3>2
  <2>5. LeavesAlone'
    BY <2>0, <2>1, <2>3, <2>4 DEF LeavesAlone
  <2>6. ASSUME NEW j \in Instances, j # i, path = SocketOf(j),
               pc[j] \in {"listen", "chmod", "open", "settimeout", "privileges", "serving"}
        PROVE  path' = path
    <3>1. path # NoFile /\ path.kind = "socket" /\ path.of = j /\ pc[j] \in ActivePCs
      BY <2>6 DEF SocketOf, NoFile, ActivePCs, StartPCs, RunPCs, StopPCs
    <3>2. pc[i] # "unlink"
      <4>1. CASE pc[j] = "listen"
        BY <2>0, <1>t, <2>6, <4>1 DEF StarterInv, OneStarter, UnboundPCs
      <4>2. CASE pc[j] # "listen"
        BY <2>0, <1>t, <2>6, <3>1, <4>2 DEF StarterInv, StaleToUnlink, Answers, Listens, RunPCs
      <4> QED BY <4>1, <4>2
    <3>3. pc[i] # "remove"
      BY <2>0, <2>6, <3>1 DEF LeavesAlone, LeavePCs, StopPCs
    <3>4. ~(pc[i] = "serving" /\ pc'[i] = "pending")
      BY <2>4, <2>6, <3>1 DEF LeavePCs
    <3> QED BY <1>t, <1>1, <3>1, <3>2, <3>3, <3>4, PathStep
  <2>7. OwnPath'
    BY <2>0, <2>1, <2>2, <2>6 DEF OwnPath
  <2> QED BY <2>5, <2>7
<1>2. CASE UNCHANGED startVars
  BY <1>t, <1>2 DEF startVars, ApartInv, LeavesAlone, OwnPath
<1> QED BY <1>t, <1>1, <1>2 DEF StartupNext, AllOver, ProcStep, ApartInv

\* It holds in every state.
LEMMA ApartInvariant == StartupSpec => []ApartInv
<1>1. StartupInit => ApartInv
  BY DEF StartupInit, ApartInv, StarterInv, StartupTypeOK, Files, Crowds, OneStarter,
         StaleToUnlink, LeavesAlone, OwnPath, UnboundPCs, LeavePCs, StopPCs
<1>2. ApartInv /\ [StartupNext]_startVars => ApartInv'
  BY ApartStep
<1> QED BY <1>1, <1>2, PTL DEF StartupSpec

\* Unless processes race or leave next to one another, the one that serves is the one
\* clients reach, however many starts next to it fail or are refused.
THEOREM ServerReachable == StartupSpec => []ServingIsReachable
<1>1. ApartInv => ServingIsReachable
  BY DEF ApartInv, OwnPath, ServingIsReachable
<1> QED BY <1>1, ApartInvariant, PTL

\* The watchdog starts to count only when clients reach the process that is to feed it.
THEOREM OpenedWhenReady == StartupSpec => ArmedWhenReady
<1>1. ApartInv /\ DeviceInv /\ [StartupNext]_startVars => [ArmedWhenReadyStep]_startVars
  <2> SUFFICES ASSUME ApartInv, DeviceInv, StartupNext, crowd = "apart", ~armed, armed'
               PROVE  \E i \in Instances : holder' = i /\ path = SocketOf(i) /\ Listens(i)
    BY DEF ArmedWhenReadyStep
  <2>1. PICK i \in Instances : ProcStep(i)
    BY DEF StartupNext, AllOver, ProcStep, startVars
  <2>2. pc[i] # "disarm"
    BY StartupAssumption DEF DeviceInv, DeviceHeld, WithWatchdog, Counting
  <2>3. Open(i) /\ holder' = i
    BY <2>1, <2>2 DEF ProcStep, Start, StartStep, Lstat, Probe, Unlink, Bind, Listen, Chmod, Open,
       SetTimeout, DropPrivileges, ResetPending, Terminate, StopStep, Disarm, Remove, Exit, Kill,
       Fatal, Refused, GiveUp
  <2>4. path = SocketOf(i) /\ Listens(i)
    BY <2>3 DEF Open, ApartInv, OwnPath, Listens
  <2> QED BY <2>3, <2>4
<1> QED BY <1>1, ApartInvariant, DeviceInvariant, PTL DEF StartupSpec, ArmedWhenReady

=============================================================================
