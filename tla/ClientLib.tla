----------------------------- MODULE ClientLib -----------------------------
(***************************************************************************)
(* The client library (src/wd-client.c) in the processes of Users.  A call *)
(* is begun by the application, makes one or two exchanges with the daemon *)
(* and returns a code; lib[p] is what is left of it: the wd_client_t and   *)
(* the last call with its result ("none" while it is in progress).         *)
(***************************************************************************)
EXTENDS Exchange

CONSTANTS
  Users,       \* processes with one wd_client_t each
  Calls        \* the REGISTER requests that arguments of wd_client_register stand for

ASSUME LibAssumption ==
  /\ Users \subseteq Peers
  /\ Calls \subseteq [cmd : {"REGISTER"}, name : Names \cup {""}, timeout : Nat,
                      opt : {"none", "ignorepid"}]

VARIABLE lib

libVars == <<tableVars, exchangeVars, lib>>

\* WD_CLIENT_OK and the error codes of wd-client.h.
Results == {"none", "OK", "ERR", "EPARAM", "ETIMEOUT", "EVERSION"}

\* SOCKET_PROT_VERSION of the library.
ProtVersion == "1.0"

\* Faulty: the caller's structure is not initialised.
Bug_FreshClient_garbage == [clientID |-> MaxIDs + 1, call |-> NoReq, result |-> "none"]

\* WD_CLIENT_INIT.
FreshClient == [clientID |-> 0, call |-> NoReq, result |-> "none"]

Returned(p) == ex[p].at = "idle"

Return(p, res) ==
  /\ lib' = [lib EXCEPT ![p].result = res]
  /\ ex' = [ex EXCEPT ![p] = Idle]

\* The call is for request r; r0 is the first thing sent.
Start(p, r, r0) ==
  /\ lib' = [lib EXCEPT ![p].call = r, ![p].result = "none"]
  /\ ex' = [ex EXCEPT ![p] = Begin(r0)]

\* A call whose arguments are refused.
Refuse(p, r) ==
  /\ lib' = [lib EXCEPT ![p].call = r, ![p].result = "EPARAM"]
  /\ UNCHANGED ex

wd_client_register(p, r) ==
  /\ Returned(p)
  /\ issued + RegistersUnderWay < MaxIDs
  /\ IF r.name # "" /\ TimeoutInRange(r.timeout)
       THEN Start(p, r, [cmd |-> "VERSION"])
       ELSE Refuse(p, r)

\* PING or UNREGISTER with the clientID held.
ByID(p, cmd) ==
  LET r == [cmd |-> cmd, id |-> lib[p].clientID] IN
    /\ Returned(p)
    /\ IF lib[p].clientID # 0 THEN Start(p, r, r) ELSE Refuse(p, r)

wd_client_ping(p) == ByID(p, "PING")
wd_client_unregister(p) == ByID(p, "UNREGISTER")

\* The end of wd_client_check_prot_version, and what wd_client_register makes of it.
VersionChecked(p) ==
  LET got == ex[p].got IN
    /\ ex[p].at = "done" /\ ex[p].req.cmd = "VERSION"
    /\ \/ got.ans # "version" /\ Return(p, "ERR")
       \/ got.ans = "version" /\ got.version # ProtVersion /\ Return(p, "EVERSION")
       \/ /\ got.ans = "version" /\ got.version = ProtVersion
          /\ ex' = [ex EXCEPT ![p] = Begin(lib[p].call)]
          /\ UNCHANGED lib

\* Faulty: no answer counts as consent; any answer counts as OK.
Bug_ResultOf_zeroIsOK(got) == IF got.n = "error" THEN "ERR" ELSE "OK"
Bug_ResultOf_anyAnswer(got) ==
  CASE got.n = "error" -> "ERR" [] got.n = "zero" -> "ETIMEOUT" [] got.n = "bytes" -> "OK"

\* What a call makes of the result of read_with_timeout: zero is called a timeout, whether
\* it was one or the end of file.
ResultOf(got) ==
  CASE got.n = "error" -> "ERR"
    [] got.n = "zero" -> "ETIMEOUT"
    [] got.n = "bytes" -> IF got.ans \in {"OK", "OK id"} THEN "OK" ELSE "ERR"

\* The end of wd_client_register, wd_client_ping and wd_client_unregister.  Only a
\* registration that succeeds changes the clientID; unregistering leaves it in place.
CallReturns(p) ==
  LET got == ex[p].got
      res == ResultOf(got) IN
    /\ ex[p].at = "done" /\ ex[p].req.cmd # "VERSION"
    /\ lib' = [lib EXCEPT ![p].result = res,
                          ![p].clientID = IF lib[p].call.cmd = "REGISTER" /\ res = "OK"
                                            THEN got.id ELSE @]
    /\ ex' = [ex EXCEPT ![p] = Idle]

CallStep(p) ==
  /\ VersionChecked(p) \/ CallReturns(p)
  /\ Elsewhere /\ UNCHANGED queue

Call(p) ==
  /\ (\E r \in Calls : wd_client_register(p, r)) \/ wd_client_ping(p) \/ wd_client_unregister(p)
  /\ Elsewhere /\ UNCHANGED queue

\* The part of a call that its process is free to go on with.
Proceed(p) == CallStep(p) \/ (PeerStep(p) /\ UNCHANGED lib)

LibInit == ExchangeInit /\ lib = [p \in Users |-> FreshClient]

LibNext ==
  \/ \E p \in Users : Call(p) \/ Proceed(p)
  \/ (DaemonStep \/ DaemonFault) /\ UNCHANGED lib

LibSpec == LibInit /\ [][LibNext]_libVars

\* A process goes on with the call it is in, and a daemon that is up and not waiting for
\* its reset serves.  Nothing is assumed of applications, of faults and of restarts.
LibFairness ==
  /\ \A p \in Users : WF_libVars(Proceed(p))
  /\ WF_libVars(DaemonStep /\ UNCHANGED lib)

FairLibSpec == LibSpec /\ LibFairness

----------------------------------------------------------------------------
(* Safety *)

\* Types of the exchanges, the queue and the library's state.
LibTypeOK ==
  /\ TableTypeOK
  /\ broker \in {"serving", "pending", "deaf", "down"}
  /\ version \in Versions
  /\ base \in 0 .. issued
  /\ restarts \in 0 .. MaxRestarts
  /\ Len(queue) <= QueueMax
  /\ \A p \in Peers : ex[p].at \in {"idle", "connect", "blocked", "write", "read", "done"}
  /\ \A p \in Users : lib[p].result \in Results /\ lib[p].clientID \in 0 .. issued

\* The last call of p was for cmd and has returned OK.
Succeeded(p, cmd) == Returned(p) /\ lib[p].call.cmd = cmd /\ lib[p].result = "OK"

\* After a registration or a ping that returned OK the client is watched under the ID it
\* holds, for as long as it makes no further call and the daemon is not restarted:
\* requests of earlier calls that had given up waiting (lines 155, 201, 247) are still
\* served, in any number, but none of them comes late enough to undo this one.
SuccessMeansWatched ==
  \A p \in Users :
    (Succeeded(p, "REGISTER") \/ Succeeded(p, "PING")) /\ lib[p].clientID > base
      /\ broker # "down"
    => \E s \in Slots : clients[s].active /\ clients[s].pid = p
                         /\ clients[s].clientID = lib[p].clientID

\* After an unregistration that returned OK no slot answers to the ID, now or after any
\* restart, although wd_client_unregister keeps it: a PING by mistake is refused and
\* keeps nobody else alive.
SuccessMeansGone ==
  \A p \in Users : Succeeded(p, "UNREGISTER") => SlotsByID(lib[p].clientID) = {}

----------------------------------------------------------------------------
(* Liveness *)

\* Every call returns, with an answer, a timeout or an error, whatever becomes of the daemon:
\* only connect() has no time limit, and a process that waits in it for room in the queue
\* when the reset becomes pending waits for the reset.  It is a property of one process and
\* the daemon: among several, others may take the room in the queue again and again.
EveryCallReturns ==
  \A p \in Users :
    ~Returned(p) ~> Returned(p) \/ (ex[p].at = "blocked" /\ broker \in {"pending", "deaf"})

----------------------------------------------------------------------------
(* What the documentation says, where the code does something else *)

\* wd-client.h: wd_client_register returns "WD_CLIENT_OK on success, or other error codes on
\* failure".  So a process whose only registration failed is not registered.
FailureMeansUnwatched ==
  \A p \in Users :
    Returned(p) /\ lib[p].call.cmd = "REGISTER" /\ lib[p].result # "OK" /\ lib[p].clientID = 0
      => \A s \in Slots : clients[s].active => clients[s].pid # p

=============================================================================
