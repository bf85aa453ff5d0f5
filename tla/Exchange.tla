------------------------------ MODULE Exchange ------------------------------
(***************************************************************************)
(* One request and its answer over the socket: the connect, write and read *)
(* that every call of the client library (src/wd-client.c) and             *)
(* send_and_receive of wd-ctrl (src/wd-ctrl.c) make on a connection of     *)
(* their own, against a daemon that serves one connection after the other, *)
(* may stop serving, may end at any point and may be started again.        *)
(*                                                                         *)
(* The daemon's side is ClientTable's handle_command; when it looks at a   *)
(* connection is left open here (module Broker says how long it takes), so *)
(* an answer may come before or after read_with_timeout has given up.      *)
(***************************************************************************)
EXTENDS ClientTable

CONSTANTS
  Peers,         \* the processes that use the socket
  QueueMax,      \* connections waiting in the listen() queue or being served
  Versions,      \* protocol versions a daemon may have
  MaxRestarts,   \* bound: the daemon is started again so many times
  MaxIDs         \* bound: no more clientIDs than this are drawn

ASSUME ExchangeAssumption ==
  /\ Peers \subseteq Procs \ {0}
  /\ QueueMax \in Nat \ {0}
  /\ MaxRestarts \in Nat /\ MaxIDs \in Nat

VARIABLES
  broker,    \* "serving", "pending" or "deaf" (reset pending), "down"
  version,   \* the daemon's SOCKET_PROT_VERSION
  base,      \* the clientIDs of 1 .. base were drawn by daemons that are gone
  restarts,  \* how often the daemon was started again
  queue,     \* the connections, in the order they were made
  ex         \* the exchange each process is in

exchangeVars == <<broker, version, base, restarts, queue, ex>>

NoReq == [cmd |-> "nothing"]

\* What read() has to return.  n is its result: some bytes, zero, or an error; an answer
\* to STATUS has a row for every client, one to VERSION the version.
Nothing == [n |-> "none", ans |-> "none", id |-> 0, rows |-> {}, version |-> ""]
Outcome(n) == [Nothing EXCEPT !.n = n]

Idle == [at |-> "idle", req |-> NoReq, got |-> Nothing]
Begin(r) == [Idle EXCEPT !.at = "connect", !.req = r]

----------------------------------------------------------------------------
(* The peer *)

\* The daemon has closed the connection it answered last; it does nothing else.
Elsewhere == CloseConnection /\ UNCHANGED <<broker, version, base, restarts>>

Move(p, at) == ex' = [ex EXCEPT ![p].at = at]
Finish(p, n) == ex' = [ex EXCEPT ![p].at = "done", ![p].got = Outcome(n)]

\* The path leads to a socket on which the daemon listens.
Reachable == broker \in {"serving", "deaf"}

Connect(p) ==
  /\ ex[p].at = "connect" /\ Reachable /\ Len(queue) < QueueMax
  /\ queue' = Append(queue, [proc |-> p, req |-> NoReq, open |-> TRUE])
  /\ Move(p, "write")

\* connect() waits for room in the queue, for as long as it takes.
ConnectBlocks(p) ==
  /\ ex[p].at = "connect" /\ Reachable /\ Len(queue) >= QueueMax
  /\ Move(p, "blocked")
  /\ UNCHANGED queue

\* Room was made or the socket is gone; the path is looked up again.
ConnectWakes(p) ==
  /\ ex[p].at = "blocked" /\ (Len(queue) < QueueMax \/ broker = "down")
  /\ Move(p, "connect")
  /\ UNCHANGED queue

\* No such file, or nobody listens.
ConnectFails(p) ==
  /\ ex[p].at = "connect" /\ ~Reachable
  /\ Finish(p, "error")
  /\ UNCHANGED queue

\* The connections of p that p has not closed; there is at most one.
Mine(p) == {i \in DOMAIN queue : queue[i].proc = p /\ queue[i].open}

Write(p) ==
  /\ ex[p].at = "write" /\ ex[p].got = Nothing
  /\ queue' = [i \in DOMAIN queue |->
                 IF i \in Mine(p) THEN [queue[i] EXCEPT !.req = ex[p].req] ELSE queue[i]]
  /\ Move(p, "read")

\* The daemon has closed the connection: EPIPE or ECONNRESET.  A seqpacket socket
\* raises no SIGPIPE.
WriteFails(p) ==
  /\ ex[p].at = "write" /\ ex[p].got # Nothing
  /\ Finish(p, "error")
  /\ UNCHANGED queue

ReadReturns(p) ==
  /\ ex[p].at = "read" /\ ex[p].got # Nothing
  /\ Move(p, "done")
  /\ UNCHANGED queue

\* Faulty: read() is called without a select() that limits the wait.
Bug_ReadGivesUp_never(p) == ex[p].at = "read" /\ ex[p].got # Nothing /\ UNCHANGED <<queue, ex>>

\* No answer within WD_READ_TIMEOUT_MS (0), or a signal of the application interrupts
\* select() (-1).  The caller closes its socket; what it wrote stays in the queue.
ReadGivesUp(p) ==
  /\ ex[p].at = "read" /\ ex[p].got = Nothing
  /\ \E n \in {"zero", "error"} : Finish(p, n)
  /\ queue' = [i \in DOMAIN queue |->
                 IF i \in Mine(p) THEN [queue[i] EXCEPT !.open = FALSE] ELSE queue[i]]

PeerStep(p) ==
  /\ \/ Connect(p) \/ ConnectBlocks(p) \/ ConnectWakes(p) \/ ConnectFails(p)
     \/ Write(p) \/ WriteFails(p)
     \/ ReadReturns(p) \/ ReadGivesUp(p)
  /\ Elsewhere

----------------------------------------------------------------------------
(* The daemon *)

\* The rows of STATUS: registered clients and announced ones.
Rows == {[id |-> clients[s].clientID, name |-> clients[s].name] : s \in LiveSlots}

\* What handle_command's answer brings to its reader.
Answered ==
  [n |-> "bytes", ans |-> reply'.ans, id |-> reply'.id,
   rows |-> IF reply'.ans = "status" THEN Rows ELSE {},
   version |-> IF reply'.ans = "version" THEN version ELSE ""]

\* A connection whose other end is closed is served like any other.
Serve ==
  /\ broker = "serving" /\ running /\ queue # << >>
  /\ LET c == Head(queue) IN
       /\ c.req # NoReq
       /\ handle_command(c.proc, c.req)
       /\ ex' = IF c.open THEN [ex EXCEPT ![c.proc].got = Answered] ELSE ex
  /\ queue' = Tail(queue)
  /\ UNCHANGED <<broker, version, base, restarts>>

\* Nothing was written within WD_READ_TIMEOUT_MS: "ERROR no input", and the close that
\* the writer will notice.
GiveUp ==
  /\ broker = "serving" /\ running /\ queue # << >> /\ Head(queue).req = NoReq
  /\ NoInput(Head(queue).proc)
  /\ ex' = [ex EXCEPT ![Head(queue).proc].got = Outcome("error")]
  /\ queue' = Tail(queue)
  /\ UNCHANGED <<broker, version, base, restarts>>

\* A client was missed: the queue is not looked at any more, and the path is unlinked.
\* That fails where the service user may not write to the directory (as in /run); then
\* peers can still connect.
ResetPending ==
  /\ broker = "serving" /\ LiveSlots # {}
  /\ broker' \in {"pending", "deaf"}
  /\ UNCHANGED <<tableVars, version, base, restarts, queue, ex>>

\* The process ends: a crash, a signal, or the exit after REBOOT.  Open connections are
\* reset; where the request had been read and not answered, the reader sees the end of
\* file instead.
Dies ==
  /\ broker # "down"
  /\ broker' = "down"
  /\ clients' = [s \in Slots |-> EmptyClient]
  /\ reply' = NoReply
  /\ \E n \in {"zero", "error"} :
       ex' = [p \in Peers |->
                IF Mine(p) = {} THEN ex[p]
                ELSE IF Mine(p) = {1} /\ queue[1].req # NoReq
                       THEN [ex[p] EXCEPT !.got = Outcome(n)]
                       ELSE [ex[p] EXCEPT !.got = Outcome("error")]]
  /\ queue' = << >>
  /\ UNCHANGED <<config, issued, running, reboot, version, base, restarts>>

\* Random clientIDs differ from those drawn before, by whichever process.
NewIDs(n) == [i \in 1 .. n |-> issued + i]

Restart ==
  /\ broker = "down" /\ restarts < MaxRestarts
  /\ \E cfg \in Configs, ann \in Announcements, v \in Versions :
       /\ AcceptedConfig(cfg, ann) /\ issued + Len(ann) <= MaxIDs
       /\ config' = cfg /\ version' = v
       /\ clients' = [s \in Slots |-> IF s <= Len(ann)
                                        THEN AnnouncedClient(ann[s], NewIDs(Len(ann))[s])
                                        ELSE EmptyClient]
       /\ issued' = issued + Len(ann)
  /\ base' = issued /\ restarts' = restarts + 1
  /\ broker' = "serving" /\ running' = TRUE /\ reboot' = FALSE /\ reply' = NoReply
  /\ UNCHANGED <<queue, ex>>

DaemonStep == Serve \/ GiveUp
DaemonFault == ResetPending \/ Dies \/ Restart

ExchangeInit ==
  /\ TableInit
  /\ broker = "serving" /\ version \in Versions /\ base = 0 /\ restarts = 0
  /\ queue = << >>
  /\ ex = [p \in Peers |-> Idle]

\* The clientIDs that can have been drawn once all requests under way are served.
RegistersUnderWay ==
  Cardinality({p \in Peers : ex[p].at \in {"connect", "blocked", "write"}
                               /\ ex[p].req.cmd = "REGISTER"})
    + Cardinality({i \in DOMAIN queue : queue[i].req.cmd = "REGISTER"})

=============================================================================
