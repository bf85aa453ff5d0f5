# wd-broker in TLA+

`wd-broker` is a daemon that owns `/dev/watchdog` and feeds it as long as every
client that registered over a Unix socket, or was announced in the configuration
file, sends its heartbeat in time. This directory holds TLA+ models of the daemon,
of the client library and of `wd-ctrl`, TLC configurations that check them on small
instances, and TLAPS proofs for every value of the parameters. Line numbers are those
of `src/src/wd-broker.c` unless another file is named.

## Inventory

| Part | State | Operations | Interaction | Modules |
|---|---|---|---|---|
| Client table, command handler (79-88, 241-276, 463-814) | `clients[]`: clientID, name, pid, timeout, last ping, `active`, `anounced`, `checkPID`; `running`, `reboot` | `make_clientID`, search by name and by ID, REGISTER, PING, UNREGISTER, REBOOT, STATUS, VERSION, refusals, no input | called by the main loop, waits up to 500 ms for the peer | `ClientTable` |
| Main loop (1064-1194) | `running`, `all_ok`, the `fd_set` | select, accept, check, feed, reset pending, reboot failsafe, disarm, exit | signals, socket, timerfd, watchdog | `Broker`, `QueueDelay`, `Supervisor`, `BrokerRefinement` |
| Feed timer and watchdog | time to expiry, armed, period, time to reset | expire, feed, SETTIMEOUT, magic close | external, driven by `main()` | `Broker` |
| Clock (816-830) | `last_ping` | `get_now`, `ms_since` | used by the handler and the check | `Clock` |
| Configuration file (282-435) | `config`, announced slots, `client_idx` | one turn of the `fgets` loop, the checks after it | before the loop | `ParseConfig` |
| Start-up and exit (838-1063, 1139-1194) | socket path, device, privileges | lstat, probe, unlink, bind, listen, chmod, open, SETTIMEOUT, setuid, the final unlink | other instances, file system | `BrokerStartup` |
| Client library (`src/src/wd-client.c`) | `wd_client_t`: clientID, status | check version, register, ping, unregister | one connection per exchange, 500 ms answer timeout | `Exchange`, `ClientLib` |
| `wd-ctrl` (`src/src/wd-ctrl.c`) | the last answer, the ID found in it | status, unregister, reboot | STATUS first, then the command on a second connection, as root | `Exchange`, `WdCtrl` |
| `src/src/common.c` | none | `read_with_timeout`, fatal errors | used by all three programs | `Exchange`, `Broker`, `BrokerStartup` |

The daemon is one thread. What is hard about it is not locking but time and order:
one iteration serves a connection, checks the ages and feeds, each at a different
moment; the `fd_set` is stale by the time it is used; one connection is served per
iteration and a silent one holds it for half a second; signals come between any two
steps; every call may fail; and after each of these the hardware watchdog must fire
exactly when it should. In the table, slots are reused, an ID outlives its client, and
`strict_clients` and `unique_clients` are enforced at several places that have to fit
together. Between processes there is the time between a request and its answer: a
client gives up while its request is still queued, `wd-ctrl` acts on a STATUS answer
that is no longer true, a daemon dies and is started again, two daemons find each
other on one path. `hazards` in `PROJECT.json` lists these with their lines and the
properties that cover them.

What makes the parts correct:

* table: live IDs are distinct, names are distinct where the configuration asks for it,
  a strict roster is in root's hands, a slot's identity is stable while it is live, a
  PID-checked client depends on its own process only;
* loop: a miss is noticed within a bound, the system is reset within a bound after it,
  it is not reset otherwise, a feed follows a check that found everybody well, REBOOT is
  not undone, a signal ends the process, a heartbeat sent early enough counts;
* clock and configuration file: the age means what it says at every instant, the file is
  read as one reads it as a whole;
* start-up: a start does not take a running broker's socket, the watchdog is open in the
  process that serves with it and armed by the one clients reach, what a crash leaves behind
  does not keep the next start from succeeding;
* client library and `wd-ctrl`: what a call reports is so in the daemon, calls return,
  and an ID never comes to mean somebody else.

## Modules

**`ClientTable`** is the table and the command handler. A step is one command, from the
parsed request to the reply. A request is a record (`cmd`, and `name`, `timeout`, `opt`
or `id`); every line refused for its form alone is `malformed`. A timestamp is kept as
`age`, the ticks since then, which is what `ms_since` computes from it; `AgeCap` bounds
it. clientIDs are numbered in the order they are drawn: with `Urandom` a drawn ID is new;
without, it is any ID drawn before or a new one, since the seed of line 260 can come up
again. `SlotsByName` and `FirstOf` are the search of lines 517-561, `SlotsByID` and
`Identified` that of 563-577. REGISTER's `%u` is `UInt`, a remainder. `parse_config` is
here the table it leaves; `ParseConfig` shows how it gets there.

**`Broker`** extends it with the rest of `main()`. `pc` says where `main()` is (`loop`,
`select`, `accept`, `read`, `check`, `feed`, `pending`, `stop`, `exited`, `crashed`); each
action is the code between two of these places. A tick is half a second, so `select()`'s
timeout is 2 ticks and `WD_READ_TIMEOUT_MS` is 1. Waiting in a system call takes the time
the call waits; the rest takes none, except that the scheduler may withhold the processor
for up to `MaxStall` ticks in each iteration. `fds` is the set `select()` returned and
stays as it is while a connection is served, so `Feed` uses the stale set as line 1119
does. `SelectInterrupted` is EINTR; it need not happen after a signal, because one that
arrives between the test of `running` and the call interrupts nothing.

External, modelled from how `main()` uses them: peers connect at any time while the queue
has room and send any request, now, later or never; the timerfd is periodic and its
expirations accumulate into one; the watchdog counts down from its period, is fed by a
write and by SETTIMEOUT, survives the process unless it was closed after `'V'`, and resets
the system at zero. That last point is the driver's magic close: where a driver stops on
any close, a crash of the daemon would disarm it. `Faults` names the calls that may fail:
`select`, `accept`, `peercred`, reading the timer, feeding, SETTIMEOUT, disarming, and
SIGKILL. The timer and the clients' clocks are started a little before the watchdog is
opened (399, 920, 998); the model starts them together. In the reset-pending state the
queued connections are not served any more; the model keeps them in `backlog` and nobody
looks at them again.

**`Supervisor`** is what the daemon promises, in terms of members, ages, due times and one
watchdog: no socket, no loop, no descriptors. It gives up on a late member or a failure,
feeds only right after it found all members well, never stops the watchdog when the
system is to be rebooted, and never resumes. **`BrokerRefinement`** maps `Broker` to it
(`INSTANCE Supervisor WITH`): a live slot is a member, `~running` is having been told, and
`~all_ok`, or the end of the process, is having given up. Supervisor's `Tick` demands that
the watchdog does not fire before it gave up, so the refinement contains the timing of
the loop. The mapping covers safety. Progress is checked on `Broker` itself, because
Supervisor's actions say what may happen and not when: it promises no more than
`OutlivedByNoMiss`, which bounds time and not steps.

**`QueueDelay`** is `Broker` with two history variables, how long each connection has
waited. `ServiceDelay` is the time a full queue of silent connections takes.

**`Clock`** is `get_now` and `ms_since` on `struct timespec`, with C's rounding and the
conversion to `unsigned int`, for a clock that is read at arbitrary nanoseconds.

**`ParseConfig`** is `parse_config` as it reads: a step is one turn of the `fgets` loop,
which chooses what `fgets` returns. A piece is what the branches tell apart: blank,
comment, a pair with a key and its value as `atoi` (an `int`, `Ints`) or `strcmp` sees it, a
section with or without `]`, garbage. `timeout_ms` is unsigned, so `atoi`'s result goes
through `UInt` before it is tested (367-369). The reference it is compared with (`SectionList`, `Settings`,
`WellFormed`) looks at the file as a whole.

**`BrokerStartup`** is `main()` before and after the loop for several processes that share
a path and a device. `pc[i]` is the next system call of process `i`; between two calls any
other process may run. Each call can fail of itself (`Faults`, among them opening the device
without being root), because of what is at the path or who has the device. `crowd` is
history, which no guard reads: how close two processes have come. They are `apart` as long as
a process was only started, failed or was killed next to one that listens; `leaving` once one
was on its way out while another was up; `racing` once one was started while another had not
come to `listen()` yet. `DeviceHeld` and `StartSucceeds` do without it; the properties of the
path say under which of these they hold, and what happens otherwise is below, under *What the
code does*.

**`Exchange`** is one connection from `connect()` to the answer, on both sides. The peer
connects, blocks while the queue is full, writes, reads until the answer, the end of file
or its 500 ms; the daemon serves the queue in order with `ClientTable`'s `handle_command`,
when it likes, may stop serving (reset pending, with or without the path unlinked), die at
any point and be started again with another configuration and version. What a peer that
gave up had written stays in the queue. **`ClientLib`** adds the three calls of the
library, with the VERSION exchange that precedes REGISTER, their results and the clientID
they leave. **`WdCtrl`** adds invocations of `wd-ctrl` next to the library's users: STATUS,
the search in the answer, and the second exchange; where nothing comes back the code looks
at the buffer again, which still holds the STATUS text, and so does the model.

`*_proofs` hold the theorems, `MC*` the instances for TLC. Operators named `Bug_...` are
faulty versions of the definition that follows them; nothing uses them except mutation
tests, which put each in place of its original to see a property fail.

## Runs

| Run | States | Shows |
|---|---|---|
| `table` (`MCClientTable.cfg`) | 641,093 | A client and root, two slots, two names, all four strict/unique settings, five rosters (among them a name twice, and more sections than slots), valid, too large and wrapping timeouts. `LiveIDsDistinct`, `UniqueNamesHold`, `StrictRosterKept`, `LiveSlotsKeepIdentity`, `PidCheckHolds`, `TableTypeOK`. |
| `broker` (`MCBroker.cfg`) | 2,481,109 | One slot, announced or not, a queue of two, one tick of stall per iteration, every fault. `DetectionBound`, `NoSpuriousReset`, `ResetBound`, `RebootStaysArmed`, `FedOnlyIfHealthy`, `BrokerTypeOK`, and the refinement `BrokerImplementsSupervisor`. |
| `broker_live` (`MCBrokerLive.cfg`) | 406,790 | Two slots, every fault, under fairness: the check reaches every client (`DetectionBound`, `ResetBound`), `MissIsNoticed`, `ResetFollows`, `SignalEnds`, `RebootFollows`. |
| `queue` (`MCQueueDelay.cfg`) | 399,818 | `--no-watchdog`; heartbeats among silent connections: `ServedInTime`, `PunctualNotMissed`. |
| `clock` (`MCClock.cfg`) | 8,646 | Every combination of the nanoseconds of two readings, ages that wrap: `OverdueIsExact`, `AgeNeverGoesBack`. |
| `config` (`MCParseConfig.cfg`) | 467,241 | All files of up to five pieces, three slots: `ParserAgrees`, `AcceptedIsInitial` (what is left satisfies `ClientTable`'s `TableInit`). |
| `startup` (`MCStartup.cfg`) | 33,967 | Three processes, one without a watchdog, every fault, any overlap, under fairness: `DeviceHeld`, `ServingIsReachable`, `RunningNotDisrupted`, `ArmedWhenReady`, `StartSucceeds`. |
| `client_lib` (`MCClientLib.cfg`) | 130,417 | One process, a queue of three, late answers, crashes, a restart, another version, under fairness: `SuccessMeansWatched`, `SuccessMeansGone`, `EveryCallReturns`, `LibTypeOK`. |
| `wd_ctrl` (`MCWdCtrl.cfg`) | 4.4 million | A user of the library, an announced client and `wd-ctrl` by name, by ID and for a reboot: `RemovedAsAsked`, `UnregisterReportTrue`, `RebootReportTrue`. |
| `signal_after_miss` | | Violation of `MissKeepsArmed`: a signal while the reset is pending disarms the watchdog. |
| `orphan` | | Violation of `FailureMeansUnwatched`: a registration that timed out is served later. |
| `config_options` | | Violation of `DocumentedIsAccepted`: documented options and names are refused. |

The last three state what the documentation says and the code does differently; `findings`
in `PROJECT.json` quotes the sentences.

### Bounds

* Table: two slots and two names are the least with which a slot can hide another, a name
  be used twice or the table be full; three IDs (`MaxIDs`) allow a slot to be given up and
  reused while another is held. `UIntRange` is a small power of two, so that REGISTER's
  timeout wraps within the numbers enumerated. `MCClientTable` closes the connection after
  a reply before the next command, as `main()` does.
* Time: ages beyond `AgeCap` make no difference, since it is larger than every age the
  properties mention, which `BrokerAssumption` states. The watchdog periods (6 s and 4 s)
  are the shortest whose half is longer than what two iterations can be held up by at the
  stall of the run, so that the feed has no slack to hide behind; the proofs cover the
  configured 10 to 60 s. Client timeouts of 1 to 7 ticks are shorter than the code's 10
  (5 s) or more: the bounds are relative to the timeout.
* Queue: `BacklogMax = 2` is what holds up two iterations in a row; a longer queue adds
  iterations of the same kind. `QueueMax = 3` in `client_lib` holds the abandoned requests
  of two earlier calls in front of the current one, and can be full. The proofs are for
  any length.
* Clock: four milliseconds to the second and three nanoseconds to the millisecond give
  every combination of borrow and rounding; 32 values of `unsigned int` let ages wrap.
* Configuration: five pieces (`MaxPieces`) are two sections with a timeout each and an
  option, or one section more than the three slots can hold and an option.
* Start-up: three processes, so that the last finds what two others left, or one that
  starts while another serves and a third stops.
* Library: one restart (`MaxRestarts`) with another version, three clientIDs. The safety
  properties were also explored with two users; with several users `EveryCallReturns` does
  not hold, since `connect()` waits without limit and others may take the room in the
  queue again and again.

### Deadlock

No run switches deadlock checking off. The states without a step of their own are the ones
after a reset and after an exit with the watchdog disarmed (`Over`), a file that was parsed
(`Parsed`), and processes that have all ended (`AllOver`). In `client_lib` and `wd_ctrl`
there is always something an application or a fault can do, or a daemon that is down for
good and calls that fail.

### Fairness

`FairBrokerSpec` assumes weak fairness of the process (`BrokerStep`) and of time (`Tick`):
the kernel schedules a runnable process eventually, and clocks go on. `FairLibSpec` assumes
that a process goes on with the call it is in (`Proceed`; `read_with_timeout` guarantees
that its wait ends) and that a daemon which is up and not pending serves its queue, which
`ServedInTime` shows of the loop. `FairStartupSpec` assumes that a process which starts or
stops is not held up for ever. Nothing is assumed of applications, clients, signals, faults
and restarts; in particular no client is assumed to send what it is waited for, and no
daemon to be started again.

## Proofs

For any table length, names, processes, requests, timeouts and queue length, any set of
faults and any stall with `2 * (ReadTimeout + MaxStall) < FeedInterval`. With the shortest
watchdog timeout the configuration accepts (10 s, line 60) the last condition allows stalls
of 1.5 s in each iteration. The assumptions on constants are named (`TableAssumption`,
`BrokerAssumption`, `StartupAssumption`, `ExchangeAssumption`, `LibAssumption`, ...) and
evaluated by TLC in the runs.

`ClientTable_proofs`:

* `TableTypeCorrect`, and with it the lemmas that say what a command does to a slot
  (`CommandEffect`: a slot is joined, left, pinged or merely aged);
* `IDsDistinct`, for `Urandom`. Not inductive alone: `IDInv` adds that live IDs are among
  the ones drawn, so a new one differs from all of them;
* `NamesUnique`. `NameInv` adds that a slot is never active and announced at once
  (`FlagsExclusive`). The search refuses a name that is active and prefers an announced
  slot of that name, so a free slot is only given to a name nobody has;
* `IdentityKept`, `StrictRosterSafe`, `PidCheckSafe`, action properties from the type
  invariant and the effect of a step.

`Broker_proofs`:

* `BrokerTypeCorrect` and `RebootKeepsArmed` from `BaseInv`, the types together with what
  each `pc` implies;
* `BrokerImplementsTable`: every step of the loop is a step of the table or leaves it
  alone, so all theorems about `TableSpec` hold in the daemon;
* `MissDetected`. `CheckInv` bounds the age of every client by its timeout and the time
  since the last check, which `SinceCheck` gives for each `pc`: the part of the `select()`
  timeout, of the read timeout and of the stalls already used up;
* `NeverSpurious`. `FeedInv` relates the watchdog to the timer. `UntilFeed` is the time
  until an expired timer is read, counting one whole further iteration when the `fd_set`
  at hand does not contain the timer; the time since the expiry and `UntilFeed` together
  never exceed `2 * (ReadTimeout + MaxStall)`, and the watchdog has at least one more feed
  interval than that;
* `ResetInTime`. `ResetInv`: age plus the watchdog's remaining time never exceeds timeout +
  stall + watchdog period. A tick moves both by one, a feed is preceded by a check, and
  PING sets the age to zero. Crashes change neither;
* `FedWhenHealthy`, from `CheckInv`;
* `QueueBound` and `PunctualCounts`, about `QueueDelay`. Each connection's wait, together
  with `Until`, the time its turn can still take (a read timeout and a stall for each one in
  front of it, and what is left of the current iteration), stays below `ServiceDelay`. The
  length of the queue is arbitrary.

`Supervisor_proofs`: `SupOutlivedByNoMiss` and `SupResetHasCulprit` of the abstract
specification alone. `Budget` is what makes the first inductive.

`BrokerRefinement_proofs`: `BrokerRefines`, that every step of `Broker` maps to a step of
`Supervisor` or to none, action by action, from the invariants of `Broker_proofs` and
`ServingInv` (a process in its loop was not given up); with it `CulpritInTable`, the abstract
theorem carried over to the daemon.

`BrokerStartup_proofs`, for any number of processes and any failing calls:

* `DeviceIsHeld`, whatever the interleaving. `DeviceInv` adds the types (`StartupTypeOK`), that
  only processes with a watchdog come to the calls that open and stop it, and that the
  watchdog counts while somebody holds the device;
* `StartDisruptsNobody` from `StarterInv`: unless processes race, one at a time is on its way
  to listen, so what it found nobody listening on has nobody listening when it unlinks it;
* `ServerReachable` and `OpenedWhenReady` from `ApartInv`: as long as processes are apart, one
  that leaves is the only one up, and from `bind()` until it leaves the loop the path is the
  process's own. Another process cannot bind it, is turned away by the probe, and cannot
  have probed before this one listened.

`Peers_proofs`, for any number of users of the library and of `wd-ctrl`, any queue, table and
number of restarts, with `Urandom`. It is built in layers, each inductive on the one before:

* `DaemonInv`: live IDs are drawn by the present daemon, above `base`, and distinct. With it
  `IDsPersist`, a fact about every step: an ID that was drawn never comes to name another
  slot or another client;
* `ExchInv`, about any process that uses the socket: one that waits has exactly one open
  connection in the queue, its last one (`LastOpen`, `OpenWaits`), carrying the request of
  its exchange; requests abandoned earlier are in front of it. The queue is served in order,
  so once an exchange was answered nothing of this process is left that could undo it;
* `CallsInv` and `LibInv`, about the library: a clientID a process holds was drawn for it,
  and no other process's slot has that ID (`UserOK`, `Owns`, `Settled`). From it
  `LibTypeCorrect`, `SuccessIsWatched` and `SuccessIsGone`;
* `CtrlInv`, about `wd-ctrl` next to the library's users. `FoundOK`: the ID `wd-ctrl` found in
  a STATUS answer was drawn, and whichever slot still has it belongs to a client with the name
  or the ID the operator gave. `SentByCtrl`: every UNREGISTER of its own in the queue, the
  abandoned ones included, carries that ID. `AnswerTrue`: an answer it has read but not
  evaluated is still so. From it `RemovesAsAsked`, `UnregisterReported` and `RebootReported`.
  What makes them true is `IDsPersist`: between the STATUS answer and the UNREGISTER the slot
  can be given up, reused or lost in a restart, the ID cannot.

Two users and abandoned calls are what makes the properties alone far from inductive.

`ParseConfig_proofs`, for files of any length with any pieces, any number of slots and with or
without `Urandom`: `ParserAgreesAlways` and `AcceptedIsAlwaysInitial`. The reference speaks of
whole files, but no induction over them is needed: `ConfigInv` says that as long as the loop
goes on, `config`, the options and the table are what the reference makes of the pieces read so
far, and the proof compares the reference before and after one more piece (`ValueRead`,
`SectionRead`, `SectionBegun`, `FormRead`). Two things have to be carried along for that. The
last of a set of places, which the reference chooses, exists (`LastsKnown`). And `pos` lists the
sections by place, one for each slot used (`Ordered`), from which the reference's list, defined
by counting, is recovered (`SectionsCounted`). A piece the loop gives up on is one the reference
rejects, whatever would follow (`BadIsRejected`, `TooManyRejected`). `InRange` is the test of an
`int` stored in an `unsigned int`; it needs that the largest timeout is an `int`, which
`ConfigAssumption` says.

`Clock_proofs`, for any milliseconds to the second, nanoseconds to the millisecond, width
of `unsigned int`, timeout and sequence of readings: `DeadlineExact` and `AgeMonotone`.
`ClockInv` says that `last_ping` is the reading of an instant not after now. `Rounding`: the
remainder of C's division is smaller than the divisor and has the sign of the dividend, so
the milliseconds computed differ from the elapsed nanoseconds by less than one millisecond.
That alone would let a reading rounded up be followed by a lower one rounded down; but then
the two nanosecond differences have different signs, and the seconds decide (`Monotone`).

Model-checked only: the liveness properties (`MissIsNoticed`, `ResetFollows`, `SignalEnds`,
`RebootFollows`, `StartSucceeds`, `EveryCallReturns`), which need fairness and `ENABLED`, out of
the prover's reach here. Every invariant and every action property of the runs is proved.
Distinct IDs, and what the library and `wd-ctrl` make of them, are proved for `Urandom` only:
IDs from the fallback generator repeat, and `LiveIDsDistinct` fails.

## What the code does

Behaviour that a reader of the documentation would not expect, apart from the three findings
above. Each follows from the models; none is contradicted by a property of the runs.

* The connection is served before the check (1083-1097), so a PING that arrives after its
  deadline but before the check saves its client.
* PING finds announced slots too (566-571, 674): with the ID of a client that was announced
  and has not registered it restarts the registration deadline, which
  `doc/ConfigurationFile.md:79` describes as fixed. The ID is in the STATUS answer only.
* REBOOT served in the iteration that finds a miss still goes through the reboot failsafe
  (1155-1163): the watchdog is set to `reboot_timeout_s` and fed once more, while `README.md:5`
  says that it "only gets fed when all registered clients are responsive".
* Without `/dev/urandom` clientIDs come from a generator seeded anew for every ID (260), and
  an ID may be drawn twice; `doc/Protocol.md:23` calls them unique. `LiveIDsDistinct` fails
  with `Urandom = FALSE`.
* Two processes that race to listen: the second may probe between `bind()` and `listen()` of
  the first, find nobody, and unlink the first one's socket (939-951). Without a watchdog, or
  with one in one of them only, both then run, the first without being reachable; of two with
  a watchdog one finds the device busy and ends (`DeviceHeld`), which may be the reachable one. `doc/ThreatModel.md:44` describes
  the probe as what avoids "disrupting a running instance".
* A process that exits, or whose reset is pending, unlinks the path (1148, 1193) whoever's
  socket is there by then, and chmod() and chown() at start work on the path too.
* `fgets` with 256 bytes (310): the rest of a longer line, a comment included, is parsed as a
  line of its own; `doc/ConfigurationFile.md:11` says that comments are ignored.
* `atoi` (327, 335, 367) takes `10x` for 10, and the length test at 389 lets a section
  without its `]` pass, although the comment at 308-309 says "Be strict about the format".
* A section name with a blank in it is accepted (383), but REGISTER's name ends at the first
  blank (66), so such a client can never register and its deadline passes.
* In `wd-ctrl` the answer buffer still holds the STATUS text when nothing comes back for the
  second request (`src/src/wd-ctrl.c:178`); no report of success follows from it, because that
  text does not start with `OK`.

## Not modelled

* Text: the spelling of requests, replies and configuration lines, logging, boot status, help
  texts, the status string of `wd_client_t`. With them the length of the STATUS text: at line
  784 `offset` counts what `snprintf` would have written, which matters when a full table of
  long names exceeds the buffer.
* The test client (`src/src/wd-client-test.c`) and the test suite, which are users of the
  library and of the daemon.
* Ownership checks, users and groups, `fork()`: one step of `BrokerStartup` that succeeds or
  ends the process.
* Several threads that share one `wd_client_t`; the library leaves locking to its user.
