# aeth_ext: TLA+ models, model checking and proofs

This directory holds a formal development of the stateful parts of `aeth_ext`
(the repository's `src/src/aeth_ext/`): TLA+ modules translated from the
source, TLC configurations that check them on small instances, and theorems
with machine-checked TLAPS proofs. Source paths below are relative to
`src/src/aeth_ext/` unless they start with `src/`.

- [1. The system](#1-the-system): components, state, operations, interactions
- [2. Plan](#2-plan): modules, their order, what is left
- [3. The modules](#3-the-modules): how each corresponds to the code
- [4. The runs](#4-the-runs): what TLC checks, the bounds, the fairness
- [5. The proofs](#5-the-proofs): what TLAPS proves and along which argument
- [6. Findings](#6-findings)
- [7. What is not modelled, and why](#7-what-is-not-modelled-and-why)

## 1. The system

`aeth_ext` is a library that several long-running Python programs share. Its
stateful parts are connection pools for FTP and SFTP and the sessions that
borrow from them, a process-wide shutdown protocol, a log client that survives
disconnects and crashes, a central log server, and a static search of source
trees whose caches are shared by threads.

### 1.1 Connection pools (`ftp/pool/`)

| part | state | operations |
|---|---|---|
| `WakeupGate` (`base.py` 73-237) | a pipe, `_pending`, `_closed`, `_epoch`, a lock | `signal`, `close`, `raise_if_closed`, `retry_until` |
| `PooledAdapterBase` (`base.py` 240-625) | `_current_size`, `_discovered_max`, time of the last probe, `_probes_in_flight`, `_size_lock`, keepalive thread, registration for shutdown | `_open_new_slot`, `_ensure_keepalive_started`, `_ensure_registered_for_shutdown`, `_shutdown_teardown`, `close` |
| `FTPAdapter` (`ftp_adapter.py`) | a bounded queue `_idle` of connections | `acquire`, `release`, `_keepalive_check_one`, `_teardown_idle` |
| `SFTPChannelPool`, `ChannelLedger` (`sftp_channel_pool.py`) | per transport: channel count, cap, throughput; `idle` channels, `in_flight`, a dial lock, a prune thread | `acquire`, `release`, `teardown`, `keepalive_check_one`, `_prune_loop` |
| `AdaptedFTP`, `AdaptedSFTP` (`ftp/session.py`) | depth of nested entries, handle, fatal flag | enter, exit, transfers |

Sessions call `acquire` and `release` from any number of threads. The pools
dial outside their locks, since a dial may block without limit; whatever was
decided before the dial may be stale after it. The adapters, the keepalive
thread, the pruner and the shutdown pass meet on `_size_lock`, `ledger.lock`
and the gate. *Hard:* stranded waiters; reservations that must be undone exactly
once on six different exits; a teardown in the middle of a dial, a release or
a growth; growth past a discovered ceiling one probe at a time; two tiers of
books (transports and channels) that change under two locks. *Correct means:*
every slot is counted once; no connection leaks or is handed out twice; a
transport is closed only when nobody uses it; freed capacity is signalled;
nothing is queued in a torn-down pool; `close()` ends every `acquire()`.

A session (`AdaptedFTP`, `AdaptedSFTP`) borrows a handle at the outermost
`with`, and gives it back, healthy or fatal, at the outermost exit. *Hard:*
which exception `__exit__` gets to see when a transfer, its drain and the other
side's transfer fail together; an iterator of `listdir()` that outlives its
block; a reply waited for that the server never owes. *Correct means:* a handle
given back as healthy is usable.

### 1.2 Process shutdown (`errors/shutdown.py`)

State: the one-shot events of the kinds RUNNING < GRACEFUL < FATAL < FORCED,
the registrations, the drive counter, the wakeup pipe, the signal counters.
Operations: `request`, `run_shutdown` (the first caller starts a thread with
the pass), early exit, the ladder of repeated signals, the join at interpreter
exit. Every other component registers a callback or waits on `SHUTDOWN`.
*Hard:* two requests race and one drives; a stronger kind shortens the budget
of a pass under way; optional callbacks are abandoned on overrun; the signal
handler interrupts the main thread anywhere, inside a call of its own
included; the main thread may exit while somebody asks. *Correct means:* the
pass runs once; a waiter never reads RUNNING; a callback is only abandoned past
its budget; the process is held until the pass is over, and it does end.

### 1.3 Log client (`central_log_server/client/`)

State: a socket, a buffer of entries (`history.py`), the id of the last entry
sent, a checkpoint of the ids on disk (`id_checkpoint.py`). Operations: `emit`,
the sender thread or drain loop, the handshake and replay after a reconnect,
the switch to writing through at shutdown, the emergency writer. *Hard:* what
the kernel still held when a connection was reset; an ack older than what is in
the server's queue; a checkpoint that lags; a mode that flips in the middle of
a flush. *Correct means:* a record that the server would never ask for again has
reached its handlers, or its loss was reported; the last id is on its way to the
checkpoint, and a retired buffer is empty.

### 1.4 Log server (`central_log_server/server/`)

State: one reader per connection, a queue to the writer thread, a logger
hierarchy per source, the registry of the last id of each client. Operations:
`_handle_client`, the writer's `_register`, `_dispatch`, `_unregister`,
`_drain`, the registry's `update` and `save`. *Hard:* the unregister of an old
connection after the register of the new one; acks taken from the registry
while records wait in the queue; a crash between update and save. *Correct
means:* the live connection keeps its hierarchy; the registry does not pass
what was lost.

### 1.5 Static evaluation (`static_eval.py`)

State: seven process-wide `_OnceCache`s over the files of a source tree, with a
lock per key under computation. Operations: `find_subclasses`,
`find_subclasses_local`, `parse_and_grab_constants`, `reset_subclass_caches`.
*Hard:* computations that look up other keys under their own key's lock, in
several threads, and may raise; values derived from values of other caches;
relative and aliased imports resolved without importing; which directory's
constant wins. *Correct means:* a search returns the classes that Python itself
would call subclasses, whatever was cached before, each value is computed once,
and threads do not deadlock.

### 1.6 The rest

Alerts, heartbeat, logging configuration, config provider, web viewer,
utilities. They keep little state or none; `PROJECT.json` lists each of them
with the reason it is not modelled.

## 2. Plan

Most important first. A module that will carry proofs declares its constants
with a named `ASSUME`, has one action per operation and declares no
`RECURSIVE` operator.

| # | module | models | state |
|---|---|---|---|
| 1 | `WakeupGate` | the gate, byte by byte | done, safety proved |
| 2 | `HandleLending` | abstract: what a pool promises its users | done |
| 3 | `FtpPool` | base adapter and FTP queue; implements `HandleLending` | done, safety and refinement proved |
| 4 | `SftpPool` | channel pool on the same base | done, safety proved |
| 5 | `Session` | sessions over two pools, their methods step by step | done, all but the types proved |
| 6 | `Shutdown` | kinds, driver, pass, budgets, ladder, exit | done, safety proved (the exit without daemons) |
| 7 | `RecordStore`, `LogServer`, `LogDelivery` | history and checkpoint; reader, queue, writer, registry; their composition over connections that break | done, safety proved |
| 8 | `SourceTree`, `SubclassScan` | packages, imports, classes, constants; threads and caches | done, locks and caches proved, resolution model-checked |

`MC...` modules give the constants small values; the `...Proofs` modules and
`FtpPoolRefinement` hold the theorems. `LogDelivery` composes `RecordStore` and
`LogServer` by `EXTENDS`, `SubclassScan` uses the operators of `SourceTree`, and
`FtpPool` instantiates `HandleLending` under a refinement mapping.

What is left: an abstract at-least-once delivery that `LogDelivery` implements,
of which `ResumePointCovers` is the part that matters; the types of `Session`;
`load()` and the console-script redirect of `static_eval.py`; the web viewer's
subscribers. `SftpPool` does not implement `HandleLending` with the number of
channels as its limit: the users of a transport that died keep their channels
while its successor is dialled and lent from.

## 3. The modules

### WakeupGate (`ftp/pool/base.py` 73-237)

Waiters run `retry_until()` over an `attempt()` that takes one of `free`
slots. `bytes` is what the pipe holds, `pending`, `closed` and the lock are
the fields of the class. `recv_bytes()` blocks while holding the lock, so
draining is two steps (`Drain`, `Recv`) with the lock held between them;
`signal()` sets `_pending` under the lock and writes afterwards (`Signal`,
`WriteByte`). `_epoch` only matters as "changed since I sampled it", so it is
kept as the set `stale` of waiters whose sample is out of date. `Timed` are
the waiters with a timeout, which `Expire` ends at any moment. `Release`
and `Sweep` free slots and `TakeElsewhere` takes one, as the callers of the
gate do: one slot released, several reaped, one lent on another path.
`DeadlineWake` wakes a parked waiter whose time is up; it may happen and need
not.

### HandleLending

The promise of a pool, as a user sees it: at most `Limit` handles are lent,
each to one user, only to a call that has begun, and no call begins once the
pool is shut. It knows nothing of queues, dials, probes or teardown.

### FtpPool (`ftp/pool/base.py`, `ftp/pool/ftp_adapter.py`)

Users, the keepalive thread, owners that call `close()` and the shutdown pass
are threads with a `pc`. A critical section of `_size_lock` is one step; the
one that registers the pool for shutdown is two, because it reads `SHUTDOWN`
afterwards, which changes under it, and `sizeLock` is the user that holds the
lock meanwhile. Dial, ping and close of a connection are steps without the
lock. `hold[t]` are the connections in a thread's hands, `open` those that
exist.

- `Reserve`, `DialOk`, `DialRefused`, `DialFailed`, `Rollback`, `Settle`:
  `_open_new_slot()`. Which reservation is a probe is decided in `Reserve`
  and kept in `probing`, like the local variable of the code.
- `window` is "the re-probe interval has elapsed since the last probe";
  `WindowOpens` lets it elapse at any time.
- `PopIdle`, `PopEmpty`, `Validate*`, `Fresh*`, `GiveBack`, `Dispose`,
  `KeeperPops`, `DrainIdle`, `Scrap`: `FTPAdapter`.
- The gate is kept to what the pool sees of it: `closed`, and the users
  signalled since they last sampled the epoch (`woken`). A parked user may
  wake at any time, so every schedule of the real gate is one of the model's.
  `GiveUp` is a timeout at any moment. A call of `signal()` on a closed gate
  does nothing, and in the model too.
- The pool's registration is optional (`required=False`, `base.py` 622), so the
  pass, once it has read the registrations (`TakeSnapshot`), runs its callback
  on a worker (`PassRunsCallback`), passes it over, the budget spent, the
  shutdown forced or the pool collected (`PassSkipsCallback`), or abandons the
  worker, which may go on (`PassAbandonsCallback`). `callback` is what has
  become of it.
- `CanShutDown` and `Keepalive` are constants: a pool in a process that never
  shuts down, or with `keepalive_interval=None`, is a legal configuration.

Not kept: the order of the idle queue, and an asynchronous
`KeyboardInterrupt` that lands between `_open_new_slot()` returning and the
caller storing the result.

### SftpPool (`ftp/pool/sftp_channel_pool.py` on `base.py`)

`reg`, `count`, `cap`, `idle`, `inFlight` are the ledger; `size` is
`_current_size`; `live` are the transports whose `is_active()` is true, and
`Die` kills one at any time. A critical section of `ledger.lock` is one step,
one of `_size_lock` another; they never nest, so the two tiers disagree in
between and the properties say by how much. `dialLock` is held across the
dial. `popped[t]` are the transports a thread took off the ledger and still
has to close. Channels of one transport are alike, so `idle` counts them and
`carries[u]` says of which transport a thread has one.

- `Reserve`, `RePick`, `CheckClosed`, `ReserveSlot`, `DialOk`,
  `DialOutlivesPool`, `DialFailed`, `AnyActive`, `Register`: growth.
- `OpenOk`, `OpenRefused`, `OpenFailed`, `Rollback`, `Pin`, `Track`: opening a
  channel and undoing the reservation.
- `ReleaseIdle`, `ReleasePopped`, `Discard`, `BreakDead`, `DropDead`,
  `CountLost`: `release()` in its four outcomes.
- `Watch`, `Look`, `Expire`, `Retire`: the pruner. The TTL is a free choice of
  which empty transports have expired.

Throughput is one bit. `measured` transports have samples and may be
saturated at any moment, unmeasured ones never are; the baseline of a wave is
therefore a free choice, and `inFlight`, which only feeds it, is checked as a
count. A result of a network call is local to its caller, so it is read
together with the step that follows it. The SFTP connector raises no
`ServerCapacityError`, so the discovered ceiling of `FtpPool` does not occur
here. The keepalive thread's start and the registration for shutdown are the
base's, modelled in `FtpPool`; of the latter `DialCancelled` keeps the effect
on a dial, and closers stand for whoever runs the teardown.

`setting` is the process the pool lives in: its workers, and whether it can be
shut down. One run covers the two settings of `MCSftpPool`; nothing changes it.

`TypeOK` documents the variables of `SftpPool` (where it is proved), `Session`
and `LogDelivery`; no run lists it there.

### Session (`ftp/session.py`)

`sess[s]` holds a session's `entries`, handler, checkout epoch and fatal flag.
A method is a program, a short sequence of steps on one of the sessions taking
part: `type` (TYPE I), `peek` (a size lookup whose failure is swallowed),
`command`, `open` (the data connection), `data`, `drain` (the completion reply
in the `finally`), `reply`. Each step says which replies it may meet and what
its `except` and `finally` clauses make of them; a drain is reached exactly
when the connection was opened, and its own failure replaces the exception
under way. `SessionStep` are the entries, exits, catches and listings around
them. A connection is `up`, `bad` once the client was told it is lost, `skewed`
once a command read the reply of an older one; `owing` is a completion reply
the server will still send. `raised[s]` is the exception leaving the block, as
`__exit__` classifies it.

One caller drives the sessions: threads use different sessions and meet in the
pools, whose check at a checkout (one NOOP round trip) is modelled, and whose
concurrency is the business of `FtpPool` and `SftpPool`. `rename`, `remove` and
`makedir` are one command; the SFTP methods are one request each, apart from
the streams between the two protocols and the listing. `unseen` is a history
variable: it marks a handle whose failure passed `__exit__` by, and how.
`kept`: the code keeps it to itself and promises nothing else (a swallowed size
lookup, an MLSD loop that fails before its `voidresp()`, a TLS handshake after
the 1xx, the raw errors of `noop`, `get_size` and an SFTP listing).
`untranslated`: a transfer, which promises a `ConnectionError`, raised the loss
under another name (the 421 of its TYPE I, a raw `SFTPError`). `replaced`: the
failure of a later drain took the place of the exception. The last two are
against the code's own documentation; `HealthyIsSound` leaves them to
`LostIsDiscarded`, which is violated (section 6). Not modelled: a `KeyboardInterrupt` in
the middle of a command, and a caller who catches a fatal exception before
`__exit__` saw it.

### Shutdown (`errors/shutdown.py`, `err_handling.py`, `crash_hooks.py`, `startup.py`)

A thread is a stack of `run_shutdown()` calls, because the signal handler runs
on the main thread between any two steps of a call that is already there; the
`KeyboardInterrupt` of the nudge or of a hard interrupt unwinds that stack.
`Publish`, `Request`, `Count`, `Arm`, `StartPass`, `Register`, `Release` are
the steps of one call. The pass thread is `Pick`, `Join`, `Complete`, `Linger`,
`Nudge`; the operator's signals are the four `Handle` actions. Time is what the code
asks of it: `clock` says which budget is spent, `grace` whether the wait before
the nudge is over. `main` is what the main thread does beneath its calls:
parked, waiting for completion, in a tail, returning, at exit.

The pass waits five seconds for `run_shutdown()` to return before it completes
and nudges (`Complete`); `valve` records that they elapsed first.

Left out: what an abandoned callback does beside the rest of the pass; the byte
of `SHUTDOWN_WAKEUP` and the participants that poll it, the trails of requests,
a first request made inside an `atexit` handler, and builds with `__debug__`,
which install no handlers. A tail that runs after a consumed nudge is assumed to
end.

### RecordStore, LogServer, LogDelivery (`central_log_server/`)

A record is its number in the order of emission; `ids` maps it to the id it was
given, which a crash may give again. `RecordStore` is history (`entries` in
memory, `disk`, `gone` for lines that never made it or were deleted), the
checkpoint in both forms (a worker thread with a queue; coroutines on the
program's event loop, in any order) with its synchronous takeover at shutdown,
and the emergency writer. `scheduled` is what the loop's checkpoint would write
when it is closed, `unwritten` are the ids whose recording raised or whose
synchronous write failed, `emit = "raised"` a recording that did. Each write may
fail, retention may delete lines at a flush and at a start (`Resume`), and
`close()` of the threaded checkpoint joins its worker for five seconds and goes
on, so that the worker's steps interleave with the rest of the teardown.
`_shutting_down` is flipped without the lock, so `histShut` and `ckptShut` may
change between the two steps of a recording.

`LogServer` is a coroutine per connection (`hello`, the ack, records, end of
file), the writer's queue, the registered hierarchy and the id registry, in
memory and as saved. A dispatch is two steps: the registry moves, and may be
saved (`Dispatch`); then the handlers, awaited, get the record (`Handle`), which
is in `hand` in between. A crash there loses what is in `hand`; if the registry
was saved, the record is `unhandled`: counted by the server and never asked for
again. What a handler itself raises is swallowed by the code and left out.

`LogDelivery` joins them over connections that break with what is under way
(`Break`) and with a process that crashes or stops in order (`LifeSteps`) and
starts again from what is on disk. `kind` chooses the transport: the handler,
with a sender thread, or a drainer, which sends what it has just recorded and
replays after an ack. A drainer records until it sees its stop event, behind
the flush of a teardown too, and a handler's callers whenever they like
(`MayRecord`). A record that cannot be encoded is skipped by a handler and
marked sent all the same (`SkipEntry`, `skipped`), and ends a drainer
(`EncodeRaises`); it has no line on disk either, so the model only picks records
that have none. Whether a record can be encoded is chosen at each attempt, which
covers what is fixed. `find_after()` is two steps, memory and then disk, as it
lists the directory outside the lock; the bound of the disk's part is fixed with
the copy of memory (`history.py` 527-533). An answer is in the order of the ids
on either side, so `outbox`, what is left of it to send, is a set whose least id
goes next (`NextOut`). `blind` is a history variable: the records that a
handshake passed over because its ack could not be read, or because the acked id
was nowhere to be found (`durability.py` 99-118): a drainer then resumes with
what it records next, a handler after what it sent before (`PassedOver`).

Left out: back-off times; the encoding of messages; subscribers of the web
viewer and the midnight rollover; the repair of a torn last line, which counts
as a line not written; a line written twice, since `disk` is a set of records.

### SourceTree, SubclassScan (`static_eval.py`)

`SourceTree` has the pure part as operators: packages and ancestry, what a
module's imports and class statements bind, the edges from classes to bases,
the breadth-first descent of the index, and which constant of a file or a chain
of directories wins. A file is a sequence of statements; a statement has the
class bodies and blocks it is nested in.

`SubclassScan` runs searches in threads. Seven caches are one function from
tagged keys; `stack[t]` are the keys a thread computes or waits for. `LookUp`
is the failed fast path, `TakeLock` the key's lock with the second look,
`Store` the end of a computation, `Raise` a `SyntaxError` that leaves it,
`Answer` the end of the search. `Needs` derives from the code which keys a
search or a computation consults next, given what it has seen. `Reset` changes
the tree and clears the caches, while no search runs, as its docstring demands.

The properties do not reuse the model's resolution. `BaseOnDisk` says what
Python makes of a base: its first name is looked up in the class body that the
statement stands in, then in the module, and what it finds is followed through
the import statements of other modules to the class itself. `Below` says which
classes derive from the base of a search, at which distance, given such a
reading. `DescendantsFound` asks this of every base and is violated (section
6); `SearchIsRight` asks it of the bases that a file names directly (`Direct`),
and holds.

Left out: star imports, names that reach a class body by inheritance, `load()`
(importing what was found), the console-script redirect of the entry point, the
deprecated scan root, expressions as values of constants, modules that bind a
name twice, two files of one module name. A base that is a neighbour in a class
body and also the name of a module-level class, which the code would resolve to
the latter, is such a double binding.

## 4. The runs

Users, handles, transports, sessions and threads are model values; symmetry is
used for safety only. The gate's runs check for deadlock. The other
configurations say `CHECK_DEADLOCK FALSE`: a closed pool whose users have left,
a process that has exited, and actors that have used up their bounded calls
have nothing more to do.

| run | instance | shows |
|---|---|---|
| `gate` | 2 waiters, one with a timeout, at most 2 slots, fair | `ByteConservation`, `ReaderHasByte`: the pipe's byte is neither lost nor doubled and the locked read never hangs. `CloseReleasesAll`, `TimedCallReturns`: `close()` and timeouts end every wait |
| `gate_stranded` | the same | violation: a waiter parked beside a free slot (section 6) |
| `ftp_pool` | 2 users, keeper, owner, pass; 3 connections, ceiling 3 | `SizeAccounting`, `OneProbeOver`, `OnePlace`, `NothingIdleAfterTeardown`, `SignalOwed`: slots are counted once, growth past a discovered ceiling is one probe, nothing leaks |
| `ftp_pool_live` | 2 users, pass; 2 connections, ceiling 1, fair | `ImplementsLending` (refinement), `PutNeverBlocks`, `CloseEndsAcquire`, `ShutdownTearsDown` |
| `sftp_pool` | closer, pruner, 2 transports of 2 channels, and either 2 users, or 1 user, the keeper and a shutdown | `SizeAccounting`, `ChannelAccounting`, `InFlightAccounting`, `DialsInTurn`, `NoTransportLost`, `ClosedUnderNobody`, `TornDownStaysClean`, `EmptiesAreWatched`, `SignalOwed` |
| `session` | 2 sessions, 2 handles and depth 2 on either protocol, 2 checkouts | `HealthyIsSound`, `ReplyWillCome`, `ReadsOwnCheckout` |
| `session_lost` | the same | `LostIsDiscarded` violated: a lost connection given back as healthy (section 6) |
| `shutdown` | main, one crashing thread, a required and an optional callback, 3 signals, 2 nested calls, fair | `TypeOK` (with at most one driver), `KindPublished`, `AbandonedPastBudget`, `NudgeSparesDriver`, `ExitHeldForPass`, `DrivenShutdownEnds` |
| `shutdown_daemon` | the same, the crashing thread a daemon, 1 signal | violation: exit without teardown (section 6) |
| `log_delivery` | both transports, both checkpoints, 2 records, 2 connections, 1 fault or 1 teardown | `ResumePointCovers`, `LiveHierarchyKept`, `OrderlyStopKeepsAll` |
| `subclasses` | 2 threads, 4 source trees, 5 searches, 1 reset | `SearchIsRight`, `ComputedOnce`, `NearestConstantWins`, `SomeSearchMoves` |
| `subclasses_reexport` | 2 threads, 1 source tree, 5 searches, no reset | `DescendantsFound` violated: a class whose base is re-exported is missed (section 6) |

**Why the bounds are enough.** Two users are enough for each two-party race
(two releases, release against growth, two dials, a drain against a park);
the keeper, owner, pass and pruner are further parties. A ceiling of three
lets a ceiling of one or two be discovered, probed past and outgrown, while
ceiling one makes every acquire compete. Two transports of two channels give
siblings on one transport and a choice between transports; a transport that
died may be remembered by one thread while another dials its successor. Calls
on the pools are repeated without bound: no counter there grows, so the state
spaces are finite without a constraint. `Capacity` bounds the free slots behind
the gate of `WakeupGate`. The two settings of `sftp_pool` are two
processes: with two users, what they do to each other, at the dial lock too;
with one user, what the keeper and a shutdown do to it. The keeper beside two
users is left to the proofs.

Two sessions of each protocol with two handles each are what a transfer takes
(`FtpToFtp` needs two sessions of one protocol), and a second checkout of the
same handle (`MaxCheckouts`) shows what the first left on it; `MaxDepth` 2 has
one inner exit before the outermost. Three signals climb the whole ladder
(start, confirm, hard) and `MaxNested` 2 interrupts a call of `run_shutdown()`
by another; a required and an optional callback are the two ways a callback is
run. With two records one can be ahead of the other in any place (buffer, disk,
wire, queue); two connections are the old and the new one; `MaxFaults` is the
number of breaks, failed writes, crashes and stops, of which any one may come at
any place. A teardown is one fault together with whatever fails in it or after
it in that process: each of its writes may fail or not, each of its joins may be
given up. What takes more of them (section 5 has two examples, of four records
and more than one fault) the run does not reach; the theorems, which bound
neither, do. The four source trees of `MCSubclassScan` contain relative, aliased
and dotted imports, a re-exporting package, a base taken through it, nested,
neighbouring and conditional classes, inheritance cycles, flags, a directory
that is no package and files that do not parse; each is searched from a warm and
from a cold cache and after another tree (`MaxResets`).

**Fairness.** A thread that can run does (weak fairness), and a thread that
competes for a lock that is free again and again gets it (strong fairness on
the steps that take `_size_lock` or the gate's lock; CPython's
locks are not starvation-free by contract, and the properties need no more
than that a waiter is not passed over for ever). Dials, opens, pings and
closes end. A closed gate leaves its pipe readable, so a parked user wakes. The
pass reaches the pool's callback, to run it or to skip it, and a worker it runs
goes on until it is done or abandoned; neither is assumed to favour the pool. In
`Shutdown` time passes and threads run; a required callback ends, since the
code waits for it without limit, an optional one need not, nor need the
program's main. Not assumed: that anybody calls `acquire()`, `release()` or
`close()`, that a shutdown is requested, that a signal comes, that a re-probe
window opens, that a deadline wakes a parked user, that a dial succeeds. The
liveness properties are only about what must follow `close()`, a shutdown or a
timeout; that a waiter beside free capacity is served eventually is false of
this code (`gate_stranded`).

**Mutants.** Next to some definitions stands a variant with a suffix
(`DialFailed_NoRollback`): a form the definition could have with a plausible
bug. `PROJECT.json` pairs each property with the variant that breaks it.

## 5. The proofs

A `...Proofs` module extends the module it is about, and `FtpPoolRefinement`
extends `FtpPoolProofs`. The theorems hold for every value of the constants that
the named assumption of a module admits: any finite set of threads, handles and
transports and any ceiling (`GateAssumption`, `PoolAssumption`,
`SftpAssumption`); any sessions, nesting and number of checkouts
(`SessionAssumption`); any threads, signals and callbacks
(`ShutdownAssumption`); any number of records, connections and faults
(`RecordsAssumption`, `ConnsAssumption`, `DeliveryAssumption`); any threads,
source trees and searches (`ScanAssumption`, which says that a path is a
non-empty sequence of names). The assumptions say that sets are disjoint or
finite and bounds are numbers. One theorem has a hypothesis of its own,
`ExitWaitsForPass`. Each inductive invariant was checked by TLC on a run's
instance before it was proved (a quantifier over `Nat` bounded for the purpose).

**Gate.** `GateTypeCorrect`, `BytesConserved`, `ReaderNeverHangs`. The
invariant joins the types with the conservation law of the pipe: the bytes in
it plus those about to be written are what `_pending` and `_closed` account
for. `ReaderHasByte` alone is not inductive: whether the reader finds a byte
depends on that law in the state before.

**FTP pool.** `PoolTypeCorrect`, `SizeIsAccounted`, `ProbesAreAccounted`,
`GrowthIsProbed`, `NothingLeaks`, `TornDownStaysEmpty`, `PutFindsRoom`. All
follow from one inductive invariant,

    PoolInv == TypeOK /\ SizeAccounting /\ ProbeAccounting /\ OneProbeOver
                 /\ HandsOk /\ OnePlace /\ TeardownOrder

- `TypeOK` needs `SizeAccounting` and `ProbeAccounting`: that a decrement
  stays in `Nat` is only known because somebody holds the slot it gives back.
- `OneProbeOver` needs `ProbeAccounting`: `_effective_ceiling()` tests
  neither who probes nor how many, only the window, which the first settled
  probe closes.
- `HandsOk` ties a thread's `pc` to how many connections it holds; without it
  `OnePlace` is not kept by a release, nor the accounting by a drain.
- `TeardownOrder` says that the gate is closed before the queue is drained;
  that is why no later release queues anything (`NothingIdleAfterTeardown`).

The step is split into one lemma per group of actions, with the facts on
cardinality stated once.

`PoolLends`: under the mapping of `ImplementsLending` every step of the pool is
one of `HandleLending` or none. A step of one thread that neither begins a call
nor has a connection on loan is a failed call or a stutter (`InsideOrFails`),
which settles most actions; a loan needs `OnePlace` (nobody else has the
connection) and `SizeAccounting` (the borrowers and the user about to become one
all occupy a slot, `RoomForOneMore`).

`NoLostWakeup` (`SignalOwed`). What a sleeping user may rely on is not what holds
when it sleeps but what it saw on the way there. `WakeupsKept` states that per
place: once past the queue it saw no idle connection, once past the ceiling no
slot, and, if it sleeps without a deadline, no probe to wait for; each is still
so unless some thread is about to signal or has signalled this user. A step
that frees nothing keeps this by one lemma (`WakeupsQuiet`); a step that frees
something leaves its thread at a signal.

**SFTP pool.** `SftpTypeCorrect` and, for each invariant of the runs,
`TransportsAreAccounted`, `ChannelsAreAccounted`, `FlightsAreAccounted`,
`DialsTakeTurns`, `NoTransportLeaks`, `NobodyIsCutOff`, `TornDownIsClean`,
`EmptiesHaveAPruner` and `NoLostWakeup`. The two tiers are accounted for apart
and tied to each other only by what a thread holds between two critical
sections, so none of the accounts is inductive by itself and one invariant,
`SftpInv`, carries all:

- the accounts of transports, channels and flights, each a sum over threads;
  `HandsOk` says which threads have something in their hands;
- `CountCovers`: a transport taken off the ledger still counts the channels in
  use, so that a late return finds its count positive;
- `FreshDials` and `DialLockOk`: a transport just dialled is known to its
  dialler alone, and one thread dials at a time; otherwise a discard or a
  sibling's drop could give back the slot of a transport not yet on the ledger;
  `DialsTakeTurns` (`DialsInTurn`) is the latter with the converse, that whoever
  has the dial lock is still on its way through a dial;
- `ClosedFirst`: the pool is marked closed before the teardown's one sweep, so
  whoever returns a channel after it finds the mark;
- `WakeupsKept` and `FailureTold`: the argument of the FTP pool over three things
  a user may have found missing (an idle channel, room on a transport, room for
  a transport), and that a caller whose dial failed has had its own signal.

**Sessions.** `SessionsAreSound` is the invariant; `GivenBackIsUsable`
(`HealthyIsSound`), `NoDrainWaitsInVain` (`ReplyWillCome`) and
`ListingsReadTheirOwn` (`ReadsOwnCheckout`, an action property) follow.

    SessionInv == Types /\ OneOwner /\ CallOk /\ Sound /\ HealthyIsSound

`HealthyIsSound` speaks of handles in the pool; `Sound` says what must hold of a
borrowed one for that to come out at the exit: it is sound, or its failure is
known to the session, or on its way to `__exit__` as the call's exception, or
excused. In the middle of a method a completion reply may be outstanding;
`Window` says, per method and side, between which steps, and `MethodsFit` checks
it against the methods' programs: a window begins at the side's `transfercmd()`,
ends at its drain, and is what the drains in the `finally` blocks clean up after
a failure. A new transfer method is covered once its window is.
`ListingsReadTheirOwn` adds that a listing never remembers a checkout to come.

**Shutdown.** `KindIsPublished`, `AbandonedStaysPastBudget` and
`DriverIsNotNudged` follow from

    ShutdownInv == StackOk /\ ValuesOk /\ Announced /\ OneDriver /\ AbandonedPastBudget

`Announced` says that a call past its first step has published its kind, which
is why a confirming signal, which asks again for the kind in force, never asks
for RUNNING. `OneDriver` says that one call drives at most, that it started the
pass if there is one, and that the pass neither lingers nor nudges meanwhile
unless its five seconds are over (`valve`); a call that has not started the pass
yet cannot be outrun by it, which is why even then the nudge finds the driver at
one of its last two steps. `NudgeSparesDriver` alone says nothing of the steps
before the nudge. The
signal handler and the unwinding are why the lemmas on stacks (`Pushed`, `Cut`,
`Moved`, `Unwound`) are stated for any operation on them: a call is left as it
was, moves by one step, or is new.

`ShutdownTyped` adds the plain types and the order of the pass (`TurnsOk`: each
required callback whose turn is over was skipped or has returned), and counts the
drivers. `ExitWaitsForPass`: without daemon threads the process does not exit
before the pass is over. `ExitOk` follows the promise from hand to hand until
main is unwound: once requested, somebody is about to count; once counted, the
first is about to start the pass and register the join, or has; and main gets
to the `atexit` handlers only when no such call is under way, which is where
`Daemons = {}` is used. `shutdown_daemon` shows what happens otherwise.

**Log delivery.** Two invariants of disjoint parts of the state, each inductive by
itself, so that most steps of one are stutters for the other, and a third that
rests on both.
`NewestHierarchyLives` (`LiveHierarchyKept`), from

    ServerInv == ReadersOk /\ QueueOk /\ AppliedOk /\ LiveHierarchyKept

where `QueueOk` says that a connection's one unregistration is queued only after
its reader ended: an unregistration that meets the newest connection's hierarchy
is its own. `OrderlyStopLosesNothing` (`OrderlyStopKeepsAll`), from

    StoreInv == StoreTypes /\ Retired /\ Tracked /\ ScheduledOk /\ TakenOverOk /\ HeldOk

`Retired` says that the buffer is retired in a shutdown only, and empty then.
`Tracked` says where the last id is while a worker lives and nobody took over: the
last one queued, or in the worker's hands, or written. `ScheduledOk` says what
`close()` on the loop would write, `TakenOverOk` what the synchronous takeover
leaves, and `HeldOk` that a worker that is gone holds nothing. Nothing is said of
how long `close()` waits: what it did not outwait is in the queue or in the
worker's hands, and the theorem is about every moment between two records, those
after the teardown included. Its exceptions are the failures that the code
reports.

`ResumePointPassesNothing` (`ResumePointCovers`) needs nearly all of the state:
the promise is made by the client's stores, its sender, the wires, the reader,
the queue and the registry together, across connections and processes.

    ResumeInv == ServerInv /\ StoreInv /\ HistoryOk /\ ServerOrder /\ ClientInv

The argument is about the *owed* records: `Owed` are those that are neither
given up, nor handed to the handlers or about to be, nor excused, and whose id
no crash made ambiguous. A step takes records out of it, or adds the one it
emits, whose id is the highest so far (`OwedStep`); nothing that has a later id
can therefore be ahead of a record that becomes owed. The one exception is an
end of the server: what was in hand then is owed again unless the saved registry
counts it, so it is ahead of everything still owed, and the registry is back
below it. That step (`ServerGoes`) is treated apart throughout.

- `HistoryOk`: memory holds the newest records, contiguous in number and id
  (`Buffered`); a record is in memory or on disk until it is given up
  (`Remembered`); and whatever the program resumes after is an id that was
  assigned, or is below one (`IdsReached`).
- `ServerOrder`: in the writer's queue and on every wire an owed record is ahead
  of the later ones, or, on a wire, already in the queue (`QueueInOrder`,
  `WiresInOrder`); the registry is below every owed id, and a live connection was
  given an ack that the registry has not fallen behind (`RegistryOk`). This
  holds for old connections as well: what still comes out of one moves the
  resume point past nothing that only the new one carries.
- `ClientInv`: at each phase of the sender the owed records below what it will
  send next are on their way (`BehindIsSent`), in the outbox, which goes in order
  (`OutboxInOrder`), or will be found by the lookup under way (`LookOk`). The last
  is where `find_after()` is read against the other threads: memory was copied
  under the lock and disk is read later, while `append` spills, writes through
  at shutdown or retires the buffer and the emergency writer adds lines. An owed
  record is in the copy, or below the bound and then on disk when disk is read.

TLC checked each conjunct on a full instance (two records, two connections, one
fault) and on partial and random searches at larger bounds before the proof.

**Searches.** `OncePerKey`: no value is computed twice between two resets.
`ComputedOnce` is not inductive: that a stored key was not stored before is
known from the lock its thread holds, hence

    OnceInv == Stacks /\ OneHolder /\ HeldUncached /\ CountedIsCached /\ ComputedOnce

`HeldUncached` says that a key under computation is not cached, which the second
look under the lock establishes and `OneHolder` keeps while other threads store.
`NestedLocksNeverDeadlock`: as long as a search runs some search can go on. The
invariant `OrderInv` says that the keys of a stack go down the layers (index,
edges, record, then the rest; `NeedsGoDown` shows that no computation looks up
its own layer or one above) and that only the last key may be waited for, so the
holder of a key somebody waits for can itself only wait for a key of a lower
layer (`HolderWaitsLower`); a descent through the four layers ends the argument
(`LowestMoves`).

`CachesMirrorTheDisk` and `AnswersComeFromTheDisk` split the question whether a
search is right in two. `ValueIn`, `FoundIn` and `GrabbedIn` put the same
questions to a tree of sources alone, with no caches, threads or earlier
searches. The theorems say that each cached value is the one the sources on disk
give, and that each answer is a function of those sources and of the request.
That this function is the right one, `SearchIsRight` and `NearestConstantWins`
check by TLC against definitions of their own. The invariant `TrueInv` adds
that keys name files that exist (`KeysOk`), since only then does a
computation's value rest on nothing but the values it looked up; `OrderInv`
provides that those are still cached when the value is stored.

**Only model-checked.**

- Liveness under fairness (`CloseReleasesAll`, `TimedCallReturns`,
  `CloseEndsAcquire`, `ShutdownTearsDown`, `DrivenShutdownEnds`) is outside what
  the prover supports.
- `SearchIsRight` and `NearestConstantWins` compare what `FlattenSeq`, folds and
  a breadth-first recursion compute: facts by induction over data, which the
  provers do not do. The two also hold of source trees as Python has them
  and not of every function from paths to statements (section 6).
- The types of `Session` bound the sum of all epochs (a fold); what the proofs
  need of them is part of `SessionInv`. Those of `LogDelivery` are no run's
  question either: `ServerInv`, `StoreInv`, `HistoryOk` and `ClientInv` say of
  each variable what the proofs need.

`ProbeAccounting` is the other way round: it is part of the pool's inductive
invariant and proved (`ProbesAreAccounted`), and no run lists it.

**What the proofs changed.** `ResumePointCovers` was false beyond the bounds of
its run, twice, and both times the attempt to prove it showed where. First, with
four records and four faults, a drainer whose acked id is neither in memory nor
on disk resumes live. Then, with four records and two faults, the same happens
to a handler: it sends record 3 on a connection that breaks; the lines of 1 and 2
failed to be written and are gone; the next ack is 1, which nothing can place, so
the handshake replays nothing, and the sender goes on after record 3, which it
counts as sent: 3 is passed over while it is still in memory, and 4 moves the
resume point past it. The code documents both: "some records may already have
aged out. Resuming live" (`durability.py` 99-118, with an emergency diagnostic).
`ReadDisk` counts these records as passed over, and the property excuses them and
no others.

The proof also changed the form of the model where it could not be reasoned
about, or said less than the code: answers and `outbox` are sets that are sent in
the order of their ids, in place of sequences filtered and sorted;
`Bound` has the third case of the code, no bound while this process has appended
nothing. Earlier, `\E failed, aged \in SUBSET S` hid stops before the first
record, since TLC finds no pair in it when `S` is empty; the two sets are now
drawn apart. The other proofs changed the form of a definition (`ExitInner`,
`Skipping`) or an assumption on a constant (`ScanAssumption`), never what is
modelled.

## 6. Findings

**A waiter can sleep beside a free slot** (`gate_stranded`). `retry_until()`
compares the epoch under the lock, releases it, computes its deadline and then
waits. A `signal()` in that gap writes one byte; a sibling that is woken first
drains it before the caller looks at the pipe. The caller sleeps until its
timeout or somebody else's signal. The class documentation says that
"`_epoch` closes that gap" (`base.py` 94).

**A lost connection can be given back as healthy** (`session_lost`).
`upload_file()` and `download_file()` send TYPE I (`ftp/session.py` 473, 510)
outside every translating context. A 421 to it leaves as `ftplib.error_temp` and
a malformed reply as `error_proto`; neither is among the exceptions `__exit__`
takes for fatal, so the handle whose server has just closed it goes back into the
pool. The methods promise a "ConnectionError: The connection was lost or the
transfer aborted (FTP `421`/`426`); the session is discarded from the pool"
(lines 312-313, 332-333), and `_translate_ftp_errors` that a 421 is raised as a
`ConnectionError` subclass "so `__exit__` classifies it connection-fatal"
(lines 107-111).

**The process can exit without teardown** (`shutdown_daemon`). A daemon thread
that meets a fatal exception publishes the request before it starts the pass
and registers the join at exit (`errors/shutdown.py` 900-). If main returns in
between, nothing holds the interpreter, although lines 236-238 say that a main
that returns early is held until the pass finishes.

**A class whose base is re-exported is not found** (`subclasses_reexport`).
`_resolve_base()` substitutes the import table of the file at hand and goes no
further. With `from app import Base as Shown`, where `app/__init__.py` has
`from .base import Base`, the base resolves to `app.Base`, which no class is
called, and the class is missing from the answer, with everything below it. A
base that is a neighbour in an enclosing class body is missed as well, since only
module-level classes are looked up (`static_eval.py` 1253). The comment at lines
1379-1381 says that "in-tree subclasses always resolve their bases to a known
qualified name", and the docstring at 1238 that the order "mirrors Python's own
name lookup".

### Observations

Behaviour the models show or had to take as it is; no run is about it.

- *A failed dial does not wait.* A dial that fails with a `ConnectionError`
  beside live transports is meant to send its caller to wait for their channels
  (`sftp_channel_pool.py` 447-457), but `_open_new_slot()` signals the slot it
  gave back (`base.py` 467), which moves the epoch the same caller compares: it
  dials again at once, in a loop, until its timeout.
- *One connection too many.* `release()` of the FTP pool gives the slot back
  and closes the connection afterwards (`ftp_adapter.py` 161), so
  `max_connections` bounds the slots, not the sockets (`base.py` 281).
- *A drain replaces the other side's fatal error.* In `_ftp_to_ftp()` the
  destination's socket dies and a fatal exception is on its way out; the outer
  `finally` drains the source's reply, which is an error as well since the
  transfer was cut short. That plain `OSError` replaces the fatal one (`ftp/session.py`
  760) and marks only the source session, so the destination's `__exit__` gives
  its dead handle back. The docstring at 440-444 gives this as what the flag
  prevents. `LostIsDiscarded` covers it; the run stops at the shorter trace.
- *A record may be dispatched twice.* When a connection breaks while its
  records wait in the writer's queue, the next ack is taken from a registry that
  has not moved past them; they are replayed, and the queued ones still
  dispatched. The server does not
  dedupe (`client/__init__.py` 208).
- Two half-open connections of one client may enrol in the opposite order; the
  old one's unregister then closes the newer hierarchy (excused in
  `LiveHierarchyKept`).
- An id scheduled behind the checkpoint's sentinel, or held by a worker that
  `close()` did not outwait, is written only if the process lives on
  (`LastIdKept` counts both as on their way). A record emitted behind the flush
  of a buffer that no shutdown armed stays in memory and is lost with it. On the
  event loop two commits may run in either
  order, so the file may go back until `close()` puts it right. The takeover
  at shutdown may drain the worker's sentinel, so that `close()` waits out its
  join. A crash with a lagging checkpoint reuses ids (excused by `Unique`).
- `_send_entries()` skips a record that cannot be encoded and marks it as sent
  (`client/__init__.py` 617-631), as its docstring says; the next one moves the
  resume point past it (`skipped`). The writer moves and may save the registry
  before the handlers have the record (`writer_thread.py` 393-427), so a crash in
  between loses it (`unhandled`); the docstring counts it as delivered.
- A handshake whose ack cannot be read passes records over without replaying
  them; so does one whose acked id is nowhere to be found, and a handler then
  passes over records that are still in memory, if it had sent them on a
  connection that broke (`blind`): an acked id whose successor is gone is placed
  by a later line on disk, but not by a later record in memory
  (`history.py` 522-537). The writer drops records of a connection with no
  hierarchy (`dropped`).
- The import
  table takes precedence over a later class of the same name. A broken
  `__init__.py` or `__main__.py` below the ceiling raises `SyntaxError` out of
  a search for subclasses, while other broken files are skipped.

## 7. What is not modelled, and why

- Network I/O, paramiko, ftplib: their outcomes are choices of the models.
- Throughput arithmetic (the EWMA and its thresholds): real numbers that
  decide only which transport grows.
- That `close()` ends every `acquire()` of the SFTP pool: two users that
  compete for the dial lock under fairness are beyond a run of this size. What
  can go wrong there, a dial lock that is not given up, is the safety property
  `DialsInTurn`; the argument from the gate is the FTP pool's, which is checked.
- Times: a timeout, a TTL, a budget or an interval elapses at any moment.
- The evaluation of expressions (`static_eval.py`): data in, data out.
- Logging configuration, rendering, alerts, heartbeat, the config provider, the
  web viewer: no protocol between actors, or user interface.
- What each module leaves out of its own component is listed in section 3.
