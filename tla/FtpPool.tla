------------------------------ MODULE FtpPool ------------------------------
(***************************************************************************)
(* The pool of plain FTP connections: PooledAdapterBase (the size, ceiling *)
(* and teardown bookkeeping of src/aeth_ext/ftp/pool/base.py) with the     *)
(* idle queue of FTPAdapter (src/aeth_ext/ftp/pool/ftp_adapter.py).        *)
(*                                                                         *)
(* Users acquire and release connections, the keepalive thread pings idle  *)
(* ones, the pool's owner and the shutdown pass tear it down, and a user   *)
(* whose first reservation meets a shutdown under way tears it down too.   *)
(* A critical section of _size_lock is one step, except the one that       *)
(* registers the pool for shutdown: it goes on to read SHUTDOWN, which     *)
(* changes under it.  Dials, pings and closes of a connection are steps    *)
(* outside the lock.                                                       *)
(*                                                                         *)
(* The gate (module WakeupGate) is kept to what the pool sees of it:       *)
(* closed, and the set of users signalled since they last sampled the      *)
(* epoch.  A parked user may wake at any time, so every schedule of the    *)
(* real gate is one of this module's.                                      *)
(***************************************************************************)
EXTENDS Integers, FiniteSets

CONSTANTS
  Users,            \* threads that acquire and release
  Keeper,           \* the keepalive thread
  Owners,           \* threads that call close()
  Pass,             \* the shutdown pass, which runs the registered callback
  Handles,          \* connections
  MaxConnections,   \* max_connections
  Keepalive,        \* keepalive_interval is not None
  CanShutDown,      \* the process may be shut down while the pool is in use
  NoThread          \* owner of _size_lock while nobody holds it

ASSUME PoolAssumption ==
  /\ IsFiniteSet(Users)
  /\ IsFiniteSet(Handles)
  /\ IsFiniteSet(Owners)
  /\ Users \cap Owners = {}
  /\ Keeper \notin Users \cup Owners
  /\ Pass \notin Users \cup Owners \cup {Keeper}
  /\ NoThread \notin Users
  /\ MaxConnections \in Nat \ {0}
  /\ Keepalive \in BOOLEAN
  /\ CanShutDown \in BOOLEAN

VARIABLES
  idle,             \* _idle; the order of the queue matters to nothing here
  size,             \* _current_size
  discovered,       \* _discovered_max, 0 for None
  window,           \* the re-probe interval has elapsed since the last probe
  probes,           \* _probes_in_flight
  probing,          \* the users whose reservation is a probe
  sizeLock,         \* the user that registers the pool inside _size_lock
  registered,       \* _registered_for_shutdown
  shutdownStarted,  \* _shutdown_started, with the stop event of the keeper
  closed,           \* the gate's _closed
  woken,            \* users signalled since they last sampled the epoch
  timed,            \* users parked with a deadline (a re-probe to wait for)
  retrying,         \* users whose acquire() is inside retry_until()
  shutdown,         \* SHUTDOWN.is_set()
  snapshot,         \* the shutdown pass has read the registrations
  callback,         \* what the shutdown pass does with this pool's callback
  torn,             \* history: some _teardown_idle() has drained the queue
  open,             \* connections that exist
  hold,             \* the connections each thread has in its hands
  pc,               \* where each thread is
  ret               \* where a thread goes after release() or signal()

pool == <<idle, size, discovered, window, probes, probing>>
gate == <<closed, woken, timed, retrying>>
down == <<sizeLock, registered, shutdownStarted, shutdown, snapshot, callback, torn>>
vars == <<pool, gate, down, open, hold, pc, ret>>

Threads == Users \cup Owners \cup {Keeper, Pass}

(* What a user does inside acquire(): before it has reserved a slot, ... *)
Seeking == {"pop", "grow", "reserve", "recheck", "deadline", "parked", "top"}
(* ... with a slot reserved and no connection yet, ... *)
Reserved == {"registered", "close", "mark", "drain", "scrap", "rollback", "dial"}
(* ... and with a connection. *)
Carrying == {"validate", "settle", "announce", "fresh"}

Labels == Seeking \cup Reserved \cup Carrying
            \cup {"out", "have", "dispose", "signal", "sleep", "ping"}

(* Where release() and signal() go back to. *)
Returns == {"out", "grow", "recheck", "top", "sleep"}

(* The pool's callback in the pass: not among those it read, still to come, *)
(* begun, or passed over: skipped, or abandoned once begun.                *)
Turns == {"none", "due", "begun", "passed"}

TypeOK ==
  /\ idle \subseteq Handles
  /\ size \in Nat
  /\ discovered \in 0..MaxConnections
  /\ window \in BOOLEAN
  /\ probes \in Nat
  /\ probing \subseteq Users
  /\ sizeLock \in Users \cup {NoThread}
  /\ registered \in BOOLEAN
  /\ shutdownStarted \in BOOLEAN
  /\ closed \in BOOLEAN
  /\ woken \subseteq Users
  /\ timed \subseteq Users
  /\ retrying \subseteq Users
  /\ shutdown \in BOOLEAN
  /\ snapshot \in BOOLEAN
  /\ callback \in Turns
  /\ torn \in BOOLEAN
  /\ open \subseteq Handles
  /\ hold \in [Threads -> SUBSET Handles]
  /\ pc \in [Threads -> Labels]
  /\ ret \in [Threads -> Returns]

Init ==
  /\ idle = {} /\ size = 0
  /\ discovered = 0 /\ window = FALSE
  /\ probes = 0 /\ probing = {}
  /\ sizeLock = NoThread
  /\ registered = FALSE /\ shutdownStarted = FALSE
  /\ closed = FALSE
  /\ woken = {} /\ timed = {} /\ retrying = {}
  /\ shutdown = FALSE /\ snapshot = FALSE /\ callback = "none"
  /\ torn = FALSE
  /\ open = {}
  /\ hold = [t \in Threads |-> {}]
  /\ pc = [t \in Threads |-> "out"]
  /\ ret = [t \in Threads |-> "out"]

Goto(t, label) == pc' = [pc EXCEPT ![t] = label]
Take(t, hs) == hold' = [hold EXCEPT ![t] = hs]
LockFree == sizeLock = NoThread

(* _effective_ceiling() and _time_until_reprobe() # None. *)
Least(a, b) == IF a < b THEN a ELSE b

(* Here and below, a definition named after the next one with a suffix is   *)
(* a form of it that a bug could have; nothing uses it.                    *)
EffectiveCeiling_Lifted ==
  IF discovered = 0 \/ window THEN MaxConnections ELSE discovered

EffectiveCeiling ==
  CASE discovered = 0 -> MaxConnections
    [] discovered # 0 /\ window -> Least(MaxConnections, discovered + 1)
    [] discovered # 0 /\ ~window -> Least(MaxConnections, discovered)

AwaitsReprobe == discovered # 0 /\ probes = 0 /\ discovered < MaxConnections

(* An attempt that comes back empty: the first one enters retry_until(), a *)
(* later one goes on to its checks.                                        *)
Missed(u) == IF u \in retrying THEN "recheck" ELSE "top"

-----------------------------------------------------------------------------
(* acquire() and _checkout_idle_or_grow(). *)

Acquire_Unchecked(u) ==
  /\ pc[u] = "out"
  /\ Goto(u, "pop")
  /\ UNCHANGED <<pool, gate, down, open, hold, ret>>

(* raise_if_closed() opens acquire(): on a closed pool it changes nothing. *)
Acquire(u) ==
  /\ pc[u] = "out"
  /\ ~closed
  /\ Goto(u, "pop")
  /\ UNCHANGED <<pool, gate, down, open, hold, ret>>

(* _idle.get_nowait(): the queue's own lock, not _size_lock. *)
PopIdle(u) ==
  /\ pc[u] = "pop"
  /\ \E h \in idle :
       /\ idle' = idle \ {h}
       /\ Take(u, {h})
       /\ Goto(u, "validate")
  /\ UNCHANGED <<size, discovered, window, probes, probing, gate, down, open, ret>>

PopEmpty(u) ==
  /\ pc[u] = "pop"
  /\ idle = {}
  /\ Goto(u, "grow")
  /\ UNCHANGED <<pool, gate, down, open, hold, ret>>

(* The keepalive thread starts once, and never in a pool being torn down. *)
StartsKeeper == Keepalive /\ ~shutdownStarted /\ pc[Keeper] = "out"

(* _ensure_keepalive_started(), then acquire() returns the connection. *)
ReturnHandle(u) ==
  /\ LockFree
  /\ pc' = [pc EXCEPT ![u] = "have",
                      ![Keeper] = IF StartsKeeper THEN "sleep" ELSE @]
  /\ retrying' = retrying \ {u}
  /\ woken' = woken \ {u}
  /\ UNCHANGED <<pool, closed, timed, down, open, hold, ret>>

(* The NOOP round trip of _validate() went well. *)
ValidateOk(u) ==
  /\ pc[u] = "validate"
  /\ ReturnHandle(u)

(* An error raised out of acquire(). *)
Raise(u) ==
  /\ Goto(u, "out")
  /\ retrying' = retrying \ {u}
  /\ woken' = woken \ {u}
  /\ UNCHANGED <<pool, closed, timed, down, open, hold, ret>>

GrowClosed(u) ==
  /\ pc[u] = "grow"
  /\ closed
  /\ Raise(u)

Grow(u) ==
  /\ pc[u] = "grow"
  /\ ~closed
  /\ Goto(u, "reserve")
  /\ UNCHANGED <<pool, gate, down, open, hold, ret>>

-----------------------------------------------------------------------------
(* _open_new_slot(). *)

AtLimit_OffByOne == size > EffectiveCeiling
AtLimit == size >= EffectiveCeiling

AtCeiling(u) ==
  /\ pc[u] = "reserve"
  /\ LockFree
  /\ AtLimit
  /\ Goto(u, Missed(u))
  /\ UNCHANGED <<pool, gate, down, open, hold, ret>>

(* The first reservation registers the pool and keeps the lock to look at  *)
(* SHUTDOWN; the later ones go on to dial.                                 *)
Reserve(u) ==
  /\ pc[u] = "reserve"
  /\ LockFree
  /\ ~AtLimit
  /\ size' = size + 1
  /\ IF discovered # 0 /\ size >= discovered
       THEN probes' = probes + 1 /\ probing' = probing \cup {u}
       ELSE UNCHANGED <<probes, probing>>
  /\ registered' = TRUE
  /\ IF registered
       THEN Goto(u, "dial") /\ UNCHANGED sizeLock
       ELSE Goto(u, "registered") /\ sizeLock' = u
  /\ UNCHANGED <<idle, discovered, window, gate, shutdownStarted, shutdown,
                 snapshot, callback, torn, open, hold, ret>>

(* Tearing down inside the lock: it is not reentrant. *)
CheckShutdown_HoldsLock(u) ==
  /\ pc[u] = "registered"
  /\ sizeLock' = IF shutdown THEN sizeLock ELSE NoThread
  /\ Goto(u, IF shutdown THEN "close" ELSE "dial")
  /\ UNCHANGED <<pool, gate, registered, shutdownStarted, shutdown, snapshot,
                 callback, torn, open, hold, ret>>

CheckShutdown_Blind(u) ==
  /\ pc[u] = "registered"
  /\ sizeLock' = NoThread
  /\ Goto(u, "dial")
  /\ UNCHANGED <<pool, gate, registered, shutdownStarted, shutdown, snapshot,
                 callback, torn, open, hold, ret>>

(* A shutdown already requested makes this user tear the pool down itself. *)
CheckShutdown(u) ==
  /\ pc[u] = "registered"
  /\ sizeLock' = NoThread
  /\ Goto(u, IF shutdown THEN "close" ELSE "dial")
  /\ UNCHANGED <<pool, gate, registered, shutdownStarted, shutdown, snapshot,
                 callback, torn, open, hold, ret>>

ProbesLess_Always(u) == probes - 1
ProbesLess(u) == IF u \in probing THEN probes - 1 ELSE probes

(* The reservation's own part of the three ways to undo it. *)
Unreserve(u) ==
  /\ LockFree
  /\ size' = size - 1
  /\ probes' = ProbesLess(u)
  /\ probing' = probing \ {u}

Rollback(u) ==
  /\ pc[u] = "rollback"
  /\ Unreserve(u)
  /\ Goto(u, Missed(u))
  /\ UNCHANGED <<idle, discovered, window, gate, down, open, hold, ret>>

DialOk(u) ==
  /\ pc[u] = "dial"
  /\ \E h \in Handles \ open :
       /\ open' = open \cup {h}
       /\ Take(u, {h})
  /\ Goto(u, "settle")
  /\ UNCHANGED <<pool, gate, down, ret>>

(* ServerCapacityError: a ceiling is recorded unless nothing else is left. *)
DialRefused(u) ==
  /\ pc[u] = "dial"
  /\ Unreserve(u)
  /\ IF size' > 0
       THEN /\ discovered' = size'
            /\ window' = FALSE
            /\ ret' = [ret EXCEPT ![u] = Missed(u)]
       ELSE /\ UNCHANGED <<discovered, window>>
            /\ ret' = [ret EXCEPT ![u] = "out"]
  /\ Goto(u, "signal")
  /\ UNCHANGED <<idle, gate, down, open, hold>>

(* Catching Exception only, so that an interrupt skips the rollback. *)
DialFailed_NoRollback(u) ==
  /\ pc[u] = "dial"
  /\ ret' = [ret EXCEPT ![u] = "out"]
  /\ Goto(u, "signal")
  /\ UNCHANGED <<pool, gate, down, open, hold>>

(* Any other failure of the dial, an interrupt included. *)
DialFailed(u) ==
  /\ pc[u] = "dial"
  /\ Unreserve(u)
  /\ ret' = [ret EXCEPT ![u] = "out"]
  /\ Goto(u, "signal")
  /\ UNCHANGED <<idle, discovered, window, gate, down, open, hold>>

Outgrown_Late == discovered # 0 /\ size > discovered + 1
Outgrown == discovered # 0 /\ size > discovered

(* Growth past a discovered ceiling raises it; a probe is announced. *)
Settle(u) ==
  /\ pc[u] = "settle"
  /\ LockFree
  /\ probes' = ProbesLess(u)
  /\ probing' = probing \ {u}
  /\ IF Outgrown
       THEN discovered' = size /\ window' = FALSE
       ELSE UNCHANGED <<discovered, window>>
  /\ Goto(u, IF u \in probing THEN "announce" ELSE "fresh")
  /\ UNCHANGED <<idle, size, gate, down, open, hold, ret>>

(* A connection dialled across the teardown is undone, not handed out. *)
FreshOk(u) ==
  /\ pc[u] = "fresh"
  /\ ~closed
  /\ ReturnHandle(u)

FreshClosed_Leaks(u) ==
  /\ pc[u] = "fresh"
  /\ closed
  /\ LockFree
  /\ size' = size - 1
  /\ Take(u, {})
  /\ Goto(u, "out")
  /\ UNCHANGED <<idle, discovered, window, probes, probing, gate, down, open, ret>>

FreshClosed(u) ==
  /\ pc[u] = "fresh"
  /\ closed
  /\ LockFree
  /\ size' = size - 1
  /\ ret' = [ret EXCEPT ![u] = "out"]
  /\ Goto(u, "dispose")
  /\ UNCHANGED <<idle, discovered, window, probes, probing, gate, down, open, hold>>

-----------------------------------------------------------------------------
(* retry_until(), as the pool sees it. *)

(* raise_if_closed(), then the sample of the epoch. *)
TopClosed(u) ==
  /\ pc[u] = "top"
  /\ closed
  /\ Raise(u)

Top(u) ==
  /\ pc[u] = "top"
  /\ ~closed
  /\ retrying' = retrying \cup {u}
  /\ woken' = woken \ {u}
  /\ Goto(u, "pop")
  /\ UNCHANGED <<pool, closed, timed, down, open, hold, ret>>

(* PoolClosedError, or PoolTimeoutError once the budget is spent. *)
GiveUp(u) ==
  /\ pc[u] = "recheck"
  /\ Raise(u)

(* The epoch check; the straggler starts over. *)
EpochCheck(u) ==
  /\ pc[u] = "recheck"
  /\ ~closed
  /\ Goto(u, IF u \in woken THEN "top" ELSE "deadline")
  /\ UNCHANGED <<pool, gate, down, open, hold, ret>>

(* deadline(), read without a lock. *)
Park(u) ==
  /\ pc[u] = "deadline"
  /\ timed' = IF AwaitsReprobe THEN timed \cup {u} ELSE timed
  /\ Goto(u, "parked")
  /\ UNCHANGED <<pool, closed, woken, retrying, down, open, hold, ret>>

Wake(u) ==
  /\ pc[u] = "parked"
  /\ Goto(u, "top")
  /\ timed' = timed \ {u}
  /\ UNCHANGED <<pool, closed, woken, retrying, down, open, hold, ret>>

(* Time passes: the re-probe window opens. *)
WindowOpens ==
  /\ discovered # 0
  /\ ~window
  /\ window' = TRUE
  /\ UNCHANGED <<idle, size, discovered, probes, probing, gate, down, open, hold, pc, ret>>

-----------------------------------------------------------------------------
(* release(), signal() and the closing of connections. *)

Discards_Unchecked(is_fatal) == is_fatal

(* is_closed() is read inside the lock that _teardown_idle() drains under. *)
Discards(is_fatal) == is_fatal \/ closed

GiveBack(t, is_fatal, back) ==
  /\ LockFree
  /\ IF Discards(is_fatal)
       THEN /\ size' = size - 1
            /\ Goto(t, "dispose")
            /\ UNCHANGED <<idle, hold>>
       ELSE /\ idle' = idle \cup hold[t]
            /\ Take(t, {})
            /\ Goto(t, "signal")
            /\ UNCHANGED size
  /\ ret' = [ret EXCEPT ![t] = back]
  /\ UNCHANGED <<discovered, window, probes, probing, gate, down, open>>

Release(u) ==
  /\ pc[u] = "have"
  /\ \E is_fatal \in BOOLEAN : GiveBack(u, is_fatal, "out")

ValidateFailed(u) ==
  /\ pc[u] = "validate"
  /\ GiveBack(u, TRUE, "grow")

Dispose_NoSignal(t) ==
  /\ pc[t] = "dispose"
  /\ open' = open \ hold[t]
  /\ Take(t, {})
  /\ Goto(t, ret[t])
  /\ UNCHANGED <<pool, gate, down, ret>>

Dispose(t) ==
  /\ pc[t] = "dispose"
  /\ open' = open \ hold[t]
  /\ Take(t, {})
  /\ Goto(t, "signal")
  /\ UNCHANGED <<pool, gate, down, ret>>

Signal(t) ==
  /\ pc[t] \in {"signal", "announce"}
  /\ Goto(t, IF pc[t] = "signal" THEN ret[t] ELSE "fresh")
  /\ ret' = [ret EXCEPT ![t] = "out"]
  /\ retrying' = IF pc[t] = "signal" /\ ret[t] = "out" THEN retrying \ {t} ELSE retrying
  /\ woken' = IF closed THEN woken \cap retrying' ELSE retrying'
  /\ UNCHANGED <<pool, closed, timed, down, open, hold>>

-----------------------------------------------------------------------------
(* The keepalive thread. *)

KeeperPops ==
  /\ pc[Keeper] = "sleep"
  /\ ~shutdownStarted
  /\ \E h \in idle :
       /\ idle' = idle \ {h}
       /\ Take(Keeper, {h})
  /\ Goto(Keeper, "ping")
  /\ UNCHANGED <<size, discovered, window, probes, probing, gate, down, open, ret>>

KeeperReleases ==
  /\ pc[Keeper] = "ping"
  /\ \E is_fatal \in BOOLEAN : GiveBack(Keeper, is_fatal, "sleep")

KeeperStops ==
  /\ pc[Keeper] = "sleep"
  /\ shutdownStarted
  /\ Goto(Keeper, "out")
  /\ UNCHANGED <<pool, gate, down, open, hold, ret>>

-----------------------------------------------------------------------------
(* Shutdown, and _shutdown_teardown() by whoever runs it. *)

RequestShutdown ==
  /\ CanShutDown
  /\ ~shutdown
  /\ shutdown' = TRUE
  /\ UNCHANGED <<pool, gate, sizeLock, registered, shutdownStarted, snapshot,
                 callback, torn, open, hold, pc, ret>>

TakeSnapshot ==
  /\ shutdown
  /\ ~snapshot
  /\ snapshot' = TRUE
  /\ callback' = IF registered THEN "due" ELSE "none"
  /\ UNCHANGED <<pool, gate, sizeLock, registered, shutdownStarted, shutdown,
                 torn, open, hold, pc, ret>>

(* _shutdown_teardown() closes the gate first. *)
CloseGate(t) ==
  /\ closed' = TRUE
  /\ Goto(t, "mark")
  /\ UNCHANGED <<pool, woken, timed, retrying, sizeLock, registered, shutdownStarted,
                 shutdown, snapshot, torn, open, hold, ret>>

OwnerCloses(o) ==
  /\ pc[o] = "out"
  /\ CloseGate(o)
  /\ UNCHANGED callback

(* The pool registers with required=False, so that the pass runs it on a   *)
(* worker of its own, ...                                                  *)
PassRunsCallback ==
  /\ pc[Pass] = "out"
  /\ callback = "due"
  /\ callback' = "begun"
  /\ CloseGate(Pass)

(* ... skips it when the budget is spent, the shutdown is forced or the    *)
(* pool was collected meanwhile, ...                                       *)
PassSkipsCallback ==
  /\ callback = "due"
  /\ callback' = "passed"
  /\ UNCHANGED <<pool, gate, sizeLock, registered, shutdownStarted, shutdown,
                 snapshot, torn, open, hold, pc, ret>>

(* ... and abandons a worker that overruns the budget, which goes on if    *)
(* the process lives.                                                      *)
PassAbandonsCallback ==
  /\ pc[Pass] # "out"
  /\ callback = "begun"
  /\ callback' = "passed"
  /\ UNCHANGED <<pool, gate, sizeLock, registered, shutdownStarted, shutdown,
                 snapshot, torn, open, hold, pc, ret>>

UserCloses(u) ==
  /\ pc[u] = "close"
  /\ CloseGate(u)
  /\ UNCHANGED callback

(* Stops the keepalive thread; the join that follows waits two seconds at  *)
(* most, so it orders nothing.                                             *)
MarkShutdown(t) ==
  /\ pc[t] = "mark"
  /\ LockFree
  /\ shutdownStarted' = TRUE
  /\ Goto(t, "drain")
  /\ UNCHANGED <<pool, gate, sizeLock, registered, shutdown, snapshot, callback,
                 torn, open, hold, ret>>

(* _teardown_idle(): the whole queue in one critical section, ... *)
DrainIdle(t) ==
  /\ pc[t] = "drain"
  /\ LockFree
  /\ idle' = {}
  /\ size' = size - Cardinality(idle)
  /\ Take(t, idle)
  /\ torn' = TRUE
  /\ Goto(t, "scrap")
  /\ UNCHANGED <<discovered, window, probes, probing, gate, sizeLock, registered,
                 shutdownStarted, shutdown, snapshot, callback, open, ret>>

(* ... then the connections are closed. *)
Scrap(t) ==
  /\ pc[t] = "scrap"
  /\ open' = open \ hold[t]
  /\ Take(t, {})
  /\ Goto(t, IF t \in Users THEN "rollback" ELSE "out")
  /\ UNCHANGED <<pool, gate, down, ret>>

-----------------------------------------------------------------------------
Checkout(u) ==
  \/ PopIdle(u) \/ PopEmpty(u) \/ ValidateOk(u) \/ ValidateFailed(u)
  \/ GrowClosed(u) \/ Grow(u) \/ AtCeiling(u) \/ Reserve(u)
  \/ CheckShutdown(u) \/ UserCloses(u) \/ Rollback(u)
  \/ DialOk(u) \/ DialRefused(u) \/ DialFailed(u) \/ Settle(u)
  \/ FreshOk(u) \/ FreshClosed(u)

Retry(u) ==
  \/ TopClosed(u) \/ Top(u) \/ GiveUp(u) \/ EpochCheck(u) \/ Park(u)

Teardown(t) ==
  \/ MarkShutdown(t) \/ DrainIdle(t) \/ Scrap(t)

Background ==
  \/ WindowOpens
  \/ KeeperPops \/ KeeperReleases \/ KeeperStops
  \/ RequestShutdown \/ TakeSnapshot
  \/ PassRunsCallback \/ PassSkipsCallback \/ PassAbandonsCallback
  \/ \E o \in Owners : OwnerCloses(o)

Next ==
  \/ \E u \in Users : Acquire(u) \/ Release(u) \/ Checkout(u) \/ Retry(u) \/ Wake(u)
  \/ \E t \in Threads : Dispose(t) \/ Signal(t) \/ Teardown(t)
  \/ Background

Spec == Init /\ [][Next]_vars

(* A thread that can run does, and gets _size_lock when it is free again   *)
(* and again; dials and pings end; a closed gate leaves the pipe readable,   *)
(* so a parked user wakes.  The pass reads the registrations and gets to   *)
(* this pool's, to run it or to skip it; the worker it runs goes on until  *)
(* it is done or abandoned.  Nobody has to call acquire(), release() or    *)
(* close(), and no shutdown has to be requested.                           *)
Fairness ==
  /\ \A u \in Users : /\ SF_vars(Checkout(u))
                      /\ WF_vars(Retry(u))
                      /\ WF_vars(closed /\ Wake(u))
  /\ \A t \in Threads : WF_vars(Dispose(t)) /\ WF_vars(Signal(t))
  /\ \A t \in Users \cup Owners : SF_vars(Teardown(t))
  /\ SF_vars(callback # "passed" /\ Teardown(Pass))
  /\ WF_vars(TakeSnapshot)
  /\ WF_vars(PassRunsCallback \/ PassSkipsCallback)

FairSpec == Spec /\ Fairness

-----------------------------------------------------------------------------
(* Properties. *)

(* The threads whose slot size counts: a user from its reservation to the  *)
(* moment the slot is undone or given back, and the keeper while it pings. *)
Occupants ==
  {u \in Users : pc[u] \in Reserved \cup Carrying \cup {"have"}}
    \cup {t \in {Keeper} : pc[t] = "ping"}

(* _current_size counts every slot once: the idle connections and the      *)
(* slots in somebody's hands, across every failure path, and never exceeds *)
(* max_connections.                                                        *)
SizeAccounting ==
  /\ size = Cardinality(idle) + Cardinality(Occupants)
  /\ size <= MaxConnections

(* put() on the bounded queue blocks when it is full, and release() calls  *)
(* it inside _size_lock: a thread that may put always finds room.          *)
PutNeverBlocks ==
  (\E u \in Users : pc[u] = "have") \/ pc[Keeper] = "ping"
    => Cardinality(idle) < MaxConnections

(* Once a ceiling is discovered the pool is at most one connection over    *)
(* it, and then a probe is under way: no storm past the limit.             *)
OneProbeOver ==
  discovered # 0 =>
    /\ size <= discovered + 1
    /\ size > discovered => probing # {}

(* _probes_in_flight is the number of probes: a count left too high would  *)
(* keep every waiter from the re-probe deadline for good.                  *)
ProbeAccounting ==
  /\ probes = Cardinality(probing)
  /\ \A u \in probing : pc[u] \in Reserved \cup {"settle"}

(* Every connection has exactly one place: the queue or one thread.        *)
(* Nothing leaks, nothing is handed out twice, no closed one is idle.      *)
OnePlace ==
  /\ open = idle \cup UNION {hold[t] : t \in Threads}
  /\ \A t \in Threads : hold[t] \cap idle = {}
  /\ \A t, u \in Threads : t # u => hold[t] \cap hold[u] = {}

(* After the one-shot drain of the teardown nothing is ever queued again:  *)
(* nobody would look at it, and the connection would stay open.            *)
NothingIdleAfterTeardown == torn => idle = {}

(* An attempt would succeed.  The slot past a discovered ceiling belongs    *)
(* to the probe that is dialling, if there is one: its end is signalled.   *)
Available ==
  \/ idle # {}
  \/ probes = 0 /\ size < EffectiveCeiling
  \/ probes > 0 /\ size < discovered

(* No path that frees capacity forgets its signal: a user parked without a *)
(* deadline, unsignalled, while an attempt would succeed, is owed one.     *)
SignalOwed ==
  Available /\ ~closed /\ (\E u \in Users : pc[u] = "parked" /\ u \notin woken \cup timed)
    => \E t \in Threads : pc[t] \in {"dispose", "signal", "announce"}

(* What the pool lends, seen from the users. *)
Calling ==
  {u \in Users : \/ pc[u] \in Seeking \cup Reserved \cup Carrying
                 \/ pc[u] \in {"dispose", "signal"} /\ ret[u] # "out"}

Lending == INSTANCE HandleLending WITH
  Limit <- MaxConnections,
  shut <- closed,
  seeking <- Calling,
  lent <- [u \in Users |-> IF pc[u] = "have" THEN hold[u] ELSE {}]

(* The pool keeps the promise of HandleLending: one user per connection,   *)
(* at most max_connections lent, nothing lent to a call begun after close. *)
ImplementsLending == Lending!LendingSpec

(* close() ends every acquire() that is under way, one way or the other,   *)
(* and for good.                                                           *)
CloseEndsAcquire ==
  closed ~> [](\A u \in Users : pc[u] \notin Seeking \cup Reserved \cup Carrying)

(* Every shutdown tears a registered pool down, unless its pass passed the *)
(* pool over: the pass by its callback, or, for a pool that registered too *)
(* late for the pass to see, the user whose reservation registered it.     *)
ShutdownTearsDown == registered /\ shutdown ~> torn \/ callback = "passed"
=============================================================================
