------------------------------ MODULE SftpPool ------------------------------
(***************************************************************************)
(* The pool of SFTP channels: SFTPChannelPool and its ChannelLedger        *)
(* (src/aeth_ext/ftp/pool/sftp_channel_pool.py) on top of the slot         *)
(* bookkeeping of PooledAdapterBase (base.py).                             *)
(*                                                                         *)
(* A transport carries up to channels_per_transport channels.  Users take  *)
(* an idle channel, open one more on a registered transport or dial a new  *)
(* transport; they give channels back, whole or broken.  A pruner closes   *)
(* transports that stay empty, closers tear the pool down, and transports  *)
(* die by themselves at any time.                                          *)
(*                                                                         *)
(* A critical section of ledger.lock is one step; so is one of _size_lock, *)
(* and the two never nest.  The dial lock is a variable: it is held across *)
(* the dial.  Throughput is kept to one bit, whether a transport has been  *)
(* measured: a measured one may be saturated at any moment, an unmeasured  *)
(* one never is.  The SFTP connector reports no capacity refusal, so the   *)
(* ceiling of module FtpPool is never discovered here.  The gate is kept   *)
(* as in module FtpPool.                                                   *)
(***************************************************************************)
EXTENDS Integers, FiniteSets

CONSTANTS
  Users,                 \* threads that acquire and release
  Keepers,               \* the keepalive thread, if there is one
  Closers,               \* threads that run the teardown
  Pruner,                \* the prune thread
  Transports,            \* SSH transports
  MaxTransports,         \* max_connections
  ChannelsPerTransport,  \* channels_per_transport
  Settings,              \* the processes the pool may be part of, see below
  NoThread,              \* owner of the dial lock while nobody holds it
  NoTransport            \* what a thread carries while it carries nothing

Workers == Users \cup Keepers

ASSUME SftpAssumption ==
  /\ IsFiniteSet(Workers)
  /\ IsFiniteSet(Transports)
  /\ Workers \cap Closers = {}
  /\ Users \cap Keepers = {}
  /\ Pruner \notin Workers \cup Closers
  /\ NoThread \notin Workers
  /\ NoTransport \notin Transports
  /\ MaxTransports \in Nat \ {0}
  /\ ChannelsPerTransport \in Nat \ {0}

ASSUME SettingAssumption ==
  Settings \subseteq [workers : SUBSET Workers, canShutDown : BOOLEAN]

VARIABLES
  reg,       \* the transports in ledger.states
  count,     \* channel_count of each transport
  cap,       \* channel_cap, or channels_per_transport while it is None
  idle,      \* how many channels of each transport are in ledger.idle
  measured,  \* transports with throughput samples
  inFlight,  \* ledger.in_flight
  size,      \* _current_size
  live,      \* transports with is_active()
  dialLock,  \* the owner of _dial_lock
  closed,    \* the gate's _closed
  woken,     \* users signalled since they last sampled the epoch
  retrying,  \* users whose acquire() is inside retry_until()
  shutdown,  \* SHUTDOWN_WAKEUP is readable
  torn,      \* history: some teardown() has swept the ledger
  setting,   \* the workers the process has, and whether it may be shut down
  carries,   \* the transport each worker reserved on or has a channel of
  popped,    \* transports each thread took off the ledger and has to close
  pc,        \* where each thread is
  ret        \* where a worker goes after signal()

ledger == <<reg, count, cap, idle, measured>>
gate == <<closed, woken, retrying>>
down == <<shutdown, torn, setting>>
vars == <<ledger, inFlight, size, live, dialLock, gate, down, carries, popped, pc, ret>>

Threads == Workers \cup Closers \cup {Pruner}

(* A channel slot of carries[u] belongs to u: reserved, ... *)
Reserving == {"open", "track"}
(* ... checked out, or broken and not yet taken off the books. *)
Holding == Reserving \cup {"count", "validate", "have", "gone"}
(* A slot of _current_size is u's, with no registered transport for it. *)
Dialling == {"dial", "register"}
(* Inside acquire(), with nothing to lend yet. *)
Seeking ==
  Dialling \cup Reserving
    \cup {"pop", "reserve", "diallock", "check", "slot", "anyactive", "pin",
          "recheck", "parked", "top"}
(* Counted in in_flight. *)
Counted == {"validate", "have", "discarded", "emptied", "wave"}

Labels ==
  Holding \cup Seeking \cup Counted
    \cup {"out", "lost", "drop", "watch", "signal", "teardown", "look", "wait", "retire"}

Returns == {"out", "reserve", "recheck", "top", "anyactive", "pin", "wave"}

TypeOK ==
  /\ reg \subseteq Transports
  /\ count \in [Transports -> Nat]
  /\ cap \in [Transports -> 1..ChannelsPerTransport]
  /\ idle \in [Transports -> Nat]
  /\ measured \subseteq Transports
  /\ inFlight \in Nat
  /\ size \in Nat
  /\ live \subseteq Transports
  /\ dialLock \in Workers \cup {NoThread}
  /\ closed \in BOOLEAN
  /\ woken \subseteq Users
  /\ retrying \subseteq Users
  /\ shutdown \in BOOLEAN
  /\ torn \in BOOLEAN
  /\ setting \in Settings
  /\ carries \in [Workers -> Transports \cup {NoTransport}]
  /\ popped \in [Threads -> SUBSET Transports]
  /\ pc \in [Threads -> Labels]
  /\ ret \in [Workers -> Returns]

Init ==
  /\ reg = {} /\ measured = {} /\ live = {}
  /\ count = [t \in Transports |-> 0]
  /\ cap = [t \in Transports |-> ChannelsPerTransport]
  /\ idle = [t \in Transports |-> 0]
  /\ inFlight = 0 /\ size = 0
  /\ dialLock = NoThread
  /\ closed = FALSE
  /\ woken = {} /\ retrying = {}
  /\ shutdown = FALSE /\ torn = FALSE
  /\ setting \in Settings
  /\ carries = [u \in Workers |-> NoTransport]
  /\ popped = [t \in Threads |-> {}]
  /\ pc = [t \in Threads |-> "out"]
  /\ ret = [u \in Workers |-> "out"]

Goto(t, label) == pc' = [pc EXCEPT ![t] = label]
Return(u, label) == ret' = [ret EXCEPT ![u] = label]
Carry(u, t) == carries' = [carries EXCEPT ![u] = t]
Pop(t, ts) == popped' = [popped EXCEPT ![t] = ts]
AddTo(f, t, n) == [f EXCEPT ![t] = @ + n]
Unlock(u) == dialLock' = IF dialLock = u THEN NoThread ELSE dialLock

Missed(u) == IF u \in retrying THEN "recheck" ELSE "top"

(* acquire() ends: the call's view of the gate is gone. *)
LeaveRetry(u) ==
  /\ retrying' = retrying \ {u}
  /\ woken' = woken \ {u}
  /\ UNCHANGED closed

-----------------------------------------------------------------------------
(* acquire(), and the idle half of _checkout_idle_or_grow(). *)

Acquire(u) ==
  /\ pc[u] = "out" /\ u \in setting.workers
  /\ ~closed
  /\ Goto(u, "pop")
  /\ UNCHANGED <<ledger, inFlight, size, live, dialLock, gate, down, carries, popped, ret>>

(* ledger.idle.pop(), by a user or by the keepalive thread. *)
TakeIdle(u) ==
  /\ \E t \in Transports :
       /\ idle[t] > 0
       /\ idle' = AddTo(idle, t, -1)
       /\ Carry(u, t)
  /\ Goto(u, "count")
  /\ UNCHANGED <<reg, count, cap, measured, inFlight, size, live, dialLock, gate, down,
                 popped, ret>>

PopIdle(u) == pc[u] = "pop" /\ TakeIdle(u)

KeeperPops(k) == pc[k] = "out" /\ k \in setting.workers /\ TakeIdle(k)

PopEmpty(u) ==
  /\ pc[u] = "pop"
  /\ \A t \in Transports : idle[t] = 0
  /\ Goto(u, "reserve")
  /\ UNCHANGED <<ledger, inFlight, size, live, dialLock, gate, down, carries, popped, ret>>

(* The popped channel is counted in flight by a second critical section. *)
CountIdle(u) ==
  /\ pc[u] = "count"
  /\ inFlight' = inFlight + 1
  /\ Goto(u, "validate")
  /\ UNCHANGED <<ledger, size, live, dialLock, gate, down, carries, popped, ret>>

ValidateOk(u) ==
  /\ pc[u] = "validate"
  /\ carries[u] \in live
  /\ LeaveRetry(u)
  /\ Goto(u, "have")
  /\ UNCHANGED <<ledger, inFlight, size, live, dialLock, down, carries, popped, ret>>

-----------------------------------------------------------------------------
(* Growth on a registered transport: _reserve_on_existing(). *)

Usable == {t \in reg \cap live : count[t] < cap[t]}

(* The least loaded one that is not saturated; only a measured one can be. *)
Eligible(t) ==
  /\ t \in Usable
  /\ \A s \in Usable \ measured : count[t] <= count[s]

NoneEligible == Usable \subseteq measured

ClaimOn(u, t) ==
  /\ count' = AddTo(count, t, 1)
  /\ Carry(u, t)
  /\ Goto(u, "open")
  /\ UNCHANGED <<reg, cap, idle, measured>>

Reserve(u) ==
  /\ pc[u] = "reserve"
  /\ \/ \E t \in Transports : Eligible(t) /\ ClaimOn(u, t)
     \/ NoneEligible /\ Goto(u, "diallock") /\ UNCHANGED <<ledger, carries>>
  /\ UNCHANGED <<inFlight, size, live, dialLock, gate, down, popped, ret>>

-----------------------------------------------------------------------------
(* _dial_new_transport(). *)

(* With the dial lock taken, the choice is made again. *)
RePick(u) ==
  /\ pc[u] = "diallock"
  /\ dialLock = NoThread
  /\ \/ \E t \in Transports : Eligible(t) /\ ClaimOn(u, t) /\ UNCHANGED dialLock
     \/ NoneEligible /\ dialLock' = u /\ Goto(u, "check") /\ UNCHANGED <<ledger, carries>>
  /\ UNCHANGED <<inFlight, size, live, gate, down, popped, ret>>

CheckClosed(u) ==
  /\ pc[u] = "check"
  /\ closed
  /\ LeaveRetry(u)
  /\ Unlock(u)
  /\ Goto(u, "out")
  /\ UNCHANGED <<ledger, inFlight, size, live, down, carries, popped, ret>>

CheckOpen(u) ==
  /\ pc[u] = "check"
  /\ ~closed
  /\ Goto(u, "slot")
  /\ UNCHANGED <<ledger, inFlight, size, live, dialLock, gate, down, carries, popped, ret>>

(* Here and below, a definition named after the next one with a suffix is   *)
(* a form of it that a bug could have; nothing uses it.                    *)
AtCeiling_KeepsLock(u) ==
  /\ pc[u] = "slot"
  /\ size >= MaxTransports
  /\ Goto(u, Missed(u))
  /\ UNCHANGED <<ledger, inFlight, size, live, dialLock, gate, down, carries, popped, ret>>

(* _open_new_slot() reserves a slot, or finds none. *)
AtCeiling(u) ==
  /\ pc[u] = "slot"
  /\ size >= MaxTransports
  /\ Unlock(u)
  /\ Goto(u, Missed(u))
  /\ UNCHANGED <<ledger, inFlight, size, live, gate, down, carries, popped, ret>>

ReserveSlot(u) ==
  /\ pc[u] = "slot"
  /\ size < MaxTransports
  /\ size' = size + 1
  /\ Goto(u, "dial")
  /\ UNCHANGED <<ledger, inFlight, live, dialLock, gate, down, carries, popped, ret>>

(* The first reservation met a shutdown and tore the pool down itself. *)
DialCancelled(u) ==
  /\ pc[u] = "dial"
  /\ torn
  /\ size' = size - 1
  /\ Unlock(u)
  /\ Goto(u, Missed(u))
  /\ UNCHANGED <<ledger, inFlight, live, gate, down, carries, popped, ret>>

(* A transport that is new: no thread has it, or still remembers it. *)
Unused ==
  Transports \ (reg \cup live \cup {carries[u] : u \in Workers}
                  \cup UNION {popped[t] : t \in Threads})

DialOk(u) ==
  /\ pc[u] = "dial"
  /\ ~closed
  /\ \E t \in Unused :
       /\ live' = live \cup {t}
       /\ Carry(u, t)
  /\ Goto(u, "register")
  /\ UNCHANGED <<ledger, inFlight, size, dialLock, gate, down, popped, ret>>

DialOutlivesPool_Leaks(u) ==
  /\ pc[u] = "dial"
  /\ closed
  /\ \E t \in Unused : live' = live \cup {t}
  /\ size' = size - 1
  /\ Return(u, Missed(u))
  /\ Goto(u, "signal")
  /\ UNCHANGED <<ledger, inFlight, dialLock, gate, down, carries, popped>>

(* A transport dialled across the close() is closed, not registered. *)
DialOutlivesPool(u) ==
  /\ pc[u] = "dial"
  /\ closed
  /\ \E t \in Unused :
       /\ live' = live \cup {t}
       /\ Pop(u, {t})
  /\ Return(u, Missed(u))
  /\ Goto(u, "drop")
  /\ UNCHANGED <<ledger, inFlight, size, dialLock, gate, down, carries>>

DialFailed_NoRollback(u) ==
  /\ pc[u] = "dial"
  /\ \/ Return(u, "anyactive")
     \/ Return(u, "out")
  /\ Goto(u, "signal")
  /\ UNCHANGED <<ledger, inFlight, size, live, dialLock, gate, down, carries, popped>>

(* The slot is undone and signalled.  A ConnectionError goes on to look    *)
(* for a live transport; any other failure is the caller's.                *)
DialFailed(u) ==
  /\ pc[u] = "dial"
  /\ size' = size - 1
  /\ \/ Return(u, "anyactive")
     \/ Return(u, "out")
  /\ Goto(u, "signal")
  /\ UNCHANGED <<ledger, inFlight, live, dialLock, gate, down, carries, popped>>

(* Something is live: the caller may wait for it.  Nothing is: it raises. *)
AnyActive(u) ==
  /\ pc[u] = "anyactive"
  /\ Unlock(u)
  /\ IF reg \cap live # {}
       THEN Goto(u, Missed(u)) /\ UNCHANGED gate
       ELSE LeaveRetry(u) /\ Goto(u, "out")
  /\ UNCHANGED <<ledger, inFlight, size, live, down, carries, popped, ret>>

Register(u) ==
  /\ pc[u] = "register"
  /\ reg' = reg \cup {carries[u]}
  /\ count' = [count EXCEPT ![carries[u]] = 1]
  /\ Unlock(u)
  /\ Goto(u, "open")
  /\ UNCHANGED <<cap, idle, measured, inFlight, size, live, gate, down, carries, popped, ret>>

-----------------------------------------------------------------------------
(* Opening a channel on the reserved slot, and undoing the reservation.    *)

(* SFTPClient.from_transport() went well and the pool is still open. *)
OpenOk(u) ==
  /\ pc[u] = "open"
  /\ carries[u] \in live
  /\ ~closed
  /\ Goto(u, "track")
  /\ UNCHANGED <<ledger, inFlight, size, live, dialLock, gate, down, carries, popped, ret>>

(* Taking transports off the ledger: their caps and samples go with them.  *)
Unregister(ts) ==
  /\ reg' = reg \ ts
  /\ measured' = measured \ ts
  /\ cap' = [t \in Transports |-> IF t \in ts THEN ChannelsPerTransport ELSE cap[t]]

Abandons_Dialler(t) == t \in reg

(* After the decrement: the transport is empty and still registered. *)
Abandons(t) == count'[t] = 0 /\ t \in reg

(* _rollback_channel_reservation(), up to the closing of the transport. *)
Rollback(u, back) ==
  /\ count' = AddTo(count, carries[u], -1)
  /\ IF Abandons(carries[u])
       THEN /\ Unregister({carries[u]})
            /\ Pop(u, {carries[u]})
            /\ Goto(u, "drop")
       ELSE /\ UNCHANGED <<reg, measured, cap, popped>>
            /\ Goto(u, IF back = "pin" THEN "pin" ELSE "signal")
  /\ Return(u, back)
  /\ IF back = "pin" THEN UNCHANGED carries ELSE Carry(u, NoTransport)
  /\ UNCHANGED <<idle, inFlight, size, live, dialLock, gate, down>>

(* ChannelException: the server allows this transport no more channels. *)
OpenRefused(u) == pc[u] = "open" /\ Rollback(u, "pin")

(* Any other failure; or the open went well and outlived a close(). *)
OpenFailed(u) == pc[u] = "open" /\ Rollback(u, "out")

Track(u) ==
  /\ pc[u] = "track"
  /\ inFlight' = inFlight + 1
  /\ LeaveRetry(u)
  /\ Goto(u, "have")
  /\ UNCHANGED <<ledger, size, live, dialLock, down, carries, popped, ret>>

(* _record_channel_refusal(): the cap is what is live now, in a second     *)
(* critical section; nothing live means the refusal is the caller's.       *)
Pin(u) ==
  /\ pc[u] = "pin"
  /\ IF count[carries[u]] > 0
       THEN /\ cap' = IF carries[u] \in reg
                       THEN [cap EXCEPT ![carries[u]] = count[carries[u]]]
                       ELSE cap
            /\ Return(u, Missed(u))
       ELSE UNCHANGED cap /\ Return(u, "out")
  /\ Carry(u, NoTransport)
  /\ Goto(u, "signal")
  /\ UNCHANGED <<reg, count, idle, measured, inFlight, size, live, dialLock, gate, down,
                 popped>>

-----------------------------------------------------------------------------
(* release(). *)

(* The instrument of a session in transfer records throughput. *)
Sample(u) ==
  /\ pc[u] = "have"
  /\ carries[u] \in reg
  /\ measured' = measured \cup {carries[u]}
  /\ UNCHANGED <<reg, count, cap, idle, inFlight, size, live, dialLock, gate, down,
                 carries, popped, pc, ret>>

KeepsOut_NotClosed(t) == t \notin reg
KeepsOut_NotDropped(t) == closed

(* A channel that must not go back: its transport was dropped by a sibling *)
(* or the pool is closed.                                                  *)
KeepsOut(t) == t \notin reg \/ closed

Settles(u) ==
  /\ Carry(u, NoTransport)
  /\ Return(u, "wave")
  /\ UNCHANGED <<inFlight, size, live, dialLock, gate, down>>

ReleaseIdle(u) ==
  /\ pc[u] = "have"
  /\ ~KeepsOut(carries[u])
  /\ idle' = AddTo(idle, carries[u], 1)
  /\ Goto(u, "signal")
  /\ Settles(u)
  /\ UNCHANGED <<reg, count, measured, cap, popped>>

(* _release_or_pop_saturated() pops: a closed pool drops the transport it  *)
(* empties, an open one keeps it, unmeasured again, for the pruner.        *)
ReleasePopped(u) ==
  LET t == carries[u]
      emptied == t \in reg /\ count'[t] = 0
  IN  /\ pc[u] = "have"
      /\ KeepsOut(t) \/ t \in measured
      /\ count' = AddTo(count, t, -1)
      /\ \/ emptied /\ closed /\ Unregister({t}) /\ Pop(u, {t}) /\ Goto(u, "drop")
         \/ /\ emptied /\ ~closed
            /\ measured' = measured \ {t}
            /\ Goto(u, "watch")
            /\ UNCHANGED <<reg, cap, popped>>
         \/ ~emptied /\ Goto(u, "signal") /\ UNCHANGED <<reg, measured, cap, popped>>
      /\ Settles(u)
      /\ UNCHANGED idle

(* _mark_returned(), last in this path. *)
EndWave(u) ==
  /\ pc[u] = "wave"
  /\ inFlight' = inFlight - 1
  /\ Goto(u, "out")
  /\ UNCHANGED <<ledger, size, live, dialLock, gate, down, carries, popped, ret>>

(* release(is_fatal=True) after an error, or after a failed validation: a  *)
(* user inside acquire() then goes on to grow.                             *)
Breaks(u) ==
  /\ pc[u] \in {"have", "validate"}
  /\ Return(u, IF pc[u] = "validate" /\ u \in Users THEN "reserve" ELSE "out")

(* _discard(), on a transport that is active. *)
Discard(u) ==
  LET t == carries[u]
      emptied == count'[t] = 0
      dropped == emptied /\ closed /\ t \in reg
  IN  /\ Breaks(u)
      /\ t \in live
      /\ count' = AddTo(count, t, -1)
      /\ IF dropped
           THEN Unregister({t}) /\ Pop(u, {t})
           ELSE UNCHANGED <<reg, measured, cap, popped>>
      /\ Goto(u, IF emptied /\ ~dropped THEN "emptied" ELSE "discarded")
      /\ Carry(u, NoTransport)
      /\ UNCHANGED <<idle, inFlight, size, live, dialLock, gate, down>>

Discarded_Uncounted(u) ==
  /\ pc[u] \in {"discarded", "emptied"}
  /\ Goto(u, CASE popped[u] # {} -> "drop"
               [] popped[u] = {} /\ pc[u] = "emptied" -> "watch"
               [] popped[u] = {} /\ pc[u] = "discarded" -> "signal")
  /\ UNCHANGED <<ledger, inFlight, size, live, dialLock, gate, down, carries, popped, ret>>

Discarded(u) ==
  /\ pc[u] \in {"discarded", "emptied"}
  /\ inFlight' = inFlight - 1
  /\ Goto(u, CASE popped[u] # {} -> "drop"
               [] popped[u] = {} /\ pc[u] = "emptied" -> "watch"
               [] popped[u] = {} /\ pc[u] = "discarded" -> "signal")
  /\ UNCHANGED <<ledger, size, live, dialLock, gate, down, carries, popped, ret>>

(* The transport is dead: the channel is returned, ... *)
BreakDead(u) ==
  /\ Breaks(u)
  /\ carries[u] \notin live
  /\ inFlight' = inFlight - 1
  /\ Goto(u, "gone")
  /\ UNCHANGED <<ledger, size, live, dialLock, gate, down, carries, popped>>


(* Only the first of several siblings gives the slot back. *)
FirstToDrop(t) == t \in reg

(* ... then everything on it goes off the ledger: _drop_transport(). *)
DropDead(u) ==
  LET t == carries[u] IN
  /\ pc[u] = "gone"
  /\ Unregister({t})
  /\ idle' = [idle EXCEPT ![t] = 0]
  /\ Goto(u, IF FirstToDrop(t) THEN "lost" ELSE "signal")
  /\ Carry(u, NoTransport)
  /\ UNCHANGED <<count, inFlight, size, live, dialLock, gate, down, popped, ret>>

(* transport_dropped() for a transport that died. *)
CountLost(u) ==
  /\ pc[u] = "lost"
  /\ size' = size - 1
  /\ Goto(u, "signal")
  /\ UNCHANGED <<ledger, inFlight, live, dialLock, gate, down, carries, popped, ret>>

-----------------------------------------------------------------------------
(* Closing transports taken off the ledger, and telling the others.        *)

(* close_transport_handler() and transport_dropped(), one at a time. *)
DropOne(t, next) ==
  /\ pc[t] = "drop"
  /\ \E x \in popped[t] :
       /\ live' = live \ {x}
       /\ Pop(t, popped[t] \ {x})
  /\ size' = size - 1
  /\ Goto(t, IF popped'[t] = {} THEN next ELSE "drop")
  /\ UNCHANGED <<ledger, inFlight, dialLock, gate, down, carries, ret>>

WorkerDrops(u) == DropOne(u, IF ret[u] = "pin" THEN "pin" ELSE "signal")

(* _ensure_pruner_running(). *)
Watch(u) ==
  /\ pc[u] = "watch"
  /\ pc' = [pc EXCEPT ![u] = "signal",
                      ![Pruner] = IF @ = "out" /\ ~closed THEN "look" ELSE @]
  /\ UNCHANGED <<ledger, inFlight, size, live, dialLock, gate, down, carries, popped, ret>>

(* signal() bumps the epoch for everybody in retry_until(), the signaller  *)
(* included.  Leaving _dial_new_transport() releases the dial lock.        *)
Signal(u) ==
  LET leaves == ret[u] = "out" IN
  /\ pc[u] = "signal"
  /\ Goto(u, ret[u])
  /\ IF ret[u] = "anyactive" THEN UNCHANGED dialLock ELSE Unlock(u)
  /\ Return(u, "out")
  /\ retrying' = IF leaves THEN retrying \ {u} ELSE retrying
  /\ woken' = IF closed THEN {} ELSE retrying'
  /\ UNCHANGED <<ledger, inFlight, size, live, closed, down, carries, popped>>

-----------------------------------------------------------------------------
(* retry_until(), as the pool sees it; there is never a re-probe deadline. *)

TopClosed(u) ==
  /\ pc[u] = "top"
  /\ closed
  /\ LeaveRetry(u)
  /\ Goto(u, "out")
  /\ UNCHANGED <<ledger, inFlight, size, live, dialLock, down, carries, popped, ret>>

Top(u) ==
  /\ pc[u] = "top"
  /\ ~closed
  /\ retrying' = retrying \cup {u}
  /\ woken' = woken \ {u}
  /\ Goto(u, "pop")
  /\ UNCHANGED <<ledger, inFlight, size, live, dialLock, closed, down, carries, popped, ret>>

(* PoolClosedError, or PoolTimeoutError once the budget is spent. *)
GiveUp(u) ==
  /\ pc[u] = "recheck"
  /\ LeaveRetry(u)
  /\ Goto(u, "out")
  /\ UNCHANGED <<ledger, inFlight, size, live, dialLock, down, carries, popped, ret>>

EpochCheck(u) ==
  /\ pc[u] = "recheck"
  /\ ~closed
  /\ Goto(u, IF u \in woken THEN "top" ELSE "parked")
  /\ UNCHANGED <<ledger, inFlight, size, live, dialLock, gate, down, carries, popped, ret>>

Wake(u) ==
  /\ pc[u] = "parked"
  /\ Goto(u, "top")
  /\ UNCHANGED <<ledger, inFlight, size, live, dialLock, gate, down, carries, popped, ret>>

-----------------------------------------------------------------------------
(* The pruner. *)

Empties == {t \in reg : count[t] = 0}

Look ==
  /\ pc[Pruner] = "look"
  /\ Goto(Pruner, IF Empties # {} THEN "wait" ELSE "retire")
  /\ UNCHANGED <<ledger, inFlight, size, live, dialLock, gate, down, carries, popped, ret>>

PrunerShutDown ==
  /\ pc[Pruner] = "wait"
  /\ shutdown
  /\ Goto(Pruner, "out")
  /\ UNCHANGED <<ledger, inFlight, size, live, dialLock, gate, down, carries, popped, ret>>

(* The transports empty for long enough are chosen anew after the wait.   *)
(* The wait may have timed out just before a shutdown.                     *)
Expire ==
  /\ pc[Pruner] = "wait"
  /\ \E expired \in SUBSET Empties :
       /\ Unregister(expired)
       /\ Pop(Pruner, expired)
       /\ Goto(Pruner, IF expired = {} THEN "look" ELSE "drop")
  /\ UNCHANGED <<count, idle, inFlight, size, live, dialLock, gate, down, carries, ret>>

AfterPrune_Quiet == "look"
AfterPrune == "signal"

PrunerDrops == DropOne(Pruner, AfterPrune)

PrunerSignals ==
  /\ pc[Pruner] = "signal"
  /\ Goto(Pruner, "look")
  /\ woken' = IF closed THEN {} ELSE retrying
  /\ UNCHANGED <<ledger, inFlight, size, live, dialLock, closed, retrying, down, carries,
                 popped, ret>>

Retire_Blind ==
  /\ pc[Pruner] = "retire"
  /\ Goto(Pruner, "out")
  /\ UNCHANGED <<ledger, inFlight, size, live, dialLock, gate, down, carries, popped, ret>>

(* The last look is taken in the critical section that ends the thread. *)
Retire ==
  /\ pc[Pruner] = "retire"
  /\ Goto(Pruner, IF Empties # {} THEN "look" ELSE "out")
  /\ UNCHANGED <<ledger, inFlight, size, live, dialLock, gate, down, carries, popped, ret>>

-----------------------------------------------------------------------------
(* Teardown, and what happens outside the pool. *)

(* _shutdown_teardown() closes the gate first; from then on every retry    *)
(* raises before it would look at the epoch.                               *)
Close(c) ==
  /\ pc[c] = "out"
  /\ closed' = TRUE
  /\ woken' = {}
  /\ Goto(c, "teardown")
  /\ UNCHANGED <<ledger, inFlight, size, live, dialLock, retrying, down, carries, popped, ret>>

(* teardown(): the idle channels and the transports they leave empty. *)
Teardown(c) ==
  LET emptied == {t \in reg : count[t] = idle[t]} IN
  /\ pc[c] = "teardown"
  /\ count' = [t \in Transports |-> count[t] - idle[t]]
  /\ idle' = [t \in Transports |-> 0]
  /\ Unregister(emptied)
  /\ Pop(c, emptied)
  /\ Goto(c, IF emptied = {} THEN "out" ELSE "drop")
  /\ torn' = TRUE
  /\ UNCHANGED <<inFlight, size, live, dialLock, gate, shutdown, setting, carries, ret>>

CloserDrops(c) == DropOne(c, "out")

RequestShutdown ==
  /\ setting.canShutDown
  /\ ~shutdown
  /\ shutdown' = TRUE
  /\ UNCHANGED <<ledger, inFlight, size, live, dialLock, gate, torn, setting, carries, popped,
                 pc, ret>>

Die(t) ==
  /\ t \in live
  /\ live' = live \ {t}
  /\ UNCHANGED <<ledger, inFlight, size, dialLock, gate, down, carries, popped, pc, ret>>

-----------------------------------------------------------------------------
Grow(u) ==
  \/ PopEmpty(u) \/ Reserve(u) \/ RePick(u)
  \/ CheckClosed(u) \/ CheckOpen(u) \/ AtCeiling(u) \/ ReserveSlot(u)
  \/ DialCancelled(u) \/ DialOk(u) \/ DialOutlivesPool(u) \/ DialFailed(u)
  \/ AnyActive(u) \/ Register(u)
  \/ OpenOk(u) \/ OpenRefused(u) \/ OpenFailed(u) \/ Track(u) \/ Pin(u)

Retry(u) == TopClosed(u) \/ Top(u) \/ GiveUp(u) \/ EpochCheck(u)

GiveBack(u) == Sample(u) \/ ReleaseIdle(u) \/ ReleasePopped(u)

Break(u) == Discard(u) \/ BreakDead(u)

(* What a worker goes through once it has begun. *)
Proceed(u) ==
  \/ CountIdle(u) \/ ValidateOk(u)
  \/ Discarded(u) \/ DropDead(u) \/ CountLost(u) \/ WorkerDrops(u) \/ Watch(u)
  \/ EndWave(u) \/ Signal(u)

Prune == Look \/ PrunerShutDown \/ Expire \/ PrunerDrops \/ PrunerSignals \/ Retire

Next ==
  \/ \E u \in Users : Acquire(u) \/ PopIdle(u) \/ Grow(u) \/ Retry(u) \/ Wake(u)
  \/ \E k \in Keepers : KeeperPops(k)
  \/ \E u \in Workers : GiveBack(u) \/ Break(u) \/ Proceed(u)
  \/ \E c \in Closers : Close(c) \/ Teardown(c) \/ CloserDrops(c)
  \/ Prune \/ RequestShutdown
  \/ \E t \in Transports : Die(t)

Spec == Init /\ [][Next]_vars

-----------------------------------------------------------------------------
(* Properties. *)

(* The threads with a channel slot of transport t. *)
Holders(t) == {u \in Workers : carries[u] = t /\ pc[u] \in Holding}

(* _current_size counts every transport once: the registered ones, those   *)
(* being dialled, and those dropped whose slot is not given back yet; and  *)
(* it never exceeds max_connections.                                       *)
SizeAccounting ==
  /\ size = Cardinality(reg)
              + Cardinality({u \in Workers : pc[u] \in Dialling \cup {"lost"}})
              + Cardinality({p \in Threads \X Transports : p[2] \in popped[p[1]]})
  /\ size <= MaxTransports

(* channel_count of a registered transport is its idle channels and the    *)
(* slots in use, through every rollback and discard, and within its cap; a *)
(* transport off the ledger leaves no idle channel behind.                 *)
ChannelAccounting ==
  \A t \in Transports :
    /\ t \in reg => count[t] = idle[t] + Cardinality(Holders(t)) /\ count[t] <= cap[t]
    /\ t \notin reg => idle[t] = 0

(* Dials are serialised, or every caller of a cold start would dial a       *)
(* transport of its own; and whoever has the dial lock is on its way to     *)
(* give it up: it does not park, hand out a channel or leave with it, and   *)
(* the queue behind it moves.                                              *)
DialsInTurn ==
  /\ \A u \in Workers : pc[u] \in {"check", "slot", "anyactive"} \cup Dialling => dialLock = u
  /\ dialLock # NoThread =>
       pc[dialLock] \in {"check", "slot", "anyactive", "drop", "signal"} \cup Dialling

(* in_flight counts each channel once from checkout to return: a missed    *)
(* return would keep every later wave from ending.                         *)
InFlightAccounting ==
  inFlight = Cardinality({u \in Workers : pc[u] \in Counted \/ ret[u] = "wave"})

(* A live transport is on the ledger, or in the hands of the thread that   *)
(* dialled it or has to close it: none is leaked with its thread.          *)
NoTransportLost ==
  live \subseteq reg
         \cup {carries[u] : u \in {w \in Workers : pc[w] = "register"}}
         \cup UNION {popped[t] : t \in Threads}

(* Whoever closes a transport closes it under nobody: not under a sibling  *)
(* that reserved a slot meanwhile, not twice.                              *)
ClosedUnderNobody ==
  \A t \in Threads : \A x \in popped[t] :
    /\ x \notin reg
    /\ Holders(x) = {}
    /\ \A s \in Threads \ {t} : x \notin popped[s]

(* After the one-shot sweep of the teardown nothing is idle, and what is   *)
(* still registered is held by a thread that will find the pool closed.    *)
TornDownStaysClean ==
  torn => \A t \in Transports : idle[t] = 0 /\ (t \in reg => Holders(t) # {})

(* An empty transport in an open pool is the pruner's: it runs, or the     *)
(* thread that emptied the transport is about to start it.                 *)
EmptiesAreWatched ==
  Empties # {} /\ ~closed /\ ~shutdown =>
    \/ pc[Pruner] # "out"
    \/ \E u \in Workers : pc[u] \in {"emptied", "watch"}

(* An attempt would find something whatever the measurements say. *)
Available ==
  \/ \E t \in Transports : idle[t] > 0
  \/ Usable \ measured # {}
  \/ size < MaxTransports

(* The threads that will signal before they stop or wait for anybody. *)
Signalling ==
  {u \in Workers : pc[u] \in {"signal", "drop", "pin", "watch", "discarded", "emptied"}}
    \cup {t \in {Pruner} : pc[t] \in {"signal", "drop"}}

(* No path that frees capacity forgets its signal: a user parked           *)
(* unsignalled while an attempt would succeed is owed one.                 *)
SignalOwed ==
  Available /\ ~closed /\ (\E u \in Users : pc[u] = "parked" /\ u \notin woken)
    => Signalling # {}
=============================================================================
