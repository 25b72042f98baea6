----------------------------- MODULE WakeupGate -----------------------------
(***************************************************************************)
(* The retry signal behind a blocking acquire(): class WakeupGate of       *)
(* src/aeth_ext/ftp/pool/base.py.  Threads blocked for a pooled handle     *)
(* park on the read end of a pipe; whoever frees capacity calls signal(),  *)
(* which writes at most one unread byte; close() ends every wait.          *)
(*                                                                         *)
(* Every critical section of the gate's lock is one step, except the one   *)
(* that reads the pipe: recv_bytes() blocks while the lock is held.  The   *)
(* byte of a signal() or close() is written after the lock is released, so *)
(* writing it is a step of its own.                                        *)
(*                                                                         *)
(* _epoch is only ever compared with the value a caller sampled, so it is  *)
(* kept as the set of callers whose sample is out of date; that needs no   *)
(* bound on the number of signals.  The resource that acquire() is after   *)
(* is a count of free slots; what a slot is belongs to the pools.          *)
(***************************************************************************)
EXTENDS Integers, FiniteSets

CONSTANTS
  Waiters,     \* threads that call retry_until()
  Sweeper,     \* a thread that frees (or takes) slots without using the gate's wait
  Closer,      \* the thread that runs close()
  Capacity,    \* number of slots of the pool behind the gate
  Timed,       \* the waiters whose call has a timeout
  NoThread     \* the lock's owner while nobody holds it

ASSUME GateAssumption ==
  /\ IsFiniteSet(Waiters)
  /\ Sweeper \notin Waiters
  /\ Closer \notin Waiters \cup {Sweeper}
  /\ NoThread \notin Waiters \cup {Sweeper, Closer}
  /\ Capacity \in Nat
  /\ Timed \subseteq Waiters

VARIABLES
  pending,     \* _pending: a wake byte is, or is about to be, in the pipe
  closed,      \* _closed
  stale,       \* the waiters whose observed_epoch is not _epoch
  bytes,       \* unread bytes in the pipe
  lock,        \* the thread that blocks in recv_bytes() with _lock held
  expired,     \* the waiters whose acquire timeout has run out
  free,        \* slots nobody holds
  pc           \* where each thread is

vars == <<pending, closed, stale, bytes, lock, expired, free, pc>>

Threads == Waiters \cup {Sweeper, Closer}

(* The states of a thread inside retry_until(), in program order. *)
Inside == {"check", "drain", "recv", "attempt", "recheck", "epoch", "parked"}

TypeOK ==
  /\ pending \in BOOLEAN
  /\ closed \in BOOLEAN
  /\ stale \subseteq Waiters
  /\ bytes \in Nat
  /\ lock \in Threads \cup {NoThread}
  /\ expired \subseteq Waiters
  /\ free \in Nat
  /\ pc \in [Threads -> Inside \cup {"outside", "holding", "signal", "write", "close"}]

Init ==
  /\ pending = FALSE
  /\ closed = FALSE
  /\ stale = {}
  /\ bytes = 0
  /\ lock = NoThread
  /\ expired = {}
  /\ free = 0
  /\ pc = [t \in Threads |-> "outside"]

Goto(t, label) == pc' = [pc EXCEPT ![t] = label]

LockFree == lock = NoThread

-----------------------------------------------------------------------------
(* retry_until(), step by step. *)

Call(t) ==
  /\ pc[t] = "outside"
  /\ Goto(t, "check")
  /\ expired' = expired \ {t}
  /\ UNCHANGED <<pending, closed, stale, bytes, lock, free>>

(* raise_if_closed() at the top of the loop. *)
CheckClosed(t) ==
  /\ pc[t] = "check"
  /\ LockFree
  /\ Goto(t, IF closed THEN "outside" ELSE "drain")
  /\ UNCHANGED <<pending, closed, stale, bytes, lock, expired, free>>

(* Here and below, a definition named after the next one with a suffix is   *)
(* a form of it that a bug could have; nothing uses it.                    *)
Drains_Always == TRUE
Drains == pending

(* Samples the epoch and drains the pending byte; the read blocks, with the *)
(* lock held, until the signaller has written it.                           *)
Drain(t) ==
  /\ pc[t] = "drain"
  /\ LockFree
  /\ stale' = stale \ {t}
  /\ pending' = FALSE
  /\ lock' = IF Drains THEN t ELSE lock
  /\ Goto(t, IF Drains THEN "recv" ELSE "attempt")
  /\ UNCHANGED <<closed, bytes, expired, free>>

Recv(t) ==
  /\ pc[t] = "recv"
  /\ bytes > 0
  /\ bytes' = bytes - 1
  /\ lock' = NoThread
  /\ Goto(t, "attempt")
  /\ UNCHANGED <<pending, closed, stale, expired, free>>

SlotFree_Unchecked == TRUE
SlotFree == free > 0

(* attempt(): takes a slot when there is one. *)
Attempt(t) ==
  /\ pc[t] = "attempt"
  /\ IF SlotFree
       THEN free' = free - 1 /\ Goto(t, "holding")
       ELSE free' = free /\ Goto(t, "recheck")
  /\ UNCHANGED <<pending, closed, stale, bytes, lock, expired>>

BudgetSpent_AfterEpoch(t) == t \in expired /\ t \notin stale
BudgetSpent(t) == t \in expired

(* raise_if_closed(), then the caller's budget. *)
Recheck(t) ==
  /\ pc[t] = "recheck"
  /\ LockFree
  /\ Goto(t, IF closed \/ BudgetSpent(t) THEN "outside" ELSE "epoch")
  /\ UNCHANGED <<pending, closed, stale, bytes, lock, expired, free>>

(* The straggler check: an epoch that moved sends the caller back at once. *)
EpochCheck(t) ==
  /\ pc[t] = "epoch"
  /\ LockFree
  /\ Goto(t, IF t \in stale THEN "check" ELSE "parked")
  /\ UNCHANGED <<pending, closed, stale, bytes, lock, expired, free>>

(* wait() returns for a thread that finds the pipe readable when it looks, *)
(* or whose budget ran out.  "parked" includes the code from the epoch     *)
(* check to the wait, which holds no lock.                                 *)
Wake(t) ==
  /\ pc[t] = "parked"
  /\ bytes > 0 \/ t \in expired
  /\ Goto(t, "check")
  /\ UNCHANGED <<pending, closed, stale, bytes, lock, expired, free>>

(* wait() returns at the pool's own deadline (a re-probe window opening);  *)
(* most calls have none, so this may happen and need not.                  *)
DeadlineWake(t) ==
  /\ pc[t] = "parked"
  /\ Goto(t, "check")
  /\ UNCHANGED <<pending, closed, stale, bytes, lock, expired, free>>

(* The clock passes the caller's budget. *)
Expire(t) ==
  /\ t \in Timed
  /\ pc[t] \in Inside
  /\ t \notin expired
  /\ expired' = expired \cup {t}
  /\ UNCHANGED <<pending, closed, stale, bytes, lock, free, pc>>

-----------------------------------------------------------------------------
(* The threads that free capacity, and signal(). *)

(* A session gives back the slot it acquired. *)
Release(t) ==
  /\ pc[t] = "holding"
  /\ free' = free + 1
  /\ Goto(t, "signal")
  /\ UNCHANGED <<pending, closed, stale, bytes, lock, expired>>

Holders == {t \in Waiters : pc[t] = "holding"}

(* One call frees several slots at once (a pruning sweep, a transport       *)
(* replaced by one with more channels) and signals once.                    *)
Sweep(n) ==
  /\ pc[Sweeper] = "outside"
  /\ free + n + Cardinality(Holders) <= Capacity
  /\ free' = free + n
  /\ Goto(Sweeper, "signal")
  /\ UNCHANGED <<pending, closed, stale, bytes, lock, expired>>

(* A caller whose first checkout succeeds takes a slot and never waits. *)
TakeElsewhere ==
  /\ free > 0
  /\ free' = free - 1
  /\ UNCHANGED <<pending, closed, stale, bytes, lock, expired, pc>>

(* A burst of signals collapses into one unread byte. *)
WritesByte_Always == TRUE
WritesByte == ~pending

Signal(t) ==
  /\ pc[t] = "signal"
  /\ LockFree
  /\ IF closed
       THEN UNCHANGED <<stale, pending>> /\ Goto(t, "outside")
       ELSE /\ stale' = Waiters
            /\ pending' = TRUE
            /\ Goto(t, IF WritesByte THEN "write" ELSE "outside")
  /\ UNCHANGED <<closed, bytes, lock, expired, free>>

WriteByte(t) ==
  /\ pc[t] \in {"write", "close"}
  /\ bytes' = bytes + 1
  /\ Goto(t, "outside")
  /\ UNCHANGED <<pending, closed, stale, lock, expired, free>>

Close_Coalesced ==
  /\ pc[Closer] = "outside"
  /\ LockFree
  /\ ~closed
  /\ closed' = TRUE
  /\ Goto(Closer, IF pending THEN "outside" ELSE "close")
  /\ UNCHANGED <<pending, stale, bytes, lock, expired, free>>

(* close(): idempotent, and its byte bypasses the coalescing of signal(). *)
Close ==
  /\ pc[Closer] = "outside"
  /\ LockFree
  /\ ~closed
  /\ closed' = TRUE
  /\ Goto(Closer, "close")
  /\ UNCHANGED <<pending, stale, bytes, lock, expired, free>>

-----------------------------------------------------------------------------
WaiterStep(t) ==
  \/ CheckClosed(t)
  \/ Drain(t)
  \/ Recv(t)
  \/ Attempt(t)
  \/ Recheck(t)
  \/ EpochCheck(t)
  \/ Wake(t)

SignalStep(t) ==
  \/ Signal(t)
  \/ WriteByte(t)

Next ==
  \/ \E t \in Waiters : Call(t) \/ WaiterStep(t) \/ DeadlineWake(t)
                          \/ Expire(t) \/ Release(t)
  \/ \E t \in Threads : SignalStep(t)
  \/ \E n \in 1..Capacity : Sweep(n)
  \/ TakeElsewhere
  \/ Close

Spec == Init /\ [][Next]_vars

(* Threads run: a step that stays enabled is taken, and a thread that finds *)
(* the gate's lock free again and again gets it (its critical sections are  *)
(* a few instructions, or the read of a byte that is on its way).  Nothing  *)
(* obliges a session to release its handle or anybody to call.              *)
Fairness ==
  /\ \A t \in Waiters : SF_vars(WaiterStep(t)) /\ WF_vars(Expire(t))
  /\ \A t \in Threads : SF_vars(SignalStep(t))

FairSpec == Spec /\ Fairness

-----------------------------------------------------------------------------
(* Properties. *)

Writers == {t \in Threads : pc[t] \in {"write", "close"}}

One(b) == IF b THEN 1 ELSE 0

(* Bytes are conserved: the bytes in the pipe and those about to be written *)
(* are one for a pending signal, one for a closed gate, and one for the     *)
(* thread that is blocked reading.  It is why a burst of signals never      *)
(* piles up in the pipe and why the close byte is never lost.               *)
ByteConservation ==
  bytes + Cardinality(Writers) = One(pending) + One(closed) + One(lock # NoThread)

(* The lock is held across a blocking read, so a reader for which no byte   *)
(* is left or on its way would hang the pool: signal(), close() and every   *)
(* acquire take that lock.                                                  *)
ReaderHasByte ==
  lock # NoThread => bytes > 0 \/ Writers # {}

(* Teardown ends every wait: after close() every thread leaves retry_until  *)
(* or has a slot.                                                           *)
CloseReleasesAll ==
  \A t \in Waiters : closed ~> pc[t] \notin Inside

(* With a timeout every call returns, however often siblings signal in the  *)
(* meantime.                                                                *)
TimedCallReturns ==
  \A t \in Timed : pc[t] \in Inside ~> pc[t] \notin Inside

(* Nobody but t is going to run an attempt or finish a signal. *)
Quiet == \A u \in Threads : pc[u] \in {"outside", "holding", "parked"}

(* The retry signal's purpose: when all is quiet nobody sleeps on an empty  *)
(* pipe beside a free slot.                                                 *)
NoWaiterStranded ==
  Quiet /\ bytes = 0 /\ free > 0 => \A t \in Waiters : pc[t] # "parked"
=============================================================================
