-------------------------- MODULE WakeupGateProofs --------------------------
(***************************************************************************)
(* Proofs about WakeupGate for any number of waiters: the byte accounting  *)
(* of the pipe, and from it that the blocking read made with the lock held *)
(* always has a byte to read.                                              *)
(***************************************************************************)
EXTENDS WakeupGate, FiniteSetTheorems, TLAPS

(* The lock is held exactly by the thread that blocks in recv_bytes(). *)
LockOwner == \A t \in Threads : pc[t] = "recv" <=> lock = t

GateInv == TypeOK /\ LockOwner /\ ByteConservation

LEMMA ThreadsFinite == IsFiniteSet(Threads)
<1>1. Threads = (Waiters \cup {Sweeper}) \cup {Closer}
  BY DEF Threads
<1> QED BY <1>1, FS_AddElement, GateAssumption

LEMMA WritersFinite == IsFiniteSet(Writers) /\ Cardinality(Writers) \in Nat
<1>1. Writers \subseteq Threads
  BY DEF Writers
<1> QED BY <1>1, ThreadsFinite, FS_Subset, FS_CardinalityType

(* A thread about to write its byte is one writer more, ... *)
LEMMA WriterAdded ==
  ASSUME TypeOK, NEW t \in Threads, NEW label \in {"write", "close"},
         t \notin Writers, pc' = [pc EXCEPT ![t] = label]
  PROVE  Cardinality(Writers') = Cardinality(Writers) + 1
<1>1. Writers' = Writers \cup {t}
  BY DEF Writers, TypeOK
<1> QED BY <1>1, WritersFinite, FS_AddElement

(* ... one that has written it is one less, ... *)
LEMMA WriterRemoved ==
  ASSUME TypeOK, NEW t \in Writers, pc' = [pc EXCEPT ![t] = "outside"]
  PROVE  Cardinality(Writers') = Cardinality(Writers) - 1
<1>1. Writers' = Writers \ {t}
  BY DEF Writers, TypeOK
<1> QED BY <1>1, WritersFinite, FS_RemoveElement

(* ... and every other move of a thread leaves the writers as they are. *)
LEMMA WritersKept ==
  ASSUME TypeOK, NEW t \in Threads, NEW label,
         label \notin {"write", "close"}, t \notin Writers,
         pc' = [pc EXCEPT ![t] = label]
  PROVE  Writers' = Writers
BY DEF Writers, TypeOK

-----------------------------------------------------------------------------
LEMMA GateInvInit == Init => GateInv
<1> SUFFICES ASSUME Init PROVE GateInv
  OBVIOUS
<1>1. TypeOK /\ LockOwner
  BY GateAssumption DEF Init, TypeOK, LockOwner, Threads, Inside
<1>2. Writers = {}
  BY DEF Init, Writers
<1>3. ByteConservation
  BY <1>2, FS_EmptySet DEF Init, ByteConservation, One
<1> QED BY <1>1, <1>3 DEF GateInv

LEMMA GateTypeStep == GateInv /\ [Next]_vars => TypeOK'
<1> SUFFICES ASSUME GateInv, [Next]_vars PROVE TypeOK'
  OBVIOUS
<1> USE GateAssumption
    DEF GateInv, TypeOK, SlotFree, Drains, WritesByte, Threads, Inside, Goto, LockFree
<1>1. ASSUME NEW t \in Waiters, WaiterStep(t) PROVE TypeOK'
  <2>1. CASE CheckClosed(t)
    BY <2>1 DEF CheckClosed
  <2>2. CASE Drain(t)
    BY <2>2 DEF Drain
  <2>3. CASE Recv(t)
    BY <2>3 DEF Recv
  <2>4. CASE Attempt(t)
    BY <2>4 DEF Attempt
  <2>5. CASE Recheck(t) \/ EpochCheck(t) \/ Wake(t)
    BY <2>5 DEF Recheck, EpochCheck, Wake
  <2> QED BY <1>1, <2>1, <2>2, <2>3, <2>4, <2>5 DEF WaiterStep
<1>2. ASSUME NEW t \in Waiters, Call(t) \/ DeadlineWake(t) \/ Expire(t) \/ Release(t)
      PROVE  TypeOK'
  BY <1>2 DEF Call, DeadlineWake, Expire, Release
<1>3. ASSUME NEW t \in Threads, SignalStep(t) PROVE TypeOK'
  <2>1. CASE Signal(t)
    BY <2>1 DEF Signal
  <2>2. CASE WriteByte(t)
    BY <2>2 DEF WriteByte
  <2> QED BY <1>3, <2>1, <2>2 DEF SignalStep
<1>4. ASSUME NEW n \in 1..Capacity, Sweep(n) PROVE TypeOK'
  BY <1>4 DEF Sweep
<1>5. CASE TakeElsewhere
  BY <1>5 DEF TakeElsewhere
<1>6. CASE Close
  BY <1>6 DEF Close
<1>7. CASE UNCHANGED vars
  BY <1>7 DEF vars
<1> QED BY <1>1, <1>2, <1>3, <1>4, <1>5, <1>6, <1>7 DEF Next

LEMMA LockOwnerStep == GateInv /\ [Next]_vars => LockOwner'
<1> SUFFICES ASSUME GateInv, [Next]_vars PROVE LockOwner'
  OBVIOUS
<1> USE GateAssumption
    DEF GateInv, TypeOK, LockOwner, Drains, WritesByte, Threads, Inside, Goto, LockFree
<1>1. ASSUME NEW t \in Waiters, Drain(t) PROVE LockOwner'
  BY <1>1 DEF Drain
<1>2. ASSUME NEW t \in Waiters, Recv(t) PROVE LockOwner'
  BY <1>2 DEF Recv
<1>3. ASSUME NEW t \in Waiters, WaiterStep(t), ~Drain(t), ~Recv(t) PROVE LockOwner'
  BY <1>3 DEF WaiterStep, CheckClosed, Attempt, Recheck, EpochCheck, Wake
<1>4. ASSUME NEW t \in Waiters, Call(t) \/ DeadlineWake(t) \/ Expire(t) \/ Release(t)
      PROVE  LockOwner'
  BY <1>4 DEF Call, DeadlineWake, Expire, Release
<1>5. ASSUME NEW t \in Threads, SignalStep(t) PROVE LockOwner'
  BY <1>5 DEF SignalStep, Signal, WriteByte
<1>6. ASSUME NEW n \in 1..Capacity, Sweep(n) PROVE LockOwner'
  BY <1>6 DEF Sweep
<1>7. CASE TakeElsewhere
  BY <1>7 DEF TakeElsewhere
<1>8. CASE Close
  BY <1>8 DEF Close
<1>9. CASE UNCHANGED vars
  BY <1>9 DEF vars
<1> QED BY <1>1, <1>2, <1>3, <1>4, <1>5, <1>6, <1>7, <1>8, <1>9 DEF Next

LEMMA ConservationStep == GateInv /\ [Next]_vars => ByteConservation'
<1> SUFFICES ASSUME GateInv, [Next]_vars PROVE ByteConservation'
  OBVIOUS
<1> USE GateAssumption, WritersFinite
    DEF GateInv, Drains, WritesByte, Goto, LockFree, ByteConservation, One
<1>0. Waiters \subseteq Threads /\ Sweeper \in Threads /\ Closer \in Threads
  BY DEF Threads
<1>1. ASSUME NEW t \in Waiters, Drain(t) PROVE ByteConservation'
  <2>1. Writers' = Writers
    BY <1>0, <1>1, WritersKept DEF Drain, Writers
  <2> QED BY <1>0, <1>1, <2>1 DEF Drain, TypeOK
<1>2. ASSUME NEW t \in Waiters, Recv(t) PROVE ByteConservation'
  <2>1. Writers' = Writers
    BY <1>0, <1>2, WritersKept DEF Recv, Writers
  <2>2. lock = t
    BY <1>0, <1>2 DEF Recv, LockOwner
  <2> QED BY <1>2, <2>1, <2>2 DEF Recv, TypeOK
<1>3. ASSUME NEW t \in Waiters, WaiterStep(t), ~Drain(t), ~Recv(t)
      PROVE  ByteConservation'
  <2>1. Writers' = Writers
    BY <1>0, <1>3, WritersKept
       DEF WaiterStep, CheckClosed, Attempt, Recheck, EpochCheck, Wake, Writers
  <2>2. UNCHANGED <<pending, closed, bytes, lock>>
    BY <1>3 DEF WaiterStep, CheckClosed, Attempt, Recheck, EpochCheck, Wake
  <2> QED BY <2>1, <2>2
<1>4. ASSUME NEW t \in Waiters, Call(t) \/ DeadlineWake(t) \/ Expire(t) \/ Release(t)
      PROVE  ByteConservation'
  <2>1. CASE Expire(t)
    BY <2>1 DEF Expire, Writers
  <2>2. CASE Call(t) \/ DeadlineWake(t) \/ Release(t)
    <3>1. Writers' = Writers
      BY <1>0, <2>2, WritersKept DEF Call, DeadlineWake, Release, Writers
    <3> QED BY <2>2, <3>1 DEF Call, DeadlineWake, Release
  <2> QED BY <1>4, <2>1, <2>2
<1>5. ASSUME NEW t \in Threads, Signal(t) PROVE ByteConservation'
  <2>1. CASE closed \/ pending
    <3>1. Writers' = Writers
      BY <1>5, <2>1, WritersKept DEF Signal, Writers
    <3> QED BY <1>5, <2>1, <3>1 DEF Signal
  <2>2. CASE ~closed /\ ~pending
    <3>1. Cardinality(Writers') = Cardinality(Writers) + 1
      BY <1>5, <2>2, WriterAdded DEF Signal, Writers
    <3> QED BY <1>5, <2>2, <3>1 DEF Signal, TypeOK
  <2> QED BY <2>1, <2>2
<1>6. ASSUME NEW t \in Threads, WriteByte(t) PROVE ByteConservation'
  <2>1. Cardinality(Writers') = Cardinality(Writers) - 1
    BY <1>6, WriterRemoved DEF WriteByte, Writers
  <2> QED BY <1>6, <2>1 DEF WriteByte, TypeOK
<1>7. ASSUME NEW n \in 1..Capacity, Sweep(n) PROVE ByteConservation'
  <2>1. Writers' = Writers
    BY <1>0, <1>7, WritersKept DEF Sweep, Writers
  <2> QED BY <1>7, <2>1 DEF Sweep
<1>8. CASE Close
  <2>1. Cardinality(Writers') = Cardinality(Writers) + 1
    BY <1>0, <1>8, WriterAdded DEF Close, Writers
  <2> QED BY <1>8, <2>1 DEF Close, TypeOK
<1>9. CASE TakeElsewhere
  BY <1>9 DEF TakeElsewhere, Writers
<1>10. CASE UNCHANGED vars
  BY <1>10 DEF vars, Writers
<1> QED BY <1>1, <1>2, <1>3, <1>4, <1>5, <1>6, <1>7, <1>8, <1>9, <1>10
        DEF Next, SignalStep

-----------------------------------------------------------------------------
LEMMA GateInvariant == Spec => []GateInv
<1>1. GateInv /\ [Next]_vars => GateInv'
  BY GateTypeStep, LockOwnerStep, ConservationStep DEF GateInv
<1> QED BY <1>1, GateInvInit, PTL DEF Spec

(* The variables keep their types. *)
THEOREM GateTypeCorrect == Spec => []TypeOK
BY GateInvariant, PTL DEF GateInv

(* However many threads signal, drain and close at once, every byte in the *)
(* pipe or on its way answers for a pending signal, the closed gate or the *)
(* thread that is blocked reading.                                         *)
THEOREM BytesConserved == Spec => []ByteConservation
BY GateInvariant, PTL DEF GateInv

(* recv_bytes() under the lock never hangs: a byte is there or on its way. *)
THEOREM ReaderNeverHangs == Spec => []ReaderHasByte
<1>1. GateInv => ReaderHasByte
  <2> SUFFICES ASSUME GateInv, lock # NoThread, Writers = {} PROVE bytes > 0
    BY DEF ReaderHasByte
  <2>1. Cardinality(Writers) = 0
    BY FS_EmptySet
  <2>2. One(pending) >= 0 /\ One(closed) >= 0 /\ One(lock # NoThread) = 1
    BY DEF One
  <2>3. One(pending) \in Nat /\ One(closed) \in Nat
    BY DEF One
  <2> QED BY <2>1, <2>2, <2>3 DEF GateInv, ByteConservation, TypeOK
<1> QED BY <1>1, GateInvariant, PTL
=============================================================================
