------------------------- MODULE FtpPoolRefinement -------------------------
(***************************************************************************)
(* The pool of FtpPool keeps the promise of HandleLending, for any number  *)
(* of users, connections and owners.                                       *)
(***************************************************************************)
EXTENDS FtpPoolProofs

(* A thread at this label, that will go back there, is inside acquire(). *)
Calls(label, back) ==
  \/ label \in Seeking \cup Reserved \cup Carrying
  \/ label \in {"dispose", "signal"} /\ back # "out"

Lent == [u \in Users |-> IF pc[u] = "have" THEN hold[u] ELSE {}]

Keeps == [Lending!LendingNext]_(Lending!lendingVars)

LEMMA CallingAre ==
  /\ Calling = {u \in Users : Calls(pc[u], ret[u])}
  /\ Calling' = {u \in Users : Calls(pc'[u], ret'[u])}
BY DEF Calling, Calls

(* What only one thread does is nothing to the others' calls and loans. *)
Alone(t) ==
  \A x \in Users \ {t} : pc'[x] = pc[x] /\ hold'[x] = hold[x] /\ ret'[x] = ret[x]

LEMMA OthersUnaffected ==
  ASSUME NEW t, Alone(t)
  PROVE  /\ Calling' \ {t} = Calling \ {t}
         /\ \A x \in Users \ {t} : Lent'[x] = Lent[x]
BY CallingAre DEF Alone, Lent

(* A step of a thread that neither begins a call nor has a connection on   *)
(* loan is a failed call of it, or nothing at all.                         *)
LEMMA InsideOrFails ==
  ASSUME NEW t, Alone(t), closed' = closed,
         t \in Users => /\ pc[t] # "have" /\ pc'[t] # "have"
                        /\ Calls(pc'[t], ret'[t]) => Calls(pc[t], ret[t])
  PROVE  Keeps
<1>1. Lent' = Lent
  BY DEF Alone, Lent
<1>2. CASE t \in Calling /\ t \notin Calling'
  <2>1. Calling' = Calling \ {t} /\ t \in Users
    BY <1>2, OthersUnaffected, CallingAre
  <2>2. Lending!Fail(t)
    BY <1>1, <1>2, <2>1 DEF Lending!Fail, Lent
  <2> QED BY <2>1, <2>2 DEF Keeps, Lending!LendingNext
<1>3. CASE ~(t \in Calling /\ t \notin Calling')
  <2>1. Calling' = Calling
    BY <1>3, OthersUnaffected, CallingAre
  <2> QED BY <1>1, <2>1 DEF Keeps, Lending!lendingVars, Lent
<1> QED BY <1>2, <1>3

LEMMA MoveIsAlone ==
  ASSUME TypeOK, NEW t \in Threads, NEW label, Goto(t, label),
         \A x \in Users \ {t} : hold'[x] = hold[x] /\ ret'[x] = ret[x]
  PROVE  Alone(t) /\ pc'[t] = label
BY MembersAreThreads DEF TypeOK, Goto, Alone

(* The call begins. *)
LEMMA AcquireBegins ==
  ASSUME TypeOK, NEW u \in Users, Acquire(u)
  PROVE  Keeps
<1>1. Alone(u) /\ pc'[u] = "pop"
  BY MoveIsAlone, MembersAreThreads DEF Acquire
<1>2. Calling' = Calling \cup {u} /\ u \notin Calling
  BY <1>1, OthersUnaffected, CallingAre DEF Acquire, Calls, Seeking, Reserved, Carrying
<1>3. Lent' = Lent /\ Lent[u] = {}
  BY <1>1 DEF Alone, Lent, Acquire
<1>4. Lending!Begin(u)
  BY <1>2, <1>3 DEF Lending!Begin, Lent, Acquire, gate
<1> QED BY <1>4 DEF Keeps, Lending!LendingNext

(* The loan ends. *)
LEMMA ReleaseReturns ==
  ASSUME PoolInv, NEW u \in Users, Release(u)
  PROVE  Keeps
<1>1. PICK is_fatal \in BOOLEAN : GiveBack(u, is_fatal, "out")
  BY DEF Release
<1>2. u \in Threads /\ pc[u] = "have" /\ closed' = closed /\ ret'[u] = "out"
  BY <1>1, MembersAreThreads DEF Release, GiveBack, gate, PoolInv, TypeOK
<1>3. pc'[u] \in {"dispose", "signal"} /\ Alone(u)
  BY <1>1, <1>2, MembersAreThreads DEF GiveBack, Goto, Take, Alone, PoolInv, TypeOK
<1>4. Calling' = Calling
  BY <1>2, <1>3, OthersUnaffected, CallingAre DEF Calls, Seeking, Reserved, Carrying
<1>5. Lent[u] # {}
  BY <1>2 DEF Lent, PoolInv, HandsOk, Handling
<1>6. Lent' = [Lent EXCEPT ![u] = {}]
  BY <1>3 DEF Lent, Alone
<1>7. Lending!Return(u)
  BY <1>2, <1>4, <1>5, <1>6 DEF Lending!Return, Lent
<1> QED BY <1>7 DEF Keeps, Lending!LendingNext

(* A user about to get a connection is not counted among the borrowers, but  *)
(* its slot is in size: there is room for one more loan.                     *)
LEMMA RoomForOneMore ==
  ASSUME PoolInv, NEW u \in Users, pc[u] \in Carrying
  PROVE  Cardinality(Lending!Borrowers) < MaxConnections
<1>1. u \in Occupants /\ Lending!Borrowers \subseteq Occupants \ {u}
  BY DEF Occupants, Lending!Borrowers, Carrying
<1>2. IsFiniteSet(Occupants \ {u}) /\ Cardinality(Occupants \ {u}) = Cardinality(Occupants) - 1
  BY <1>1, FS_RemoveElement, OccupantsFinite
<1>3. /\ Cardinality(Lending!Borrowers) <= Cardinality(Occupants) - 1
      /\ Cardinality(Lending!Borrowers) \in Nat
  BY <1>1, <1>2, FS_Subset, FS_CardinalityType
<1> QED BY <1>3, IdleFinite, OccupantsFinite, PoolAssumption
        DEF PoolInv, SizeAccounting, TypeOK

(* HandleLending counts as FtpPool does. *)
LEMMA SameCardinality == \A S : Lending!Cardinality(S) = Cardinality(S)
BY DEF Cardinality, Lending!Cardinality

LEMMA ReturnHandleLends ==
  ASSUME PoolInv, NEW u \in Users, pc[u] \in Carrying, ReturnHandle(u)
  PROVE  Keeps
<1>1. PICK h \in Handles : hold[u] = {h}
  BY MembersAreThreads DEF PoolInv, HandsOk, Handling
<1>2. Alone(u) /\ pc'[u] = "have" /\ hold'[u] = {h} /\ closed' = closed
  BY <1>1, MembersAreThreads, KeeperIsNoUser DEF ReturnHandle, Alone, PoolInv, TypeOK
<1>3. u \in Calling /\ Calling' = Calling \ {u}
  BY <1>2, OthersUnaffected, CallingAre DEF Calls, Seeking, Reserved, Carrying
<1>4. Lent' = [Lent EXCEPT ![u] = {h}]
  BY <1>2 DEF Alone, Lent
<1>5. \A v \in Users : h \notin Lent[v]
  BY <1>1, MembersAreThreads DEF Lent, PoolInv, OnePlace, Carrying
<1>6. Lending!Lend(u, h)
  BY <1>2, <1>3, <1>4, <1>5, RoomForOneMore, SameCardinality DEF Lending!Lend, Lent
<1> QED BY <1>6 DEF Keeps, Lending!LendingNext

(* Whoever closes the gate is no user, or stays inside its call. *)
LEMMA CloseShuts ==
  ASSUME TypeOK, NEW t \in Threads, CloseGate(t), t \in Users => pc[t] = "close"
  PROVE  Keeps
<1>1. Alone(t) /\ pc'[t] = "mark"
  BY MoveIsAlone DEF CloseGate
<1>2. Calling' = Calling
  BY <1>1, OthersUnaffected, CallingAre DEF Calls, Reserved
<1>3. Lent' = Lent
  BY <1>1 DEF Alone, Lent
<1>4. Lending!Shut
  BY <1>2, <1>3 DEF Lending!Shut, Lent, CloseGate
<1> QED BY <1>4 DEF Keeps, Lending!LendingNext

-----------------------------------------------------------------------------
(* The other steps of acquire() stay inside it, or raise out of it. *)
LEMMA CheckoutKeeps ==
  ASSUME PoolInv, NEW u \in Users, Checkout(u)
  PROVE  Keeps
<1> USE MembersAreThreads DEF PoolInv, TypeOK, gate
<1> DEFINE Inside == /\ Alone(u) /\ closed' = closed /\ pc[u] # "have" /\ pc'[u] # "have"
                     /\ Calls(pc'[u], ret'[u]) => Calls(pc[u], ret[u])
<1>1. Inside => Keeps
  BY InsideOrFails
<1>2. CASE PopIdle(u)
  BY <1>1, <1>2 DEF PopIdle, Goto, Take, Alone, Calls, Seeking
<1>3. CASE PopEmpty(u) \/ Grow(u) \/ AtCeiling(u)
  BY <1>1, <1>3 DEF PopEmpty, Grow, AtCeiling, Missed, Goto, Alone, Calls, Seeking
<1>4. CASE ValidateOk(u)
  BY <1>4, ReturnHandleLends DEF ValidateOk, Carrying
<1>5. CASE FreshOk(u)
  BY <1>5, ReturnHandleLends DEF FreshOk, Carrying
<1>6. CASE ValidateFailed(u)
  BY <1>1, <1>6 DEF ValidateFailed, GiveBack, Discards, Goto, Alone, Calls, Carrying
<1>7. CASE GrowClosed(u)
  BY <1>1, <1>7 DEF GrowClosed, Raise, Goto, Alone, Calls, Seeking
<1>8. CASE Reserve(u)
  BY <1>1, <1>8 DEF Reserve, Goto, Alone, Calls, Seeking
<1>9. CASE CheckShutdown(u)
  BY <1>1, <1>9 DEF CheckShutdown, Goto, Alone, Calls, Reserved
<1>10. CASE UserCloses(u)
  BY <1>10, CloseShuts DEF UserCloses
<1>11. CASE Rollback(u)
  BY <1>1, <1>11 DEF Rollback, Missed, Goto, Alone, Calls, Reserved
<1>12. CASE DialOk(u)
  BY <1>1, <1>12 DEF DialOk, Goto, Take, Alone, Calls, Reserved
<1>13. CASE DialRefused(u)
  <2>1. /\ pc[u] = "dial" /\ Goto(u, "signal") /\ UNCHANGED <<closed, hold>>
        /\ \E back : ret' = [ret EXCEPT ![u] = back]
    BY <1>13 DEF DialRefused
  <2> QED BY <1>1, <2>1 DEF Goto, Alone, Calls, Reserved
<1>14. CASE DialFailed(u)
  BY <1>1, <1>14 DEF DialFailed, Goto, Alone, Calls, Reserved
<1>15. CASE Settle(u)
  BY <1>1, <1>15 DEF Settle, Goto, Alone, Calls, Carrying
<1>16. CASE FreshClosed(u)
  BY <1>1, <1>16 DEF FreshClosed, Goto, Alone, Calls, Carrying
<1> HIDE DEF Inside
<1> QED BY <1>2, <1>3, <1>4, <1>5, <1>6, <1>7, <1>8, <1>9, <1>10, <1>11, <1>12, <1>13,
           <1>14, <1>15, <1>16 DEF Checkout

LEMMA RetryKeeps ==
  ASSUME TypeOK, NEW u \in Users, Retry(u) \/ Wake(u)
  PROVE  Keeps
<1>1. /\ Alone(u) /\ closed' = closed /\ pc[u] \in Seeking
      /\ pc'[u] \in Seeking \cup {"out"}
  BY MembersAreThreads DEF TypeOK, gate, Retry, Wake, TopClosed, Top, GiveUp, EpochCheck,
     Park, Raise, Goto, Alone, Seeking
<1> QED BY <1>1, InsideOrFails DEF Calls, Seeking

(* Closing and signalling, by anyone; what a thread tears down is not on loan. *)
LEMMA AnyThreadKeeps ==
  ASSUME TypeOK, NEW t \in Threads, Dispose(t) \/ Signal(t) \/ Teardown(t)
  PROVE  Keeps
<1> USE MembersAreThreads DEF TypeOK, gate, Goto, Take, Alone
<1>1. CASE Dispose(t)
  <2>1. /\ Alone(t) /\ closed' = closed
        /\ pc[t] = "dispose" /\ pc'[t] = "signal" /\ ret'[t] = ret[t]
    BY <1>1 DEF Dispose
  <2> QED BY <2>1, InsideOrFails DEF Calls, Seeking, Reserved, Carrying
<1>2. CASE Signal(t)
  <2>1. Alone(t) /\ closed' = closed
    BY <1>2 DEF Signal
  <2>2. CASE pc[t] = "announce"
    BY <1>2, <2>1, <2>2, InsideOrFails DEF Signal, Calls, Carrying
  <2>3. CASE pc[t] = "signal"
    BY <1>2, <2>1, <2>3, InsideOrFails DEF Signal, Calls, Returns, Seeking, Reserved, Carrying
  <2> QED BY <1>2, <2>2, <2>3 DEF Signal
<1>3. CASE MarkShutdown(t) \/ DrainIdle(t)
  BY <1>3, InsideOrFails DEF MarkShutdown, DrainIdle, Calls, Reserved
<1>4. CASE Scrap(t)
  BY <1>4, InsideOrFails DEF Scrap, Calls, Reserved
<1> QED BY <1>1, <1>2, <1>3, <1>4 DEF Teardown

LEMMA BackgroundKeeps ==
  ASSUME TypeOK, Background
  PROVE  Keeps
<1> USE MembersAreThreads, KeeperIsNoUser DEF TypeOK, gate
<1>1. CASE WindowOpens \/ RequestShutdown \/ TakeSnapshot
          \/ PassSkipsCallback \/ PassAbandonsCallback
  BY <1>1, InsideOrFails DEF WindowOpens, RequestShutdown, TakeSnapshot,
     PassSkipsCallback, PassAbandonsCallback, Alone
<1>2. CASE KeeperPops \/ KeeperReleases \/ KeeperStops
  <2>1. Alone(Keeper) /\ closed' = closed
    BY <1>2 DEF KeeperPops, KeeperReleases, KeeperStops, GiveBack, Goto, Take, Alone
  <2> QED BY <2>1, InsideOrFails
<1>3. CASE PassRunsCallback
  BY <1>3, CloseShuts DEF PassRunsCallback
<1>4. CASE \E o \in Owners : OwnerCloses(o)
  BY <1>4, CloseShuts, PoolAssumption DEF OwnerCloses, Threads
<1> QED BY <1>1, <1>2, <1>3, <1>4 DEF Background

LEMMA StepKeeps ==
  ASSUME PoolInv, [Next]_vars
  PROVE  Keeps
<1>1. CASE \E u \in Users : Acquire(u)
  BY <1>1, AcquireBegins DEF PoolInv
<1>2. CASE \E u \in Users : Release(u)
  BY <1>2, ReleaseReturns
<1>3. CASE \E u \in Users : Checkout(u)
  BY <1>3, CheckoutKeeps
<1>4. CASE \E u \in Users : Retry(u) \/ Wake(u)
  BY <1>4, RetryKeeps DEF PoolInv
<1>5. CASE \E t \in Threads : Dispose(t) \/ Signal(t) \/ Teardown(t)
  BY <1>5, AnyThreadKeeps DEF PoolInv
<1>6. CASE Background
  BY <1>6, BackgroundKeeps DEF PoolInv
<1>7. CASE UNCHANGED vars
  <2>1. Alone(NoThread) /\ closed' = closed
    BY <1>7 DEF vars, gate, Alone
  <2> QED BY <2>1, InsideOrFails, PoolAssumption
<1> QED BY <1>1, <1>2, <1>3, <1>4, <1>5, <1>6, <1>7 DEF Next

LEMMA InitLends == Init => Lending!LendingInit
BY CallingAre, MembersAreThreads
   DEF Init, Lending!LendingInit, Calls, Seeking, Reserved, Carrying

(* Every behaviour of the pool is one that its users were promised: no     *)
(* connection is lent to two of them, no more than max_connections are     *)
(* lent, and nobody gets one from an acquire() called after close().       *)
THEOREM PoolLends == Spec => ImplementsLending
BY InitLends, StepKeeps, PoolInvariant, PTL
   DEF Spec, ImplementsLending, Lending!LendingSpec, Keeps
=============================================================================
