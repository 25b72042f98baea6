--------------------------- MODULE SftpPoolProofs ---------------------------
(***************************************************************************)
(* Proofs about SftpPool for any number of threads, transports and         *)
(* channels per transport: the accounting of _current_size, channel_count  *)
(* and in_flight, that no transport is leaked or closed under a user, that *)
(* a torn-down pool stays clean, that the pruner never misses an empty     *)
(* transport, and that no path that frees capacity forgets its signal.     *)
(***************************************************************************)
EXTENDS SftpPool, FiniteSetTheorems, TLAPS

(* The workers charged to _current_size for a transport that is not on the *)
(* ledger, and the transports that wait to be closed, by thread.           *)
Charged == Dialling \cup {"lost"}
Chargers == {u \in Workers : pc[u] \in Charged}
ToClose == {p \in Threads \X Transports : p[2] \in popped[p[1]]}

(* The workers whose channel is in flight. *)
Outstanding == {u \in Workers : pc[u] \in Counted \/ ret[u] = "wave"}

(* A closer closes the gate before it does anything else. *)
ClosedFirst ==
  /\ \A c \in Closers : pc[c] \in {"out", "teardown", "drop"} /\ (pc[c] # "out" => closed)
  /\ torn => closed

(* What a thread has in its hands, by where its code is. *)
HandsOk ==
  /\ \A t \in Threads : pc[t] \notin {"drop", "discarded"} => popped[t] = {}
  /\ \A u \in Workers : pc[u] \in Holding \cup {"register"} => carries[u] \in Transports
  /\ \A u \in Workers : pc[u] = "gone" => carries[u] \notin live

(* Where a pending return may be, and who is inside retry_until().         *)
Pending == {"gone", "lost", "discarded", "emptied", "drop", "watch", "pin", "signal"}
ReturnsOk ==
  \A u \in Workers :
    /\ ret[u] # "out" => pc[u] \in Pending
    /\ ret[u] = "wave" => pc[u] \in {"signal", "drop", "watch"}
    /\ ret[u] = "recheck" => u \in retrying
    /\ ret[u] = "anyactive" => pc[u] = "signal" /\ dialLock = u
    /\ ret[u] = "pin" => dialLock # u
    /\ pc[u] \in {"recheck", "parked"} => u \in retrying

(* A transport just dialled is known to its dialler alone. *)
FreshDials ==
  \A u \in Workers : pc[u] = "register" =>
    /\ carries[u] \notin reg
    /\ \A w \in Workers \ {u} : carries[w] # carries[u]
    /\ \A t \in Threads : carries[u] \notin popped[t]

(* A transport off the ledger still counts the channels that are in use.   *)
CountCovers == \A t \in Transports \ reg : count[t] >= Cardinality(Holders(t))

(* What a worker that waits unsignalled has seen missing on its way is     *)
(* missing still, or somebody is about to signal: no idle channel since    *)
(* the pop, no room on a transport since the choice under the dial lock,   *)
(* and no room for a transport, nor one being dialled, since the ceiling.  *)
WakeupsKept ==
  ~closed /\ Signalling = {} =>
    \A v \in retrying \ woken :
      /\ pc[v] \in {"reserve", "diallock", "check", "slot", "recheck", "parked"}
           => \A t \in Transports : idle[t] = 0
      /\ pc[v] \in {"check", "slot", "recheck", "parked"} => Usable \subseteq measured
      /\ pc[v] \in {"recheck", "parked"}
           => size >= MaxTransports /\ \A w \in Workers : pc[w] \notin Dialling

(* Whoever comes back from a failed dial has been told of its own signal.  *)
FailureTold ==
  ~closed => \A u \in Users : pc[u] = "anyactive" /\ u \in retrying => u \in woken

SftpInv ==
  /\ TypeOK /\ ClosedFirst /\ HandsOk /\ ReturnsOk /\ FreshDials /\ DialsInTurn
  /\ ChannelAccounting /\ CountCovers
  /\ SizeAccounting /\ IsFiniteSet(ToClose)
  /\ InFlightAccounting
  /\ ClosedUnderNobody /\ NoTransportLost
  /\ TornDownStaysClean /\ EmptiesAreWatched /\ WakeupsKept /\ FailureTold

-----------------------------------------------------------------------------
LEMMA Members ==
  /\ Workers \subseteq Threads /\ Closers \subseteq Threads /\ Pruner \in Threads
  /\ Users \subseteq Workers /\ Keepers \subseteq Workers
  /\ Pruner \notin Workers /\ Pruner \notin Closers /\ Workers \cap Closers = {}
  /\ NoThread \notin Workers /\ NoTransport \notin Transports
BY SftpAssumption DEF Threads, Workers

LEMMA LabelsAre ==
  /\ Labels = {"open", "track", "count", "validate", "have", "gone", "dial", "register", "pop",
               "reserve", "diallock", "check", "slot", "anyactive", "pin", "recheck", "parked",
               "top", "discarded", "emptied", "wave", "out", "lost", "drop", "watch", "signal",
               "teardown", "look", "wait", "retire"}
  /\ Returns \subseteq Labels
BY DEF Labels, Returns, Holding, Reserving, Seeking, Dialling, Counted

LEMMA WorkersFinite == IsFiniteSet(Workers) /\ IsFiniteSet(Transports)
BY SftpAssumption

LEMMA HoldersFinite ==
  ASSUME NEW t
  PROVE  IsFiniteSet(Holders(t)) /\ Cardinality(Holders(t)) \in Nat
<1>1. Holders(t) \subseteq Workers
  BY DEF Holders
<1> QED BY <1>1, WorkersFinite, FS_Subset, FS_CardinalityType

LEMMA OutstandingFinite == IsFiniteSet(Outstanding) /\ Cardinality(Outstanding) \in Nat
<1>1. Outstanding \subseteq Workers
  BY DEF Outstanding
<1> QED BY <1>1, WorkersFinite, FS_Subset, FS_CardinalityType

LEMMA ChargersFinite == IsFiniteSet(Chargers) /\ Cardinality(Chargers) \in Nat
<1>1. Chargers \subseteq Workers
  BY DEF Chargers
<1> QED BY <1>1, WorkersFinite, FS_Subset, FS_CardinalityType

LEMMA RegFinite == TypeOK => IsFiniteSet(reg) /\ Cardinality(reg) \in Nat
BY WorkersFinite, FS_Subset, FS_CardinalityType DEF TypeOK

LEMMA SizeIs ==
  SizeAccounting <=> /\ size = Cardinality(reg) + Cardinality(Chargers) + Cardinality(ToClose)
                     /\ size <= MaxTransports
BY DEF SizeAccounting, Chargers, Charged, ToClose

LEMMA InFlightIs == InFlightAccounting <=> inFlight = Cardinality(Outstanding)
BY DEF InFlightAccounting, Outstanding

(* Whoever is counted can be counted down. *)
LEMMA ChargerCounted ==
  ASSUME SftpInv, NEW u \in Workers, pc[u] \in Charged
  PROVE  size - 1 \in Nat
<1>1. u \in Chargers
  BY DEF Chargers
<1>2. Cardinality(Chargers) # 0
  BY <1>1, FS_EmptySet, ChargersFinite
<1>3. Cardinality(ToClose) \in Nat
  BY FS_CardinalityType DEF SftpInv
<1> QED BY <1>2, <1>3, ChargersFinite, RegFinite, SizeIs DEF SftpInv

LEMMA CloserCounted ==
  ASSUME SftpInv, NEW t \in Threads, NEW x \in popped[t]
  PROVE  size - 1 \in Nat /\ x \in Transports
<1>1. x \in Transports
  BY DEF SftpInv, TypeOK
<1>2. <<t, x>> \in ToClose
  BY <1>1 DEF ToClose
<1>3. Cardinality(ToClose) # 0 /\ Cardinality(ToClose) \in Nat
  BY <1>2, FS_EmptySet, FS_CardinalityType DEF SftpInv
<1> QED BY <1>1, <1>3, ChargersFinite, RegFinite, SizeIs DEF SftpInv

LEMMA OutstandingCounted ==
  ASSUME SftpInv, NEW u \in Workers, pc[u] \in Counted
  PROVE  inFlight - 1 \in Nat
<1>1. u \in Outstanding
  BY DEF Outstanding
<1>2. Cardinality(Outstanding) # 0
  BY <1>1, FS_EmptySet, OutstandingFinite
<1> QED BY <1>2, OutstandingFinite, InFlightIs DEF SftpInv

LEMMA HolderCounted ==
  ASSUME SftpInv, NEW u \in Workers, pc[u] \in Holding
  PROVE  /\ carries[u] \in Transports /\ u \in Holders(carries[u])
         /\ count[carries[u]] \in Nat /\ count[carries[u]] - 1 \in Nat
         /\ Cardinality(Holders(carries[u])) # 0
         /\ carries[u] \in reg => count[carries[u]] - 1 >= idle[carries[u]]
<1> DEFINE x == carries[u]
<1>1. x \in Transports /\ u \in Holders(x)
  BY DEF SftpInv, HandsOk, Holders
<1>2. Cardinality(Holders(x)) # 0 /\ Cardinality(Holders(x)) \in Nat
  BY <1>1, FS_EmptySet, HoldersFinite
<1>3. count[x] \in Nat /\ idle[x] \in Nat
  BY <1>1 DEF SftpInv, TypeOK
<1>4. \/ count[x] >= idle[x] + Cardinality(Holders(x))
      \/ x \notin reg /\ count[x] >= Cardinality(Holders(x))
  BY <1>1, <1>2, <1>3 DEF SftpInv, ChannelAccounting, CountCovers
<1> QED BY <1>1, <1>2, <1>3, <1>4

-----------------------------------------------------------------------------
(* Types. *)

LEMMA GrowTypes ==
  ASSUME SftpInv, NEW u \in Users, Grow(u)
  PROVE  TypeOK'
<1> USE Members, SftpAssumption
    DEF TypeOK, ledger, gate, down, Goto, Return, Carry, Pop, AddTo, Unlock, LeaveRetry
<1>0. TypeOK
  BY DEF SftpInv
<1>1. Missed(u) \in Labels /\ Missed(u) \in Returns
  BY LabelsAre DEF Missed, Returns
<1> USE <1>0, <1>1
<1>2. CASE PopEmpty(u) \/ CheckClosed(u) \/ CheckOpen(u)
  BY <1>2, LabelsAre DEF PopEmpty, CheckClosed, CheckOpen
<1>3. CASE Reserve(u)
  BY <1>3, LabelsAre DEF Reserve, ClaimOn, Eligible, Usable
<1>4. CASE RePick(u)
  BY <1>4, LabelsAre DEF RePick, ClaimOn, Eligible, Usable
<1>5. CASE AtCeiling(u) \/ ReserveSlot(u)
  BY <1>5, LabelsAre DEF AtCeiling, ReserveSlot
<1>6. CASE DialCancelled(u)
  BY <1>6, LabelsAre, ChargerCounted DEF DialCancelled, Charged, Dialling
<1>7. CASE DialOk(u)
  BY <1>7, LabelsAre DEF DialOk, Unused
<1>8. CASE DialOutlivesPool(u)
  BY <1>8, LabelsAre DEF DialOutlivesPool, Unused
<1>9. CASE DialFailed(u)
  BY <1>9, LabelsAre, ChargerCounted DEF DialFailed, Charged, Dialling, Returns
<1>10. CASE AnyActive(u)
  BY <1>10, LabelsAre DEF AnyActive
<1>11. CASE Register(u)
  <2>1. carries[u] \in Transports
    BY <1>11 DEF Register, SftpInv, HandsOk
  <2> QED BY <1>11, <2>1, LabelsAre DEF Register
<1>12. CASE OpenOk(u) \/ Track(u)
  BY <1>12, LabelsAre DEF OpenOk, Track
<1>13. ASSUME NEW back \in {"pin", "out"}, pc[u] = "open", Rollback(u, back)
       PROVE  TypeOK'
  <2>1. carries[u] \in Transports /\ count[carries[u]] - 1 \in Nat
    BY <1>13, HolderCounted DEF Holding, Reserving
  <2>2. cap' \in [Transports -> 1..ChannelsPerTransport]
    BY <1>13 DEF Rollback, Unregister
  <2>3. reg' \subseteq Transports /\ measured' \subseteq Transports
    BY <1>13 DEF Rollback, Unregister
  <2>4. popped' \in [Threads -> SUBSET Transports] /\ pc' \in [Threads -> Labels]
    BY <1>13, <2>1, LabelsAre DEF Rollback
  <2>5. count' \in [Transports -> Nat]
    BY <1>13, <2>1 DEF Rollback
  <2> QED BY <1>13, <2>2, <2>3, <2>4, <2>5 DEF Rollback, Returns
<1>14. CASE OpenRefused(u) \/ OpenFailed(u)
  BY <1>13, <1>14 DEF OpenRefused, OpenFailed
<1>15. CASE Pin(u)
  <2>1. carries[u] \in reg => count[carries[u]] \in Nat /\ count[carries[u]] <= ChannelsPerTransport
    BY DEF SftpInv, ChannelAccounting
  <2>2. cap' \in [Transports -> 1..ChannelsPerTransport]
    BY <1>15, <2>1 DEF Pin
  <2> QED BY <1>15, <2>2, LabelsAre DEF Pin, Returns
<1> QED BY <1>2, <1>3, <1>4, <1>5, <1>6, <1>7, <1>8, <1>9, <1>10, <1>11, <1>12,
           <1>14, <1>15 DEF Grow

LEMMA DropTypes ==
  ASSUME SftpInv, NEW t \in Threads, NEW next \in Labels, DropOne(t, next)
  PROVE  TypeOK'
<1>1. PICK x \in popped[t] : live' = live \ {x} /\ Pop(t, popped[t] \ {x})
  BY DEF DropOne
<1>2. size - 1 \in Nat
  BY CloserCounted
<1>3. popped' \in [Threads -> SUBSET Transports]
  BY <1>1 DEF Pop, SftpInv, TypeOK
<1>4. pc' \in [Threads -> Labels]
  BY LabelsAre DEF DropOne, Goto, SftpInv, TypeOK
<1> QED BY <1>1, <1>2, <1>3, <1>4
        DEF DropOne, SftpInv, TypeOK, ledger, gate, down

LEMMA OtherTypes ==
  ASSUME SftpInv, [Next]_vars, \A u \in Users : ~Grow(u)
  PROVE  TypeOK'
<1> USE Members, SftpAssumption
    DEF TypeOK, ledger, gate, down, Goto, Return, Carry, Pop, AddTo, Unlock, LeaveRetry
<1>0. TypeOK
  BY DEF SftpInv
<1> USE <1>0
<1>1. ASSUME NEW u \in Workers, TakeIdle(u)
      PROVE  TypeOK'
  BY <1>1, LabelsAre DEF TakeIdle
<1>2. ASSUME NEW u \in Users, Acquire(u) \/ Retry(u) \/ Wake(u)
      PROVE  TypeOK'
  BY <1>2, LabelsAre DEF Acquire, Wake, Retry, TopClosed, Top, GiveUp, EpochCheck
<1>3. ASSUME NEW u \in Workers, Sample(u) \/ ReleaseIdle(u)
      PROVE  TypeOK'
  <2>1. pc[u] \in Holding => carries[u] \in Transports
    BY <1>3, HolderCounted
  <2>2. CASE Sample(u)
    BY <2>1, <2>2 DEF Sample, Holding
  <2>3. CASE ReleaseIdle(u)
    BY <2>1, <2>3, LabelsAre DEF ReleaseIdle, Settles, Holding, Returns
  <2> QED BY <1>3, <2>2, <2>3
<1>4. ASSUME NEW u \in Workers, ReleasePopped(u)
      PROVE  TypeOK'
  <2>1. pc[u] = "have" /\ carries[u] \in Transports /\ count[carries[u]] - 1 \in Nat
    BY <1>4, HolderCounted DEF ReleasePopped, Holding
  <2>2. reg' \subseteq Transports /\ measured' \subseteq Transports
    BY <1>4 DEF ReleasePopped, Unregister
  <2>3. cap' \in [Transports -> 1..ChannelsPerTransport]
    BY <1>4 DEF ReleasePopped, Unregister
  <2>4. popped' \in [Threads -> SUBSET Transports]
    BY <1>4, <2>1 DEF ReleasePopped
  <2>5. pc' \in [Threads -> Labels]
    BY <1>4, LabelsAre DEF ReleasePopped
  <2>6. count' \in [Transports -> Nat]
    BY <1>4, <2>1 DEF ReleasePopped
  <2> QED BY <1>4, <2>2, <2>3, <2>4, <2>5, <2>6 DEF ReleasePopped, Settles, Returns
<1>5. ASSUME NEW u \in Workers, Discard(u)
      PROVE  TypeOK'
  <2>1. carries[u] \in Transports /\ count[carries[u]] - 1 \in Nat
    BY <1>5, HolderCounted DEF Discard, Breaks, Holding
  <2>2. reg' \subseteq Transports /\ measured' \subseteq Transports
    BY <1>5 DEF Discard, Unregister
  <2>3. cap' \in [Transports -> 1..ChannelsPerTransport]
    BY <1>5 DEF Discard, Unregister
  <2>4. popped' \in [Threads -> SUBSET Transports]
    BY <1>5, <2>1 DEF Discard
  <2>5. pc' \in [Threads -> Labels]
    BY <1>5, LabelsAre DEF Discard
  <2>6. count' \in [Transports -> Nat]
    BY <1>5, <2>1 DEF Discard
  <2> QED BY <1>5, <2>2, <2>3, <2>4, <2>5, <2>6 DEF Discard, Breaks, Returns
<1>6. ASSUME NEW u \in Workers, BreakDead(u)
      PROVE  TypeOK'
  BY <1>6, LabelsAre, OutstandingCounted DEF BreakDead, Breaks, Counted, Returns
<1>7. ASSUME NEW u \in Workers, DropDead(u)
      PROVE  TypeOK'
  <2>1. cap' \in [Transports -> 1..ChannelsPerTransport]
    BY <1>7 DEF DropDead, Unregister
  <2> QED BY <1>7, <2>1, LabelsAre DEF DropDead, Unregister
<1>8. ASSUME NEW u \in Workers, CountIdle(u) \/ ValidateOk(u) \/ Watch(u)
      PROVE  TypeOK'
  BY <1>8, LabelsAre DEF CountIdle, ValidateOk, Watch
<1>9. ASSUME NEW u \in Workers, Discarded(u) \/ EndWave(u)
      PROVE  TypeOK'
  <2>1. inFlight - 1 \in Nat
    BY <1>9, OutstandingCounted DEF Discarded, EndWave, Counted
  <2> QED BY <1>9, <2>1, LabelsAre DEF Discarded, EndWave
<1>10. ASSUME NEW u \in Workers, CountLost(u)
       PROVE  TypeOK'
  BY <1>10, ChargerCounted, LabelsAre DEF CountLost, Charged
<1>11. ASSUME NEW u \in Workers, Signal(u)
       PROVE  TypeOK'
  BY <1>11, LabelsAre DEF Signal, Returns
<1>12. ASSUME NEW u \in Workers, WorkerDrops(u)
       PROVE  TypeOK'
  BY <1>12, DropTypes, LabelsAre DEF WorkerDrops
<1>13. ASSUME NEW c \in Closers, Close(c)
       PROVE  TypeOK'
  BY <1>13, LabelsAre DEF Close
<1>14. ASSUME NEW c \in Closers, Teardown(c)
       PROVE  TypeOK'
  <2>1. \A t \in Transports : count[t] - idle[t] \in Nat
    <3> SUFFICES ASSUME NEW t \in Transports PROVE count[t] - idle[t] \in Nat
      OBVIOUS
    <3>1. count[t] >= idle[t]
      BY HoldersFinite DEF SftpInv, ChannelAccounting
    <3> QED BY <3>1
  <2>2. cap' \in [Transports -> 1..ChannelsPerTransport]
    BY <1>14 DEF Teardown, Unregister
  <2>3. popped' \in [Threads -> SUBSET Transports]
    BY <1>14 DEF Teardown
  <2>4. pc' \in [Threads -> Labels]
    BY <1>14, LabelsAre DEF Teardown
  <2> QED BY <1>14, <2>1, <2>2, <2>3, <2>4 DEF Teardown, Unregister
<1>15. ASSUME NEW c \in Closers, CloserDrops(c)
       PROVE  TypeOK'
  BY <1>15, DropTypes, LabelsAre DEF CloserDrops
<1>16. CASE Prune
  <2>1. CASE Look \/ PrunerShutDown \/ PrunerSignals \/ Retire
    BY <2>1, LabelsAre DEF Look, PrunerShutDown, PrunerSignals, Retire
  <2>2. CASE Expire
    <3>1. PICK expired \in SUBSET Empties :
            /\ Unregister(expired) /\ Pop(Pruner, expired)
            /\ Goto(Pruner, IF expired = {} THEN "look" ELSE "drop")
      BY <2>2 DEF Expire
    <3>2. cap' \in [Transports -> 1..ChannelsPerTransport]
      BY <3>1 DEF Unregister
    <3>3. popped' \in [Threads -> SUBSET Transports]
      BY <3>1 DEF Empties
    <3> QED BY <2>2, <3>1, <3>2, <3>3, LabelsAre DEF Expire, Unregister
  <2>3. CASE PrunerDrops
    BY <2>3, DropTypes, LabelsAre DEF PrunerDrops, AfterPrune
  <2> QED BY <1>16, <2>1, <2>2, <2>3 DEF Prune
<1>17. CASE RequestShutdown \/ (\E t \in Transports : Die(t)) \/ UNCHANGED vars
  BY <1>17 DEF RequestShutdown, Die, vars
<1> QED BY <1>1, <1>2, <1>3, <1>4, <1>5, <1>6, <1>7, <1>8, <1>9, <1>10, <1>11, <1>12,
           <1>13, <1>14, <1>15, <1>16, <1>17
        DEF Next, PopIdle, KeeperPops, GiveBack, Break, Proceed

-----------------------------------------------------------------------------
(* What the control state says of the rest. *)

Control == ClosedFirst /\ HandsOk /\ ReturnsOk /\ FreshDials /\ DialsInTurn

LEMMA GrowControl ==
  ASSUME SftpInv, NEW u \in Users, Grow(u)
  PROVE  Control'
<1> USE Members, SftpAssumption
    DEF ledger, gate, down, Goto, Return, Carry, Pop, AddTo, Unlock, LeaveRetry, Missed,
        Control, ClosedFirst, HandsOk, ReturnsOk, FreshDials, DialsInTurn,
        Holding, Reserving, Dialling, Pending
<1>0. TypeOK /\ Control
  BY DEF SftpInv
<1> USE <1>0 DEF TypeOK
<1>1. CASE PopEmpty(u)
  BY <1>1 DEF PopEmpty
<1>2. CASE Reserve(u)
  BY <1>2 DEF Reserve, ClaimOn, Eligible, Usable
<1>3. CASE RePick(u)
  BY <1>3 DEF RePick, ClaimOn, Eligible, Usable
<1>4. CASE CheckClosed(u)
  BY <1>4 DEF CheckClosed
<1>5. CASE CheckOpen(u)
  BY <1>5 DEF CheckOpen
<1>6. CASE AtCeiling(u)
  BY <1>6 DEF AtCeiling
<1>7. CASE ReserveSlot(u)
  BY <1>7 DEF ReserveSlot
<1>8. CASE DialCancelled(u)
  BY <1>8 DEF DialCancelled
<1>9. CASE DialOk(u)
  BY <1>9 DEF DialOk, Unused
<1>10. CASE DialOutlivesPool(u)
  BY <1>10 DEF DialOutlivesPool, Unused
<1>11. CASE DialFailed(u)
  BY <1>11 DEF DialFailed
<1>12. CASE AnyActive(u)
  BY <1>12 DEF AnyActive
<1>13. CASE Register(u)
  BY <1>13 DEF Register
<1>14. CASE OpenOk(u)
  BY <1>14 DEF OpenOk
<1>15. CASE OpenRefused(u)
  BY <1>15 DEF OpenRefused, Rollback, Unregister
<1>16. CASE OpenFailed(u)
  BY <1>16 DEF OpenFailed, Rollback, Unregister
<1>17. CASE Track(u)
  BY <1>17 DEF Track
<1>18. CASE Pin(u)
  BY <1>18 DEF Pin
<1> QED BY <1>1, <1>2, <1>3, <1>4, <1>5, <1>6, <1>7, <1>8, <1>9, <1>10, <1>11,
           <1>12, <1>13, <1>14, <1>15, <1>16, <1>17, <1>18 DEF Grow

LEMMA OtherControl ==
  ASSUME SftpInv, [Next]_vars, \A u \in Users : ~Grow(u)
  PROVE  Control'
<1> USE Members, SftpAssumption
    DEF ledger, gate, down, Goto, Return, Carry, Pop, AddTo, Unlock, LeaveRetry, Missed,
        Control, ClosedFirst, HandsOk, ReturnsOk, FreshDials, DialsInTurn,
        Holding, Reserving, Dialling, Pending
<1>0. TypeOK /\ Control
  BY DEF SftpInv
<1> USE <1>0 DEF TypeOK
<1>1. ASSUME NEW u \in Workers, TakeIdle(u), pc[u] \in {"pop", "out"}
      PROVE  Control'
  <2>1. PICK t \in Transports : idle[t] > 0 /\ Carry(u, t)
    BY <1>1 DEF TakeIdle
  <2>2. t \in reg
    BY <2>1 DEF SftpInv, ChannelAccounting
  <2> QED BY <1>1, <2>1, <2>2 DEF TakeIdle
<1>2. ASSUME NEW u \in Users, Acquire(u) \/ Retry(u) \/ Wake(u)
      PROVE  Control'
  BY <1>2 DEF Acquire, Wake, Retry, TopClosed, Top, GiveUp, EpochCheck
<1>3. ASSUME NEW u \in Workers, Sample(u)
      PROVE  Control'
  BY <1>3 DEF Sample
<1>4. ASSUME NEW u \in Workers, ReleaseIdle(u)
      PROVE  Control'
  BY <1>4 DEF ReleaseIdle, Settles
<1>5. ASSUME NEW u \in Workers, ReleasePopped(u)
      PROVE  Control'
  BY <1>5 DEF ReleasePopped, Settles, Unregister
<1>6. ASSUME NEW u \in Workers, Discard(u)
      PROVE  Control'
  BY <1>6 DEF Discard, Breaks, Unregister
<1>7. ASSUME NEW u \in Workers, BreakDead(u)
      PROVE  Control'
  BY <1>7 DEF BreakDead, Breaks
<1>8. ASSUME NEW u \in Workers, DropDead(u)
      PROVE  Control'
  BY <1>8 DEF DropDead, Unregister
<1>9. ASSUME NEW u \in Workers, CountIdle(u) \/ ValidateOk(u)
      PROVE  Control'
  BY <1>9 DEF CountIdle, ValidateOk
<1>10. ASSUME NEW u \in Workers, Watch(u)
      PROVE  Control'
  BY <1>10 DEF Watch
<1>11. ASSUME NEW u \in Workers, Discarded(u)
      PROVE  Control'
  BY <1>11 DEF Discarded
<1>12. ASSUME NEW u \in Workers, EndWave(u) \/ CountLost(u)
      PROVE  Control'
  BY <1>12 DEF EndWave, CountLost
<1>13. ASSUME NEW u \in Workers, Signal(u)
      PROVE  Control'
  <2>1. DialsInTurn'
    <3>1. ret[u] \notin {"check", "slot"} \cup Dialling
      BY DEF Returns
    <3>2. pc' = [pc EXCEPT ![u] = ret[u]] /\ pc[u] = "signal" /\ pc[u] \notin Dialling
      BY <1>13 DEF Signal
    <3>3. CASE ret[u] = "anyactive"
      BY <1>13, <3>2, <3>3 DEF Signal
    <3>4. CASE ret[u] # "anyactive"
      <4>1. dialLock' = IF dialLock = u THEN NoThread ELSE dialLock
        BY <1>13, <3>4 DEF Signal
      <4>2. \A w \in Workers : pc'[w] \in {"check", "slot", "anyactive"} \cup Dialling
                               => w # u /\ dialLock' = w
        BY <3>1, <3>2, <3>4, <4>1
      <4>3. dialLock' # NoThread => dialLock' # u /\ pc'[dialLock'] = pc[dialLock]
        BY <3>2, <4>1
      <4> QED BY <4>1, <4>2, <4>3
    <3> QED BY <3>3, <3>4
  <2>2. ClosedFirst' /\ HandsOk' /\ ReturnsOk' /\ FreshDials'
    BY <1>13 DEF Signal, Returns
  <2> QED BY <2>1, <2>2
<1>14. ASSUME NEW u \in Workers, WorkerDrops(u)
      PROVE  Control'
  <2>1. /\ UNCHANGED <<dialLock, gate, down, carries, ret, ledger>>
        /\ pc[u] = "drop" /\ popped'[u] \subseteq popped[u] /\ live' \subseteq live
        /\ popped' = [popped EXCEPT ![u] = popped'[u]]
    <3>1. PICK x \in popped[u] : live' = live \ {x} /\ Pop(u, popped[u] \ {x})
      BY <1>14 DEF WorkerDrops, DropOne
    <3>2. popped'[u] = popped[u] \ {x}
      BY <3>1
    <3>3. pc[u] = "drop" /\ UNCHANGED <<dialLock, gate, down, carries, ret, ledger>>
      BY <1>14 DEF WorkerDrops, DropOne
    <3> QED BY <3>1, <3>2, <3>3
  <2>2. PICK next \in {"drop", "pin", "signal"} :
          /\ pc' = [pc EXCEPT ![u] = next]
          /\ next = "pin" => ret[u] = "pin"
          /\ next # "drop" => popped'[u] = {}
    <3>1. Goto(u, IF popped'[u] = {} THEN IF ret[u] = "pin" THEN "pin" ELSE "signal" ELSE "drop")
      BY <1>14 DEF WorkerDrops, DropOne
    <3> QED BY <3>1
  <2>3. DialsInTurn'
    BY <2>1, <2>2
  <2>4. ClosedFirst' /\ HandsOk'
    BY <2>1, <2>2
  <2>5. ReturnsOk'
    BY <2>1, <2>2
  <2>6. FreshDials'
    BY <2>1, <2>2
  <2> QED BY <2>3, <2>4, <2>5, <2>6
<1>15. ASSUME NEW c \in Closers, Close(c)
      PROVE  Control'
  BY <1>15 DEF Close
<1>16. ASSUME NEW c \in Closers, Teardown(c)
      PROVE  Control'
  BY <1>16 DEF Teardown, Unregister
<1>17. ASSUME NEW c \in Closers, CloserDrops(c)
      PROVE  Control'
  BY <1>17 DEF CloserDrops, DropOne
<1>18. CASE Look \/ PrunerShutDown \/ PrunerSignals \/ Retire
  BY <1>18 DEF Look, PrunerShutDown, PrunerSignals, Retire
<1>19. CASE Expire
  BY <1>19 DEF Expire, Unregister, Empties
<1>20. CASE PrunerDrops
  BY <1>20 DEF PrunerDrops, DropOne, AfterPrune
<1>21. CASE RequestShutdown \/ (\E t \in Transports : Die(t))
  BY <1>21 DEF RequestShutdown, Die
<1>22. CASE UNCHANGED vars
  BY <1>22 DEF vars
<1> QED BY <1>1, <1>2, <1>3, <1>4, <1>5, <1>6, <1>7, <1>8, <1>9, <1>10, <1>11,
           <1>12, <1>13, <1>14, <1>15, <1>16, <1>17, <1>18, <1>19, <1>20, <1>21, <1>22
        DEF Next, PopIdle, KeeperPops, GiveBack, Break, Proceed, Prune

-----------------------------------------------------------------------------
(* The accounting of the channels. *)

Channels == ChannelAccounting /\ CountCovers

(* One worker moves or changes what it carries. *)
Alone(u) ==
  \A w \in Workers \ {u} : pc'[w] = pc[w] /\ carries'[w] = carries[w]

LEMMA HoldersMove ==
  ASSUME NEW u \in Workers, Alone(u), NEW t
  PROVE  /\ (u \in Holders(t) <=> u \in Holders(t)') => Holders(t)' = Holders(t)
         /\ u \notin Holders(t) /\ u \in Holders(t)'
              => Cardinality(Holders(t)') = Cardinality(Holders(t)) + 1
         /\ u \in Holders(t) /\ u \notin Holders(t)'
              => Cardinality(Holders(t)') = Cardinality(Holders(t)) - 1
<1>1. \A w \in Workers \ {u} : w \in Holders(t) <=> w \in Holders(t)'
  BY DEF Alone, Holders
<1>2. Holders(t) \subseteq Workers /\ Holders(t)' \subseteq Workers
  BY DEF Holders
<1>3. CASE u \in Holders(t) <=> u \in Holders(t)'
  BY <1>1, <1>2, <1>3
<1>4. CASE u \notin Holders(t) /\ u \in Holders(t)'
  <2>1. Holders(t)' = Holders(t) \cup {u}
    BY <1>1, <1>2, <1>4
  <2> QED BY <1>4, <2>1, HoldersFinite, FS_AddElement
<1>5. CASE u \in Holders(t) /\ u \notin Holders(t)'
  <2>1. Holders(t)' = Holders(t) \ {u}
    BY <1>1, <1>2, <1>5
  <2> QED BY <1>5, <2>1, HoldersFinite, FS_RemoveElement
<1> QED BY <1>3, <1>4, <1>5

(* The books of one transport, in the terms of its holders' number. *)
Balanced(t, n, in, c, i, k) ==
  /\ in => c = i + n /\ c <= k
  /\ ~in => i = 0 /\ c >= n

LEMMA ChannelsAre ==
  /\ Channels <=> \A t \in Transports :
       Balanced(t, Cardinality(Holders(t)), t \in reg, count[t], idle[t], cap[t])
  /\ Channels' <=> \A t \in Transports :
       Balanced(t, Cardinality(Holders(t)'), t \in reg', count'[t], idle'[t], cap'[t])
BY DEF Channels, ChannelAccounting, CountCovers, Balanced

LEMMA ChannelTypes ==
  ASSUME SftpInv, NEW t \in Transports
  PROVE  /\ count[t] \in Nat /\ idle[t] \in Nat /\ cap[t] \in Nat /\ Cardinality(Holders(t)) \in Nat
         /\ Balanced(t, Cardinality(Holders(t)), t \in reg, count[t], idle[t], cap[t])
         /\ cap[t] >= 1 /\ cap[t] <= ChannelsPerTransport
<1>1. Channels
  BY DEF SftpInv, Channels
<1> QED BY <1>1, ChannelsAre, HoldersFinite, SftpAssumption DEF SftpInv, TypeOK

(* Nobody's claim on a channel changes. *)
LEMMA ChannelsKept ==
  ASSUME SftpInv, UNCHANGED <<reg, count, cap, idle>>,
         \A w \in Workers : /\ pc[w] \in Holding <=> pc'[w] \in Holding
                            /\ pc[w] \in Holding => carries'[w] = carries[w]
  PROVE  Channels'
<1>1. \A t : Holders(t)' = Holders(t)
  BY DEF Holders
<1>2. Channels
  BY DEF SftpInv, Channels
<1> QED BY <1>1, <1>2 DEF Channels, ChannelAccounting, CountCovers

(* A worker takes one more channel of a registered transport. *)
LEMMA ChannelClaimed ==
  ASSUME SftpInv, NEW u \in Workers, Alone(u), NEW x \in reg,
         pc[u] \notin Holding, pc'[u] \in Holding, carries'[u] = x,
         count[x] < cap[x], count' = AddTo(count, x, 1), UNCHANGED <<reg, cap, idle>>
  PROVE  Channels'
<1>1. \A t \in Transports : u \notin Holders(t) /\ (u \in Holders(t)' <=> t = x)
  BY DEF Holders
<1> SUFFICES ASSUME NEW t \in Transports
             PROVE  Balanced(t, Cardinality(Holders(t)'), t \in reg', count'[t], idle'[t], cap'[t])
  BY ChannelsAre
<1>2. count'[t] = IF t = x THEN count[t] + 1 ELSE count[t]
  BY DEF AddTo, SftpInv, TypeOK
<1>3. Cardinality(Holders(t)')
        = IF t = x THEN Cardinality(Holders(t)) + 1 ELSE Cardinality(Holders(t))
  BY <1>1, HoldersMove
<1> QED BY <1>2, <1>3, ChannelTypes DEF Balanced

(* A worker takes an idle channel. *)
LEMMA ChannelTaken ==
  ASSUME SftpInv, NEW u \in Workers, Alone(u), NEW x \in Transports,
         pc[u] \notin Holding, pc'[u] \in Holding, carries'[u] = x,
         idle[x] > 0, idle' = AddTo(idle, x, -1), UNCHANGED <<reg, cap, count>>
  PROVE  Channels'
<1>1. \A t \in Transports : u \notin Holders(t) /\ (u \in Holders(t)' <=> t = x)
  BY DEF Holders
<1> SUFFICES ASSUME NEW t \in Transports
             PROVE  Balanced(t, Cardinality(Holders(t)'), t \in reg', count'[t], idle'[t], cap'[t])
  BY ChannelsAre
<1>2. idle'[t] = IF t = x THEN idle[t] - 1 ELSE idle[t]
  BY DEF AddTo, SftpInv, TypeOK
<1>3. Cardinality(Holders(t)')
        = IF t = x THEN Cardinality(Holders(t)) + 1 ELSE Cardinality(Holders(t))
  BY <1>1, HoldersMove
<1> QED BY <1>2, <1>3, ChannelTypes DEF Balanced

(* How the number of holders changes when a worker gives its claim up.     *)
LEMMA HolderLeaves ==
  ASSUME SftpInv, NEW u \in Workers, Alone(u), pc[u] \in Holding, pc'[u] \notin Holding,
         NEW t \in Transports
  PROVE  Cardinality(Holders(t)') = IF t = carries[u] THEN Cardinality(Holders(t)) - 1
                                                     ELSE Cardinality(Holders(t))
<1>1. (u \in Holders(t) <=> t = carries[u]) /\ u \notin Holders(t)'
  BY DEF Holders
<1> QED BY <1>1, HoldersMove

(* A slot is given up and the count follows; the transport it leaves empty *)
(* may go off the ledger.                                                  *)
LEMMA ChannelFreed ==
  ASSUME SftpInv, NEW u \in Workers, Alone(u), pc[u] \in Holding, pc'[u] \notin Holding,
         count' = AddTo(count, carries[u], -1), idle' = idle,
         \/ UNCHANGED <<reg, cap>>
         \/ Unregister({carries[u]}) /\ count'[carries[u]] = 0 /\ carries[u] \in reg
  PROVE  Channels'
<1> SUFFICES ASSUME NEW t \in Transports
             PROVE  Balanced(t, Cardinality(Holders(t)'), t \in reg', count'[t], idle'[t], cap'[t])
  BY ChannelsAre
<1>1. count'[t] = IF t = carries[u] THEN count[t] - 1 ELSE count[t]
  BY DEF AddTo, SftpInv, TypeOK
<1>2. Cardinality(Holders(t)') = IF t = carries[u] THEN Cardinality(Holders(t)) - 1
                                                  ELSE Cardinality(Holders(t))
  BY HolderLeaves
<1>3. count[carries[u]] - 1 \in Nat /\ Cardinality(Holders(carries[u])) # 0
  BY HolderCounted
<1>4. CASE UNCHANGED <<reg, cap>>
  BY <1>1, <1>2, <1>3, <1>4, ChannelTypes DEF Balanced
<1>5. CASE Unregister({carries[u]}) /\ count'[carries[u]] = 0 /\ carries[u] \in reg
  <2>1. (t \in reg' <=> t \in reg /\ t # carries[u]) /\ (t # carries[u] => cap'[t] = cap[t])
    BY <1>5 DEF Unregister
  <2>2. count[carries[u]] - 1 >= idle[carries[u]]
    BY <1>5, HolderCounted
  <2> QED BY <1>1, <1>2, <1>3, <1>5, <2>1, <2>2, ChannelTypes DEF Balanced
<1> QED BY <1>4, <1>5

LEMMA ChannelReturned ==
  ASSUME SftpInv, NEW u \in Workers, ReleaseIdle(u)
  PROVE  Channels'
<1> USE DEF ReleaseIdle, Settles, Goto, Carry, KeepsOut
<1>0. /\ Alone(u) /\ pc[u] \in Holding /\ pc'[u] \notin Holding
      /\ carries[u] \in reg
  BY Members DEF Alone, SftpInv, TypeOK, Holding, Reserving
<1> SUFFICES ASSUME NEW t \in Transports
             PROVE  Balanced(t, Cardinality(Holders(t)'), t \in reg', count'[t], idle'[t], cap'[t])
  BY ChannelsAre
<1>1. idle'[t] = IF t = carries[u] THEN idle[t] + 1 ELSE idle[t]
  BY DEF AddTo, SftpInv, TypeOK
<1>2. Cardinality(Holders(t)') = IF t = carries[u] THEN Cardinality(Holders(t)) - 1
                                                  ELSE Cardinality(Holders(t))
  BY <1>0, HolderLeaves
<1> QED BY <1>0, <1>1, <1>2, ChannelTypes DEF Balanced

LEMMA ChannelsDropped ==
  ASSUME SftpInv, NEW u \in Workers, DropDead(u)
  PROVE  Channels'
<1> USE DEF DropDead, Goto, Carry
<1>0. Alone(u) /\ pc[u] \in Holding /\ pc'[u] \notin Holding
  BY Members DEF Alone, SftpInv, TypeOK, Holding, Reserving
<1> SUFFICES ASSUME NEW t \in Transports
             PROVE  Balanced(t, Cardinality(Holders(t)'), t \in reg', count'[t], idle'[t], cap'[t])
  BY ChannelsAre
<1>1. /\ idle'[t] = IF t = carries[u] THEN 0 ELSE idle[t]
      /\ t \in reg' <=> t \in reg /\ t # carries[u]
      /\ t # carries[u] => cap'[t] = cap[t]
      /\ count'[t] = count[t]
  BY DEF SftpInv, TypeOK, Unregister
<1>2. Cardinality(Holders(t)') = IF t = carries[u] THEN Cardinality(Holders(t)) - 1
                                                  ELSE Cardinality(Holders(t))
  BY <1>0, HolderLeaves
<1> QED BY <1>1, <1>2, ChannelTypes DEF Balanced

LEMMA ChannelRegistered ==
  ASSUME SftpInv, NEW u \in Users, Register(u)
  PROVE  Channels'
<1> USE DEF Register, Goto
<1>0. u \in Workers /\ Alone(u)
  BY Members DEF Alone, SftpInv, TypeOK
<1>1. /\ carries[u] \in Transports \ reg
      /\ \A w \in Workers \ {u} : carries[w] # carries[u]
      /\ u \notin Holders(carries[u])
  BY <1>0 DEF SftpInv, HandsOk, FreshDials, Holders, Holding, Reserving
<1>2. Holders(carries[u]) = {}
  BY <1>1 DEF Holders
<1>3. pc[u] \notin Holding /\ pc'[u] \in Holding
  BY <1>0, Members DEF SftpInv, TypeOK, Holding, Reserving
<1> SUFFICES ASSUME NEW t \in Transports
             PROVE  Balanced(t, Cardinality(Holders(t)'), t \in reg', count'[t], idle'[t], cap'[t])
  BY ChannelsAre
<1>4. /\ count'[t] = IF t = carries[u] THEN 1 ELSE count[t]
      /\ t \in reg' <=> t \in reg \/ t = carries[u]
  BY DEF SftpInv, TypeOK
<1>5. Cardinality(Holders(t)') = IF t = carries[u] THEN 1 ELSE Cardinality(Holders(t))
  <2>1. u \notin Holders(t) /\ (u \in Holders(t)' <=> t = carries[u])
    BY <1>0, <1>3 DEF Holders
  <2>2. CASE t = carries[u]
    <3>1. Cardinality(Holders(t)) = 0
      BY <1>2, <2>2, FS_EmptySet
    <3> QED BY <1>0, <2>1, <2>2, <3>1, HoldersMove
  <2>3. CASE t # carries[u]
    BY <1>0, <2>1, <2>3, HoldersMove
  <2> QED BY <2>2, <2>3
<1> QED BY <1>1, <1>4, <1>5, ChannelTypes DEF Balanced

(* Transports nobody has a channel of go off the ledger with their idle    *)
(* channels, if there are any.                                             *)
LEMMA ChannelsSwept ==
  ASSUME SftpInv, NEW ts \in SUBSET {t \in reg : count[t] = idle[t]}, Unregister(ts),
         \/ count' = count /\ idle' = idle /\ \A t \in ts : idle[t] = 0
         \/ /\ count' = [t \in Transports |-> count[t] - idle[t]]
            /\ idle' = [t \in Transports |-> 0],
         carries' = carries, \A w \in Workers : pc'[w] = pc[w]
  PROVE  Channels'
<1>1. \A t : Holders(t)' = Holders(t)
  BY DEF Holders
<1> SUFFICES ASSUME NEW t \in Transports
             PROVE  Balanced(t, Cardinality(Holders(t)'), t \in reg', count'[t], idle'[t], cap'[t])
  BY ChannelsAre
<1>2. (t \in reg' <=> t \in reg /\ t \notin ts) /\ (t \notin ts => cap'[t] = cap[t])
  BY DEF Unregister
<1>3. \/ count'[t] = count[t] /\ idle'[t] = idle[t] /\ (t \in ts => idle[t] = 0)
      \/ count'[t] = count[t] - idle[t] /\ idle'[t] = 0
  OBVIOUS
<1>4. Balanced(t, Cardinality(Holders(t)), t \in reg, count[t], idle[t], cap[t])
  BY ChannelTypes
<1>5. t \in ts => t \in reg /\ count[t] = idle[t]
  OBVIOUS
<1>6. /\ count[t] \in Nat /\ idle[t] \in Nat /\ cap[t] \in Nat
      /\ Cardinality(Holders(t)) \in Nat
      /\ Cardinality(Holders(t)') = Cardinality(Holders(t))
  BY <1>1, ChannelTypes
<1>7. CASE t \in ts
  BY <1>2, <1>3, <1>4, <1>5, <1>6, <1>7 DEF Balanced
<1>8. CASE t \notin ts
  BY <1>2, <1>3, <1>4, <1>6, <1>8 DEF Balanced
<1> QED BY <1>7, <1>8

(* Nobody has a channel of an empty or an all idle transport, and the last *)
(* holder of one without idle channels leaves it to nobody.                *)
LEMMA AllIdleIsUnheld ==
  ASSUME SftpInv, NEW t \in reg, count[t] = idle[t] \/ count[t] = 0
  PROVE  Holders(t) = {} /\ (count[t] = 0 => idle[t] = 0)
<1>1. t \in Transports
  BY DEF SftpInv, TypeOK
<1>2. Cardinality(Holders(t)) = 0 /\ (count[t] = 0 => idle[t] = 0)
  BY <1>1, ChannelTypes DEF Balanced
<1> QED BY <1>2, HoldersFinite, FS_EmptySet

LEMMA LastHolder ==
  ASSUME SftpInv, NEW u \in Workers, pc[u] \in Holding, carries[u] \in reg,
         count[carries[u]] - 1 = 0
  PROVE  Holders(carries[u]) = {u} /\ idle[carries[u]] = 0
<1> DEFINE x == carries[u]
<1>1. x \in Transports /\ u \in Holders(x) /\ Cardinality(Holders(x)) # 0
  BY HolderCounted
<1>2. Cardinality(Holders(x)) = 1 /\ idle[x] = 0
  BY <1>1, ChannelTypes DEF Balanced
<1>3. PICK y : Holders(x) = {y}
  BY <1>2, HoldersFinite, FS_Singleton
<1> QED BY <1>1, <1>2, <1>3

LEMMA GrowChannels ==
  ASSUME SftpInv, NEW u \in Users, Grow(u)
  PROVE  Channels'
<1> USE Members DEF ledger, gate, down, Goto, Return, Carry, Holding, Reserving, Missed
<1>0. TypeOK
  BY DEF SftpInv
<1> USE <1>0 DEF TypeOK
<1>1. CASE PopEmpty(u) \/ CheckClosed(u) \/ CheckOpen(u) \/ AtCeiling(u) \/ ReserveSlot(u)
  BY <1>1, ChannelsKept DEF PopEmpty, CheckClosed, CheckOpen, AtCeiling, ReserveSlot
<1>2. CASE DialCancelled(u) \/ DialOk(u) \/ DialOutlivesPool(u) \/ DialFailed(u) \/ AnyActive(u)
  BY <1>2, ChannelsKept DEF DialCancelled, DialOk, DialOutlivesPool, DialFailed, AnyActive
<1>3. CASE OpenOk(u) \/ Track(u)
  BY <1>3, ChannelsKept DEF OpenOk, Track
<1>4. ASSUME NEW t \in Transports, Eligible(t), ClaimOn(u, t),
             pc[u] \in {"reserve", "diallock"}
      PROVE  Channels'
  <2>1. Alone(u) /\ t \in reg /\ count[t] < cap[t]
    BY <1>4 DEF ClaimOn, Eligible, Usable, Alone
  <2> QED BY <1>4, <2>1, ChannelClaimed DEF ClaimOn
<1>5. CASE Reserve(u)
  BY <1>5, <1>4, ChannelsKept DEF Reserve
<1>6. CASE RePick(u)
  BY <1>6, <1>4, ChannelsKept DEF RePick
<1>7. CASE Register(u)
  BY <1>7, ChannelRegistered DEF Register
<1>8. ASSUME NEW back \in {"pin", "out"}, pc[u] = "open", Rollback(u, back)
      PROVE  Channels'
  <2>1. Alone(u) /\ pc'[u] \notin Holding
    BY <1>8 DEF Rollback, Alone
  <2>2. \/ UNCHANGED <<reg, cap>>
        \/ Unregister({carries[u]}) /\ count'[carries[u]] = 0 /\ carries[u] \in reg
    BY <1>8 DEF Rollback, Abandons
  <2> QED BY <1>8, <2>1, <2>2, ChannelFreed DEF Rollback
<1>9. CASE OpenRefused(u) \/ OpenFailed(u)
  BY <1>9, <1>8 DEF OpenRefused, OpenFailed
<1>10. CASE Pin(u)
  <2>1. \A t : Holders(t)' = Holders(t)
    BY <1>10 DEF Pin, Holders
  <2>2. \A t \in reg : cap'[t] = IF t = carries[u] /\ count[t] > 0 THEN count[t] ELSE cap[t]
    BY <1>10 DEF Pin
  <2>3. Channels /\ UNCHANGED <<reg, count, idle>>
    BY <1>10 DEF Pin, SftpInv, Channels
  <2> QED BY <2>1, <2>2, <2>3 DEF Channels, ChannelAccounting, CountCovers
<1> QED BY <1>1, <1>2, <1>3, <1>4, <1>5, <1>6, <1>7, <1>8, <1>9, <1>10
        DEF Grow

LEMMA OtherChannels ==
  ASSUME SftpInv, [Next]_vars, \A u \in Users : ~Grow(u)
  PROVE  Channels'
<1> USE Members DEF ledger, gate, down, Goto, Return, Carry, Holding, Reserving
<1>0. TypeOK
  BY DEF SftpInv
<1> USE <1>0 DEF TypeOK
<1>1. ASSUME NEW u \in Workers, TakeIdle(u), pc[u] \in {"pop", "out"}
      PROVE  Channels'
  <2>1. PICK t \in Transports : idle[t] > 0 /\ idle' = AddTo(idle, t, -1) /\ Carry(u, t)
    BY <1>1 DEF TakeIdle
  <2>2. Alone(u) /\ carries'[u] = t /\ pc'[u] = "count"
    BY <1>1, <2>1 DEF TakeIdle, Alone
  <2> QED BY <1>1, <2>1, <2>2, ChannelTaken DEF TakeIdle
<1>2. ASSUME NEW u \in Users, Acquire(u) \/ Retry(u) \/ Wake(u)
      PROVE  Channels'
  BY <1>2, ChannelsKept DEF Acquire, Wake, Retry, TopClosed, Top, GiveUp, EpochCheck
<1>3. ASSUME NEW u \in Workers, Sample(u) \/ BreakDead(u)
      PROVE  Channels'
  BY <1>3, ChannelsKept DEF Sample, BreakDead, Breaks
<1>4. ASSUME NEW u \in Workers, ReleaseIdle(u)
      PROVE  Channels'
  BY <1>4, ChannelReturned DEF ReleaseIdle
<1>5. ASSUME NEW u \in Workers, ReleasePopped(u)
      PROVE  Channels'
  <2>1. Alone(u) /\ pc[u] = "have" /\ pc'[u] \notin Holding
    BY <1>5 DEF ReleasePopped, Settles, Alone
  <2>2. \/ UNCHANGED <<reg, cap>>
        \/ Unregister({carries[u]}) /\ count'[carries[u]] = 0 /\ carries[u] \in reg
    BY <1>5 DEF ReleasePopped
  <2> QED BY <1>5, <2>1, <2>2, ChannelFreed DEF ReleasePopped
<1>6. ASSUME NEW u \in Workers, Discard(u)
      PROVE  Channels'
  <2>1. Alone(u) /\ pc[u] \in {"have", "validate"} /\ pc'[u] \notin Holding
    BY <1>6 DEF Discard, Breaks, Alone
  <2>2. \/ UNCHANGED <<reg, cap>>
        \/ Unregister({carries[u]}) /\ count'[carries[u]] = 0 /\ carries[u] \in reg
    BY <1>6 DEF Discard
  <2> QED BY <1>6, <2>1, <2>2, ChannelFreed DEF Discard
<1>7. ASSUME NEW u \in Workers, DropDead(u)
      PROVE  Channels'
  BY <1>7, ChannelsDropped DEF DropDead
<1>8. ASSUME NEW u \in Workers, CountIdle(u) \/ ValidateOk(u) \/ Watch(u) \/ Discarded(u)
      PROVE  Channels'
  BY <1>8, ChannelsKept DEF CountIdle, ValidateOk, Watch, Discarded
<1>9. ASSUME NEW u \in Workers, EndWave(u) \/ CountLost(u) \/ Signal(u)
      PROVE  Channels'
  BY <1>9, ChannelsKept DEF EndWave, CountLost, Signal, Returns
<1>10. ASSUME NEW u \in Workers, WorkerDrops(u)
      PROVE  Channels'
  BY <1>10, ChannelsKept DEF WorkerDrops, DropOne
<1>11. ASSUME NEW c \in Closers, Close(c) \/ CloserDrops(c)
      PROVE  Channels'
  BY <1>11, ChannelsKept DEF Close, CloserDrops, DropOne
<1>12. ASSUME NEW c \in Closers, Teardown(c)
      PROVE  Channels'
  <2>1. \A w \in Workers : pc'[w] = pc[w]
    BY <1>12 DEF Teardown
  <2>2. PICK ts \in SUBSET {t \in reg : count[t] = idle[t]} : Unregister(ts)
    BY <1>12 DEF Teardown
  <2> QED BY <1>12, <2>1, <2>2, ChannelsSwept DEF Teardown
<1>13. CASE Expire
  <2>1. \A w \in Workers : pc'[w] = pc[w]
    BY <1>13 DEF Expire
  <2>2. PICK ts \in SUBSET Empties : Unregister(ts)
    BY <1>13 DEF Expire
  <2>3. \A t \in ts : t \in reg /\ count[t] = 0 /\ idle[t] = 0
    BY <2>2, AllIdleIsUnheld DEF Empties
  <2>4. ts \in SUBSET {t \in reg : count[t] = idle[t]}
    BY <2>3
  <2> QED BY <1>13, <2>1, <2>2, <2>3, <2>4, ChannelsSwept DEF Expire
<1>14. CASE Look \/ PrunerShutDown \/ PrunerSignals \/ Retire
  BY <1>14, ChannelsKept DEF Look, PrunerShutDown, PrunerSignals, Retire
<1>15. CASE PrunerDrops
  BY <1>15, ChannelsKept DEF PrunerDrops, DropOne
<1>16. CASE RequestShutdown \/ (\E t \in Transports : Die(t)) \/ UNCHANGED vars
  BY <1>16, ChannelsKept DEF RequestShutdown, Die, vars
<1> QED BY <1>1, <1>2, <1>3, <1>4, <1>5, <1>6, <1>7, <1>8, <1>9, <1>10,
           <1>11, <1>12, <1>13, <1>14, <1>15, <1>16
        DEF Next, PopIdle, KeeperPops, GiveBack, Break, Proceed, Prune

-----------------------------------------------------------------------------
(* The accounting of the size. *)

Sizes == SizeAccounting /\ IsFiniteSet(ToClose)

(* One worker at most moves. *)
Moves(u) == \A w \in Workers \ {u} : pc'[w] = pc[w]

LEMMA ChargersMove ==
  ASSUME NEW u \in Workers, Moves(u)
  PROVE  /\ (pc[u] \in Charged <=> pc'[u] \in Charged) => Chargers' = Chargers
         /\ pc[u] \notin Charged /\ pc'[u] \in Charged
              => Cardinality(Chargers') = Cardinality(Chargers) + 1
         /\ pc[u] \in Charged /\ pc'[u] \notin Charged
              => Cardinality(Chargers') = Cardinality(Chargers) - 1
<1>1. CASE pc[u] \in Charged <=> pc'[u] \in Charged
  BY <1>1 DEF Moves, Chargers
<1>2. CASE pc[u] \notin Charged /\ pc'[u] \in Charged
  <2>1. Chargers' = Chargers \cup {u} /\ u \notin Chargers
    BY <1>2 DEF Moves, Chargers
  <2> QED BY <1>2, <2>1, ChargersFinite, FS_AddElement
<1>3. CASE pc[u] \in Charged /\ pc'[u] \notin Charged
  <2>1. Chargers' = Chargers \ {u} /\ u \in Chargers
    BY <1>3 DEF Moves, Chargers
  <2> QED BY <1>3, <2>1, ChargersFinite, FS_RemoveElement
<1> QED BY <1>1, <1>2, <1>3

(* Pairing every member of a set with one thing makes no more of them.     *)
LEMMA PairsCount ==
  ASSUME NEW t, NEW ts, IsFiniteSet(ts)
  PROVE  IsFiniteSet({t} \X ts) /\ Cardinality({t} \X ts) = Cardinality(ts)
<1> DEFINE f == [x \in ts |-> <<t, x>>]
<1>1. f \in Bijection(ts, {t} \X ts)
  <2>1. f \in [ts -> {t} \X ts]
    OBVIOUS
  <2>2. \A x, y \in ts : f[x] = f[y] => x = y
    OBVIOUS
  <2>3. \A p \in {t} \X ts : \E x \in ts : f[x] = p
    <3> SUFFICES ASSUME NEW p \in {t} \X ts PROVE \E x \in ts : f[x] = p
      OBVIOUS
    <3>1. PICK x \in ts : p = <<t, x>>
      OBVIOUS
    <3>2. f[x] = p
      BY <3>1
    <3> QED BY <3>2
  <2> QED BY <2>1, <2>2, <2>3 DEF Bijection, Injection, Surjection, IsInjective
<1>2. ExistsBijection(ts, {t} \X ts)
  BY <1>1 DEF ExistsBijection
<1> QED BY <1>2, FS_Bijection

(* A thread takes transports over to close them. *)
LEMMA ToCloseGrows ==
  ASSUME SftpInv, NEW t \in Threads, NEW ts \in SUBSET Transports, popped[t] = {}, Pop(t, ts)
  PROVE  /\ IsFiniteSet(ToClose') /\ IsFiniteSet(ts)
         /\ Cardinality(ToClose') = Cardinality(ToClose) + Cardinality(ts)
<1>1. \A x \in Threads : popped'[x] = IF x = t THEN ts ELSE popped[x]
  BY DEF Pop, SftpInv, TypeOK
<1>2. ToClose' = ToClose \cup ({t} \X ts) /\ ToClose \cap ({t} \X ts) = {}
  <2>1. \A p : p \in ToClose' <=> p \in ToClose \/ p \in {t} \X ts
    BY <1>1 DEF ToClose
  <2>2. \A p : ~(p \in ToClose /\ p \in {t} \X ts)
    BY DEF ToClose
  <2> QED BY <2>1, <2>2
<1>3. IsFiniteSet(ts) /\ Cardinality(ts) \in Nat
  BY WorkersFinite, FS_Subset, FS_CardinalityType
<1>4. IsFiniteSet({t} \X ts) /\ Cardinality({t} \X ts) = Cardinality(ts)
  BY <1>3, PairsCount
<1>5. IsFiniteSet(ToClose) /\ Cardinality(ToClose) \in Nat
  BY FS_CardinalityType DEF SftpInv
<1>6. Cardinality(ToClose \cap ({t} \X ts)) = 0
  BY <1>2, FS_EmptySet
<1>7. /\ IsFiniteSet(ToClose \cup ({t} \X ts))
      /\ Cardinality(ToClose \cup ({t} \X ts)) =
           Cardinality(ToClose) + Cardinality({t} \X ts) - Cardinality(ToClose \cap ({t} \X ts))
  BY <1>4, <1>5, FS_Union
<1> QED BY <1>2, <1>3, <1>4, <1>5, <1>6, <1>7

LEMMA ToCloseShrinks ==
  ASSUME SftpInv, NEW t \in Threads, NEW x \in popped[t], Pop(t, popped[t] \ {x})
  PROVE  /\ IsFiniteSet(ToClose')
         /\ Cardinality(ToClose') = Cardinality(ToClose) - 1
<1>1. \A s \in Threads : popped'[s] = IF s = t THEN popped[t] \ {x} ELSE popped[s]
  BY DEF Pop, SftpInv, TypeOK
<1>2. x \in Transports
  BY DEF SftpInv, TypeOK
<1>3. <<t, x>> \in ToClose
  BY <1>2 DEF ToClose
<1>4. ToClose' = ToClose \ {<<t, x>>}
  <2>1. \A p \in Threads \X Transports : p \in ToClose' <=> p \in ToClose /\ p # <<t, x>>
    BY <1>1 DEF ToClose
  <2>2. ToClose \subseteq Threads \X Transports /\ ToClose' \subseteq Threads \X Transports
    BY DEF ToClose
  <2> QED BY <2>1, <2>2
<1> QED BY <1>3, <1>4, FS_RemoveElement DEF SftpInv

LEMMA SizesAre ==
  Sizes' <=> /\ size' = Cardinality(reg') + Cardinality(Chargers') + Cardinality(ToClose')
             /\ size' <= MaxTransports
             /\ IsFiniteSet(ToClose')
BY DEF Sizes, SizeAccounting, Chargers, Charged, ToClose

LEMMA SizeTypes ==
  ASSUME SftpInv
  PROVE  /\ size = Cardinality(reg) + Cardinality(Chargers) + Cardinality(ToClose)
         /\ size <= MaxTransports /\ size \in Nat /\ IsFiniteSet(ToClose)
         /\ Cardinality(reg) \in Nat /\ Cardinality(Chargers) \in Nat
         /\ Cardinality(ToClose) \in Nat
BY SizeIs, RegFinite, ChargersFinite, FS_CardinalityType DEF SftpInv, TypeOK

LEMMA SizesKept ==
  ASSUME SftpInv, UNCHANGED <<reg, size, popped>>,
         \A w \in Workers : pc[w] \in Charged <=> pc'[w] \in Charged
  PROVE  Sizes'
<1>1. Chargers' = Chargers /\ ToClose' = ToClose
  BY DEF Chargers, ToClose
<1> QED BY <1>1, SizeTypes, SizesAre

(* A transport is charged, or is no longer charged, to a worker. *)
LEMMA SizeCharged ==
  ASSUME SftpInv, NEW u \in Workers, Moves(u), UNCHANGED <<reg, popped>>,
         \/ /\ pc[u] \notin Charged /\ pc'[u] \in Charged
            /\ size < MaxTransports /\ size' = size + 1
         \/ /\ pc[u] \in Charged /\ pc'[u] \notin Charged
            /\ size' = size - 1
  PROVE  Sizes'
<1>1. ToClose' = ToClose
  BY DEF ToClose
<1> QED BY <1>1, ChargersMove, SizeTypes, SizesAre, SftpAssumption

(* Transports go from the ledger into the hands of a thread. *)
LEMMA SizeSwept ==
  ASSUME SftpInv, NEW t \in Threads, NEW ts \in SUBSET reg, popped[t] = {}, Pop(t, ts),
         Unregister(ts), size' = size,
         \A w \in Workers : pc[w] \in Charged <=> pc'[w] \in Charged
  PROVE  Sizes'
<1>1. Chargers' = Chargers
  BY DEF Chargers
<1>2. ts \subseteq Transports
  BY DEF SftpInv, TypeOK
<1>3. /\ IsFiniteSet(ToClose') /\ IsFiniteSet(ts)
      /\ Cardinality(ToClose') = Cardinality(ToClose) + Cardinality(ts)
  BY <1>2, ToCloseGrows
<1>4. Cardinality(reg') = Cardinality(reg) - Cardinality(ts) /\ Cardinality(ts) \in Nat
  <2>1. reg' = reg \ ts /\ reg \cap ts = ts
    BY DEF Unregister
  <2>2. Cardinality(ts) \in Nat /\ IsFiniteSet(reg)
    BY <1>3, FS_CardinalityType, RegFinite DEF SftpInv
  <2>3. Cardinality(reg \ ts) = Cardinality(reg) - Cardinality(reg \cap ts)
    BY <2>2, FS_Difference
  <2> QED BY <2>1, <2>2, <2>3
<1> QED BY <1>1, <1>3, <1>4, SizeTypes, SizesAre

LEMMA SizeDropped ==
  ASSUME SftpInv, NEW t \in Threads, NEW next, DropOne(t, next), next \notin Charged
  PROVE  Sizes'
<1>1. PICK x \in popped[t] : Pop(t, popped[t] \ {x})
  BY DEF DropOne
<1>2. \A w \in Workers : pc[w] \in Charged <=> pc'[w] \in Charged
  BY Members DEF DropOne, Goto, SftpInv, TypeOK, Charged, Dialling
<1>3. Chargers' = Chargers /\ reg' = reg /\ size' = size - 1
  BY <1>2 DEF Chargers, DropOne, ledger
<1>4. IsFiniteSet(ToClose') /\ Cardinality(ToClose') = Cardinality(ToClose) - 1
  BY <1>1, ToCloseShrinks
<1> QED BY <1>3, <1>4, SizeTypes, SizesAre, SftpAssumption

LEMMA GrowSizes ==
  ASSUME SftpInv, NEW u \in Users, Grow(u)
  PROVE  Sizes'
<1> USE Members DEF ledger, gate, down, Goto, Return, Carry, Moves, Charged, Dialling, Missed
<1>0. TypeOK /\ HandsOk
  BY DEF SftpInv
<1> USE <1>0 DEF TypeOK
<1>1. CASE PopEmpty(u) \/ Reserve(u) \/ RePick(u) \/ CheckClosed(u) \/ CheckOpen(u)
  BY <1>1, SizesKept DEF PopEmpty, Reserve, RePick, ClaimOn, CheckClosed, CheckOpen
<1>2. CASE AtCeiling(u) \/ DialOk(u) \/ AnyActive(u) \/ OpenOk(u) \/ Track(u) \/ Pin(u)
  BY <1>2, SizesKept DEF AtCeiling, DialOk, AnyActive, OpenOk, Track, Pin
<1>3. CASE ReserveSlot(u) \/ DialCancelled(u) \/ DialFailed(u)
  BY <1>3, SizeCharged DEF ReserveSlot, DialCancelled, DialFailed
<1>4. CASE DialOutlivesPool(u)
  <2>1. PICK t \in Transports : Pop(u, {t})
    BY <1>4 DEF DialOutlivesPool, Unused
  <2>2. popped[u] = {} /\ reg' = reg /\ size' = size
    BY <1>4 DEF DialOutlivesPool, HandsOk
  <2>3. Cardinality({t}) = 1
    BY FS_Singleton
  <2>4. IsFiniteSet(ToClose') /\ Cardinality(ToClose') = Cardinality(ToClose) + 1
    BY <2>1, <2>2, <2>3, ToCloseGrows
  <2>5. Cardinality(Chargers') = Cardinality(Chargers) - 1
    BY <1>4, ChargersMove DEF DialOutlivesPool
  <2> QED BY <2>2, <2>4, <2>5, SizeTypes, SizesAre
<1>5. CASE Register(u)
  <2>1. carries[u] \in Transports \ reg /\ reg' = reg \cup {carries[u]}
    BY <1>5 DEF Register, HandsOk, SftpInv, FreshDials
  <2>2. Cardinality(reg') = Cardinality(reg) + 1
    BY <2>1, RegFinite, FS_AddElement
  <2>3. Cardinality(Chargers') = Cardinality(Chargers) - 1
    BY <1>5, ChargersMove DEF Register
  <2>4. ToClose' = ToClose /\ size' = size
    BY <1>5 DEF Register, ToClose
  <2> QED BY <2>2, <2>3, <2>4, SizeTypes, SizesAre
<1>6. ASSUME NEW back \in {"pin", "out"}, pc[u] = "open", Rollback(u, back)
      PROVE  Sizes'
  <2>1. /\ popped[u] = {} /\ size' = size
        /\ \A w \in Workers : pc[w] \in Charged <=> pc'[w] \in Charged
    BY <1>6 DEF Rollback, HandsOk
  <2>2. CASE Abandons(carries[u])
    BY <1>6, <2>1, <2>2, SizeSwept DEF Rollback, Abandons
  <2>3. CASE ~Abandons(carries[u])
    BY <1>6, <2>1, <2>3, SizesKept DEF Rollback
  <2> QED BY <2>2, <2>3
<1>7. CASE OpenRefused(u) \/ OpenFailed(u)
  BY <1>7, <1>6 DEF OpenRefused, OpenFailed
<1> QED BY <1>1, <1>2, <1>3, <1>4, <1>5, <1>6, <1>7
        DEF Grow

LEMMA OtherSizes ==
  ASSUME SftpInv, [Next]_vars, \A u \in Users : ~Grow(u)
  PROVE  Sizes'
<1> USE Members DEF ledger, gate, down, Goto, Return, Carry, Moves, Charged, Dialling
<1>0. TypeOK /\ HandsOk
  BY DEF SftpInv
<1> USE <1>0 DEF TypeOK
<1>1. ASSUME NEW u \in Workers, TakeIdle(u), pc[u] \in {"pop", "out"}
      PROVE  Sizes'
  BY <1>1, SizesKept DEF TakeIdle
<1>2. ASSUME NEW u \in Users, Acquire(u) \/ Retry(u) \/ Wake(u)
      PROVE  Sizes'
  BY <1>2, SizesKept DEF Acquire, Wake, Retry, TopClosed, Top, GiveUp, EpochCheck
<1>3. ASSUME NEW u \in Workers, Sample(u) \/ BreakDead(u) \/ ReleaseIdle(u)
      PROVE  Sizes'
  BY <1>3, SizesKept DEF Sample, BreakDead, Breaks, ReleaseIdle, Settles
<1>4. ASSUME NEW u \in Workers, ReleasePopped(u)
      PROVE  Sizes'
  <2>1. /\ popped[u] = {} /\ size' = size
        /\ \A w \in Workers : pc[w] \in Charged <=> pc'[w] \in Charged
    BY <1>4 DEF ReleasePopped, Settles, HandsOk
  <2>2. \/ UNCHANGED <<reg, popped>>
        \/ carries[u] \in reg /\ Unregister({carries[u]}) /\ Pop(u, {carries[u]})
    BY <1>4 DEF ReleasePopped
  <2> QED BY <2>1, <2>2, SizesKept, SizeSwept
<1>5. ASSUME NEW u \in Workers, Discard(u)
      PROVE  Sizes'
  <2>1. /\ popped[u] = {} /\ size' = size
        /\ \A w \in Workers : pc[w] \in Charged <=> pc'[w] \in Charged
    BY <1>5 DEF Discard, Breaks, HandsOk
  <2>2. \/ UNCHANGED <<reg, popped>>
        \/ carries[u] \in reg /\ Unregister({carries[u]}) /\ Pop(u, {carries[u]})
    BY <1>5 DEF Discard
  <2> QED BY <2>1, <2>2, SizesKept, SizeSwept
<1>6. ASSUME NEW u \in Workers, DropDead(u)
      PROVE  Sizes'
  <2>1. ToClose' = ToClose /\ size' = size
    BY <1>6 DEF DropDead, ToClose
  <2>2. CASE carries[u] \in reg
    <3>0. reg' = reg \ {carries[u]} /\ IsFiniteSet(reg)
      BY <1>6, RegFinite DEF DropDead, Unregister
    <3>a. Cardinality(reg \ {carries[u]}) = Cardinality(reg) - 1
      BY ONLY <2>2, <3>0, FS_RemoveElement
    <3>1. Cardinality(reg') = Cardinality(reg) - 1
      BY <3>0, <3>a
    <3>2. Cardinality(Chargers') = Cardinality(Chargers) + 1
      BY <1>6, <2>2, ChargersMove DEF DropDead, FirstToDrop
    <3> QED BY <2>1, <3>1, <3>2, SizeTypes, SizesAre
  <2>3. CASE carries[u] \notin reg
    BY <1>6, <2>3, SizesKept DEF DropDead, FirstToDrop, Unregister
  <2> QED BY <2>2, <2>3
<1>7. ASSUME NEW u \in Workers, CountIdle(u) \/ ValidateOk(u) \/ Watch(u) \/ Discarded(u)
      PROVE  Sizes'
  BY <1>7, SizesKept DEF CountIdle, ValidateOk, Watch, Discarded
<1>8. ASSUME NEW u \in Workers, EndWave(u) \/ Signal(u)
      PROVE  Sizes'
  BY <1>8, SizesKept DEF EndWave, Signal, Returns
<1>9. ASSUME NEW u \in Workers, CountLost(u)
      PROVE  Sizes'
  BY <1>9, SizeCharged DEF CountLost
<1>10. ASSUME NEW u \in Workers, WorkerDrops(u)
      PROVE  Sizes'
  BY <1>10, SizeDropped DEF WorkerDrops
<1>11. ASSUME NEW c \in Closers, Close(c)
      PROVE  Sizes'
  BY <1>11, SizesKept DEF Close
<1>12. ASSUME NEW c \in Closers, CloserDrops(c)
      PROVE  Sizes'
  BY <1>12, SizeDropped DEF CloserDrops
<1>13. ASSUME NEW c \in Closers, Teardown(c)
      PROVE  Sizes'
  <2>1. popped[c] = {} /\ size' = size /\ \A w \in Workers : pc'[w] = pc[w]
    BY <1>13 DEF Teardown, HandsOk
  <2>2. PICK ts \in SUBSET reg : Unregister(ts) /\ Pop(c, ts)
    BY <1>13 DEF Teardown
  <2> QED BY <2>1, <2>2, SizeSwept
<1>14. CASE Expire
  <2>1. popped[Pruner] = {} /\ size' = size /\ \A w \in Workers : pc'[w] = pc[w]
    BY <1>14 DEF Expire, HandsOk
  <2>2. PICK ts \in SUBSET reg : Unregister(ts) /\ Pop(Pruner, ts)
    BY <1>14 DEF Expire, Empties
  <2> QED BY <2>1, <2>2, SizeSwept
<1>15. CASE Look \/ PrunerShutDown \/ PrunerSignals \/ Retire
  BY <1>15, SizesKept DEF Look, PrunerShutDown, PrunerSignals, Retire
<1>16. CASE PrunerDrops
  BY <1>16, SizeDropped DEF PrunerDrops, AfterPrune
<1>17. CASE RequestShutdown \/ (\E t \in Transports : Die(t)) \/ UNCHANGED vars
  BY <1>17, SizesKept DEF RequestShutdown, Die, vars
<1> QED BY <1>1, <1>2, <1>3, <1>4, <1>5, <1>6, <1>7, <1>8, <1>9, <1>10,
           <1>11, <1>12, <1>13, <1>14, <1>15, <1>16, <1>17
        DEF Next, PopIdle, KeeperPops, GiveBack, Break, Proceed, Prune

-----------------------------------------------------------------------------
(* The accounting of the channels in flight. *)

IsOut(u) == pc[u] \in Counted \/ ret[u] = "wave"

Steps(u) == \A w \in Workers \ {u} : pc'[w] = pc[w] /\ ret'[w] = ret[w]

LEMMA OutstandingMove ==
  ASSUME NEW u \in Workers, Steps(u)
  PROVE  /\ (IsOut(u) <=> IsOut(u)') => Outstanding' = Outstanding
         /\ ~IsOut(u) /\ IsOut(u)' => Cardinality(Outstanding') = Cardinality(Outstanding) + 1
         /\ IsOut(u) /\ ~IsOut(u)' => Cardinality(Outstanding') = Cardinality(Outstanding) - 1
<1>1. CASE IsOut(u) <=> IsOut(u)'
  BY <1>1 DEF Steps, Outstanding, IsOut
<1>2. CASE ~IsOut(u) /\ IsOut(u)'
  <2>1. Outstanding' = Outstanding \cup {u} /\ u \notin Outstanding
    BY <1>2 DEF Steps, Outstanding, IsOut
  <2> QED BY <1>2, <2>1, OutstandingFinite, FS_AddElement
<1>3. CASE IsOut(u) /\ ~IsOut(u)'
  <2>1. Outstanding' = Outstanding \ {u} /\ u \in Outstanding
    BY <1>3 DEF Steps, Outstanding, IsOut
  <2> QED BY <1>3, <2>1, OutstandingFinite, FS_RemoveElement
<1> QED BY <1>1, <1>2, <1>3

LEMMA FlightsAre ==
  /\ InFlightAccounting <=> inFlight = Cardinality(Outstanding)
  /\ InFlightAccounting' <=> inFlight' = Cardinality(Outstanding')
BY DEF InFlightAccounting, Outstanding

LEMMA FlightsKept ==
  ASSUME SftpInv, inFlight' = inFlight, \A w \in Workers : IsOut(w) <=> IsOut(w)'
  PROVE  InFlightAccounting'
<1>1. Outstanding' = Outstanding
  BY DEF Outstanding, IsOut
<1> QED BY <1>1, FlightsAre DEF SftpInv

LEMMA FlightCounted ==
  ASSUME SftpInv, NEW u \in Workers, Steps(u),
         \/ inFlight' = inFlight + 1 /\ ~IsOut(u) /\ IsOut(u)'
         \/ inFlight' = inFlight - 1 /\ IsOut(u) /\ ~IsOut(u)'
  PROVE  InFlightAccounting'
BY OutstandingMove, FlightsAre, OutstandingFinite DEF SftpInv

LEMMA GrowFlights ==
  ASSUME SftpInv, NEW u \in Users, Grow(u)
  PROVE  InFlightAccounting'
<1> USE Members DEF ledger, gate, down, Goto, Return, Counted, IsOut, Steps, Missed
<1>0. TypeOK /\ ReturnsOk
  BY DEF SftpInv
<1> USE <1>0 DEF TypeOK, ReturnsOk, Pending
<1>1. CASE PopEmpty(u) \/ Reserve(u) \/ RePick(u) \/ CheckClosed(u) \/ CheckOpen(u)
  BY <1>1, FlightsKept DEF PopEmpty, Reserve, RePick, ClaimOn, CheckClosed, CheckOpen
<1>2. CASE AtCeiling(u) \/ DialOk(u) \/ AnyActive(u) \/ OpenOk(u) \/ Pin(u)
  BY <1>2, FlightsKept DEF AtCeiling, DialOk, AnyActive, OpenOk, Pin
<1>3. CASE ReserveSlot(u) \/ DialCancelled(u) \/ DialFailed(u) \/ DialOutlivesPool(u)
  BY <1>3, FlightsKept DEF ReserveSlot, DialCancelled, DialFailed, DialOutlivesPool
<1>4. CASE Register(u) \/ OpenRefused(u) \/ OpenFailed(u)
  BY <1>4, FlightsKept DEF Register, OpenRefused, OpenFailed, Rollback
<1>5. CASE Track(u)
  BY <1>5, FlightCounted DEF Track
<1> QED BY <1>1, <1>2, <1>3, <1>4, <1>5
        DEF Grow

LEMMA OtherFlights ==
  ASSUME SftpInv, [Next]_vars, \A u \in Users : ~Grow(u)
  PROVE  InFlightAccounting'
<1> USE Members DEF ledger, gate, down, Goto, Return, Counted, IsOut, Steps
<1>0. TypeOK /\ ReturnsOk
  BY DEF SftpInv
<1> USE <1>0 DEF TypeOK, ReturnsOk, Pending
<1>1. ASSUME NEW u \in Workers, TakeIdle(u), pc[u] \in {"pop", "out"}
      PROVE  InFlightAccounting'
  BY <1>1, FlightsKept DEF TakeIdle
<1>2. ASSUME NEW u \in Users, Acquire(u) \/ Retry(u) \/ Wake(u)
      PROVE  InFlightAccounting'
  BY <1>2, FlightsKept DEF Acquire, Wake, Retry, TopClosed, Top, GiveUp, EpochCheck
<1>3. ASSUME NEW u \in Workers, Sample(u) \/ ReleaseIdle(u)
      PROVE  InFlightAccounting'
  BY <1>3, FlightsKept DEF Sample, ReleaseIdle, Settles
<1>4. ASSUME NEW u \in Workers, ReleasePopped(u)
      PROVE  InFlightAccounting'
  BY <1>4, FlightsKept DEF ReleasePopped, Settles
<1>5. ASSUME NEW u \in Workers, Discard(u)
      PROVE  InFlightAccounting'
  BY <1>5, FlightsKept DEF Discard, Breaks
<1>6. ASSUME NEW u \in Workers, BreakDead(u)
      PROVE  InFlightAccounting'
  BY <1>6, FlightCounted DEF BreakDead, Breaks
<1>7. ASSUME NEW u \in Workers, DropDead(u) \/ CountLost(u) \/ ValidateOk(u) \/ Watch(u)
      PROVE  InFlightAccounting'
  BY <1>7, FlightsKept DEF DropDead, CountLost, ValidateOk, Watch
<1>8. ASSUME NEW u \in Workers, CountIdle(u) \/ Discarded(u) \/ EndWave(u)
      PROVE  InFlightAccounting'
  BY <1>8, FlightCounted DEF CountIdle, Discarded, EndWave
<1>9. ASSUME NEW u \in Workers, Signal(u)
      PROVE  InFlightAccounting'
  BY <1>9, FlightsKept DEF Signal, Returns
<1>10. ASSUME NEW u \in Workers, WorkerDrops(u)
      PROVE  InFlightAccounting'
  BY <1>10, FlightsKept DEF WorkerDrops, DropOne
<1>11. ASSUME NEW c \in Closers, Close(c) \/ CloserDrops(c) \/ Teardown(c)
      PROVE  InFlightAccounting'
  BY <1>11, FlightsKept DEF Close, CloserDrops, DropOne, Teardown
<1>12. CASE Prune
  BY <1>12, FlightsKept
     DEF Prune, Look, PrunerShutDown, PrunerSignals, Retire, Expire, PrunerDrops, DropOne
<1>13. CASE RequestShutdown \/ (\E t \in Transports : Die(t)) \/ UNCHANGED vars
  BY <1>13, FlightsKept DEF RequestShutdown, Die, vars
<1> QED BY <1>1, <1>2, <1>3, <1>4, <1>5, <1>6, <1>7, <1>8, <1>9, <1>10,
           <1>11, <1>12, <1>13
        DEF Next, PopIdle, KeeperPops, GiveBack, Break, Proceed

-----------------------------------------------------------------------------
(* Transports that leave the ledger are closed under nobody, and none is   *)
(* lost on the way.                                                        *)

Unlost == ClosedUnderNobody /\ NoTransportLost

(* What nobody takes over stays where it is. *)
LEMMA UnlostKept ==
  ASSUME SftpInv, UNCHANGED <<reg, popped>>, live' \subseteq live,
         \A w \in Workers : /\ pc'[w] \in Holding => pc[w] \in Holding \/ carries'[w] \in reg
                            /\ pc'[w] \in Holding /\ pc[w] \in Holding => carries'[w] = carries[w]
                            /\ pc[w] = "register" => pc'[w] = "register" /\ carries'[w] = carries[w]
  PROVE  Unlost'
<1>1. ClosedUnderNobody'
  BY DEF SftpInv, ClosedUnderNobody, Holders
<1>2. NoTransportLost'
  BY DEF SftpInv, NoTransportLost
<1> QED BY <1>1, <1>2 DEF Unlost

(* A thread takes over transports that nobody has a channel of: they come  *)
(* off the ledger, or have just been dialled.                              *)
LEMMA UnlostPopped ==
  ASSUME SftpInv, NEW t \in Threads, NEW ts \in SUBSET Transports, popped[t] = {}, Pop(t, ts),
         reg' = reg \ ts, live' \subseteq live \cup ts,
         \A x \in ts : Holders(x)' = {} /\ \A s \in Threads : x \notin popped[s],
         \A w \in Workers : /\ pc'[w] \in Holding => pc[w] \in Holding /\ carries'[w] = carries[w]
                            /\ pc[w] = "register" => pc'[w] = "register" /\ carries'[w] = carries[w]
  PROVE  Unlost'
<1>1. \A s \in Threads : popped'[s] = IF s = t THEN ts ELSE popped[s]
  BY DEF Pop, SftpInv, TypeOK
<1>2. ClosedUnderNobody'
  <2> SUFFICES ASSUME NEW s \in Threads, NEW x \in popped'[s]
               PROVE  /\ x \notin reg' /\ Holders(x)' = {}
                      /\ \A r \in Threads \ {s} : x \notin popped'[r]
    BY DEF ClosedUnderNobody
  <2>1. CASE s = t
    BY <1>1, <2>1
  <2>2. CASE s # t
    <3>1. x \in popped[s] /\ x \notin ts
      BY <1>1, <2>2
    <3>2. /\ x \notin reg /\ Holders(x) = {}
          /\ \A r \in Threads \ {s} : x \notin popped[r]
      BY <3>1 DEF SftpInv, ClosedUnderNobody
    <3>3. Holders(x)' = {}
      BY <3>2 DEF Holders
    <3> QED BY <1>1, <3>1, <3>2, <3>3
  <2> QED BY <2>1, <2>2
<1>3. NoTransportLost'
  <2> SUFFICES ASSUME NEW x \in live'
               PROVE  \/ x \in reg'
                      \/ \E w \in Workers : pc'[w] = "register" /\ x = carries'[w]
                      \/ \E s \in Threads : x \in popped'[s]
    BY DEF NoTransportLost
  <2>1. CASE x \in ts
    BY <1>1, <2>1
  <2>2. CASE x \in live \ ts
    <3>1. \/ x \in reg
          \/ \E w \in Workers : pc[w] = "register" /\ x = carries[w]
          \/ \E s \in Threads : x \in popped[s]
      BY <2>2 DEF SftpInv, NoTransportLost
    <3> QED BY <1>1, <2>2, <3>1
  <2> QED BY <2>1, <2>2
<1> QED BY <1>2, <1>3 DEF Unlost

LEMMA UnlostClosed ==
  ASSUME SftpInv, NEW t \in Threads, NEW next, DropOne(t, next),
         t \in Workers => next \notin Holding
  PROVE  Unlost'
<1>1. PICK x \in popped[t] : live' = live \ {x} /\ Pop(t, popped[t] \ {x})
  BY DEF DropOne
<1>2. \A s \in Threads : popped'[s] = IF s = t THEN popped[t] \ {x} ELSE popped[s]
  BY <1>1 DEF Pop, SftpInv, TypeOK
<1>3. \A w \in Workers : /\ carries'[w] = carries[w]
                         /\ pc'[w] \in Holding => pc[w] \in Holding
                         /\ pc[w] = "register" => pc'[w] = "register"
  BY Members DEF DropOne, Goto, SftpInv, TypeOK, Holding, Reserving
<1>4. reg' = reg
  BY DEF DropOne, ledger
<1>5. ClosedUnderNobody'
  <2> SUFFICES ASSUME NEW s \in Threads, NEW y \in popped'[s]
               PROVE  /\ y \notin reg' /\ Holders(y)' = {}
                      /\ \A r \in Threads \ {s} : y \notin popped'[r]
    BY DEF ClosedUnderNobody
  <2>1. y \in popped[s]
    BY <1>2
  <2>2. /\ y \notin reg /\ Holders(y) = {}
        /\ \A r \in Threads \ {s} : y \notin popped[r]
    BY <2>1 DEF SftpInv, ClosedUnderNobody
  <2>3. Holders(y)' = {}
    BY <1>3, <2>2 DEF Holders
  <2> QED BY <1>2, <1>4, <2>2, <2>3
<1>6. NoTransportLost'
  <2> SUFFICES ASSUME NEW y \in live \ {x}
               PROVE  \/ y \in reg'
                      \/ \E w \in Workers : pc'[w] = "register" /\ y = carries'[w]
                      \/ \E s \in Threads : y \in popped'[s]
    BY <1>1 DEF NoTransportLost
  <2>1. \/ y \in reg
        \/ \E w \in Workers : pc[w] = "register" /\ y = carries[w]
        \/ \E s \in Threads : y \in popped[s]
    BY DEF SftpInv, NoTransportLost
  <2> QED BY <1>2, <1>3, <1>4, <2>1
<1> QED BY <1>5, <1>6 DEF Unlost

(* The last holder of a registered transport leaves it to nobody. *)
LEMMA LeftEmpty ==
  ASSUME SftpInv, NEW u \in Workers, Alone(u), pc[u] \in Holding, pc'[u] \notin Holding,
         carries[u] \in reg, count' = AddTo(count, carries[u], -1), count'[carries[u]] = 0
  PROVE  \A x \in {carries[u]} : /\ Holders(x)' = {} /\ idle[x] = 0 /\ x \in Transports
                                 /\ \A s \in Threads : x \notin popped[s]
<1> SUFFICES ASSUME NEW x, x = carries[u]
             PROVE  /\ Holders(x)' = {} /\ idle[x] = 0 /\ x \in Transports
                    /\ \A s \in Threads : x \notin popped[s]
  OBVIOUS
<1>1. x \in Transports
  BY HolderCounted
<1>2. count[x] - 1 = 0
  BY <1>1 DEF AddTo, SftpInv, TypeOK
<1>3. Holders(x) = {u} /\ idle[x] = 0
  BY <1>2, LastHolder
<1>4. Holders(x)' = {}
  BY <1>3 DEF Alone, Holders
<1> QED BY <1>1, <1>3, <1>4 DEF SftpInv, ClosedUnderNobody

LEMMA GrowUnlost ==
  ASSUME SftpInv, NEW u \in Users, Grow(u)
  PROVE  Unlost'
<1> USE Members DEF ledger, gate, down, Goto, Return, Carry, Holding, Reserving, Missed
<1>0. TypeOK /\ HandsOk
  BY DEF SftpInv
<1> USE <1>0 DEF TypeOK
<1>1. CASE PopEmpty(u) \/ CheckClosed(u) \/ CheckOpen(u) \/ AtCeiling(u) \/ AnyActive(u)
  BY <1>1, UnlostKept DEF PopEmpty, CheckClosed, CheckOpen, AtCeiling, AnyActive
<1>2. CASE Reserve(u)
  BY <1>2, UnlostKept DEF Reserve, ClaimOn, Eligible, Usable
<1>3. CASE RePick(u)
  BY <1>3, UnlostKept DEF RePick, ClaimOn, Eligible, Usable
<1>4. CASE ReserveSlot(u) \/ DialCancelled(u) \/ DialFailed(u)
  BY <1>4, UnlostKept DEF ReserveSlot, DialCancelled, DialFailed
<1>5. CASE OpenOk(u) \/ Track(u) \/ Pin(u)
  BY <1>5, UnlostKept DEF OpenOk, Track, Pin
<1>6. CASE DialOk(u)
  <2>1. PICK t \in Unused : live' = live \cup {t} /\ Carry(u, t)
    BY <1>6 DEF DialOk
  <2>2. ClosedUnderNobody'
    BY <1>6 DEF DialOk, SftpInv, ClosedUnderNobody, Holders
  <2>3. NoTransportLost'
    <3> SUFFICES ASSUME NEW x \in live'
                 PROVE  \/ x \in reg'
                        \/ \E w \in Workers : pc'[w] = "register" /\ x = carries'[w]
                        \/ \E s \in Threads : x \in popped'[s]
      BY DEF NoTransportLost
    <3>1. CASE x = t
      BY <1>6, <2>1, <3>1 DEF DialOk
    <3>2. CASE x \in live
      <4>1. \/ x \in reg
            \/ \E w \in Workers : pc[w] = "register" /\ x = carries[w]
            \/ \E s \in Threads : x \in popped[s]
        BY <3>2 DEF SftpInv, NoTransportLost
      <4> QED BY <1>6, <4>1 DEF DialOk
    <3> QED BY <2>1, <3>1, <3>2
  <2> QED BY <2>2, <2>3 DEF Unlost
<1>7. CASE DialOutlivesPool(u)
  <2>1. PICK t \in Unused : live' = live \cup {t} /\ Pop(u, {t})
    BY <1>7 DEF DialOutlivesPool
  <2>2. /\ t \in Transports /\ t \notin reg
        /\ \A s \in Threads : t \notin popped[s]
        /\ \A w \in Workers : carries[w] # t
    BY DEF Unused
  <2>3. Holders(t)' = {} /\ popped[u] = {} /\ reg' = reg \ {t}
    BY <1>7, <2>2 DEF DialOutlivesPool, Holders, HandsOk
  <2> QED BY <1>7, <2>1, <2>2, <2>3, UnlostPopped DEF DialOutlivesPool
<1>8. CASE Register(u)
  <2>1. /\ carries[u] \in Transports
        /\ \A s \in Threads : carries[u] \notin popped[s]
    BY <1>8 DEF Register, SftpInv, HandsOk, FreshDials
  <2>2. ClosedUnderNobody'
    BY <1>8, <2>1 DEF Register, SftpInv, ClosedUnderNobody, Holders
  <2>3. NoTransportLost'
    BY <1>8 DEF Register, SftpInv, NoTransportLost
  <2> QED BY <2>2, <2>3 DEF Unlost
<1>9. ASSUME NEW back \in {"pin", "out"}, pc[u] = "open", Rollback(u, back)
      PROVE  Unlost'
  <2>1. Alone(u) /\ pc'[u] \notin Holding
    BY <1>9 DEF Rollback, Alone
  <2>2. CASE Abandons(carries[u])
    <3>1. \A x \in {carries[u]} : Holders(x)' = {} /\ \A s \in Threads : x \notin popped[s]
      BY <1>9, <2>1, <2>2, LeftEmpty DEF Rollback, Abandons
    <3>2. popped[u] = {} /\ carries[u] \in Transports
      BY <1>9 DEF HandsOk
    <3>3. Pop(u, {carries[u]}) /\ Unregister({carries[u]}) /\ live' = live
      BY <1>9, <2>2 DEF Rollback
    <3>4. \A w \in Workers : /\ pc'[w] \in Holding => pc[w] \in Holding /\ carries'[w] = carries[w]
                             /\ pc[w] = "register" =>
                                  pc'[w] = "register" /\ carries'[w] = carries[w]
      BY <1>9, <2>1 DEF Alone
    <3>5. /\ u \in Threads /\ {carries[u]} \in SUBSET Transports
          /\ Pop(u, {carries[u]}) /\ reg' = reg \ {carries[u]} /\ live' = live
      BY <3>2, <3>3 DEF Unregister
    <3> HIDE DEF TypeOK
    <3> QED BY <3>1, <3>2, <3>4, <3>5, UnlostPopped
  <2>3. CASE ~Abandons(carries[u])
    BY <1>9, <2>3, UnlostKept DEF Rollback
  <2> QED BY <2>2, <2>3
<1>10. CASE OpenRefused(u) \/ OpenFailed(u)
  BY <1>10, <1>9 DEF OpenRefused, OpenFailed
<1> QED BY <1>1, <1>2, <1>3, <1>4, <1>5, <1>6, <1>7, <1>8, <1>9, <1>10
        DEF Grow

LEMMA OtherUnlost ==
  ASSUME SftpInv, [Next]_vars, \A u \in Users : ~Grow(u)
  PROVE  Unlost'
<1> USE Members DEF ledger, gate, down, Goto, Return, Carry, Holding, Reserving
<1>0. TypeOK /\ HandsOk
  BY DEF SftpInv
<1> USE <1>0 DEF TypeOK
<1>1. ASSUME NEW u \in Workers, TakeIdle(u), pc[u] \in {"pop", "out"}
      PROVE  Unlost'
  <2>1. PICK t \in Transports : idle[t] > 0 /\ Carry(u, t)
    BY <1>1 DEF TakeIdle
  <2>2. t \in reg
    BY <2>1 DEF SftpInv, ChannelAccounting
  <2> QED BY <1>1, <2>1, <2>2, UnlostKept DEF TakeIdle
<1>2. ASSUME NEW u \in Users, Acquire(u) \/ Retry(u) \/ Wake(u)
      PROVE  Unlost'
  BY <1>2, UnlostKept DEF Acquire, Wake, Retry, TopClosed, Top, GiveUp, EpochCheck
<1>3. ASSUME NEW u \in Workers, Sample(u) \/ ReleaseIdle(u) \/ BreakDead(u)
      PROVE  Unlost'
  BY <1>3, UnlostKept DEF Sample, ReleaseIdle, Settles, BreakDead, Breaks
<1>4. ASSUME NEW u \in Workers, ReleasePopped(u)
      PROVE  Unlost'
  <2>1. Alone(u) /\ pc[u] = "have" /\ pc'[u] \notin Holding /\ live' = live
    BY <1>4 DEF ReleasePopped, Settles, Alone
  <2>2. popped[u] = {} /\ carries[u] \in Transports
    BY <1>4, <2>1 DEF HandsOk
  <2>3. \A w \in Workers : /\ pc'[w] \in Holding => pc[w] \in Holding /\ carries'[w] = carries[w]
                           /\ pc[w] = "register" => pc'[w] = "register" /\ carries'[w] = carries[w]
    BY <2>1 DEF Alone
  <2>4. CASE UNCHANGED <<reg, popped>>
    BY <2>1, <2>3, <2>4, UnlostKept
  <2>5. CASE /\ carries[u] \in reg /\ count'[carries[u]] = 0
             /\ Unregister({carries[u]}) /\ Pop(u, {carries[u]})
    <3>1. \A x \in {carries[u]} : Holders(x)' = {} /\ \A s \in Threads : x \notin popped[s]
      BY <1>4, <2>1, <2>5, LeftEmpty DEF ReleasePopped
    <3> QED BY <2>1, <2>2, <2>3, <2>5, <3>1, UnlostPopped DEF Unregister
  <2> QED BY <1>4, <2>4, <2>5 DEF ReleasePopped
<1>5. ASSUME NEW u \in Workers, Discard(u)
      PROVE  Unlost'
  <2>1. Alone(u) /\ pc[u] \in {"have", "validate"} /\ pc'[u] \notin Holding /\ live' = live
    BY <1>5 DEF Discard, Breaks, Alone
  <2>2. popped[u] = {} /\ carries[u] \in Transports
    BY <1>5, <2>1 DEF HandsOk
  <2>3. \A w \in Workers : /\ pc'[w] \in Holding => pc[w] \in Holding /\ carries'[w] = carries[w]
                           /\ pc[w] = "register" => pc'[w] = "register" /\ carries'[w] = carries[w]
    BY <2>1 DEF Alone
  <2>4. CASE UNCHANGED <<reg, popped>>
    BY <2>1, <2>3, <2>4, UnlostKept
  <2>5. CASE /\ carries[u] \in reg /\ count'[carries[u]] = 0
             /\ Unregister({carries[u]}) /\ Pop(u, {carries[u]})
    <3>1. \A x \in {carries[u]} : Holders(x)' = {} /\ \A s \in Threads : x \notin popped[s]
      BY <1>5, <2>1, <2>5, LeftEmpty DEF Discard
    <3> QED BY <2>1, <2>2, <2>3, <2>5, <3>1, UnlostPopped DEF Unregister
  <2> QED BY <1>5, <2>4, <2>5 DEF Discard
<1>6. ASSUME NEW u \in Workers, DropDead(u)
      PROVE  Unlost'
  <2>1. carries[u] \notin live
    BY <1>6 DEF DropDead, HandsOk
  <2>2. ClosedUnderNobody'
    BY <1>6 DEF DropDead, Unregister, SftpInv, ClosedUnderNobody, Holders
  <2>3. NoTransportLost'
    BY <1>6, <2>1 DEF DropDead, Unregister, SftpInv, NoTransportLost
  <2> QED BY <2>2, <2>3 DEF Unlost
<1>7. ASSUME NEW u \in Workers, CountLost(u) \/ ValidateOk(u) \/ Watch(u)
      PROVE  Unlost'
  BY <1>7, UnlostKept DEF CountLost, ValidateOk, Watch
<1>8. ASSUME NEW u \in Workers, CountIdle(u) \/ Discarded(u) \/ EndWave(u)
      PROVE  Unlost'
  BY <1>8, UnlostKept DEF CountIdle, Discarded, EndWave
<1>9. ASSUME NEW u \in Workers, Signal(u)
      PROVE  Unlost'
  BY <1>9, UnlostKept DEF Signal, Returns
<1>10. ASSUME NEW u \in Workers, WorkerDrops(u)
      PROVE  Unlost'
  BY <1>10, UnlostClosed DEF WorkerDrops
<1>11. ASSUME NEW c \in Closers, Close(c)
      PROVE  Unlost'
  BY <1>11, UnlostKept DEF Close
<1>12. ASSUME NEW c \in Closers, CloserDrops(c)
      PROVE  Unlost'
  BY <1>12, UnlostClosed DEF CloserDrops
<1>13. ASSUME NEW c \in Closers, Teardown(c)
      PROVE  Unlost'
  <2>1. /\ popped[c] = {} /\ live' = live /\ carries' = carries
        /\ \A w \in Workers : pc'[w] = pc[w]
    BY <1>13 DEF Teardown, HandsOk
  <2>2. PICK ts \in SUBSET {t \in reg : count[t] = idle[t]} : Unregister(ts) /\ Pop(c, ts)
    BY <1>13 DEF Teardown
  <2>3. ts \subseteq Transports /\ reg' = reg \ ts
    BY <2>2 DEF Unregister
  <2>4. \A x \in ts : Holders(x)' = {} /\ \A s \in Threads : x \notin popped[s]
    <3> SUFFICES ASSUME NEW x \in ts
                 PROVE  Holders(x)' = {} /\ \A s \in Threads : x \notin popped[s]
      OBVIOUS
    <3>1. x \in reg /\ (count[x] = idle[x] \/ count[x] = 0)
      BY <2>2
    <3>2. Holders(x) = {}
      BY <3>1, AllIdleIsUnheld
    <3> QED BY <2>1, <3>1, <3>2 DEF Holders, SftpInv, ClosedUnderNobody
  <2> QED BY <2>1, <2>2, <2>3, <2>4, UnlostPopped
<1>14. CASE Expire
  <2>1. /\ popped[Pruner] = {} /\ live' = live /\ carries' = carries
        /\ \A w \in Workers : pc'[w] = pc[w]
    BY <1>14 DEF Expire, HandsOk
  <2>2. PICK ts \in SUBSET Empties : Unregister(ts) /\ Pop(Pruner, ts)
    BY <1>14 DEF Expire
  <2>3. ts \subseteq Transports /\ reg' = reg \ ts
    BY <2>2 DEF Unregister, Empties
  <2>4. \A x \in ts : Holders(x)' = {} /\ \A s \in Threads : x \notin popped[s]
    <3> SUFFICES ASSUME NEW x \in ts
                 PROVE  Holders(x)' = {} /\ \A s \in Threads : x \notin popped[s]
      OBVIOUS
    <3>1. x \in reg /\ (count[x] = idle[x] \/ count[x] = 0)
      BY <2>2 DEF Empties
    <3>2. Holders(x) = {}
      BY <3>1, AllIdleIsUnheld
    <3> QED BY <2>1, <3>1, <3>2 DEF Holders, SftpInv, ClosedUnderNobody
  <2> QED BY <2>1, <2>2, <2>3, <2>4, UnlostPopped
<1>15. CASE Look \/ PrunerShutDown \/ PrunerSignals \/ Retire
  BY <1>15, UnlostKept DEF Look, PrunerShutDown, PrunerSignals, Retire
<1>16. CASE PrunerDrops
  BY <1>16, UnlostClosed DEF PrunerDrops
<1>17. CASE RequestShutdown \/ (\E t \in Transports : Die(t)) \/ UNCHANGED vars
  BY <1>17, UnlostKept DEF RequestShutdown, Die, vars
<1> QED BY <1>1, <1>2, <1>3, <1>4, <1>5, <1>6, <1>7, <1>8, <1>9, <1>10,
           <1>11, <1>12, <1>13, <1>14, <1>15, <1>16, <1>17
        DEF Next, PopIdle, KeeperPops, GiveBack, Break, Proceed, Prune

-----------------------------------------------------------------------------
(* A torn-down pool stays clean, and the empty transports are watched.     *)

Clean == TornDownStaysClean /\ EmptiesAreWatched

(* A registered transport with no idle channel is held iff its count says. *)
CountedWhenTorn == torn => \A t \in Transports : idle[t] = 0 /\ (t \in reg => count[t] # 0)

LEMMA TornIs ==
  /\ TypeOK /\ Channels => (TornDownStaysClean <=> CountedWhenTorn)
  /\ TypeOK' /\ Channels' => (TornDownStaysClean' <=> CountedWhenTorn')
<1>1. ASSUME NEW S \in SUBSET Workers
      PROVE  Cardinality(S) \in Nat /\ (Cardinality(S) = 0 <=> S = {})
  BY WorkersFinite, FS_Subset, FS_CardinalityType, FS_EmptySet
<1>2. \A t : Holders(t) \in SUBSET Workers /\ Holders(t)' \in SUBSET Workers
  BY DEF Holders
<1>3. ASSUME NEW t \in Transports, TypeOK, Channels
      PROVE  t \in reg /\ idle[t] = 0 => (count[t] # 0 <=> Holders(t) # {})
  BY <1>1, <1>2, <1>3 DEF Channels, ChannelAccounting, TypeOK
<1>4. ASSUME NEW t \in Transports, TypeOK', Channels'
      PROVE  t \in reg' /\ idle'[t] = 0 => (count'[t] # 0 <=> Holders(t)' # {})
  BY <1>1, <1>2, <1>4 DEF Channels, ChannelAccounting, TypeOK
<1>5. TypeOK /\ Channels => (TornDownStaysClean <=> CountedWhenTorn)
  BY <1>3 DEF TornDownStaysClean, CountedWhenTorn
<1>6. TypeOK' /\ Channels' => (TornDownStaysClean' <=> CountedWhenTorn')
  BY <1>4 DEF TornDownStaysClean, CountedWhenTorn
<1> QED BY <1>5, <1>6

(* What every step but a few guarantees: no transport is emptied, and the  *)
(* pruner and those about to start it do not stop.                         *)
StaysFull == \A t \in reg' : (t \in reg /\ count'[t] = count[t]) \/ count'[t] # 0
StaysClean == torn' = torn /\ (closed => \A t \in Transports : idle[t] = 0 => idle'[t] = 0)
StaysWatched ==
  /\ shutdown' = shutdown /\ (closed => closed') /\ (pc[Pruner] # "out" => pc'[Pruner] # "out")
  /\ \A w \in Workers : pc[w] \in {"emptied", "watch"} => pc'[w] \in {"emptied", "watch"}

LEMMA TornKept ==
  ASSUME SftpInv, TypeOK', Channels', StaysFull, StaysClean
  PROVE  TornDownStaysClean'
<1>1. CountedWhenTorn /\ (torn => closed)
  BY TornIs DEF SftpInv, Channels, ClosedFirst
<1>2. reg' \subseteq Transports
  BY DEF TypeOK
<1>3. CountedWhenTorn'
  BY <1>1, <1>2 DEF StaysFull, StaysClean, CountedWhenTorn
<1> QED BY <1>3, TornIs

LEMMA CleanKept ==
  ASSUME SftpInv, TypeOK', Channels', StaysFull, StaysClean, StaysWatched
  PROVE  Clean'
<1>1. Empties' \subseteq Empties
  BY DEF Empties, StaysFull
<1>2. EmptiesAreWatched'
  BY <1>1 DEF EmptiesAreWatched, StaysWatched, SftpInv
<1> QED BY <1>2, TornKept DEF Clean

(* The last channel of a transport in an open pool goes.                   *)
LEMMA CleanEmptied ==
  ASSUME SftpInv, NEW u \in Workers, pc'[u] \in {"emptied", "watch"}, ~closed, torn' = torn
  PROVE  Clean'
BY DEF Clean, TornDownStaysClean, EmptiesAreWatched, SftpInv, ClosedFirst

LEMMA GrowClean ==
  ASSUME SftpInv, NEW u \in Users, Grow(u)
  PROVE  Clean'
<1> USE Members DEF ledger, gate, down, Goto, StaysFull, StaysClean, StaysWatched
<1>0. TypeOK /\ TypeOK' /\ Channels'
  BY GrowTypes, GrowChannels DEF SftpInv
<1>1. /\ reg \subseteq Transports /\ pc \in [Threads -> Labels]
      /\ count \in [Transports -> Nat]
  BY <1>0 DEF TypeOK
<1> USE <1>0, <1>1
<1>2. CASE PopEmpty(u) \/ CheckClosed(u) \/ CheckOpen(u) \/ AtCeiling(u) \/ ReserveSlot(u)
  BY <1>2, CleanKept DEF PopEmpty, CheckClosed, CheckOpen, AtCeiling, ReserveSlot, LeaveRetry
<1>3. CASE DialCancelled(u) \/ DialOk(u) \/ DialOutlivesPool(u) \/ DialFailed(u) \/ AnyActive(u)
  BY <1>3, CleanKept
     DEF DialCancelled, DialOk, DialOutlivesPool, DialFailed, AnyActive, LeaveRetry
<1>4. CASE OpenOk(u) \/ Track(u) \/ Pin(u)
  BY <1>4, CleanKept DEF OpenOk, Track, Pin, LeaveRetry
<1>5. ASSUME NEW t \in Transports, ClaimOn(u, t), pc[u] \in {"reserve", "diallock"},
             UNCHANGED <<gate, down>>
      PROVE  Clean'
  <2>1. count'[t] # 0
    BY <1>5 DEF ClaimOn, AddTo
  <2> QED BY <1>5, <2>1, CleanKept DEF ClaimOn, AddTo
<1>6. CASE Reserve(u)
  BY <1>6, <1>5, CleanKept DEF Reserve
<1>7. CASE RePick(u)
  BY <1>7, <1>5, CleanKept DEF RePick
<1>8. CASE Register(u)
  <2>1. carries[u] \in Transports
    BY <1>8 DEF Register, SftpInv, HandsOk
  <2>2. reg' = reg \cup {carries[u]} /\ \A t \in Transports :
          count'[t] = IF t = carries[u] THEN 1 ELSE count[t]
    BY <1>8, <2>1 DEF Register
  <2>3. StaysFull
    BY <2>1, <2>2
  <2>4. StaysClean /\ StaysWatched
    BY <1>8 DEF Register
  <2> QED BY <2>3, <2>4, CleanKept
<1>9. ASSUME NEW back \in {"pin", "out"}, pc[u] = "open", Rollback(u, back)
      PROVE  Clean'
  <2>1. StaysFull
    BY <1>9 DEF Rollback, Abandons, Unregister, AddTo
  <2> QED BY <1>9, <2>1, CleanKept DEF Rollback
<1>10. CASE OpenRefused(u) \/ OpenFailed(u)
  BY <1>10, <1>9 DEF OpenRefused, OpenFailed
<1> QED BY <1>2, <1>3, <1>4, <1>6, <1>7, <1>8, <1>10 DEF Grow

LEMMA OtherClean ==
  ASSUME SftpInv, [Next]_vars, \A u \in Users : ~Grow(u)
  PROVE  Clean'
<1> USE Members DEF ledger, gate, down, Goto, StaysFull, StaysClean, StaysWatched
<1>0. TypeOK /\ TypeOK' /\ Channels' /\ HandsOk
  BY OtherTypes, OtherChannels DEF SftpInv
<1>1. /\ reg \subseteq Transports /\ pc \in [Threads -> Labels]
      /\ count \in [Transports -> Nat] /\ idle \in [Transports -> Nat]
  BY <1>0 DEF TypeOK
<1> USE <1>0, <1>1
<1>2. ASSUME NEW u \in Workers, TakeIdle(u), pc[u] \in {"pop", "out"}
      PROVE  Clean'
  BY <1>2, CleanKept DEF TakeIdle, AddTo
<1>3. ASSUME NEW u \in Users, Acquire(u) \/ Retry(u) \/ Wake(u)
      PROVE  Clean'
  BY <1>3, CleanKept DEF Acquire, Wake, Retry, TopClosed, Top, GiveUp, EpochCheck, LeaveRetry
<1>4. ASSUME NEW u \in Workers, Sample(u) \/ BreakDead(u)
      PROVE  Clean'
  BY <1>4, CleanKept DEF Sample, BreakDead, Breaks
<1>5. ASSUME NEW u \in Workers, ReleaseIdle(u)
      PROVE  Clean'
  BY <1>5, CleanKept DEF ReleaseIdle, Settles, KeepsOut
<1>6. ASSUME NEW u \in Workers, ReleasePopped(u)
      PROVE  Clean'
  <2>1. torn' = torn /\ closed' = closed /\ shutdown' = shutdown /\ idle' = idle
    BY <1>6 DEF ReleasePopped, Settles
  <2>2. CASE pc'[u] = "watch" /\ ~closed
    BY <2>1, <2>2, CleanEmptied
  <2>3. CASE StaysFull
    BY <1>6, <2>1, <2>3, CleanKept DEF ReleasePopped
  <2> QED BY <1>6, <2>2, <2>3 DEF ReleasePopped, Unregister, AddTo
<1>7. ASSUME NEW u \in Workers, Discard(u)
      PROVE  Clean'
  <2>1. torn' = torn /\ closed' = closed /\ shutdown' = shutdown /\ idle' = idle
    BY <1>7 DEF Discard
  <2>2. CASE pc'[u] = "emptied" /\ ~closed
    BY <2>1, <2>2, CleanEmptied
  <2>3. CASE StaysFull
    BY <1>7, <2>1, <2>3, CleanKept DEF Discard, Breaks
  <2> QED BY <1>7, <2>2, <2>3 DEF Discard, Unregister, AddTo
<1>8. ASSUME NEW u \in Workers, DropDead(u)
      PROVE  Clean'
  BY <1>8, CleanKept DEF DropDead, Unregister
<1>9. ASSUME NEW u \in Workers, CountIdle(u) \/ ValidateOk(u) \/ EndWave(u) \/ CountLost(u)
      PROVE  Clean'
  BY <1>9, CleanKept DEF CountIdle, ValidateOk, EndWave, CountLost, LeaveRetry
<1>10. ASSUME NEW u \in Workers, Discarded(u)
      PROVE  Clean'
  <2>1. pc[u] = "emptied" => pc'[u] = "watch" \/ popped[u] # {}
    BY <1>10 DEF Discarded
  <2>2. pc[u] = "emptied" => popped[u] = {}
    BY DEF HandsOk
  <2> QED BY <1>10, <2>1, <2>2, CleanKept DEF Discarded
<1>11. ASSUME NEW u \in Workers, Watch(u)
      PROVE  Clean'
  <2>1. StaysFull /\ StaysClean
    BY <1>11 DEF Watch
  <2>2. closed' = closed /\ (closed \/ pc'[Pruner] # "out")
    BY <1>11 DEF Watch
  <2> QED BY <2>1, <2>2, TornKept DEF Clean, EmptiesAreWatched
<1>12. ASSUME NEW u \in Workers, Signal(u)
      PROVE  Clean'
  BY <1>12, CleanKept DEF Signal
<1>13. ASSUME NEW u \in Workers, WorkerDrops(u)
      PROVE  Clean'
  BY <1>13, CleanKept DEF WorkerDrops, DropOne
<1>14. ASSUME NEW c \in Closers, Close(c) \/ CloserDrops(c)
      PROVE  Clean'
  BY <1>14, CleanKept DEF Close, CloserDrops, DropOne
<1>15. ASSUME NEW c \in Closers, Teardown(c)
      PROVE  Clean'
  <2>1. closed'
    BY <1>15 DEF Teardown, SftpInv, ClosedFirst
  <2>2. \A t \in Transports : idle'[t] = 0 /\ (t \in reg' => count'[t] # 0)
    BY <1>15 DEF Teardown, Unregister
  <2>3. TornDownStaysClean'
    BY <2>2, TornIs DEF CountedWhenTorn
  <2> QED BY <2>1, <2>3 DEF Clean, EmptiesAreWatched
<1>16. CASE Expire
  BY <1>16, CleanKept DEF Expire, Unregister
<1>17. CASE Look \/ PrunerSignals \/ PrunerDrops
  BY <1>17, CleanKept DEF Look, PrunerSignals, PrunerDrops, DropOne, AfterPrune
<1>18. CASE PrunerShutDown \/ RequestShutdown
  <2>1. StaysFull /\ StaysClean /\ shutdown'
    BY <1>18 DEF PrunerShutDown, RequestShutdown
  <2> QED BY <2>1, TornKept DEF Clean, EmptiesAreWatched
<1>19. CASE Retire
  <2>1. StaysFull /\ StaysClean /\ Empties' = Empties
    BY <1>19 DEF Retire, Empties
  <2>2. Empties # {} => pc'[Pruner] # "out"
    BY <1>19 DEF Retire
  <2> QED BY <2>1, <2>2, TornKept DEF Clean, EmptiesAreWatched
<1>20. CASE (\E t \in Transports : Die(t)) \/ UNCHANGED vars
  BY <1>20, CleanKept DEF Die, vars
<1> QED BY <1>2, <1>3, <1>4, <1>5, <1>6, <1>7, <1>8, <1>9, <1>10, <1>11, <1>12, <1>13,
           <1>14, <1>15, <1>16, <1>17, <1>18, <1>19, <1>20
        DEF Next, PopIdle, KeeperPops, GiveBack, Break, Proceed, Prune

-----------------------------------------------------------------------------
(* No wakeup is forgotten. *)

Wakeups == WakeupsKept /\ FailureTold

(* How far a worker has looked, and who will signal.                       *)
PastPop == {"reserve", "diallock", "check", "slot", "recheck", "parked"}
PastChoice == {"check", "slot", "recheck", "parked"}
PastCeiling == {"recheck", "parked"}
Loud == {"signal", "drop", "pin", "watch", "discarded", "emptied"}

NoIdle == \A t \in Transports : idle[t] = 0
NoRoom == Usable \subseteq measured
NoSlot == size >= MaxTransports /\ \A w \in Workers : pc[w] \notin Dialling

(* What every step guarantees that frees nothing, ends no signaller and    *)
(* sends nobody to where it was not, unless it looked first.               *)
FreesNothing ==
  /\ NoIdle => NoIdle'
  /\ NoRoom => NoRoom'
  /\ NoSlot => NoSlot'
EndsNoSignaller ==
  /\ \A w \in Workers : pc[w] \in Loud => pc'[w] = pc[w]
  /\ pc[Pruner] \in {"signal", "drop"} => pc'[Pruner] = pc[Pruner]
LooksFirst ==
  \A v \in retrying' \ woken' :
    /\ pc'[v] \in PastPop => (pc[v] \in PastPop \/ NoIdle) /\ v \in retrying \ woken
    /\ pc'[v] \in PastChoice => pc[v] \in PastChoice \/ NoRoom
    /\ pc'[v] \in PastCeiling => pc[v] \in PastCeiling \/ NoSlot
TellsAsBefore ==
  \A v \in retrying' \ woken' :
    pc'[v] = "anyactive" => pc[v] = "anyactive" /\ v \in retrying \ woken

LEMMA WakeupsAre ==
  /\ WakeupsKept <=>
       (~closed /\ Signalling = {} => \A v \in retrying \ woken :
          /\ pc[v] \in PastPop => NoIdle
          /\ pc[v] \in PastChoice => NoRoom
          /\ pc[v] \in PastCeiling => NoSlot)
  /\ WakeupsKept' <=>
       (~closed' /\ Signalling' = {} => \A v \in retrying' \ woken' :
          /\ pc'[v] \in PastPop => NoIdle'
          /\ pc'[v] \in PastChoice => NoRoom'
          /\ pc'[v] \in PastCeiling => NoSlot')
BY DEF WakeupsKept, PastPop, PastChoice, PastCeiling, NoIdle, NoRoom, NoSlot

LEMMA WakeupsQuiet ==
  ASSUME SftpInv, TypeOK', closed => closed',
         FreesNothing, EndsNoSignaller, LooksFirst, TellsAsBefore
  PROVE  Wakeups'
<1>1. FailureTold'
  BY DEF FailureTold, SftpInv, TellsAsBefore, TypeOK
<1>2. WakeupsKept'
  <2> SUFFICES ASSUME ~closed', Signalling' = {}, NEW v \in retrying' \ woken'
               PROVE  /\ pc'[v] \in PastPop => NoIdle'
                      /\ pc'[v] \in PastChoice => NoRoom'
                      /\ pc'[v] \in PastCeiling => NoSlot'
    BY WakeupsAre
  <2>1. v \in Users
    BY DEF TypeOK
  <2>2. ~closed /\ Signalling = {}
    BY DEF Signalling, EndsNoSignaller, Loud
  <2>3. v \in retrying \ woken =>
          /\ pc[v] \in PastPop => NoIdle
          /\ pc[v] \in PastChoice => NoRoom
          /\ pc[v] \in PastCeiling => NoSlot
    BY <2>2, WakeupsAre DEF SftpInv
  <2>4. pc'[v] \in PastChoice => pc'[v] \in PastPop
    BY DEF PastChoice, PastPop
  <2>5. pc'[v] \in PastCeiling => pc'[v] \in PastPop
    BY DEF PastCeiling, PastPop
  <2> QED BY <2>1, <2>3, <2>4, <2>5 DEF FreesNothing, LooksFirst
<1> QED BY <1>1, <1>2 DEF Wakeups

LEMMA WakeupsLoud ==
  ASSUME SftpInv, closed => closed', TellsAsBefore, TypeOK',
         \/ \E u \in Workers : pc'[u] \in Loud
         \/ pc'[Pruner] \in {"signal", "drop"}
  PROVE  Wakeups'
<1>1. FailureTold'
  BY DEF FailureTold, SftpInv, TellsAsBefore, TypeOK
<1>2. Signalling' # {}
  BY DEF Signalling, Loud
<1> QED BY <1>1, <1>2, WakeupsAre DEF Wakeups

LEMMA WakeupsOver ==
  ASSUME closed' \/ retrying' \subseteq woken'
  PROVE  Wakeups'
BY WakeupsAre DEF Wakeups, FailureTold

LEMMA GrowWakeups ==
  ASSUME SftpInv, NEW u \in Users, Grow(u)
  PROVE  Wakeups'
<1> USE Members, GrowTypes
    DEF ledger, gate, down, Goto, FreesNothing, EndsNoSignaller, LooksFirst, TellsAsBefore,
        PastPop, PastChoice, PastCeiling, Loud, NoIdle, NoSlot, Dialling
<1>0. /\ pc \in [Threads -> Labels] /\ reg \subseteq Transports
      /\ count \in [Transports -> Nat] /\ size \in Nat
      /\ retrying \subseteq Users /\ retrying' \subseteq Users
  BY DEF SftpInv, TypeOK
<1> USE <1>0
<1>1. CASE PopEmpty(u)
  BY <1>1, WakeupsQuiet DEF PopEmpty, NoRoom, Usable
<1>2. ASSUME NEW t \in Transports, ClaimOn(u, t), pc[u] \in {"reserve", "diallock"},
             UNCHANGED <<size, live, gate>>
      PROVE  Wakeups'
  <2>1. Usable' \subseteq Usable
    BY <1>2 DEF ClaimOn, AddTo, Usable, SftpInv, TypeOK
  <2> QED BY <1>2, <2>1, WakeupsQuiet DEF ClaimOn, NoRoom
<1>3. CASE Reserve(u)
  <2>1. CASE \E t \in Transports : ClaimOn(u, t)
    BY <1>2, <1>3, <2>1 DEF Reserve
  <2>2. CASE Goto(u, "diallock") /\ UNCHANGED <<ledger, carries>>
    BY <1>3, <2>2, WakeupsQuiet DEF Reserve, NoRoom, Usable
  <2> QED BY <1>3, <2>1, <2>2 DEF Reserve
<1>4. CASE RePick(u)
  <2>1. CASE \E t \in Transports : ClaimOn(u, t)
    BY <1>2, <1>4, <2>1 DEF RePick
  <2>2. CASE NoneEligible /\ Goto(u, "check") /\ UNCHANGED <<ledger, carries>>
    BY <1>4, <2>2, WakeupsQuiet DEF RePick, NoneEligible, NoRoom, Usable
  <2> QED BY <1>4, <2>1, <2>2 DEF RePick
<1>5. CASE CheckClosed(u)
  BY <1>5, WakeupsOver DEF CheckClosed, LeaveRetry
<1>6. CASE CheckOpen(u)
  BY <1>6, WakeupsQuiet DEF CheckOpen, NoRoom, Usable
<1>7. CASE AtCeiling(u)
  <2>1. NoSlot
    BY <1>7 DEF AtCeiling, SftpInv, DialsInTurn
  <2> QED BY <1>7, <2>1, WakeupsQuiet DEF AtCeiling, NoRoom, Usable, Missed
<1>8. CASE ReserveSlot(u)
  <2>1. ~NoSlot
    BY <1>8, SftpAssumption DEF ReserveSlot
  <2> QED BY <1>8, <2>1, WakeupsQuiet DEF ReserveSlot, NoRoom, Usable
<1>9. CASE DialCancelled(u) \/ DialOutlivesPool(u)
  BY <1>9, WakeupsOver DEF DialCancelled, DialOutlivesPool, SftpInv, ClosedFirst
<1>10. CASE DialOk(u)
  <2>1. Usable' = Usable
    BY <1>10 DEF DialOk, Unused, Usable
  <2> QED BY <1>10, <2>1, WakeupsQuiet DEF DialOk, NoRoom
<1>11. CASE DialFailed(u)
  BY <1>11, WakeupsLoud DEF DialFailed
<1>12. CASE AnyActive(u)
  <2>1. CASE u \in retrying /\ ~closed
    <3>1. u \in woken
      BY <1>12, <2>1 DEF AnyActive, SftpInv, FailureTold
    <3> QED BY <1>12, <3>1, WakeupsQuiet DEF AnyActive, NoRoom, Usable, Missed, LeaveRetry
  <2>2. CASE u \notin retrying
    BY <1>12, <2>2, WakeupsQuiet DEF AnyActive, NoRoom, Usable, Missed, LeaveRetry
  <2>3. CASE closed
    BY <1>12, <2>3, WakeupsOver DEF AnyActive, LeaveRetry
  <2> QED BY <2>1, <2>2, <2>3
<1>13. CASE Register(u)
  <2>1. \A v \in Workers : pc[v] \notin {"check", "slot"}
    BY <1>13 DEF Register, SftpInv, DialsInTurn
  <2>2. FailureTold'
    BY <1>13 DEF Register, SftpInv, FailureTold
  <2>3. WakeupsKept'
    <3> SUFFICES ASSUME ~closed', Signalling' = {}, NEW v \in retrying' \ woken'
                 PROVE  /\ pc'[v] \in PastPop => NoIdle'
                        /\ pc'[v] \in PastChoice => NoRoom'
                        /\ pc'[v] \in PastCeiling => NoSlot'
      BY WakeupsAre
    <3>1. ~closed /\ Signalling = {} /\ v \in retrying \ woken /\ v \in Users
      BY <1>13 DEF Register, Signalling, SftpInv, TypeOK
    <3>2. /\ pc[v] \in PastPop => NoIdle
          /\ pc[v] \in PastCeiling => NoSlot
      BY <3>1, WakeupsAre DEF SftpInv
    <3>3. pc[v] \notin PastCeiling
      BY <1>13, <3>2 DEF Register
    <3> QED BY <1>13, <2>1, <3>1, <3>2, <3>3 DEF Register
  <2> QED BY <2>2, <2>3 DEF Wakeups
<1>14. CASE OpenOk(u) \/ Track(u)
  BY <1>14, WakeupsQuiet DEF OpenOk, Track, NoRoom, Usable, LeaveRetry
<1>15. CASE OpenRefused(u) \/ OpenFailed(u)
  BY <1>15, WakeupsLoud DEF OpenRefused, OpenFailed, Rollback
<1>16. CASE Pin(u)
  BY <1>16, WakeupsLoud DEF Pin
<1> QED BY <1>1, <1>3, <1>4, <1>5, <1>6, <1>7, <1>8, <1>9, <1>10, <1>11, <1>12, <1>13,
           <1>14, <1>15, <1>16 DEF Grow

LEMMA OtherWakeups ==
  ASSUME SftpInv, [Next]_vars, \A u \in Users : ~Grow(u)
  PROVE  Wakeups'
<1> USE Members, OtherTypes
    DEF ledger, gate, down, Goto, FreesNothing, EndsNoSignaller, LooksFirst, TellsAsBefore,
        PastPop, PastChoice, PastCeiling, Loud, NoIdle, NoSlot, Dialling
<1>0. /\ pc \in [Threads -> Labels] /\ reg \subseteq Transports
      /\ idle \in [Transports -> Nat] /\ size \in Nat
      /\ retrying \subseteq Users /\ retrying' \subseteq Users
  BY DEF SftpInv, TypeOK
<1> USE <1>0
<1>1. ASSUME NEW u \in Workers, TakeIdle(u), pc[u] \in {"pop", "out"}
      PROVE  Wakeups'
  BY <1>1, WakeupsQuiet DEF TakeIdle, AddTo, NoRoom, Usable
<1>2. ASSUME NEW u \in Users, Acquire(u) \/ Wake(u)
      PROVE  Wakeups'
  BY <1>2, WakeupsQuiet DEF Acquire, Wake, NoRoom, Usable
<1>3. ASSUME NEW u \in Users, Retry(u)
      PROVE  Wakeups'
  BY <1>3, WakeupsQuiet
     DEF Retry, TopClosed, Top, GiveUp, EpochCheck, LeaveRetry, NoRoom, Usable
<1>4. ASSUME NEW u \in Workers, Sample(u) \/ BreakDead(u)
      PROVE  Wakeups'
  BY <1>4, WakeupsQuiet DEF Sample, BreakDead, Breaks, NoRoom, Usable
<1>5. ASSUME NEW u \in Workers, ReleaseIdle(u) \/ ReleasePopped(u) \/ Discard(u)
      PROVE  Wakeups'
  BY <1>5, WakeupsLoud DEF ReleaseIdle, ReleasePopped, Settles, Discard, Breaks
<1>6. ASSUME NEW u \in Workers, DropDead(u)
      PROVE  Wakeups'
  <2>1. (NoRoom => NoRoom') /\ (NoIdle => NoIdle')
    BY <1>6 DEF DropDead, Unregister, NoRoom, Usable
  <2> QED BY <1>6, <2>1, WakeupsQuiet DEF DropDead
<1>7. ASSUME NEW u \in Workers, CountIdle(u) \/ ValidateOk(u) \/ EndWave(u)
      PROVE  Wakeups'
  BY <1>7, WakeupsQuiet DEF CountIdle, ValidateOk, EndWave, LeaveRetry, NoRoom, Usable
<1>8. ASSUME NEW u \in Workers, Discarded(u) \/ CountLost(u) \/ Watch(u)
      PROVE  Wakeups'
  BY <1>8, WakeupsLoud DEF Discarded, CountLost, Watch
<1>9. ASSUME NEW u \in Workers, WorkerDrops(u)
      PROVE  Wakeups'
  BY <1>9, WakeupsLoud DEF WorkerDrops, DropOne
<1>10. ASSUME NEW u \in Workers, Signal(u)
      PROVE  Wakeups'
  BY <1>10, WakeupsOver DEF Signal
<1>11. ASSUME NEW c \in Closers, Close(c) \/ Teardown(c) \/ CloserDrops(c)
      PROVE  Wakeups'
  BY <1>11, WakeupsOver DEF Close, Teardown, CloserDrops, DropOne, SftpInv, ClosedFirst
<1>12. CASE Expire
  <2>1. PICK ts \in SUBSET Empties :
          /\ Unregister(ts) /\ Goto(Pruner, IF ts = {} THEN "look" ELSE "drop")
    BY <1>12 DEF Expire
  <2>2. CASE ts = {}
    <3>1. UNCHANGED <<reg, measured>> /\ \A t \in Transports : cap'[t] = cap[t]
      BY <2>1, <2>2 DEF Unregister
    <3>2. NoRoom => NoRoom'
      BY <1>12, <3>1 DEF Expire, NoRoom, Usable
    <3> QED BY <1>12, <2>1, <2>2, <3>2, WakeupsQuiet DEF Expire
  <2>3. CASE ts # {}
    BY <1>12, <2>1, <2>3, WakeupsLoud DEF Expire
  <2> QED BY <2>2, <2>3
<1>13. CASE Look \/ PrunerShutDown \/ Retire
  BY <1>13, WakeupsQuiet DEF Look, PrunerShutDown, Retire, NoRoom, Usable
<1>14. CASE PrunerDrops
  BY <1>14, WakeupsLoud DEF PrunerDrops, DropOne, AfterPrune
<1>15. CASE PrunerSignals
  BY <1>15, WakeupsOver DEF PrunerSignals
<1>16. CASE RequestShutdown \/ (\E t \in Transports : Die(t)) \/ UNCHANGED vars
  BY <1>16, WakeupsQuiet DEF RequestShutdown, Die, vars, NoRoom, Usable
<1> QED BY <1>1, <1>2, <1>3, <1>4, <1>5, <1>6, <1>7, <1>8, <1>9, <1>10, <1>11, <1>12,
           <1>13, <1>14, <1>15, <1>16
        DEF Next, PopIdle, KeeperPops, GiveBack, Break, Proceed, Prune

-----------------------------------------------------------------------------
LEMMA SftpInvInit == Init => SftpInv
<1> SUFFICES ASSUME Init PROVE SftpInv
  OBVIOUS
<1> USE Members, SftpAssumption DEF Init, Threads
<1>1. TypeOK
  <2>1. "out" \in Labels /\ "out" \in Returns
    BY LabelsAre DEF Returns
  <2>2. ChannelsPerTransport \in 1..ChannelsPerTransport
    OBVIOUS
  <2> QED BY <2>1, <2>2 DEF TypeOK
<1>2. ClosedFirst /\ HandsOk /\ ReturnsOk /\ FreshDials /\ DialsInTurn
  BY DEF ClosedFirst, HandsOk, ReturnsOk, FreshDials, DialsInTurn, Holding, Reserving, Dialling
<1>3. ASSUME NEW t
      PROVE  Holders(t) = {} /\ Cardinality(Holders(t)) = 0
  <2>1. \A u \in Workers : pc[u] = "out"
    OBVIOUS
  <2>2. Holders(t) = {}
    BY <2>1 DEF Holders, Holding, Reserving
  <2> QED BY <2>2, FS_EmptySet
<1>4. ChannelAccounting /\ CountCovers
  BY <1>3 DEF ChannelAccounting, CountCovers
<1>5. Chargers = {} /\ ToClose = {} /\ Outstanding = {}
  BY DEF Chargers, Charged, Dialling, ToClose, Outstanding, Counted
<1>6. SizeAccounting /\ IsFiniteSet(ToClose) /\ InFlightAccounting
  BY <1>5, FS_EmptySet, SizeIs, InFlightIs
<1>7. ClosedUnderNobody /\ NoTransportLost
  BY DEF ClosedUnderNobody, NoTransportLost
<1>8. TornDownStaysClean /\ EmptiesAreWatched /\ WakeupsKept /\ FailureTold
  BY DEF TornDownStaysClean, EmptiesAreWatched, Empties, WakeupsKept, FailureTold
<1> QED BY <1>1, <1>2, <1>4, <1>6, <1>7, <1>8 DEF SftpInv

LEMMA SftpInvariant == Spec => []SftpInv
<1>1. SftpInv /\ [Next]_vars => SftpInv'
  <2> SUFFICES ASSUME SftpInv, [Next]_vars PROVE SftpInv'
    OBVIOUS
  <2>1. CASE \E u \in Users : Grow(u)
    BY <2>1, GrowTypes, GrowControl, GrowChannels, GrowSizes, GrowFlights, GrowUnlost,
       GrowClean, GrowWakeups
       DEF SftpInv, Control, Channels, Sizes, Unlost, Clean, Wakeups
  <2>2. CASE \A u \in Users : ~Grow(u)
    BY <2>2, OtherTypes, OtherControl, OtherChannels, OtherSizes, OtherFlights, OtherUnlost,
       OtherClean, OtherWakeups
       DEF SftpInv, Control, Channels, Sizes, Unlost, Clean, Wakeups
  <2> QED BY <2>1, <2>2
<1> QED BY <1>1, SftpInvInit, PTL DEF Spec

(* The variables keep their types: no count, in_flight or size goes        *)
(* negative, whatever is rolled back, discarded or swept.                  *)
THEOREM SftpTypeCorrect == Spec => []TypeOK
BY SftpInvariant, PTL DEF SftpInv

(* _current_size is the registered transports, those being dialled and     *)
(* those whose slot is still to be given back, and stays within            *)
(* max_connections, in every schedule of users, pruner and teardown.       *)
THEOREM TransportsAreAccounted == Spec => []SizeAccounting
BY SftpInvariant, PTL DEF SftpInv

(* channel_count is the idle channels plus the slots in use, within the    *)
(* transport's cap, and a transport off the ledger has nothing idle.       *)
THEOREM ChannelsAreAccounted == Spec => []ChannelAccounting
BY SftpInvariant, PTL DEF SftpInv

(* in_flight counts every channel once, from its checkout to its return.   *)
THEOREM FlightsAreAccounted == Spec => []InFlightAccounting
BY SftpInvariant, PTL DEF SftpInv

(* One dial at a time, and the dial lock is never left behind: whoever has *)
(* it is between the choice it made under it and the step that frees it.   *)
THEOREM DialsTakeTurns == Spec => []DialsInTurn
BY SftpInvariant, PTL DEF SftpInv

(* Every live transport is on the ledger or in some thread's hands.        *)
THEOREM NoTransportLeaks == Spec => []NoTransportLost
BY SftpInvariant, PTL DEF SftpInv

(* A transport that waits to be closed is off the ledger, held by nobody   *)
(* and in the hands of one thread: nobody's channel is cut under it.       *)
THEOREM NobodyIsCutOff == Spec => []ClosedUnderNobody
BY SftpInvariant, PTL DEF SftpInv

(* After the sweep of the teardown nothing is idle and nothing stays on    *)
(* the ledger but what a thread still holds.                               *)
THEOREM TornDownIsClean == Spec => []TornDownStaysClean
BY SftpInvariant, PTL DEF SftpInv

(* An open pool never keeps an empty transport that no pruner will find,   *)
(* though the pruner ends by itself and is started from several threads.   *)
THEOREM EmptiesHaveAPruner == Spec => []EmptiesAreWatched
BY SftpInvariant, PTL DEF SftpInv

(* While an attempt would succeed, a user parked unsignalled is owed a     *)
(* signal that some thread is about to give: no wakeup is lost between a   *)
(* user's look at the pool and its wait.                                   *)
THEOREM NoLostWakeup == Spec => []SignalOwed
<1>1. SftpInv => SignalOwed
  <2> SUFFICES ASSUME SftpInv, Available, ~closed, Signalling = {},
                      NEW u \in Users, pc[u] = "parked", u \notin woken
               PROVE  FALSE
    BY DEF SignalOwed
  <2>1. u \in retrying \ woken
    BY Members DEF SftpInv, ReturnsOk
  <2>2. NoIdle /\ NoRoom /\ NoSlot
    BY <2>1, WakeupsAre DEF SftpInv, PastPop, PastChoice, PastCeiling
  <2> QED BY <2>2, SftpAssumption DEF Available, NoIdle, NoRoom, NoSlot, SftpInv, TypeOK
<1> QED BY <1>1, SftpInvariant, PTL
=============================================================================
