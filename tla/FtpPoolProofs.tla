--------------------------- MODULE FtpPoolProofs ---------------------------
(***************************************************************************)
(* Proofs about FtpPool for any number of users, connections and owners:   *)
(* the types, the accounting of _current_size and _probes_in_flight, the   *)
(* bound on growth past a discovered ceiling, that a torn-down pool queues *)
(* no connection, and that no wakeup is lost.                              *)
(***************************************************************************)
EXTENDS FtpPool, FiniteSetTheorems, TLAPS

(* The labels at which a user's slot counts. *)
SlotLabels == Reserved \cup Carrying \cup {"have"}

Occupies(t, label) ==
  \/ t \in Users /\ label \in SlotLabels
  \/ t = Keeper /\ label = "ping"

(* A teardown closes the gate before it goes on, and drains the queue after. *)
TeardownOrder ==
  /\ \A t \in Threads : pc[t] \in {"mark", "drain", "scrap"} => closed
  /\ torn => closed /\ idle = {}

(* A thread has one connection in its hands exactly where its code does;   *)
(* while it scraps what a teardown drained it may have any number.         *)
Handling == Carrying \cup {"have", "ping", "dispose"}

HandsOk ==
  \A t \in Threads :
    /\ pc[t] \in Handling => \E h \in Handles : hold[t] = {h}
    /\ pc[t] \notin Handling \cup {"scrap"} => hold[t] = {}

PoolInv ==
  /\ TypeOK
  /\ SizeAccounting
  /\ ProbeAccounting
  /\ OneProbeOver
  /\ HandsOk
  /\ OnePlace
  /\ TeardownOrder

-----------------------------------------------------------------------------
LEMMA OccupantsAre ==
  /\ Occupants = {t \in Users \cup {Keeper} : Occupies(t, pc[t])}
  /\ Occupants' = {t \in Users \cup {Keeper} : Occupies(t, pc'[t])}
BY PoolAssumption DEF Occupants, Occupies, SlotLabels

LEMMA OccupantsFinite == IsFiniteSet(Occupants) /\ Cardinality(Occupants) \in Nat
<1>1. IsFiniteSet(Users \cup {Keeper})
  BY FS_AddElement, PoolAssumption
<1>2. Occupants \subseteq Users \cup {Keeper}
  BY DEF Occupants
<1> QED BY <1>1, <1>2, FS_Subset, FS_CardinalityType

LEMMA IdleFinite == TypeOK => IsFiniteSet(idle) /\ Cardinality(idle) \in Nat
BY FS_Subset, FS_CardinalityType, PoolAssumption DEF TypeOK

LEMMA ProbingFinite == TypeOK => IsFiniteSet(probing) /\ Cardinality(probing) \in Nat
BY FS_Subset, FS_CardinalityType, PoolAssumption DEF TypeOK

(* How the occupants change when one thread moves. *)
LEMMA OccupantsMove ==
  ASSUME TypeOK, NEW t \in Threads, NEW label, pc' = [pc EXCEPT ![t] = label]
  PROVE  /\ (Occupies(t, pc[t]) <=> Occupies(t, label)) => Occupants' = Occupants
         /\ ~Occupies(t, pc[t]) /\ Occupies(t, label)
              => Cardinality(Occupants') = Cardinality(Occupants) + 1
         /\ Occupies(t, pc[t]) /\ ~Occupies(t, label)
              => Cardinality(Occupants') = Cardinality(Occupants) - 1
<1>1. \A x \in Threads : pc'[x] = IF x = t THEN label ELSE pc[x]
  BY DEF TypeOK
<1>2. Users \cup {Keeper} \subseteq Threads
  BY DEF Threads
<1>3. CASE Occupies(t, pc[t]) <=> Occupies(t, label)
  <2>1. Occupants' = Occupants
    BY <1>1, <1>2, <1>3, OccupantsAre
  <2> QED BY <1>3, <2>1
<1>4. CASE ~Occupies(t, pc[t]) /\ Occupies(t, label)
  <2>1. t \in Users \cup {Keeper}
    BY <1>4 DEF Occupies
  <2>2. Occupants' = Occupants \cup {t} /\ t \notin Occupants
    BY <1>1, <1>2, <1>4, <2>1, OccupantsAre
  <2> QED BY <1>4, <2>2, FS_AddElement, OccupantsFinite
<1>5. CASE Occupies(t, pc[t]) /\ ~Occupies(t, label)
  <2>1. t \in Users \cup {Keeper}
    BY <1>5 DEF Occupies
  <2>2. Occupants' = Occupants \ {t} /\ t \in Occupants
    BY <1>1, <1>2, <1>5, <2>1, OccupantsAre
  <2> QED BY <1>5, <2>2, FS_RemoveElement, OccupantsFinite
<1> QED BY <1>3, <1>4, <1>5

(* A thread that occupies a slot is counted in size. *)
LEMMA SlotCounted ==
  ASSUME TypeOK, SizeAccounting, NEW t, Occupies(t, pc[t])
  PROVE  size - 1 \in Nat
<1>1. t \in Occupants
  BY OccupantsAre DEF Occupies
<1>2. Cardinality(Occupants) # 0
  BY <1>1, FS_EmptySet, OccupantsFinite
<1> QED BY <1>2, OccupantsFinite, IdleFinite DEF SizeAccounting, TypeOK

LEMMA ProbeCounted ==
  ASSUME TypeOK, ProbeAccounting, NEW u \in probing
  PROVE  probes - 1 \in Nat
<1>1. Cardinality(probing) # 0
  BY FS_EmptySet, ProbingFinite
<1> QED BY <1>1, ProbingFinite DEF ProbeAccounting, TypeOK

(* Undoing a reservation keeps the types of what it changes. *)
LEMMA UnreserveTypes ==
  ASSUME PoolInv, NEW u \in Users, pc[u] \in Reserved, Unreserve(u)
  PROVE  size' = size - 1 /\ size' \in Nat /\ probes' \in Nat /\ probing' \subseteq Users
<1>1. Occupies(u, pc[u])
  BY DEF Occupies, SlotLabels
<1>2. size - 1 \in Nat
  BY <1>1, SlotCounted DEF PoolInv
<1> QED BY <1>2, ProbeCounted DEF Unreserve, ProbesLess, PoolInv, TypeOK

LEMMA MembersAreThreads == Users \subseteq Threads /\ Keeper \in Threads /\ Pass \in Threads
BY DEF Threads

LEMMA PoolInvInit == Init => PoolInv
<1> SUFFICES ASSUME Init PROVE PoolInv
  OBVIOUS
<1>1. TypeOK
  <2>1. hold \in [Threads -> SUBSET Handles]
    BY DEF Init
  <2>2. pc \in [Threads -> Labels] /\ ret \in [Threads -> Returns]
    BY DEF Init, Labels, Returns
  <2>3. discovered \in 0..MaxConnections
    BY PoolAssumption DEF Init
  <2> QED BY <2>1, <2>2, <2>3 DEF Init, TypeOK, Turns
<1>2. Occupants = {}
  BY MembersAreThreads DEF Init, Occupants, Reserved, Carrying
<1>3. SizeAccounting
  BY <1>2, FS_EmptySet, PoolAssumption DEF Init, SizeAccounting
<1>4. ProbeAccounting
  BY FS_EmptySet DEF Init, ProbeAccounting
<1>5. OneProbeOver /\ TeardownOrder
  BY DEF Init, OneProbeOver, TeardownOrder
<1>6. HandsOk
  BY DEF Init, HandsOk, Handling, Carrying
<1>7. OnePlace
  BY DEF Init, OnePlace
<1> QED BY <1>1, <1>3, <1>4, <1>5, <1>6, <1>7 DEF PoolInv

-----------------------------------------------------------------------------
(* Types. *)

LEMMA CheckoutTypes ==
  ASSUME PoolInv, NEW u \in Users, Checkout(u)
  PROVE  TypeOK'
<1> USE MembersAreThreads, PoolAssumption
    DEF PoolInv, TypeOK, Returns, pool, gate, down, Goto, Take
<1>1. CASE PopIdle(u)
  BY <1>1 DEF PopIdle, Labels, Carrying
<1>2. CASE PopEmpty(u)
  BY <1>2 DEF PopEmpty, Labels, Seeking
<1>3. CASE ValidateOk(u)
  BY <1>3 DEF ValidateOk, ReturnHandle, Labels
<1>4. CASE ValidateFailed(u)
  <2>1. Occupies(u, pc[u])
    BY <1>4 DEF ValidateFailed, Occupies, SlotLabels, Carrying
  <2>2. size - 1 \in Nat
    BY <2>1, SlotCounted
  <2> QED BY <1>4, <2>2 DEF ValidateFailed, GiveBack, Discards, Labels, Seeking
<1>5. CASE GrowClosed(u)
  BY <1>5 DEF GrowClosed, Raise, Labels
<1>6. CASE Grow(u)
  BY <1>6 DEF Grow, Labels, Seeking
<1>7. CASE AtCeiling(u)
  BY <1>7 DEF AtCeiling, Missed, Labels, Seeking
<1>8. CASE Reserve(u)
  BY <1>8 DEF Reserve, Labels, Reserved
<1>9. CASE CheckShutdown(u)
  BY <1>9 DEF CheckShutdown, Labels, Reserved
<1>10. CASE UserCloses(u)
  BY <1>10 DEF UserCloses, CloseGate, Labels, Reserved
<1>11. CASE Rollback(u)
  <2>1. size' \in Nat /\ probes' \in Nat /\ probing' \subseteq Users
    BY <1>11, UnreserveTypes DEF Rollback, Reserved
  <2> QED BY <1>11, <2>1 DEF Rollback, Missed, Labels, Seeking
<1>12. CASE DialOk(u)
  BY <1>12 DEF DialOk, Labels, Carrying
<1>13. CASE DialRefused(u)
  <2>1. size' = size - 1 /\ size' \in Nat /\ probes' \in Nat /\ probing' \subseteq Users
    BY <1>13, UnreserveTypes DEF DialRefused, Reserved
  <2>2. size' \in 0..MaxConnections
    BY <2>1 DEF SizeAccounting
  <2> QED BY <1>13, <2>1, <2>2 DEF DialRefused, Missed, Labels, Seeking
<1>14. CASE DialFailed(u)
  <2>1. size' \in Nat /\ probes' \in Nat /\ probing' \subseteq Users
    BY <1>14, UnreserveTypes DEF DialFailed, Reserved
  <2> QED BY <1>14, <2>1 DEF DialFailed, Labels
<1>15. CASE Settle(u)
  <2>1. probes' \in Nat
    BY <1>15, ProbeCounted DEF Settle, ProbesLess
  <2>2. size \in 0..MaxConnections
    BY DEF SizeAccounting
  <2> QED BY <1>15, <2>1, <2>2 DEF Settle, ProbesLess, Outgrown, Labels, Carrying
<1>16. CASE FreshOk(u)
  BY <1>16 DEF FreshOk, ReturnHandle, Labels
<1>17. CASE FreshClosed(u)
  <2>1. Occupies(u, pc[u])
    BY <1>17 DEF FreshClosed, Occupies, SlotLabels, Carrying
  <2>2. size - 1 \in Nat
    BY <2>1, SlotCounted
  <2> QED BY <1>17, <2>2 DEF FreshClosed, Labels
<1> QED BY <1>1, <1>2, <1>3, <1>4, <1>5, <1>6, <1>7, <1>8, <1>9, <1>10, <1>11,
           <1>12, <1>13, <1>14, <1>15, <1>16, <1>17 DEF Checkout

LEMMA OtherTypes ==
  ASSUME PoolInv, [Next]_vars, \A u \in Users : ~Checkout(u)
  PROVE  TypeOK'
<1> USE MembersAreThreads, PoolAssumption
    DEF PoolInv, TypeOK, Returns, pool, gate, down, Goto, Take
<1>1. ASSUME NEW u \in Users, Acquire(u) \/ Wake(u)
      PROVE  TypeOK'
  BY <1>1 DEF Acquire, Wake, Labels, Seeking
<1>2. ASSUME NEW u \in Users, Release(u)
      PROVE  TypeOK'
  <2>1. Occupies(u, pc[u])
    BY <1>2 DEF Release, Occupies, SlotLabels
  <2>2. size - 1 \in Nat
    BY <2>1, SlotCounted
  <2> QED BY <1>2, <2>2 DEF Release, GiveBack, Labels
<1>3. ASSUME NEW u \in Users, Retry(u)
      PROVE  TypeOK'
  BY <1>3 DEF Retry, TopClosed, Top, GiveUp, EpochCheck, Park, Raise, Labels, Seeking
<1>4. ASSUME NEW t \in Threads, Dispose(t)
      PROVE  TypeOK'
  BY <1>4 DEF Dispose, Labels
<1>5. ASSUME NEW t \in Threads, Signal(t)
      PROVE  TypeOK'
  <2>1. ret[t] \in Labels
    BY DEF Labels, Seeking
  <2>2. pc' \in [Threads -> Labels]
    BY <1>5, <2>1 DEF Signal, Labels, Carrying
  <2>3. ret' \in [Threads -> Returns]
    BY <1>5 DEF Signal
  <2>4. retrying' \subseteq Users
    BY <1>5 DEF Signal
  <2> QED BY <1>5, <2>2, <2>3, <2>4 DEF Signal
<1>6. ASSUME NEW t \in Threads, DrainIdle(t)
      PROVE  TypeOK'
  <2>1. size - Cardinality(idle) \in Nat
    BY IdleFinite, OccupantsFinite DEF SizeAccounting
  <2> QED BY <1>6, <2>1 DEF DrainIdle, Labels, Reserved
<1>7. ASSUME NEW t \in Threads, MarkShutdown(t) \/ Scrap(t)
      PROVE  TypeOK'
  BY <1>7 DEF MarkShutdown, Scrap, Labels, Reserved
<1>8. CASE WindowOpens \/ KeeperPops \/ KeeperStops \/ RequestShutdown \/ TakeSnapshot
          \/ PassSkipsCallback \/ PassAbandonsCallback
  <2>1. CASE KeeperPops
    BY <2>1 DEF KeeperPops, Labels
  <2>2. CASE WindowOpens \/ KeeperStops
    BY <2>2 DEF WindowOpens, KeeperStops, Labels
  <2>3. CASE RequestShutdown \/ TakeSnapshot
          \/ PassSkipsCallback \/ PassAbandonsCallback
    BY <2>3 DEF RequestShutdown, TakeSnapshot, PassSkipsCallback, PassAbandonsCallback, Turns
  <2> QED BY <1>8, <2>1, <2>2, <2>3
<1>9. CASE KeeperReleases
  <2>1. Occupies(Keeper, pc[Keeper])
    BY <1>9 DEF KeeperReleases, Occupies
  <2>2. size - 1 \in Nat
    BY <2>1, SlotCounted
  <2> QED BY <1>9, <2>2 DEF KeeperReleases, GiveBack, Labels
<1>10. CASE PassRunsCallback \/ (\E o \in Owners : OwnerCloses(o))
  BY <1>10 DEF PassRunsCallback, OwnerCloses, CloseGate, Labels, Reserved, Turns
<1>11. CASE UNCHANGED vars
  BY <1>11 DEF vars
<1> QED BY <1>1, <1>2, <1>3, <1>4, <1>5, <1>6, <1>7, <1>8, <1>9, <1>10, <1>11
        DEF Next, Background, Teardown

-----------------------------------------------------------------------------
(* The accounting of the size. *)

(* A move of one thread that leaves the queue's length, the size and the   *)
(* thread's claim to a slot as they are.                                   *)
LEMMA SizeKept ==
  ASSUME PoolInv, NEW t \in Threads, NEW label, pc' = [pc EXCEPT ![t] = label],
         Occupies(t, pc[t]) <=> Occupies(t, label), UNCHANGED <<idle, size>>
  PROVE  SizeAccounting'
<1>1. Occupants' = Occupants
  BY OccupantsMove DEF PoolInv
<1> QED BY <1>1 DEF PoolInv, SizeAccounting

(* A thread that gives its slot up and takes one off the size. *)
LEMMA SizeDropped ==
  ASSUME PoolInv, NEW t \in Threads, NEW label, pc' = [pc EXCEPT ![t] = label],
         Occupies(t, pc[t]), ~Occupies(t, label), idle' = idle, size' = size - 1
  PROVE  SizeAccounting'
<1>1. Cardinality(Occupants') = Cardinality(Occupants) - 1
  BY OccupantsMove DEF PoolInv
<1> QED BY <1>1, IdleFinite, OccupantsFinite, PoolAssumption
        DEF PoolInv, SizeAccounting, TypeOK

(* A thread that takes a connection off the queue. *)
LEMMA SizePopped ==
  ASSUME PoolInv, NEW t \in Threads, NEW label, pc' = [pc EXCEPT ![t] = label],
         ~Occupies(t, pc[t]), Occupies(t, label),
         NEW h \in idle, idle' = idle \ {h}, size' = size
  PROVE  SizeAccounting'
<1>1. Cardinality(Occupants') = Cardinality(Occupants) + 1
  BY OccupantsMove DEF PoolInv
<1>2. Cardinality(idle') = Cardinality(idle) - 1
  BY IdleFinite, FS_RemoveElement DEF PoolInv
<1> QED BY <1>1, <1>2, IdleFinite, OccupantsFinite DEF PoolInv, SizeAccounting

LEMMA CeilingWithinMax == TypeOK => EffectiveCeiling <= MaxConnections
BY PoolAssumption DEF TypeOK, EffectiveCeiling, Least

(* acquire() returning: the keepalive thread may start, and claims no slot. *)
LEMMA SizeOnReturn ==
  ASSUME PoolInv, NEW u \in Users, pc[u] \in Carrying, ReturnHandle(u)
  PROVE  SizeAccounting'
<1>1. Occupants' = Occupants
  BY PoolAssumption, MembersAreThreads
     DEF PoolInv, TypeOK, ReturnHandle, StartsKeeper, Occupants
<1> QED BY <1>1 DEF PoolInv, SizeAccounting, ReturnHandle, pool

(* A release moves a connection to the queue or takes one off the size.    *)
LEMMA SizeOnGiveBack ==
  ASSUME PoolInv, NEW t \in Threads, Occupies(t, pc[t]), NEW is_fatal, NEW back,
         GiveBack(t, is_fatal, back), pc[t] \in Handling
  PROVE  SizeAccounting'
<1>0. PICK h \in Handles : hold[t] = {h} /\ h \notin idle
  BY DEF PoolInv, HandsOk, OnePlace
<1>1. CASE Discards(is_fatal)
  <2>1. ~Occupies(t, "dispose")
    BY DEF Occupies, SlotLabels, Reserved, Carrying
  <2> QED BY <1>1, <2>1, SizeDropped DEF GiveBack, Goto
<1>2. CASE ~Discards(is_fatal)
  <2>1. ~Occupies(t, "signal")
    BY DEF Occupies, SlotLabels, Reserved, Carrying
  <2>2. Cardinality(Occupants') = Cardinality(Occupants) - 1
    BY <1>2, <2>1, OccupantsMove DEF GiveBack, Goto, PoolInv
  <2>3. Cardinality(idle') = Cardinality(idle) + 1
    BY <1>0, <1>2, IdleFinite, FS_AddElement DEF GiveBack, PoolInv
  <2> QED BY <1>2, <2>2, <2>3, IdleFinite, OccupantsFinite
          DEF GiveBack, PoolInv, SizeAccounting
<1> QED BY <1>1, <1>2

-----------------------------------------------------------------------------
(* Where the connections are. *)

LEMMA OnePlacePoints ==
  OnePlace <=>
    /\ \A h : h \in open <=> h \in idle \/ \E t \in Threads : h \in hold[t]
    /\ \A t \in Threads : \A h \in hold[t] : h \notin idle
    /\ \A t, u \in Threads : t # u => \A h \in hold[t] : h \notin hold[u]
BY DEF OnePlace

LEMMA PlaceOnPop ==
  ASSUME PoolInv, NEW t \in Threads, hold[t] = {}, NEW h \in idle,
         idle' = idle \ {h}, hold' = [hold EXCEPT ![t] = {h}], open' = open
  PROVE  OnePlace'
<1>1. \A x \in Threads : hold'[x] = IF x = t THEN {h} ELSE hold[x]
  BY DEF PoolInv, TypeOK
<1> QED BY <1>1 DEF PoolInv, OnePlace

LEMMA PlaceOnPut ==
  ASSUME PoolInv, NEW t \in Threads,
         idle' = idle \cup hold[t], hold' = [hold EXCEPT ![t] = {}], open' = open
  PROVE  OnePlace'
<1>1. \A x \in Threads : hold'[x] = IF x = t THEN {} ELSE hold[x]
  BY DEF PoolInv, TypeOK
<1> QED BY <1>1 DEF PoolInv, OnePlace

LEMMA PlaceOnClose ==
  ASSUME PoolInv, NEW t \in Threads,
         open' = open \ hold[t], hold' = [hold EXCEPT ![t] = {}], idle' = idle
  PROVE  OnePlace'
<1>1. \A x \in Threads : hold'[x] = IF x = t THEN {} ELSE hold[x]
  BY DEF PoolInv, TypeOK
<1> QED BY <1>1 DEF PoolInv, OnePlace

LEMMA PlaceOnDial ==
  ASSUME PoolInv, NEW t \in Threads, hold[t] = {}, NEW h \in Handles \ open,
         open' = open \cup {h}, hold' = [hold EXCEPT ![t] = {h}], idle' = idle
  PROVE  OnePlace'
<1>1. \A x \in Threads : hold'[x] = IF x = t THEN {h} ELSE hold[x]
  BY DEF PoolInv, TypeOK
<1> QED BY <1>1 DEF PoolInv, OnePlace

LEMMA PlaceOnDrain ==
  ASSUME PoolInv, NEW t \in Threads, hold[t] = {},
         open' = open, hold' = [hold EXCEPT ![t] = idle], idle' = {}
  PROVE  OnePlace'
<1>1. \A x \in Threads : hold'[x] = IF x = t THEN idle ELSE hold[x]
  BY DEF PoolInv, TypeOK
<1> QED BY <1>1 DEF PoolInv, OnePlace

LEMMA PlaceKept ==
  ASSUME PoolInv, UNCHANGED <<idle, hold, open>>
  PROVE  OnePlace'
BY DEF PoolInv, OnePlace

(* The moves of one thread that HandsOk allows. *)
LEMMA HandsMove ==
  ASSUME PoolInv, NEW t \in Threads, NEW label, NEW hs,
         pc' = [pc EXCEPT ![t] = label], hold' = [hold EXCEPT ![t] = hs],
         label \in Handling => \E h \in Handles : hs = {h},
         label \notin Handling \cup {"scrap"} => hs = {}
  PROVE  HandsOk'
<1>1. \A x \in Threads : /\ hold'[x] = IF x = t THEN hs ELSE hold[x]
                         /\ pc'[x] = IF x = t THEN label ELSE pc[x]
  BY DEF PoolInv, TypeOK
<1> QED BY <1>1 DEF PoolInv, HandsOk

LEMMA HandsKept ==
  ASSUME PoolInv, NEW t \in Threads, NEW label, pc' = [pc EXCEPT ![t] = label],
         hold' = hold, pc[t] # "scrap", label # "scrap",
         pc[t] \in Handling <=> label \in Handling
  PROVE  HandsOk'
<1>1. \A x \in Threads : pc'[x] = IF x = t THEN label ELSE pc[x]
  BY DEF PoolInv, TypeOK
<1> QED BY <1>1 DEF PoolInv, HandsOk

-----------------------------------------------------------------------------
(* Probes, the discovered ceiling and the teardown. *)

Probing == Reserved \cup {"settle"}

LEMMA ProbesKept ==
  ASSUME PoolInv, NEW t \in Threads, NEW label, pc' = [pc EXCEPT ![t] = label],
         UNCHANGED <<probes, probing>>, t \in probing => label \in Probing
  PROVE  ProbeAccounting'
<1>1. \A x \in Threads : pc'[x] = IF x = t THEN label ELSE pc[x]
  BY DEF PoolInv, TypeOK
<1> QED BY <1>1, MembersAreThreads DEF PoolInv, ProbeAccounting, TypeOK, Probing

(* A probe that ends, whichever way. *)
LEMMA ProbeEnds ==
  ASSUME PoolInv, NEW u \in Users, NEW label, pc' = [pc EXCEPT ![u] = label],
         probes' = IF u \in probing THEN probes - 1 ELSE probes,
         probing' = probing \ {u}
  PROVE  ProbeAccounting'
<1>1. \A x \in Threads : pc'[x] = IF x = u THEN label ELSE pc[x]
  BY DEF PoolInv, TypeOK
<1>2. probes' = Cardinality(probing')
  BY FS_RemoveElement, ProbingFinite DEF PoolInv, ProbeAccounting
<1> QED BY <1>1, <1>2, MembersAreThreads DEF PoolInv, ProbeAccounting, TypeOK

LEMMA OverKept ==
  ASSUME PoolInv, UNCHANGED <<discovered, probing>>, size' \in Nat, size' <= size
  PROVE  OneProbeOver'
BY DEF PoolInv, OneProbeOver, TypeOK

(* An undone reservation leaves the size within the ceiling. *)
LEMMA OverOnUndo ==
  ASSUME PoolInv, size' = size - 1, size' \in Nat, discovered' = discovered
  PROVE  OneProbeOver'
BY DEF PoolInv, OneProbeOver, TypeOK

LEMMA TeardownKept ==
  ASSUME PoolInv, NEW t \in Threads, NEW label, pc' = [pc EXCEPT ![t] = label],
         closed => closed', torn' = torn, idle' \subseteq idle \/ ~closed,
         label \in {"mark", "drain", "scrap"} => closed'
  PROVE  TeardownOrder'
<1>1. \A x \in Threads : pc'[x] = IF x = t THEN label ELSE pc[x]
  BY DEF PoolInv, TypeOK
<1> QED BY <1>1 DEF PoolInv, TeardownOrder

(* What is left of PoolInv beside the types. *)
Rest ==
  /\ SizeAccounting
  /\ ProbeAccounting
  /\ OneProbeOver
  /\ HandsOk
  /\ OnePlace
  /\ TeardownOrder

(* A step of one thread that touches none of the pool's books. *)
LEMMA LocalMove ==
  ASSUME PoolInv, NEW t \in Threads, NEW label, Goto(t, label),
         UNCHANGED <<idle, size, discovered, probes, probing, torn, open, hold>>,
         closed => closed',
         label \in {"mark", "drain", "scrap"} => closed',
         Occupies(t, pc[t]) <=> Occupies(t, label),
         pc[t] \in Handling <=> label \in Handling,
         pc[t] # "scrap", label # "scrap",
         t \in probing => label \in Probing
  PROVE  Rest'
<1> USE DEF Goto
<1>1. SizeAccounting'
  BY SizeKept
<1>2. ProbeAccounting'
  BY ProbesKept
<1>3. OneProbeOver'
  BY OverKept DEF PoolInv, TypeOK
<1>4. HandsOk'
  BY HandsKept
<1>5. OnePlace'
  BY PlaceKept
<1>6. TeardownOrder'
  BY TeardownKept
<1> QED BY <1>1, <1>2, <1>3, <1>4, <1>5, <1>6 DEF Rest

(* A user outside the probing labels is no probe. *)
LEMMA NotProbing ==
  ASSUME PoolInv, NEW t \in Threads, pc[t] \notin Probing
  PROVE  t \notin probing
BY DEF PoolInv, ProbeAccounting, Probing

LEMMA KeeperIsNoUser == Keeper \notin Users /\ Pass \notin Users
BY PoolAssumption

(* release(), from whichever of its three callers. *)
LEMMA GiveBackRest ==
  ASSUME PoolInv, NEW t \in Threads, Occupies(t, pc[t]), NEW is_fatal, NEW back,
         GiveBack(t, is_fatal, back), pc[t] \in Handling \ Probing
  PROVE  Rest'
<1> USE DEF GiveBack, Goto, Take, gate, down, Handling
<1>0. PICK label \in {"dispose", "signal"} : pc' = [pc EXCEPT ![t] = label]
  OBVIOUS
<1>1. SizeAccounting'
  BY SizeOnGiveBack
<1>2. ProbeAccounting'
  BY <1>0, NotProbing, ProbesKept
<1>3. OneProbeOver'
  <2>1. size - 1 \in Nat
    BY SlotCounted DEF PoolInv
  <2> QED BY <2>1, OverOnUndo, OverKept DEF PoolInv, TypeOK
<1>4. HandsOk'
  <2>1. CASE Discards(is_fatal)
    BY <2>1, HandsKept DEF Carrying
  <2>2. CASE ~Discards(is_fatal)
    BY <2>2, HandsMove DEF Carrying
  <2> QED BY <2>1, <2>2
<1>5. OnePlace'
  BY PlaceOnPut, PlaceKept
<1>6. TeardownOrder'
  <2>1. CASE Discards(is_fatal)
    BY <2>1, TeardownKept
  <2>2. CASE ~Discards(is_fatal)
    BY <2>2, TeardownKept DEF Discards
  <2> QED BY <2>1, <2>2
<1> QED BY <1>1, <1>2, <1>3, <1>4, <1>5, <1>6 DEF Rest

-----------------------------------------------------------------------------
(* The steps of acquire(). *)

LEMMA CheckoutRest ==
  ASSUME PoolInv, NEW u \in Users, Checkout(u)
  PROVE  Rest'
<1>0. u \in Threads
  BY MembersAreThreads
<1> USE <1>0, KeeperIsNoUser
    DEF Handling, Probing, Occupies, SlotLabels, Reserved, Carrying, pool, gate, down
<1>1. CASE PopIdle(u)
  <2> USE <1>1 DEF PopIdle, Goto, Take
  <2>0. PICK h \in idle : idle' = idle \ {h} /\ Take(u, {h}) /\ Goto(u, "validate")
    OBVIOUS
  <2>1. hold[u] = {} /\ h \in Handles /\ u \notin probing
    BY NotProbing DEF PoolInv, HandsOk, TypeOK
  <2>2. SizeAccounting'
    BY <2>0, SizePopped
  <2>3. ProbeAccounting'
    BY <2>0, <2>1, ProbesKept
  <2>4. OneProbeOver'
    BY OverKept DEF PoolInv, TypeOK
  <2>5. HandsOk'
    BY <2>0, <2>1, HandsMove
  <2>6. OnePlace'
    BY <2>0, <2>1, PlaceOnPop
  <2>7. TeardownOrder'
    BY <2>0, TeardownKept
  <2> QED BY <2>2, <2>3, <2>4, <2>5, <2>6, <2>7 DEF Rest
<1>2. CASE PopEmpty(u)
  BY <1>2, LocalMove, NotProbing DEF PopEmpty
<1>3. ASSUME pc[u] \in {"validate", "fresh"}, ReturnHandle(u)
      PROVE  Rest'
  <2> USE <1>3 DEF ReturnHandle
  <2>0. \A x \in Threads : /\ x # u /\ x # Keeper => pc'[x] = pc[x]
                           /\ pc'[u] = "have"
                           /\ \/ pc'[Keeper] = pc[Keeper]
                              \/ pc[Keeper] = "out" /\ pc'[Keeper] = "sleep"
    <3>1. u # Keeper /\ Keeper \in Threads
      BY MembersAreThreads
    <3>2. pc \in [Threads -> Labels]
      BY DEF PoolInv, TypeOK
    <3> QED BY <3>1, <3>2 DEF StartsKeeper
  <2>1. SizeAccounting'
    BY SizeOnReturn
  <2>2. ProbeAccounting'
    BY <2>0, MembersAreThreads, NotProbing DEF PoolInv, ProbeAccounting, TypeOK
  <2>3. OneProbeOver'
    BY DEF PoolInv, OneProbeOver
  <2>4. HandsOk'
    BY <2>0 DEF PoolInv, HandsOk
  <2>5. OnePlace'
    BY PlaceKept
  <2>6. TeardownOrder'
    BY <2>0 DEF PoolInv, TeardownOrder
  <2> QED BY <2>1, <2>2, <2>3, <2>4, <2>5, <2>6 DEF Rest
<1>4. CASE ValidateOk(u) \/ FreshOk(u)
  BY <1>3, <1>4 DEF ValidateOk, FreshOk
<1>5. CASE GrowClosed(u)
  BY <1>5, LocalMove, NotProbing DEF GrowClosed, Raise
<1>6. CASE Grow(u)
  BY <1>6, LocalMove, NotProbing DEF Grow
<1>7. CASE AtCeiling(u)
  <2>1. Missed(u) \in {"recheck", "top"}
    BY DEF Missed
  <2> QED BY <1>7, <2>1, LocalMove, NotProbing DEF AtCeiling
<1>8. CASE CheckShutdown(u)
  BY <1>8, LocalMove DEF CheckShutdown
<1>9. CASE UserCloses(u)
  BY <1>9, LocalMove DEF UserCloses, CloseGate
<1>10. CASE Reserve(u)
  <2> USE <1>10 DEF Reserve, AtLimit
  <2>0. PICK label \in {"dial", "registered"} : Goto(u, label)
    OBVIOUS
  <2>1. u \notin probing /\ size \in Nat /\ discovered \in Nat
    BY NotProbing DEF PoolInv, TypeOK
  <2>2. SizeAccounting'
    <3>1. Cardinality(Occupants') = Cardinality(Occupants) + 1
      BY <2>0, OccupantsMove DEF Goto, PoolInv
    <3>2. size + 1 <= MaxConnections
      BY <2>1, CeilingWithinMax, PoolAssumption
         DEF PoolInv, EffectiveCeiling, Least
    <3> QED BY <3>1, <3>2, IdleFinite, OccupantsFinite DEF PoolInv, SizeAccounting
  <2>3. ProbeAccounting'
    <3>1. CASE discovered # 0 /\ size >= discovered
      <4>1. probes' = Cardinality(probing')
        BY <2>1, <3>1, FS_AddElement, ProbingFinite DEF PoolInv, ProbeAccounting
      <4> QED BY <2>0, <3>1, <4>1, MembersAreThreads
              DEF Goto, PoolInv, ProbeAccounting, TypeOK
    <3>2. CASE ~(discovered # 0 /\ size >= discovered)
      BY <2>0, <2>1, <3>2, ProbesKept DEF Goto
    <3> QED BY <3>1, <3>2
  <2>4. OneProbeOver'
    BY <2>1, PoolAssumption DEF EffectiveCeiling, Least, OneProbeOver, PoolInv
  <2>5. HandsOk'
    BY <2>0, HandsKept DEF Goto
  <2>6. OnePlace'
    BY PlaceKept
  <2>7. TeardownOrder'
    BY <2>0, TeardownKept DEF Goto
  <2> QED BY <2>2, <2>3, <2>4, <2>5, <2>6, <2>7 DEF Rest
<1>11. ASSUME NEW label \in {"recheck", "top", "signal"}, Goto(u, label),
              pc[u] \in {"rollback", "dial"}, Unreserve(u),
              UNCHANGED <<idle, gate, down, open, hold>>,
              UNCHANGED discovered \/ discovered' = size'
       PROVE  Rest'
  <2> USE <1>11 DEF Goto
  <2>1. size' = size - 1 /\ size' \in Nat
    BY UnreserveTypes
  <2>2. SizeAccounting'
    BY <2>1, SizeDropped
  <2>3. ProbeAccounting'
    BY ProbeEnds DEF Unreserve, ProbesLess
  <2>4. OneProbeOver'
    BY <2>1 DEF OneProbeOver, PoolInv, TypeOK
  <2>5. HandsOk'
    BY HandsKept
  <2>6. OnePlace'
    BY PlaceKept
  <2>7. TeardownOrder'
    BY TeardownKept
  <2> QED BY <2>2, <2>3, <2>4, <2>5, <2>6, <2>7 DEF Rest
<1>12. CASE Rollback(u)
  <2>1. Missed(u) \in {"recheck", "top", "signal"}
    BY DEF Missed
  <2> QED BY <1>11, <1>12, <2>1 DEF Rollback
<1>13. CASE DialRefused(u)
  BY <1>11, <1>13 DEF DialRefused
<1>14. CASE DialFailed(u)
  BY <1>11, <1>14 DEF DialFailed
<1>15. CASE DialOk(u)
  <2> USE <1>15 DEF DialOk, Goto, Take
  <2>0. PICK h \in Handles \ open : open' = open \cup {h} /\ Take(u, {h})
    OBVIOUS
  <2>1. hold[u] = {}
    BY DEF PoolInv, HandsOk
  <2>2. SizeAccounting'
    BY SizeKept
  <2>3. ProbeAccounting'
    BY ProbesKept
  <2>4. OneProbeOver'
    BY OverKept DEF PoolInv, TypeOK
  <2>5. HandsOk'
    BY <2>0, HandsMove
  <2>6. OnePlace'
    BY <2>0, <2>1, PlaceOnDial
  <2>7. TeardownOrder'
    BY TeardownKept
  <2> QED BY <2>2, <2>3, <2>4, <2>5, <2>6, <2>7 DEF Rest
<1>16. CASE Settle(u)
  <2> USE <1>16 DEF Settle, ProbesLess, Outgrown
  <2>0. PICK label \in {"announce", "fresh"} : Goto(u, label)
    OBVIOUS
  <2>1. SizeAccounting'
    BY <2>0, SizeKept DEF Goto
  <2>2. ProbeAccounting'
    BY <2>0, ProbeEnds DEF Goto
  <2>3. OneProbeOver'
    BY DEF OneProbeOver, PoolInv, TypeOK
  <2>4. HandsOk'
    BY <2>0, HandsKept DEF Goto
  <2>5. OnePlace'
    BY PlaceKept
  <2>6. TeardownOrder'
    BY <2>0, TeardownKept DEF Goto
  <2> QED BY <2>1, <2>2, <2>3, <2>4, <2>5, <2>6 DEF Rest
<1>17. CASE FreshClosed(u)
  <2> USE <1>17 DEF FreshClosed, Goto
  <2>0. size - 1 \in Nat
    BY SlotCounted DEF PoolInv
  <2>1. SizeAccounting'
    BY SizeDropped
  <2>2. ProbeAccounting'
    BY NotProbing, ProbesKept
  <2>3. OneProbeOver'
    BY <2>0, OverOnUndo
  <2>4. HandsOk'
    BY HandsKept
  <2>5. OnePlace'
    BY PlaceKept
  <2>6. TeardownOrder'
    BY TeardownKept
  <2> QED BY <2>1, <2>2, <2>3, <2>4, <2>5, <2>6 DEF Rest
<1>18. CASE ValidateFailed(u)
  BY <1>18, GiveBackRest DEF ValidateFailed
<1> QED BY <1>1, <1>2, <1>4, <1>5, <1>6, <1>7, <1>8, <1>9, <1>10, <1>12, <1>13,
           <1>14, <1>15, <1>16, <1>17, <1>18 DEF Checkout

-----------------------------------------------------------------------------
(* The other steps. *)

LEMMA TeardownRest ==
  ASSUME PoolInv, NEW t \in Threads, Teardown(t)
  PROVE  Rest'
<1> USE KeeperIsNoUser
    DEF Handling, Probing, Occupies, SlotLabels, Reserved, Carrying, pool, gate
<1>1. CASE MarkShutdown(t)
  BY <1>1, LocalMove DEF MarkShutdown, PoolInv, TeardownOrder
<1>2. CASE DrainIdle(t)
  <2> USE <1>2 DEF DrainIdle, Goto, Take
  <2>0. closed /\ hold[t] = {}
    BY DEF PoolInv, TeardownOrder, HandsOk
  <2>1. size - Cardinality(idle) \in Nat /\ size - Cardinality(idle) <= size
    BY IdleFinite, OccupantsFinite DEF PoolInv, SizeAccounting, TypeOK
  <2>2. SizeAccounting'
    <3>0. Occupies(t, pc[t]) <=> Occupies(t, "scrap")
      OBVIOUS
    <3>1. Occupants' = Occupants
      BY <3>0, OccupantsMove DEF PoolInv
    <3>2. Cardinality(idle') = 0
      BY FS_EmptySet
    <3>3. size' = Cardinality(Occupants) /\ size' <= MaxConnections
      BY <2>1, IdleFinite, OccupantsFinite, PoolAssumption
         DEF PoolInv, SizeAccounting, TypeOK
    <3> QED BY <3>1, <3>2, <3>3, OccupantsFinite DEF SizeAccounting
  <2>3. ProbeAccounting'
    BY ProbesKept
  <2>4. OneProbeOver'
    BY <2>1, OverKept
  <2>5. HandsOk'
    BY HandsMove
  <2>6. OnePlace'
    BY <2>0, PlaceOnDrain
  <2>7. TeardownOrder'
    BY <2>0 DEF PoolInv, TypeOK, TeardownOrder
  <2> QED BY <2>2, <2>3, <2>4, <2>5, <2>6, <2>7 DEF Rest
<1>3. CASE Scrap(t)
  <2> USE <1>3 DEF Scrap, Goto, Take, down
  <2>0. PICK label \in {"rollback", "out"} :
          /\ pc' = [pc EXCEPT ![t] = label]
          /\ label = "rollback" <=> t \in Users
    OBVIOUS
  <2>1. SizeAccounting'
    BY <2>0, SizeKept
  <2>2. ProbeAccounting'
    BY <2>0, ProbesKept DEF PoolInv, TypeOK
  <2>3. OneProbeOver'
    BY OverKept DEF PoolInv, TypeOK
  <2>4. HandsOk'
    BY <2>0, HandsMove
  <2>5. OnePlace'
    BY PlaceOnClose
  <2>6. TeardownOrder'
    BY <2>0, TeardownKept
  <2> QED BY <2>1, <2>2, <2>3, <2>4, <2>5, <2>6 DEF Rest
<1> QED BY <1>1, <1>2, <1>3 DEF Teardown

LEMMA BackgroundRest ==
  ASSUME PoolInv, Background
  PROVE  Rest'
<1>0. Keeper \in Threads /\ Pass \in Threads /\ Owners \subseteq Threads
  BY DEF Threads
<1> USE <1>0, KeeperIsNoUser
    DEF Handling, Probing, Occupies, SlotLabels, Reserved, Carrying, pool, gate
<1>1. CASE WindowOpens \/ RequestShutdown \/ TakeSnapshot
          \/ PassSkipsCallback \/ PassAbandonsCallback
  BY <1>1 DEF WindowOpens, RequestShutdown, TakeSnapshot,
     PassSkipsCallback, PassAbandonsCallback, PoolInv, Rest, down, Occupants,
              SizeAccounting, ProbeAccounting, OneProbeOver, HandsOk, OnePlace, TeardownOrder
<1>2. CASE KeeperPops
  <2> USE <1>2 DEF KeeperPops, Goto, Take, down
  <2>0. PICK h \in idle : idle' = idle \ {h} /\ Take(Keeper, {h})
    OBVIOUS
  <2>1. hold[Keeper] = {} /\ h \in Handles /\ Keeper \notin probing
    BY DEF PoolInv, HandsOk, TypeOK
  <2>2. SizeAccounting'
    BY <2>0, SizePopped
  <2>3. ProbeAccounting'
    BY <2>1, ProbesKept
  <2>4. OneProbeOver'
    BY OverKept DEF PoolInv, TypeOK
  <2>5. HandsOk'
    BY <2>0, <2>1, HandsMove
  <2>6. OnePlace'
    BY <2>0, <2>1, PlaceOnPop
  <2>7. TeardownOrder'
    BY <2>0, TeardownKept
  <2> QED BY <2>2, <2>3, <2>4, <2>5, <2>6, <2>7 DEF Rest
<1>3. CASE KeeperReleases
  BY <1>3, GiveBackRest DEF KeeperReleases
<1>4. CASE KeeperStops
  BY <1>4, LocalMove, NotProbing DEF KeeperStops, down
<1>5. ASSUME NEW t \in Owners \cup {Pass}, CloseGate(t), pc[t] = "out"
      PROVE  Rest'
  BY <1>5, LocalMove, NotProbing, PoolAssumption DEF CloseGate
<1>6. CASE PassRunsCallback \/ (\E o \in Owners : OwnerCloses(o))
  BY <1>5, <1>6 DEF PassRunsCallback, OwnerCloses
<1> QED BY <1>1, <1>2, <1>3, <1>4, <1>6 DEF Background

LEMMA OtherRest ==
  ASSUME PoolInv, [Next]_vars, \A u \in Users : ~Checkout(u)
  PROVE  Rest'
<1> USE MembersAreThreads, KeeperIsNoUser
    DEF Handling, Probing, Occupies, SlotLabels, Reserved, Carrying, pool, gate, down
<1>1. ASSUME NEW u \in Users, Acquire(u) \/ Wake(u)
      PROVE  Rest'
  BY <1>1, LocalMove, NotProbing DEF Acquire, Wake
<1>2. ASSUME NEW u \in Users, Release(u)
      PROVE  Rest'
  BY <1>2, GiveBackRest DEF Release
<1>3. ASSUME NEW u \in Users, Retry(u)
      PROVE  Rest'
  <2>1. PICK label \in {"out", "pop", "top", "deadline", "parked"} : Goto(u, label)
    BY <1>3 DEF Retry, TopClosed, Top, GiveUp, EpochCheck, Park, Raise
  <2>2. pc[u] \in {"top", "recheck", "deadline"}
    BY <1>3 DEF Retry, TopClosed, Top, GiveUp, EpochCheck, Park
  <2>3. UNCHANGED <<pool, closed, torn, open, hold>>
    BY <1>3 DEF Retry, TopClosed, Top, GiveUp, EpochCheck, Park, Raise
  <2> QED BY <2>1, <2>2, <2>3, LocalMove, NotProbing
<1>4. ASSUME NEW t \in Threads, Dispose(t)
      PROVE  Rest'
  <2> USE <1>4 DEF Dispose, Goto, Take
  <2>1. SizeAccounting'
    BY SizeKept
  <2>2. ProbeAccounting'
    BY NotProbing, ProbesKept
  <2>3. OneProbeOver'
    BY OverKept DEF PoolInv, TypeOK
  <2>4. HandsOk'
    BY HandsMove
  <2>5. OnePlace'
    BY PlaceOnClose
  <2>6. TeardownOrder'
    BY TeardownKept
  <2> QED BY <2>1, <2>2, <2>3, <2>4, <2>5, <2>6 DEF Rest
<1>5. ASSUME NEW t \in Threads, Signal(t)
      PROVE  Rest'
  <2>1. CASE pc[t] = "signal"
    <3>1. ret[t] \in Returns /\ Goto(t, ret[t])
      BY <1>5, <2>1 DEF Signal, PoolInv, TypeOK
    <3> QED BY <1>5, <2>1, <3>1, LocalMove, NotProbing DEF Signal, Returns
  <2>2. CASE pc[t] = "announce"
    BY <1>5, <2>2, LocalMove, NotProbing DEF Signal
  <2> QED BY <1>5, <2>1, <2>2 DEF Signal
<1>6. ASSUME NEW t \in Threads, Teardown(t)
      PROVE  Rest'
  BY <1>6, TeardownRest
<1>7. CASE Background
  BY <1>7, BackgroundRest
<1>8. CASE UNCHANGED vars
  BY <1>8 DEF vars, PoolInv, Rest, Occupants, SizeAccounting, ProbeAccounting,
              OneProbeOver, HandsOk, OnePlace, TeardownOrder
<1> QED BY <1>1, <1>2, <1>3, <1>4, <1>5, <1>6, <1>7, <1>8 DEF Next

-----------------------------------------------------------------------------
LEMMA PoolInvariant == Spec => []PoolInv
<1>1. PoolInv /\ [Next]_vars => PoolInv'
  <2> SUFFICES ASSUME PoolInv, [Next]_vars PROVE PoolInv'
    OBVIOUS
  <2>1. CASE \E u \in Users : Checkout(u)
    BY <2>1, CheckoutTypes, CheckoutRest DEF PoolInv, Rest
  <2>2. CASE \A u \in Users : ~Checkout(u)
    BY <2>2, OtherTypes, OtherRest DEF PoolInv, Rest
  <2> QED BY <2>1, <2>2
<1> QED BY <1>1, PoolInvInit, PTL DEF Spec

(* The variables keep their types; _current_size never goes negative. *)
THEOREM PoolTypeCorrect == Spec => []TypeOK
BY PoolInvariant, PTL DEF PoolInv

(* _current_size is the idle connections plus the slots in use, and stays  *)
(* within max_connections, on every path of every schedule.                *)
THEOREM SizeIsAccounted == Spec => []SizeAccounting
BY PoolInvariant, PTL DEF PoolInv

(* _probes_in_flight counts the probes that are dialling. *)
THEOREM ProbesAreAccounted == Spec => []ProbeAccounting
BY PoolInvariant, PTL DEF PoolInv

(* Past a discovered ceiling there is one connection at most, a probe's. *)
THEOREM GrowthIsProbed == Spec => []OneProbeOver
BY PoolInvariant, PTL DEF PoolInv

(* Every open connection is in the queue or with exactly one thread. *)
THEOREM NothingLeaks == Spec => []OnePlace
BY PoolInvariant, PTL DEF PoolInv

(* A torn-down pool queues no connection. *)
THEOREM TornDownStaysEmpty == Spec => []NothingIdleAfterTeardown
<1>1. PoolInv => NothingIdleAfterTeardown
  BY DEF PoolInv, TeardownOrder, NothingIdleAfterTeardown
<1> QED BY <1>1, PoolInvariant, PTL

(* release() never blocks on the full queue while it holds the size lock. *)
THEOREM PutFindsRoom == Spec => []PutNeverBlocks
<1>1. PoolInv => PutNeverBlocks
  <2> SUFFICES ASSUME PoolInv, NEW t, Occupies(t, pc[t])
               PROVE  Cardinality(idle) < MaxConnections
    BY DEF PutNeverBlocks, Occupies, SlotLabels
  <2>1. t \in Occupants
    BY OccupantsAre DEF Occupies
  <2>2. Cardinality(Occupants) # 0
    BY <2>1, FS_EmptySet, OccupantsFinite
  <2> QED BY <2>2, IdleFinite, OccupantsFinite, PoolAssumption DEF PoolInv, SizeAccounting
<1> QED BY <1>1, PoolInvariant, PTL

-----------------------------------------------------------------------------
(* No wakeup is forgotten. *)

Signallers == {t \in Threads : pc[t] \in {"dispose", "signal", "announce"}}

(* Where a pending return may be, and who is inside retry_until().         *)
ReturnsOk ==
  /\ \A t \in Threads : ret[t] # "out" => pc[t] \in {"dispose", "signal"}
  /\ \A u \in Users : /\ ret[u] = "recheck" => u \in retrying
                      /\ pc[u] \in {"recheck", "deadline", "parked"} => u \in retrying
                      /\ pc[u] = "rollback" => closed

(* How far a user has looked.                                              *)
PastPop == {"grow", "reserve", "recheck", "deadline", "parked"}
PastCeiling == {"recheck", "deadline", "parked"}

(* What it saw missing: an idle connection, a slot under the ceiling as    *)
(* known, and a probe to wait for.                                         *)
NoIdle == idle = {}
NoSlot == size >= (IF discovered = 0 THEN MaxConnections ELSE discovered)
NoReprobe == ~AwaitsReprobe

(* What a user that waits unsignalled has seen missing is missing still,   *)
(* or some thread is about to signal.                                      *)
WakeupsKept ==
  ~closed /\ Signallers = {} => \A v \in retrying \ woken :
    /\ pc[v] \in PastPop => NoIdle
    /\ pc[v] \in PastCeiling => NoSlot
    /\ pc[v] = "parked" /\ v \notin timed => NoReprobe

WakeInv == ReturnsOk /\ WakeupsKept

(* What every step guarantees that frees nothing, ends no signaller and    *)
(* sends nobody to where it was not, unless it looked first.               *)
FreesNothing ==
  /\ NoIdle => NoIdle'
  /\ NoSlot => NoSlot'
  /\ NoReprobe => NoReprobe'
EndsNoSignaller == \A t \in Signallers : pc'[t] = pc[t]
LooksFirst ==
  \A v \in retrying' \ woken' :
    /\ pc'[v] \in PastPop => (pc[v] \in PastPop \/ NoIdle) /\ v \in retrying \ woken
    /\ pc'[v] \in PastCeiling => pc[v] \in PastCeiling \/ NoSlot
    /\ pc'[v] = "parked" /\ v \notin timed' =>
         (pc[v] = "parked" /\ v \notin timed) \/ NoReprobe

LEMMA WakeupsQuiet ==
  ASSUME WakeInv, closed => closed', FreesNothing, EndsNoSignaller, LooksFirst
  PROVE  WakeupsKept'
<1> SUFFICES ASSUME ~closed', Signallers' = {}, NEW v \in retrying' \ woken'
             PROVE  /\ pc'[v] \in PastPop => NoIdle'
                    /\ pc'[v] \in PastCeiling => NoSlot'
                    /\ pc'[v] = "parked" /\ v \notin timed' => NoReprobe'
  BY DEF WakeupsKept
<1>1. ~closed /\ Signallers = {}
  BY DEF Signallers, EndsNoSignaller
<1>2. v \in retrying \ woken =>
        /\ pc[v] \in PastPop => NoIdle
        /\ pc[v] \in PastCeiling => NoSlot
        /\ pc[v] = "parked" /\ v \notin timed => NoReprobe
  BY <1>1 DEF WakeInv, WakeupsKept
<1>3. pc'[v] \in PastCeiling \cup {"parked"} => pc'[v] \in PastPop
  BY DEF PastCeiling, PastPop
<1> QED BY <1>2, <1>3 DEF FreesNothing, LooksFirst

LEMMA WakeupsLoud ==
  ASSUME NEW t \in Threads, pc'[t] \in {"dispose", "signal", "announce"}
  PROVE  WakeupsKept'
<1>1. Signallers' # {}
  BY DEF Signallers
<1> QED BY <1>1 DEF WakeupsKept

LEMMA WakeupsOver ==
  ASSUME closed' \/ retrying' \subseteq woken'
  PROVE  WakeupsKept'
BY DEF WakeupsKept

(* A step of one user that leaves the books of the pool alone. *)
LEMMA WakeupsAlone ==
  ASSUME PoolInv, WakeInv, NEW u \in Users, NEW label, pc' = [pc EXCEPT ![u] = label],
         pc[u] \notin {"dispose", "signal", "announce"},
         UNCHANGED <<idle, size, discovered, probes, closed>>,
         label \notin PastPop, timed' \in {timed, timed \ {u}},
         \A v \in Users \ {u} : /\ v \in retrying' <=> v \in retrying
                                /\ v \in woken' <=> v \in woken,
         retrying' \subseteq Users
  PROVE  WakeupsKept'
<1>1. \A x \in Threads : pc'[x] = IF x = u THEN label ELSE pc[x]
  BY DEF PoolInv, TypeOK
<1>2. FreesNothing
  BY DEF FreesNothing, NoIdle, NoSlot, NoReprobe, AwaitsReprobe
<1>3. EndsNoSignaller
  BY <1>1 DEF EndsNoSignaller, Signallers
<1>4. LooksFirst
  BY <1>1, MembersAreThreads DEF LooksFirst, PastPop, PastCeiling
<1> QED BY <1>2, <1>3, <1>4, WakeupsQuiet

LEMMA CheckoutWakeups ==
  ASSUME PoolInv, PoolInv', WakeInv, NEW u \in Users, Checkout(u)
  PROVE  WakeupsKept'
<1> USE MembersAreThreads, PoolAssumption DEF pool, gate, down, Goto, PastPop, PastCeiling
<1>0. /\ pc \in [Threads -> Labels] /\ size \in Nat /\ size' \in Nat
      /\ discovered \in 0..MaxConnections /\ probing \subseteq Users
      /\ retrying \subseteq Users /\ timed \subseteq Users
  BY DEF PoolInv, TypeOK
<1> USE <1>0
<1>1. CASE PopIdle(u)
  BY <1>1, WakeupsQuiet
     DEF PopIdle, FreesNothing, EndsNoSignaller, Signallers, LooksFirst, NoIdle, NoSlot,
         NoReprobe, AwaitsReprobe
<1>2. CASE PopEmpty(u)
  BY <1>2, WakeupsQuiet
     DEF PopEmpty, FreesNothing, EndsNoSignaller, Signallers, LooksFirst, NoIdle, NoSlot,
         NoReprobe, AwaitsReprobe
<1>3. ASSUME ReturnHandle(u), pc[u] \in {"validate", "fresh"}
      PROVE  WakeupsKept'
  <2>1. \A t \in Threads \ {u, Keeper} : pc'[t] = pc[t]
    BY <1>3 DEF ReturnHandle
  <2>2. pc'[u] = "have" /\ (pc[Keeper] # "out" => pc'[Keeper] = pc[Keeper])
    BY <1>3 DEF ReturnHandle, StartsKeeper
  <2>3. FreesNothing
    BY <1>3 DEF ReturnHandle, FreesNothing, NoIdle, NoSlot, NoReprobe, AwaitsReprobe
  <2>4. EndsNoSignaller
    BY <1>3, <2>1, <2>2 DEF EndsNoSignaller, Signallers
  <2>5. LooksFirst
    BY <1>3, <2>1, <2>2 DEF LooksFirst, ReturnHandle
  <2> QED BY <1>3, <2>3, <2>4, <2>5, WakeupsQuiet DEF ReturnHandle
<1>4. CASE ValidateOk(u) \/ FreshOk(u)
  BY <1>3, <1>4 DEF ValidateOk, FreshOk
<1>5. CASE ValidateFailed(u)
  BY <1>5, WakeupsLoud DEF ValidateFailed, GiveBack, Discards
<1>6. CASE GrowClosed(u) \/ FreshClosed(u)
  BY <1>6, WakeupsOver DEF GrowClosed, Raise, FreshClosed
<1>7. CASE Grow(u)
  BY <1>7, WakeupsQuiet
     DEF Grow, FreesNothing, EndsNoSignaller, Signallers, LooksFirst, NoIdle, NoSlot,
         NoReprobe, AwaitsReprobe
<1>8. CASE AtCeiling(u)
  <2>1. NoSlot
    BY <1>8 DEF AtCeiling, AtLimit, EffectiveCeiling, Least, NoSlot
  <2> QED BY <1>8, <2>1, WakeupsQuiet
          DEF AtCeiling, Missed, FreesNothing, EndsNoSignaller, Signallers, LooksFirst, NoIdle,
              NoSlot, NoReprobe, AwaitsReprobe
<1>9. CASE Reserve(u)
  <2>1. FreesNothing
    <3>1. NoIdle' <=> NoIdle
      BY <1>9 DEF Reserve, NoIdle
    <3>2. NoSlot => NoSlot'
      BY <1>9 DEF Reserve, NoSlot
    <3>3. probes \in Nat
      BY DEF PoolInv, TypeOK
    <3>4. NoReprobe => NoReprobe'
      BY <1>9, <3>3 DEF Reserve, NoReprobe, AwaitsReprobe
    <3> QED BY <3>1, <3>2, <3>4 DEF FreesNothing
  <2>2. EndsNoSignaller /\ LooksFirst
    BY <1>9 DEF Reserve, EndsNoSignaller, Signallers, LooksFirst
  <2> QED BY <1>9, <2>1, <2>2, WakeupsQuiet DEF Reserve
<1>10. CASE CheckShutdown(u)
  BY <1>10, WakeupsAlone DEF CheckShutdown
<1>11. CASE UserCloses(u)
  BY <1>11, WakeupsOver DEF UserCloses, CloseGate
<1>12. CASE Rollback(u)
  BY <1>12, WakeupsOver DEF Rollback, WakeInv, ReturnsOk
<1>13. CASE DialOk(u)
  BY <1>13, WakeupsAlone DEF DialOk
<1>14. CASE DialRefused(u) \/ DialFailed(u)
  BY <1>14, WakeupsLoud DEF DialRefused, DialFailed
<1>15. CASE Settle(u)
  <2>1. CASE u \in probing
    BY <1>15, <2>1, WakeupsLoud DEF Settle
  <2>2. CASE u \notin probing
    <3>1. FreesNothing
      BY <1>15, <2>2 DEF Settle, ProbesLess, Outgrown, FreesNothing, NoIdle, NoSlot,
                         NoReprobe, AwaitsReprobe
    <3>2. EndsNoSignaller /\ LooksFirst
      BY <1>15, <2>2 DEF Settle, EndsNoSignaller, Signallers, LooksFirst
    <3> QED BY <1>15, <3>1, <3>2, WakeupsQuiet DEF Settle
  <2> QED BY <2>1, <2>2
<1> QED BY <1>1, <1>2, <1>4, <1>5, <1>6, <1>7, <1>8, <1>9, <1>10, <1>11, <1>12, <1>13,
           <1>14, <1>15 DEF Checkout

LEMMA OtherWakeups ==
  ASSUME PoolInv, PoolInv', WakeInv, [Next]_vars, \A u \in Users : ~Checkout(u)
  PROVE  WakeupsKept'
<1> USE MembersAreThreads, PoolAssumption DEF pool, gate, down, Goto, PastPop, PastCeiling
<1>0. /\ pc \in [Threads -> Labels] /\ retrying \subseteq Users /\ timed \subseteq Users
  BY DEF PoolInv, TypeOK
<1> USE <1>0
<1>1. ASSUME NEW u \in Users, Acquire(u)
      PROVE  WakeupsKept'
  BY <1>1, WakeupsAlone DEF Acquire
<1>2. ASSUME NEW u \in Users, Wake(u)
      PROVE  WakeupsKept'
  BY <1>2, WakeupsAlone DEF Wake
<1>3. ASSUME NEW u \in Users, Release(u)
      PROVE  WakeupsKept'
  BY <1>3, WakeupsLoud DEF Release, GiveBack
<1>4. ASSUME NEW u \in Users, TopClosed(u) \/ GiveUp(u) \/ Top(u)
      PROVE  WakeupsKept'
  BY <1>4, WakeupsAlone DEF TopClosed, GiveUp, Raise, Top
<1>5. ASSUME NEW u \in Users, EpochCheck(u) \/ Park(u)
      PROVE  WakeupsKept'
  <2>1. FreesNothing
    BY <1>5 DEF EpochCheck, Park, FreesNothing, NoIdle, NoSlot, NoReprobe, AwaitsReprobe
  <2>2. EndsNoSignaller
    BY <1>5 DEF EpochCheck, Park, EndsNoSignaller, Signallers
  <2>3. LooksFirst
    BY <1>5 DEF EpochCheck, Park, LooksFirst, NoReprobe
  <2> QED BY <1>5, <2>1, <2>2, <2>3, WakeupsQuiet DEF EpochCheck, Park
<1>6. ASSUME NEW t \in Threads, Dispose(t)
      PROVE  WakeupsKept'
  BY <1>6, WakeupsLoud DEF Dispose
<1>7. ASSUME NEW t \in Threads, Signal(t)
      PROVE  WakeupsKept'
  BY <1>7, WakeupsOver DEF Signal
<1>8. ASSUME NEW t \in Threads, MarkShutdown(t) \/ DrainIdle(t) \/ Scrap(t)
      PROVE  WakeupsKept'
  <2>1. closed
    BY <1>8 DEF MarkShutdown, DrainIdle, Scrap, PoolInv, TeardownOrder
  <2> QED BY <1>8, <2>1, WakeupsOver DEF MarkShutdown, DrainIdle, Scrap
<1>9. CASE KeeperPops \/ KeeperStops
  <2>1. \A t \in Threads \ {Keeper} : pc'[t] = pc[t]
    BY <1>9 DEF KeeperPops, KeeperStops
  <2>2. FreesNothing
    BY <1>9 DEF KeeperPops, KeeperStops, FreesNothing, NoIdle, NoSlot, NoReprobe, AwaitsReprobe
  <2>3. EndsNoSignaller /\ LooksFirst
    BY <1>9, <2>1 DEF KeeperPops, KeeperStops, EndsNoSignaller, Signallers, LooksFirst
  <2> QED BY <1>9, <2>2, <2>3, WakeupsQuiet DEF KeeperPops, KeeperStops
<1>10. CASE KeeperReleases
  BY <1>10, WakeupsLoud DEF KeeperReleases, GiveBack
<1>11. CASE PassRunsCallback \/ (\E o \in Owners : OwnerCloses(o))
  BY <1>11, WakeupsOver DEF PassRunsCallback, OwnerCloses, CloseGate
<1>12. CASE WindowOpens \/ RequestShutdown \/ TakeSnapshot
          \/ PassSkipsCallback \/ PassAbandonsCallback \/ UNCHANGED vars
  BY <1>12, WakeupsQuiet
     DEF WindowOpens, RequestShutdown, TakeSnapshot,
     PassSkipsCallback, PassAbandonsCallback, vars, FreesNothing, EndsNoSignaller,
         Signallers, LooksFirst, NoIdle, NoSlot, NoReprobe, AwaitsReprobe
<1> QED BY <1>1, <1>2, <1>3, <1>4, <1>5, <1>6, <1>7, <1>8, <1>9, <1>10, <1>11, <1>12
        DEF Next, Background, Teardown, Retry

(* The return addresses. *)
LEMMA ReturnsMove ==
  ASSUME PoolInv, WakeInv, NEW t \in Threads, NEW label, pc' = [pc EXCEPT ![t] = label],
         ret' = ret, ret[t] # "out" => label \in {"dispose", "signal"},
         closed => closed', label = "rollback" => closed',
         \A v \in Users \ {t} : v \in retrying => v \in retrying',
         label \in PastCeiling => t \in retrying', ret[t] = "recheck" => t \in retrying'
  PROVE  ReturnsOk'
<1>1. \A x \in Threads : pc'[x] = IF x = t THEN label ELSE pc[x]
  BY DEF PoolInv, TypeOK
<1> QED BY <1>1, MembersAreThreads DEF WakeInv, ReturnsOk, PastCeiling

LEMMA ReturnsSet ==
  ASSUME PoolInv, WakeInv, NEW t \in Threads, NEW back, NEW label \in {"dispose", "signal"},
         pc' = [pc EXCEPT ![t] = label], ret' = [ret EXCEPT ![t] = back],
         UNCHANGED <<closed, retrying>>, back = "recheck" => t \in retrying
  PROVE  ReturnsOk'
<1>1. \A x \in Threads : /\ pc'[x] = IF x = t THEN label ELSE pc[x]
                         /\ ret'[x] = IF x = t THEN back ELSE ret[x]
  BY DEF PoolInv, TypeOK
<1> QED BY <1>1, MembersAreThreads DEF WakeInv, ReturnsOk

LEMMA CheckoutReturns ==
  ASSUME PoolInv, WakeInv, NEW u \in Users, Checkout(u)
  PROVE  ReturnsOk'
<1> USE MembersAreThreads, PoolAssumption DEF pool, gate, down, Goto, PastCeiling
<1>0. /\ pc[u] \notin {"dispose", "signal"} => ret[u] = "out"
      /\ pc[u] = "rollback" => closed
  BY DEF WakeInv, ReturnsOk
<1> USE <1>0
<1>1. CASE PopIdle(u) \/ PopEmpty(u)
  BY <1>1, ReturnsMove DEF PopIdle, PopEmpty
<1>2. ASSUME ReturnHandle(u), pc[u] \in {"validate", "fresh"}
      PROVE  ReturnsOk'
  <2>1. \A t \in Threads \ {u, Keeper} : pc'[t] = pc[t]
    BY <1>2 DEF ReturnHandle, PoolInv, TypeOK
  <2>2. pc'[u] = "have" /\ (pc[Keeper] # "out" => pc'[Keeper] = pc[Keeper])
    BY <1>2 DEF ReturnHandle, StartsKeeper, PoolInv, TypeOK
  <2> QED BY <1>2, <2>1, <2>2 DEF ReturnHandle, WakeInv, ReturnsOk
<1>3. CASE ValidateOk(u) \/ FreshOk(u)
  BY <1>2, <1>3 DEF ValidateOk, FreshOk
<1>4. CASE ValidateFailed(u)
  BY <1>4, ReturnsSet DEF ValidateFailed, GiveBack, Discards
<1>5. CASE GrowClosed(u) \/ Grow(u)
  BY <1>5, ReturnsMove DEF GrowClosed, Raise, Grow
<1>6. CASE AtCeiling(u) \/ Rollback(u)
  BY <1>6, ReturnsMove DEF AtCeiling, Rollback, Missed
<1>7. CASE Reserve(u) \/ CheckShutdown(u)
  BY <1>7, ReturnsMove DEF Reserve, CheckShutdown
<1>8. CASE UserCloses(u)
  BY <1>8, ReturnsMove DEF UserCloses, CloseGate
<1>9. CASE DialOk(u) \/ Settle(u)
  BY <1>9, ReturnsMove DEF DialOk, Settle
<1>10. CASE DialRefused(u)
  BY <1>10, ReturnsSet DEF DialRefused, Missed
<1>11. CASE DialFailed(u)
  BY <1>11, ReturnsSet DEF DialFailed
<1>12. CASE FreshClosed(u)
  BY <1>12, ReturnsSet DEF FreshClosed
<1> QED BY <1>1, <1>3, <1>4, <1>5, <1>6, <1>7, <1>8, <1>9, <1>10, <1>11, <1>12 DEF Checkout

LEMMA OtherReturns ==
  ASSUME PoolInv, WakeInv, [Next]_vars, \A u \in Users : ~Checkout(u)
  PROVE  ReturnsOk'
<1> USE MembersAreThreads, PoolAssumption DEF pool, gate, down, Goto, PastCeiling
<1>0. \A t \in Threads : pc[t] \notin {"dispose", "signal"} => ret[t] = "out"
  BY DEF WakeInv, ReturnsOk
<1> USE <1>0
<1>1. ASSUME NEW u \in Users, Acquire(u) \/ Wake(u)
      PROVE  ReturnsOk'
  BY <1>1, ReturnsMove DEF Acquire, Wake
<1>2. ASSUME NEW u \in Users, Release(u)
      PROVE  ReturnsOk'
  BY <1>2, ReturnsSet DEF Release, GiveBack
<1>3. ASSUME NEW u \in Users, TopClosed(u) \/ GiveUp(u) \/ Top(u)
      PROVE  ReturnsOk'
  BY <1>3, ReturnsMove DEF TopClosed, GiveUp, Raise, Top
<1>4. ASSUME NEW u \in Users, EpochCheck(u) \/ Park(u)
      PROVE  ReturnsOk'
  <2>1. u \in retrying
    BY <1>4 DEF EpochCheck, Park, WakeInv, ReturnsOk
  <2> QED BY <1>4, <2>1, ReturnsMove DEF EpochCheck, Park
<1>5. ASSUME NEW t \in Threads, Dispose(t)
      PROVE  ReturnsOk'
  <2>1. t \in Users /\ ret[t] = "recheck" => t \in retrying
    BY DEF WakeInv, ReturnsOk
  <2>2. \A x \in Threads : pc'[x] = IF x = t THEN "signal" ELSE pc[x]
    BY <1>5 DEF Dispose, PoolInv, TypeOK
  <2> QED BY <1>5, <2>1, <2>2 DEF Dispose, WakeInv, ReturnsOk
<1>6. ASSUME NEW t \in Threads, Signal(t)
      PROVE  ReturnsOk'
  <2>1. \A x \in Threads :
          /\ pc'[x] = IF x = t THEN (IF pc[t] = "signal" THEN ret[t] ELSE "fresh") ELSE pc[x]
          /\ ret'[x] = IF x = t THEN "out" ELSE ret[x]
    BY <1>6 DEF Signal, PoolInv, TypeOK
  <2>2. ret[t] \in Returns
    BY DEF PoolInv, TypeOK
  <2>3. \A v \in Users : v \in retrying => v \in retrying' \/ (v = t /\ pc'[t] = "out")
    BY <1>6, <2>1 DEF Signal
  <2> QED BY <1>6, <2>1, <2>2, <2>3 DEF Signal, Returns, WakeInv, ReturnsOk
<1>7. ASSUME NEW t \in Threads, MarkShutdown(t) \/ DrainIdle(t) \/ Scrap(t)
      PROVE  ReturnsOk'
  <2>1. closed
    BY <1>7 DEF MarkShutdown, DrainIdle, Scrap, PoolInv, TeardownOrder
  <2> QED BY <1>7, <2>1, ReturnsMove DEF MarkShutdown, DrainIdle, Scrap
<1>8. CASE KeeperPops \/ KeeperStops
  BY <1>8, ReturnsMove DEF KeeperPops, KeeperStops
<1>9. CASE KeeperReleases
  BY <1>9, ReturnsSet DEF KeeperReleases, GiveBack
<1>10. ASSUME NEW t \in Threads, CloseGate(t), pc[t] = "out"
       PROVE  ReturnsOk'
  BY <1>10, ReturnsMove DEF CloseGate
<1>11. CASE PassRunsCallback \/ (\E o \in Owners : OwnerCloses(o))
  BY <1>10, <1>11 DEF PassRunsCallback, OwnerCloses, Threads
<1>12. CASE WindowOpens \/ RequestShutdown \/ TakeSnapshot
          \/ PassSkipsCallback \/ PassAbandonsCallback \/ UNCHANGED vars
  BY <1>12 DEF WindowOpens, RequestShutdown, TakeSnapshot,
     PassSkipsCallback, PassAbandonsCallback, vars, WakeInv, ReturnsOk
<1> QED BY <1>1, <1>2, <1>3, <1>4, <1>5, <1>6, <1>7, <1>8, <1>9, <1>11, <1>12
        DEF Next, Background, Teardown, Retry

LEMMA WakeInvariant == Spec => []WakeInv
<1>1. Init => WakeInv
  BY MembersAreThreads DEF Init, WakeInv, ReturnsOk, WakeupsKept
<1>2. PoolInv /\ PoolInv' /\ WakeInv /\ [Next]_vars => WakeInv'
  <2> SUFFICES ASSUME PoolInv, PoolInv', WakeInv, [Next]_vars PROVE WakeInv'
    OBVIOUS
  <2>1. CASE \E u \in Users : Checkout(u)
    BY <2>1, CheckoutWakeups, CheckoutReturns DEF WakeInv
  <2>2. CASE \A u \in Users : ~Checkout(u)
    BY <2>2, OtherWakeups, OtherReturns DEF WakeInv
  <2> QED BY <2>1, <2>2
<1> QED BY <1>1, <1>2, PoolInvariant, PTL DEF Spec

(* While an attempt would succeed, a user parked without a deadline and    *)
(* unsignalled is owed a signal: none is lost between its look at the pool *)
(* and its wait, whatever ceilings are discovered and probed meanwhile.    *)
THEOREM NoLostWakeup == Spec => []SignalOwed
<1>1. PoolInv /\ WakeInv => SignalOwed
  <2> SUFFICES ASSUME PoolInv, WakeInv, Available, ~closed, Signallers = {},
                      NEW u \in Users, pc[u] = "parked", u \notin woken \cup timed
               PROVE  FALSE
    BY DEF SignalOwed, Signallers
  <2>1. u \in retrying \ woken
    BY DEF WakeInv, ReturnsOk
  <2>2. NoIdle /\ NoSlot /\ NoReprobe
    BY <2>1 DEF WakeInv, WakeupsKept, PastPop, PastCeiling
  <2> QED BY <2>2, PoolAssumption
          DEF Available, EffectiveCeiling, Least, NoIdle, NoSlot, NoReprobe, AwaitsReprobe,
              PoolInv, TypeOK
<1> QED BY <1>1, WakeInvariant, PoolInvariant, PTL
=============================================================================
