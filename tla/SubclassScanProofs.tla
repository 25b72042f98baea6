------------------------ MODULE SubclassScanProofs ------------------------
(***************************************************************************)
(* Proofs about SubclassScan for any number of threads, any projects and   *)
(* any searches: _OnceCache computes a key once, and the locks that nested *)
(* computations hold never deadlock.                                       *)
(***************************************************************************)
EXTENDS SubclassScan, SequenceTheorems, WellFoundedInduction, TLAPS

Frames(K) == [key : K, at : {"lock", "compute"}]
Stacks == \E K : stack \in [Threads -> Seq(Frames(K))]

(* Thread t computes the key of frame i, with the key's lock held. *)
Computes(t, i) == i \in DOMAIN stack[t] /\ stack[t][i].at = "compute"
KeyAt(t, i) == stack[t][i].key

OneHolder ==
  \A t, u \in Threads, i, j \in Nat :
    (Computes(t, i) /\ Computes(u, j) /\ KeyAt(t, i) = KeyAt(u, j)) => (t = u /\ i = j)
HeldUncached == \A t \in Threads, i \in Nat : Computes(t, i) => ~Cached(KeyAt(t, i))
CountedIsCached == DOMAIN computed \subseteq DOMAIN cache

OnceInv == Stacks /\ OneHolder /\ HeldUncached /\ CountedIsCached /\ ComputedOnce

-----------------------------------------------------------------------------
(* What the operations on a stack leave behind. *)

LEMMA RoomFor ==
  ASSUME Stacks, NEW key
  PROVE  \E K : stack \in [Threads -> Seq(Frames(K))] /\ key \in K
<1>1. PICK K : stack \in [Threads -> Seq(Frames(K))]
  BY DEF Stacks
<1> DEFINE more == K \cup {key}
<1>2. Frames(K) \subseteq Frames(more)
  BY DEF Frames
<1>3. \A t \in Threads : stack[t] \in Seq(Frames(more))
  BY <1>1, <1>2, SeqMonotonic
<1>4. stack \in [Threads -> Seq(Frames(more))] /\ key \in more
  BY <1>1, <1>3
<1> QED BY <1>4

LEMMA Popped ==
  ASSUME NEW K, NEW s \in Seq(Frames(K)), s # <<>>
  PROVE  /\ Front(s) \in Seq(Frames(K))
         /\ Len(s) \in Nat \ {0} /\ Len(Front(s)) = Len(s) - 1
         /\ \A i \in 1..(Len(s) - 1) : Front(s)[i] = s[i]
         /\ Last(s) = s[Len(s)] /\ Last(s) \in Frames(K)
<1>1. Len(s) \in Nat \ {0}
  BY EmptySeq, LenProperties
<1>2. \A i \in 1..Len(s) : s[i] \in Frames(K)
  BY ElementOfSeq
<1>3. 1 \in Int /\ Len(s) - 1 \in Int /\ \A i \in 1..(Len(s) - 1) : s[i] \in Frames(K)
  BY <1>1, <1>2
<1> DEFINE n == Len(s) - 1
<1>4. /\ SubSeq(s, 1, n) \in Seq(Frames(K))
      /\ Len(SubSeq(s, 1, n)) = IF 1 <= n THEN n - 1 + 1 ELSE 0
      /\ \A i \in 1..(n - 1 + 1) : SubSeq(s, 1, n)[i] = s[1 + i - 1]
  <2> HIDE DEF n
  <2> QED BY <1>3, SubSeqProperties DEF n
<1>5. n \in Nat
  BY <1>1
<1>6. Len(SubSeq(s, 1, n)) = n /\ \A i \in 1..n : SubSeq(s, 1, n)[i] = s[i]
  <2> HIDE DEF n
  <2>1. n - 1 + 1 = n /\ (~(1 <= n) => n = 0)
    BY <1>5
  <2>2. ASSUME NEW i \in 1..n
        PROVE  SubSeq(s, 1, n)[i] = s[i]
    <3>1. 1 + i - 1 = i
      BY <1>5
    <3> QED BY <1>4, <2>1, <3>1
  <2> QED BY <1>4, <2>1, <2>2
<1> QED BY <1>1, <1>2, <1>4, <1>6 DEF Front, Last

-----------------------------------------------------------------------------
(* Every lock held after a step was held before it, for the same key. *)
NothingTaken == \A t \in Threads, i \in Nat :
  Computes(t, i)' => Computes(t, i) /\ KeyAt(t, i)' = KeyAt(t, i)

LEMMA FramesOf ==
  ASSUME NEW K, stack \in [Threads -> Seq(Frames(K))], NEW t \in Threads, NEW i \in DOMAIN stack[t]
  PROVE  /\ stack[t] \in Seq(Frames(K))
         /\ Len(stack[t]) \in Nat /\ DOMAIN stack[t] = 1..Len(stack[t])
         /\ i \in Nat /\ stack[t][i] \in Frames(K)
         /\ stack[t][i] = [key |-> KeyAt(t, i), at |-> stack[t][i].at]
<1>1. stack[t] \in Seq(Frames(K))
  OBVIOUS
<1>2. Len(stack[t]) \in Nat /\ DOMAIN stack[t] = 1..Len(stack[t])
  BY <1>1, LenProperties
<1>3. stack[t][i] \in Frames(K)
  BY <1>1, <1>2, ElementOfSeq
<1> QED BY <1>1, <1>2, <1>3 DEF Frames, KeyAt

LEMMA StillOneHolder ==
  ASSUME OneHolder, NothingTaken
  PROVE  OneHolder'
BY DEF OneHolder, NothingTaken

LEMMA StillUncached ==
  ASSUME HeldUncached, NothingTaken, cache' = cache
  PROVE  HeldUncached'
BY DEF HeldUncached, NothingTaken, Cached

(* A frame that goes takes nothing; it is gone for good. *)
LEMMA AfterReturn ==
  ASSUME Stacks, NEW t \in Threads, stack[t] # <<>>, Return(t)
  PROVE  /\ Stacks' /\ NothingTaken
         /\ \A u \in Threads, i \in Nat : Computes(u, i)' => ~(u = t /\ i = Len(stack[t]))
<1>1. PICK K : stack \in [Threads -> Seq(Frames(K))]
  BY DEF Stacks
<1>2. /\ Front(stack[t]) \in Seq(Frames(K))
      /\ Len(stack[t]) \in Nat \ {0} /\ Len(Front(stack[t])) = Len(stack[t]) - 1
      /\ \A i \in 1..(Len(stack[t]) - 1) : Front(stack[t])[i] = stack[t][i]
  BY <1>1, Popped
<1>3. stack' = [stack EXCEPT ![t] = Front(stack[t])]
  BY DEF Return
<1>4. DOMAIN Front(stack[t]) = 1..(Len(stack[t]) - 1) /\ DOMAIN stack[t] = 1..Len(stack[t])
  BY <1>1, <1>2, LenProperties
<1>5. Stacks'
  BY <1>1, <1>2, <1>3 DEF Stacks
<1>6. ASSUME NEW u \in Threads, NEW i \in Nat, Computes(u, i)'
      PROVE  /\ Computes(u, i) /\ KeyAt(u, i)' = KeyAt(u, i)
             /\ ~(u = t /\ i = Len(stack[t]))
  <2>1. CASE u # t
    BY <1>1, <1>3, <1>6, <2>1 DEF Computes, KeyAt
  <2>2. CASE u = t
    <3>1. stack'[t] = Front(stack[t])
      BY <1>1, <1>3
    <3>2. i \in 1..(Len(stack[t]) - 1)
      BY <1>4, <1>6, <2>2, <3>1 DEF Computes
    <3> QED BY <1>2, <1>4, <1>6, <2>2, <3>1, <3>2 DEF Computes, KeyAt
  <2> QED BY <2>1, <2>2
<1> QED BY <1>5, <1>6 DEF NothingTaken

LEMMA AfterFinish ==
  ASSUME Stacks, NEW t \in Threads, NEW outcome, Finish(t, outcome)
  PROVE  Stacks' /\ NothingTaken
<1>1. PICK K : stack \in [Threads -> Seq(Frames(K))]
  BY DEF Stacks
<1>2. stack' = [stack EXCEPT ![t] = <<>>]
  BY DEF Finish, Unwound
<1>3. Stacks'
  BY <1>1, <1>2, EmptySeq DEF Stacks
<1>4. DOMAIN stack'[t] = {}
  BY <1>1, <1>2
<1>5. NothingTaken
  BY <1>1, <1>2, <1>4 DEF NothingTaken, Computes, KeyAt
<1> QED BY <1>3, <1>5

(* A search that starts to wait for a key holds no more than before. *)
LEMMA AfterLookUp ==
  ASSUME Stacks, NEW t \in Threads, NEW key,
         stack' = [stack EXCEPT ![t] = Append(@, [key |-> key, at |-> "lock"])]
  PROVE  Stacks' /\ NothingTaken
<1>1. PICK K : stack \in [Threads -> Seq(Frames(K))] /\ key \in K
  BY RoomFor
<1> DEFINE frame == [key |-> key, at |-> "lock"]
           new == Append(stack[t], frame)
           n == Len(stack[t])
<1>2. stack[t] \in Seq(Frames(K)) /\ frame \in Frames(K) /\ frame.at = "lock"
  BY <1>1 DEF Frames
<1>3. stack' = [stack EXCEPT ![t] = new]
  OBVIOUS
<1> HIDE DEF frame
<1>4. /\ new \in Seq(Frames(K)) /\ Len(new) = n + 1
      /\ new[n + 1] = frame /\ \A i \in 1..n : new[i] = stack[t][i]
  BY <1>2, AppendProperties
<1> HIDE DEF new
<1>5. n \in Nat /\ DOMAIN stack[t] = 1..n /\ DOMAIN new = 1..(n + 1)
  BY <1>2, <1>4, LenProperties
<1>6. stack' \in [Threads -> Seq(Frames(K))]
  BY <1>1, <1>3, <1>4
<1>7. Stacks'
  BY <1>6 DEF Stacks
<1>8. ASSUME NEW u \in Threads, NEW i \in Nat, Computes(u, i)'
      PROVE  Computes(u, i) /\ KeyAt(u, i)' = KeyAt(u, i)
  <2>1. CASE u # t
    BY <1>1, <1>3, <1>8, <2>1 DEF Computes, KeyAt
  <2>2. CASE u = t
    <3>1. stack'[t] = new
      BY <1>1, <1>3
    <3>2. i \in 1..(n + 1) /\ new[i].at = "compute"
      BY <1>5, <1>8, <2>2, <3>1 DEF Computes
    <3>3. i \in 1..n
      BY <1>2, <1>4, <1>5, <3>2
    <3> QED BY <1>4, <1>5, <1>8, <2>2, <3>1, <3>3 DEF Computes, KeyAt
  <2> QED BY <2>1, <2>2
<1> QED BY <1>7, <1>8 DEF NothingTaken

(* With the lock, the frame on top computes its key; the others are as they were. *)
LEMMA AfterAcquire ==
  ASSUME Stacks, NEW t \in Threads, stack[t] # <<>>, NEW key, key = Last(stack[t]).key,
         stack' = [stack EXCEPT ![t] = Append(Front(@), [key |-> key, at |-> "compute"])]
  PROVE  /\ Stacks'
         /\ \A u \in Threads, i \in Nat : Computes(u, i)' =>
              IF u = t /\ i = Len(stack[t]) THEN KeyAt(u, i)' = key
              ELSE Computes(u, i) /\ KeyAt(u, i)' = KeyAt(u, i)
<1>1. PICK K : stack \in [Threads -> Seq(Frames(K))] /\ key \in K
  BY RoomFor
<1> DEFINE frame == [key |-> key, at |-> "compute"]
           front == Front(stack[t])
           new == Append(front, frame)
           n == Len(stack[t])
<1>2. /\ front \in Seq(Frames(K)) /\ n \in Nat \ {0} /\ Len(front) = n - 1
      /\ \A i \in 1..(n - 1) : front[i] = stack[t][i]
  BY <1>1, Popped
<1>3. frame \in Frames(K) /\ frame.key = key
  BY <1>1 DEF Frames
<1>4. stack' = [stack EXCEPT ![t] = new]
  OBVIOUS
<1> HIDE DEF frame, front
<1>5. /\ new \in Seq(Frames(K)) /\ Len(new) = Len(front) + 1
      /\ new[Len(front) + 1] = frame /\ \A i \in 1..Len(front) : new[i] = front[i]
  BY <1>2, <1>3, AppendProperties
<1> HIDE DEF new
<1>6. Len(new) = n /\ new[n] = frame /\ \A i \in 1..(n - 1) : new[i] = stack[t][i]
  <2> HIDE DEF n
  <2>1. (n - 1) + 1 = n
    BY <1>2
  <2> QED BY <1>2, <1>5, <2>1
<1>7. DOMAIN stack[t] = 1..n /\ DOMAIN new = 1..n
  BY <1>1, <1>5, <1>6, LenProperties
<1>8. stack' \in [Threads -> Seq(Frames(K))]
  BY <1>1, <1>4, <1>5
<1>9. Stacks'
  BY <1>8 DEF Stacks
<1>10. stack'[t] = new
  BY <1>1, <1>4
<1>11. ASSUME NEW u \in Threads, NEW i \in Nat, Computes(u, i)'
       PROVE  IF u = t /\ i = n THEN KeyAt(u, i)' = key
              ELSE Computes(u, i) /\ KeyAt(u, i)' = KeyAt(u, i)
  <2>1. CASE u = t /\ i = n
    BY <1>3, <1>6, <1>10, <2>1 DEF KeyAt
  <2>2. CASE u # t
    BY <1>1, <1>4, <1>11, <2>2 DEF Computes, KeyAt
  <2>3. CASE u = t /\ i # n
    <3>1. i \in 1..(n - 1)
      BY <1>2, <1>7, <1>10, <1>11, <2>3 DEF Computes
    <3> QED BY <1>2, <1>6, <1>7, <1>10, <1>11, <2>3, <3>1 DEF Computes, KeyAt
  <2> QED BY <2>1, <2>2, <2>3
<1> QED BY <1>9, <1>11

-----------------------------------------------------------------------------
(* One step of the program keeps the invariant. *)

LEMMA OnceInit == Init => OnceInv
<1> SUFFICES ASSUME Init PROVE OnceInv
  OBVIOUS
<1>1. stack = [t \in Threads |-> <<>>] /\ computed = <<>> /\ cache = <<>>
  BY DEF Init
<1>2. stack \in [Threads -> Seq(Frames({}))]
  BY <1>1, EmptySeq
<1>3. \A t \in Threads, i \in Nat : ~Computes(t, i)
  BY <1>1 DEF Computes
<1> QED BY <1>1, <1>2, <1>3
     DEF OnceInv, Stacks, OneHolder, HeldUncached, CountedIsCached, ComputedOnce

LEMMA OnceCall ==
  ASSUME OnceInv, NEW t \in Threads, Call(t)
  PROVE  OnceInv'
<1>1. stack' = stack /\ cache' = cache /\ computed' = computed
  BY DEF Call
<1> QED BY <1>1 DEF OnceInv, Stacks, OneHolder, HeldUncached, CountedIsCached, ComputedOnce,
                    Computes, KeyAt, Cached

LEMMA OnceLookUp ==
  ASSUME OnceInv, NEW t \in Threads, LookUp(t)
  PROVE  OnceInv'
<1>1. /\ cache' = cache /\ computed' = computed
      /\ \E key : stack' = [stack EXCEPT ![t] = Append(@, [key |-> key, at |-> "lock"])]
  BY DEF LookUp
<1>2. Stacks' /\ NothingTaken
  BY <1>1, AfterLookUp DEF OnceInv
<1>3. OneHolder' /\ HeldUncached'
  BY <1>1, <1>2, StillOneHolder, StillUncached DEF OnceInv
<1> QED BY <1>1, <1>2, <1>3 DEF OnceInv, CountedIsCached, ComputedOnce

(* Only a key that nobody holds and that is still missing is taken. *)
LEMMA OnceTakeLock ==
  ASSUME OnceInv, NEW t \in Threads, TakeLock(t)
  PROVE  OnceInv'
<1> DEFINE key == Last(stack[t]).key
<1>1. /\ stack[t] # <<>> /\ cache' = cache /\ computed' = computed
      /\ \A u \in Threads : ~Holds(u, key)
  BY DEF TakeLock, Computing
<1>2. CASE Recheck(key)
  <2>1. Return(t)
    BY <1>2 DEF TakeLock
  <2>2. Stacks' /\ NothingTaken
    BY <1>1, <2>1, AfterReturn DEF OnceInv
  <2>3. OneHolder' /\ HeldUncached'
    BY <1>1, <2>2, StillOneHolder, StillUncached DEF OnceInv
  <2> QED BY <1>1, <2>2, <2>3 DEF OnceInv, CountedIsCached, ComputedOnce
<1>3. CASE ~Recheck(key)
  <2>1. stack' = [stack EXCEPT ![t] = Append(Front(@), [key |-> key, at |-> "compute"])]
    BY <1>3 DEF TakeLock
  <2>2. /\ Stacks'
        /\ \A u \in Threads, i \in Nat : Computes(u, i)' =>
             IF u = t /\ i = Len(stack[t]) THEN KeyAt(u, i)' = key
             ELSE Computes(u, i) /\ KeyAt(u, i)' = KeyAt(u, i)
    BY <1>1, <2>1, AfterAcquire DEF OnceInv
  <2> HIDE DEF key
  <2>3. \A u \in Threads, i \in Nat : Computes(u, i) => KeyAt(u, i) # key
    <3> SUFFICES ASSUME NEW u \in Threads, NEW i \in Nat, Computes(u, i), KeyAt(u, i) = key
                 PROVE  FALSE
      OBVIOUS
    <3>1. PICK K : stack \in [Threads -> Seq(Frames(K))]
      BY DEF OnceInv, Stacks
    <3>2. i \in DOMAIN stack[u] /\ stack[u][i] = [key |-> key, at |-> "compute"]
      BY <3>1, FramesOf DEF Computes
    <3>3. Holds(u, key)
      BY <3>2 DEF Holds
    <3> QED BY <1>1, <3>3
  <2>4. ~Cached(key)
    BY <1>3 DEF Recheck
  <2>5. OneHolder'
    <3> SUFFICES ASSUME NEW t1 \in Threads, NEW t2 \in Threads, NEW i \in Nat, NEW j \in Nat,
                        Computes(t1, i)', Computes(t2, j)', KeyAt(t1, i)' = KeyAt(t2, j)'
                 PROVE  t1 = t2 /\ i = j
      BY DEF OneHolder
    <3>1. CASE t1 = t /\ i = Len(stack[t])
      BY <2>2, <2>3, <3>1
    <3>2. CASE t2 = t /\ j = Len(stack[t])
      BY <2>2, <2>3, <3>2
    <3>3. CASE ~(t1 = t /\ i = Len(stack[t])) /\ ~(t2 = t /\ j = Len(stack[t]))
      <4>1. Computes(t1, i) /\ Computes(t2, j) /\ KeyAt(t1, i) = KeyAt(t2, j)
        BY <2>2, <3>3
      <4> QED BY <4>1 DEF OnceInv, OneHolder
    <3> QED BY <3>1, <3>2, <3>3
  <2>6. HeldUncached'
    <3> SUFFICES ASSUME NEW u \in Threads, NEW i \in Nat, Computes(u, i)'
                 PROVE  KeyAt(u, i)' \notin DOMAIN cache
      BY <1>1 DEF HeldUncached, Cached
    <3>1. KeyAt(u, i)' = key \/ (Computes(u, i) /\ KeyAt(u, i)' = KeyAt(u, i))
      BY <2>2
    <3> QED BY <2>4, <3>1 DEF OnceInv, HeldUncached, Cached
  <2> QED BY <1>1, <2>2, <2>5, <2>6 DEF OnceInv, CountedIsCached, ComputedOnce
<1> QED BY <1>2, <1>3

(* The key stored was held, so it was neither cached nor counted. *)
LEMMA OnceStore ==
  ASSUME OnceInv, NEW t \in Threads, Store(t)
  PROVE  OnceInv'
<1> DEFINE key == Last(stack[t]).key
           n == Len(stack[t])
<1>1. /\ stack[t] # <<>> /\ Last(stack[t]).at = "compute" /\ Return(t)
      /\ DOMAIN cache' = DOMAIN cache \cup {key}
      /\ DOMAIN computed' = DOMAIN computed \cup {key}
      /\ key \notin DOMAIN computed => computed'[key] = 1
      /\ \A k \in DOMAIN computed : k # key => computed'[k] = computed[k]
  BY DEF Store, Computing
<1>2. PICK K : stack \in [Threads -> Seq(Frames(K))]
  BY DEF OnceInv, Stacks
<1>3. n \in Nat /\ Computes(t, n) /\ KeyAt(t, n) = key
  <2>1. n \in Nat \ {0} /\ Last(stack[t]) = stack[t][n]
    BY <1>1, <1>2, Popped
  <2>2. DOMAIN stack[t] = 1..n
    BY <1>2, LenProperties
  <2> QED BY <1>1, <2>1, <2>2 DEF Computes, KeyAt
<1> HIDE DEF key, n
<1>4. ~Cached(key) /\ key \notin DOMAIN computed
  BY <1>3 DEF OnceInv, HeldUncached, CountedIsCached, Cached
<1>5. /\ Stacks' /\ NothingTaken
      /\ \A u \in Threads, i \in Nat : Computes(u, i)' => ~(u = t /\ i = n)
  BY <1>1, AfterReturn DEF OnceInv, n
<1>6. OneHolder'
  BY <1>5, StillOneHolder DEF OnceInv
<1>7. HeldUncached'
  <2> SUFFICES ASSUME NEW u \in Threads, NEW i \in Nat, Computes(u, i)'
               PROVE  KeyAt(u, i)' \notin DOMAIN cache'
    BY DEF HeldUncached, Cached
  <2>1. Computes(u, i) /\ KeyAt(u, i)' = KeyAt(u, i) /\ ~(u = t /\ i = n)
    BY <1>5 DEF NothingTaken
  <2>2. KeyAt(u, i) # key
    BY <1>3, <2>1 DEF OnceInv, OneHolder
  <2> QED BY <1>1, <2>1, <2>2 DEF OnceInv, HeldUncached, Cached
<1>8. CountedIsCached' /\ ComputedOnce'
  BY <1>1, <1>4 DEF OnceInv, CountedIsCached, ComputedOnce
<1> QED BY <1>5, <1>6, <1>7, <1>8 DEF OnceInv

LEMMA OnceFinish ==
  ASSUME OnceInv, NEW t \in Threads, NEW outcome, Finish(t, outcome)
  PROVE  OnceInv'
<1>1. cache' = cache /\ computed' = computed
  BY DEF Finish
<1>2. Stacks' /\ NothingTaken
  BY AfterFinish DEF OnceInv
<1>3. OneHolder' /\ HeldUncached'
  BY <1>1, <1>2, StillOneHolder, StillUncached DEF OnceInv
<1> QED BY <1>1, <1>2, <1>3 DEF OnceInv, CountedIsCached, ComputedOnce

LEMMA OnceReset ==
  ASSUME OnceInv, Reset
  PROVE  OnceInv'
<1>1. stack' = stack /\ DOMAIN cache' \subseteq DOMAIN cache /\ computed' = <<>>
  BY DEF Reset
<1>2. Stacks' /\ OneHolder'
  BY <1>1 DEF OnceInv, Stacks, OneHolder, Computes, KeyAt
<1>3. HeldUncached'
  BY <1>1 DEF OnceInv, HeldUncached, Computes, KeyAt, Cached
<1>4. CountedIsCached' /\ ComputedOnce'
  BY <1>1 DEF CountedIsCached, ComputedOnce
<1> QED BY <1>2, <1>3, <1>4 DEF OnceInv

(* However the threads meet, whatever they search for and wherever a search *)
(* raises, no value is computed twice between two resets (_OnceCache).      *)
THEOREM OncePerKey == Spec => []ComputedOnce
<1>1. ASSUME OnceInv, [Next]_vars
      PROVE  OnceInv'
  <2>1. CASE Reset
    BY <1>1, <2>1, OnceReset
  <2>2. ASSUME NEW t \in Threads, Call(t)
        PROVE  OnceInv'
    BY <1>1, <2>2, OnceCall
  <2>3. ASSUME NEW t \in Threads, LookUp(t)
        PROVE  OnceInv'
    BY <1>1, <2>3, OnceLookUp
  <2>4. ASSUME NEW t \in Threads, TakeLock(t)
        PROVE  OnceInv'
    BY <1>1, <2>4, OnceTakeLock
  <2>5. ASSUME NEW t \in Threads, Store(t)
        PROVE  OnceInv'
    BY <1>1, <2>5, OnceStore
  <2>6. ASSUME NEW t \in Threads, Raise(t)
        PROVE  OnceInv'
    BY <1>1, <2>6, OnceFinish DEF Raise
  <2>7. ASSUME NEW t \in Threads, Answer(t)
        PROVE  OnceInv'
    BY <1>1, <2>7, OnceFinish DEF Answer
  <2>8. CASE UNCHANGED vars
    BY <1>1, <2>8 DEF vars, OnceInv, Stacks, OneHolder, HeldUncached, CountedIsCached,
                      ComputedOnce, Computes, KeyAt, Cached
  <2> QED BY <1>1, <2>1, <2>2, <2>3, <2>4, <2>5, <2>6, <2>7, <2>8 DEF Next, Step
<1>2. OnceInv => ComputedOnce
  BY DEF OnceInv
<1> QED BY <1>1, <1>2, OnceInit, PTL DEF Spec

-----------------------------------------------------------------------------
(* Deadlock.  A computation looks up only keys of layers below its own, so  *)
(* the keys of a stack go down the layers, and only the last may be waited  *)
(* for.  If every search waited, the holder of the key that one waits for   *)
(* would itself wait for a key of a lower layer, and there are only four.   *)

Rank(key) == CASE key[1] = "index" -> 3
               [] key[1] = "edges" -> 2
               [] key[1] = "record" -> 1
               [] OTHER -> 0

Nested(s) == \A i, j \in DOMAIN s : i < j =>
  s[i].at = "compute" /\ Rank(s[j].key) < Rank(s[i].key)

IdleHoldsNothing == \A t \in Threads : ~Running(t) => stack[t] = <<>>
AllNested == \A t \in Threads : Nested(stack[t])
Asked == \E R : asked \in [Threads -> R]

OrderInv == Stacks /\ Asked /\ IdleHoldsNothing /\ AllNested

LEMMA RankRange == \A key : Rank(key) \in 0..3
BY DEF Rank

(* A computation consults the layers below it. *)
LEMMA NeedsGoDown ==
  ASSUME NEW key, NEW k \in KeyNeeds(key)
  PROVE  Rank(k) < Rank(key)
<1>1. CASE key[1] = "index"
  BY <1>1 DEF KeyNeeds, Rank
<1>2. CASE key[1] = "edges"
  BY <1>2 DEF KeyNeeds, Rank
<1>3. CASE key[1] = "record"
  <2>1. k \in PackageProbes(Front(key[2]))
    BY <1>3 DEF KeyNeeds
  <2>2. k[1] = "pkg"
    BY <2>1 DEF PackageProbes
  <2> QED BY <1>3, <2>2 DEF Rank
<1>4. CASE key[1] \notin {"index", "edges", "record"}
  BY <1>4 DEF KeyNeeds
<1> QED BY <1>1, <1>2, <1>3, <1>4

LEMMA NestedPop ==
  ASSUME NEW K, NEW s \in Seq(Frames(K)), s # <<>>, Nested(s)
  PROVE  Nested(Front(s))
<1>1. /\ Front(s) \in Seq(Frames(K))
      /\ Len(s) \in Nat \ {0} /\ Len(Front(s)) = Len(s) - 1
      /\ \A i \in 1..(Len(s) - 1) : Front(s)[i] = s[i]
  BY Popped
<1>2. DOMAIN s = 1..Len(s) /\ DOMAIN Front(s) = 1..(Len(s) - 1)
  BY <1>1, LenProperties
<1> QED BY <1>1, <1>2 DEF Nested

LEMMA NestedPush ==
  ASSUME NEW K, NEW s \in Seq(Frames(K)), Nested(s), NEW frame \in Frames(K),
         s # <<>> => Last(s).at = "compute" /\ Rank(frame.key) < Rank(Last(s).key)
  PROVE  Nested(Append(s, frame))
<1> DEFINE new == Append(s, frame)
           n == Len(s)
<1>1. /\ new \in Seq(Frames(K)) /\ Len(new) = n + 1
      /\ new[n + 1] = frame /\ \A i \in 1..n : new[i] = s[i]
  BY AppendProperties
<1>2. n \in Nat /\ DOMAIN s = 1..n /\ DOMAIN new = 1..(n + 1)
  BY <1>1, LenProperties
<1> HIDE DEF new
<1>3. ASSUME NEW i \in 1..n
      PROVE  s[i].at = "compute" /\ Rank(frame.key) < Rank(s[i].key)
  <2>1. s # <<>> /\ Last(s) = s[n]
    <3>1. s # <<>>
      BY <1>2, <1>3
    <3> QED BY <3>1, Popped
  <2>2. CASE i = n
    BY <2>1, <2>2
  <2>3. CASE i < n
    <3>1. s[i].at = "compute" /\ Rank(s[n].key) < Rank(s[i].key)
      BY <1>2, <2>3 DEF Nested
    <3>2. Rank(frame.key) < Rank(s[n].key)
      BY <2>1
    <3>3. Rank(frame.key) \in Int /\ Rank(s[n].key) \in Int /\ Rank(s[i].key) \in Int
      BY RankRange
    <3> QED BY <3>1, <3>2, <3>3
  <2>4. n \in Nat
    BY <1>2
  <2>5. i = n \/ i < n
    <3> HIDE DEF n
    <3> QED BY <2>4
  <2> QED BY <2>2, <2>3, <2>5
<1>4. ASSUME NEW i \in DOMAIN new, NEW j \in DOMAIN new, i < j
      PROVE  new[i].at = "compute" /\ Rank(new[j].key) < Rank(new[i].key)
  <2>1. i \in 1..n /\ new[i] = s[i]
    BY <1>1, <1>2, <1>4
  <2>2. CASE j = n + 1
    BY <1>1, <1>3, <2>1, <2>2
  <2>3. CASE j \in 1..n
    BY <1>1, <1>2, <1>4, <2>1, <2>3 DEF Nested
  <2> QED BY <1>2, <2>2, <2>3
<1> QED BY <1>4 DEF Nested, new

(* The lock taken changes nothing but the state of the frame on top. *)
LEMMA NestedAcquire ==
  ASSUME NEW K, NEW s \in Seq(Frames(K)), s # <<>>, Nested(s),
         NEW frame \in Frames(K), frame.key = Last(s).key
  PROVE  Nested(Append(Front(s), frame))
<1> DEFINE front == Front(s)
           n == Len(s)
<1>1. /\ front \in Seq(Frames(K)) /\ n \in Nat \ {0} /\ Len(front) = n - 1
      /\ \A i \in 1..(n - 1) : front[i] = s[i]
      /\ Last(s) = s[n]
  BY Popped
<1>2. DOMAIN s = 1..n
  BY LenProperties
<1>3. Nested(front)
  BY NestedPop
<1> HIDE DEF front
<1>4. ASSUME front # <<>>
      PROVE  Last(front).at = "compute" /\ Rank(frame.key) < Rank(Last(front).key)
  <2>1. Len(front) \in Nat \ {0} /\ Last(front) = front[Len(front)]
    BY <1>1, <1>4, Popped
  <2>2. (n - 1) \in 1..(n - 1) /\ Last(front) = s[n - 1]
    BY <1>1, <2>1
  <2>3. (n - 1) \in DOMAIN s /\ n \in DOMAIN s /\ n - 1 < n
    BY <1>1, <1>2, <2>2
  <2> QED BY <1>1, <2>2, <2>3 DEF Nested
<1>5. Nested(Append(front, frame))
  BY <1>1, <1>3, <1>4, NestedPush
<1> QED BY <1>5 DEF front

-----------------------------------------------------------------------------
LEMMA OrderInit == Init => OrderInv
<1> SUFFICES ASSUME Init PROVE OrderInv
  OBVIOUS
<1>1. stack = [t \in Threads |-> <<>>] /\ asked = [t \in Threads |-> NoRequest]
  BY DEF Init
<1>2. stack \in [Threads -> Seq(Frames({}))] /\ asked \in [Threads -> {NoRequest}]
  BY <1>1, EmptySeq
<1>3. Stacks /\ Asked
  BY <1>2 DEF Stacks, Asked
<1>4. \A t \in Threads : stack[t] = <<>> /\ DOMAIN stack[t] = {}
  BY <1>1
<1> QED BY <1>3, <1>4 DEF OrderInv, IdleHoldsNothing, AllNested, Nested

LEMMA OrderCall ==
  ASSUME OrderInv, NEW t \in Threads, Call(t)
  PROVE  OrderInv'
<1>1. stack' = stack /\ stack[t] = <<>>
  BY DEF Call, OrderInv, IdleHoldsNothing
<1>2. PICK q \in Requests : asked' = [asked EXCEPT ![t] = q]
  BY DEF Call
<1>3. PICK R : asked \in [Threads -> R]
  BY DEF OrderInv, Asked
<1>4. asked' \in [Threads -> R \cup {q}]
  BY <1>2, <1>3
<1>5. IdleHoldsNothing'
  BY <1>1, <1>2, <1>3 DEF OrderInv, IdleHoldsNothing, Running
<1> QED BY <1>1, <1>4, <1>5 DEF OrderInv, Stacks, Asked, AllNested

(* A step that keeps the request of t and leaves its stack nested is harmless. *)
LEMMA OrderKept ==
  ASSUME OrderInv, NEW t \in Threads, asked' = asked, Stacks', Nested(stack'[t]),
         Running(t), \A u \in Threads : u # t => stack'[u] = stack[u]
  PROVE  OrderInv'
<1>1. Asked' /\ IdleHoldsNothing'
  BY DEF OrderInv, Asked, IdleHoldsNothing, Running
<1>2. AllNested'
  <2> SUFFICES ASSUME NEW u \in Threads PROVE Nested(stack'[u])
    BY DEF AllNested, Nested
  <2> QED BY DEF OrderInv, AllNested
<1> QED BY <1>1, <1>2 DEF OrderInv

LEMMA OrderReturn ==
  ASSUME OrderInv, NEW t \in Threads, stack[t] # <<>>, Return(t), asked' = asked
  PROVE  OrderInv'
<1>1. PICK K : stack \in [Threads -> Seq(Frames(K))]
  BY DEF OrderInv, Stacks
<1>2. stack' = [stack EXCEPT ![t] = Front(stack[t])]
  BY DEF Return
<1>3. stack[t] \in Seq(Frames(K)) /\ Nested(stack[t])
  BY <1>1 DEF OrderInv, AllNested
<1>4. Nested(Front(stack[t]))
  BY <1>3, NestedPop
<1>5. Nested(stack'[t]) /\ \A u \in Threads : u # t => stack'[u] = stack[u]
  BY <1>1, <1>2, <1>4
<1>6. Stacks' /\ Running(t)
  BY AfterReturn DEF OrderInv, IdleHoldsNothing
<1> QED BY <1>5, <1>6, OrderKept

LEMMA OrderLookUp ==
  ASSUME OrderInv, NEW t \in Threads, LookUp(t)
  PROVE  OrderInv'
<1>1. PICK key \in Missing(t) : stack' = [stack EXCEPT ![t] = Append(@, [key |-> key, at |-> "lock"])]
  BY DEF LookUp
<1>2. Running(t) /\ Computing(t) /\ asked' = asked
  BY DEF LookUp
<1>3. PICK K : stack \in [Threads -> Seq(Frames(K))] /\ key \in K
  BY RoomFor DEF OrderInv
<1> DEFINE frame == [key |-> key, at |-> "lock"]
<1>4. stack[t] \in Seq(Frames(K)) /\ Nested(stack[t])
  BY <1>3 DEF OrderInv, AllNested
<1>5. frame \in Frames(K) /\ frame.key = key
  BY <1>3 DEF Frames
<1>6. ASSUME stack[t] # <<>>
      PROVE  Last(stack[t]).at = "compute" /\ Rank(key) < Rank(Last(stack[t]).key)
  <2>1. key \in KeyNeeds(Last(stack[t]).key)
    BY <1>1, <1>6 DEF Missing, Needs
  <2> QED BY <1>2, <1>6, <2>1, NeedsGoDown DEF Computing
<1>7. stack' = [stack EXCEPT ![t] = Append(stack[t], frame)]
  BY <1>1
<1> HIDE DEF frame
<1>8. Nested(Append(stack[t], frame))
  BY <1>4, <1>5, <1>6, NestedPush
<1>9. Nested(stack'[t]) /\ \A u \in Threads : u # t => stack'[u] = stack[u]
  BY <1>3, <1>7, <1>8
<1>10. Stacks'
  BY <1>1, AfterLookUp DEF OrderInv
<1> QED BY <1>2, <1>9, <1>10, OrderKept

LEMMA OrderTakeLock ==
  ASSUME OrderInv, NEW t \in Threads, TakeLock(t)
  PROVE  OrderInv'
<1> DEFINE key == Last(stack[t]).key
<1>1. stack[t] # <<>> /\ asked' = asked
  BY DEF TakeLock, Computing
<1>2. CASE Recheck(key)
  <2>1. Return(t)
    BY <1>2 DEF TakeLock
  <2> QED BY <1>1, <2>1, OrderReturn
<1>3. CASE ~Recheck(key)
  <2>1. stack' = [stack EXCEPT ![t] = Append(Front(@), [key |-> key, at |-> "compute"])]
    BY <1>3 DEF TakeLock
  <2>2. PICK K : stack \in [Threads -> Seq(Frames(K))] /\ key \in K
    BY RoomFor DEF OrderInv
  <2> DEFINE frame == [key |-> key, at |-> "compute"]
  <2>3. stack[t] \in Seq(Frames(K)) /\ Nested(stack[t])
    BY <2>2 DEF OrderInv, AllNested
  <2>4. frame \in Frames(K) /\ frame.key = Last(stack[t]).key
    BY <2>2 DEF Frames
  <2>5. stack' = [stack EXCEPT ![t] = Append(Front(stack[t]), frame)]
    BY <2>1
  <2>6. Stacks'
    BY <1>1, <2>1, AfterAcquire DEF OrderInv
  <2> HIDE DEF frame
  <2>7. Nested(Append(Front(stack[t]), frame))
    BY <1>1, <2>3, <2>4, NestedAcquire
  <2>8. Nested(stack'[t]) /\ \A u \in Threads : u # t => stack'[u] = stack[u]
    BY <2>2, <2>5, <2>7
  <2>9. Running(t)
    BY <1>1 DEF OrderInv, IdleHoldsNothing
  <2> QED BY <1>1, <2>6, <2>8, <2>9, OrderKept
<1> QED BY <1>2, <1>3

LEMMA OrderFinish ==
  ASSUME OrderInv, NEW t \in Threads, NEW outcome, Finish(t, outcome)
  PROVE  OrderInv'
<1>1. /\ asked' = [asked EXCEPT ![t] = NoRequest]
      /\ stack' = [stack EXCEPT ![t] = <<>>]
  BY DEF Finish, Unwound
<1>2. PICK R : asked \in [Threads -> R]
  BY DEF OrderInv, Asked
<1>3. PICK K : stack \in [Threads -> Seq(Frames(K))]
  BY DEF OrderInv, Stacks
<1>4. asked' \in [Threads -> R \cup {NoRequest}]
  BY <1>1, <1>2
<1>5. Stacks' /\ Asked'
  BY <1>4, AfterFinish DEF OrderInv, Asked
<1>6. stack'[t] = <<>> /\ \A u \in Threads : u # t => stack'[u] = stack[u]
  BY <1>1, <1>3
<1>7. IdleHoldsNothing'
  BY <1>1, <1>2, <1>6 DEF OrderInv, IdleHoldsNothing, Running
<1>8. AllNested'
  <2> SUFFICES ASSUME NEW u \in Threads PROVE Nested(stack'[u])
    BY DEF AllNested, Nested
  <2>1. CASE u = t
    BY <1>6, <2>1 DEF Nested
  <2>2. CASE u # t
    BY <1>6, <2>2 DEF OrderInv, AllNested
  <2> QED BY <2>1, <2>2
<1> QED BY <1>5, <1>7, <1>8 DEF OrderInv

(* If every search waits for a held key, one waits for a key of a lower layer. *)
LEMMA HolderWaitsLower ==
  ASSUME OrderInv, NEW t \in Threads, NEW u \in Threads,
         Holds(u, Last(stack[t]).key), ~Computing(u)
  PROVE  Running(u) /\ Rank(Last(stack[u]).key) < Rank(Last(stack[t]).key)
<1> DEFINE key == Last(stack[t]).key
           n == Len(stack[u])
<1>1. PICK K : stack \in [Threads -> Seq(Frames(K))]
  BY DEF OrderInv, Stacks
<1>2. PICK i \in DOMAIN stack[u] : stack[u][i] = [key |-> key, at |-> "compute"]
  BY DEF Holds
<1>3. stack[u] # <<>> /\ Last(stack[u]).at # "compute"
  BY DEF Computing
<1>4. /\ n \in Nat \ {0} /\ Last(stack[u]) = stack[u][n]
      /\ DOMAIN stack[u] = 1..n
  BY <1>1, <1>3, Popped, LenProperties
<1>5. i # n
  BY <1>2, <1>3, <1>4
<1>6. n \in DOMAIN stack[u] /\ i < n
  BY <1>2, <1>4, <1>5
<1>7. Rank(stack[u][n].key) < Rank(stack[u][i].key)
  BY <1>2, <1>6 DEF OrderInv, AllNested, Nested
<1> QED BY <1>2, <1>3, <1>4, <1>7 DEF OrderInv, IdleHoldsNothing

LEMMA LowestMoves == OrderInv => SomeSearchMoves
<1> SUFFICES ASSUME OrderInv, NEW t0 \in Threads, Running(t0),
                    \A t \in Threads : Running(t) =>
                      ~Computing(t) /\ \E u \in Threads : Holds(u, Last(stack[t]).key)
             PROVE  FALSE
  BY DEF SomeSearchMoves
<1> DEFINE Level(t) == Rank(Last(stack[t]).key)
           Waits(n) == \E t \in Threads : Running(t) /\ Level(t) <= n
<1>1. \A t \in Threads : Level(t) \in 0..3
  BY RankRange
<1>2. ASSUME NEW t \in Threads, Running(t)
      PROVE  \E u \in Threads : Running(u) /\ Level(u) < Level(t)
  <2>1. PICK u \in Threads : Holds(u, Last(stack[t]).key)
    BY <1>2
  <2>2. Running(u)
    <3>1. stack[u] # <<>>
      BY <2>1 DEF Holds
    <3> QED BY <3>1 DEF OrderInv, IdleHoldsNothing
  <2> QED BY <2>1, <2>2, HolderWaitsLower
<1> HIDE DEF Level
<1>3. \A n \in 0..3 : Waits(n) => Waits(n - 1)
  BY <1>1, <1>2
<1>4. Waits(3)
  BY <1>1
<1>5. ~Waits(-1)
  BY <1>1
<1> HIDE DEF Waits
<1>6. Waits(2)
  BY <1>3, <1>4
<1>7. Waits(1)
  BY <1>3, <1>6
<1>8. Waits(0)
  BY <1>3, <1>7
<1> QED BY <1>3, <1>5, <1>8

LEMMA OrderHolds == Spec => []OrderInv
<1>1. ASSUME OrderInv, [Next]_vars
      PROVE  OrderInv'
  <2>1. CASE Reset
    <3>1. stack' = stack /\ asked' = asked
      BY <2>1 DEF Reset
    <3> QED BY <1>1, <3>1 DEF OrderInv, Stacks, Asked, IdleHoldsNothing, AllNested, Running
  <2>2. ASSUME NEW t \in Threads, Call(t)
        PROVE  OrderInv'
    BY <1>1, <2>2, OrderCall
  <2>3. ASSUME NEW t \in Threads, LookUp(t)
        PROVE  OrderInv'
    BY <1>1, <2>3, OrderLookUp
  <2>4. ASSUME NEW t \in Threads, TakeLock(t)
        PROVE  OrderInv'
    BY <1>1, <2>4, OrderTakeLock
  <2>5. ASSUME NEW t \in Threads, Store(t)
        PROVE  OrderInv'
    <3>1. stack[t] # <<>> /\ Return(t) /\ asked' = asked
      BY <2>5 DEF Store
    <3> QED BY <1>1, <3>1, OrderReturn
  <2>6. ASSUME NEW t \in Threads, Raise(t)
        PROVE  OrderInv'
    BY <1>1, <2>6, OrderFinish DEF Raise
  <2>7. ASSUME NEW t \in Threads, Answer(t)
        PROVE  OrderInv'
    BY <1>1, <2>7, OrderFinish DEF Answer
  <2>8. CASE UNCHANGED vars
    BY <1>1, <2>8 DEF vars, OrderInv, Stacks, Asked, IdleHoldsNothing, AllNested, Running
  <2> QED BY <1>1, <2>1, <2>2, <2>3, <2>4, <2>5, <2>6, <2>7, <2>8 DEF Next, Step
<1> QED BY <1>1, OrderInit, PTL DEF Spec

(* As long as a search runs, some search can go on: threads that compute    *)
(* nested keys, and searches that raise, never leave everyone waiting for a *)
(* key that another holds (get_or_compute).                                 *)
THEOREM NestedLocksNeverDeadlock == Spec => []SomeSearchMoves
BY OrderHolds, LowestMoves, PTL

-----------------------------------------------------------------------------
(* Transparency.  The same questions put to a tree of sources alone: no     *)
(* caches, no threads, no earlier searches.                                 *)

PackagesIn(tree) == {Front(f) : f \in {g \in DOMAIN tree : Last(g) = "__init__"}}
BelowIn(tree, root) == {f \in DOMAIN tree : Under(root, Front(f))
                          /\ \A i \in (Len(root) + 1)..(Len(f) - 1) : f[i] \notin IgnoredDirs}
DirectIn(tree, dir) == {f \in DOMAIN tree : Front(f) = dir}
EdgesIn(tree, f) == Edges(f, Parsed(PackagesIn(tree), f, tree[f]))
IndexIn(tree, files) == UNION {EdgesIn(tree, f) : f \in files}

ValueIn(tree, key) ==
  CASE key[1] = "walk" -> BelowIn(tree, key[2])
    [] key[1] = "list" -> DirectIn(tree, key[2])
    [] key[1] = "pkg" -> IsFile(tree, Append(key[2], "__init__"))
    [] key[1] = "flag" -> FlagIsSet(tree, key[2], key[3])
    [] key[1] = "record" -> Parsed(PackagesIn(tree), key[2], tree[key[2]])
    [] key[1] = "edges" -> EdgesIn(tree, key[2])
    [] key[1] = "index" -> IndexIn(tree, key[2])

BoundaryIn(tree, dir) ==
  IsFile(tree, Append(dir, "__main__")) /\ ~FlagIsSet(tree, dir, "SKIP_ENTRYPOINT_MARKER")
EntryClimbIn(tree, main) ==
  {n \in 0..Len(Front(main)) : \A k \in (n + 1)..Len(Front(main)) :
     Climbs(PackagesIn(tree), Up(main, k)) /\ ~BoundaryIn(tree, Up(main, k))}
CeilingIn(tree, q) ==
  IF q.kind = "constant" THEN Up(q.main, Min(EntryClimbIn(tree, q.main)))
  ELSE PackageRoot(PackagesIn(tree), q.caller)
LevelsIn(tree, q) == Ancestry(PackagesIn(tree), Front(q.caller), CeilingIn(tree, q))
SkippingIn(tree, q) == {d \in Range(LevelsIn(tree, q)) :
                          d # CeilingIn(tree, q) /\ FlagIsSet(tree, d, SkipFlag(q))}
WindowIn(tree, q) ==
  IF q.kind = "below" THEN BelowIn(tree, q.root)
  ELSE UNION {DirectIn(tree, d) : d \in Range(LevelsIn(tree, q)) \ SkippingIn(tree, q)}
LocalityIn(tree, q, file) ==
  IF q.kind = "below" THEN 0
  ELSE CHOOSE n \in 0..Len(file) : LevelsIn(tree, q)[n + 1] = Front(file)

\* The classes, or the constant, that a search of this tree finds.
FoundIn(tree, q) ==
  {[qual |-> c.qual, depth |-> c.depth, locality |-> LocalityIn(tree, q, c.file)] :
     c \in Descendants(IndexIn(tree, WindowIn(tree, q)), q)}
GrabbedIn(tree, q) ==
  LET files == ConfigSearchFrom(LevelsIn(tree, q), CeilingIn(tree, q), SkippingIn(tree, q))
  IN  Grabbed(tree, files, q.name)

CacheTrue == \A key \in DOMAIN cache : key[1] \in Layers /\ cache[key] = ValueIn(disk, key)
AnswersTrue == \A t \in Threads :
  LET q == answer[t].request
  IN  /\ answer[t].kind = "found" => answer[t].classes = FoundIn(disk, q)
      /\ answer[t].kind = "grabbed" => answer[t].value = GrabbedIn(disk, q)

\* A key names files that exist.
KeyOk(tree, key) ==
  /\ key[1] \in Layers
  /\ key[1] \in {"record", "edges"} => key[2] \in DOMAIN tree
  /\ key[1] = "index" => key[2] \subseteq DOMAIN tree
KeysOk == \E K : (\A k \in K : KeyOk(disk, k)) /\ stack \in [Threads -> Seq(Frames(K))]
SearchesOk == /\ disk \in Projects /\ DOMAIN answer = Threads
              /\ \A t \in Threads : Running(t) => asked[t] \in Requests

TrueInv == SearchesOk /\ KeysOk /\ CacheTrue /\ AnswersTrue

-----------------------------------------------------------------------------
(* Paths. *)

LEMMA LeastOf ==
  ASSUME NEW S \in SUBSET Nat, S # {}
  PROVE  Min(S) \in S /\ \A y \in S : Min(S) <= y
<1>1. \E x \in S : \A y \in S : <<y, x>> \notin OpToRel(<, Nat)
  BY NatLessThanWellFounded, WFMin
<1>2. \A x, y \in S : <<y, x>> \notin OpToRel(<, Nat) => x <= y
  BY DEF OpToRel
<1> QED BY <1>1, <1>2 DEF Min

LEMMA GreatestOf ==
  ASSUME NEW n \in Nat, NEW S \in SUBSET (0..n), S # {}
  PROVE  \E x \in S : \A y \in S : y <= x
<1> DEFINE T == {n - x : x \in S}
<1>1. T \in SUBSET Nat /\ T # {}
  <2>1. \A x \in S : x \in 0..n
    OBVIOUS
  <2>2. \A x \in 0..n : n - x \in Nat
    OBVIOUS
  <2> QED BY <2>1, <2>2
<1>2. PICK x \in S : Min(T) = n - x
  BY <1>1, LeastOf
<1>3. \A y \in S : n - x <= n - y
  BY <1>1, <1>2, LeastOf
<1> QED BY <1>3

LEMMA UpIs ==
  ASSUME NEW S, NEW s \in Seq(S), NEW n \in 0..Len(s)
  PROVE  /\ Up(s, n) \in Seq(S) /\ Len(Up(s, n)) = n
         /\ \A i \in 1..n : Up(s, n)[i] = s[i]
<1>1. Len(s) \in Nat /\ n \in Int /\ 1 \in Int /\ \A i \in 1..n : s[i] \in S
  BY LenProperties, ElementOfSeq
<1>2. /\ SubSeq(s, 1, n) \in Seq(S)
      /\ Len(SubSeq(s, 1, n)) = IF 1 <= n THEN n - 1 + 1 ELSE 0
      /\ \A i \in 1..(n - 1 + 1) : SubSeq(s, 1, n)[i] = s[1 + i - 1]
  BY <1>1, SubSeqProperties
<1>3. n - 1 + 1 = n /\ (~(1 <= n) => n = 0) /\ \A i \in 1..n : 1 + i - 1 = i
  BY <1>1
<1> QED BY <1>2, <1>3 DEF Up

LEMMA FrontIsUp ==
  ASSUME NEW S, NEW s \in Seq(S), s # <<>>
  PROVE  /\ Front(s) = Up(s, Len(s) - 1) /\ Front(s) \in Seq(S)
         /\ Len(s) \in Nat \ {0} /\ Len(Front(s)) = Len(s) - 1
         /\ \A i \in 1..(Len(s) - 1) : Front(s)[i] = s[i]
<1>1. Len(s) \in Nat \ {0}
  BY EmptySeq
<1> DEFINE n == Len(s) - 1
<1>2. n \in 0..Len(s) /\ Front(s) = Up(s, n)
  BY <1>1 DEF Front, Up
<1> HIDE DEF n
<1>3. Up(s, n) \in Seq(S) /\ Len(Up(s, n)) = n /\ \A i \in 1..n : Up(s, n)[i] = s[i]
  BY <1>2, UpIs
<1> QED BY <1>1, <1>2, <1>3 DEF n

LEMMA UpFront ==
  ASSUME NEW S, NEW s \in Seq(S), s # <<>>, NEW n \in 0..(Len(s) - 1)
  PROVE  Up(Front(s), n) = Up(s, n)
<1>1. /\ Front(s) \in Seq(S) /\ Len(s) \in Nat \ {0} /\ Len(Front(s)) = Len(s) - 1
      /\ \A i \in 1..(Len(s) - 1) : Front(s)[i] = s[i]
  BY FrontIsUp
<1>2. n \in 0..Len(s) /\ n \in 0..Len(Front(s)) /\ n \in Nat /\ n <= Len(s) - 1
  BY <1>1
<1>3. /\ Up(Front(s), n) \in Seq(S) /\ Len(Up(Front(s), n)) = n
      /\ \A i \in 1..n : Up(Front(s), n)[i] = Front(s)[i]
  BY <1>1, <1>2, UpIs
<1>4. Up(s, n) \in Seq(S) /\ Len(Up(s, n)) = n /\ \A i \in 1..n : Up(s, n)[i] = s[i]
  BY <1>2, UpIs
<1>5. \A i \in 1..n : i \in 1..(Len(s) - 1)
  BY <1>1, <1>2
<1> QED BY <1>1, <1>3, <1>4, <1>5, SeqEqual

LEMMA FrontUp ==
  ASSUME NEW S, NEW s \in Seq(S), NEW n \in 1..Len(s)
  PROVE  Up(s, n) # <<>> /\ Front(Up(s, n)) = Up(s, n - 1)
<1>1. Len(s) \in Nat /\ n \in Nat /\ n \in 0..Len(s) /\ n - 1 \in 0..Len(s) /\ 1 <= n
  BY LenProperties
<1>2. Up(s, n) \in Seq(S) /\ Len(Up(s, n)) = n /\ \A i \in 1..n : Up(s, n)[i] = s[i]
  BY <1>1, UpIs
<1>3. Up(s, n) # <<>>
  BY <1>1, <1>2, EmptySeq
<1>4. /\ Front(Up(s, n)) \in Seq(S) /\ Len(Front(Up(s, n))) = n - 1
      /\ \A i \in 1..(n - 1) : Front(Up(s, n))[i] = Up(s, n)[i]
  BY <1>2, <1>3, FrontIsUp
<1> DEFINE m == n - 1
<1>5. Up(s, m) \in Seq(S) /\ Len(Up(s, m)) = m /\ \A i \in 1..m : Up(s, m)[i] = s[i]
  BY <1>1, UpIs
<1>6. \A i \in 1..m : i \in 1..n
  BY <1>1
<1> HIDE DEF m
<1>7. Front(Up(s, n)) \in Seq(S) /\ Len(Front(Up(s, n))) = m
      /\ \A i \in 1..m : Front(Up(s, n))[i] = s[i]
  BY <1>2, <1>4, <1>6 DEF m
<1>8. Front(Up(s, n)) = Up(s, m)
  BY <1>5, <1>7, SeqEqual
<1> QED BY <1>3, <1>8 DEF m

LEMMA AppendFront ==
  ASSUME NEW S, NEW s \in Seq(S)
  PROVE  /\ s # <<>> => Append(Front(s), Last(s)) = s
         /\ \A e \in S : Front(Append(s, e)) = s /\ Last(Append(s, e)) = e
<1>1. ASSUME NEW e \in S
      PROVE  Front(Append(s, e)) = s /\ Last(Append(s, e)) = e
  <2> DEFINE r == Append(s, e)
             n == Len(s)
  <2>1. /\ r \in Seq(S) /\ r # <<>> /\ Len(r) = n + 1 /\ n \in Nat
        /\ \A i \in 1..n : r[i] = s[i]
        /\ r[n + 1] = e
    BY AppendProperties, LenProperties
  <2> HIDE DEF r
  <2>2. /\ Front(r) \in Seq(S) /\ Len(Front(r)) = Len(r) - 1
        /\ \A i \in 1..(Len(r) - 1) : Front(r)[i] = r[i]
    BY <2>1, FrontIsUp
  <2>3. Len(r) - 1 = n
    BY <2>1
  <2>4. Front(r) = s
    BY <2>1, <2>2, <2>3, SeqEqual
  <2>5. Last(r) = e
    BY <2>1 DEF Last
  <2> QED BY <2>4, <2>5 DEF r
<1>2. ASSUME s # <<>>
      PROVE  Append(Front(s), Last(s)) = s
  <2>1. PICK r \in Seq(S), e \in S : s = Append(r, e)
    BY <1>2, SequenceEmptyOrAppend
  <2> DEFINE n == Len(r)
  <2>2. /\ Len(s) = n + 1 /\ n \in Nat /\ s[n + 1] = e /\ \A i \in 1..n : s[i] = r[i]
    BY <2>1, AppendProperties, LenProperties
  <2>3. /\ Front(s) \in Seq(S) /\ Len(Front(s)) = Len(s) - 1
        /\ \A i \in 1..(Len(s) - 1) : Front(s)[i] = s[i]
    BY <1>2, FrontIsUp
  <2>4. Len(s) - 1 = n
    BY <2>2
  <2>5. Front(s) = r
    BY <2>2, <2>3, <2>4, SeqEqual
  <2> QED BY <2>1, <2>2, <2>5 DEF Last
<1> QED BY <1>1, <1>2

\* A directory is a package when it holds an __init__ file.
LEMMA PackagesAre ==
  ASSUME NEW tree \in Projects, NEW dir \in Seq(STRING)
  PROVE  dir \in PackagesIn(tree) <=> IsFile(tree, Append(dir, "__init__"))
<1> DEFINE Names == STRING \cup {"__init__"}
<1>1. dir \in Seq(Names) /\ "__init__" \in Names
  BY SeqMonotonic
<1>2. \A f \in DOMAIN tree : f \in Seq(Names) /\ f # <<>>
  BY ScanAssumption, SeqMonotonic
<1> HIDE DEF Names
<1>3. ASSUME NEW f \in DOMAIN tree, Last(f) = "__init__", dir = Front(f)
      PROVE  Append(dir, "__init__") \in DOMAIN tree
  <2>1. f \in Seq(Names) /\ f # <<>>
    BY <1>2
  <2>2. Append(Front(f), Last(f)) = f
    BY <2>1, AppendFront
  <2> QED BY <1>3, <2>2
<1>4. ASSUME Append(dir, "__init__") \in DOMAIN tree
      PROVE  dir \in PackagesIn(tree)
  <2>1. Front(Append(dir, "__init__")) = dir /\ Last(Append(dir, "__init__")) = "__init__"
    BY <1>1, AppendFront
  <2> QED BY <1>4, <2>1 DEF PackagesIn
<1> QED BY <1>3, <1>4 DEF PackagesIn, IsFile

-----------------------------------------------------------------------------
(* What the caches know.  A directory is asked about when everything below  *)
(* it turned out to be a package, so the first that is none is known.       *)

LEMMA PackagesTrue ==
  ASSUME CacheTrue, disk \in Projects, NEW dir \in Seq(STRING)
  PROVE  /\ dir \in Packages => dir \in PackagesIn(disk)
         /\ Cached(<<"pkg", dir>>) /\ dir \in PackagesIn(disk) => dir \in Packages
<1>1. ASSUME dir \in Packages
      PROVE  dir \in PackagesIn(disk)
  <2>1. PICK k \in DOMAIN cache : k[1] = "pkg" /\ cache[k] /\ dir = k[2]
    BY <1>1 DEF Packages
  <2>2. cache[k] = IsFile(disk, Append(dir, "__init__"))
    BY <2>1 DEF CacheTrue, ValueIn
  <2> QED BY <2>1, <2>2, PackagesAre
<1>2. ASSUME Cached(<<"pkg", dir>>), dir \in PackagesIn(disk)
      PROVE  dir \in Packages
  <2> DEFINE k == <<"pkg", dir>>
  <2>1. k \in DOMAIN cache /\ k[1] = "pkg" /\ k[2] = dir
    BY <1>2 DEF Cached
  <2> HIDE DEF k
  <2>2. cache[k] = IsFile(disk, Append(dir, "__init__"))
    BY <2>1 DEF CacheTrue, ValueIn
  <2>3. cache[k]
    BY <1>2, <2>2, PackagesAre
  <2> QED BY <2>1, <2>3 DEF Packages
<1> QED BY <1>1, <1>2

LEMMA FlagsTrue ==
  ASSUME CacheTrue, NEW dir, NEW name
  PROVE  /\ dir \in Flagged(name) => FlagIsSet(disk, dir, name)
         /\ Cached(<<"flag", dir, name>>) /\ FlagIsSet(disk, dir, name) => dir \in Flagged(name)
<1>1. ASSUME dir \in Flagged(name)
      PROVE  FlagIsSet(disk, dir, name)
  <2>1. PICK k \in DOMAIN cache : k[1] = "flag" /\ k[3] = name /\ cache[k] /\ dir = k[2]
    BY <1>1 DEF Flagged
  <2> QED BY <2>1 DEF CacheTrue, ValueIn
<1>2. ASSUME Cached(<<"flag", dir, name>>), FlagIsSet(disk, dir, name)
      PROVE  dir \in Flagged(name)
  <2> DEFINE k == <<"flag", dir, name>>
  <2>1. k \in DOMAIN cache /\ k[1] = "flag" /\ k[2] = dir /\ k[3] = name
    BY <1>2 DEF Cached
  <2> HIDE DEF k
  <2>2. cache[k] = FlagIsSet(disk, dir, name)
    BY <2>1 DEF CacheTrue, ValueIn
  <2> QED BY <1>2, <2>1, <2>2 DEF Flagged
<1> QED BY <1>1, <1>2

(* The climb from dir: every package that the next one is asked from. *)
Known(dir) == \A m \in 0..Len(dir) :
  (\A k \in (m + 1)..Len(dir) : Up(dir, k) \in PackagesIn(disk)) =>
    /\ \A k \in (m + 1)..Len(dir) : Up(dir, k) \in Packages
    /\ Up(dir, m) \in PackagesIn(disk) => Up(dir, m) \in Packages

LEMMA ProbesKnow ==
  ASSUME CacheTrue, disk \in Projects, NEW dir \in Seq(STRING), AllCached(PackageProbes(dir))
  PROVE  Known(dir)
<1>0. Len(dir) \in Nat /\ \A k \in 0..Len(dir) : Up(dir, k) \in Seq(STRING)
  BY LenProperties, UpIs
<1>1. ASSUME NEW m \in 0..Len(dir), \A k \in (m + 1)..Len(dir) : Up(dir, k) \in Packages,
             Up(dir, m) \in PackagesIn(disk)
      PROVE  Up(dir, m) \in Packages
  <2>1. <<"pkg", Up(dir, m)>> \in PackageProbes(dir)
    BY <1>1 DEF PackageProbes
  <2>2. Cached(<<"pkg", Up(dir, m)>>)
    BY <2>1 DEF AllCached, Cached
  <2> QED BY <1>0, <1>1, <2>2, PackagesTrue
<1>2. ASSUME NEW m \in 0..Len(dir),
             \A k \in (m + 1)..Len(dir) : Up(dir, k) \in PackagesIn(disk)
      PROVE  \A k \in (m + 1)..Len(dir) : Up(dir, k) \in Packages
  <2> DEFINE Unknown == {k \in 0..Len(dir) : k > m /\ Up(dir, k) \notin Packages}
  <2> SUFFICES ASSUME Unknown # {} PROVE FALSE
    BY <1>0, <1>2
  <2>1. PICK x \in Unknown : \A y \in Unknown : y <= x
    <3>1. Unknown \in SUBSET (0..Len(dir))
      OBVIOUS
    <3> HIDE DEF Unknown
    <3> QED BY <1>0, <3>1, GreatestOf
  <2>2. \A k \in (x + 1)..Len(dir) : Up(dir, k) \in Packages
    BY <1>0, <2>1
  <2>3. x \in (m + 1)..Len(dir) /\ x \in 0..Len(dir)
    BY <1>0, <1>2
  <2> QED BY <1>1, <1>2, <2>2, <2>3
<1> QED BY <1>1, <1>2 DEF Known

LEMMA OutsideKnown ==
  ASSUME CacheTrue, disk \in Projects, NEW dir \in Seq(STRING), Known(dir)
  PROVE  Outside(Packages, dir) = Outside(PackagesIn(disk), dir)
<1>1. Len(dir) \in Nat /\ \A k \in 0..Len(dir) : Up(dir, k) \in Seq(STRING)
  BY LenProperties, UpIs
<1>2. ASSUME NEW n \in 0..Len(dir)
      PROVE  (\A k \in (n + 1)..Len(dir) : Up(dir, k) \in Packages) <=>
               (\A k \in (n + 1)..Len(dir) : Up(dir, k) \in PackagesIn(disk))
  <2>1. \A k \in (n + 1)..Len(dir) : k \in 0..Len(dir)
    BY <1>1
  <2> QED BY <1>1, <2>1, PackagesTrue DEF Known
<1>3. {n \in 0..Len(dir) : \A k \in (n + 1)..Len(dir) : Up(dir, k) \in Packages}
        = {n \in 0..Len(dir) : \A k \in (n + 1)..Len(dir) : Up(dir, k) \in PackagesIn(disk)}
  BY <1>2
<1> QED BY <1>3 DEF Outside

LEMMA ParsedKnown ==
  ASSUME CacheTrue, disk \in Projects, NEW path \in Seq(STRING), path # <<>>,
         Known(Front(path)), NEW text
  PROVE  Parsed(Packages, path, text) = Parsed(PackagesIn(disk), path, text)
<1>1. Front(path) \in Seq(STRING)
  BY FrontIsUp
<1>2. Outside(Packages, Front(path)) = Outside(PackagesIn(disk), Front(path))
  BY <1>1, OutsideKnown
<1>3. ModuleOf(Packages, path) = ModuleOf(PackagesIn(disk), path)
  BY <1>2 DEF ModuleOf
<1> QED BY <1>3 DEF Parsed

(* The climb as its users take it: from a package to a package. *)
LEMMA ClimbsKnown ==
  ASSUME CacheTrue, disk \in Projects, NEW dir \in Seq(STRING), Known(dir),
         NEW n \in 0..Len(dir)
  PROVE  (\A k \in (n + 1)..Len(dir) : Climbs(Packages, Up(dir, k))) <=>
           (\A k \in (n + 1)..Len(dir) : Climbs(PackagesIn(disk), Up(dir, k)))
<1>1. Len(dir) \in Nat /\ \A k \in 0..Len(dir) : Up(dir, k) \in Seq(STRING)
  BY LenProperties, UpIs
<1>2. \A k \in (n + 1)..Len(dir) :
        /\ k \in 1..Len(dir) /\ k \in 0..Len(dir) /\ k - 1 \in 0..Len(dir)
        /\ Up(dir, k) # <<>> /\ Front(Up(dir, k)) = Up(dir, k - 1)
  <2>1. \A k \in (n + 1)..Len(dir) :
          k \in 1..Len(dir) /\ k \in 0..Len(dir) /\ k - 1 \in 0..Len(dir)
    BY <1>1
  <2> QED BY <2>1, FrontUp
<1>3. ASSUME NEW pkgs
      PROVE  (\A k \in (n + 1)..Len(dir) : Climbs(pkgs, Up(dir, k))) <=>
               \A k \in (n + 1)..Len(dir) : Up(dir, k) \in pkgs /\ Up(dir, k - 1) \in pkgs
  BY <1>2 DEF Climbs
<1>4. ASSUME \A k \in (n + 1)..Len(dir) : Up(dir, k) \in Packages /\ Up(dir, k - 1) \in Packages
      PROVE  \A k \in (n + 1)..Len(dir) :
               Up(dir, k) \in PackagesIn(disk) /\ Up(dir, k - 1) \in PackagesIn(disk)
  BY <1>1, <1>2, <1>4, PackagesTrue
<1>5. ASSUME \A k \in (n + 1)..Len(dir) :
               Up(dir, k) \in PackagesIn(disk) /\ Up(dir, k - 1) \in PackagesIn(disk),
             NEW k \in (n + 1)..Len(dir)
      PROVE  Up(dir, k) \in Packages /\ Up(dir, k - 1) \in Packages
  <2>1. /\ \A j \in (n + 1)..Len(dir) : Up(dir, j) \in Packages
        /\ Up(dir, n) \in PackagesIn(disk) => Up(dir, n) \in Packages
    BY <1>5 DEF Known
  <2>2. CASE k = n + 1
    BY <1>1, <1>5, <2>1, <2>2
  <2>3. CASE k # n + 1
    <3>1. k - 1 \in (n + 1)..Len(dir)
      BY <1>1, <2>3
    <3> QED BY <2>1, <3>1
  <2> QED BY <2>2, <2>3
<1> QED BY <1>3, <1>4, <1>5

LEMMA RootKnown ==
  ASSUME CacheTrue, disk \in Projects, NEW path \in Seq(STRING), path # <<>>, Known(Front(path))
  PROVE  PackageRoot(Packages, path) = PackageRoot(PackagesIn(disk), path)
<1> DEFINE dir == Front(path)
<1>1. /\ dir \in Seq(STRING) /\ Len(path) \in Nat \ {0} /\ Len(dir) = Len(path) - 1
      /\ \A n \in 0..(Len(path) - 1) : Up(dir, n) = Up(path, n)
  BY FrontIsUp, UpFront
<1>2. ASSUME NEW pkgs, NEW n \in 0..(Len(path) - 1)
      PROVE  (\A k \in (n + 1)..(Len(path) - 1) : Climbs(pkgs, Up(path, k))) <=>
               (\A k \in (n + 1)..Len(dir) : Climbs(pkgs, Up(dir, k)))
  <2>1. \A k \in (n + 1)..Len(dir) : Up(dir, k) = Up(path, k)
    <3>1. \A k \in (n + 1)..Len(dir) : k \in 0..(Len(path) - 1)
      BY <1>1
    <3> QED BY <1>1, <3>1
  <2> QED BY <1>1, <2>1
<1> HIDE DEF dir
<1>3. ASSUME NEW n \in 0..(Len(path) - 1)
      PROVE  (\A k \in (n + 1)..(Len(path) - 1) : Climbs(Packages, Up(path, k))) <=>
               (\A k \in (n + 1)..(Len(path) - 1) : Climbs(PackagesIn(disk), Up(path, k)))
  <2>1. n \in 0..Len(dir)
    BY <1>1
  <2>2. (\A k \in (n + 1)..Len(dir) : Climbs(Packages, Up(dir, k))) <=>
          (\A k \in (n + 1)..Len(dir) : Climbs(PackagesIn(disk), Up(dir, k)))
    BY <1>1, <2>1, ClimbsKnown DEF dir
  <2> QED BY <1>2, <2>2
<1>4. {n \in 0..(Len(path) - 1) : \A k \in (n + 1)..(Len(path) - 1) : Climbs(Packages, Up(path, k))}
        = {n \in 0..(Len(path) - 1) :
             \A k \in (n + 1)..(Len(path) - 1) : Climbs(PackagesIn(disk), Up(path, k))}
  BY <1>3
<1> QED BY <1>4 DEF PackageRoot

LEMMA AncestryKnown ==
  ASSUME CacheTrue, disk \in Projects, NEW dir \in Seq(STRING), Known(dir), NEW ceiling
  PROVE  Ancestry(Packages, dir, ceiling) = Ancestry(PackagesIn(disk), dir, ceiling)
<1> DEFINE Walked(pkgs, n) ==
             \A k \in (n + 1)..Len(dir) : Up(dir, k) # ceiling /\ Climbs(pkgs, Up(dir, k))
<1>1. ASSUME NEW n \in 0..Len(dir)
      PROVE  Walked(Packages, n) <=> Walked(PackagesIn(disk), n)
  BY ClimbsKnown
<1>2. {n \in 0..Len(dir) : Walked(Packages, n)} = {n \in 0..Len(dir) : Walked(PackagesIn(disk), n)}
  BY <1>1
<1> QED BY <1>2 DEF Ancestry

-----------------------------------------------------------------------------
(* A value computed from true values is true. *)

LEMMA Windows ==
  /\ \A root : WalkOf(root) = BelowIn(disk, root)
  /\ \A dir : ListOf(dir) = DirectIn(disk, dir)
BY DEF WalkOf, BelowIn, ListOf, DirectIn

LEMMA ValueKnown ==
  ASSUME CacheTrue, disk \in Projects, NEW key, KeyOk(disk, key), AllCached(KeyNeeds(key))
  PROVE  Value(key) = ValueIn(disk, key)
<1>1. CASE key[1] = "walk"
  BY <1>1, Windows DEF Value, ValueIn
<1>2. CASE key[1] = "list"
  BY <1>2, Windows DEF Value, ValueIn
<1>3. CASE key[1] = "pkg"
  BY <1>3 DEF Value, ValueIn
<1>4. CASE key[1] = "flag"
  BY <1>4 DEF Value, ValueIn
<1>5. CASE key[1] = "record"
  <2> DEFINE path == key[2]
             text == disk[key[2]]
  <2>1. path \in Seq(STRING) /\ path # <<>>
    BY <1>5, ScanAssumption DEF KeyOk
  <2>2. Parsed(Packages, path, text) = Parsed(PackagesIn(disk), path, text)
    <3>1. CASE text.parses /\ \E s \in Range(text.body) : s.kind = "class"
      <4>1. AllCached(PackageProbes(Front(path)))
        BY <1>5, <3>1 DEF KeyNeeds
      <4>2. Known(Front(path))
        BY <2>1, <4>1, FrontIsUp, ProbesKnow
      <4> HIDE DEF path, text
      <4> QED BY <2>1, <4>2, ParsedKnown
    <3>2. CASE ~text.parses
      BY <3>2 DEF Parsed
    <3>3. CASE ~\E s \in Range(text.body) : s.kind = "class"
      <4>1. \A module : ClassesIn(text.body, module) = {}
        BY <3>3 DEF ClassesIn
      <4> QED BY <4>1 DEF Parsed
    <3> QED BY <3>1, <3>2, <3>3
  <2> QED BY <1>5, <2>2 DEF Value, ValueIn
<1>6. CASE key[1] = "edges"
  <2> DEFINE k == <<"record", key[2]>>
  <2>1. k \in DOMAIN cache /\ k[1] = "record" /\ k[2] = key[2]
    BY <1>6 DEF KeyNeeds, AllCached
  <2>2. cache[k] = Parsed(PackagesIn(disk), key[2], disk[key[2]])
    <3> HIDE DEF k
    <3> QED BY <2>1 DEF CacheTrue, ValueIn
  <2> QED BY <1>6, <2>2 DEF Value, ValueIn, EdgesIn
<1>7. CASE key[1] = "index"
  <2>1. ASSUME NEW f \in key[2]
        PROVE  cache[<<"edges", f>>] = EdgesIn(disk, f)
    <3> DEFINE k == <<"edges", f>>
    <3>1. k \in DOMAIN cache /\ k[1] = "edges" /\ k[2] = f
      BY <1>7 DEF KeyNeeds, AllCached
    <3> HIDE DEF k
    <3>2. cache[k] = EdgesIn(disk, f)
      BY <3>1 DEF CacheTrue, ValueIn
    <3> QED BY <3>2 DEF k
  <2>2. {cache[<<"edges", f>>] : f \in key[2]} = {EdgesIn(disk, f) : f \in key[2]}
    BY <2>1
  <2> QED BY <1>7, <2>2 DEF Value, ValueIn, IndexIn
<1> QED BY <1>1, <1>2, <1>3, <1>4, <1>5, <1>6, <1>7 DEF KeyOk, Layers

-----------------------------------------------------------------------------
(* What a search consults before it answers. *)

(* The climb from an entry point. *)
LEMMA EntryKnown ==
  ASSUME CacheTrue, disk \in Projects, NEW main \in Seq(STRING), main # <<>>,
         AllCached(EntryProbes(main))
  PROVE  EntryClimb(main) = EntryClimbIn(disk, main)
<1> DEFINE top == Len(Front(main))
           Goes(k) == Climbs(Packages, Up(main, k)) /\ ~Boundary(Up(main, k))
           GoesIn(k) == Climbs(PackagesIn(disk), Up(main, k)) /\ ~BoundaryIn(disk, Up(main, k))
           flag == "SKIP_ENTRYPOINT_MARKER"
<1>1. top \in Nat /\ Len(main) = top + 1
  BY FrontIsUp
<1>2. ASSUME NEW k \in 0..top
      PROVE  /\ Up(main, k) \in Seq(STRING)
             /\ k # 0 => Up(main, k) # <<>> /\ Front(Up(main, k)) = Up(main, k - 1)
                           /\ Up(main, k - 1) \in Seq(STRING)
  <2>1. k \in 0..Len(main) /\ (k # 0 => k \in 1..Len(main) /\ k - 1 \in 0..Len(main))
    BY <1>1
  <2> QED BY <2>1, UpIs, FrontUp
<1>3. /\ \A dir : dir \in Flagged(flag) => FlagIsSet(disk, dir, flag)
      /\ \A dir : Cached(<<"flag", dir, flag>>) /\ FlagIsSet(disk, dir, flag) =>
                    dir \in Flagged(flag)
  BY FlagsTrue
<1>4. ASSUME NEW k \in 1..top, Goes(k)
      PROVE  GoesIn(k)
  <2>1. k \in 0..top /\ k # 0
    BY <1>1
  <2>2. Climbs(PackagesIn(disk), Up(main, k))
    BY <1>2, <1>4, <2>1, PackagesTrue DEF Climbs
  <2>3. ~BoundaryIn(disk, Up(main, k))
    BY <1>3, <1>4 DEF Boundary, BoundaryIn
  <2> QED BY <2>2, <2>3
<1>5. ASSUME NEW k \in 1..top, \A j \in (k + 1)..top : Goes(j), GoesIn(k)
      PROVE  Goes(k)
  <2> DEFINE dir == Up(main, k)
             dirs == {Up(main, n) : n \in EntryClimb(main)}
             Runs(d) == d \in Packages /\ IsFile(disk, Append(d, "__main__"))
             FlagOf(d) == <<"flag", d, flag>>
  <2>0. k \in 0..top /\ k # 0
    BY <1>1
  <2>1. dir \in dirs
    BY <1>5, <2>0 DEF EntryClimb
  <2>2. /\ <<"pkg", dir>> \in DOMAIN cache
        /\ Runs(dir) => FlagOf(dir) \in DOMAIN cache
        /\ /\ dir # <<>> /\ dir \in Packages
           /\ Runs(dir) => Cached(FlagOf(dir)) /\ cache[FlagOf(dir)]
           => <<"pkg", Front(dir)>> \in DOMAIN cache
    <3> HIDE DEF dir
    <3>1. EntryProbes(main) \subseteq DOMAIN cache
      BY DEF AllCached
    <3> QED BY <2>1, <3>1 DEF EntryProbes
  <2>3. dir \in Packages
    BY <1>2, <1>5, <2>0, <2>2, PackagesTrue DEF Climbs, Cached
  <2>4. IsFile(disk, Append(dir, "__main__")) => dir \in Flagged(flag) /\ cache[FlagOf(dir)]
    <3> SUFFICES ASSUME IsFile(disk, Append(dir, "__main__"))
                 PROVE  dir \in Flagged(flag) /\ cache[FlagOf(dir)]
      OBVIOUS
    <3>1. FlagIsSet(disk, dir, flag)
      BY <1>5 DEF BoundaryIn
    <3>2. FlagOf(dir) \in DOMAIN cache
      BY <2>2, <2>3
    <3> DEFINE key == FlagOf(dir)
    <3>3. key \in DOMAIN cache /\ key[1] = "flag" /\ key[2] = dir /\ key[3] = flag
      BY <3>2
    <3> HIDE DEF key
    <3>4. cache[key] = FlagIsSet(disk, dir, flag)
      BY <3>3 DEF CacheTrue, ValueIn
    <3> QED BY <1>3, <3>1, <3>2, <3>4 DEF key, Cached
  <2>5. <<"pkg", Front(dir)>> \in DOMAIN cache
    BY <1>2, <2>0, <2>2, <2>3, <2>4 DEF Cached
  <2>6. Front(dir) \in Packages
    BY <1>2, <1>5, <2>0, <2>5, PackagesTrue DEF Climbs, Cached
  <2>7. Climbs(Packages, dir)
    BY <1>2, <2>0, <2>3, <2>6 DEF Climbs
  <2>8. ~Boundary(dir)
    BY <2>4 DEF Boundary
  <2> QED BY <2>7, <2>8
<1> HIDE DEF Goes, GoesIn, flag
<1>6. ASSUME NEW n \in 0..top, \A k \in (n + 1)..top : GoesIn(k)
      PROVE  \A k \in (n + 1)..top : Goes(k)
  <2> DEFINE Stuck == {k \in 0..top : k > n /\ ~Goes(k)}
  <2> SUFFICES ASSUME Stuck # {} PROVE FALSE
    BY <1>1, <1>6
  <2>1. PICK x \in Stuck : \A y \in Stuck : y <= x
    <3>1. Stuck \in SUBSET (0..top)
      OBVIOUS
    <3> HIDE DEF Stuck
    <3> QED BY <1>1, <3>1, GreatestOf
  <2>2. \A k \in (x + 1)..top : Goes(k)
    BY <1>1, <1>6, <2>1
  <2>3. x \in (n + 1)..top /\ x \in 1..top
    BY <1>1, <1>6
  <2> QED BY <1>5, <1>6, <2>2, <2>3
<1>7. ASSUME NEW n \in 0..top
      PROVE  (\A k \in (n + 1)..top : Goes(k)) <=> (\A k \in (n + 1)..top : GoesIn(k))
  <2>1. \A k \in (n + 1)..top : k \in 1..top
    BY <1>1
  <2> QED BY <1>4, <1>6, <2>1
<1>8. {n \in 0..top : \A k \in (n + 1)..top : Goes(k)}
        = {n \in 0..top : \A k \in (n + 1)..top : GoesIn(k)}
  BY <1>7
<1> QED BY <1>8 DEF EntryClimb, EntryClimbIn, Goes, GoesIn

\* The levels near a file are known once the climbs below them are.
Climbed(q) == /\ q.kind = "constant" => AllCached(EntryProbes(q.main))
              /\ AllCached(PackageProbes(Front(q.caller)))

LEMMA LevelsKnown ==
  ASSUME CacheTrue, disk \in Projects, NEW q \in Requests, Climbed(q)
  PROVE  Ceiling(q) = CeilingIn(disk, q) /\ Levels(q) = LevelsIn(disk, q)
<1>1. /\ q.caller \in Seq(STRING) /\ q.caller # <<>> /\ q.main \in Seq(STRING) /\ q.main # <<>>
      /\ Front(q.caller) \in Seq(STRING)
  BY ScanAssumption, FrontIsUp
<1>2. Known(Front(q.caller))
  BY <1>1, ProbesKnow DEF Climbed
<1>3. Ceiling(q) = CeilingIn(disk, q)
  <2>1. CASE q.kind = "constant"
    <3>1. EntryClimb(q.main) = EntryClimbIn(disk, q.main)
      BY <1>1, <2>1, EntryKnown DEF Climbed
    <3> QED BY <2>1, <3>1 DEF Ceiling, CeilingIn, EntryRoot
  <2>2. CASE q.kind # "constant"
    BY <1>1, <1>2, <2>2, RootKnown DEF Ceiling, CeilingIn
  <2> QED BY <2>1, <2>2
<1>4. Ancestry(Packages, Front(q.caller), Ceiling(q))
        = Ancestry(PackagesIn(disk), Front(q.caller), Ceiling(q))
  BY <1>1, <1>2, AncestryKnown
<1> QED BY <1>3, <1>4 DEF Levels, LevelsIn

LEMMA SkippingKnown ==
  ASSUME CacheTrue, disk \in Projects, NEW q \in Requests, Climbed(q),
         \A d \in Range(Levels(q)) : d # Ceiling(q) => Cached(<<"flag", d, SkipFlag(q)>>)
  PROVE  Skipping(q) = SkippingIn(disk, q)
<1>1. Ceiling(q) = CeilingIn(disk, q) /\ Levels(q) = LevelsIn(disk, q)
  BY LevelsKnown
<1>2. ASSUME NEW d \in Range(Levels(q)), d # Ceiling(q)
      PROVE  d \in Flagged(SkipFlag(q)) <=> FlagIsSet(disk, d, SkipFlag(q))
  BY <1>2, FlagsTrue
<1> QED BY <1>1, <1>2 DEF Skipping, SkippingIn

\* Every level's flag is known, and the listing of those that are kept.
LEMMA WindowKnown ==
  ASSUME CacheTrue, disk \in Projects, NEW q \in Requests, q.kind = "local", Climbed(q),
         OpenLevels(q) = {}
  PROVE  Window(q) = WindowIn(disk, q)
<1>1. ASSUME NEW d \in Range(Levels(q))
      PROVE  AllCached(LevelProbes(q, d))
  BY <1>1 DEF OpenLevels, Range
<1>2. ASSUME NEW d \in Range(Levels(q)), d # Ceiling(q)
      PROVE  Cached(<<"flag", d, SkipFlag(q)>>)
  BY <1>1, <1>2 DEF LevelProbes, AllCached, Cached
<1>3. Skipping(q) = SkippingIn(disk, q)
  BY <1>2, SkippingKnown
<1>4. ASSUME NEW d \in Kept(q)
      PROVE  cache[<<"list", d>>] = DirectIn(disk, d)
  <2>1. d \in Range(Levels(q))
    BY <1>4 DEF Kept
  <2>2. <<"list", d>> \in DOMAIN cache
    BY <1>1, <1>2, <1>4, <2>1 DEF LevelProbes, AllCached
  <2> DEFINE k == <<"list", d>>
  <2>3. k \in DOMAIN cache /\ k[1] = "list" /\ k[2] = d
    BY <2>2
  <2> HIDE DEF k
  <2>4. cache[k] = DirectIn(disk, d)
    BY <2>3 DEF CacheTrue, ValueIn
  <2> QED BY <2>4 DEF k
<1>5. {cache[<<"list", d>>] : d \in Kept(q)} = {DirectIn(disk, d) : d \in Kept(q)}
  BY <1>4
<1>6. Kept(q) = Range(LevelsIn(disk, q)) \ SkippingIn(disk, q)
  BY <1>3, LevelsKnown DEF Kept
<1> QED BY <1>5, <1>6 DEF Window, WindowIn

LEMMA OpenLevelsAreNumbers ==
  ASSUME NEW q \in Requests
  PROVE  OpenLevels(q) \in SUBSET Nat
<1> DEFINE start == Front(q.caller)
           Walked(n) == \A k \in (n + 1)..Len(start) :
                          Up(start, k) # Ceiling(q) /\ Climbs(Packages, Up(start, k))
           S == {n \in 0..Len(start) : Walked(n)}
<1>1. Len(start) \in Nat
  BY ScanAssumption, FrontIsUp, LenProperties
<1> HIDE DEF start
<1>2. Len(start) \in S /\ S \in SUBSET Nat
  BY <1>1
<1>3. Min(S) \in Nat
  <2> HIDE DEF S
  <2> QED BY <1>2, LeastOf
<1>4. DOMAIN Levels(q) = 1..(Len(start) - Min(S) + 1)
  BY DEF Levels, Ancestry, start
<1>5. 1..(Len(start) - Min(S) + 1) \in SUBSET Nat
  <2> HIDE DEF S
  <2> QED BY <1>1, <1>3
<1> QED BY <1>4, <1>5 DEF OpenLevels

\* What a search has consulted when nothing is missing.
LEMMA AllConsulted ==
  ASSUME NEW q \in Requests, AllCached(RequestNeeds(q))
  PROVE  /\ q.kind = "below" => Cached(<<"walk", q.root>>)
         /\ q.kind \in {"local", "constant"} => Climbed(q)
         /\ q.kind = "local" => OpenLevels(q) = {}
         /\ q.kind = "constant" => AllCached(FlagProbes(q))
         /\ q.kind \in {"below", "local"} => Cached(<<"index", Window(q)>>)
<1>1. CASE q.kind = "below"
  <2>1. Cached(<<"walk", q.root>>)
    BY <1>1 DEF RequestNeeds, AllCached, Cached
  <2> QED BY <1>1, <2>1 DEF RequestNeeds, AllCached, Cached
<1>2. CASE q.kind = "constant"
  <2>1. AllCached(EntryProbes(q.main))
    BY <1>2 DEF RequestNeeds
  <2>2. AllCached(PackageProbes(Front(q.caller)))
    BY <1>2, <2>1 DEF RequestNeeds
  <2> QED BY <1>2, <2>1, <2>2 DEF RequestNeeds, Climbed
<1>3. CASE q.kind = "local"
  <2>1. AllCached(PackageProbes(Front(q.caller)))
    BY <1>3 DEF RequestNeeds
  <2>2. OpenLevels(q) = {}
    <3> SUFFICES ASSUME OpenLevels(q) # {} PROVE FALSE
      OBVIOUS
    <3>1. Min(OpenLevels(q)) \in OpenLevels(q)
      BY OpenLevelsAreNumbers, LeastOf
    <3>2. ~AllCached(LevelProbes(q, Levels(q)[Min(OpenLevels(q))]))
      BY <3>1 DEF OpenLevels
    <3>3. RequestNeeds(q) = LevelProbes(q, Levels(q)[Min(OpenLevels(q))])
      BY <1>3, <2>1 DEF RequestNeeds
    <3> QED BY <3>2, <3>3
  <2>3. RequestNeeds(q) = {<<"index", Window(q)>>}
    BY <1>3, <2>1, <2>2 DEF RequestNeeds
  <2> QED BY <1>3, <2>1, <2>2, <2>3 DEF Climbed, AllCached, Cached
<1>4. q.kind \in {"below", "local", "constant"}
  BY ScanAssumption
<1> QED BY <1>1, <1>2, <1>3, <1>4

LEMMA OutcomeKnown ==
  ASSUME CacheTrue, disk \in Projects, NEW q \in Requests, AllCached(RequestNeeds(q))
  PROVE  LET o == Outcome(q)
         IN  /\ o.kind = "found" => o.request = q /\ o.classes = FoundIn(disk, q)
             /\ o.kind = "grabbed" => o.request = q /\ o.value = GrabbedIn(disk, q)
<1>1. CASE q.kind = "constant"
  <2>1. Climbed(q) /\ AllCached(FlagProbes(q))
    BY <1>1, AllConsulted
  <2>2. ASSUME NEW d \in Range(Levels(q)), d # Ceiling(q)
        PROVE  Cached(<<"flag", d, SkipFlag(q)>>)
    BY <2>1, <2>2 DEF FlagProbes, AllCached, Cached
  <2>3. Skipping(q) = SkippingIn(disk, q)
    BY <2>1, <2>2, SkippingKnown
  <2>4. Ceiling(q) = CeilingIn(disk, q) /\ Levels(q) = LevelsIn(disk, q)
    BY <2>1, LevelsKnown
  <2>5. Grabbed(disk, Searched(q), q.name) = GrabbedIn(disk, q)
    BY <2>3, <2>4 DEF Searched, GrabbedIn
  <2> QED BY <1>1, <2>5 DEF Outcome, Raised
<1>2. CASE q.kind \in {"below", "local"}
  <2>1. Window(q) = WindowIn(disk, q)
    <3>1. CASE q.kind = "local"
      BY <3>1, AllConsulted, WindowKnown
    <3>2. CASE q.kind = "below"
      <4> DEFINE k == <<"walk", q.root>>
      <4>1. k \in DOMAIN cache /\ k[1] = "walk" /\ k[2] = q.root
        BY <3>2, AllConsulted DEF Cached
      <4> HIDE DEF k
      <4>2. cache[k] = BelowIn(disk, q.root)
        BY <4>1 DEF CacheTrue, ValueIn
      <4> QED BY <3>2, <4>2 DEF Window, WindowIn, k
    <3> QED BY <1>2, <3>1, <3>2
  <2>2. cache[<<"index", Window(q)>>] = IndexIn(disk, WindowIn(disk, q))
    <3> DEFINE k == <<"index", Window(q)>>
    <3>1. k \in DOMAIN cache /\ k[1] = "index" /\ k[2] = WindowIn(disk, q)
      BY <1>2, <2>1, AllConsulted DEF Cached
    <3> HIDE DEF k
    <3>2. cache[k] = IndexIn(disk, WindowIn(disk, q))
      BY <3>1 DEF CacheTrue, ValueIn
    <3> QED BY <3>2 DEF k
  <2>3. \A file : Locality(q, file) = LocalityIn(disk, q, file)
    <3>1. CASE q.kind = "below"
      BY <3>1 DEF Locality, LocalityIn
    <3>2. CASE q.kind = "local"
      <4>1. Levels(q) = LevelsIn(disk, q)
        BY <3>2, AllConsulted, LevelsKnown
      <4> QED BY <3>2, <4>1 DEF Locality, LocalityIn
    <3> QED BY <1>2, <3>1, <3>2
  <2>4. Found(q) = FoundIn(disk, q)
    BY <2>2, <2>3 DEF Found, FoundIn
  <2>5. Outcome(q) = [kind |-> "found", request |-> q, classes |-> Found(q)]
    BY <1>2 DEF Outcome
  <2> QED BY <2>4, <2>5
<1>3. q.kind \in {"below", "local", "constant"}
  BY ScanAssumption
<1> QED BY <1>1, <1>2, <1>3

-----------------------------------------------------------------------------
(* One step of a search. *)

\* Whatever is looked up next names files that exist.
LEMMA NeedsAreKeys ==
  ASSUME SearchesOk, KeysOk, CacheTrue, NEW t \in Threads, Running(t), NEW key \in Missing(t)
  PROVE  KeyOk(disk, key)
<1> DEFINE q == asked[t]
<1>1. q \in Requests /\ disk \in Projects /\ key \in Needs(t) /\ key \notin DOMAIN cache
  BY DEF SearchesOk, Missing, Cached
<1>2. CASE stack[t] = <<>>
  <2>1. key \in RequestNeeds(q)
    BY <1>1, <1>2 DEF Needs
  <2>2. CASE q.kind = "constant"
    <3>1. \/ key \in EntryProbes(q.main) \/ key \in PackageProbes(Front(q.caller))
          \/ key \in FlagProbes(q)
      BY <2>1, <2>2 DEF RequestNeeds
    <3>2. key \in EntryProbes(q.main) => key[1] \in {"pkg", "flag"}
      <4> SUFFICES ASSUME key \in EntryProbes(q.main) PROVE key[1] \in {"pkg", "flag"}
        OBVIOUS
      <4>1. \E d : \/ key = <<"pkg", d>> \/ key = <<"pkg", Front(d)>>
                   \/ key = <<"flag", d, "SKIP_ENTRYPOINT_MARKER">>
        BY Zenon DEF EntryProbes
      <4> QED BY <4>1
    <3>3. key \in PackageProbes(Front(q.caller)) => key[1] = "pkg"
      BY DEF PackageProbes
    <3>4. key \in FlagProbes(q) => key[1] = "flag"
      BY DEF FlagProbes
    <3> QED BY <3>1, <3>2, <3>3, <3>4 DEF KeyOk, Layers
  <2>3. CASE q.kind = "below"
    <3>1. CASE ~Cached(<<"walk", q.root>>)
      <4>1. key[1] = "walk"
        BY <2>1, <2>3, <3>1 DEF RequestNeeds
      <4> QED BY <4>1 DEF KeyOk, Layers
    <3>2. CASE Cached(<<"walk", q.root>>)
      <4> DEFINE k == <<"walk", q.root>>
      <4>1. k \in DOMAIN cache /\ k[1] = "walk" /\ k[2] = q.root
        BY <3>2 DEF Cached
      <4> HIDE DEF k
      <4>2. cache[k] = BelowIn(disk, q.root)
        BY <4>1 DEF CacheTrue, ValueIn
      <4>3. key[1] = "index" /\ key[2] = BelowIn(disk, q.root)
        BY <2>1, <2>3, <3>2, <4>2 DEF RequestNeeds, Window, k
      <4> QED BY <4>3 DEF KeyOk, Layers, BelowIn
    <3> QED BY <3>1, <3>2
  <2>4. CASE q.kind = "local"
    <3>1. CASE key[1] \in {"pkg", "flag", "list"}
      BY <3>1 DEF KeyOk, Layers
    <3>2. CASE key[1] \notin {"pkg", "flag", "list"}
      <4>1. AllCached(PackageProbes(Front(q.caller)))
        BY <2>1, <2>4, <3>2 DEF RequestNeeds, PackageProbes
      <4>2. OpenLevels(q) = {}
        BY <2>1, <2>4, <3>2, <4>1 DEF RequestNeeds, LevelProbes
      <4>3. key[1] = "index" /\ key[2] = Window(q)
        BY <2>1, <2>4, <4>1, <4>2 DEF RequestNeeds
      <4>4. Window(q) = WindowIn(disk, q)
        BY <1>1, <2>4, <4>1, <4>2, WindowKnown DEF Climbed
      <4>5. WindowIn(disk, q) \subseteq DOMAIN disk
        BY DEF WindowIn, BelowIn, DirectIn
      <4> QED BY <4>3, <4>4, <4>5 DEF KeyOk, Layers
    <3> QED BY <3>1, <3>2
  <2>5. q.kind \in {"below", "local", "constant"}
    BY <1>1, ScanAssumption
  <2> QED BY <2>2, <2>3, <2>4, <2>5
<1>3. CASE stack[t] # <<>>
  <2> DEFINE top == Last(stack[t]).key
  <2>1. KeyOk(disk, top)
    <3>1. PICK K : (\A k \in K : KeyOk(disk, k)) /\ stack \in [Threads -> Seq(Frames(K))]
      BY DEF KeysOk
    <3>2. Last(stack[t]) \in Frames(K)
      BY <1>3, <3>1, Popped
    <3> QED BY <3>1, <3>2 DEF Frames
  <2>2. key \in KeyNeeds(top)
    BY <1>1, <1>3 DEF Needs
  <2> HIDE DEF top
  <2>3. CASE top[1] = "index"
    BY <2>1, <2>2, <2>3 DEF KeyNeeds, KeyOk, Layers
  <2>4. CASE top[1] = "edges"
    BY <2>1, <2>2, <2>4 DEF KeyNeeds, KeyOk, Layers
  <2>5. CASE top[1] = "record"
    <3>1. key[1] = "pkg"
      BY <2>2, <2>5 DEF KeyNeeds, PackageProbes
    <3> QED BY <3>1 DEF KeyOk, Layers
  <2>6. CASE top[1] \notin {"index", "edges", "record"}
    BY <2>2, <2>6 DEF KeyNeeds
  <2> QED BY <2>3, <2>4, <2>5, <2>6
<1> QED BY <1>2, <1>3

\* The keys of a stack are those it had, or one more.
LEMMA KeysKept ==
  ASSUME KeysOk, disk' = disk, NEW t \in Threads,
         \/ stack' = stack
         \/ stack[t] # <<>> /\ Return(t)
         \/ \E key : KeyOk(disk, key)
              /\ stack' = [stack EXCEPT ![t] = Append(@, [key |-> key, at |-> "lock"])]
         \/ stack[t] # <<>> /\ stack' = [stack EXCEPT ![t] =
              Append(Front(@), [key |-> Last(stack[t]).key, at |-> "compute"])]
         \/ stack' = [stack EXCEPT ![t] = <<>>]
  PROVE  KeysOk'
<1>1. PICK K : (\A k \in K : KeyOk(disk, k)) /\ stack \in [Threads -> Seq(Frames(K))]
  BY DEF KeysOk
<1>2. CASE stack' = stack
  BY <1>2 DEF KeysOk
<1>3. CASE stack[t] # <<>> /\ Return(t)
  <2>1. Front(stack[t]) \in Seq(Frames(K))
    BY <1>1, <1>3, Popped
  <2>2. stack' \in [Threads -> Seq(Frames(K))]
    BY <1>1, <1>3, <2>1 DEF Return
  <2> QED BY <1>1, <2>2 DEF KeysOk
<1>4. ASSUME NEW key, KeyOk(disk, key),
             stack' = [stack EXCEPT ![t] = Append(@, [key |-> key, at |-> "lock"])]
      PROVE  KeysOk'
  <2> DEFINE more == K \cup {key}
             frame == [key |-> key, at |-> "lock"]
  <2>1. Frames(K) \subseteq Frames(more) /\ frame \in Frames(more)
    BY DEF Frames
  <2>2. \A u \in Threads : stack[u] \in Seq(Frames(more))
    BY <1>1, <2>1, SeqMonotonic
  <2>3. \A k \in more : KeyOk(disk, k)
    BY <1>1, <1>4
  <2> HIDE DEF more, frame
  <2>4. Append(stack[t], frame) \in Seq(Frames(more))
    BY <2>1, <2>2, AppendProperties
  <2>5. stack' \in [Threads -> Seq(Frames(more))]
    BY <1>1, <1>4, <2>2, <2>4 DEF frame
  <2> QED BY <2>3, <2>5 DEF KeysOk
<1>5. CASE stack[t] # <<>> /\ stack' = [stack EXCEPT ![t] =
             Append(Front(@), [key |-> Last(stack[t]).key, at |-> "compute"])]
  <2> DEFINE frame == [key |-> Last(stack[t]).key, at |-> "compute"]
  <2>1. Front(stack[t]) \in Seq(Frames(K)) /\ Last(stack[t]) \in Frames(K)
    BY <1>1, <1>5, Popped
  <2>2. frame \in Frames(K)
    BY <2>1 DEF Frames
  <2> HIDE DEF frame
  <2>3. Append(Front(stack[t]), frame) \in Seq(Frames(K))
    BY <2>1, <2>2, AppendProperties
  <2>4. stack' \in [Threads -> Seq(Frames(K))]
    BY <1>1, <1>5, <2>3 DEF frame
  <2> QED BY <1>1, <2>4 DEF KeysOk
<1>6. CASE stack' = [stack EXCEPT ![t] = <<>>]
  <2>1. stack' \in [Threads -> Seq(Frames(K))]
    BY <1>1, <1>6, EmptySeq
  <2> QED BY <1>1, <2>1 DEF KeysOk
<1> QED BY <1>2, <1>3, <1>4, <1>5, <1>6

LEMMA TrueInit == Init => TrueInv
<1> SUFFICES ASSUME Init PROVE TrueInv
  OBVIOUS
<1>1. SearchesOk
  BY DEF Init, SearchesOk, Running, NoRequest
<1>2. stack \in [Threads -> Seq(Frames({}))]
  BY EmptySeq DEF Init
<1>3. KeysOk
  BY <1>2 DEF KeysOk
<1>4. CacheTrue
  BY DEF Init, CacheTrue
<1>5. AnswersTrue
  BY DEF Init, AnswersTrue, NoAnswer
<1> QED BY <1>1, <1>3, <1>4, <1>5 DEF TrueInv

LEMMA TrueCall ==
  ASSUME OrderInv, TrueInv, NEW t \in Threads, Call(t)
  PROVE  TrueInv'
<1>1. PICK q \in Requests : asked' = [asked EXCEPT ![t] = q]
  BY DEF Call
<1>2. /\ UNCHANGED <<disk, cache, stack>>
      /\ answer' = [answer EXCEPT ![t] = NoAnswer]
  BY DEF Call
<1>3. PICK R : asked \in [Threads -> R]
  BY DEF OrderInv, Asked
<1>4. SearchesOk'
  BY <1>1, <1>2, <1>3 DEF TrueInv, SearchesOk, Running
<1>5. KeysOk' /\ CacheTrue'
  BY <1>2 DEF TrueInv, KeysOk, CacheTrue
<1>6. AnswersTrue'
  BY <1>2 DEF TrueInv, SearchesOk, AnswersTrue, NoAnswer
<1> QED BY <1>4, <1>5, <1>6 DEF TrueInv

LEMMA TrueMove ==
  ASSUME TrueInv, NEW t \in Threads, LookUp(t) \/ TakeLock(t)
  PROVE  TrueInv'
<1>1. UNCHANGED <<disk, cache, asked, answer>>
  BY DEF LookUp, TakeLock
<1>2. KeysOk'
  <2>1. CASE LookUp(t)
    <3>1. PICK key \in Missing(t) :
            stack' = [stack EXCEPT ![t] = Append(@, [key |-> key, at |-> "lock"])]
      BY <2>1 DEF LookUp
    <3>2. KeyOk(disk, key)
      BY <2>1, NeedsAreKeys DEF TrueInv, LookUp
    <3> QED BY <1>1, <3>1, <3>2, KeysKept DEF TrueInv
  <2>2. CASE TakeLock(t)
    <3>1. stack[t] # <<>>
      BY <2>2 DEF TakeLock, Computing
    <3>2. Return(t) \/ stack' = [stack EXCEPT ![t] =
            Append(Front(@), [key |-> Last(stack[t]).key, at |-> "compute"])]
      BY <2>2 DEF TakeLock
    <3> QED BY <1>1, <3>1, <3>2, KeysKept DEF TrueInv
  <2> QED BY <2>1, <2>2
<1> QED BY <1>1, <1>2 DEF TrueInv, SearchesOk, CacheTrue, AnswersTrue, Running

LEMMA TrueStore ==
  ASSUME TrueInv, NEW t \in Threads, Store(t)
  PROVE  TrueInv'
<1> DEFINE key == Last(stack[t]).key
<1>1. /\ stack[t] # <<>> /\ Return(t) /\ Missing(t) = {}
      /\ UNCHANGED <<disk, asked, answer>>
      /\ cache' = [k \in DOMAIN cache \cup {key} |-> IF k = key THEN Value(key) ELSE cache[k]]
  BY DEF Store
<1>2. KeyOk(disk, key)
  <2>1. PICK K : (\A k \in K : KeyOk(disk, k)) /\ stack \in [Threads -> Seq(Frames(K))]
    BY DEF TrueInv, KeysOk
  <2>2. Last(stack[t]) \in Frames(K)
    BY <1>1, <2>1, Popped
  <2> QED BY <2>1, <2>2 DEF Frames
<1>3. AllCached(KeyNeeds(key))
  BY <1>1 DEF Missing, Needs, AllCached, Cached
<1> HIDE DEF key
<1>4. Value(key) = ValueIn(disk, key)
  BY <1>2, <1>3, ValueKnown DEF TrueInv, SearchesOk
<1>5. key[1] \in Layers
  BY <1>2 DEF KeyOk
<1>6. CacheTrue'
  BY <1>1, <1>4, <1>5 DEF TrueInv, CacheTrue
<1>7. KeysOk'
  BY <1>1, KeysKept DEF TrueInv
<1> QED BY <1>1, <1>6, <1>7 DEF TrueInv, SearchesOk, AnswersTrue, Running

LEMMA TrueFinish ==
  ASSUME OrderInv, TrueInv, NEW t \in Threads, Raise(t) \/ Answer(t)
  PROVE  TrueInv'
<1>1. PICK o : /\ Finish(t, o)
               /\ o.kind = "found" => o.classes = FoundIn(disk, o.request)
               /\ o.kind = "grabbed" => o.value = GrabbedIn(disk, o.request)
  <2>1. CASE Raise(t)
    <3>1. Finish(t, Raised) /\ Raised.kind = "raised"
      BY <2>1 DEF Raise, Raised
    <3> QED BY <3>1
  <2>2. CASE Answer(t)
    <3> DEFINE q == asked[t]
               o == Outcome(q)
    <3>1. Finish(t, o) /\ q \in Requests /\ disk \in Projects /\ CacheTrue
      BY <2>2 DEF Answer, TrueInv, SearchesOk
    <3>2. AllCached(RequestNeeds(q))
      BY <2>2 DEF Answer, Missing, Needs, AllCached, Cached
    <3> HIDE DEF q
    <3>3. /\ o.kind = "found" => o.request = q /\ o.classes = FoundIn(disk, q)
          /\ o.kind = "grabbed" => o.request = q /\ o.value = GrabbedIn(disk, q)
      BY <3>1, <3>2, OutcomeKnown
    <3> HIDE DEF o
    <3> QED BY <3>1, <3>3
  <2> QED BY <2>1, <2>2
<1>2. /\ UNCHANGED <<disk, cache>> /\ answer' = [answer EXCEPT ![t] = o]
      /\ asked' = [asked EXCEPT ![t] = NoRequest] /\ stack' = [stack EXCEPT ![t] = <<>>]
  BY <1>1 DEF Finish, Unwound
<1>3. PICK R : asked \in [Threads -> R]
  BY DEF OrderInv, Asked
<1>4. SearchesOk'
  BY <1>2, <1>3 DEF TrueInv, SearchesOk, Running, NoRequest
<1>5. KeysOk'
  BY <1>2, KeysKept DEF TrueInv
<1>6. CacheTrue'
  BY <1>2 DEF TrueInv, CacheTrue
<1>7. AnswersTrue'
  BY <1>1, <1>2 DEF TrueInv, SearchesOk, AnswersTrue
<1> QED BY <1>4, <1>5, <1>6, <1>7 DEF TrueInv

\* The sources change while no search runs, and every cache is emptied.
LEMMA TrueReset ==
  ASSUME OrderInv, TrueInv, Reset
  PROVE  TrueInv'
<1>1. /\ \A t \in Threads : ~Running(t)
      /\ disk' \in Projects /\ stack' = stack /\ asked' = asked
      /\ cache' = [k \in {c \in DOMAIN cache : c[1] \notin Layers} |-> cache[k]]
      /\ answer' = [t \in Threads |-> NoAnswer]
  BY DEF Reset, Forgotten
<1>2. SearchesOk'
  BY <1>1 DEF SearchesOk, Running
<1>3. PICK K : stack \in [Threads -> Seq(Frames(K))]
  BY DEF OrderInv, Stacks
<1>4. \A t \in Threads : stack[t] = <<>>
  BY <1>1 DEF OrderInv, IdleHoldsNothing
<1>5. stack' \in [Threads -> Seq(Frames({}))]
  BY <1>1, <1>3, <1>4, EmptySeq
<1>6. KeysOk'
  BY <1>5 DEF KeysOk
<1>7. DOMAIN cache' = {}
  BY <1>1 DEF TrueInv, CacheTrue
<1>8. CacheTrue'
  BY <1>7 DEF CacheTrue
<1>9. AnswersTrue'
  BY <1>1 DEF AnswersTrue, NoAnswer
<1> QED BY <1>2, <1>6, <1>8, <1>9 DEF TrueInv

LEMMA TrueHolds == Spec => []TrueInv
<1>1. OrderInv /\ TrueInv /\ [Next]_vars => TrueInv'
  <2> SUFFICES ASSUME OrderInv, TrueInv, [Next]_vars PROVE TrueInv'
    OBVIOUS
  <2>1. CASE Reset
    BY <2>1, TrueReset
  <2>2. ASSUME NEW t \in Threads, Call(t)
        PROVE  TrueInv'
    BY <2>2, TrueCall
  <2>3. ASSUME NEW t \in Threads, LookUp(t) \/ TakeLock(t)
        PROVE  TrueInv'
    BY <2>3, TrueMove
  <2>4. ASSUME NEW t \in Threads, Store(t)
        PROVE  TrueInv'
    BY <2>4, TrueStore
  <2>5. ASSUME NEW t \in Threads, Raise(t) \/ Answer(t)
        PROVE  TrueInv'
    BY <2>5, TrueFinish
  <2>6. CASE UNCHANGED vars
    BY <2>6 DEF vars, TrueInv, SearchesOk, KeysOk, CacheTrue, AnswersTrue, Running
  <2> QED BY <2>1, <2>2, <2>3, <2>4, <2>5, <2>6 DEF Next, Step
<1> QED BY <1>1, OrderHolds, TrueInit, PTL DEF Spec

\* Whatever the threads do to each other and whichever tree came before, a
\* cached value is the one the sources on disk give: no search ever builds on
\* a value of another tree, or on one computed before all it rests on was
\* known (_OnceCache, reset_subclass_caches).
THEOREM CachesMirrorTheDisk == Spec => []CacheTrue
<1>1. TrueInv => CacheTrue
  BY DEF TrueInv
<1> QED BY <1>1, TrueHolds, PTL

\* A search answers what the sources on disk and its own arguments determine:
\* other threads, earlier searches, earlier trees and the order of the lookups
\* leave no trace in it (find_subclasses, find_subclasses_local,
\* parse_and_grab_constants).
THEOREM AnswersComeFromTheDisk == Spec => []AnswersTrue
<1>1. TrueInv => AnswersTrue
  BY DEF TrueInv
<1> QED BY <1>1, TrueHolds, PTL
=============================================================================
