--------------------------- MODULE ShutdownProofs ---------------------------
(***************************************************************************)
(* Proofs about Shutdown for any number of threads and callbacks and any   *)
(* number of signals: a request is never seen without its kind, an         *)
(* abandoned callback stays past its budget, and the exit nudge unwinds no *)
(* call that drives.                                                       *)
(***************************************************************************)
EXTENDS Shutdown, SequenceTheorems, FiniteSetTheorems, TLAPS

Kinds == {"graceful", "fatal", "forced"}
Calls == [at : Places, kind : Kinds]

StackOk == stack \in [Threads -> Seq(Calls)]

(* Thread t's i-th call of run_shutdown() is at this place. *)
CallAt(t, i, places) == i \in DOMAIN stack[t] /\ stack[t][i].at \in places

Fates == {"none", "running", "run", "skipped", "abandoned"}

ValuesOk ==
  /\ published \subseteq Kinds /\ requested \in BOOLEAN /\ drives \in Nat
  /\ clock \in 0..2 /\ fate \in [Callbacks -> Fates]

(* Whoever is past publishing has published. *)
Announced ==
  /\ requested => published # {}
  /\ \A t \in Threads, i \in Nat :
       CallAt(t, i, Places \ {"publish"}) => stack[t][i].kind \in published

(* One call drives, the first one; the pass is started by it, and neither    *)
(* lingers nor nudges while it is under way, unless the valve let it.        *)
OneDriver ==
  /\ \A t, u \in Threads, i, j \in Nat :
       CallAt(t, i, Driving) /\ CallAt(u, j, Driving) => t = u /\ i = j
  /\ \A t \in Threads, i \in Nat : CallAt(t, i, Driving) =>
       /\ drives # 0 /\ ~released
       /\ stack[t][i].at \in {"arm", "start"} => pass = "none"
       /\ pass \in {"linger", "nudge", "ended"} => valve
  /\ nudged => pass = "ended"
  /\ drives = 0 => pass = "none" /\ ~released

ShutdownInv == StackOk /\ ValuesOk /\ Announced /\ OneDriver /\ AbandonedPastBudget

-----------------------------------------------------------------------------
LEMMA PlacesAre == Driving \subseteq Places /\ Order[1] = "publish"
BY DEF Driving, Places, Order

LEMMA OrderGoes == After("publish") = "request" /\ After("request") = "count"
<1>1. (CHOOSE i \in 1..2 : Order[i] = "publish") = 1
  BY DEF Order
<1>2. (CHOOSE i \in 1..2 : Order[i] = "request") = 2
  BY DEF Order
<1> QED BY <1>1, <1>2 DEF After, Order

LEMMA KindRuns == (ValuesOk /\ published # {}) => Kind \in Kinds
BY DEF Kind, ValuesOk, Kinds

-----------------------------------------------------------------------------
(* What the operations on a stack leave behind. *)

LEMMA StackOf ==
  ASSUME StackOk, NEW t \in Threads
  PROVE  /\ stack[t] \in Seq(Calls) /\ Len(stack[t]) \in Nat
         /\ DOMAIN stack[t] = 1..Len(stack[t])
         /\ \A i \in DOMAIN stack[t] : stack[t][i] \in Calls
         /\ stack[t] # <<>> => Len(stack[t]) \in DOMAIN stack[t] /\ Top(t) = stack[t][Len(stack[t])]
<1>1. stack[t] \in Seq(Calls)
  BY DEF StackOk
<1>2. Len(stack[t]) \in Nat /\ DOMAIN stack[t] = 1..Len(stack[t])
  BY <1>1, LenProperties
<1>3. \A i \in DOMAIN stack[t] : stack[t][i] \in Calls
  BY <1>1, <1>2, ElementOfSeq
<1>4. stack[t] # <<>> => Len(stack[t]) \in Nat \ {0}
  BY <1>1, EmptySeq
<1> QED BY <1>1, <1>2, <1>3, <1>4 DEF Top, Last

(* The calls left are old ones, as they were. *)
OnlyOld == \A t \in Threads : \A i \in DOMAIN stack'[t] :
             i \in DOMAIN stack[t] /\ stack'[t][i] = stack[t][i]

(* ... and a new one of this kind, about to begin. *)
OldOrNew(kind) ==
  \A t \in Threads : \A i \in DOMAIN stack'[t] :
    \/ i \in DOMAIN stack[t] /\ stack'[t][i] = stack[t][i]
    \/ stack'[t][i] = Asked(kind)

LEMMA Pushed ==
  ASSUME StackOk, NEW t \in Threads, NEW kind \in Kinds, Push(t, Asked(kind))
  PROVE  StackOk' /\ OldOrNew(kind)
<1> DEFINE s == stack[t]  c == Asked(kind)
<1>1. c \in Calls
  BY DEF Asked, Call, Calls, Order, Places
<1>2. /\ Append(s, c) \in Seq(Calls) /\ Len(Append(s, c)) = Len(s) + 1
      /\ \A i \in 1..Len(s) : Append(s, c)[i] = s[i]
      /\ Append(s, c)[Len(s) + 1] = c
  BY <1>1, StackOf, AppendProperties
<1>3. DOMAIN Append(s, c) = 1..(Len(s) + 1) /\ DOMAIN s = 1..Len(s) /\ Len(s) \in Nat
  <2> HIDE DEF s, c
  <2>1. s \in Seq(Calls) /\ Len(s) \in Nat /\ DOMAIN s = 1..Len(s)
    BY StackOf DEF s
  <2>2. DOMAIN Append(s, c) = 1..Len(Append(s, c))
    BY <1>2, LenProperties
  <2> QED BY <1>2, <2>1, <2>2
<1>4. \A x \in Threads : stack'[x] = IF x = t THEN Append(s, c) ELSE stack[x]
  BY DEF Push, StackOk
<1>5. StackOk'
  BY <1>2, <1>4 DEF StackOk, Push
<1>6. ASSUME NEW x \in Threads, NEW i \in DOMAIN stack'[x]
      PROVE  (i \in DOMAIN stack[x] /\ stack'[x][i] = stack[x][i]) \/ stack'[x][i] = c
  <2> HIDE DEF c
  <2>1. CASE x = t
    <3> DEFINE new == Append(s, c)
    <3>1. stack'[x] = new /\ i \in 1..(Len(s) + 1)
      BY <1>3, <1>4, <2>1
    <3>2. i \in 1..Len(s) \/ i = Len(s) + 1
      BY <1>3, <3>1
    <3>3. (i \in 1..Len(s) => new[i] = s[i]) /\ new[Len(s) + 1] = c
      BY <1>2
    <3> HIDE DEF new
    <3> QED BY <1>3, <2>1, <3>1, <3>2, <3>3
  <2>2. CASE x # t
    BY <1>4, <2>2
  <2> QED BY <2>1, <2>2
<1>7. OldOrNew(kind)
  BY <1>6 DEF OldOrNew
<1> QED BY <1>5, <1>7

LEMMA Prefix ==
  ASSUME NEW s \in Seq(Calls), NEW n \in 0..Len(s)
  PROVE  /\ SubSeq(s, 1, n) \in Seq(Calls) /\ DOMAIN SubSeq(s, 1, n) = 1..n
         /\ \A i \in 1..n : SubSeq(s, 1, n)[i] = s[i]
<1>1. Len(s) \in Nat /\ \A i \in 1..Len(s) : s[i] \in Calls
  BY LenProperties, ElementOfSeq
<1>2. 1 \in Int /\ n \in Int /\ \A i \in 1..n : s[i] \in Calls
  BY <1>1
<1>3. /\ SubSeq(s, 1, n) \in Seq(Calls)
      /\ Len(SubSeq(s, 1, n)) = IF 1 <= n THEN n - 1 + 1 ELSE 0
      /\ \A i \in 1..(n - 1 + 1) : SubSeq(s, 1, n)[i] = s[1 + i - 1]
  BY <1>2, SubSeqProperties
<1>4. Len(SubSeq(s, 1, n)) = n
  BY <1>1, <1>3
<1> QED BY <1>1, <1>3, <1>4, LenProperties

LEMMA Cut ==
  ASSUME StackOk, NEW t \in Threads, NEW n \in 0..Len(stack[t]),
         stack' = [stack EXCEPT ![t] = SubSeq(@, 1, n)]
  PROVE  StackOk' /\ OnlyOld
<1>1. stack[t] \in Seq(Calls) /\ Len(stack[t]) \in Nat /\ DOMAIN stack[t] = 1..Len(stack[t])
  BY StackOf
<1>2. \A x \in Threads : stack'[x] = IF x = t THEN SubSeq(stack[t], 1, n) ELSE stack[x]
  BY DEF StackOk
<1>3. StackOk'
  BY <1>1, <1>2, Prefix DEF StackOk
<1>4. OnlyOld
  BY <1>1, <1>2, Prefix DEF OnlyOld
<1> QED BY <1>3, <1>4

LEMMA Returned ==
  ASSUME StackOk, NEW t \in Threads, stack[t] # <<>>, Return(t)
  PROVE  StackOk' /\ OnlyOld
<1>1. Len(stack[t]) \in Nat \ {0}
  BY StackOf, EmptySeq
<1>2. Len(stack[t]) - 1 \in 0..Len(stack[t])
  BY <1>1
<1> QED BY <1>2, Cut DEF Return, Front

LEMMA ReturnShortens ==
  ASSUME StackOk, NEW t \in Threads, stack[t] # <<>>, Return(t)
  PROVE  Len(stack[t]) \notin DOMAIN stack'[t]
<1>1. stack[t] \in Seq(Calls) /\ Len(stack[t]) \in Nat \ {0}
  BY StackOf, EmptySeq
<1> DEFINE n == Len(stack[t]) - 1
<1>2. n \in 0..Len(stack[t])
  BY <1>1
<1>3. stack'[t] = SubSeq(stack[t], 1, n)
  BY DEF Return, Front, StackOk
<1>4. DOMAIN stack'[t] = 1..n
  <2> HIDE DEF n
  <2> QED BY <1>1, <1>2, <1>3, Prefix
<1> QED BY <1>1, <1>4

(* Only the innermost call of t moves. *)
InnermostGoes(t, where) ==
  \A x \in Threads :
    /\ DOMAIN stack'[x] = DOMAIN stack[x]
    /\ \A i \in DOMAIN stack[x] :
         /\ x = t /\ i = Len(stack[t]) =>
              stack'[x][i].at = where /\ stack'[x][i].kind = stack[x][i].kind
         /\ ~(x = t /\ i = Len(stack[t])) => stack'[x][i] = stack[x][i]

LEMMA Moved ==
  ASSUME StackOk, NEW t \in Threads, stack[t] # <<>>, NEW where \in Places, GoTo(t, where)
  PROVE  StackOk' /\ InnermostGoes(t, where)
<1> DEFINE s == stack[t]  n == Len(stack[t])  e == [stack[t][Len(stack[t])] EXCEPT !.at = where]
<1>1. s \in Seq(Calls) /\ n \in 1..Len(s) /\ s[n] \in Calls /\ DOMAIN s = 1..Len(s)
  BY StackOf
<1>2. e \in Calls /\ e.at = where /\ e.kind = s[n].kind
  BY <1>1 DEF Calls
<1>3. /\ [s EXCEPT ![n] = e] \in Seq(Calls) /\ Len([s EXCEPT ![n] = e]) = Len(s)
      /\ \A j \in 1..Len(s) : [s EXCEPT ![n] = e][j] = IF j = n THEN e ELSE s[j]
  <2> HIDE DEF s, n, e
  <2> QED BY <1>1, <1>2, ExceptSeq
<1>4. \A x \in Threads : stack'[x] = IF x = t THEN [s EXCEPT ![n] = e] ELSE stack[x]
  BY DEF GoTo, StackOk
<1>5. DOMAIN [s EXCEPT ![n] = e] = DOMAIN s
  BY DEF StackOk
<1>6. DOMAIN stack' = Threads /\ stack' = [x \in Threads |-> stack'[x]]
  BY DEF GoTo, StackOk
<1>7. StackOk'
  BY <1>3, <1>4, <1>6 DEF StackOk
<1>8. InnermostGoes(t, where)
  <2> HIDE DEF e
  <2> QED BY <1>1, <1>2, <1>3, <1>4, <1>5 DEF InnermostGoes
<1> QED BY <1>7, <1>8

-----------------------------------------------------------------------------
(* What a step needs to do to the calls for the invariant to survive it.   *)

LEMMA OldAnnounced ==
  ASSUME ShutdownInv, OnlyOld, published \subseteq published',
         requested' => requested
  PROVE  Announced'
BY DEF OnlyOld, Announced, CallAt, ShutdownInv

LEMMA NewAnnounced ==
  ASSUME ShutdownInv, NEW kind, OldOrNew(kind), published \subseteq published',
         requested' => requested
  PROVE  Announced'
BY PlacesAre DEF OldOrNew, Announced, CallAt, ShutdownInv, Asked, Call

LEMMA NoNewDriver ==
  ASSUME ShutdownInv, NEW kind, OnlyOld \/ OldOrNew(kind),
         UNCHANGED <<drives, released, valve, pass, nudged>>
  PROVE  OneDriver'
<1>1. \A t \in Threads, i \in Nat : CallAt(t, i, Driving)' =>
        CallAt(t, i, Driving) /\ stack'[t][i] = stack[t][i]
  BY PlacesAre DEF OnlyOld, OldOrNew, CallAt, Asked, Call, Order, Driving
<1> QED BY <1>1 DEF OneDriver, ShutdownInv

LEMMA BudgetStaysSpent ==
  ASSUME ValuesOk, BudgetSpent, published \subseteq published', published' \subseteq Kinds,
         clock' \in 0..2, clock' >= clock
  PROVE  BudgetSpent'
<1> USE DEF ValuesOk, Kinds
<1>1. CASE "forced" \in published'
  <2>1. Kind' = "forced"
    BY <1>1 DEF Kind
  <2> QED BY <2>1 DEF BudgetSpent
<1>2. CASE "forced" \notin published' /\ "fatal" \in published'
  <2>1. "forced" \notin published /\ Kind # "forced"
    BY <1>2 DEF Kind
  <2>2. Kind' = "fatal"
    BY <1>2 DEF Kind
  <2>3. clock >= 1
    BY <2>1 DEF BudgetSpent
  <2> QED BY <2>2, <2>3 DEF BudgetSpent
<1>3. CASE published' \cap {"forced", "fatal"} = {}
  <2>1. clock >= 2
    BY <1>3 DEF BudgetSpent, Kind
  <2>2. Kind' \notin {"forced", "fatal"}
    BY <1>3 DEF Kind
  <2> QED BY <2>1, <2>2 DEF BudgetSpent
<1> QED BY <1>1, <1>2, <1>3

LEMMA AbandonedKept ==
  ASSUME ShutdownInv, published \subseteq published', published' \subseteq Kinds,
         clock' \in 0..2, clock' >= clock,
         \A c \in Callbacks : fate'[c] = "abandoned" => (fate[c] = "abandoned" \/ BudgetSpent)
  PROVE  AbandonedPastBudget'
<1> SUFFICES ASSUME NEW c \in Callbacks, fate'[c] = "abandoned" PROVE BudgetSpent'
  BY DEF AbandonedPastBudget
<1>1. BudgetSpent
  BY DEF ShutdownInv, AbandonedPastBudget
<1> QED BY <1>1, BudgetStaysSpent DEF ShutdownInv

(* A step of thread t's innermost call, to a later place. *)
LEMMA StepOfCall ==
  ASSUME ShutdownInv, NEW t \in Threads, stack[t] # <<>>, NEW where \in Places, GoTo(t, where),
         published \subseteq published',
         Top(t).kind \in published', requested' => published' # {}
  PROVE  StackOk' /\ Announced'
<1>1. StackOk' /\ InnermostGoes(t, where)
  BY Moved DEF ShutdownInv
<1>2. ASSUME NEW x \in Threads, NEW i \in Nat, CallAt(x, i, Places \ {"publish"})'
      PROVE  stack'[x][i].kind \in published'
  <2>1. i \in DOMAIN stack[x] /\ stack[x][i] \in Calls
    BY <1>1, <1>2, StackOf DEF InnermostGoes, CallAt, ShutdownInv
  <2>2. CASE x = t /\ i = Len(stack[t])
    <3>1. stack'[x][i].kind = Top(t).kind
      <4>1. stack'[x][i].kind = stack[x][i].kind
        BY <1>1, <2>1, <2>2 DEF InnermostGoes
      <4>2. Top(t) = stack[t][Len(stack[t])]
        BY StackOf DEF ShutdownInv
      <4> QED BY <2>2, <4>1, <4>2
    <3> QED BY <3>1
  <2>3. CASE ~(x = t /\ i = Len(stack[t]))
    <3>1. stack'[x][i] = stack[x][i]
      BY <1>1, <2>1, <2>3 DEF InnermostGoes
    <3> QED BY <1>2, <2>1, <3>1 DEF CallAt, ShutdownInv, Announced
  <2> QED BY <2>2, <2>3
<1> QED BY <1>1, <1>2 DEF Announced

(* How the calls that drive change when t's innermost call moves. *)
LEMMA DriversAfter ==
  ASSUME StackOk, NEW t \in Threads, stack[t] # <<>>, NEW where \in Places, GoTo(t, where)
  PROVE  \A x \in Threads, i \in Nat : CallAt(x, i, Driving)' =>
           \/ CallAt(x, i, Driving) /\ stack'[x][i] = stack[x][i]
           \/ x = t /\ i = Len(stack[t]) /\ stack'[x][i].at = where
<1> TAKE x \in Threads, i \in Nat
<1> HAVE CallAt(x, i, Driving)'
<1>1. InnermostGoes(t, where)
  BY Moved
<1>2. i \in DOMAIN stack[x]
  BY <1>1 DEF InnermostGoes, CallAt
<1>3. CASE x = t /\ i = Len(stack[t])
  BY <1>1, <1>2, <1>3 DEF InnermostGoes
<1>4. CASE ~(x = t /\ i = Len(stack[t]))
  <2>1. stack'[x][i] = stack[x][i]
    BY <1>1, <1>2, <1>4 DEF InnermostGoes
  <2> QED BY <1>2, <2>1 DEF CallAt
<1> QED BY <1>3, <1>4

(* The driving call of t, if it is the innermost one, is the only one. *)
LEMMA DriverGoesOn ==
  ASSUME ShutdownInv, NEW t \in Threads, stack[t] # <<>>, NEW where \in Driving, GoTo(t, where),
         Top(t).at \in Driving, drives' = drives, released' = released, valve' = valve, nudged' = nudged,
         where \in {"arm", "start"} => pass' = "none",
         pass' = pass \/ (pass = "none" /\ pass' = "pick")
  PROVE  OneDriver'
<1>1. CallAt(t, Len(stack[t]), Driving) /\ Len(stack[t]) \in Nat
  BY StackOf DEF CallAt, ShutdownInv
<1>2. ASSUME NEW x \in Threads, NEW i \in Nat, CallAt(x, i, Driving)'
      PROVE  x = t /\ i = Len(stack[t]) /\ stack'[x][i].at = where
  <2>1. \/ CallAt(x, i, Driving) /\ stack'[x][i] = stack[x][i]
        \/ x = t /\ i = Len(stack[t]) /\ stack'[x][i].at = where
    BY <1>2, PlacesAre, DriversAfter DEF ShutdownInv
  <2>2. CallAt(x, i, Driving) => x = t /\ i = Len(stack[t])
    BY <1>1 DEF ShutdownInv, OneDriver
  <2>3. stack'[t][Len(stack[t])].at = where
    <3>1. InnermostGoes(t, where)
      BY PlacesAre, Moved DEF ShutdownInv
    <3> QED BY <1>1, <3>1 DEF InnermostGoes, CallAt
  <2> QED BY <2>1, <2>2, <2>3
<1>3. drives # 0 /\ ~released /\ (pass \in {"linger", "nudge", "ended"} => valve)
  BY <1>1 DEF ShutdownInv, OneDriver
<1> QED BY <1>2, <1>3 DEF ShutdownInv, OneDriver

-----------------------------------------------------------------------------
(* run_shutdown(). *)

LEMMA RunShutdownKeeps ==
  ASSUME ShutdownInv, NEW t \in Threads, RunShutdown(t)
  PROVE  ShutdownInv'
<1> DEFINE call == Top(t)  n == Len(stack[t])
<1>1. /\ stack[t] # <<>> /\ n \in Nat /\ n \in DOMAIN stack[t]
      /\ call = stack[t][n] /\ call \in Calls
  BY StackOf DEF ShutdownInv, RunShutdown, Publish, Request, Count, Arm, StartPass, RegisterJoin,
     Release, At
<1>2. call.at # "publish" => call.kind \in published
  <2> HIDE DEF call, n
  <2> QED BY <1>1 DEF ShutdownInv, Announced, CallAt, Calls
<1> HIDE DEF call, n
<1>3. CASE Publish(t)
  <2>1. /\ GoTo(t, "request") /\ "request" \in Places
        /\ published' = published \cup {call.kind} /\ call.kind \in Kinds
        /\ UNCHANGED <<requested, clock, fate, drives, released, valve, pass, nudged>>
    BY <1>1, <1>3, OrderGoes DEF Publish, Places, Calls, passVars, timeVars, call
  <2>2. StackOk' /\ Announced'
    BY <1>1, <2>1, StepOfCall DEF call, ShutdownInv, Announced
  <2>3. ValuesOk' /\ AbandonedPastBudget'
    BY <2>1, AbandonedKept DEF ShutdownInv, ValuesOk
  <2>4. OneDriver'
    BY <1>1, <2>1, DriversAfter DEF ShutdownInv, OneDriver, CallAt, Driving
  <2> QED BY <2>2, <2>3, <2>4 DEF ShutdownInv
<1>4. CASE Request(t)
  <2>1. /\ GoTo(t, "count") /\ "count" \in Places /\ call.kind \in published
        /\ requested' = TRUE
        /\ UNCHANGED <<published, clock, fate, drives, released, valve, pass, nudged>>
    BY <1>2, <1>4, OrderGoes DEF Request, At, Places, passVars, timeVars, call
  <2>2. StackOk' /\ Announced'
    BY <1>1, <2>1, StepOfCall DEF call
  <2>3. ValuesOk' /\ AbandonedPastBudget'
    BY <2>1, AbandonedKept DEF ShutdownInv, ValuesOk
  <2>4. OneDriver'
    BY <1>1, <2>1, DriversAfter DEF ShutdownInv, OneDriver, CallAt, Driving
  <2> QED BY <2>2, <2>3, <2>4 DEF ShutdownInv
<1>5. CASE Count(t)
  <2>1. /\ drives' = drives + 1 /\ call.kind \in published
        /\ UNCHANGED <<published, requested, clock, fate, released, valve, pass, nudged>>
    BY <1>2, <1>5 DEF Count, At, passVars, timeVars, call
  <2>2. ValuesOk' /\ AbandonedPastBudget'
    BY <2>1, AbandonedKept DEF ShutdownInv, ValuesOk
  <2>3. CASE Drives
    <3>1. GoTo(t, "arm") /\ "arm" \in Places /\ drives = 0
      BY <1>5, <2>3 DEF Count, Drives, Places
    <3>2. StackOk' /\ Announced'
      BY <1>1, <2>1, <3>1, StepOfCall DEF call, ShutdownInv, Announced
    <3>3. pass = "none" /\ \A x \in Threads, i \in Nat : ~CallAt(x, i, Driving)
      BY <3>1 DEF ShutdownInv, OneDriver
    <3>4. \A x \in Threads, i \in Nat : CallAt(x, i, Driving)' => x = t /\ i = n
      BY <1>1, <3>1, <3>3, DriversAfter DEF ShutdownInv, n
    <3>5. ~released
      BY <3>1 DEF ShutdownInv, OneDriver
    <3> QED BY <2>1, <2>2, <3>1, <3>2, <3>3, <3>4, <3>5 DEF ShutdownInv, OneDriver, ValuesOk
  <2>4. CASE ~Drives
    <3>1. StackOk' /\ OnlyOld /\ drives # 0
      BY <1>1, <1>5, <2>4, Returned DEF Count, Drives, ShutdownInv
    <3>2. Announced'
      BY <2>1, <3>1, OldAnnounced
    <3>3. OneDriver'
      BY <2>1, <3>1 DEF OnlyOld, CallAt, OneDriver, ShutdownInv, ValuesOk
    <3> QED BY <2>2, <3>1, <3>2, <3>3 DEF ShutdownInv
  <2> QED BY <2>3, <2>4
<1>6. CASE Arm(t) \/ StartPass(t) \/ RegisterJoin(t)
  <2>1. PICK where \in Driving : GoTo(t, where) /\ (where \in {"arm", "start"} => pass' = pass /\ call.at = "arm")
                                  /\ call.at \in Driving
                                  /\ (pass' # pass => pass' = "pick" /\ call.at = "start")
    BY <1>6 DEF Arm, StartPass, RegisterJoin, At, Driving, call, passVars
  <2>2. UNCHANGED <<published, requested, clock, fate, drives, released, valve, nudged>>
    BY <1>6 DEF Arm, StartPass, RegisterJoin, passVars, timeVars, signalVars
  <2>3. StackOk' /\ Announced'
    BY <1>1, <1>2, <2>1, <2>2, PlacesAre, StepOfCall DEF call, ShutdownInv, Announced, Driving
  <2>4. ValuesOk' /\ AbandonedPastBudget'
    BY <2>2, AbandonedKept DEF ShutdownInv, ValuesOk
  <2>5. call.at \in {"arm", "start"} => pass = "none"
    BY <1>1 DEF ShutdownInv, OneDriver, CallAt, Driving
  <2>6. OneDriver'
    BY <1>1, <2>1, <2>2, <2>5, DriverGoesOn DEF call
  <2> QED BY <2>3, <2>4, <2>6 DEF ShutdownInv
<1>7. CASE Release(t)
  <2>1. /\ StackOk' /\ OnlyOld /\ call.at \in Driving
        /\ UNCHANGED <<published, requested, clock, fate, drives, pass, nudged>>
    BY <1>1, <1>7, Returned DEF Release, At, call, Driving, ShutdownInv, signalVars, timeVars
  <2>2. Announced' /\ ValuesOk' /\ AbandonedPastBudget'
    BY <2>1, OldAnnounced, AbandonedKept DEF ShutdownInv, ValuesOk
  <2>3. n \notin DOMAIN stack'[t]
    BY <1>1, <1>7, ReturnShortens DEF Release, ShutdownInv, n
  <2>4. \A x \in Threads, i \in Nat : ~CallAt(x, i, Driving)'
    BY <1>1, <2>1, <2>3 DEF OnlyOld, CallAt, OneDriver, ShutdownInv
  <2>5. drives # 0
    BY <1>1, <2>1 DEF OneDriver, ShutdownInv, CallAt
  <2>6. OneDriver'
    BY <2>1, <2>4, <2>5 DEF OneDriver, ShutdownInv
  <2> QED BY <2>1, <2>2, <2>6 DEF ShutdownInv
<1> QED BY <1>3, <1>4, <1>5, <1>6, <1>7 DEF RunShutdown

-----------------------------------------------------------------------------
(* The other steps. *)

LEMMA PushKeeps ==
  ASSUME ShutdownInv, NEW t \in Threads, NEW kind \in Kinds, Push(t, Asked(kind)),
         UNCHANGED <<published, requested, clock, fate, drives, released, valve, pass, nudged>>
  PROVE  ShutdownInv'
<1>1. StackOk' /\ OldOrNew(kind)
  BY Pushed DEF ShutdownInv
<1>2. Announced' /\ OneDriver'
  BY <1>1, NewAnnounced, NoNewDriver
<1>3. ValuesOk' /\ AbandonedPastBudget'
  BY AbandonedKept DEF ShutdownInv, ValuesOk
<1> QED BY <1>1, <1>2, <1>3 DEF ShutdownInv

LEMMA Unwound ==
  ASSUME StackOk, Unwind
  PROVE  StackOk' /\ OldOrNew("graceful")
<1>1. Main \in Threads
  BY DEF Threads
<1>2. CASE Swallowed # {}
  <2>1. PICK i \in Swallowed : stack' = [stack EXCEPT ![Main] = SubSeq(@, 1, i)]
    BY <1>2 DEF Unwind
  <2>2. i \in 0..Len(stack[Main])
    BY <1>1, StackOf DEF Swallowed
  <2> QED BY <1>1, <2>1, <2>2, Cut DEF OnlyOld, OldOrNew
<1>3. CASE Swallowed = {}
  <2>1. PICK left \in {<<>>, <<Asked("graceful")>>} : stack' = [stack EXCEPT ![Main] = left]
    BY <1>3 DEF Unwind
  <2>2. Asked("graceful") \in Calls
    BY DEF Asked, Call, Calls, Order, Places, Kinds
  <2>3. left \in Seq(Calls) /\ \A i \in DOMAIN left : left[i] = Asked("graceful")
    <3> DEFINE c == Asked("graceful")
    <3> HIDE DEF c
    <3>1. <<>> \in Seq(Calls) /\ DOMAIN <<>> = {}
      OBVIOUS
    <3>2. c \in Calls => <<c>> \in Seq(Calls) /\ \A i \in DOMAIN <<c>> : <<c>>[i] = c
      OBVIOUS
    <3> QED BY <2>2, <3>1, <3>2 DEF c
  <2>4. \A x \in Threads : stack'[x] = IF x = Main THEN left ELSE stack[x]
    BY <2>1 DEF StackOk
  <2>5. StackOk'
    BY <2>1, <2>3 DEF StackOk
  <2>6. OldOrNew("graceful")
    BY <2>3, <2>4 DEF OldOrNew
  <2> QED BY <2>5, <2>6
<1> QED BY <1>2, <1>3

LEMMA UnwindKeeps ==
  ASSUME ShutdownInv, Unwind,
         UNCHANGED <<published, requested, clock, fate, drives, released, valve, pass, nudged>>
  PROVE  ShutdownInv'
<1>1. StackOk' /\ OldOrNew("graceful")
  BY Unwound DEF ShutdownInv
<1>2. Announced' /\ OneDriver'
  BY <1>1, NewAnnounced, NoNewDriver
<1>3. ValuesOk' /\ AbandonedPastBudget'
  BY AbandonedKept DEF ShutdownInv, ValuesOk
<1> QED BY <1>1, <1>2, <1>3 DEF ShutdownInv

LEMMA CrashOrSignalKeeps ==
  ASSUME ShutdownInv, (\E t \in Threads : Crash(t)) \/ MainCrashes \/ Handler
  PROVE  ShutdownInv'
<1> USE DEF passVars, timeVars, signalVars
<1>1. Main \in Threads /\ {"fatal", "graceful", "forced"} \subseteq Kinds
  BY DEF Threads, Kinds
<1>2. CASE \E t \in Threads : Crash(t)
  BY <1>1, <1>2, PushKeeps DEF Crash
<1>3. CASE MainCrashes
  BY <1>1, <1>3, PushKeeps DEF MainCrashes
<1>4. CASE HandleNudge
  BY <1>4, UnwindKeeps DEF HandleNudge
<1>5. CASE HandleStart
  BY <1>1, <1>5, PushKeeps DEF HandleStart
<1>6. CASE HandleConfirm
  <2>1. PICK kind \in Kinds : Push(Main, Asked(kind))
    <3>1. Kind \in Kinds
      BY <1>6, KindRuns DEF HandleConfirm, ShutdownInv, Announced
    <3> QED BY <1>1, <1>6, <3>1 DEF HandleConfirm
  <2> QED BY <1>1, <1>6, <2>1, PushKeeps DEF HandleConfirm
<1>7. CASE HandleHard
  BY <1>7, UnwindKeeps DEF HandleHard
<1> QED BY <1>2, <1>3, <1>4, <1>5, <1>6, <1>7 DEF Handler

LEMMA SameDriver ==
  ASSUME OneDriver, UNCHANGED <<stack, drives, released, valve>>, nudged' => pass' = "ended",
         pass = "none" => pass' = "none",
         pass' \in {"linger", "nudge", "ended"} => pass \in {"linger", "nudge", "ended"}
  PROVE  OneDriver'
<1>1. \A t \in Threads, i \in Nat : CallAt(t, i, Driving)' <=> CallAt(t, i, Driving)
  BY DEF CallAt
<1> QED BY <1>1 DEF OneDriver

(* Steps that leave the stacks, the request and the drive alone. *)
LEMMA PassKeeps ==
  ASSUME ShutdownInv, PassStep \/ (\E c \in Callbacks : CallbackEnds(c)) \/ Tick \/ GraceEnds
  PROVE  ShutdownInv'
<1> USE DEF passVars, timeVars, signalVars, PassTo
<1>1. UNCHANGED <<published, requested, stack, drives, released>> /\ (valve => valve')
  BY DEF PassStep, Pick, Join, Complete, Linger, Nudge, CallbackEnds, Tick, GraceEnds
<1>2. StackOk' /\ Announced'
  BY <1>1 DEF ShutdownInv, StackOk, Announced, CallAt
<1>3. fate' \in [Callbacks -> Fates] /\ clock' \in 0..2 /\ clock' >= clock
  BY DEF PassStep, Pick, Join, Complete, Linger, Nudge, CallbackEnds, Tick, GraceEnds,
     ShutdownInv, ValuesOk, Fates
<1>4. \A c \in Callbacks : fate'[c] = "abandoned" => (fate[c] = "abandoned" \/ BudgetSpent)
  <2>1. CASE Pick
    BY <2>1 DEF Pick, ShutdownInv, ValuesOk
  <2>2. CASE Join
    BY <2>2 DEF Join, Overruns, ShutdownInv, ValuesOk
  <2>3. CASE \E c \in Callbacks : CallbackEnds(c)
    BY <2>3 DEF CallbackEnds, ShutdownInv, ValuesOk
  <2>4. CASE Complete \/ Linger \/ Nudge \/ Tick \/ GraceEnds
    BY <2>4 DEF Complete, Linger, Nudge, Tick, GraceEnds
  <2> QED BY <2>1, <2>2, <2>3, <2>4 DEF PassStep
<1>5. ValuesOk' /\ AbandonedPastBudget'
  BY <1>1, <1>3, <1>4, AbandonedKept DEF ShutdownInv, ValuesOk
<1>7. CASE Complete
  <2>1. /\ \A t \in Threads, i \in Nat : CallAt(t, i, Driving)' <=> CallAt(t, i, Driving)
        /\ \A t \in Threads, i \in Nat : stack'[t][i] = stack[t][i]
    BY <1>1 DEF CallAt
  <2>2. pass = "done" /\ pass' = "linger" /\ nudged' = nudged /\ (released \/ valve')
    BY <1>7 DEF Complete, Released
  <2>3. OneDriver'
    BY <1>1, <2>1, <2>2 DEF ShutdownInv, OneDriver
  <2> QED BY <1>2, <1>5, <2>3 DEF ShutdownInv
<1>8. CASE ~Complete
  <2>1. /\ pass = "none" => pass' = "none"
        /\ pass' \in {"linger", "nudge", "ended"} => pass \in {"linger", "nudge", "ended"}
        /\ nudged' => pass' = "ended"
        /\ valve' = valve
    BY <1>8 DEF PassStep, Pick, Join, Linger, Nudge, CallbackEnds, Tick, GraceEnds,
       ShutdownInv, OneDriver
  <2>2. OneDriver /\ UNCHANGED <<stack, drives, released, valve>>
    BY <1>1, <2>1 DEF ShutdownInv
  <2>3. OneDriver'
    BY <2>1, <2>2, SameDriver
  <2> QED BY <1>2, <1>5, <2>3 DEF ShutdownInv
<1> QED BY <1>2, <1>5, <1>7, <1>8 DEF ShutdownInv

LEMMA MainKeeps ==
  ASSUME ShutdownInv, MainStep
  PROVE  ShutdownInv'
<1> USE DEF passVars, timeVars, signalVars
<1>1. CASE ProgramCloses
  <2>1. Main \in Threads /\ "graceful" \in Kinds
    BY DEF Threads, Kinds
  <2> QED BY <1>1, <2>1, PushKeeps DEF ProgramCloses
<1>2. CASE ~ProgramCloses
  <2>1. UNCHANGED <<published, requested, stack, drives, released, valve, pass, nudged, clock, fate>>
    BY <1>2 DEF MainStep, ProgramReturns, AwaitComplete, StartTail, EndTail, JoinThreads, Exit
  <2> QED BY <2>1 DEF ShutdownInv, StackOk, ValuesOk, Announced, OneDriver, CallAt,
                      AbandonedPastBudget, BudgetSpent, Kind
<1> QED BY <1>1, <1>2

LEMMA InitHolds == Init => ShutdownInv
<1> SUFFICES ASSUME Init PROVE ShutdownInv
  OBVIOUS
<1>1. StackOk
  BY EmptySeq DEF Init, StackOk
<1>2. \A places : \A t \in Threads, i \in Nat : ~CallAt(t, i, places)
  BY DEF Init, CallAt
<1>3. ValuesOk
  <2>1. published \subseteq Kinds /\ requested \in BOOLEAN
    BY DEF Init
  <2>2. drives \in Nat /\ clock \in 0..2
    BY DEF Init
  <2>3. fate \in [Callbacks -> Fates]
    BY DEF Init, Fates
  <2> QED BY <2>1, <2>2, <2>3 DEF ValuesOk
<1>5. AbandonedPastBudget
  BY DEF Init, AbandonedPastBudget
<1>4. Announced /\ OneDriver
  BY <1>2 DEF Init, Announced, OneDriver
<1> QED BY <1>1, <1>3, <1>4, <1>5 DEF ShutdownInv

LEMMA ShutdownInvariant == Spec => []ShutdownInv
<1>1. ShutdownInv /\ [Next]_vars => ShutdownInv'
  <2> SUFFICES ASSUME ShutdownInv, [Next]_vars PROVE ShutdownInv'
    OBVIOUS
  <2>1. CASE \E t \in Threads : RunShutdown(t)
    BY <2>1, RunShutdownKeeps
  <2>2. CASE (\E t \in Threads : Crash(t)) \/ MainCrashes \/ Handler
    BY <2>2, CrashOrSignalKeeps
  <2>3. CASE PassStep \/ (\E c \in Callbacks : CallbackEnds(c)) \/ Tick \/ GraceEnds
    BY <2>3, PassKeeps
  <2>4. CASE MainStep
    BY <2>4, MainKeeps
  <2>5. CASE UNCHANGED vars
    BY <2>5 DEF vars, signalVars, passVars, timeVars, ShutdownInv, StackOk, ValuesOk, Announced,
                OneDriver, CallAt, AbandonedPastBudget, BudgetSpent, Kind
  <2> QED BY <2>1, <2>2, <2>3, <2>4, <2>5 DEF Next
<1> QED BY <1>1, InitHolds, PTL DEF Spec

(* No waiter and no rung of the signal ladder reads RUNNING once a shutdown  *)
(* was requested.                                                            *)
THEOREM KindIsPublished == Spec => []KindPublished
<1>1. ShutdownInv => KindPublished
  <2> SUFFICES ASSUME ShutdownInv PROVE KindPublished
    OBVIOUS
  <2>1. requested => Kind \in Kinds
    BY KindRuns DEF ShutdownInv, Announced
  <2>2. \A t \in Threads : \A i \in DOMAIN stack[t] : stack[t][i].kind \in Kinds
    BY StackOf DEF ShutdownInv, Calls
  <2> QED BY <2>1, <2>2 DEF KindPublished, Kinds
<1> QED BY <1>1, ShutdownInvariant, PTL

(* A callback is abandoned when the budget is spent, and no later request    *)
(* gives the budget back.                                                    *)
THEOREM AbandonedStaysPastBudget == Spec => []AbandonedPastBudget
BY ShutdownInvariant, PTL DEF ShutdownInv

(* The exit nudge cuts no call of run_shutdown() that drives. *)
THEOREM DriverIsNotNudged == Spec => []NudgeSparesDriver
<1>1. ShutdownInv => NudgeSparesDriver
  <2> SUFFICES ASSUME ShutdownInv, nudged, NEW i \in DOMAIN stack[Main],
                      stack[Main][i].at \in Driving
               PROVE  valve /\ stack[Main][i].at \in {"register", "release"}
    BY DEF NudgeSparesDriver
  <2>1. Main \in Threads /\ i \in Nat
    BY StackOf DEF Threads, ShutdownInv
  <2>2. CallAt(Main, i, Driving) /\ pass = "ended"
    BY DEF CallAt, ShutdownInv, OneDriver
  <2>3. valve /\ stack[Main][i].at \notin {"arm", "start"}
    BY <2>1, <2>2 DEF ShutdownInv, OneDriver
  <2> QED BY <2>3 DEF Driving
<1> QED BY <1>1, ShutdownInvariant, PTL

-----------------------------------------------------------------------------
(* The values of the other variables. *)

RestOk ==
  /\ crashed \subseteq Crashing /\ confirms \in 0..2 /\ sent \in 0..MaxSignals
  /\ hard \in BOOLEAN /\ released \in BOOLEAN /\ joins \in BOOLEAN /\ grace \in BOOLEAN
  /\ complete \in BOOLEAN /\ waited \in BOOLEAN /\ nudged \in BOOLEAN /\ pending \in BOOLEAN
  /\ main \in {"parked", "waiting", "tail", "returning", "atexit", "exited"}

(* The pass goes through the callbacks in order; a required one whose turn   *)
(* is over was skipped or has returned.                                      *)
TurnsOk ==
  /\ pass \in {"none", "pick", "call", "done", "linger", "nudge", "ended"}
  /\ turn \in 1..(Len(Teardowns) + 1)
  /\ pass = "call" => turn <= Len(Teardowns)
  /\ pass \in {"done", "linger", "nudge", "ended"} => turn = Len(Teardowns) + 1
  /\ \A i \in 1..(turn - 1) : Teardowns[i] \in Required => fate[Teardowns[i]] \in {"run", "skipped"}

Counting == \E t \in Threads, i \in Nat : CallAt(t, i, {"count"})
Starting == \E t \in Threads, i \in Nat : CallAt(t, i, {"arm", "start", "register"})
Driven == \E t \in Threads, i \in Nat : CallAt(t, i, Driving)
Calling == \E t \in Threads, i \in Nat : CallAt(t, i, Places)

(* Until main is unwound, a request leads to a pass that exit will join:    *)
(* somebody is about to count, and the first to count is about to register  *)
(* the join, before main can be in atexit.                                  *)
ExitOk ==
  /\ joins => drives # 0
  /\ ~hard /\ ~nudged =>
       /\ requested /\ drives = 0 => Counting
       /\ drives # 0 => joins \/ Starting
       /\ main = "atexit" => (requested => joins) /\ ~Driven /\ (Calling => requested)
       /\ main = "exited" /\ requested => pass = "ended"

-----------------------------------------------------------------------------
(* The pass and its callbacks. *)

LEMMA TurnsAre ==
  /\ Len(Teardowns) \in Nat /\ DOMAIN Teardowns = 1..Len(Teardowns)
  /\ \A i \in 1..Len(Teardowns) : Teardowns[i] \in Callbacks
  /\ \A i, j \in 1..Len(Teardowns) : Teardowns[i] = Teardowns[j] => i = j
  /\ \A c \in Callbacks : \E i \in 1..Len(Teardowns) : c = Teardowns[i]
BY ShutdownAssumption, LenProperties DEF IsInjective, Callbacks

LEMMA TurnsStay ==
  ASSUME TurnsOk, UNCHANGED <<pass, turn, fate>>
  PROVE  TurnsOk'
BY DEF TurnsOk

LEMMA PassTurns ==
  ASSUME ShutdownInv, TurnsOk,
         PassStep \/ (\E c \in Callbacks : CallbackEnds(c)) \/ Tick \/ GraceEnds
  PROVE  TurnsOk'
<1> DEFINE len == Len(Teardowns)
<1>1. len \in Nat /\ turn \in 1..(len + 1) /\ fate \in [Callbacks -> Fates]
  BY TurnsAre DEF TurnsOk, ShutdownInv, ValuesOk
<1>2. \A i \in 1..len : Teardowns[i] \in Callbacks
  BY TurnsAre
<1>3. ASSUME turn <= len, fate' = [fate EXCEPT ![Current] = fate'[Current]]
      PROVE  \A i \in 1..(turn - 1) : fate'[Teardowns[i]] = fate[Teardowns[i]]
  <2>1. \A i \in 1..(turn - 1) : Teardowns[i] # Current /\ Teardowns[i] \in Callbacks
    BY <1>1, <1>3, TurnsAre DEF Current
  <2> QED
    BY <1>1, <1>3, <2>1
<1>4. CASE Pick
  <2>1. pass = "pick"
    BY <1>4 DEF Pick
  <2>2. CASE turn > len
    BY <1>1, <1>4, <2>1, <2>2 DEF Pick, PassTo, TurnsOk
  <2>3. CASE turn <= len
    <3>1. Current \in Callbacks
      BY <1>1, <1>2, <2>3 DEF Current
    <3>2. \/ /\ fate' = [fate EXCEPT ![Current] = "skipped"]
             /\ turn' = turn + 1 /\ pass' = "pick"
          \/ /\ fate' = [fate EXCEPT ![Current] = "running"]
             /\ turn' = turn /\ pass' = "call"
      BY <1>1, <1>4, <2>3 DEF Pick, PassTo
    <3>3. fate' = [fate EXCEPT ![Current] = fate'[Current]]
      BY <1>1, <3>1, <3>2
    <3>4. \A i \in 1..(turn - 1) : fate'[Teardowns[i]] = fate[Teardowns[i]]
      BY <1>3, <2>3, <3>3
    <3>5. CASE turn' = turn /\ pass' = "call"
      BY <1>1, <2>3, <3>4, <3>5 DEF TurnsOk
    <3>6. CASE fate' = [fate EXCEPT ![Current] = "skipped"] /\ turn' = turn + 1 /\ pass' = "pick"
      <4>1. fate'[Teardowns[turn]] = "skipped"
        BY <1>1, <3>1, <3>6 DEF Current
      <4>2. \A i \in 1..(turn' - 1) : i = turn \/ i \in 1..(turn - 1)
        BY <1>1, <3>6
      <4>3. turn' \in 1..(len + 1)
        BY <1>1, <2>3, <3>6
      <4> QED
        BY <3>4, <3>6, <4>1, <4>2, <4>3 DEF TurnsOk
    <3> QED
      BY <3>2, <3>5, <3>6
  <2> QED
    BY <1>1, <2>2, <2>3
<1>5. CASE Join
  <2>1. pass = "call" /\ pass' = "pick" /\ turn <= len /\ turn' = turn + 1
    BY <1>5 DEF Join, PassTo, TurnsOk
  <2>2. Current \in Callbacks
    BY <1>1, <1>2, <2>1 DEF Current
  <2>3. /\ fate' = [fate EXCEPT ![Current] = fate'[Current]]
        /\ Current \in Required => fate'[Current] = "run"
    BY <1>1, <1>5, <2>2 DEF Join, Overruns
  <2>4. \A i \in 1..(turn - 1) : fate'[Teardowns[i]] = fate[Teardowns[i]]
    BY <1>3, <2>1, <2>3
  <2>5. \A i \in 1..(turn' - 1) : i = turn \/ i \in 1..(turn - 1)
    BY <1>1, <2>1
  <2>6. turn' \in 1..(len + 1)
    BY <1>1, <2>1
  <2> QED
    BY <2>1, <2>3, <2>4, <2>5, <2>6 DEF TurnsOk, Current
<1>6. CASE \E c \in Callbacks : CallbackEnds(c)
  <2>1. PICK c \in Callbacks : fate' = [fate EXCEPT ![c] = "run"]
    BY <1>6 DEF CallbackEnds
  <2>2. pass' = pass /\ turn' = turn
    BY <1>6 DEF CallbackEnds
  <2>3. \A i \in 1..(turn - 1) : Teardowns[i] \in Callbacks
    BY <1>1, <1>2
  <2>4. \A i \in 1..(turn - 1) :
          fate'[Teardowns[i]] = fate[Teardowns[i]] \/ fate'[Teardowns[i]] = "run"
    BY <1>1, <2>1, <2>3
  <2> QED
    BY <2>2, <2>4 DEF TurnsOk
<1>7. CASE Complete \/ Linger \/ Nudge
  <2>1. /\ pass \in {"done", "linger", "nudge"} /\ pass' \in {"linger", "nudge", "ended"}
        /\ turn' = turn /\ fate' = fate
    BY <1>7 DEF Complete, Linger, Nudge, PassTo
  <2> QED
    BY <2>1 DEF TurnsOk
<1>8. CASE Tick \/ GraceEnds
  BY <1>8, TurnsStay DEF Tick, GraceEnds, passVars
<1> QED
  BY <1>4, <1>5, <1>6, <1>7, <1>8 DEF PassStep

LEMMA OthersSpareTurns ==
  ASSUME ShutdownInv, TurnsOk,
         \/ \E t \in Threads : RunShutdown(t) \/ Crash(t)
         \/ MainCrashes \/ Handler \/ MainStep \/ UNCHANGED vars
  PROVE  TurnsOk'
<1>1. CASE \E t \in Threads : StartPass(t)
  <2>1. pass' = "pick" /\ turn' = 1
    BY <1>1 DEF StartPass
  <2> QED
    BY <2>1, TurnsAre DEF TurnsOk
<1>2. CASE \E t \in Threads : RunShutdown(t) /\ ~StartPass(t)
  <2>1. UNCHANGED <<pass, turn, fate>>
    BY <1>2 DEF RunShutdown, Publish, Request, Count, Arm, RegisterJoin, Release, passVars
  <2> QED
    BY <2>1, TurnsStay
<1>3. CASE (\E t \in Threads : Crash(t)) \/ MainCrashes \/ Handler
  <2>1. UNCHANGED <<pass, turn, fate>>
    BY <1>3
       DEF Crash, MainCrashes, Handler, HandleNudge, HandleStart, HandleConfirm, HandleHard, passVars
  <2> QED
    BY <2>1, TurnsStay
<1>4. CASE MainStep \/ UNCHANGED vars
  <2>1. UNCHANGED <<pass, turn, fate>>
    BY <1>4
       DEF MainStep, ProgramReturns, ProgramCloses, AwaitComplete, StartTail, EndTail, JoinThreads,
           Exit, vars, passVars
  <2> QED
    BY <2>1, TurnsStay
<1> QED
  BY <1>1, <1>2, <1>3, <1>4

LEMMA UnwoundMain ==
  Unwind => main' = main \/ main' \in {"waiting", "returning", "atexit", "exited"}
<1> SUFFICES ASSUME Unwind PROVE main' = main \/ main' \in {"waiting", "returning", "atexit", "exited"}
  OBVIOUS
<1>1. CASE Swallowed # {}
  BY <1>1 DEF Unwind
<1>2. CASE Swallowed = {}
  <2>1. PICK finally \in BOOLEAN : main' = CASE finally -> "waiting"
                                            [] main = "returning" -> "atexit"
                                            [] main = "atexit" -> "exited"
                                            [] OTHER -> "returning"
    BY <1>2 DEF Unwind
  <2> QED
    BY <2>1
<1> QED
  BY <1>1, <1>2

LEMMA RestKeeps == RestOk /\ [Next]_vars => RestOk'
<1> SUFFICES ASSUME RestOk, [Next]_vars PROVE RestOk'
  OBVIOUS
<1> USE DEF RestOk, signalVars, passVars, timeVars
<1>0. MaxSignals \in Nat
  BY ShutdownAssumption
<1>1. CASE \E t \in Threads : RunShutdown(t)
  BY <1>1 DEF RunShutdown, Publish, Request, Count, Arm, StartPass, RegisterJoin, Release
<1>2. CASE (\E t \in Threads : Crash(t)) \/ MainCrashes
  BY <1>2 DEF Crash, MainCrashes
<1>3. CASE HandleNudge \/ HandleHard
  <2>1. sent' \in 0..MaxSignals
    BY <1>0, <1>3 DEF HandleNudge, HandleHard, Signalled
  <2>2. main' = main \/ main' \in {"waiting", "returning", "atexit", "exited"}
    BY <1>3, UnwoundMain DEF HandleNudge, HandleHard
  <2>3. UNCHANGED <<crashed, confirms, released, joins, grace, complete, waited, nudged>>
    BY <1>3 DEF HandleNudge, HandleHard
  <2>4. /\ hard' = TRUE \/ hard' = hard
        /\ pending' = FALSE \/ pending' = pending
    BY <1>3 DEF HandleNudge, HandleHard, Signalled
  <2> QED
    BY <2>1, <2>2, <2>3, <2>4
<1>4. CASE HandleStart \/ HandleConfirm
  BY <1>0, <1>4 DEF HandleStart, HandleConfirm, Signalled
<1>5. CASE PassStep \/ (\E c \in Callbacks : CallbackEnds(c)) \/ Tick \/ GraceEnds
  <2>1. CASE Pick \/ Join \/ \E c \in Callbacks : CallbackEnds(c)
    <3>1. UNCHANGED <<crashed, confirms, sent, hard, released, joins, grace, complete, waited,
                      nudged, pending, main>>
      BY <2>1 DEF Pick, Join, PassTo, CallbackEnds
    <3> QED
      BY <3>1
  <2>2. CASE Complete \/ Linger \/ Nudge
    <3>1. UNCHANGED <<crashed, confirms, sent, hard, released, joins, grace, waited, main>>
      BY <2>2 DEF Complete, Linger, Nudge, PassTo
    <3>2. /\ complete' = TRUE \/ complete' = complete
          /\ nudged' = TRUE \/ nudged' = nudged
          /\ pending' = TRUE \/ pending' = pending
      BY <2>2 DEF Complete, Linger, Nudge, PassTo
    <3> QED
      BY <3>1, <3>2
  <2>3. CASE Tick \/ GraceEnds
    <3>1. UNCHANGED <<crashed, confirms, sent, hard, released, joins, complete, waited,
                      nudged, pending, main>>
      BY <2>3 DEF Tick, GraceEnds
    <3>2. grace' = TRUE \/ grace' = grace
      BY <2>3 DEF Tick, GraceEnds
    <3> QED
      BY <3>1, <3>2
  <2> QED
    BY <1>5, <2>1, <2>2, <2>3 DEF PassStep
<1>6. CASE MainStep
  BY <1>6 DEF MainStep, MainGoes, ProgramReturns, ProgramCloses, AwaitComplete, StartTail, EndTail,
     JoinThreads, Exit
<1>7. CASE UNCHANGED vars
  BY <1>7 DEF vars
<1> QED
  BY <1>1, <1>2, <1>3, <1>4, <1>5, <1>6, <1>7 DEF Next, Handler

(* The wait of the pass for its driver times out once, if at all.           *)
ValveOk == valve \in BOOLEAN

LEMMA ValveKept == ValveOk /\ [Next]_vars => ValveOk'
<1> SUFFICES ASSUME ValveOk, [Next]_vars PROVE valve' = valve \/ valve' = TRUE
  BY DEF ValveOk
<1> USE DEF signalVars, passVars, timeVars
<1>1. CASE \E t \in Threads : RunShutdown(t) \/ Crash(t)
  BY <1>1 DEF RunShutdown, Publish, Request, Count, Arm, StartPass, RegisterJoin, Release, Crash
<1>2. CASE MainCrashes \/ Handler
  BY <1>2 DEF MainCrashes, Handler, HandleNudge, HandleStart, HandleConfirm, HandleHard
<1>3. CASE PassStep \/ (\E c \in Callbacks : CallbackEnds(c)) \/ Tick \/ GraceEnds
  BY <1>3 DEF PassStep, Pick, Join, Complete, Linger, Nudge, PassTo, CallbackEnds, Tick, GraceEnds
<1>4. CASE MainStep
  BY <1>4 DEF MainStep, ProgramReturns, ProgramCloses, AwaitComplete, StartTail, EndTail,
     JoinThreads, Exit
<1>5. CASE UNCHANGED vars
  BY <1>5 DEF vars
<1> QED
  BY <1>1, <1>2, <1>3, <1>4, <1>5 DEF Next

-----------------------------------------------------------------------------
(* The type invariant. *)

TypeInv == ShutdownInv /\ RestOk /\ TurnsOk /\ ValveOk

LEMMA TypeInvHolds == Spec => []TypeInv
<1>1. Init => RestOk /\ TurnsOk
  <2> SUFFICES ASSUME Init PROVE RestOk /\ TurnsOk
    OBVIOUS
  <2>1. RestOk
    <3>1. crashed \subseteq Crashing /\ confirms \in 0..2 /\ sent \in 0..MaxSignals /\ main = "parked"
      BY ShutdownAssumption DEF Init
    <3>2. /\ hard = FALSE /\ released = FALSE /\ joins = FALSE /\ grace = FALSE
          /\ complete = FALSE /\ waited = FALSE /\ nudged = FALSE /\ pending = FALSE
      BY DEF Init
    <3> QED
      BY <3>1, <3>2 DEF RestOk
  <2>2. TurnsOk
    BY TurnsAre DEF Init, TurnsOk
  <2> QED
    BY <2>1, <2>2
<1>2. ShutdownInv /\ RestOk /\ TurnsOk /\ [Next]_vars => RestOk' /\ TurnsOk'
  BY RestKeeps, PassTurns, OthersSpareTurns DEF Next
<1>3. Init => ValveOk
  BY DEF Init, ValveOk
<1> QED
  BY <1>1, <1>2, <1>3, ValveKept, ShutdownInvariant, PTL DEF Spec, TypeInv

\* The driving calls are one or none, and none without the pass of their own.
Drivers == {c \in Threads \X (1..(MaxSignals + 3)) :
              c[2] \in DOMAIN stack[c[1]] /\ stack[c[1]][c[2]].at \in Driving}

LEMMA DriversCounted ==
  ASSUME TypeInv
  PROVE  Cardinality(Drivers)
           + (IF pass = "none" THEN 0 ELSE IF DriverUnderway THEN 0 ELSE 1) <= 1
<1>1. \A c \in Drivers : c[1] \in Threads /\ c[2] \in Nat /\ CallAt(c[1], c[2], Driving)
  BY ShutdownAssumption DEF CallAt, Drivers
<1>2. \A c, d \in Drivers : c = d
  <2>1. \A c, d \in Drivers : c[1] = d[1] /\ c[2] = d[2]
    BY <1>1 DEF TypeInv, ShutdownInv, OneDriver
  <2> QED
    BY <2>1 DEF Drivers
<1>3. CASE Drivers = {}
  <2>1. Cardinality(Drivers) = 0
    BY <1>3, FS_EmptySet
  <2> QED
    BY <2>1
<1>4. CASE Drivers # {}
  <2>1. PICK c \in Drivers : TRUE
    BY <1>4
  <2>2. Drivers = {c}
    BY <1>2, <2>1
  <2>3. Cardinality(Drivers) = 1
    BY <2>2, FS_Singleton
  <2>4. CallAt(c[1], c[2], Driving) /\ c[1] \in Threads /\ c[2] \in Nat
    BY <1>1, <2>1
  <2>5. pass # "none" => stack[c[1]][c[2]].at \in {"register", "release"}
    BY <2>4 DEF TypeInv, ShutdownInv, OneDriver, CallAt, Driving
  <2>6. pass # "none" => DriverUnderway
    BY <2>4, <2>5 DEF DriverUnderway, CallAt
  <2> QED
    BY <2>3, <2>6
<1> QED
  BY <1>3, <1>4

\* Every variable keeps to its values, at most one call drives, and the pass
\* is the one that call started.
THEOREM ShutdownTyped == Spec => []TypeOK
<1>1. TypeInv => TypeOK
  <2> SUFFICES ASSUME TypeInv PROVE TypeOK
    OBVIOUS
  <2>1. /\ published \subseteq {"graceful", "fatal", "forced"} /\ requested \in BOOLEAN
        /\ drives \in Nat /\ clock \in 0..2
        /\ fate \in [Callbacks -> {"none", "running", "run", "skipped", "abandoned"}]
    BY DEF TypeInv, ShutdownInv, ValuesOk, Kinds, Fates
  <2>2. \A t \in Threads : \A i \in DOMAIN stack[t] :
          stack[t][i] \in [at : Places, kind : {"running", "graceful", "fatal", "forced"}]
    <3>1. Calls \subseteq [at : Places, kind : {"running", "graceful", "fatal", "forced"}]
      BY DEF Calls, Kinds
    <3> QED
      BY <3>1, StackOf DEF TypeInv, ShutdownInv
  <2>3. /\ crashed \subseteq Crashing /\ confirms \in 0..2 /\ sent \in 0..MaxSignals
        /\ {hard, released, valve, joins, grace, complete, waited, nudged} \subseteq BOOLEAN
        /\ pending \in BOOLEAN
        /\ main \in {"parked", "waiting", "tail", "returning", "atexit", "exited"}
    BY DEF TypeInv, RestOk, ValveOk
  <2>4. /\ pass \in {"none", "pick", "call", "done", "linger", "nudge", "ended"}
        /\ turn \in 1..(Len(Teardowns) + 1)
    BY DEF TypeInv, TurnsOk
  <2> QED
    BY <2>1, <2>2, <2>3, <2>4, DriversCounted DEF TypeOK, Drivers
<1> QED
  BY <1>1, TypeInvHolds, PTL

-----------------------------------------------------------------------------
(* The exit.  What a step leaves of the calls: *)

(* no call is lost, *)
AllKept == \A x \in Threads : \A i \in DOMAIN stack[x] :
             i \in DOMAIN stack'[x] /\ stack'[x][i] = stack[x][i]

(* or only the innermost one of t. *)
OthersKept(t) == \A x \in Threads : \A i \in DOMAIN stack[x] :
                   ~(x = t /\ i = Len(stack[t])) =>
                     i \in DOMAIN stack'[x] /\ stack'[x][i] = stack[x][i]

LEMMA PushKeepsAll ==
  ASSUME StackOk, NEW t \in Threads, NEW call \in Calls, Push(t, call)
  PROVE  AllKept
<1>1. /\ stack[t] \in Seq(Calls) /\ Len(stack[t]) \in Nat
      /\ DOMAIN stack[t] = 1..Len(stack[t])
  BY StackOf
<1>2. /\ Append(stack[t], call) \in Seq(Calls)
      /\ Len(Append(stack[t], call)) = Len(stack[t]) + 1
      /\ \A i \in 1..Len(stack[t]) : Append(stack[t], call)[i] = stack[t][i]
  BY <1>1, AppendProperties
<1>3. DOMAIN Append(stack[t], call) = 1..(Len(stack[t]) + 1)
  BY <1>2, LenProperties
<1>4. \A x \in Threads : stack'[x] = IF x = t THEN Append(stack[t], call) ELSE stack[x]
  BY DEF Push, StackOk
<1>5. 1..Len(stack[t]) \subseteq 1..(Len(stack[t]) + 1)
  BY <1>1
<1> QED
  BY <1>1, <1>2, <1>3, <1>4, <1>5 DEF AllKept

LEMMA ReturnKeepsOthers ==
  ASSUME StackOk, NEW t \in Threads, stack[t] # <<>>, Return(t)
  PROVE  OthersKept(t)
<1> DEFINE n == Len(stack[t]) - 1
<1>1. /\ stack[t] \in Seq(Calls) /\ Len(stack[t]) \in Nat \ {0}
      /\ DOMAIN stack[t] = 1..Len(stack[t])
  BY StackOf, EmptySeq
<1>2. n \in 0..Len(stack[t])
  BY <1>1
<1>3. \A x \in Threads : stack'[x] = IF x = t THEN SubSeq(stack[t], 1, n) ELSE stack[x]
  BY DEF Return, Front, StackOk
<1> HIDE DEF n
<1>4. /\ DOMAIN SubSeq(stack[t], 1, n) = 1..n
      /\ \A i \in 1..n : SubSeq(stack[t], 1, n)[i] = stack[t][i]
  BY <1>1, <1>2, Prefix
<1>5. \A i \in 1..Len(stack[t]) : i # Len(stack[t]) => i \in 1..n
  BY <1>1 DEF n
<1> QED
  BY <1>1, <1>3, <1>4, <1>5 DEF OthersKept

\* A call that is at one of these places still is, if it is not the one that went.
LEMMA OtherCalls ==
  ASSUME NEW t \in Threads, NEW places, OthersKept(t), stack[t] # <<>>, StackOk,
         Top(t).at \notin places, \E x \in Threads, i \in Nat : CallAt(x, i, places)
  PROVE  \E x \in Threads, i \in Nat : CallAt(x, i, places)'
<1>1. PICK x \in Threads, i \in Nat : CallAt(x, i, places)
  OBVIOUS
<1>2. ~(x = t /\ i = Len(stack[t]))
  BY <1>1, StackOf DEF CallAt
<1> QED
  BY <1>1, <1>2 DEF OthersKept, CallAt

LEMMA InnermostOthers ==
  ASSUME NEW t \in Threads, NEW where, InnermostGoes(t, where)
  PROVE  OthersKept(t)
BY DEF InnermostGoes, OthersKept

LEMMA RunShutdownExit ==
  ASSUME ShutdownInv, RestOk, ExitOk, NEW t \in Threads, RunShutdown(t)
  PROVE  ExitOk'
<1>n. PICK n \in Nat : n = Len(stack[t])
  BY StackOf DEF ShutdownInv
<1>0. /\ stack[t] # <<>> /\ n \in DOMAIN stack[t] /\ Top(t) = stack[t][n]
      /\ n = Len(stack[t]) /\ stack[t][n].at \in Places /\ StackOk
      /\ Running /\ main' = main /\ hard' = hard /\ nudged' = nudged
  BY <1>n, StackOf DEF ShutdownInv, RunShutdown, Publish, Request, Count, Arm, StartPass, RegisterJoin,
     Release, At, Calls, signalVars
<1>1. Calling /\ drives \in Nat
  BY <1>0 DEF Calling, CallAt, ShutdownInv, ValuesOk
<1>2. main # "exited"
  BY <1>0 DEF Running
<1>3. ASSUME NEW where \in Places, GoTo(t, where)
      PROVE  /\ OthersKept(t) /\ CallAt(t, n, {where})'
             /\ where \notin Driving /\ ~Driven => ~Driven'
  <2>1. InnermostGoes(t, where) /\ StackOk'
    BY <1>0, <1>3, Moved
  <2>2. OthersKept(t) /\ CallAt(t, n, {where})'
    BY <1>0, <2>1, InnermostOthers DEF InnermostGoes, CallAt
  <2>3. where \notin Driving /\ ~Driven => ~Driven'
    <3>1. ASSUME NEW x \in Threads, NEW i \in Nat, CallAt(x, i, Driving)', where \notin Driving
          PROVE  CallAt(x, i, Driving)
      <4>1. stack'[x][i].at \in Driving
        BY <3>1 DEF CallAt
      <4> QED
        BY <1>0, <1>3, <3>1, <4>1, DriversAfter
    <3> QED
      BY <3>1 DEF Driven
  <2> QED
    BY <2>2, <2>3
<1>4. CASE hard \/ nudged
  <2>1. hard' \/ nudged'
    BY <1>0, <1>4
  <2>2. joins' => drives' # 0
    <3>1. CASE RegisterJoin(t)
      <4>1. CallAt(t, n, Driving) /\ drives' = drives
        BY <1>0, <3>1 DEF RegisterJoin, At, CallAt, Driving, signalVars
      <4> QED
        BY <1>0, <4>1 DEF ShutdownInv, OneDriver
    <3>2. CASE ~RegisterJoin(t)
      <4>1. joins' = joins /\ (drives' = drives \/ drives' = drives + 1)
        BY <3>2 DEF RunShutdown, Publish, Request, Count, Arm, StartPass, Release, passVars, signalVars
      <4> QED
        BY <1>1, <4>1 DEF ExitOk
    <3> QED
      BY <3>1, <3>2
  <2> QED
    BY <2>1, <2>2 DEF ExitOk
<1>5. CASE ~hard /\ ~nudged
  <2>0. /\ joins => drives # 0
        /\ requested /\ drives = 0 => Counting
        /\ drives # 0 => joins \/ Starting
        /\ main = "atexit" => requested /\ joins /\ ~Driven
    BY <1>1, <1>5 DEF ExitOk
  <2>1. CASE Publish(t)
    <3>1. /\ GoTo(t, "request") /\ Top(t).at = "publish" /\ "request" \in Places \ Driving
          /\ UNCHANGED <<requested, drives, joins>>
      BY <2>1, OrderGoes DEF Publish, At, Places, Driving, passVars
    <3>2. OthersKept(t) /\ (~Driven => ~Driven')
      BY <1>3, <3>1
    <3>3. Counting => Counting'
      BY <1>0, <3>1, <3>2, OtherCalls DEF Counting
    <3>4. Starting => Starting'
      BY <1>0, <3>1, <3>2, OtherCalls DEF Starting
    <3> QED
      BY <1>0, <1>2, <2>0, <3>1, <3>2, <3>3, <3>4 DEF ExitOk
  <2>2. CASE Request(t)
    <3>1. /\ GoTo(t, "count") /\ Top(t).at = "request" /\ "count" \in Places \ Driving
          /\ UNCHANGED <<drives, joins>> /\ requested'
      BY <2>2, OrderGoes DEF Request, At, Places, Driving, passVars
    <3>2. OthersKept(t) /\ (~Driven => ~Driven') /\ CallAt(t, n, {"count"})'
      BY <1>3, <3>1
    <3>3. Counting'
      BY <1>0, <3>2 DEF Counting
    <3>4. Starting => Starting'
      BY <1>0, <3>1, <3>2, OtherCalls DEF Starting
    <3> QED
      BY <1>0, <1>2, <2>0, <3>1, <3>2, <3>3, <3>4 DEF ExitOk
  <2>3. CASE Count(t) /\ Drives
    <3>1. /\ GoTo(t, "arm") /\ "arm" \in Places /\ drives = 0 /\ drives' # 0
          /\ UNCHANGED <<requested, joins>>
      BY <2>3 DEF Count, Drives, Places, passVars
    <3>2. CallAt(t, n, {"arm"})'
      BY <1>3, <3>1
    <3>3. Starting'
      BY <1>0, <3>2 DEF Starting, CallAt
    <3>4. main # "atexit"
      BY <2>0, <3>1
    <3> QED
      BY <1>0, <1>2, <3>1, <3>3, <3>4 DEF ExitOk
  <2>4. CASE Count(t) /\ ~Drives
    <3>1. /\ Return(t) /\ Top(t).at = "count" /\ drives # 0 /\ drives' # 0
          /\ UNCHANGED <<requested, joins>>
      BY <1>1, <2>4 DEF Count, At, Drives, passVars
    <3>2. OthersKept(t) /\ OnlyOld
      BY <1>0, <3>1, ReturnKeepsOthers, Returned
    <3>3. (Starting => Starting') /\ (~Driven => ~Driven')
      BY <1>0, <3>1, <3>2, OtherCalls DEF Starting, Driven, OnlyOld, CallAt
    <3> QED
      BY <1>0, <1>2, <2>0, <3>1, <3>3 DEF ExitOk
  <2>5. CASE Arm(t) \/ StartPass(t) \/ RegisterJoin(t)
    <3>1. /\ CallAt(t, n, Driving) /\ drives' = drives /\ requested' = requested
      BY <1>0, <2>5 DEF Arm, StartPass, RegisterJoin, At, CallAt, Driving, signalVars
    <3>2. drives # 0 /\ main # "atexit"
      BY <1>0, <2>0, <3>1 DEF ShutdownInv, OneDriver, Driven
    <3>3. joins' \/ Starting'
      <4>1. CASE RegisterJoin(t)
        BY <3>2, <4>1 DEF RegisterJoin
      <4>2. CASE Arm(t) \/ StartPass(t)
        <5>1. PICK where \in {"start", "register"} : GoTo(t, where)
          BY <4>2 DEF Arm, StartPass
        <5>2. CallAt(t, n, {where})'
          BY <1>3, <5>1 DEF Places
        <5>3. CallAt(t, n, {"arm", "start", "register"})'
          BY <5>1, <5>2 DEF CallAt
        <5> QED
          BY <1>0, <5>3 DEF Starting
      <4> QED
        BY <2>5, <4>1, <4>2
    <3> QED
      BY <1>0, <1>2, <3>1, <3>2, <3>3 DEF ExitOk
  <2>6. CASE Release(t)
    <3>1. /\ Return(t) /\ Top(t).at = "release" /\ CallAt(t, n, Driving)
          /\ UNCHANGED <<requested, joins, drives>>
      BY <1>0, <2>6 DEF Release, At, CallAt, Driving, signalVars
    <3>2. OthersKept(t) /\ drives # 0 /\ main # "atexit"
      BY <1>0, <2>0, <3>1, ReturnKeepsOthers DEF ShutdownInv, OneDriver, Driven
    <3>3. Starting => Starting'
      BY <1>0, <3>1, <3>2, OtherCalls DEF Starting
    <3> QED
      BY <1>0, <1>2, <2>0, <3>1, <3>2, <3>3 DEF ExitOk
  <2> QED
    BY <2>1, <2>2, <2>3, <2>4, <2>5, <2>6 DEF RunShutdown
<1> QED
  BY <1>4, <1>5 DEF RestOk

\* A call begins: not one that drives, and in atexit only once it was asked for.
LEMMA PushExit ==
  ASSUME ShutdownInv, ExitOk, NEW t \in Threads, NEW kind \in Kinds, Push(t, Asked(kind)),
         UNCHANGED <<requested, drives, joins, hard, nudged, pass>>,
         main' = "atexit" => main = "atexit" /\ requested, main' # "exited"
  PROVE  ExitOk'
<1>1. StackOk' /\ OldOrNew(kind) /\ StackOk
  BY Pushed DEF ShutdownInv
<1>2. AllKept
  <2>1. Asked(kind) \in Calls
    BY DEF Asked, Call, Calls, Order, Places
  <2> QED
    BY <1>1, <2>1, PushKeepsAll
<1>3. (Counting => Counting') /\ (Starting => Starting')
  BY <1>2 DEF AllKept, Counting, Starting, CallAt
<1>4. ~Driven => ~Driven'
  BY <1>1, PlacesAre DEF OldOrNew, Driven, CallAt, Asked, Call, Driving
<1> QED
  BY <1>3, <1>4 DEF ExitOk

LEMMA CrashOrSignalExit ==
  ASSUME Daemons = {}, ShutdownInv, ExitOk, (\E t \in Threads : Crash(t)) \/ MainCrashes \/ Handler
  PROVE  ExitOk'
<1> USE DEF passVars, timeVars, signalVars
<1>1. Main \in Threads /\ {"fatal", "graceful", "forced"} \subseteq Kinds
  BY DEF Threads, Kinds
<1>2. CASE \E t \in Threads : Crash(t)
  <2>1. PICK t \in Threads : Crash(t)
    BY <1>2
  <2>2. main' = main /\ main # "exited" /\ main # "atexit"
    BY <2>1 DEF Crash, Running
  <2> QED
    BY <1>1, <2>1, <2>2, PushExit DEF Crash
<1>3. CASE MainCrashes
  BY <1>1, <1>3, PushExit DEF MainCrashes
<1>4. CASE HandleNudge \/ HandleHard
  BY <1>4 DEF HandleNudge, HandleHard, ExitOk
<1>5. CASE HandleStart
  <2>1. main' = main /\ main # "exited" /\ main # "atexit"
    BY <1>5 DEF HandleStart, Signalled, Running
  <2> QED
    BY <1>1, <1>5, <2>1, PushExit DEF HandleStart
<1>6. CASE HandleConfirm
  <2>1. PICK kind \in Kinds : Push(Main, Asked(kind))
    <3>1. Kind \in Kinds
      BY <1>6, KindRuns DEF HandleConfirm, ShutdownInv, Announced
    <3> QED
      BY <1>1, <1>6, <3>1 DEF HandleConfirm
  <2>2. main' = main /\ main # "exited" /\ requested
    BY <1>6 DEF HandleConfirm, Signalled, Running
  <2> QED
    BY <1>1, <1>6, <2>1, <2>2, PushExit DEF HandleConfirm
<1> QED
  BY <1>2, <1>3, <1>4, <1>5, <1>6 DEF Handler

LEMMA PassExit ==
  ASSUME ExitOk, PassStep \/ (\E c \in Callbacks : CallbackEnds(c)) \/ Tick \/ GraceEnds
  PROVE  ExitOk'
<1> USE DEF passVars, timeVars, signalVars, PassTo
<1>1. /\ UNCHANGED <<stack, requested, drives, joins, hard, main>> /\ main # "exited"
      /\ nudged => nudged'
  BY DEF PassStep, Pick, Join, Complete, Linger, Nudge, CallbackEnds, Tick, GraceEnds, Running
<1> QED
  BY <1>1 DEF ExitOk, Counting, Starting, Driven, Calling, CallAt

LEMMA MainExit ==
  ASSUME Daemons = {}, ShutdownInv, ExitOk, MainStep
  PROVE  ExitOk'
<1> USE DEF passVars, timeVars, signalVars
<1>0. Main \in Threads /\ "graceful" \in Kinds
  BY DEF Threads, Kinds
<1>1. CASE ProgramCloses
  BY <1>0, <1>1, PushExit DEF ProgramCloses
<1>2. CASE ProgramReturns \/ AwaitComplete \/ StartTail \/ EndTail
  <2>1. /\ UNCHANGED <<stack, requested, drives, joins, hard, nudged, pass>>
        /\ main' \notin {"atexit", "exited"}
    BY <1>2 DEF ProgramReturns, AwaitComplete, StartTail, EndTail, MainGoes
  <2> QED
    BY <2>1 DEF ExitOk, Counting, Starting, Driven, Calling, CallAt
<1>3. CASE JoinThreads
  <2>1. \A t \in Threads : stack[t] = <<>>
    BY <1>3 DEF JoinThreads, MainGoes, MainFree, Threads
  <2>2. ~Counting /\ ~Starting /\ ~Driven /\ ~Calling
    BY <2>1 DEF Counting, Starting, Driven, Calling, CallAt
  <2>3. /\ UNCHANGED <<stack, requested, drives, joins, hard, nudged, pass>>
        /\ main' = "atexit"
    BY <1>3 DEF JoinThreads, MainGoes
  <2>4. ~Counting' /\ ~Starting' /\ ~Driven' /\ ~Calling'
    BY <2>2, <2>3 DEF Counting, Starting, Driven, Calling, CallAt
  <2> QED
    BY <2>2, <2>3, <2>4 DEF ExitOk
<1>4. CASE Exit
  <2>1. /\ UNCHANGED <<stack, requested, drives, joins, hard, nudged, pass>>
        /\ main = "atexit" /\ main' = "exited" /\ (joins /\ ~hard => pass = "ended")
    BY <1>4 DEF Exit, MainGoes, HeldAtExit
  <2> QED
    BY <2>1 DEF ExitOk, Counting, Starting, Driven, Calling, CallAt
<1> QED
  BY <1>1, <1>2, <1>3, <1>4 DEF MainStep

\* A process whose fatal exceptions come from threads that hold its exit does
\* not exit, once a shutdown was requested, before every callback had its turn
\* and the required ones returned.  (MCShutdownDaemon: a daemon thread breaks
\* it.)
THEOREM ExitWaitsForPass ==
  ASSUME Daemons = {}
  PROVE  Spec => []ExitHeldForPass
<1>1. Init => ExitOk
  BY DEF Init, ExitOk, Counting, Starting, Driven, Calling, CallAt
<1>2. TypeInv /\ ExitOk /\ [Next]_vars => ExitOk'
  <2> SUFFICES ASSUME TypeInv, ExitOk, [Next]_vars PROVE ExitOk'
    OBVIOUS
  <2> USE DEF TypeInv
  <2>1. CASE \E t \in Threads : RunShutdown(t)
    BY <2>1, RunShutdownExit
  <2>2. CASE (\E t \in Threads : Crash(t)) \/ MainCrashes \/ Handler
    BY <2>2, CrashOrSignalExit
  <2>3. CASE PassStep \/ (\E c \in Callbacks : CallbackEnds(c)) \/ Tick \/ GraceEnds
    BY <2>3, PassExit
  <2>4. CASE MainStep
    BY <2>4, MainExit
  <2>5. CASE UNCHANGED vars
    BY <2>5 DEF vars, signalVars, passVars, timeVars, ExitOk, Counting, Starting, Driven, Calling, CallAt
  <2> QED
    BY <2>1, <2>2, <2>3, <2>4, <2>5 DEF Next
<1>3. TypeInv /\ ExitOk => ExitHeldForPass
  <2> SUFFICES ASSUME TypeInv, ExitOk, main = "exited", requested, ~hard
               PROVE  /\ pass \in {"done", "linger", "nudge", "ended"}
                      /\ \A c \in Required : fate[c] \in {"run", "skipped"}
    BY DEF ExitHeldForPass
  <2>1. pass = "ended"
    BY DEF ExitOk, TypeInv, ShutdownInv, OneDriver, RestOk
  <2>2. turn = Len(Teardowns) + 1 /\ Len(Teardowns) \in Nat
    BY <2>1, TurnsAre DEF TypeInv, TurnsOk
  <2>3. \A i \in 1..Len(Teardowns) :
          Teardowns[i] \in Required => fate[Teardowns[i]] \in {"run", "skipped"}
    BY <2>2 DEF TypeInv, TurnsOk
  <2>4. \A c \in Required : \E i \in 1..Len(Teardowns) : c = Teardowns[i]
    BY ShutdownAssumption, TurnsAre
  <2> QED
    BY <2>1, <2>3, <2>4
<1> QED
  BY <1>1, <1>2, <1>3, TypeInvHolds, PTL DEF Spec
=============================================================================
